\* Tables of up to five bytes over two characters and NUL, needles of up to
\* two characters, every table size up to the buffer length.
CONSTANTS
  Chars <- MCChars
  MaxTab = 5
  MaxNeedle = 2
SPECIFICATION Spec
\* A behaviour is one call, which ends when it returns.
CHECK_DEADLOCK FALSE
INVARIANTS
  TypeOK
  FindIsFirstOccurrence
  
