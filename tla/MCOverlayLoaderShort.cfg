\* Two loads over both boot states, every file, full and empty reads.
CONSTANTS
  Width <- MCWidth
  FDT_MAGIC <- MCMagic
  AssumeMask = {}
  Files <- MCFiles
  ShortReads = {0}
  MaxLoads = 2
SPECIFICATION Spec
\* The kernel stops the module at an oops, and the last rmmod ends a run.
CHECK_DEADLOCK FALSE
INVARIANT
  CheckReadsInBuffer
