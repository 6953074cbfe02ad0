\* Every well-formed structure block of up to six entries at version 17,
\* and of up to four entries at versions 3 and 16 (names of length 0 and 4,
\* the legacy alignment of 8-byte values), intact and damaged, under every
\* job.
CONSTANTS
  Width <- MCWidth
  FDT_MAGIC <- MCMagic
  AssumeMask = {}
  Blobs <- BlobsAll
  Parents <- MCParents
SPECIFICATION Spec
INVARIANTS
  WalkTypeOK
  YieldsFollowTree
  CompleteWhenIntact
  ReadsInStructBlock
  YieldsAreNodes

  
