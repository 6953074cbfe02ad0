CONSTANTS
  Width <- MCWidth
  FDT_MAGIC <- MCMagic
  AssumeMask = {}
  Blobs <- MCBlobs
INIT Init
NEXT Next
INVARIANTS
  TypeOK
  CheckMatchesSpec
