\* A subnode iteration from the unaligned offset 2 of an intact blob.
CONSTANTS
  Width <- MCWidth
  FDT_MAGIC <- MCMagic
  AssumeMask = {}
  Blobs <- BlobsLive
  Parents <- MCParents
SPECIFICATION Spec
INVARIANT SubnodesReportBadOffset
