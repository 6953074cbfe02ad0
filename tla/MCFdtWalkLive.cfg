\* Termination of every job under weak fairness of the running call, on the
\* version-17 blobs of up to six entries, intact and damaged.
CONSTANTS
  Width <- MCWidth
  FDT_MAGIC <- MCMagic
  AssumeMask = {}
  Blobs <- BlobsLive
  Parents <- MCParentsLive
SPECIFICATION FairSpec
PROPERTY
  Termination
