\* A property whose length is 2^16 - 12: the cursor of fdt_next_tag() wraps
\* back to the start of the entry.
CONSTANTS
  Width <- MCWidth
  FDT_MAGIC <- MCMagic
  AssumeMask = {}
  Blobs <- BlobsWrap
  Parents <- MCParentsLive
SPECIFICATION FairSpec
PROPERTY
  Termination
