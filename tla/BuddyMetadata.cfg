CONSTANTS
  Orders = 4
  Pages = 13
  Metadata = 2
  Requests = {1, 2, 4}
  LastFirst = TRUE
SPECIFICATION Spec
INVARIANT MetadataUsed
