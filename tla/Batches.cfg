CONSTANTS
  MsgBuf = 1
  ReqBuf = 1
  MaxMessages = 0
  MaxDispatches = 2
  Batches <- CutBatches
  Plugins = {TRUE}
  Paths = {TRUE, FALSE}
  Deadlines = {"pending", "passed"}
SPECIFICATION Spec
INVARIANTS
  FinishedMeansOver
  NeverConsumed
  UserMetadataOnce
PROPERTIES
  ExpiredIsLocal
