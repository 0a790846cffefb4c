CONSTANTS
  MsgBuf = 1
  ReqBuf = 1
  MaxMessages = 2
  MaxDispatches = 1
  Batches <- BidiBatches
  Plugins = {TRUE}
  Paths = {TRUE}
  Deadlines = {"pending"}
SPECIFICATION FairSpec
PROPERTIES
  DeadlineBoundsCall
