CONSTANTS
  MsgBuf = 1
  ReqBuf = 1
  MaxMessages = 2
  MaxDispatches = 1
  Batches <- WaitBatches
  Plugins = {FALSE}
  Paths = {TRUE}
  Deadlines = {"none", "pending"}
SPECIFICATION FairSpec
INVARIANT NoMutualWait
PROPERTIES
  DeadlineBoundsReceive
  ReceiveReturns
  FreedStops
