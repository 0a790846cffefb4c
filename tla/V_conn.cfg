CONSTANTS
  MsgBuf = 1
  ReqBuf = 1
  MaxMessages = 1
  MaxDispatches = 1
  Batches <- StreamBatches
  Plugins = {TRUE}
  Paths = {TRUE}
  Deadlines = {"pending"}
SPECIFICATION Spec
INVARIANTS
  ConnectionErrorShown
