CONSTANTS
  MsgBuf = 2
  ReqBuf = 1
  MaxMessages = 4
  MaxDispatches = 1
  Batches <- StreamBatches
  Plugins = {TRUE}
  Paths = {TRUE}
  Deadlines = {"pending"}
SPECIFICATION Spec
INVARIANTS
  TypeOK
  IndInv
  NullMeansAll
  TruthfulStatus
  HonestDeadline
PROPERTIES
  InOrder
  NoReRun
  KeepsContract
