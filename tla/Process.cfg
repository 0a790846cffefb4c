CONSTANTS
  Threads = {t1, t2, t3}
  MaxRuntimes = 3
SPECIFICATION ProcessSpec
INVARIANTS
  RuntimeInv
  OneRuntime
  GotIsLive
  RequestsSeePatch
PROPERTIES
  RequestsStart
CHECK_DEADLOCK FALSE
