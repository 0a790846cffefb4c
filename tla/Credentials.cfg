CONSTANTS
  Pems = {pem}
  NoPem = NoPem
  Callables = {f}
  MaxCreds = 3
  MaxDepth = 3
SPECIFICATION Spec
INVARIANTS
  
  LockedWhileRunning
  IdsTellApart
