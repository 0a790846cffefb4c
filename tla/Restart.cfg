CONSTANTS
  MaxRestarts = 4
SPECIFICATION ConnectionSpec
INVARIANTS
  RestartIsTransparent
  
