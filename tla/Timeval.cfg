CONSTANTS
  Max = 7
  MaxNow = 5
SPECIFICATION Spec
INVARIANTS
  
  
  
  SpanIsFromNow
  ArithmeticSaturates
CHECK_DEADLOCK FALSE
