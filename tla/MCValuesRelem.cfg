CONSTANTS
  Null = Null
  W = 4
  Codes = {1, 2, 255}
  MaxDepth = 6
  MaxLen = 2
  MaxOps = 3
  Ops = {o1, o2}
  Width = 3
SPECIFICATION Spec
INVARIANT OpStream
\* A stack underflow (need() throwing) aborts the query: the stack model
\* stops there.
CHECK_DEADLOCK FALSE
