CONSTANTS
  Width = 3
  Consts <- MCConsts
  Null = Null
SPECIFICATION Spec
INVARIANT HighIsEnd
