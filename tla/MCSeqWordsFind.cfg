CONSTANTS
  Scalars <- MCScalars
  TypeCode <- MCTypeCode
  MaxLen = 2
SPECIFICATION Spec
INVARIANT StartsImpliesFind
