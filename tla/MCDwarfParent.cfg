CONSTANT Null = Null
SPECIFICATION Spec
INVARIANT ParentStaysInContext
