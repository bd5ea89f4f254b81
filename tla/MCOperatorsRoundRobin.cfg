CONSTANT Null = Null
SPECIFICATION Spec
INVARIANT RoundRobin
