CONSTANT Null = Null
SPECIFICATION Spec
INVARIANT AtvalIsAttribute
