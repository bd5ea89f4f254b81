CONSTANT Null = Null
SPECIFICATION Spec
INVARIANT CookedUnitsAreCompileUnits
