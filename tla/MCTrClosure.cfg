CONSTANTS
  Nodes <- MCNodes
  Kids <- MCKids
  Seeds <- MCSeeds
  Null = Null
  MaxDrives = 2
  AbandonEarly = FALSE
SPECIFICATION Spec
INVARIANTS TypeOK
PROPERTIES NoDuplicateResult DriveEnds ImplementsClosureSpec
