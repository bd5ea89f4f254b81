CONSTANTS
  Nodes <- MCNodes
  Kids <- MCKids
  Seeds <- MCSeeds
  Null = Null
  MaxDrives = 2
  AbandonEarly = TRUE
SPECIFICATION Spec
INVARIANT ResultsInClosure
