\* Every staged file is a hard link; four generations, a run that is killed.
SPECIFICATION Spec
CONSTANTS
  Torn = Torn
  NoFile = NoFile
  c1 = c1
  x = x
  y = y
  Concepts = {c1}
  MaxWrites = 1
  Contents = {x}
  Linking = {TRUE}
  Keep = 2
  MaxGens = 4
  MaxCrashes = 1
SYMMETRY Symmetry
INVARIANTS
  CurrentResolves
  RetentionHolds
