\* A run writes through a link into the generation it started from.
SPECIFICATION Spec
CONSTANTS
  Torn = Torn
  NoFile = NoFile
  c1 = c1
  x = x
  y = y
  Concepts = {c1}
  MaxWrites = 1
  Contents = {x, y}
  Linking = {TRUE}
  Keep = 2
  MaxGens = 3
  MaxCrashes = 0
SYMMETRY Symmetry
INVARIANTS
  PublishedUntouched
