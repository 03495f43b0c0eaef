\* A hot-reloading server over linked or copied generations, one concept of
\* which another bundle has as well; keep = 1, so that prunes hit what it reads.
SPECIFICATION MCSpec
CONSTANTS
  Torn = Torn
  NoFile = NoFile
  c1 = c1
  c2 = c2
  x = x
  y = y
  Concepts = {c1, c2}
  Twins = {c2}
  MaxWrites = 1
  Contents = {x, y}
  Linking = {TRUE, FALSE}
  HotReload = TRUE
  Keep = 1
  MaxGens = 2
  MaxCrashes = 0
INVARIANTS
  ServingTypeOK
PROPERTIES
  ImplementsPublication
