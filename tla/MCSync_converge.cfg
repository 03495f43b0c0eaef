\* Contents of their own: the tree comes to mirror upstream.
SPECIFICATION MCFairSpec
CONSTANTS
  s1 = s1
  s2 = s2
  a1 = a1
  a2 = a2
  b1 = b1
  ca1 = ca1
  ca2 = ca2
  cb1 = cb1
  x = x
  y = y
  w = w
  v = v
  i1 = i1
  ci1 = ci1
  None = None
  Torn = Torn
  NoEntry = NoEntry
  Sources = {s1, s2}
  SourceOf <- MCSourceOf
  PathOf <- MCPathOf
  Uris = {a1, b1, i1}
  Concepts = {ca1, cb1, ci1}
  Contents = {x, y, w, v}
  Fragile = {}
  Reserved = {i1}
  Writes <- OwnWrites
  MaxEdits = 1
  MaxDeaths = 1
  MaxManual = 1
PROPERTIES
  Converges
