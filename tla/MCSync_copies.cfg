\* Two sources hold the same document and are due at different times.
SPECIFICATION FairSpec
CONSTANTS
  s1 = s1
  s2 = s2
  a1 = a1
  a2 = a2
  b1 = b1
  ca1 = ca1
  ca2 = ca2
  cb1 = cb1
  x = x
  y = y
  w = w
  v = v
  i1 = i1
  ci1 = ci1
  None = None
  Torn = Torn
  NoEntry = NoEntry
  Sources = {s1, s2}
  SourceOf <- MCSourceOf
  PathOf <- MCPathOf
  Uris = {a1, b1}
  Concepts = {ca1, cb1}
  Contents = {x}
  Fragile = {}
  Reserved = {}
  Writes <- AnyWrite
  MaxEdits = 0
  MaxDeaths = 0
  MaxManual = 0
PROPERTIES
  Converges
