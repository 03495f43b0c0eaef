\* Two models, sidecars of either, failing transforms, generations turned on,
\* a hook that dies.
SPECIFICATION Spec
CONSTANTS
  s = s
  a = a
  b = b
  ca = ca
  cb = cb
  x = x
  y = y
  m1 = m1
  m2 = m2
  None = None
  NoEntry = NoEntry
  NoRow = NoRow
  Sources = {s}
  Uris = {a, b}
  Concepts = {ca, cb}
  Contents = {x, y}
  HomeOf <- MCHomeOf
  Models = {m1, m2}
  Served = m1
  HardLinks = TRUE
  MayTurnOn = TRUE
  MaxEdits = 4
  MaxSwitches = 1
  MaxDeaths = 1
INVARIANTS
  TypeOK
  RowsKeepKey
  EveryEntryEmbedded
  FindsItsOwn
