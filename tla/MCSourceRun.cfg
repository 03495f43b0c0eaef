\* Two documents, two versions, every kind of source; any answer of the worker.
SPECIFICATION MCSpec
CONSTANTS
  p = p
  q = q
  v = v
  w = w
  Paths = {p, q}
  Docs = {p, q}
  Versions = {v, w}
  Absent = Absent
  PageSize = 1
  Setups <- AllSetups
  MaxRetries = 2
  Old = Old
  NoDoc = NoDoc
  MaxErrors = 1
INVARIANTS
  TypeOK
  PulledIsUpstream
  OutputIsGated
PROPERTIES
  Recovers
  EveryDocDecided
