\* Intervals 3 (own) and 2 (global), ticks 1 apart, two kills or exceptions, two
\* other processes (a manual sync, a timer).
SPECIFICATION FairSpec
CONSTANTS
  s1 = s1
  s2 = s2
  Unset = Unset
  Sources = {s1, s2}
  Schedule <- Own3
  Global = 2
  Interval = 1
  Horizon = 3
  MaxLosses = 2
  MaxOthers = 2
INVARIANTS
  TypeOK
  NeverEarly
  NeverYounger
PROPERTIES
  RequestStops
  EverySourceSynced
