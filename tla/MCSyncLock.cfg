\* Two processes whose watch loops keep ticking, two kills, reused pids.
SPECIFICATION FairSpec
CONSTANTS
  Procs = {p1, p2}
  NoPid = NoPid
  MaxCrashes = 2
INVARIANTS
  TypeOK
  GuardedExclusion
  LossesAreLapses
PROPERTIES
  LockProgress
