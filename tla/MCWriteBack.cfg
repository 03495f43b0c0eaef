\* Three calls of two sessions: an exception, a kill, a worktree that stays.
SPECIFICATION Spec
CONSTANTS
  s1 = s1
  s2 = s2
  clone = clone
  lone = lone
  url = url
  drive = drive
  twin = twin
  other = other
  Nobody = Nobody
  Sessions = {s1, s2}
  Locals = {clone, lone}
  Origins = {clone}
  Urls = {url}
  Drives = {drive, twin, other}
  FileName <- Names
  MaxCalls = 3
  MaxFaults = 1
  MaxKills = 1
  MaxStuck = 1
INVARIANTS
  TypeOK
  AnsweredIsAudited
  AnswersAreKept
  NothingLeftBehind
SYMMETRY Alike
CHECK_DEADLOCK FALSE
