\* Three concepts: every graph, every kind of link, every scope, searches.
SPECIFICATION MCSpec
CONSTANTS
  a = a
  b = b
  c = c
  i = i
  x = x
  y = y
  here = here
  away = away
  board = board
  Public = Public
  Absent = Absent
  Malformed = Malformed
  Unset = Unset
  Nothing = Nothing
  Here = Here
  Nowhere = Nowhere
  NotReached = NotReached
  Concepts = {a, b, c}
  Others = {i}
  Bundles = {here, away}
  Loaded = {here}
  Targets <- AllTargets
  start = a
  MaxDepth = 3
  Names = {x, y}
  Directories <- Tree
  Labels = {Public, board}
  Sorted <- InOrder
  MaxScore = 2
  Searches <- AllSearches
  Unasked = Unasked
INVARIANTS
  ReadingTypeOK
  NearestDecides
  ReportIsRight
  ShortestInView
  AnswerHolds
  AnswerIsComplete
PROPERTIES
  CallEnds
CHECK_DEADLOCK FALSE
