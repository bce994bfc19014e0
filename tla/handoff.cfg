\* Two runners and two requests in flight compete for one session; everything may be deleted.
SPECIFICATION Spec
CONSTANTS
  Runner = {r1, r2}
  Handler = {h1, h2}
  Session = {1}
  NoRunner = NoRunner
  Matches <- AllMatch
  Inventoried = {r1, r2}
  Reportable = {}
  Removable <- Everything
  MaxAttempts = 2
SYMMETRY Symmetry
INVARIANTS
  NoDuplicateStart
  StartedIsCurrent
  HandoffsDistinct
  AssignedRunnerIsFenced
  RetiredNeverAssigned
PROPERTIES
  HandoffIsFresh
  RunningIsFinal
CHECK_DEADLOCK FALSE
