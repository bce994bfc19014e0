\* Claims, runtime calls and every way to delete. Symmetric in the runners only:
\* the replicas get different requests.
SPECIFICATION Spec
CONSTANTS
  p1 = p1
  p2 = p2
  Runner = {r1, r2}
  Session = {s1}
  NoRunner = NoRunner
  Replica = {p1, p2}
  Served <- Calls
  Unreliable = {p1, p2}
  MaxRound = 2
  MaxDeletes = 1
SYMMETRY RunnerSymmetry
INVARIANTS
  RouteInv
  RouteNamesAHandoff
  AcceptedIsCurrent
CHECK_DEADLOCK FALSE
