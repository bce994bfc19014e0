\* Claims and deletions on one replica, heartbeats on the other, under fairness.
SPECIFICATION FairSpec
CONSTANTS
  p1 = p1
  p2 = p2
  Runner = {r1, r2}
  Session = {s1}
  NoRunner = NoRunner
  Replica = {p1, p2}
  Served <- Repair
  Unreliable = {p1}
  MaxRound = 2
  MaxDeletes = 0
INVARIANTS
  RouteInv
PROPERTIES
  RouteFollowsAllocation
  LeaksNoWorkload
CHECK_DEADLOCK FALSE
