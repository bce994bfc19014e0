\* Runners die and requests are lost; nobody deletes anything.
SPECIFICATION FairSpec
CONSTANTS
  Runner = {r1, r2}
  Handler = {h1}
  Session = {1}
  NoRunner = NoRunner
  Matches <- AllMatch
  Inventoried = {r1, r2}
  Reportable = {1}
  Removable = {}
  MaxAttempts = 2
PROPERTIES
  WaitingIsServed
  DeadClaimIsRecovered
CHECK_DEADLOCK FALSE
