\* One runner and one request at a time; a claim is lost between its two writes.
SPECIFICATION FairSpec
CONSTANTS
  Runner = {r1}
  Handler = {h1}
  Session = {1}
  NoRunner = NoRunner
  Matches <- AllMatch
  Inventoried = {}
  Reportable = {}
  Removable = {}
  MaxAttempts = 1
PROPERTIES
  ClaimingIsResolved
CHECK_DEADLOCK FALSE
