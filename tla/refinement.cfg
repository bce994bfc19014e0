\* The inductive invariant and the refinement, with two sessions in the queue.
SPECIFICATION Spec
CONSTANTS
  Runner = {r1, r2}
  Handler = {h1, h2}
  Session = {1, 2}
  NoRunner = NoRunner
  Matches <- AllMatch
  Inventoried = {r1, r2}
  Reportable = {}
  Removable = {}
  MaxAttempts = 1
SYMMETRY Symmetry
INVARIANTS
  IInv
  OneAssignmentPerRunner
PROPERTIES
  ImplementsHandoff
CHECK_DEADLOCK FALSE
