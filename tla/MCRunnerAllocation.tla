--------------------------- MODULE MCRunnerAllocation ---------------------------
(* Instances of RunnerAllocation for TLC. *)
EXTENDS RunnerAllocationInvariant, TLC

(* Every runner fits every session. *)
AllMatch == Runner \X Session

(* Anything may be deleted. *)
Everything == Session \cup Runner

(* Runners, and the requests in service, are interchangeable. *)
Symmetry == Permutations(Runner) \cup Permutations(Handler)
=============================================================================
