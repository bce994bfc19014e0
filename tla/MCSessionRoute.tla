----------------------------- MODULE MCSessionRoute -----------------------------
(* Instances of SessionRoute for TLC. *)
EXTENDS SessionRouteInvariant, TLC

CONSTANTS p1, p2

(* Every replica gets every request, or all but some. *)
Everywhere(kinds) == Replica \X kinds

Calls ==
  Everywhere({"claim", "poll", "delete"})
    \cup {<<p1, "create">>, <<p1, "push">>, <<p2, "search">>, <<p2, "reconcile">>}

(* One replica serves the managers, the other everybody else. *)
Repair == {<<p1, k>> : k \in {"create", "claim", "delete"}} \cup {<<p2, "heartbeat">>}

RunnerSymmetry == Permutations(Runner)
Symmetry == Permutations(Runner) \cup Permutations(Replica)
=============================================================================
