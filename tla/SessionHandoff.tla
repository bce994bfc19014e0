----------------------------- MODULE SessionHandoff -----------------------------
(***************************************************************************)
(* What the runner allocation protocol promises for a session, without     *)
(* records, versions, leases, requests or failures: a session is offered   *)
(* to one runner at a time, every offer after a withdrawal or a takeover   *)
(* has a new round, only the current offer can start, and after a start    *)
(* there are no more offers.                                               *)
(***************************************************************************)
EXTENDS Naturals

CONSTANTS
  Runner,     \* runners
  Session,    \* sessions
  NoRunner    \* nobody

VARIABLES
  phase,      \* phase[s]: where the session is
  round,      \* round[s]: the round of the current offer, or of the next one
  holder,     \* holder[s]: the runner the session is offered to
  admitted    \* the offers whose runtime was admitted

handoffVars == <<phase, round, holder, admitted>>

HandoffPhase == {"new", "waiting", "offered", "started", "gone"}

Offered(s) == [session |-> s, runner |-> holder[s], round |-> round[s]]

HandoffInit ==
  /\ phase = [s \in Session |-> "new"]
  /\ round = [s \in Session |-> 0]
  /\ holder = [s \in Session |-> NoRunner]
  /\ admitted = {}

Submit(s) ==
  /\ phase[s] = "new"
  /\ phase' = [phase EXCEPT ![s] = "waiting"]
  /\ round' = [round EXCEPT ![s] = 1]
  /\ UNCHANGED <<holder, admitted>>

(* To a waiting session's first taker, or over from a silent one. *)
Offer(s, r) ==
  /\ phase[s] \in {"waiting", "offered"}
  /\ phase' = [phase EXCEPT ![s] = "offered"]
  /\ round' = [round EXCEPT ![s] = IF phase[s] = "offered" THEN @ + 1 ELSE @]
  /\ holder' = [holder EXCEPT ![s] = r]
  /\ UNCHANGED admitted

Withdraw(s) ==
  /\ phase[s] = "offered"
  /\ phase' = [phase EXCEPT ![s] = "waiting"]
  /\ round' = [round EXCEPT ![s] = @ + 1]
  /\ holder' = [holder EXCEPT ![s] = NoRunner]
  /\ UNCHANGED admitted

(* Every call of the started runtime is admitted again. *)
Start(s) ==
  /\ phase[s] \in {"offered", "started"}
  /\ phase' = [phase EXCEPT ![s] = "started"]
  /\ admitted' = admitted \cup {Offered(s)}
  /\ UNCHANGED <<round, holder>>

Remove(s) ==
  /\ phase[s] # "new"
  /\ phase' = [phase EXCEPT ![s] = "gone"]
  /\ round' = [round EXCEPT ![s] = 0]
  /\ holder' = [holder EXCEPT ![s] = NoRunner]
  /\ UNCHANGED admitted

HandoffNext ==
  \E s \in Session :
    \/ Submit(s) \/ Withdraw(s) \/ Start(s) \/ Remove(s)
    \/ \E r \in Runner : Offer(s, r)

HandoffSpec == HandoffInit /\ [][HandoffNext]_handoffVars
=============================================================================
