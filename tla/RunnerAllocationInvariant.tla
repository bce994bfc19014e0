------------------------ MODULE RunnerAllocationInvariant ------------------------
(***************************************************************************)
(* Why RunnerAllocation is safe: the inductive invariant behind its        *)
(* properties, and the state of SessionHandoff its records stand for.      *)
(***************************************************************************)
EXTENDS RunnerAllocation

(* Requests between their two writes: each answers for the runner it has   *)
(* taken out of "idle".                                                    *)
Engaged(h) == handler[h].pc \in {"write", "rollback", "settleRunning", "settleIdle"}

(* Those of them whose runner has no allocation.                            *)
EmptyEngaged(h) == handler[h].pc \in {"write", "rollback", "settleIdle"}

(* The claim the request is about to answer with.                           *)
Answer(h) == [session |-> handler[h].session, runner |-> handler[h].runner,
              gen |-> handler[h].snap.gen, lease |-> handler[h].snap.lease]

Issued == runtimes \cup {Answer(h) : h \in {k \in Handler : handler[k].pc = "respond"}}

(* Requests and workers name what they are about, and a request is never    *)
(* about a session that was not enqueued.                                   *)
NamesInv ==
  /\ \A h \in Handler :
       /\ handler[h].pc \notin {"free", "purge"} =>
            /\ handler[h].session \in Session
            /\ alloc[handler[h].session].status # "new"
       /\ handler[h].pc \in {"reserve", "write", "rollback", "respond",
                             "settleRunning", "settleIdle", "delRunner", "adminAlloc", "purge"} =>
            handler[h].runner \in Runner
  /\ \A r \in Runner : worker[r].phase \in {"holding", "acked"} => worker[r].session \in Session

(* Only a live allocation names a runner.                                   *)
RecordInv ==
  \A s \in Session :
    /\ Live(s) <=> alloc[s].runner \in Runner
    /\ alloc[s].status \in {"new", "deleted"} => alloc[s].gen = 0

(* A runner that has not registered is unknown everywhere.                  *)
UnregisteredInv ==
  \A r \in Runner : worker[r].phase = "new" =>
    /\ runner[r] \in {"absent", "tombstone"}
    /\ r \in retired => runner[r] = "tombstone"
    /\ \A s \in Session : ~HeldBy(s, r)
    /\ \A h \in Handler : handler[h].runner # r

(* A runner is out of "idle" on behalf of one request or one allocation.    *)
FenceInv ==
  /\ \A h \in Handler : Engaged(h) => runner[handler[h].runner] \notin {"idle", "draining"}
  /\ \A h, k \in Handler :
       Engaged(h) /\ Engaged(k) /\ handler[h].runner = handler[k].runner => h = k
  /\ \A h \in Handler, s \in Session :
       /\ EmptyEngaged(h) => ~HeldBy(s, handler[h].runner)
       /\ handler[h].pc = "settleRunning" /\ HeldBy(s, handler[h].runner) =>
            alloc[s].status # "leased"
  /\ \A h \in Handler :
       Engaged(h) /\ handler[h].runner \in retired => handler[h].runner \in erased

(* A runner without a record, or with a tombstone, that nobody deleted has  *)
(* no allocation, and no request is about to give it one.                   *)
LostInv ==
  \A r \in Runner : runner[r] \in {"absent", "tombstone"} /\ r \notin erased =>
    /\ \A s \in Session : ~HeldBy(s, r)
    /\ \A h \in Handler : Engaged(h) => handler[h].runner # r

(* The compare-and-swap of a claim succeeds only on what was listed.        *)
SnapshotInv ==
  \A h \in Handler : handler[h].pc \in {"reserve", "write"} =>
    /\ handler[h].snap.status \in {"pending", "leased"}
    /\ \/ alloc[handler[h].session].status = "deleted"
       \/ handler[h].snap.ver < alloc[handler[h].session].ver
       \/ handler[h].snap = alloc[handler[h].session]

(* A claim given out is the current one, or of an earlier generation.       *)
IssuedInv ==
  /\ \A c \in Issued :
       LET a == alloc[c.session] IN
       /\ a.status # "new"
       /\ \/ a.status = "deleted"
          \/ c.gen < a.gen
          \/ /\ c.gen = a.gen
             /\ Live(c.session)
             /\ a.runner = c.runner
             /\ a.lease = c.lease
  /\ \A c, d \in Issued : c.session = d.session /\ c.gen = d.gen => c = d

StartedInv == StartedIsCurrent /\ NoDuplicateStart

(* The inductive invariant.                                                 *)
IInv ==
  /\ TypeOK
  /\ NamesInv
  /\ RecordInv
  /\ UnregisteredInv
  /\ OneAssignmentPerRunner
  /\ AssignedRunnerIsFenced
  /\ FenceInv
  /\ LostInv
  /\ RetiredNeverAssigned
  /\ SnapshotInv
  /\ IssuedInv
  /\ StartedInv

-----------------------------------------------------------------------------
(* The abstract state. *)

Stage == [new |-> "new", pending |-> "waiting", leased |-> "offered",
          claimed |-> "offered", running |-> "started", deleted |-> "gone"]

Handoff == INSTANCE SessionHandoff WITH
  phase <- [s \in Session |-> Stage[alloc[s].status]],
  round <- [s \in Session |-> alloc[s].gen],
  holder <- [s \in Session |-> alloc[s].runner],
  admitted <- {[session |-> c.session, runner |-> c.runner, round |-> c.gen] : c \in started}

(* The protocol does what SessionHandoff promises: seen through the         *)
(* allocation records, every step of every request is a submission, an      *)
(* offer, a withdrawal, a start or a removal, or changes nothing.           *)
ImplementsHandoff == Handoff!HandoffSpec
=============================================================================
