---------------------------- MODULE RunnerAllocation ----------------------------
(***************************************************************************)
(* The runner allocation protocol of the session proxy: sessions queue as  *)
(* allocations, pre-warmed runners claim them under a lease, acknowledge   *)
(* or fail the claim, and the runtime a claim starts is fenced by the      *)
(* generation of the allocation.                                           *)
(*                                                                         *)
(* The two record families live in a key-value store that offers create,   *)
(* get, compare-and-swap on a version and delete, one record at a time.    *)
(* An operation that touches a runner and an allocation is therefore       *)
(* several writes with other replicas' writes between them: each request   *)
(* is a Handler, and a Handler can be lost between any two of its steps    *)
(* (replica crash, cancelled request, store error).                        *)
(*                                                                         *)
(* A retry loop around a compare-and-swap re-reads the record each time    *)
(* round, so it is one atomic step here; a claim is not, because it writes *)
(* the record it found when it listed the queue.                           *)
(***************************************************************************)
EXTENDS Naturals

CONSTANTS
  Runner,       \* runner identifiers; one workload and one registration each
  Session,      \* sessions, numbered by the CreatedAt of their allocation
  Handler,      \* requests the replicas can be serving at the same time
  NoRunner,     \* the empty RunnerID
  Matches,      \* <<r, s>>: runner r satisfies the requirements of session s
  Inventoried,  \* runners of managers whose heartbeat lists the runners they have
  Reportable,   \* sessions whose route takes its status from heartbeats
  Removable,    \* bound: the sessions and runners somebody may delete
  MaxAttempts   \* bound: a claim is failed only below this many attempts

NoSession == 0

ASSUME SessionAssumption == Session \subseteq Nat \ {NoSession}
ASSUME RunnerAssumption == NoRunner \notin Runner
ASSUME MatchesAssumption == Matches \subseteq Runner \X Session
ASSUME BoundAssumption == MaxAttempts \in Nat

VARIABLES
  runner,    \* runner[r]: status of the runner record, "absent" if there is none
  alloc,     \* alloc[s]: the allocation record
  expired,   \* expired[s]: the clock has passed LeaseExpiresAt of alloc[s]
  handler,   \* handler[h]: the request being served
  worker,    \* worker[r]: the runner process and the claim it holds
  runtimes,  \* every claim a runner process has received, as its runtime knows it
  started,   \* the claims whose runtime the store has admitted
  retired,   \* runners whose manager was told that they are retired
  erased,    \* runners whose record somebody deleted, other than by its retention
  reported   \* sessions whose route shows a status past the start of a runtime

vars == <<runner, alloc, expired, handler, worker, runtimes, started, retired, erased, reported>>

(* A tombstone is a draining record made for a runner that has none: it     *)
(* carries no credential, so nobody authenticates with it.                  *)
RunnerStatus == {"absent", "idle", "claiming", "running", "draining", "tombstone"}
AllocationStatus == {"new", "pending", "leased", "claimed", "running", "deleted"}
Phase == {"new", "polling", "holding", "acked", "dead", "gone"}
Pc == {"free", "reserve", "write", "rollback", "respond", "settleRunning",
       "settleIdle", "requeue", "delRunner", "delAlloc", "adminAlloc", "purge"}

Allocation == [status : AllocationStatus, runner : Runner \cup {NoRunner},
               gen : Nat, lease : Nat, attempts : Nat, ver : Nat]
Claim == [session : Session, runner : Runner, gen : Nat, lease : Nat]
Request == [pc : Pc, runner : Runner \cup {NoRunner},
            session : Session \cup {NoSession}, snap : Allocation]
Worker == [phase : Phase, session : Session \cup {NoSession}, gen : Nat, lease : Nat]

NoAllocation == [status |-> "new", runner |-> NoRunner, gen |-> 0, lease |-> 0,
                 attempts |-> 0, ver |-> 0]
Enqueued == [status |-> "pending", runner |-> NoRunner, gen |-> 1, lease |-> 0,
             attempts |-> 0, ver |-> 1]
Deleted == [status |-> "deleted", runner |-> NoRunner, gen |-> 0, lease |-> 0,
            attempts |-> 0, ver |-> 0]

Serving(pc, r, s) == [pc |-> pc, runner |-> r, session |-> s, snap |-> NoAllocation]
Free == Serving("free", NoRunner, NoSession)
Advance(q, pc) == [pc |-> pc, runner |-> q.runner, session |-> q.session, snap |-> q.snap]
EmptyHanded(phase) == [phase |-> phase, session |-> NoSession, gen |-> 0, lease |-> 0]
Acked(w) == [phase |-> "acked", session |-> w.session, gen |-> w.gen, lease |-> w.lease]

Init ==
  /\ runner = [r \in Runner |-> "absent"]
  /\ alloc = [s \in Session |-> NoAllocation]
  /\ expired = [s \in Session |-> FALSE]
  /\ handler = [h \in Handler |-> Free]
  /\ worker = [r \in Runner |-> EmptyHanded("new")]
  /\ runtimes = {}
  /\ started = {}
  /\ retired = {}
  /\ erased = {}
  /\ reported = {}

-----------------------------------------------------------------------------
(* Predicates on the records. *)

Live(s) == alloc[s].status \in {"leased", "claimed", "running"}

HeldBy(s, r) == Live(s) /\ alloc[s].runner = r

(* Slip: an expired lease is left to its runner. *)
ClaimableOnce(s) == alloc[s].status = "pending"

(* A waiting allocation, or one whose lease ran out unacknowledged. *)
Claimable(s) ==
  \/ alloc[s].status = "pending"
  \/ alloc[s].status = "leased" /\ expired[s]

Candidates(r) == {s \in Session : <<r, s>> \in Matches /\ Claimable(s)}

(* Slip: a reclaim keeps the generation of the hand-off it replaces. *)
LeasedSameGeneration(a, r) ==
  [status |-> "leased", runner |-> r, gen |-> a.gen,
   lease |-> a.attempts + 1, attempts |-> a.attempts + 1, ver |-> a.ver + 1]

(* The record a claim of snapshot a by runner r writes. Only a reclaim      *)
(* changes the generation; the lease identifier is fresh for every attempt. *)
Leased(a, r) ==
  [status |-> "leased", runner |-> r,
   gen |-> IF a.status = "leased" THEN a.gen + 1 ELSE a.gen,
   lease |-> a.attempts + 1, attempts |-> a.attempts + 1, ver |-> a.ver + 1]

(* Slip: the generation moves on reclaim only. *)
RequeuedSameGeneration(a) ==
  [status |-> "pending", runner |-> NoRunner, gen |-> a.gen,
   lease |-> 0, attempts |-> a.attempts, ver |-> a.ver + 1]

(* The record a failed or abandoned hand-off leaves behind. *)
Requeued(a) ==
  [status |-> "pending", runner |-> NoRunner, gen |-> a.gen + 1,
   lease |-> 0, attempts |-> a.attempts, ver |-> a.ver + 1]

(* A transition that keeps the assignment. *)
WithStatus(a, status) ==
  [status |-> status, runner |-> a.runner, gen |-> a.gen,
   lease |-> a.lease, attempts |-> a.attempts, ver |-> a.ver + 1]

(* Slip: an update that does not compare versions. *)
StillThere(s, ver) == alloc[s].status # "deleted"

(* The store accepts a write of a record read at version ver. *)
Unchanged(s, ver) == alloc[s].status # "deleted" /\ alloc[s].ver = ver

Authenticated(r) == runner[r] \notin {"absent", "tombstone"}

(* The lease the runner presents is the one the record carries. *)
Presents(r) ==
  LET w == worker[r] IN
  /\ w.phase = "holding"
  /\ alloc[w.session].runner = r
  /\ alloc[w.session].lease = w.lease

(* Slip: any lease of the runner is accepted, whatever became of the session. *)
LeaseNamed(r) == Presents(r) /\ ~expired[worker[r].session]

(* What Acknowledge and Fail accept. *)
LeaseValid(r) ==
  /\ Presents(r)
  /\ alloc[worker[r].session].status = "leased"
  /\ ~expired[worker[r].session]

-----------------------------------------------------------------------------
(* Queue and registration. *)

Enqueue(s) ==
  /\ alloc[s].status = "new"
  /\ alloc' = [alloc EXCEPT ![s] = Enqueued]
  /\ UNCHANGED <<runner, expired, handler, worker, runtimes, started, retired, erased, reported>>

(* CreateRunner fails on any existing record, a tombstone included. *)
RegisterRunner(r) ==
  /\ worker[r].phase = "new"
  /\ IF runner[r] = "absent"
     THEN /\ runner' = [runner EXCEPT ![r] = "idle"]
          /\ worker' = [worker EXCEPT ![r] = EmptyHanded("polling")]
     ELSE /\ worker' = [worker EXCEPT ![r] = EmptyHanded("dead")]
          /\ UNCHANGED runner
  /\ UNCHANGED <<alloc, expired, handler, runtimes, started, retired, erased, reported>>

(* LeaseExpiresAt passes. *)
LeaseExpires(s) ==
  /\ alloc[s].status \in {"leased", "claimed"}
  /\ ~expired[s]
  /\ expired' = [expired EXCEPT ![s] = TRUE]
  /\ UNCHANGED <<runner, alloc, handler, worker, runtimes, started, retired, erased, reported>>

(* A runner process ends, whatever it was doing; what its manager keeps of   *)
(* it (the Service its inventory lists) goes with it, or later.              *)
WorkerExits(r) ==
  /\ \/ /\ worker[r].phase \in {"polling", "holding", "acked"}
        /\ worker' = [worker EXCEPT ![r] = EmptyHanded("dead")]
     \/ /\ worker[r].phase \in {"polling", "holding", "acked", "dead"}
        /\ worker' = [worker EXCEPT ![r] = EmptyHanded("gone")]
  /\ UNCHANGED <<runner, alloc, expired, handler, runtimes, started, retired, erased, reported>>

-----------------------------------------------------------------------------
(* ClaimNext: list, reserve the runner, write the lease, answer. *)

(* The oldest claimable allocation of the listing, with its version. *)
ClaimNext(h, r) ==
  /\ handler[h].pc = "free"
  /\ worker[r].phase = "polling"
  /\ Authenticated(r)
  /\ \E s \in Candidates(r) :
       /\ \A t \in Candidates(r) : s <= t
       /\ handler' = [handler EXCEPT ![h] =
            [pc |-> "reserve", runner |-> r, session |-> s, snap |-> alloc[s]]]
  /\ UNCHANGED <<runner, alloc, expired, worker, runtimes, started, retired, erased, reported>>

(* Slip: the runner record is written without looking at its status. *)
ReserveAny(h) ==
  /\ handler[h].pc = "reserve"
  /\ runner' = [runner EXCEPT ![handler[h].runner] = "claiming"]
  /\ handler' = [handler EXCEPT ![h] = Advance(@, "write")]
  /\ UNCHANGED <<alloc, expired, worker, runtimes, started, retired, erased, reported>>

(* Slip: a poll takes up a reservation it finds. *)
ReserveAgain(h) ==
  /\ handler[h].pc = "reserve"
  /\ IF runner[handler[h].runner] \in {"idle", "claiming"}
     THEN /\ runner' = [runner EXCEPT ![handler[h].runner] = "claiming"]
          /\ handler' = [handler EXCEPT ![h] = Advance(@, "write")]
     ELSE /\ handler' = [handler EXCEPT ![h] = Free]
          /\ UNCHANGED runner
  /\ UNCHANGED <<alloc, expired, worker, runtimes, started, retired, erased, reported>>

(* Idle to claiming; a runner in any other state ends the request. *)
Reserve(h) ==
  /\ handler[h].pc = "reserve"
  /\ IF runner[handler[h].runner] = "idle"
     THEN /\ runner' = [runner EXCEPT ![handler[h].runner] = "claiming"]
          /\ handler' = [handler EXCEPT ![h] = Advance(@, "write")]
     ELSE /\ handler' = [handler EXCEPT ![h] = Free]
          /\ UNCHANGED runner
  /\ UNCHANGED <<alloc, expired, worker, runtimes, started, retired, erased, reported>>

WriteLease(h) ==
  LET s == handler[h].session IN
  /\ handler[h].pc = "write"
  /\ Unchanged(s, handler[h].snap.ver)
  /\ alloc' = [alloc EXCEPT ![s] = Leased(handler[h].snap, handler[h].runner)]
  /\ expired' = [expired EXCEPT ![s] = FALSE]
  /\ handler' = [handler EXCEPT ![h] =
       [pc |-> "respond", runner |-> handler[h].runner, session |-> s,
        snap |-> Leased(handler[h].snap, handler[h].runner)]]
  /\ UNCHANGED <<runner, worker, runtimes, started, retired, erased, reported>>

(* Another write won. A store that reports a missing record as such, not as  *)
(* a conflict, makes the request end with the runner left claiming.          *)
WriteLeaseConflict(h) ==
  LET s == handler[h].session IN
  /\ handler[h].pc = "write"
  /\ ~Unchanged(s, handler[h].snap.ver)
  /\ \/ handler' = [handler EXCEPT ![h] = Advance(@, "rollback")]
     \/ /\ alloc[s].status = "deleted"
        /\ handler' = [handler EXCEPT ![h] = Free]
  /\ UNCHANGED <<runner, alloc, expired, worker, runtimes, started, retired, erased, reported>>

(* changeRunnerStatus(from, to) at the end of a request. *)
Moves(h, from, to) ==
  /\ runner' = [runner EXCEPT ![handler[h].runner] =
                  IF @ = from THEN to ELSE @]
  /\ handler' = [handler EXCEPT ![h] = Free]

Rollback(h) ==
  /\ handler[h].pc = "rollback"
  /\ Moves(h, "claiming", "idle")
  /\ UNCHANGED <<alloc, expired, worker, runtimes, started, retired, erased, reported>>

(* The route is pointed at the runner, its status back to starting unless a  *)
(* heartbeat had already given it this generation (prepareClaimRoute). The   *)
(* answer reaches the runner, unless its process is gone or busy.            *)
Respond(h) ==
  LET r == handler[h].runner
      a == handler[h].snap
  IN
  /\ handler[h].pc = "respond"
  /\ IF worker[r].phase = "polling"
     THEN /\ worker' = [worker EXCEPT ![r] =
               [phase |-> "holding", session |-> handler[h].session,
                gen |-> a.gen, lease |-> a.lease]]
          /\ runtimes' = runtimes \cup
               {[session |-> handler[h].session, runner |-> r,
                 gen |-> a.gen, lease |-> a.lease]}
     ELSE UNCHANGED <<worker, runtimes>>
  /\ \/ reported' = reported \ {handler[h].session}
     \/ UNCHANGED reported
  /\ handler' = [handler EXCEPT ![h] = Free]
  /\ UNCHANGED <<runner, alloc, expired, started, retired, erased>>

(* The replica dies, the request is cancelled, or the store fails. Lost in   *)
(* "write" it is an update that did not reach the store, lost in "respond"   *)
(* one whose answer did not come back: the runner stays claiming in both.    *)
RequestLost(h) ==
  /\ handler[h].pc # "free"
  /\ handler' = [handler EXCEPT ![h] = Free]
  /\ UNCHANGED <<runner, alloc, expired, worker, runtimes, started, retired, erased, reported>>

-----------------------------------------------------------------------------
(* Acknowledge and Fail: the allocation first, the runner record after it. *)

Acknowledge(h, r) ==
  /\ handler[h].pc = "free"
  /\ Authenticated(r)
  /\ LeaseValid(r)
  /\ alloc' = [alloc EXCEPT ![worker[r].session] = WithStatus(@, "claimed")]
  /\ handler' = [handler EXCEPT ![h] = Serving("settleRunning", r, worker[r].session)]
  /\ worker' = [worker EXCEPT ![r] = Acked(@)]
  /\ UNCHANGED <<runner, expired, runtimes, started, retired, erased, reported>>

(* The runtime connected before the acknowledgement: nothing to write but   *)
(* the runner record, whose error is ignored.                               *)
AcknowledgeRunning(r) ==
  /\ Authenticated(r)
  /\ Presents(r)
  /\ alloc[worker[r].session].status = "running"
  /\ runner' = [runner EXCEPT ![r] = IF @ = "claiming" THEN "running" ELSE @]
  /\ worker' = [worker EXCEPT ![r] = Acked(@)]
  /\ UNCHANGED <<alloc, expired, handler, runtimes, started, retired, erased, reported>>

(* Refused: the pool runner exits, the native worker logs and goes on. *)
AcknowledgeRefused(r) ==
  /\ worker[r].phase = "holding"
  /\ \/ ~Authenticated(r)
     \/ ~LeaseValid(r) /\ ~(Presents(r) /\ alloc[worker[r].session].status = "running")
  /\ \/ worker' = [worker EXCEPT ![r] = EmptyHanded("dead")]
     \/ worker' = [worker EXCEPT ![r] = Acked(@)]
  /\ UNCHANGED <<runner, alloc, expired, handler, runtimes, started, retired, erased, reported>>

(* The runtime token is not rotated: only the generation fences the runtime. *)
Fail(h, r) ==
  /\ handler[h].pc = "free"
  /\ Authenticated(r)
  /\ LeaseValid(r)
  /\ alloc[worker[r].session].attempts < MaxAttempts
  /\ alloc' = [alloc EXCEPT ![worker[r].session] = Requeued(@)]
  /\ expired' = [expired EXCEPT ![worker[r].session] = FALSE]
  /\ handler' = [handler EXCEPT ![h] = Serving("settleIdle", r, worker[r].session)]
  /\ worker' = [worker EXCEPT ![r] = EmptyHanded("polling")]
  /\ UNCHANGED <<runner, runtimes, started, retired, erased, reported>>

(* A refused Fail is ignored by the runner, which polls again. *)
FailRefused(r) ==
  /\ worker[r].phase = "holding"
  /\ ~Authenticated(r) \/ ~LeaseValid(r)
  /\ worker' = [worker EXCEPT ![r] = EmptyHanded("polling")]
  /\ UNCHANGED <<runner, alloc, expired, handler, runtimes, started, retired, erased, reported>>

(* An acknowledgement whose second write is refused is answered with an error. *)
SettleRunning(h) ==
  LET r == handler[h].runner IN
  /\ handler[h].pc = "settleRunning"
  /\ Moves(h, "claiming", "running")
  /\ \/ UNCHANGED worker
     \/ /\ runner[r] # "claiming"
        /\ worker[r].phase = "acked"
        /\ worker' = [worker EXCEPT ![r] = EmptyHanded("dead")]
  /\ UNCHANGED <<alloc, expired, runtimes, started, retired, erased, reported>>

SettleIdle(h) ==
  /\ handler[h].pc = "settleIdle"
  /\ Moves(h, "claiming", "idle")
  /\ UNCHANGED <<alloc, expired, worker, runtimes, started, retired, erased, reported>>

-----------------------------------------------------------------------------
(* Slip: whoever presents a claim of the session is let in. *)
MarkStartedAnyGeneration(c) ==
  LET a == alloc[c.session] IN
  /\ Live(c.session)
  /\ alloc' = [alloc EXCEPT ![c.session] =
                 IF a.status = "running" THEN @ ELSE WithStatus(@, "running")]
  /\ started' = started \cup {c}
  /\ UNCHANGED <<runner, expired, handler, worker, runtimes, retired, erased, reported>>

(* The runtime of a claim reports in: any call it makes is authorised only  *)
(* if its generation is the one of the allocation. The call may arrive long *)
(* after the claim was lost, and after its process ended.                   *)

MarkStarted(c) ==
  LET a == alloc[c.session] IN
  /\ a.gen = c.gen
  /\ Live(c.session)
  /\ alloc' = [alloc EXCEPT ![c.session] =
                 IF a.status = "running" THEN @ ELSE WithStatus(@, "running")]
  /\ started' = started \cup {c}
  /\ UNCHANGED <<runner, expired, handler, worker, runtimes, retired, erased, reported>>

-----------------------------------------------------------------------------
(* Heartbeat reconciliation and retirement. *)

(* The heartbeat gives the route the status its manager reports for the     *)
(* runner, that of a workload, whatever became of the claim.                *)
ReportStatus(s) ==
  /\ s \in Reportable
  /\ alloc[s].runner \in Inventoried
  /\ \/ reported' = reported \cup {s}
     \/ reported' = reported \ {s}
  /\ UNCHANGED <<runner, alloc, expired, handler, worker, runtimes, started, retired, erased>>

(* The heartbeat finds an acknowledged allocation, past its lease, whose    *)
(* runner the reported inventory omits, and whose route shows no status yet *)
(* or a starting one. An inventory is a snapshot: it may omit a process     *)
(* that is alive.                                                           *)
ReconcileMissing(h, s) ==
  /\ handler[h].pc = "free"
  /\ alloc[s].status = "claimed"
  /\ alloc[s].runner \in Inventoried
  /\ expired[s]
  /\ s \notin reported
  /\ handler' = [handler EXCEPT ![h] = Serving("requeue", alloc[s].runner, s)]
  /\ UNCHANGED <<runner, alloc, expired, worker, runtimes, started, retired, erased, reported>>

(* Slip: requeued whatever its status, as long as it is out on the runner. *)
RequeueAny(h) ==
  LET s == handler[h].session IN
  /\ handler[h].pc = "requeue"
  /\ IF alloc[s].runner = handler[h].runner
     THEN /\ alloc' = [alloc EXCEPT ![s] = Requeued(@)]
          /\ expired' = [expired EXCEPT ![s] = FALSE]
     ELSE UNCHANGED <<alloc, expired>>
  /\ handler' = [handler EXCEPT ![h] = Free]
  /\ UNCHANGED <<runner, worker, runtimes, started, retired, erased, reported>>

(* Slip: an acknowledged hand-off counts as started. *)
RequeueLeasedOnly(h) ==
  LET s == handler[h].session IN
  /\ handler[h].pc = "requeue"
  /\ IF alloc[s].runner = handler[h].runner /\ alloc[s].status = "leased"
     THEN /\ alloc' = [alloc EXCEPT ![s] = Requeued(@)]
          /\ expired' = [expired EXCEPT ![s] = FALSE]
     ELSE UNCHANGED <<alloc, expired>>
  /\ handler' = [handler EXCEPT ![h] = Free]
  /\ UNCHANGED <<runner, worker, runtimes, started, retired, erased, reported>>

(* The second write of ReconcileMissing, on the record as it is by then. *)
RequeueUnstarted(h) ==
  LET s == handler[h].session IN
  /\ handler[h].pc = "requeue"
  /\ IF alloc[s].runner = handler[h].runner /\ alloc[s].status \in {"leased", "claimed"}
     THEN /\ alloc' = [alloc EXCEPT ![s] = Requeued(@)]
          /\ expired' = [expired EXCEPT ![s] = FALSE]
     ELSE UNCHANGED <<alloc, expired>>
  /\ handler' = [handler EXCEPT ![h] = Free]
  /\ UNCHANGED <<runner, worker, runtimes, started, retired, erased, reported>>

(* Slip: a reserved runner is still taken for idle. *)
RetireReserved(r) ==
  /\ runner[r] \in {"idle", "claiming", "draining"}
  /\ runner' = [runner EXCEPT ![r] = "draining"]
  /\ retired' = retired \cup {r}
  /\ UNCHANGED <<alloc, expired, handler, worker, runtimes, started, erased, reported>>

(* Asked for by the manager before it deletes an idle workload, and by the  *)
(* heartbeat for a runner it has not heard of for long. The manager is told *)
(* that it succeeded.                                                       *)
RetireRunner(r) ==
  /\ runner[r] \in {"idle", "draining"}
  /\ runner' = [runner EXCEPT ![r] = "draining"]
  /\ retired' = retired \cup {r}
  /\ UNCHANGED <<alloc, expired, handler, worker, runtimes, started, erased, reported>>

(* No record, not yet or no more: a retirement succeeds all the same, and   *)
(* the tombstone makes a delayed registration fail.                         *)
LeaveTombstone(r) ==
  /\ runner[r] = "absent"
  /\ runner' = [runner EXCEPT ![r] = "tombstone"]
  /\ retired' = retired \cup {r}
  /\ UNCHANGED <<alloc, expired, handler, worker, runtimes, started, erased, reported>>

(* The heartbeat deletes a draining record only after a retention that      *)
(* outlives any registration still under way.                               *)
DeleteTombstone(r) ==
  /\ runner[r] \in {"draining", "tombstone"}
  /\ worker[r].phase # "new"
  /\ \A s \in Session : alloc[s].runner # r
  /\ runner' = [runner EXCEPT ![r] = "absent"]
  /\ UNCHANGED <<alloc, expired, handler, worker, runtimes, started, retired, erased, reported>>

-----------------------------------------------------------------------------
(* Deletion of a session and of a runner. *)

DeleteSessionPoolAllocation(h, s) ==
  /\ s \in Removable
  /\ handler[h].pc = "free"
  /\ alloc[s].status \notin {"new", "deleted"}
  /\ handler' = [handler EXCEPT ![h] =
       Serving(IF alloc[s].runner = NoRunner THEN "delAlloc" ELSE "delRunner",
               alloc[s].runner, s)]
  /\ UNCHANGED <<runner, alloc, expired, worker, runtimes, started, retired, erased, reported>>

(* The error of this delete, a version race included, is ignored. *)
DeleteRunnerOfSession(h) ==
  /\ handler[h].pc = "delRunner"
  /\ \/ /\ runner' = [runner EXCEPT ![handler[h].runner] = "absent"]
        /\ erased' = erased \cup {handler[h].runner}
     \/ UNCHANGED <<runner, erased>>
  /\ handler' = [handler EXCEPT ![h] = Advance(@, "delAlloc")]
  /\ UNCHANGED <<alloc, expired, worker, runtimes, started, retired, reported>>

DeleteAllocation(h) ==
  LET s == handler[h].session IN
  /\ handler[h].pc \in {"delAlloc", "adminAlloc"}
  /\ alloc' = [alloc EXCEPT ![s] = Deleted]
  /\ expired' = [expired EXCEPT ![s] = FALSE]
  /\ handler' = [handler EXCEPT ![h] =
       IF @.pc = "delAlloc" THEN Free ELSE Advance(@, "purge")]
  /\ UNCHANGED <<runner, worker, runtimes, started, retired, erased, reported>>

(* An administrator deletes a runner, the allocation it holds first; a      *)
(* second attempt finds the allocation although the record is gone.         *)
DeleteAdminRunner(h, r) ==
  /\ r \in Removable
  /\ handler[h].pc = "free"
  /\ worker[r].phase # "new"
  /\ \/ \E s \in Session :
          /\ alloc[s].runner = r
          /\ handler' = [handler EXCEPT ![h] = Serving("adminAlloc", r, s)]
     \/ /\ runner[r] # "absent"
        /\ \A s \in Session : alloc[s].runner # r
        /\ handler' = [handler EXCEPT ![h] = Serving("purge", r, NoSession)]
  /\ UNCHANGED <<runner, alloc, expired, worker, runtimes, started, retired, erased, reported>>

(* The last step of deleting a manager, a supplier or a pool deletes every  *)
(* runner that was inactive when it was listed.                             *)
DeleteInactiveRunner(h, r) ==
  /\ r \in Removable
  /\ handler[h].pc = "free"
  /\ runner[r] \in {"idle", "draining", "tombstone"}
  /\ worker[r].phase # "new"
  /\ handler' = [handler EXCEPT ![h] = Serving("purge", r, NoSession)]
  /\ UNCHANGED <<runner, alloc, expired, worker, runtimes, started, retired, erased, reported>>

DeleteRunner(h) ==
  /\ handler[h].pc = "purge"
  /\ runner' = [runner EXCEPT ![handler[h].runner] = "absent"]
  /\ erased' = erased \cup {handler[h].runner}
  /\ handler' = [handler EXCEPT ![h] = Free]
  /\ UNCHANGED <<alloc, expired, worker, runtimes, started, retired, reported>>

-----------------------------------------------------------------------------
Next ==
  \/ \E s \in Session : Enqueue(s) \/ LeaseExpires(s) \/ ReportStatus(s)
  \/ \E r \in Runner :
       \/ RegisterRunner(r) \/ WorkerExits(r)
       \/ AcknowledgeRunning(r) \/ AcknowledgeRefused(r) \/ FailRefused(r)
       \/ RetireRunner(r) \/ LeaveTombstone(r) \/ DeleteTombstone(r)
  \/ \E h \in Handler, r \in Runner :
       \/ ClaimNext(h, r) \/ Acknowledge(h, r) \/ Fail(h, r)
       \/ DeleteAdminRunner(h, r) \/ DeleteInactiveRunner(h, r)
  \/ \E h \in Handler, s \in Session :
       ReconcileMissing(h, s) \/ DeleteSessionPoolAllocation(h, s)
  \/ \E h \in Handler :
       \/ Reserve(h) \/ WriteLease(h) \/ WriteLeaseConflict(h) \/ Rollback(h)
       \/ Respond(h) \/ RequestLost(h) \/ SettleRunning(h) \/ SettleIdle(h)
       \/ RequeueUnstarted(h) \/ DeleteRunnerOfSession(h) \/ DeleteAllocation(h)
       \/ DeleteRunner(h)
  \/ \E c \in runtimes : MarkStarted(c)

Spec == Init /\ [][Next]_vars

(* What the deployment offers: the store answers again after failures, every *)
(* request is eventually carried out one step further or given up, a runner  *)
(* polls for as long as it lives, and a manager keeps sending heartbeats,    *)
(* whose inventory omits at last what is gone. Nobody has to die, to retire, *)
(* to delete, or to report a status or a start.                              *)
MissingRunner(s) == alloc[s].runner \in Runner /\ worker[alloc[s].runner].phase = "gone"

Fairness ==
  /\ \A r \in Runner :
       /\ SF_vars(\E h \in Handler : ClaimNext(h, r))
       /\ \A h \in Handler : SF_vars(handler[h].runner = r /\ Reserve(h))
  /\ \A s \in Session :
       /\ WF_vars(LeaseExpires(s))
       /\ SF_vars(\E h \in Handler : MissingRunner(s) /\ ReconcileMissing(h, s))
       /\ \A h \in Handler : SF_vars(handler[h].session = s /\ RequeueUnstarted(h))
  /\ \A h \in Handler :
       WF_vars(\/ WriteLease(h) \/ WriteLeaseConflict(h) \/ Rollback(h)
               \/ Respond(h) \/ RequestLost(h) \/ SettleRunning(h)
               \/ SettleIdle(h) \/ DeleteRunnerOfSession(h)
               \/ DeleteAllocation(h) \/ DeleteRunner(h))

FairSpec == Spec /\ Fairness

-----------------------------------------------------------------------------
(* Properties. *)

(* Every variable keeps its type.                                           *)
TypeOK ==
  /\ runner \in [Runner -> RunnerStatus]
  /\ alloc \in [Session -> Allocation]
  /\ expired \in [Session -> BOOLEAN]
  /\ handler \in [Handler -> Request]
  /\ worker \in [Runner -> Worker]
  /\ runtimes \subseteq Claim
  /\ started \subseteq runtimes
  /\ retired \subseteq Runner
  /\ erased \subseteq Runner
  /\ reported \subseteq Session

(* "A runtime that has started is never automatically duplicated": of all   *)
(* the hand-offs of a session, over lease expiries, reclaims, failures and  *)
(* requeues, at most one is ever admitted by MarkStarted.                   *)
NoDuplicateStart ==
  \A c, d \in started : c.session = d.session => c = d

(* An admitted runtime is the one the allocation names, until the session   *)
(* is deleted: nothing moves a started session to another runner.           *)
StartedIsCurrent ==
  \A c \in started :
    LET a == alloc[c.session] IN
    \/ a.status = "deleted"
    \/ a.status = "running" /\ a.gen = c.gen /\ a.runner = c.runner

(* The generation in the runtime's credentials identifies one hand-off: two *)
(* claims that reached runners never share session and generation.          *)
HandoffsDistinct ==
  \A c, d \in runtimes : c.session = d.session /\ c.gen = d.gen => c = d

(* ClaimNext gives a runner one session at a time, also when the runner     *)
(* polls two replicas at once or fails a claim and polls again.             *)
OneAssignmentPerRunner ==
  \A s, t \in Session, r \in Runner : HeldBy(s, r) /\ HeldBy(t, r) => s = t

(* "Keep the runner fenced against deletion": while an allocation is out on *)
(* a runner, its record is never idle, so neither another claim nor a       *)
(* retirement can take it.                                                  *)
AssignedRunnerIsFenced ==
  \A s \in Session, r \in Runner :
    HeldBy(s, r) => runner[r] \notin {"idle", "draining"}

(* "Retirement and claim reservation contend on the same runner record. A   *)
(* successful retirement remains a tombstone so delayed registrations       *)
(* cannot make a deleting Pod claimable again": a manager deletes the       *)
(* workload of a runner once RetireRunner succeeded, and from then on the   *)
(* record is never claimable again and the runner holds no session, also    *)
(* when its registration was still on its way or its record had gone after  *)
(* its retention. Only of a record that somebody deleted (with its session, *)
(* its manager, its pool, or by hand) the manager gets the same success     *)
(* although an allocation may still name the runner.                        *)
RetiredNeverAssigned ==
  \A r \in retired :
    /\ runner[r] \in {"draining", "absent", "tombstone"}
    /\ r \notin erased => \A s \in Session : ~HeldBy(s, r)

(* A step that gives a session to a runner uses a generation no runtime of  *)
(* that session was ever told.                                              *)
HandoffIsFresh ==
  [][\A s \in Session :
       alloc'[s].runner \notin {NoRunner, alloc[s].runner} =>
         \A c \in runtimes : c.session = s => c.gen < alloc'[s].gen]_vars

(* A started session leaves "running" only by being deleted: a late         *)
(* acknowledgement, failure, reclaim or requeue must not touch it.          *)
RunningIsFinal ==
  [][\A s \in Session :
       alloc[s].status = "running" =>
         alloc'[s] = alloc[s] \/ alloc'[s].status = "deleted"]_vars

(* A waiting session is not left behind while a runner that fits it polls   *)
(* and its record is idle: again and again it is taken, or no such runner   *)
(* is left.                                                                 *)
Waiting(s) ==
  \/ alloc[s].status = "pending"
  \/ alloc[s].status = "leased" /\ expired[s]

Ready(r) == runner[r] = "idle" /\ worker[r].phase = "polling"

WaitingIsServed ==
  \A s \in Session :
    []<>(Waiting(s) => \A r \in Runner : <<r, s>> \in Matches => ~Ready(r))

(* A session claimed by a runner that vanished before its runtime connected *)
(* does not stay claimed: the heartbeat hands it on after its lease, if its *)
(* manager sends an inventory and the route shows no later status.          *)
ClaimedByMissing(s) ==
  /\ alloc[s].status = "claimed"
  /\ alloc[s].runner \in Inventoried
  /\ MissingRunner(s)

DeadClaimIsRecovered ==
  \A s \in Session :
    ClaimedByMissing(s) /\ s \notin reported
      ~> alloc[s].status # "claimed" \/ s \in reported

(* "Keep the runner fenced against deletion until reconciliation resolves   *)
(* it": a live runner without a session does not poll in vain for ever,     *)
(* its record claiming.                                                     *)
Stranded(r) ==
  /\ runner[r] = "claiming"
  /\ worker[r].phase = "polling"
  /\ \A s \in Session : alloc[s].runner # r

ClaimingIsResolved == \A r \in Runner : Stranded(r) ~> ~Stranded(r)

=============================================================================
