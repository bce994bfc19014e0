------------------------- MODULE RunnerAllocationProofs -------------------------
(***************************************************************************)
(* RunnerAllocation keeps its invariant, for any number of runners,        *)
(* sessions, requests and attempts. Each conjunct of IInv has a lemma; the *)
(* lemma has one case per action that writes a variable of the conjunct.   *)
(***************************************************************************)
EXTENDS RunnerAllocationLemmas

LEMMA InitInvariant == Init => IInv
<1> SUFFICES ASSUME Init PROVE IInv
  OBVIOUS
<1>1. TypeOK
  BY BlankFields, FreeFields, WorkerFields, SessionAssumption
     DEF Init, TypeOK, RunnerStatus, Phase
<1>2. Issued = {}
  BY FreeFields DEF Init, Issued
<1>3. /\ \A h \in Handler : handler[h].pc = "free" /\ handler[h].runner = NoRunner
      /\ \A s \in Session : alloc[s].status = "new" /\ alloc[s].runner = NoRunner /\ alloc[s].gen = 0
      /\ \A r \in Runner : runner[r] = "absent" /\ worker[r].phase = "new"
  BY BlankFields, FreeFields, WorkerFields DEF Init, Phase
<1> QED
  BY <1>1, <1>2, <1>3, RunnerAssumption
     DEF Init, IInv, NamesInv, RecordInv, UnregisteredInv, OneAssignmentPerRunner,
         AssignedRunnerIsFenced, FenceInv, LostInv, RetiredNeverAssigned, SnapshotInv, IssuedInv,
         StartedInv, StartedIsCurrent, NoDuplicateStart, Live, HeldBy, Engaged, EmptyEngaged

-----------------------------------------------------------------------------
(* Types. *)

LEMMA RunnerType ==
  ASSUME TypeOK, [Next]_vars
  PROVE  runner' \in [Runner -> RunnerStatus]
<1>1. CASE UNCHANGED runner
  BY <1>1 DEF TypeOK
<1>2. ASSUME NEW r \in Runner,
             \/ RegisterRunner(r) \/ AcknowledgeRunning(r) \/ RetireRunner(r)
             \/ LeaveTombstone(r) \/ DeleteTombstone(r)
      PROVE  runner' \in [Runner -> RunnerStatus]
  BY <1>2 DEF TypeOK, RunnerStatus, RegisterRunner, AcknowledgeRunning, RetireRunner,
              LeaveTombstone, DeleteTombstone
<1>3. ASSUME NEW h \in Handler,
             \/ Reserve(h) \/ Rollback(h) \/ SettleRunning(h) \/ SettleIdle(h)
             \/ DeleteRunnerOfSession(h) \/ DeleteRunner(h)
      PROVE  runner' \in [Runner -> RunnerStatus]
  BY <1>3 DEF TypeOK, RunnerStatus, Reserve, Rollback, SettleRunning, SettleIdle,
              DeleteRunnerOfSession, DeleteRunner, Moves
<1>4. CASE RunnerStep
  BY <1>2, <1>3, <1>4 DEF RunnerStep
<1> QED
  BY <1>1, <1>4, RunnerFrame

LEMMA ExpiredType ==
  ASSUME TypeOK, [Next]_vars
  PROVE  expired' \in [Session -> BOOLEAN]
<1>1. CASE UNCHANGED expired
  BY <1>1 DEF TypeOK
<1>2. CASE ExpiredStep
  BY <1>2 DEF TypeOK, ExpiredStep, LeaseExpires, Fail, WriteLease, RequeueUnstarted,
              DeleteAllocation
<1> QED
  BY <1>1, <1>2, ExpiredFrame

LEMMA AllocationType ==
  ASSUME TypeOK, NamesInv, [Next]_vars
  PROVE  alloc' \in [Session -> Allocation]
<1>0. /\ alloc \in [Session -> Allocation]
      /\ \A s \in Session : alloc[s] \in Allocation
      /\ \A h \in Handler : handler[h].snap \in Allocation
  BY RequestFields DEF TypeOK
<1>1. CASE UNCHANGED alloc
  BY <1>0, <1>1
<1>2. ASSUME NEW s \in Session, Enqueue(s) PROVE alloc' \in [Session -> Allocation]
  BY <1>0, <1>2, BlankFields DEF Enqueue
<1>3. ASSUME NEW h \in Handler, NEW r \in Runner, Acknowledge(h, r) \/ Fail(h, r)
      PROVE  alloc' \in [Session -> Allocation]
  <2>1. worker[r].session \in Session
    BY <1>3 DEF Acknowledge, Fail, LeaseValid, Presents, NamesInv
  <2>2. alloc[worker[r].session] \in Allocation
    BY <1>0, <2>1
  <2>3. /\ WithStatus(alloc[worker[r].session], "claimed") \in Allocation
        /\ Requeued(alloc[worker[r].session]) \in Allocation
    BY <2>2, RequeuedFields, WithStatusFields DEF AllocationStatus
  <2> QED
    BY <1>0, <1>3, <2>1, <2>3 DEF Acknowledge, Fail
<1>4. ASSUME NEW h \in Handler, WriteLease(h) PROVE alloc' \in [Session -> Allocation]
  BY <1>0, <1>4, LeasedFields DEF WriteLease, NamesInv
<1>5. ASSUME NEW h \in Handler, RequeueUnstarted(h) \/ DeleteAllocation(h)
      PROVE  alloc' \in [Session -> Allocation]
  BY <1>0, <1>5, RequeuedFields, BlankFields DEF RequeueUnstarted, DeleteAllocation, NamesInv
<1>6. ASSUME NEW c \in runtimes, MarkStarted(c) PROVE alloc' \in [Session -> Allocation]
  <2>1. c.session \in Session
    BY DEF TypeOK, Claim
  <2>2. WithStatus(alloc[c.session], "running") \in Allocation
    BY <1>0, <2>1, WithStatusFields DEF AllocationStatus
  <2> QED
    BY <1>0, <1>6, <2>1, <2>2 DEF MarkStarted
<1> QED
  BY <1>1, <1>2, <1>3, <1>4, <1>5, <1>6, AllocationFrame DEF AllocationStep

LEMMA HandlerType ==
  ASSUME TypeOK, NamesInv, [Next]_vars
  PROVE  handler' \in [Handler -> Request]
<1>0. /\ handler \in [Handler -> Request]
      /\ \A h \in Handler : handler[h] \in Request
      /\ \A s \in Session : alloc[s] \in Allocation
      /\ \A r \in Runner : worker[r].session \in Session \cup {NoSession}
  BY WorkerFields DEF TypeOK
<1> USE <1>0
<1>1. CASE UNCHANGED handler
  BY <1>1
<1>2. ASSUME NEW h \in Handler, NEW r \in Runner, ClaimNext(h, r)
      PROVE  handler' \in [Handler -> Request]
  BY <1>2 DEF ClaimNext, Candidates, Request, Pc
<1>3. ASSUME NEW h \in Handler, NEW r \in Runner,
             Acknowledge(h, r) \/ Fail(h, r) \/ DeleteAdminRunner(h, r) \/ DeleteInactiveRunner(h, r)
      PROVE  handler' \in [Handler -> Request]
  BY <1>3, ServingFields DEF Acknowledge, Fail, DeleteAdminRunner, DeleteInactiveRunner, Pc
<1>4. ASSUME NEW h \in Handler, NEW s \in Session,
             ReconcileMissing(h, s) \/ DeleteSessionPoolAllocation(h, s)
      PROVE  handler' \in [Handler -> Request]
  BY <1>4, ServingFields, AllocationFields
     DEF ReconcileMissing, DeleteSessionPoolAllocation, Pc
<1>5. ASSUME NEW h \in Handler, WriteLease(h) PROVE handler' \in [Handler -> Request]
  <2>1. Leased(handler[h].snap, handler[h].runner) \in Allocation
    BY <1>5, RequestFields, LeasedFields DEF WriteLease, NamesInv
  <2> QED
    BY <1>5, <2>1, RequestFields DEF WriteLease, Request, Pc
<1>6. ASSUME NEW h \in Handler,
             \/ Reserve(h) \/ WriteLeaseConflict(h) \/ Rollback(h) \/ Respond(h)
             \/ RequestLost(h) \/ SettleRunning(h) \/ SettleIdle(h) \/ RequeueUnstarted(h)
             \/ DeleteRunnerOfSession(h) \/ DeleteAllocation(h) \/ DeleteRunner(h)
      PROVE  handler' \in [Handler -> Request]
  <2>1. \A pc \in Pc : Advance(handler[h], pc) \in Request
    BY AdvanceFields
  <2> QED
    BY <1>6, <2>1, FreeFields
       DEF Reserve, WriteLeaseConflict, Rollback, Respond, RequestLost, SettleRunning, SettleIdle,
           RequeueUnstarted, DeleteRunnerOfSession, DeleteAllocation, DeleteRunner, Moves, Pc
<1> QED
  BY <1>1, <1>2, <1>3, <1>4, <1>5, <1>6, HandlerFrame DEF HandlerStep

LEMMA WorkerType ==
  ASSUME TypeOK, NamesInv, [Next]_vars
  PROVE  worker' \in [Runner -> Worker]
<1>0. /\ worker \in [Runner -> Worker]
      /\ \A r \in Runner : worker[r] \in Worker
  BY DEF TypeOK
<1>1. CASE UNCHANGED worker
  BY <1>0, <1>1
<1>2. ASSUME NEW h \in Handler, Respond(h) PROVE worker' \in [Runner -> Worker]
  <2>1. handler[h].session \in Session /\ handler[h].snap.gen \in Nat /\ handler[h].snap.lease \in Nat
    BY <1>2, AllocationFields, RequestFields DEF Respond, NamesInv, TypeOK
  <2> QED
    BY <1>0, <1>2, <2>1 DEF Respond, Worker, Phase
<1>3. ASSUME NEW r \in Runner,
             \/ RegisterRunner(r) \/ WorkerExits(r) \/ AcknowledgeRunning(r)
             \/ AcknowledgeRefused(r) \/ FailRefused(r)
             \/ \E h \in Handler : Acknowledge(h, r) \/ Fail(h, r)
      PROVE  worker' \in [Runner -> Worker]
  BY <1>0, <1>3, WorkerFields
     DEF RegisterRunner, WorkerExits, AcknowledgeRunning, AcknowledgeRefused, FailRefused,
         Acknowledge, Fail, Phase
<1>4. ASSUME NEW h \in Handler, SettleRunning(h) PROVE worker' \in [Runner -> Worker]
  BY <1>0, <1>4, WorkerFields DEF SettleRunning, Phase
<1> QED
  BY <1>1, <1>2, <1>3, <1>4, WorkerFrame DEF WorkerStep

LEMMA ClaimsType ==
  ASSUME TypeOK, NamesInv, [Next]_vars
  PROVE  /\ runtimes' \subseteq Claim /\ started' \subseteq runtimes'
         /\ retired' \subseteq Runner /\ erased' \subseteq Runner /\ reported' \subseteq Session
<1>1. runtimes' \subseteq Claim /\ runtimes \subseteq runtimes'
  <2>1. ASSUME NEW h \in Handler, Respond(h)
        PROVE  runtimes' \subseteq Claim /\ runtimes \subseteq runtimes'
    <3>1. /\ handler[h].session \in Session /\ handler[h].runner \in Runner
          /\ handler[h].snap.gen \in Nat /\ handler[h].snap.lease \in Nat
      BY <2>1, AllocationFields, RequestFields DEF Respond, NamesInv, TypeOK
    <3> QED
      BY <2>1, <3>1 DEF Respond, Claim, TypeOK
  <2> QED
    BY <2>1, RuntimesFrame DEF TypeOK
<1>2. started' \subseteq started \cup runtimes
  BY StartedFrame DEF MarkStarted
<1>3. retired' \subseteq retired \cup Runner
  BY RetiredFrame DEF RetireRunner, LeaveTombstone
<1>4. erased' \subseteq erased \cup Runner
  BY ErasedFrame DEF DeleteRunnerOfSession, DeleteRunner, NamesInv
<1>5. reported' \subseteq reported \cup Session
  BY ReportedFrame DEF ReportStatus, Respond
<1> QED
  BY <1>1, <1>2, <1>3, <1>4, <1>5 DEF TypeOK

LEMMA TypeStep == TypeOK /\ NamesInv /\ [Next]_vars => TypeOK'
  BY RunnerType, ExpiredType, AllocationType, HandlerType, WorkerType, ClaimsType DEF TypeOK

-----------------------------------------------------------------------------
(* What a step can do to one allocation. *)

Effect(s) ==
  \/ alloc'[s] = alloc[s]
  \/ alloc[s].status = "new" /\ alloc'[s] = Enqueued
  \/ \E h \in Handler :
       /\ WriteLease(h)
       /\ handler[h].session = s
       /\ alloc[s].status \in {"pending", "leased"}
       /\ alloc'[s] = Leased(alloc[s], handler[h].runner)
  \/ /\ alloc[s].status \in {"leased", "claimed"}
     /\ \E status \in {"claimed", "running"} : alloc'[s] = WithStatus(alloc[s], status)
  \/ alloc[s].status \in {"leased", "claimed"} /\ alloc'[s] = Requeued(alloc[s])
  \/ alloc[s].status # "new" /\ alloc'[s] = Deleted

(* A submission, a lease of the record as it is, a transition of a hand-off *)
(* that has not started, or a deletion.                                     *)
LEMMA AllocationEffect ==
  ASSUME IInv, [Next]_vars, NEW s \in Session
  PROVE  Effect(s)
<1>0. /\ alloc \in [Session -> Allocation]
      /\ alloc[s] \in Allocation
      /\ NamesInv
  BY DEF IInv, TypeOK
<1>1. CASE UNCHANGED alloc
  BY <1>1 DEF Effect
<1>2. ASSUME NEW t \in Session, Enqueue(t) PROVE Effect(s)
  BY <1>0, <1>2 DEF Enqueue, Effect
<1>3. ASSUME NEW h \in Handler, NEW r \in Runner, Acknowledge(h, r) PROVE Effect(s)
  BY <1>0, <1>3 DEF Acknowledge, LeaseValid, Presents, NamesInv, Effect
<1>4. ASSUME NEW h \in Handler, NEW r \in Runner, Fail(h, r) PROVE Effect(s)
  BY <1>0, <1>4 DEF Fail, LeaseValid, Presents, NamesInv, Effect
<1>5. ASSUME NEW h \in Handler, WriteLease(h) PROVE Effect(s)
  <2>1. CASE handler[h].session # s
    BY <1>0, <1>5, <2>1 DEF WriteLease, NamesInv, Effect
  <2>2. CASE handler[h].session = s
    <3>1. handler[h].snap \in Allocation
      BY RequestFields DEF IInv, TypeOK
    <3>2. handler[h].snap = alloc[s] /\ alloc[s].status \in {"pending", "leased"}
      BY <1>0, <1>5, <2>2, <3>1, AllocationFields DEF WriteLease, Unchanged, IInv, SnapshotInv
    <3>3. alloc'[s] = Leased(alloc[s], handler[h].runner)
      BY <1>0, <1>5, <2>2, <3>2 DEF WriteLease
    <3> QED
      BY <1>5, <2>2, <3>2, <3>3 DEF Effect
  <2> QED
    BY <2>1, <2>2
<1>6. ASSUME NEW h \in Handler, RequeueUnstarted(h) PROVE Effect(s)
  BY <1>0, <1>6 DEF RequeueUnstarted, NamesInv, Effect
<1>7. ASSUME NEW h \in Handler, DeleteAllocation(h) PROVE Effect(s)
  BY <1>0, <1>7 DEF DeleteAllocation, NamesInv, Effect
<1>8. ASSUME NEW c \in runtimes, MarkStarted(c) PROVE Effect(s)
  <2>1. c.session \in Session
    BY DEF IInv, TypeOK, Claim
  <2> QED
    BY <1>0, <1>8, <2>1 DEF MarkStarted, Live, Effect
<1> QED
  BY <1>1, <1>2, <1>3, <1>4, <1>5, <1>6, <1>7, <1>8, AllocationFrame DEF AllocationStep

(* The same, field by field: the cases in which a record changes.           *)
LEMMA AllocationChange ==
  ASSUME IInv, [Next]_vars, NEW s \in Session
  PROVE  LET a == alloc[s]
             b == alloc'[s]
         IN
         \/ b = a
         \/ /\ a.status = "new" /\ b.status = "pending" /\ b.runner = NoRunner
            /\ b.gen = 1 /\ b.ver = 1
         \/ \E h \in Handler :
              /\ WriteLease(h)
              /\ handler[h].session = s
              /\ handler[h].runner \in Runner
              /\ a.status \in {"pending", "leased"}
              /\ b.status = "leased" /\ b.runner = handler[h].runner /\ b.ver = a.ver + 1
              /\ b.gen = IF a.status = "leased" THEN a.gen + 1 ELSE a.gen
         \/ /\ a.status \in {"leased", "claimed"} /\ b.status \in {"claimed", "running"}
            /\ b.runner = a.runner /\ b.gen = a.gen /\ b.lease = a.lease
            /\ b.ver = a.ver + 1
         \/ /\ a.status \in {"leased", "claimed"} /\ b.status = "pending"
            /\ b.runner = NoRunner /\ b.gen = a.gen + 1 /\ b.ver = a.ver + 1
         \/ a.status # "new" /\ b.status = "deleted" /\ b.runner = NoRunner /\ b.gen = 0
<1>1. alloc[s] \in Allocation
  BY DEF IInv, TypeOK
<1>3. ASSUME NEW h \in Handler, WriteLease(h), alloc'[s] = Leased(alloc[s], handler[h].runner)
      PROVE  /\ handler[h].runner \in Runner
             /\ alloc'[s].status = "leased" /\ alloc'[s].runner = handler[h].runner
             /\ alloc'[s].ver = alloc[s].ver + 1
             /\ alloc'[s].gen = IF alloc[s].status = "leased" THEN alloc[s].gen + 1
                                                             ELSE alloc[s].gen
  <2>1. handler[h].runner \in Runner
    BY <1>3 DEF IInv, NamesInv, WriteLease
  <2> QED
    BY <1>1, <1>3, <2>1, LeasedFields
<1>4. ASSUME NEW status \in {"claimed", "running"}, alloc'[s] = WithStatus(alloc[s], status)
      PROVE  /\ alloc'[s].status = status /\ alloc'[s].runner = alloc[s].runner
             /\ alloc'[s].gen = alloc[s].gen /\ alloc'[s].lease = alloc[s].lease
             /\ alloc'[s].ver = alloc[s].ver + 1
  BY <1>1, <1>4, WithStatusFields DEF AllocationStatus
<1>5. ASSUME alloc'[s] = Requeued(alloc[s])
      PROVE  /\ alloc'[s].status = "pending" /\ alloc'[s].runner = NoRunner
             /\ alloc'[s].gen = alloc[s].gen + 1 /\ alloc'[s].ver = alloc[s].ver + 1
  BY <1>1, <1>5, RequeuedFields
<1> QED
  BY <1>3, <1>4, <1>5, AllocationEffect, BlankFields DEF Effect

(* A runner comes to hold a session through a lease written for it.         *)
LEMMA HeldChange ==
  ASSUME IInv, [Next]_vars, NEW s \in Session, NEW r \in Runner, HeldBy(s, r)'
  PROVE  \/ HeldBy(s, r) /\ (alloc'[s].status = "leased" => alloc[s].status = "leased")
         \/ \E h \in Handler : /\ WriteLease(h)
                               /\ handler[h].session = s /\ handler[h].runner = r
  BY AllocationChange, RunnerAssumption DEF HeldBy, Live

LEMMA RecordStep ==
  ASSUME IInv, [Next]_vars
  PROVE  RecordInv'
<1>1. \A s \in Session : alloc[s] \in Allocation /\ alloc'[s] \in Allocation
  BY AllocationType DEF IInv, TypeOK
<1> QED
  BY <1>1, AllocationChange, RunnerAssumption DEF IInv, RecordInv, Live

-----------------------------------------------------------------------------
(* What a step can do to a request and to the status of a runner. *)

(* A request that is about to take or has taken a runner out of "idle"      *)
(* either stays with it or arrives in one of three ways.                    *)
Arrives(h) ==
  LET r == handler'[h].runner IN
  /\ \A k \in Handler \ {h} : handler'[k] = handler[k]
  /\ r \in Runner
  /\ worker[r].phase # "new"
  /\ worker'[r].phase # "new"
  /\ \/ /\ handler'[h].pc = "write"
        /\ runner[r] = "idle"
        /\ runner' = [runner EXCEPT ![r] = "claiming"]
        /\ UNCHANGED alloc
     \/ /\ handler'[h].pc = "settleRunning"
        /\ UNCHANGED runner
        /\ \E s \in Session : /\ HeldBy(s, r) /\ alloc[s].status = "leased"
                             /\ alloc'[s].status = "claimed"
                             /\ \A t \in Session \ {s} : alloc'[t] = alloc[t]
     \/ /\ handler'[h].pc = "settleIdle"
        /\ UNCHANGED runner
        /\ \E s \in Session : /\ HeldBy(s, r) /\ alloc[s].status = "leased"
                             /\ alloc'[s].status = "pending"
                             /\ \A t \in Session \ {s} : alloc'[t] = alloc[t]

Stays(h) ==
  /\ Engaged(h)
  /\ handler'[h].runner = handler[h].runner
  /\ \/ handler'[h].pc = handler[h].pc
     \/ handler[h].pc = "write" /\ handler'[h].pc = "rollback"

LEMMA EngagedChange ==
  ASSUME IInv, [Next]_vars, NEW h \in Handler, Engaged(h)'
  PROVE  Stays(h) \/ Arrives(h)
<1>0. /\ handler \in [Handler -> Request]
      /\ runner \in [Runner -> RunnerStatus]
      /\ alloc \in [Session -> Allocation]
      /\ worker \in [Runner -> Worker]
      /\ NamesInv
  BY DEF IInv, TypeOK
<1>1. CASE UNCHANGED handler
  BY <1>1 DEF Engaged, Stays
<1>2. ASSUME NEW k \in Handler, NEW r \in Runner, ClaimNext(k, r) PROVE Stays(h)
  BY <1>0, <1>2 DEF ClaimNext, Engaged, Stays
<1>3. ASSUME NEW k \in Handler, NEW r \in Runner,
             DeleteAdminRunner(k, r) \/ DeleteInactiveRunner(k, r)
      PROVE  Stays(h)
  BY <1>0, <1>3, ServingFields DEF DeleteAdminRunner, DeleteInactiveRunner, Engaged, Stays, Pc
<1>4. ASSUME NEW k \in Handler, NEW s \in Session,
             ReconcileMissing(k, s) \/ DeleteSessionPoolAllocation(k, s)
      PROVE  Stays(h)
  <2>1. \A pc \in Pc : Serving(pc, alloc[s].runner, s).pc = pc
    <3>1. alloc[s].runner \in Runner \cup {NoRunner}
      BY <1>0, AllocationFields
    <3> QED
      BY <3>1, ServingFields
  <2>2. handler'[k].pc \in {"requeue", "delAlloc", "delRunner"}
    BY <1>0, <1>4, <2>1 DEF ReconcileMissing, DeleteSessionPoolAllocation, Pc
  <2>3. \A j \in Handler \ {k} : handler'[j] = handler[j]
    BY <1>0, <1>4 DEF ReconcileMissing, DeleteSessionPoolAllocation
  <2> QED
    BY <2>2, <2>3 DEF Engaged, Stays
<1>5. ASSUME NEW k \in Handler, NEW r \in Runner, Acknowledge(k, r) PROVE Stays(h) \/ Arrives(h)
  <2>1. /\ worker[r].session \in Session
        /\ alloc[worker[r].session] \in Allocation
        /\ worker[r].phase = "holding"
        /\ worker'[r].phase = "acked"
    BY <1>0, <1>5, WorkerFields DEF Acknowledge, LeaseValid, Presents, NamesInv
  <2>2. alloc'[worker[r].session].status = "claimed"
    BY <1>0, <1>5, <2>1, WithStatusFields DEF Acknowledge, AllocationStatus
  <2>3. CASE h # k
    BY <1>0, <1>5, <2>3 DEF Acknowledge, Engaged, Stays
  <2>4. CASE h = k
    <3>1. handler'[k].runner = r /\ handler'[k].pc = "settleRunning"
      BY <1>0, <1>5, <2>1, ServingFields DEF Acknowledge, Pc
    <3>2. HeldBy(worker[r].session, r) /\ alloc[worker[r].session].status = "leased"
      BY <1>5 DEF Acknowledge, LeaseValid, Presents, HeldBy, Live
    <3>3. \A t \in Session \ {worker[r].session} : alloc'[t] = alloc[t]
      BY <1>0, <1>5 DEF Acknowledge
    <3> QED
      BY <1>0, <1>5, <2>1, <2>2, <2>4, <3>1, <3>2, <3>3 DEF Acknowledge, Arrives
  <2> QED
    BY <2>3, <2>4
<1>6. ASSUME NEW k \in Handler, NEW r \in Runner, Fail(k, r) PROVE Stays(h) \/ Arrives(h)
  <2>1. /\ worker[r].session \in Session
        /\ alloc[worker[r].session] \in Allocation
        /\ worker[r].phase = "holding"
        /\ worker'[r].phase = "polling"
    BY <1>0, <1>6, WorkerFields DEF Fail, LeaseValid, Presents, NamesInv, Phase
  <2>2. alloc'[worker[r].session].status = "pending"
    BY <1>0, <1>6, <2>1, RequeuedFields DEF Fail
  <2>3. CASE h # k
    BY <1>0, <1>6, <2>3 DEF Fail, Engaged, Stays
  <2>4. CASE h = k
    <3>1. handler'[k].runner = r /\ handler'[k].pc = "settleIdle"
      BY <1>0, <1>6, <2>1, ServingFields DEF Fail, Pc
    <3>2. HeldBy(worker[r].session, r) /\ alloc[worker[r].session].status = "leased"
      BY <1>6 DEF Fail, LeaseValid, Presents, HeldBy, Live
    <3>3. \A t \in Session \ {worker[r].session} : alloc'[t] = alloc[t]
      BY <1>0, <1>6 DEF Fail
    <3> QED
      BY <1>0, <1>6, <2>1, <2>2, <2>4, <3>1, <3>2, <3>3 DEF Fail, Arrives
  <2> QED
    BY <2>3, <2>4
<1>7. ASSUME NEW k \in Handler, Reserve(k) PROVE Stays(h) \/ Arrives(h)
  <2>1. /\ handler[k].runner \in Runner
        /\ handler[k] \in Request
        /\ Advance(handler[k], "write").runner = handler[k].runner
        /\ Advance(handler[k], "write").pc = "write"
    BY <1>0, <1>7, AdvanceFields DEF Reserve, NamesInv, Pc
  <2>2. runner[handler[k].runner] = "idle" => worker[handler[k].runner].phase # "new"
    BY <2>1 DEF IInv, UnregisteredInv
  <2>3. CASE h # k
    BY <1>0, <1>7, <2>3 DEF Reserve, Engaged, Stays
  <2>4. CASE h = k
    <3>1. /\ runner[handler[k].runner] = "idle"
          /\ handler' = [handler EXCEPT ![k] = Advance(handler[k], "write")]
      BY <1>0, <1>7, <2>4, FreeFields DEF Reserve, Engaged
    <3>2. handler'[k] = Advance(handler[k], "write")
      BY <1>0, <3>1
    <3> QED
      BY <1>0, <1>7, <2>1, <2>2, <2>4, <3>1, <3>2 DEF Reserve, Arrives
  <2> QED
    BY <2>3, <2>4
<1>8. ASSUME NEW k \in Handler, WriteLease(k) PROVE Stays(h)
  BY <1>0, <1>8 DEF WriteLease, Engaged, Stays, Request
<1>9. ASSUME NEW k \in Handler, WriteLeaseConflict(k) PROVE Stays(h)
  BY <1>0, <1>9, FreeFields, AdvanceFields DEF WriteLeaseConflict, Engaged, Stays, Pc
<1>10. ASSUME NEW k \in Handler,
             \/ Rollback(k) \/ Respond(k) \/ RequestLost(k) \/ SettleRunning(k)
             \/ SettleIdle(k) \/ RequeueUnstarted(k) \/ DeleteRunner(k)
       PROVE Stays(h)
  BY <1>0, <1>10, FreeFields
     DEF Rollback, Respond, RequestLost, SettleRunning, SettleIdle, RequeueUnstarted,
         DeleteRunner, Moves, Engaged, Stays
<1>11. ASSUME NEW k \in Handler, DeleteRunnerOfSession(k) \/ DeleteAllocation(k)
       PROVE Stays(h)
  BY <1>0, <1>11, FreeFields, AdvanceFields
     DEF DeleteRunnerOfSession, DeleteAllocation, Engaged, Stays, Pc
<1> QED
  BY <1>1, <1>2, <1>3, <1>4, <1>5, <1>6, <1>7, <1>8, <1>9, <1>10, <1>11, HandlerFrame
     DEF HandlerStep

(* A runner record becomes idle or draining when the runner registers, when *)
(* it was that already, or when the request that took it lets go of it.     *)
LetsGo(h, r) ==
  /\ EmptyEngaged(h)
  /\ handler[h].runner = r
  /\ ~Engaged(h)'
  /\ \A k \in Handler \ {h} : handler'[k] = handler[k]
  /\ UNCHANGED <<alloc, worker, retired>>

LEMMA FreeRunnerChange ==
  ASSUME IInv, [Next]_vars, NEW r \in Runner, runner'[r] \in {"idle", "draining"}
  PROVE  \/ runner[r] \in {"idle", "draining"}
         \/ /\ worker[r].phase = "new"
            /\ runner'[r] = "idle"
            /\ UNCHANGED <<alloc, handler, retired>>
         \/ \E h \in Handler : LetsGo(h, r) /\ runner'[r] = "idle"
<1>0. /\ runner \in [Runner -> RunnerStatus]
      /\ handler \in [Handler -> Request]
  BY DEF IInv, TypeOK
<1>1. CASE UNCHANGED runner
  BY <1>1
<1>2. ASSUME NEW q \in Runner, RegisterRunner(q)
      PROVE  \/ runner[r] \in {"idle", "draining"}
             \/ /\ worker[r].phase = "new"
                /\ runner'[r] = "idle"
                /\ UNCHANGED <<alloc, handler, retired>>
  BY <1>0, <1>2 DEF RegisterRunner
<1>3. ASSUME NEW q \in Runner,
             AcknowledgeRunning(q) \/ RetireRunner(q) \/ LeaveTombstone(q) \/ DeleteTombstone(q)
      PROVE  runner[r] \in {"idle", "draining"}
  BY <1>0, <1>3 DEF AcknowledgeRunning, RetireRunner, LeaveTombstone, DeleteTombstone
<1>4. ASSUME NEW h \in Handler,
             Reserve(h) \/ SettleRunning(h) \/ DeleteRunnerOfSession(h) \/ DeleteRunner(h)
      PROVE  runner[r] \in {"idle", "draining"}
  BY <1>0, <1>4 DEF Reserve, SettleRunning, DeleteRunnerOfSession, DeleteRunner, Moves
<1>5. ASSUME NEW h \in Handler, Rollback(h) \/ SettleIdle(h)
      PROVE  runner[r] \in {"idle", "draining"} \/ (LetsGo(h, r) /\ runner'[r] = "idle")
  <2>1. CASE handler[h].runner # r
    BY <1>0, <1>5, <2>1 DEF Rollback, SettleIdle, Moves
  <2>2. CASE handler[h].runner = r
    <3>1. /\ runner'[r] = IF runner[r] = "claiming" THEN "idle" ELSE runner[r]
          /\ handler' = [handler EXCEPT ![h] = Free]
          /\ EmptyEngaged(h)
          /\ UNCHANGED <<alloc, worker, retired>>
      BY <1>0, <1>5, <2>2 DEF Rollback, SettleIdle, Moves, EmptyEngaged
    <3>2. handler'[h].pc = "free" /\ \A k \in Handler \ {h} : handler'[k] = handler[k]
      BY <1>0, <3>1, FreeFields
    <3> QED
      BY <2>2, <3>1, <3>2 DEF LetsGo, Engaged
  <2> QED
    BY <2>1, <2>2
<1> QED
  BY <1>1, <1>2, <1>3, <1>4, <1>5, RunnerFrame DEF RunnerStep

LEMMA AssignedRunnerStep ==
  ASSUME IInv, [Next]_vars
  PROVE  AssignedRunnerIsFenced'
<1> SUFFICES ASSUME NEW s \in Session, NEW r \in Runner, HeldBy(s, r)',
                    runner'[r] \in {"idle", "draining"}
             PROVE  FALSE
  BY DEF AssignedRunnerIsFenced
<1>1. CASE HeldBy(s, r)
  <2>1. worker[r].phase # "new"
    BY <1>1 DEF IInv, UnregisteredInv
  <2>2. \A h \in Handler : ~LetsGo(h, r)
    BY <1>1 DEF IInv, FenceInv, LetsGo
  <2> QED
    BY <1>1, <2>1, <2>2, FreeRunnerChange DEF IInv, AssignedRunnerIsFenced
<1>2. ASSUME NEW h \in Handler, WriteLease(h), handler[h].runner = r
      PROVE  FALSE
  BY <1>2 DEF WriteLease, Engaged, IInv, FenceInv
<1> QED
  BY <1>1, <1>2, HeldChange

LEMMA OneAssignmentStep ==
  ASSUME IInv, [Next]_vars
  PROVE  OneAssignmentPerRunner'
<1> SUFFICES ASSUME NEW s \in Session, NEW t \in Session, NEW r \in Runner,
                    HeldBy(s, r)', HeldBy(t, r)'
             PROVE  s = t
  BY DEF OneAssignmentPerRunner
<1>1. ASSUME NEW h \in Handler, WriteLease(h), handler[h].runner = r
      PROVE  \A u \in Session : ~HeldBy(u, r)
  BY <1>1 DEF WriteLease, EmptyEngaged, IInv, FenceInv
<1>2. ASSUME NEW h \in Handler, WriteLease(h), NEW u \in Session, handler[h].session # u
      PROVE  alloc'[u] = alloc[u]
  BY <1>2 DEF WriteLease, IInv, TypeOK, NamesInv
<1>3. ASSUME NEW u \in Session, alloc'[u] = alloc[u], HeldBy(u, r)'
      PROVE  HeldBy(u, r)
  BY <1>3 DEF HeldBy, Live
<1> QED
  BY <1>1, <1>2, <1>3, HeldChange DEF IInv, OneAssignmentPerRunner

LEMMA FenceStep ==
  ASSUME IInv, [Next]_vars
  PROVE  FenceInv'
<1>1. ASSUME NEW h \in Handler, Engaged(h)'
      PROVE  handler'[h].runner \in Runner
  BY <1>1, EngagedChange DEF Stays, Arrives, Engaged, IInv, NamesInv
<1>2. ASSUME NEW h \in Handler, Engaged(h)'
      PROVE  runner'[handler'[h].runner] \notin {"idle", "draining"}
  <2> DEFINE r == handler'[h].runner
  <2> SUFFICES ASSUME runner'[r] \in {"idle", "draining"} PROVE FALSE
    OBVIOUS
  <2>1. CASE Stays(h)
    <3>1. Engaged(h) /\ handler[h].runner = r
      BY <2>1 DEF Stays
    <3>2. runner[r] \notin {"idle", "draining"} /\ worker[r].phase # "new"
      BY <1>1, <3>1, <1>2 DEF IInv, FenceInv, UnregisteredInv
    <3>3. \A k \in Handler : ~LetsGo(k, r)
      BY <1>2, <3>1 DEF LetsGo, IInv, FenceInv, EmptyEngaged, Engaged
    <3> QED
      BY <1>1, <1>2, <3>2, <3>3, FreeRunnerChange
  <2>2. CASE Arrives(h)
    <3>1. CASE handler'[h].pc = "write"
      BY <2>2, <3>1 DEF Arrives, IInv, TypeOK
    <3>2. CASE \E s \in Session : HeldBy(s, r) /\ UNCHANGED runner
      BY <1>1, <1>2, <3>2 DEF IInv, AssignedRunnerIsFenced
    <3> QED
      BY <2>2, <3>1, <3>2 DEF Arrives
  <2> QED
    BY <1>2, <2>1, <2>2, EngagedChange
<1>3. ASSUME NEW h \in Handler, NEW k \in Handler, Engaged(h), Arrives(k), h # k
      PROVE  handler[h].runner # handler'[k].runner
  BY <1>3 DEF Arrives, Engaged, EmptyEngaged, IInv, FenceInv
<1>4. ASSUME NEW h \in Handler, NEW k \in Handler, Engaged(h)', Engaged(k)',
             handler'[h].runner = handler'[k].runner, h # k
      PROVE  FALSE
  <2>1. CASE Stays(h) /\ Stays(k)
    BY <1>4, <2>1 DEF Stays, IInv, FenceInv
  <2>2. CASE Stays(h) /\ Arrives(k)
    BY <1>3, <1>4, <2>2 DEF Stays
  <2>3. CASE Arrives(h) /\ Stays(k)
    BY <1>3, <1>4, <2>3 DEF Stays
  <2>4. CASE Arrives(h) /\ Arrives(k) /\ ~Stays(k)
    BY <1>4, <2>4 DEF Arrives, Stays, Engaged
  <2> QED
    BY <1>4, <2>1, <2>2, <2>3, <2>4, EngagedChange
<1>5. ASSUME NEW h \in Handler, NEW s \in Session, NEW r \in Runner,
             EmptyEngaged(h)', r = handler'[h].runner, HeldBy(s, r)'
      PROVE  FALSE
  <2>0. Engaged(h)'
    BY <1>5 DEF EmptyEngaged, Engaged
  <2>1. ASSUME NEW k \in Handler, WriteLease(k), handler[k].runner = r
        PROVE  FALSE
    <3>1. /\ EmptyEngaged(k) /\ Engaged(k)
          /\ handler[k].pc = "write" /\ handler'[k].pc = "respond"
      BY <2>1 DEF WriteLease, EmptyEngaged, Engaged, IInv, TypeOK
    <3>2. h # k
      BY <1>5, <3>1 DEF EmptyEngaged
    <3>3. CASE Stays(h)
      BY <1>5, <2>1, <3>1, <3>2, <3>3 DEF Stays, IInv, FenceInv
    <3>4. CASE Arrives(h)
      BY <1>5, <2>1, <3>1, <3>2, <3>4 DEF Arrives
    <3> QED
      BY <2>0, <3>3, <3>4, EngagedChange
  <2>2. CASE HeldBy(s, r)
    <3>1. CASE Stays(h)
      BY <1>5, <2>2, <3>1 DEF Stays, EmptyEngaged, IInv, FenceInv
    <3>2. CASE Arrives(h)
      <4>1. CASE handler'[h].pc = "write"
        BY <1>5, <2>2, <3>2, <4>1 DEF Arrives, IInv, AssignedRunnerIsFenced
      <4>2. CASE handler'[h].pc = "settleIdle"
        <5>1. PICK t \in Session : HeldBy(t, r) /\ alloc'[t].status = "pending"
          BY <1>5, <3>2, <4>2 DEF Arrives
        <5>2. t = s
          BY <2>0, <2>2, <5>1 DEF IInv, OneAssignmentPerRunner
        <5> QED
          BY <1>5, <5>1, <5>2 DEF HeldBy, Live
      <4> QED
        BY <1>5, <3>2, <4>1, <4>2 DEF Arrives, EmptyEngaged
    <3> QED
      BY <2>0, <3>1, <3>2, EngagedChange
  <2> QED
    BY <1>5, <2>0, <2>1, <2>2, HeldChange
<1>6. ASSUME NEW h \in Handler, NEW s \in Session, NEW r \in Runner,
             handler'[h].pc = "settleRunning", r = handler'[h].runner,
             HeldBy(s, r)', alloc'[s].status = "leased"
      PROVE  FALSE
  <2>0. Engaged(h)'
    BY <1>6 DEF Engaged
  <2>1. ASSUME NEW k \in Handler, WriteLease(k), handler[k].runner = r
        PROVE  FALSE
    <3>1. /\ EmptyEngaged(k) /\ Engaged(k)
          /\ handler[k].pc = "write" /\ handler'[k].pc = "respond"
      BY <2>1 DEF WriteLease, EmptyEngaged, Engaged, IInv, TypeOK
    <3>2. h # k
      BY <1>6, <3>1
    <3>3. CASE Stays(h)
      BY <1>6, <2>1, <3>1, <3>2, <3>3 DEF Stays, IInv, FenceInv
    <3>4. CASE Arrives(h)
      BY <1>6, <2>1, <3>1, <3>2, <3>4 DEF Arrives
    <3> QED
      BY <2>0, <3>3, <3>4, EngagedChange
  <2>2. CASE HeldBy(s, r) /\ alloc[s].status = "leased"
    <3>1. CASE Stays(h)
      BY <1>6, <2>2, <3>1 DEF Stays, IInv, FenceInv
    <3>2. CASE Arrives(h)
      <4>1. PICK t \in Session : HeldBy(t, r) /\ alloc'[t].status = "claimed"
        BY <1>6, <3>2 DEF Arrives
      <4>2. t = s
        BY <2>0, <2>2, <4>1 DEF IInv, OneAssignmentPerRunner
      <4> QED
        BY <1>6, <4>1, <4>2
    <3> QED
      BY <2>0, <3>1, <3>2, EngagedChange
  <2> QED
    BY <1>6, <2>0, <2>1, <2>2, HeldChange
<1>7. ASSUME NEW h \in Handler, Engaged(h)', handler'[h].runner \in retired'
      PROVE  handler'[h].runner \in erased'
  <2> DEFINE r == handler'[h].runner
  <2> SUFFICES ASSUME r \notin erased' PROVE FALSE
    OBVIOUS
  <2>0. r \notin erased
    BY ErasedFrame
  <2>1. r \notin retired
    <3>1. CASE Stays(h)
      BY <2>0, <3>1 DEF Stays, IInv, FenceInv
    <3>2. CASE Arrives(h)
      BY <2>0, <3>2 DEF Arrives, IInv, RetiredNeverAssigned
    <3> QED
      BY <1>7, <3>1, <3>2, EngagedChange
  <2>2. ASSUME NEW q \in Runner, RetireRunner(q) PROVE q # r
    <3>1. handler' = handler /\ runner[q] \in {"idle", "draining"}
      BY <2>2 DEF RetireRunner
    <3> QED
      BY <1>7, <3>1 DEF Engaged, IInv, FenceInv
  <2>3. ASSUME NEW q \in Runner, LeaveTombstone(q) PROVE q # r
    <3>1. handler' = handler /\ runner[q] = "absent"
      BY <2>3 DEF LeaveTombstone
    <3> QED
      BY <1>7, <2>0, <2>3, <3>1 DEF Engaged, IInv, LostInv
  <2>4. \A q \in Runner : RetireRunner(q) \/ LeaveTombstone(q) => retired' = retired \cup {q}
    BY DEF RetireRunner, LeaveTombstone
  <2> QED
    BY <1>7, <2>1, <2>2, <2>3, <2>4, RetiredFrame
<1> QED
  <2>1. ASSUME NEW h \in Handler, NEW s \in Session
        PROVE  /\ EmptyEngaged(h)' => ~HeldBy(s, handler[h].runner)'
               /\ handler'[h].pc = "settleRunning" /\ HeldBy(s, handler[h].runner)' =>
                    alloc'[s].status # "leased"
    BY <1>1, <1>5, <1>6 DEF EmptyEngaged, Engaged
  <2> QED
    BY <1>2, <1>4, <1>7, <2>1 DEF FenceInv

-----------------------------------------------------------------------------
(* Requests. *)

(* A request changes by its own steps.                                      *)
StepOf(h) ==
  \/ \E r \in Runner :
       \/ ClaimNext(h, r) \/ Acknowledge(h, r) \/ Fail(h, r)
       \/ DeleteAdminRunner(h, r) \/ DeleteInactiveRunner(h, r)
  \/ \E s \in Session : ReconcileMissing(h, s) \/ DeleteSessionPoolAllocation(h, s)
  \/ Reserve(h) \/ WriteLease(h) \/ WriteLeaseConflict(h) \/ Rollback(h) \/ Respond(h)
  \/ RequestLost(h) \/ SettleRunning(h) \/ SettleIdle(h) \/ RequeueUnstarted(h)
  \/ DeleteRunnerOfSession(h) \/ DeleteAllocation(h) \/ DeleteRunner(h)

LEMMA StepOfOne ==
  ASSUME NEW h \in Handler, NEW k \in Handler, h # k, StepOf(k), TypeOK
  PROVE  handler'[h] = handler[h]
  BY DEF StepOf, TypeOK, ClaimNext, Acknowledge, Fail, DeleteAdminRunner, DeleteInactiveRunner,
         ReconcileMissing, DeleteSessionPoolAllocation, Reserve, WriteLease, WriteLeaseConflict,
         Rollback, Respond, RequestLost, SettleRunning, SettleIdle, RequeueUnstarted,
         DeleteRunnerOfSession, DeleteAllocation, DeleteRunner, Moves

LEMMA HandlerChange ==
  ASSUME TypeOK, [Next]_vars, NEW h \in Handler
  PROVE  handler'[h] = handler[h] \/ StepOf(h)
<1>1. HandlerStep => \E k \in Handler : StepOf(k)
  BY Zenon DEF HandlerStep, StepOf
<1> QED
  BY <1>1, StepOfOne, HandlerFrame

-----------------------------------------------------------------------------
(* Registration and retirement. *)

(* A runner record out of use comes back only by registration.              *)
LEMMA OutOfUseChange ==
  ASSUME IInv, [Next]_vars, NEW r \in Runner
  PROVE  \/ RegisterRunner(r)
         \/ /\ runner[r] \in {"absent", "tombstone"} => runner'[r] \in {"absent", "tombstone"}
            /\ runner[r] \in {"absent", "tombstone", "draining"} =>
                 runner'[r] \in {"absent", "tombstone", "draining"}
<1>0. runner \in [Runner -> RunnerStatus]
  BY DEF IInv, TypeOK
<1>1. ASSUME NEW q \in Runner, RegisterRunner(q), q # r PROVE runner'[r] = runner[r]
  BY <1>0, <1>1 DEF RegisterRunner
<1>2. ASSUME NEW q \in Runner,
             AcknowledgeRunning(q) \/ RetireRunner(q) \/ LeaveTombstone(q) \/ DeleteTombstone(q)
      PROVE  /\ runner[r] \in {"absent", "tombstone"} => runner'[r] \in {"absent", "tombstone"}
             /\ runner[r] \in {"absent", "tombstone", "draining"} =>
                  runner'[r] \in {"absent", "tombstone", "draining"}
  BY <1>0, <1>2
     DEF AcknowledgeRunning, Authenticated, RetireRunner, LeaveTombstone, DeleteTombstone
<1>3. ASSUME NEW h \in Handler,
             \/ Reserve(h) \/ Rollback(h) \/ SettleRunning(h) \/ SettleIdle(h)
             \/ DeleteRunnerOfSession(h) \/ DeleteRunner(h)
      PROVE  /\ runner[r] \in {"absent", "tombstone"} => runner'[r] \in {"absent", "tombstone"}
             /\ runner[r] \in {"absent", "tombstone", "draining"} =>
                  runner'[r] \in {"absent", "tombstone", "draining"}
  BY <1>0, <1>3
     DEF Reserve, Rollback, SettleRunning, SettleIdle, DeleteRunnerOfSession, DeleteRunner, Moves
<1> QED
  BY <1>1, <1>2, <1>3, RunnerFrame DEF RunnerStep

(* A process starts once.                                                   *)
LEMMA PhaseChange ==
  ASSUME IInv, [Next]_vars, NEW r \in Runner, worker'[r].phase = "new"
  PROVE  worker[r].phase = "new" /\ ~RegisterRunner(r)
<1>0. worker \in [Runner -> Worker]
  BY DEF IInv, TypeOK
<1>1. ASSUME NEW q \in Runner,
             \/ RegisterRunner(q) \/ WorkerExits(q) \/ AcknowledgeRunning(q)
             \/ AcknowledgeRefused(q) \/ FailRefused(q)
             \/ \E h \in Handler : Acknowledge(h, q) \/ Fail(h, q)
      PROVE  worker'[q].phase # "new" /\ (q # r => worker'[r] = worker[r])
  BY <1>0, <1>1, WorkerFields
     DEF RegisterRunner, WorkerExits, AcknowledgeRunning, AcknowledgeRefused, FailRefused,
         Acknowledge, Fail, Phase
<1>2. ASSUME NEW h \in Handler, Respond(h) \/ SettleRunning(h)
      PROVE  worker[r].phase = "new"
  BY <1>0, <1>2, WorkerFields DEF Respond, SettleRunning, Phase
<1> QED
  BY <1>1, <1>2, WorkerFrame DEF WorkerStep

(* No request is about a runner that has not registered.                    *)
LEMMA UnregisteredUnnamed ==
  ASSUME IInv, [Next]_vars, NEW r \in Runner, worker[r].phase = "new", NEW h \in Handler
  PROVE  handler'[h].runner # r
<1>0. /\ handler \in [Handler -> Request] /\ handler[h] \in Request
      /\ handler[h].runner # r
      /\ \A s \in Session : alloc[s].runner # r
      /\ \A s \in Session : alloc[s].runner \in Runner \cup {NoRunner}
  BY AllocationFields DEF IInv, TypeOK, UnregisteredInv, RecordInv, HeldBy
<1>1. ASSUME NEW q \in Runner,
             \/ ClaimNext(h, q) \/ Acknowledge(h, q) \/ Fail(h, q)
             \/ DeleteAdminRunner(h, q) \/ DeleteInactiveRunner(h, q)
      PROVE  handler'[h].runner # r
  <2>1. q # r
    BY <1>1 DEF ClaimNext, Acknowledge, Fail, DeleteAdminRunner, DeleteInactiveRunner, LeaseValid,
                Presents
  <2>2. \A pc \in Pc, s \in Session \cup {NoSession} : Serving(pc, q, s).runner = q
    BY ServingFields
  <2>3. worker[q].session \in Session \cup {NoSession}
    BY WorkerFields DEF IInv, TypeOK
  <2> QED
    BY <1>0, <1>1, <2>1, <2>2, <2>3
       DEF ClaimNext, Acknowledge, Fail, DeleteAdminRunner, DeleteInactiveRunner, Pc
<1>2. ASSUME NEW s \in Session, ReconcileMissing(h, s) \/ DeleteSessionPoolAllocation(h, s)
      PROVE  handler'[h].runner # r
  <2>1. \A pc \in Pc : Serving(pc, alloc[s].runner, s).runner = alloc[s].runner
    BY <1>0, ServingFields
  <2> QED
    BY <1>0, <1>2, <2>1 DEF ReconcileMissing, DeleteSessionPoolAllocation, Pc
<1>3. ASSUME \/ Reserve(h) \/ WriteLease(h) \/ WriteLeaseConflict(h) \/ Rollback(h)
             \/ Respond(h) \/ RequestLost(h) \/ SettleRunning(h) \/ SettleIdle(h)
             \/ RequeueUnstarted(h) \/ DeleteRunnerOfSession(h) \/ DeleteAllocation(h)
             \/ DeleteRunner(h)
      PROVE  handler'[h].runner # r
  <2>1. Free.runner # r
    BY FreeFields, RunnerAssumption
  <2>2. \A pc \in Pc : Advance(handler[h], pc).runner = handler[h].runner
    BY <1>0, AdvanceFields
  <2>3. CASE \/ Reserve(h) \/ WriteLease(h) \/ WriteLeaseConflict(h) \/ RequeueUnstarted(h)
             \/ DeleteRunnerOfSession(h) \/ DeleteAllocation(h)
    BY <1>0, <2>1, <2>2, <2>3 DEF Reserve, WriteLease, WriteLeaseConflict, RequeueUnstarted,
       DeleteRunnerOfSession, DeleteAllocation, Pc
  <2>4. CASE \/ Rollback(h) \/ Respond(h) \/ RequestLost(h) \/ SettleRunning(h)
             \/ SettleIdle(h) \/ DeleteRunner(h)
    BY <1>0, <2>1, <2>4 DEF Rollback, Respond, RequestLost, SettleRunning, SettleIdle,
       DeleteRunner, Moves
  <2> QED
    BY <1>3, <2>3, <2>4
<1> QED
  BY <1>0, <1>1, <1>2, <1>3, HandlerChange DEF StepOf, IInv

LEMMA UnregisteredStep ==
  ASSUME IInv, [Next]_vars
  PROVE  UnregisteredInv'
<1> SUFFICES ASSUME NEW r \in Runner, worker'[r].phase = "new"
             PROVE  /\ runner'[r] \in {"absent", "tombstone"}
                    /\ r \in retired' => runner'[r] = "tombstone"
                    /\ \A s \in Session : ~HeldBy(s, r)'
                    /\ \A h \in Handler : handler'[h].runner # r
  BY DEF UnregisteredInv
<1>1. worker[r].phase = "new" /\ ~RegisterRunner(r)
  BY PhaseChange
<1>2. /\ runner[r] \in {"absent", "tombstone"}
      /\ r \in retired => runner[r] = "tombstone"
      /\ \A s \in Session : ~HeldBy(s, r)
      /\ \A h \in Handler : handler[h].runner # r
      /\ runner \in [Runner -> RunnerStatus]
  BY <1>1 DEF IInv, TypeOK, UnregisteredInv
<1>3. runner'[r] \in {"absent", "tombstone"}
  BY <1>1, <1>2, OutOfUseChange
<1>4. ASSUME runner[r] = "tombstone" PROVE runner'[r] = "tombstone"
  <2>1. ASSUME NEW q \in Runner,
               \/ RegisterRunner(q) \/ AcknowledgeRunning(q) \/ RetireRunner(q)
               \/ LeaveTombstone(q) \/ DeleteTombstone(q)
        PROVE  runner'[r] = runner[r]
    BY <1>1, <1>2, <1>4, <2>1
       DEF RegisterRunner, AcknowledgeRunning, RetireRunner, LeaveTombstone, DeleteTombstone
  <2>2. ASSUME NEW h \in Handler,
               \/ Reserve(h) \/ Rollback(h) \/ SettleRunning(h) \/ SettleIdle(h)
               \/ DeleteRunnerOfSession(h) \/ DeleteRunner(h)
        PROVE  runner'[r] = runner[r]
    BY <1>2, <2>2
       DEF Reserve, Rollback, SettleRunning, SettleIdle, DeleteRunnerOfSession, DeleteRunner, Moves
  <2> QED
    BY <1>4, <2>1, <2>2, RunnerFrame DEF RunnerStep
<1>5. \A s \in Session : ~HeldBy(s, r)'
  BY <1>2, HeldChange
<1>6. \A h \in Handler : handler'[h].runner # r
  BY <1>1, UnregisteredUnnamed
<1>7. r \in retired' => r \in retired \/ runner'[r] = "tombstone"
  BY <1>2, RetiredFrame DEF RetireRunner, LeaveTombstone
<1> QED
  BY <1>2, <1>3, <1>4, <1>5, <1>6, <1>7

(* A record goes by its retention, or somebody deletes it.                  *)
LEMMA GoneChange ==
  ASSUME IInv, [Next]_vars, NEW r \in Runner, runner'[r] \in {"absent", "tombstone"}
  PROVE  runner[r] \in {"absent", "tombstone"} \/ DeleteTombstone(r) \/ r \in erased'
<1>0. runner \in [Runner -> RunnerStatus]
  BY DEF IInv, TypeOK
<1>1. ASSUME NEW q \in Runner,
             RegisterRunner(q) \/ AcknowledgeRunning(q) \/ RetireRunner(q) \/ LeaveTombstone(q)
      PROVE  runner[r] \in {"absent", "tombstone"}
  BY <1>0, <1>1 DEF RegisterRunner, AcknowledgeRunning, RetireRunner, LeaveTombstone
<1>2. ASSUME NEW q \in Runner, DeleteTombstone(q), q # r
      PROVE  runner[r] \in {"absent", "tombstone"}
  BY <1>0, <1>2 DEF DeleteTombstone
<1>3. ASSUME NEW h \in Handler, Reserve(h) \/ Rollback(h) \/ SettleRunning(h) \/ SettleIdle(h)
      PROVE  runner[r] \in {"absent", "tombstone"}
  BY <1>0, <1>3 DEF Reserve, Rollback, SettleRunning, SettleIdle, Moves
<1>4. ASSUME NEW h \in Handler, DeleteRunnerOfSession(h) \/ DeleteRunner(h)
      PROVE  runner[r] \in {"absent", "tombstone"} \/ r \in erased'
  BY <1>0, <1>4 DEF DeleteRunnerOfSession, DeleteRunner
<1> QED
  BY <1>1, <1>2, <1>3, <1>4, RunnerFrame DEF RunnerStep

LEMMA LostStep ==
  ASSUME IInv, [Next]_vars
  PROVE  LostInv'
<1> SUFFICES ASSUME NEW r \in Runner, runner'[r] \in {"absent", "tombstone"}, r \notin erased'
             PROVE  /\ \A s \in Session : ~HeldBy(s, r)'
                    /\ \A h \in Handler : Engaged(h)' => handler'[h].runner # r
  BY DEF LostInv
<1>0. r \notin erased
  BY ErasedFrame
<1>1. CASE runner[r] \in {"absent", "tombstone"}
  <2>1. /\ \A s \in Session : ~HeldBy(s, r)
        /\ \A h \in Handler : Engaged(h) => handler[h].runner # r
    BY <1>0, <1>1 DEF IInv, LostInv
  <2>2. \A s \in Session : ~HeldBy(s, r)'
    BY <2>1, HeldChange DEF WriteLease, Engaged
  <2>3. ASSUME NEW h \in Handler, Engaged(h)', handler'[h].runner = r PROVE FALSE
    BY <1>1, <2>1, <2>3, EngagedChange DEF Stays, Arrives
  <2> QED
    BY <2>2, <2>3
<1>2. CASE DeleteTombstone(r)
  <2>1. /\ UNCHANGED <<alloc, handler>>
        /\ runner[r] \in {"draining", "tombstone"}
        /\ \A s \in Session : ~HeldBy(s, r)
    BY <1>2 DEF DeleteTombstone, HeldBy
  <2>2. \A h \in Handler : Engaged(h) => handler[h].runner # r
    BY <1>0, <2>1 DEF IInv, FenceInv, LostInv
  <2> QED
    BY <2>1, <2>2 DEF HeldBy, Live, Engaged
<1> QED
  BY <1>1, <1>2, GoneChange

LEMMA RetiredStep ==
  ASSUME IInv, [Next]_vars
  PROVE  RetiredNeverAssigned'
<1> SUFFICES ASSUME NEW r \in retired'
             PROVE  /\ runner'[r] \in {"draining", "absent", "tombstone"}
                    /\ r \notin erased' => \A s \in Session : ~HeldBy(s, r)'
  BY DEF RetiredNeverAssigned
<1>0. r \in Runner /\ (r \notin erased' => r \notin erased)
  BY ClaimsType, ErasedFrame DEF IInv
<1>1. CASE r \in retired
  <2>1. RegisterRunner(r) => runner' = runner
    BY <1>0, <1>1 DEF RegisterRunner, IInv, UnregisteredInv
  <2>2. ASSUME NEW h \in Handler, WriteLease(h), r \notin erased PROVE handler[h].runner # r
    BY <1>1, <2>2 DEF WriteLease, Engaged, IInv, FenceInv
  <2> QED
    BY <1>0, <1>1, <2>1, <2>2, OutOfUseChange, HeldChange DEF IInv, RetiredNeverAssigned
<1>2. ASSUME RetireRunner(r)
      PROVE  /\ runner'[r] \in {"draining", "absent", "tombstone"}
             /\ \A s \in Session : ~HeldBy(s, r)'
  BY <1>0, <1>2 DEF RetireRunner, IInv, TypeOK, AssignedRunnerIsFenced, HeldBy, Live
<1>3. ASSUME LeaveTombstone(r)
      PROVE  /\ runner'[r] \in {"draining", "absent", "tombstone"}
             /\ r \notin erased' => \A s \in Session : ~HeldBy(s, r)'
  BY <1>0, <1>3 DEF LeaveTombstone, IInv, TypeOK, LostInv, HeldBy, Live
<1> QED
  BY <1>1, <1>2, <1>3, RetiredFrame DEF RetireRunner, LeaveTombstone

-----------------------------------------------------------------------------
(* Names. *)

(* A request that deletes a runner record names a runner.                   *)
LEMMA DeletingNames ==
  ASSUME IInv, [Next]_vars, NEW h \in Handler,
         handler'[h].pc \in {"delRunner", "adminAlloc", "purge"}
  PROVE  handler'[h].runner \in Runner
<1>0. /\ handler \in [Handler -> Request]
      /\ handler[h] \in Request
      /\ \A s \in Session : alloc[s].runner \in Runner \cup {NoRunner}
      /\ \A r \in Runner : worker[r].session \in Session \cup {NoSession}
  BY AllocationFields, WorkerFields DEF IInv, TypeOK
<1>1. CASE handler'[h] = handler[h]
  BY <1>1 DEF IInv, NamesInv
<1>2. ASSUME NEW r \in Runner, DeleteAdminRunner(h, r) \/ DeleteInactiveRunner(h, r)
      PROVE  handler'[h].runner \in Runner
  BY <1>0, <1>2, ServingFields DEF DeleteAdminRunner, DeleteInactiveRunner, Pc
<1>3. ASSUME NEW s \in Session, DeleteSessionPoolAllocation(h, s)
      PROVE  handler'[h].runner \in Runner
  <2>1. \A pc \in Pc : /\ Serving(pc, alloc[s].runner, s).pc = pc
                         /\ Serving(pc, alloc[s].runner, s).runner = alloc[s].runner
    BY <1>0, ServingFields
  <2> QED
    BY <1>0, <1>3, <2>1 DEF DeleteSessionPoolAllocation, Pc
<1>4. CASE DeleteRunnerOfSession(h) \/ DeleteAllocation(h)
  BY <1>0, <1>4, FreeFields, AdvanceFields
     DEF DeleteRunnerOfSession, DeleteAllocation, IInv, NamesInv, Pc
<1>5. ASSUME \/ Rollback(h) \/ Respond(h) \/ RequestLost(h) \/ SettleRunning(h)
             \/ SettleIdle(h) \/ RequeueUnstarted(h) \/ DeleteRunner(h)
             \/ Reserve(h) \/ WriteLease(h) \/ WriteLeaseConflict(h)
      PROVE  FALSE
  BY <1>0, <1>5, FreeFields, AdvanceFields
     DEF Rollback, Respond, RequestLost, SettleRunning, SettleIdle, RequeueUnstarted,
         DeleteRunner, Moves, Reserve, WriteLease, WriteLeaseConflict, Pc
<1>6. ASSUME NEW r \in Runner, ClaimNext(h, r) \/ Acknowledge(h, r) \/ Fail(h, r)
      PROVE  FALSE
  BY <1>0, <1>6, ServingFields DEF ClaimNext, Acknowledge, Fail, Pc
<1>7. ASSUME NEW s \in Session, ReconcileMissing(h, s)
      PROVE  FALSE
  <2>1. \A pc \in Pc : Serving(pc, alloc[s].runner, s).pc = pc
    BY <1>0, ServingFields
  <2> QED
    BY <1>0, <1>7, <2>1 DEF ReconcileMissing, Pc
<1> QED
  BY <1>1, <1>2, <1>3, <1>4, <1>5, <1>6, <1>7, HandlerChange DEF StepOf, IInv

LEMMA NamesStep ==
  ASSUME IInv, [Next]_vars
  PROVE  NamesInv'
<1>0. /\ handler \in [Handler -> Request]
      /\ worker \in [Runner -> Worker]
      /\ alloc \in [Session -> Allocation]
      /\ \A r \in Runner : worker[r] \in Worker
      /\ \A s \in Session : alloc[s].runner \in Runner \cup {NoRunner}
  BY AllocationFields DEF IInv, TypeOK
<1>1. ASSUME NEW s \in Session, alloc[s].status # "new" PROVE alloc'[s].status # "new"
  BY <1>1, AllocationChange
<1>2. ASSUME NEW h \in Handler
      PROVE  \/ handler'[h].pc \in {"free", "purge"}
             \/ /\ handler'[h].session \in Session
                /\ alloc[handler'[h].session].status # "new"
                /\ handler'[h].runner \in Runner
             \/ /\ handler'[h].session \in Session
                /\ alloc[handler'[h].session].status # "new"
                /\ handler'[h].pc \in {"requeue", "delRunner", "delAlloc", "adminAlloc"}
  <2> DEFINE Good == \/ handler'[h].pc \in {"free", "purge"}
                     \/ /\ handler'[h].session \in Session
                        /\ alloc[handler'[h].session].status # "new"
                        /\ handler'[h].runner \in Runner
                     \/ /\ handler'[h].session \in Session
                        /\ alloc[handler'[h].session].status # "new"
                        /\ handler'[h].pc \in {"requeue", "delRunner", "delAlloc", "adminAlloc"}
  <2>0. CASE handler'[h] = handler[h]
    BY <2>0, RequestFields DEF IInv, TypeOK, NamesInv, Pc
  <2>1. ASSUME NEW r \in Runner, ClaimNext(h, r) PROVE Good
    BY <1>0, <2>1 DEF ClaimNext, Candidates, Claimable
  <2>2. ASSUME NEW r \in Runner, Acknowledge(h, r) \/ Fail(h, r) PROVE Good
    <3>1. worker[r].session \in Session /\ alloc[worker[r].session].status = "leased"
      BY <2>2 DEF Acknowledge, Fail, LeaseValid, Presents, IInv, NamesInv
    <3> QED
      BY <1>0, <2>2, <3>1, ServingFields DEF Acknowledge, Fail, Pc
  <2>3. ASSUME NEW r \in Runner, DeleteAdminRunner(h, r) \/ DeleteInactiveRunner(h, r) PROVE Good
    <3>1. CASE \E s \in Session : /\ alloc[s].runner = r
                                 /\ handler' = [handler EXCEPT ![h] = Serving("adminAlloc", r, s)]
      <4>1. PICK s \in Session : /\ alloc[s].runner = r
                                /\ handler' = [handler EXCEPT ![h] = Serving("adminAlloc", r, s)]
        BY <3>1
      <4>2. alloc[s].status # "new"
        BY <4>1 DEF IInv, RecordInv, Live
      <4> QED
        BY <1>0, <4>1, <4>2, ServingFields DEF Pc
    <3>2. CASE handler' = [handler EXCEPT ![h] = Serving("purge", r, NoSession)]
      BY <1>0, <3>2, ServingFields DEF Pc
    <3> QED
      BY <2>3, <3>1, <3>2 DEF DeleteAdminRunner, DeleteInactiveRunner
  <2>4. ASSUME NEW s \in Session, ReconcileMissing(h, s) PROVE Good
    BY <1>0, <2>4, ServingFields DEF ReconcileMissing, Pc
  <2>5. ASSUME NEW s \in Session, DeleteSessionPoolAllocation(h, s) PROVE Good
    <3>1. \A pc \in Pc : /\ Serving(pc, alloc[s].runner, s).pc = pc
                          /\ Serving(pc, alloc[s].runner, s).session = s
      BY <1>0, ServingFields
    <3> QED
      BY <1>0, <2>5, <3>1 DEF DeleteSessionPoolAllocation, Pc
  <2>6. ASSUME WriteLease(h) PROVE Good
    BY <1>0, <2>6 DEF WriteLease, IInv, NamesInv
  <2>7. ASSUME \/ Reserve(h) \/ WriteLeaseConflict(h) \/ Rollback(h) \/ Respond(h)
               \/ RequestLost(h) \/ SettleRunning(h) \/ SettleIdle(h) \/ RequeueUnstarted(h)
               \/ DeleteRunner(h)
        PROVE  Good
    <3>1. handler[h] \in Request
      BY <1>0
    <3>2. CASE handler' = [handler EXCEPT ![h] = Free]
      BY <1>0, <3>2, FreeFields
    <3>3. CASE \/ Reserve(h) /\ handler' = [handler EXCEPT ![h] = Advance(@, "write")]
               \/ /\ WriteLeaseConflict(h)
                  /\ handler' = [handler EXCEPT ![h] = Advance(@, "rollback")]
      BY <1>0, <3>1, <3>3, AdvanceFields
         DEF Reserve, WriteLeaseConflict, IInv, NamesInv, Pc
    <3> QED
      BY <2>7, <3>2, <3>3
         DEF Reserve, WriteLeaseConflict, Rollback, Respond, RequestLost, SettleRunning,
             SettleIdle, RequeueUnstarted, DeleteRunner, Moves
  <2>8. ASSUME DeleteRunnerOfSession(h) \/ DeleteAllocation(h) PROVE Good
    BY <1>0, <2>8, FreeFields, AdvanceFields
       DEF DeleteRunnerOfSession, DeleteAllocation, IInv, NamesInv, Pc
  <2> QED
    BY <2>0, <2>1, <2>2, <2>3, <2>4, <2>5, <2>6, <2>7, <2>8, HandlerChange
       DEF StepOf, IInv
<1>3. ASSUME NEW r \in Runner, worker'[r].phase \in {"holding", "acked"}
      PROVE  worker'[r].session \in Session
  <2>0. CASE worker'[r] = worker[r]
    BY <1>3, <2>0 DEF IInv, NamesInv
  <2>1. ASSUME NEW q \in Runner,
               \/ RegisterRunner(q) \/ WorkerExits(q) \/ FailRefused(q)
               \/ \E h \in Handler : Fail(h, q)
        PROVE  worker'[q].phase \in {"polling", "dead", "gone"} /\ (q # r => worker'[r] = worker[r])
    BY <1>0, <2>1, WorkerFields DEF RegisterRunner, WorkerExits, FailRefused, Fail, Phase
  <2>2. ASSUME NEW q \in Runner,
               \/ AcknowledgeRunning(q) \/ AcknowledgeRefused(q)
               \/ \E h \in Handler : Acknowledge(h, q)
        PROVE  /\ worker[q].phase = "holding"
               /\ worker'[q].phase = "dead" \/ worker'[q] = Acked(worker[q])
               /\ q # r => worker'[r] = worker[r]
    BY <1>0, <2>2, WorkerFields
       DEF AcknowledgeRunning, AcknowledgeRefused, Acknowledge, LeaseValid, Presents, Phase
  <2>3. ASSUME NEW h \in Handler, Respond(h) \/ SettleRunning(h)
        PROVE  worker'[r].session \in Session
    <3>1. CASE Respond(h)
      BY <1>0, <2>0, <3>1 DEF Respond, IInv, NamesInv
    <3>2. CASE SettleRunning(h)
      BY <1>0, <1>3, <2>0, <3>2, WorkerFields DEF SettleRunning, Phase
    <3> QED
      BY <2>3, <3>1, <3>2
  <2> QED
    BY <1>0, <1>3, <2>0, <2>1, <2>2, <2>3, WorkerFrame, WorkerFields
       DEF WorkerStep, IInv, NamesInv
<1> QED
  BY <1>1, <1>2, <1>3, DeletingNames DEF NamesInv

-----------------------------------------------------------------------------
(* Snapshots and claims. *)

ClaimNextBy(h) == \E r \in Runner : ClaimNext(h, r)

(* The way of a claim through "reserve", "write" and "respond".             *)
LEMMA ClaimPath ==
  ASSUME IInv, [Next]_vars, NEW h \in Handler,
         handler'[h].pc \in {"reserve", "write", "respond"}
  PROVE  handler'[h] = handler[h] \/ ClaimNextBy(h) \/ Reserve(h) \/ WriteLease(h)
<1>0. /\ handler \in [Handler -> Request]
      /\ handler[h] \in Request
      /\ \A s \in Session : alloc[s].runner \in Runner \cup {NoRunner}
      /\ \A r \in Runner : worker[r].session \in Session \cup {NoSession}
  BY WorkerFields, AllocationFields DEF IInv, TypeOK
<1>1. ASSUME NEW r \in Runner,
             \/ Acknowledge(h, r) \/ Fail(h, r)
             \/ DeleteAdminRunner(h, r) \/ DeleteInactiveRunner(h, r)
      PROVE  FALSE
  BY <1>0, <1>1, ServingFields
     DEF Acknowledge, Fail, DeleteAdminRunner, DeleteInactiveRunner, Pc
<1>2. ASSUME NEW s \in Session, ReconcileMissing(h, s) \/ DeleteSessionPoolAllocation(h, s)
      PROVE  FALSE
  <2>1. \A pc \in Pc : Serving(pc, alloc[s].runner, s).pc = pc
    BY <1>0, ServingFields
  <2> QED
    BY <1>0, <1>2, <2>1 DEF ReconcileMissing, DeleteSessionPoolAllocation, Pc
<1>3. ASSUME \/ WriteLeaseConflict(h) \/ Rollback(h) \/ Respond(h) \/ RequestLost(h)
             \/ SettleRunning(h) \/ SettleIdle(h) \/ RequeueUnstarted(h) \/ DeleteRunner(h)
      PROVE  FALSE
  <2>1. Free.pc = "free"
    BY FreeFields
  <2>2. \A pc \in Pc : Advance(handler[h], pc).pc = pc
    BY <1>0, AdvanceFields
  <2>3. CASE WriteLeaseConflict(h) \/ RequeueUnstarted(h)
    BY <1>0, <2>1, <2>2, <2>3 DEF WriteLeaseConflict, RequeueUnstarted, Pc
  <2>4. CASE \/ Rollback(h) \/ Respond(h) \/ RequestLost(h) \/ SettleRunning(h)
             \/ SettleIdle(h) \/ DeleteRunner(h)
    BY <1>0, <2>1, <2>4 DEF Rollback, Respond, RequestLost, SettleRunning, SettleIdle,
       DeleteRunner, Moves
  <2> QED
    BY <1>3, <2>3, <2>4
<1>4. ASSUME DeleteRunnerOfSession(h) \/ DeleteAllocation(h) PROVE FALSE
  BY <1>0, <1>4, FreeFields, AdvanceFields DEF DeleteRunnerOfSession, DeleteAllocation, Pc
<1> QED
  BY <1>1, <1>2, <1>3, <1>4, HandlerChange DEF StepOf, ClaimNextBy, IInv

LEMMA SnapshotStep ==
  ASSUME IInv, [Next]_vars
  PROVE  SnapshotInv'
<1> SUFFICES ASSUME NEW h \in Handler, handler'[h].pc \in {"reserve", "write"}
             PROVE  /\ handler'[h].snap.status \in {"pending", "leased"}
                    /\ \/ alloc'[handler'[h].session].status = "deleted"
                       \/ handler'[h].snap.ver < alloc'[handler'[h].session].ver
                       \/ handler'[h].snap = alloc'[handler'[h].session]
  BY DEF SnapshotInv
<1>0. /\ handler \in [Handler -> Request]
      /\ handler[h] \in Request
      /\ alloc \in [Session -> Allocation]
      /\ \A s \in Session : alloc[s].ver \in Nat
  BY AllocationFields DEF IInv, TypeOK
<1>1. CASE ClaimNextBy(h)
  BY <1>0, <1>1 DEF ClaimNextBy, ClaimNext, Candidates, Claimable
<1>2. ASSUME ~ClaimNextBy(h)
      PROVE  /\ handler[h].pc \in {"reserve", "write"}
             /\ handler'[h].snap = handler[h].snap
             /\ handler'[h].session = handler[h].session
  <2>1. CASE Reserve(h)
    BY <1>0, <2>1, FreeFields, AdvanceFields DEF Reserve, Pc
  <2>2. ~WriteLease(h)
    BY <1>0 DEF WriteLease
  <2> QED
    BY <1>2, <2>1, <2>2, ClaimPath
<1>3. ASSUME ~ClaimNextBy(h)
      PROVE  /\ handler[h].snap.status \in {"pending", "leased"}
             /\ handler[h].session \in Session
             /\ alloc[handler[h].session].status # "new"
             /\ handler[h].snap.ver \in Nat
             /\ \/ alloc[handler[h].session].status = "deleted"
                \/ handler[h].snap.ver < alloc[handler[h].session].ver
                \/ handler[h].snap = alloc[handler[h].session]
  BY <1>0, <1>2, <1>3, RequestFields, AllocationFields DEF IInv, SnapshotInv, NamesInv
<1>4. ASSUME ~ClaimNextBy(h)
      PROVE  \/ alloc'[handler[h].session].status = "deleted"
             \/ handler[h].snap.ver < alloc'[handler[h].session].ver
             \/ handler[h].snap = alloc'[handler[h].session]
  BY <1>0, <1>3, <1>4, AllocationChange
<1> QED
  BY <1>1, <1>2, <1>3, <1>4

(* A claim comes into being when its lease is written.                      *)
LEMMA IssuedChange ==
  ASSUME IInv, [Next]_vars, NEW c \in Issued'
  PROVE  \/ c \in Issued
         \/ \E h \in Handler :
              /\ WriteLease(h)
              /\ c.session = handler[h].session
              /\ c.runner = alloc'[c.session].runner
              /\ c.gen = alloc'[c.session].gen
              /\ c.lease = alloc'[c.session].lease
<1>0. /\ handler \in [Handler -> Request]
      /\ alloc \in [Session -> Allocation]
      /\ \A h \in Handler : handler[h] \in Request
  BY DEF IInv, TypeOK
<1>1. ASSUME c \in runtimes' PROVE c \in Issued
  <2>1. ASSUME NEW h \in Handler, Respond(h) PROVE runtimes' \subseteq runtimes \cup {Answer(h)}
    BY <2>1 DEF Respond, Answer
  <2> QED
    BY <1>1, <2>1, RuntimesFrame DEF Issued, Respond
<1>2. ASSUME NEW h \in Handler, handler'[h].pc = "respond", c = Answer(h)'
      PROVE  \/ c \in Issued
             \/ /\ WriteLease(h)
                /\ c.session = handler[h].session
                /\ c.runner = alloc'[c.session].runner
                /\ c.gen = alloc'[c.session].gen
                /\ c.lease = alloc'[c.session].lease
  <2>1. CASE handler'[h] = handler[h]
    BY <1>2, <2>1 DEF Issued, Answer
  <2>2. CASE WriteLease(h)
    <3>1. /\ handler[h].session \in Session /\ handler[h].runner \in Runner
          /\ handler[h].snap \in Allocation
      BY <1>0, <2>2, RequestFields DEF WriteLease, IInv, NamesInv
    <3>2. /\ handler'[h].session = handler[h].session
          /\ handler'[h].runner = handler[h].runner
          /\ handler'[h].snap = Leased(handler[h].snap, handler[h].runner)
          /\ alloc'[handler[h].session] = Leased(handler[h].snap, handler[h].runner)
      BY <1>0, <2>2, <3>1 DEF WriteLease
    <3> QED
      BY <1>2, <2>2, <3>1, <3>2, LeasedFields DEF Answer
  <2>3. ~Reserve(h) /\ ~ClaimNextBy(h)
    BY <1>0, <1>2, FreeFields, AdvanceFields DEF Reserve, ClaimNextBy, ClaimNext, Pc
  <2> QED
    BY <1>2, <2>1, <2>2, <2>3, ClaimPath
<1> QED
  BY <1>1, <1>2 DEF Issued

LEMMA IssuedType == TypeOK /\ NamesInv => Issued \subseteq Claim
<1> SUFFICES ASSUME TypeOK, NamesInv, NEW h \in Handler, handler[h].pc = "respond" PROVE Answer(h) \in Claim
  BY DEF Issued, TypeOK
<1> QED
  BY RequestFields, AllocationFields DEF Answer, Claim, TypeOK, NamesInv

(* The same of the next state.                                              *)
LEMMA IssuedTypeAfter == TypeOK' /\ NamesInv' => (Issued \subseteq Claim)'
  BY IssuedType, PTL

LEMMA IssuedStep ==
  ASSUME IInv, [Next]_vars
  PROVE  IssuedInv'
<1>0. /\ Issued \subseteq Claim
      /\ \A s \in Session : /\ alloc[s] \in Allocation /\ alloc'[s] \in Allocation
                            /\ alloc[s].gen \in Nat /\ alloc'[s].gen \in Nat
      /\ IssuedInv
  BY IssuedType, AllocationType, AllocationFields DEF IInv, TypeOK
<1> DEFINE Old(c) == c \in Issued
           New(c) == \E h \in Handler :
                       /\ WriteLease(h)
                       /\ c.session = handler[h].session
                       /\ c.runner = alloc'[c.session].runner
                       /\ c.gen = alloc'[c.session].gen
                       /\ c.lease = alloc'[c.session].lease
           Valid(c) == LET a == alloc'[c.session] IN
                       /\ a.status # "new"
                       /\ \/ a.status = "deleted"
                          \/ c.gen < a.gen
                          \/ /\ c.gen = a.gen
                             /\ Live(c.session)'
                             /\ a.runner = c.runner
                             /\ a.lease = c.lease
<1>1. ASSUME NEW h \in Handler, WriteLease(h)
      PROVE  LET s == handler[h].session IN
             /\ s \in Session
             /\ alloc[s].status \in {"pending", "leased"}
             /\ alloc'[s].status = "leased"
             /\ alloc'[s].gen = IF alloc[s].status = "leased" THEN alloc[s].gen + 1
                                                             ELSE alloc[s].gen
  <2>1. handler[h].session \in Session /\ handler[h].runner \in Runner
    BY <1>1 DEF WriteLease, IInv, NamesInv
  <2>2. handler[h].snap \in Allocation
    BY RequestFields DEF IInv, TypeOK
  <2>3. /\ handler[h].snap = alloc[handler[h].session]
        /\ alloc[handler[h].session].status \in {"pending", "leased"}
    BY <1>0, <1>1, <2>1, <2>2, AllocationFields DEF WriteLease, Unchanged, IInv, SnapshotInv
  <2>4. alloc'[handler[h].session] = Leased(alloc[handler[h].session], handler[h].runner)
    BY <1>1, <2>1, <2>3 DEF WriteLease, IInv, TypeOK
  <2> QED
    BY <1>0, <2>1, <2>3, <2>4, LeasedFields
<1>2. ASSUME NEW c, Old(c)
      PROVE  c.session \in Session /\ c.gen \in Nat
  BY <1>0, <1>2 DEF Claim
<1>3. ASSUME NEW c, Old(c) PROVE Valid(c)
  <2> DEFINE s == c.session
  <2>1. /\ s \in Session /\ c.gen \in Nat
        /\ alloc[s].gen \in Nat /\ alloc'[s].gen \in Nat
        /\ alloc[s].status # "new"
        /\ \/ alloc[s].status = "deleted"
           \/ c.gen < alloc[s].gen
           \/ /\ c.gen = alloc[s].gen
              /\ alloc[s].status \in {"leased", "claimed", "running"}
              /\ alloc[s].runner = c.runner
              /\ alloc[s].lease = c.lease
    BY <1>0, <1>2, <1>3 DEF IssuedInv, Live
  <2> HIDE DEF s
  <2> QED
    BY <2>1, AllocationChange DEF Live, s
<1>4. ASSUME NEW c, New(c) PROVE Valid(c) /\ c.session \in Session
  BY <1>1, <1>4 DEF Live
<1>5. ASSUME NEW c, NEW d, Old(c), New(d), c.session = d.session PROVE c.gen < d.gen
  <2>1. /\ c.session \in Session /\ c.gen \in Nat
        /\ alloc[c.session].status \in {"pending", "leased"}
        /\ alloc[c.session].gen \in Nat
        /\ d.gen = IF alloc[c.session].status = "leased" THEN alloc[c.session].gen + 1
                                                        ELSE alloc[c.session].gen
    BY <1>0, <1>1, <1>2, <1>5
  <2> QED
    BY <1>0, <1>5, <2>1 DEF IssuedInv, Live
<1>6. ASSUME NEW c \in Issued', NEW d \in Issued', c.session = d.session, c.gen = d.gen
      PROVE  c = d
  <2>1. c \in Claim /\ d \in Claim
    <3>1. TypeOK' /\ NamesInv'
      BY TypeStep, NamesStep DEF IInv
    <3> QED
      BY <3>1, IssuedTypeAfter
  <2>2. CASE Old(c) /\ Old(d)
    BY <1>0, <1>6, <2>2 DEF IssuedInv
  <2>3. CASE Old(c) /\ New(d)
    BY <1>2, <1>5, <1>6, <2>3
  <2>4. CASE New(c) /\ Old(d)
    <3>1. d.gen < c.gen
      BY <1>5, <1>6, <2>4
    <3> QED
      BY <1>6, <2>1, <3>1 DEF Claim
  <2>5. CASE New(c) /\ New(d)
    <3>1. c.runner = d.runner /\ c.lease = d.lease
      BY <1>6, <2>5
    <3> QED
      BY <1>6, <2>1, <3>1 DEF Claim
  <2> QED
    BY <2>2, <2>3, <2>4, <2>5, IssuedChange
<1>7. \A c \in Issued' : Valid(c)
  BY <1>3, <1>4, IssuedChange
<1> QED
  BY <1>6, <1>7 DEF IssuedInv

LEMMA StartedStep ==
  ASSUME IInv, [Next]_vars
  PROVE  StartedInv'
<1>0. /\ started \subseteq Issued
      /\ \A c \in started : c.session \in Session
      /\ IssuedInv /\ StartedIsCurrent /\ NoDuplicateStart
  BY DEF IInv, TypeOK, Issued, Claim, StartedInv
<1>1. ASSUME NEW c \in started
      PROVE  LET a == alloc'[c.session] IN
             \/ a.status = "deleted"
             \/ a.status = "running" /\ a.gen = c.gen /\ a.runner = c.runner
  BY <1>0, <1>1, AllocationChange DEF StartedIsCurrent
<1>2. CASE UNCHANGED started
  BY <1>0, <1>1, <1>2 DEF StartedInv, StartedIsCurrent, NoDuplicateStart
<1>3. ASSUME NEW c \in runtimes, MarkStarted(c) PROVE StartedInv'
  <2>1. /\ c.session \in Session /\ c \in Issued
        /\ alloc[c.session] \in Allocation
        /\ alloc \in [Session -> Allocation]
    BY DEF IInv, TypeOK, Claim, Issued
  <2>2. /\ Live(c.session) /\ alloc[c.session].gen = c.gen
        /\ started' = started \cup {c}
    BY <1>3 DEF MarkStarted
  <2>3. alloc[c.session].runner = c.runner
    <3>1. alloc[c.session].gen \in Nat
      BY <2>1, AllocationFields
    <3> QED
      BY <1>0, <2>1, <2>2, <3>1 DEF IssuedInv, Live
  <2>4. /\ alloc'[c.session].status = "running"
        /\ alloc'[c.session].gen = c.gen
        /\ alloc'[c.session].runner = c.runner
    <3>1. alloc'[c.session] = IF alloc[c.session].status = "running" THEN alloc[c.session]
                              ELSE WithStatus(alloc[c.session], "running")
      BY <1>3, <2>1 DEF MarkStarted
    <3> QED
      BY <2>1, <2>2, <2>3, <3>1, WithStatusFields DEF AllocationStatus
  <2>5. ASSUME NEW d \in started, d.session = c.session PROVE d = c
    <3>1. d.gen = c.gen /\ d \in Issued
      BY <1>0, <2>2, <2>5 DEF StartedIsCurrent, Live
    <3> QED
      BY <1>0, <2>1, <2>5, <3>1 DEF IssuedInv
  <2> QED
    BY <1>0, <1>1, <2>2, <2>4, <2>5 DEF StartedInv, StartedIsCurrent, NoDuplicateStart
<1> QED
  BY <1>2, <1>3, StartedFrame

-----------------------------------------------------------------------------
(* The invariant is inductive. *)

LEMMA StepInvariant == IInv /\ [Next]_vars => IInv'
<1> SUFFICES ASSUME IInv, [Next]_vars PROVE IInv'
  OBVIOUS
<1>1. TypeOK'
  BY TypeStep DEF IInv
<1> QED
  BY <1>1, NamesStep, RecordStep, UnregisteredStep, OneAssignmentStep, AssignedRunnerStep,
     FenceStep, LostStep, RetiredStep, SnapshotStep, IssuedStep, StartedStep
     DEF IInv
=============================================================================
