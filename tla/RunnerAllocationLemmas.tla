------------------------- MODULE RunnerAllocationLemmas -------------------------
(***************************************************************************)
(* Lemmas the proofs about RunnerAllocation rest on: what the operators    *)
(* that build records return, and which actions write which variable.      *)
(***************************************************************************)
EXTENDS RunnerAllocationInvariant, TLAPS

-----------------------------------------------------------------------------
(* What the record operators return. *)

(* A claim keeps the record well formed and writes exactly this.            *)
LEMMA LeasedFields ==
  ASSUME NEW a \in Allocation, NEW r \in Runner
  PROVE  /\ Leased(a, r) \in Allocation
         /\ Leased(a, r).status = "leased"
         /\ Leased(a, r).runner = r
         /\ Leased(a, r).gen = IF a.status = "leased" THEN a.gen + 1 ELSE a.gen
         /\ Leased(a, r).lease = a.attempts + 1
         /\ Leased(a, r).ver = a.ver + 1
  BY DEF Allocation, AllocationStatus, Leased

(* A requeued record is pending, unassigned and one generation on.          *)
LEMMA RequeuedFields ==
  ASSUME NEW a \in Allocation
  PROVE  /\ Requeued(a) \in Allocation
         /\ Requeued(a).status = "pending"
         /\ Requeued(a).runner = NoRunner
         /\ Requeued(a).gen = a.gen + 1
         /\ Requeued(a).ver = a.ver + 1
  BY DEF Allocation, AllocationStatus, Requeued

(* A change of status leaves the assignment alone.                          *)
LEMMA WithStatusFields ==
  ASSUME NEW a \in Allocation, NEW status \in AllocationStatus
  PROVE  /\ WithStatus(a, status) \in Allocation
         /\ WithStatus(a, status).status = status
         /\ WithStatus(a, status).runner = a.runner
         /\ WithStatus(a, status).gen = a.gen
         /\ WithStatus(a, status).lease = a.lease
         /\ WithStatus(a, status).ver = a.ver + 1
  BY DEF Allocation, WithStatus

(* The constant records.                                                    *)
LEMMA BlankFields ==
  /\ NoAllocation \in Allocation
  /\ NoAllocation.status = "new" /\ NoAllocation.runner = NoRunner /\ NoAllocation.gen = 0
  /\ Enqueued \in Allocation
  /\ Enqueued.status = "pending" /\ Enqueued.runner = NoRunner
  /\ Enqueued.gen = 1 /\ Enqueued.ver = 1
  /\ Deleted \in Allocation
  /\ Deleted.status = "deleted" /\ Deleted.runner = NoRunner /\ Deleted.gen = 0
  BY DEF Allocation, AllocationStatus, NoAllocation, Enqueued, Deleted

(* A new request is at pc, about r and s.                                   *)
LEMMA ServingFields ==
  ASSUME NEW pc \in Pc, NEW r \in Runner \cup {NoRunner}, NEW s \in Session \cup {NoSession}
  PROVE  /\ Serving(pc, r, s) \in Request
         /\ Serving(pc, r, s).pc = pc
         /\ Serving(pc, r, s).runner = r
         /\ Serving(pc, r, s).session = s
  BY BlankFields DEF Serving, Request

LEMMA FreeFields == Free \in Request /\ Free.pc = "free" /\ Free.runner = NoRunner
  BY ServingFields DEF Free, Pc

LEMMA AllocationFields ==
  ASSUME NEW a \in Allocation
  PROVE  /\ a.status \in AllocationStatus
         /\ a.runner \in Runner \cup {NoRunner}
         /\ a.gen \in Nat /\ a.lease \in Nat /\ a.attempts \in Nat /\ a.ver \in Nat
  BY DEF Allocation

LEMMA RequestFields ==
  ASSUME NEW q \in Request
  PROVE  /\ q.pc \in Pc
         /\ q.runner \in Runner \cup {NoRunner}
         /\ q.session \in Session \cup {NoSession}
         /\ q.snap \in Allocation
  BY DEF Request

(* A request that moves on is still about the same runner and session.      *)
LEMMA AdvanceFields ==
  ASSUME NEW q \in Request, NEW pc \in Pc
  PROVE  /\ Advance(q, pc) \in Request
         /\ Advance(q, pc).pc = pc
         /\ Advance(q, pc).runner = q.runner
         /\ Advance(q, pc).session = q.session
         /\ Advance(q, pc).snap = q.snap
  BY DEF Request, Advance

(* A worker without a claim, and one that has acknowledged its claim.       *)
LEMMA WorkerFields ==
  /\ \A phase \in Phase : EmptyHanded(phase) \in Worker /\ EmptyHanded(phase).phase = phase
  /\ \A w \in Worker : /\ w.phase \in Phase
                       /\ w.session \in Session \cup {NoSession}
                       /\ w.gen \in Nat /\ w.lease \in Nat
                       /\ Acked(w) \in Worker
                       /\ Acked(w).phase = "acked"
                       /\ Acked(w).session = w.session
  BY DEF EmptyHanded, Worker, Phase, Acked

-----------------------------------------------------------------------------
(* Which actions write which variable. *)

RunnerStep ==
  \/ \E r \in Runner :
       \/ RegisterRunner(r) \/ AcknowledgeRunning(r) \/ RetireRunner(r)
       \/ LeaveTombstone(r) \/ DeleteTombstone(r)
  \/ \E h \in Handler :
       \/ Reserve(h) \/ Rollback(h) \/ SettleRunning(h) \/ SettleIdle(h)
       \/ DeleteRunnerOfSession(h) \/ DeleteRunner(h)

AllocationStep ==
  \/ \E s \in Session : Enqueue(s)
  \/ \E h \in Handler, r \in Runner :
       Acknowledge(h, r) \/ Fail(h, r)
  \/ \E h \in Handler :
       WriteLease(h) \/ RequeueUnstarted(h) \/ DeleteAllocation(h)
  \/ \E c \in runtimes : MarkStarted(c)

ExpiredStep ==
  \/ \E s \in Session : LeaseExpires(s)
  \/ \E h \in Handler, r \in Runner : Fail(h, r)
  \/ \E h \in Handler :
       WriteLease(h) \/ RequeueUnstarted(h) \/ DeleteAllocation(h)

HandlerStep ==
  \/ \E h \in Handler, r \in Runner :
       \/ ClaimNext(h, r) \/ Acknowledge(h, r) \/ Fail(h, r)
       \/ DeleteAdminRunner(h, r) \/ DeleteInactiveRunner(h, r)
  \/ \E h \in Handler, s \in Session :
       ReconcileMissing(h, s) \/ DeleteSessionPoolAllocation(h, s)
  \/ \E h \in Handler :
       \/ Reserve(h) \/ WriteLease(h) \/ WriteLeaseConflict(h)
       \/ Rollback(h) \/ Respond(h) \/ RequestLost(h) \/ SettleRunning(h)
       \/ SettleIdle(h) \/ RequeueUnstarted(h) \/ DeleteRunnerOfSession(h)
       \/ DeleteAllocation(h) \/ DeleteRunner(h)

WorkerStep ==
  \/ \E r \in Runner :
       \/ RegisterRunner(r) \/ WorkerExits(r) \/ AcknowledgeRunning(r)
       \/ AcknowledgeRefused(r) \/ FailRefused(r)
  \/ \E h \in Handler, r \in Runner :
       Acknowledge(h, r) \/ Fail(h, r)
  \/ \E h \in Handler : Respond(h) \/ SettleRunning(h)

(* runner changes in these actions only. *)
LEMMA RunnerFrame == [Next]_vars => RunnerStep \/ UNCHANGED runner
  BY Zenon
     DEF Next, vars, RunnerStep,
         Enqueue, LeaseExpires, ReportStatus, WorkerExits, AcknowledgeRefused, FailRefused,
         ClaimNext, Acknowledge, Fail, DeleteAdminRunner,
         DeleteInactiveRunner, ReconcileMissing, DeleteSessionPoolAllocation,
         WriteLease, WriteLeaseConflict, Respond, RequestLost,
         RequeueUnstarted, DeleteAllocation, MarkStarted

(* alloc changes in these actions only. *)
LEMMA AllocationFrame == [Next]_vars => AllocationStep \/ UNCHANGED alloc
  BY Zenon
     DEF Next, vars, AllocationStep,
         LeaseExpires, ReportStatus, RegisterRunner, WorkerExits, AcknowledgeRunning,
         AcknowledgeRefused, FailRefused, RetireRunner, LeaveTombstone,
         DeleteTombstone, ClaimNext, DeleteAdminRunner, DeleteInactiveRunner,
         ReconcileMissing, DeleteSessionPoolAllocation, Reserve,
         WriteLeaseConflict, Rollback, Respond, RequestLost, SettleRunning,
         SettleIdle, DeleteRunnerOfSession, DeleteRunner

(* expired changes in these actions only. *)
LEMMA ExpiredFrame == [Next]_vars => ExpiredStep \/ UNCHANGED expired
  BY Zenon
     DEF Next, vars, ExpiredStep,
         Enqueue, ReportStatus, RegisterRunner, WorkerExits, AcknowledgeRunning,
         AcknowledgeRefused, FailRefused, RetireRunner, LeaveTombstone,
         DeleteTombstone, ClaimNext, Acknowledge, DeleteAdminRunner,
         DeleteInactiveRunner, ReconcileMissing, DeleteSessionPoolAllocation,
         Reserve, WriteLeaseConflict, Rollback, Respond, RequestLost,
         SettleRunning, SettleIdle, DeleteRunnerOfSession, DeleteRunner,
         MarkStarted

(* handler changes in these actions only. *)
LEMMA HandlerFrame == [Next]_vars => HandlerStep \/ UNCHANGED handler
  BY Zenon
     DEF Next, vars, HandlerStep,
         Enqueue, LeaseExpires, ReportStatus, RegisterRunner, WorkerExits,
         AcknowledgeRunning, AcknowledgeRefused, FailRefused, RetireRunner,
         LeaveTombstone, DeleteTombstone, MarkStarted

(* worker changes in these actions only. *)
LEMMA WorkerFrame == [Next]_vars => WorkerStep \/ UNCHANGED worker
  BY Zenon
     DEF Next, vars, WorkerStep,
         Enqueue, LeaseExpires, ReportStatus, RetireRunner, LeaveTombstone,
         DeleteTombstone, ClaimNext, DeleteAdminRunner, DeleteInactiveRunner,
         ReconcileMissing, DeleteSessionPoolAllocation, Reserve, WriteLease,
         WriteLeaseConflict, Rollback, RequestLost, SettleIdle,
         RequeueUnstarted, DeleteRunnerOfSession, DeleteAllocation,
         DeleteRunner, MarkStarted

(* runtimes changes in this action only. *)
LEMMA RuntimesFrame ==
  [Next]_vars => (\E h \in Handler : Respond(h)) \/ UNCHANGED runtimes
  BY Zenon
     DEF Next, vars,
         Enqueue, LeaseExpires, ReportStatus, RegisterRunner, WorkerExits,
         AcknowledgeRunning, AcknowledgeRefused, FailRefused, RetireRunner,
         LeaveTombstone, DeleteTombstone, ClaimNext, Acknowledge, Fail,
         DeleteAdminRunner, DeleteInactiveRunner, ReconcileMissing,
         DeleteSessionPoolAllocation, Reserve, WriteLease,
         WriteLeaseConflict, Rollback, RequestLost, SettleRunning,
         SettleIdle, RequeueUnstarted, DeleteRunnerOfSession,
         DeleteAllocation, DeleteRunner, MarkStarted

(* started changes in this action only. *)
LEMMA StartedFrame ==
  [Next]_vars => (\E c \in runtimes : MarkStarted(c)) \/ UNCHANGED started
  BY Zenon
     DEF Next, vars,
         Enqueue, LeaseExpires, ReportStatus, RegisterRunner, WorkerExits,
         AcknowledgeRunning, AcknowledgeRefused, FailRefused, RetireRunner,
         LeaveTombstone, DeleteTombstone, ClaimNext, Acknowledge, Fail,
         DeleteAdminRunner, DeleteInactiveRunner, ReconcileMissing,
         DeleteSessionPoolAllocation, Reserve, WriteLease,
         WriteLeaseConflict, Rollback, Respond, RequestLost, SettleRunning,
         SettleIdle, RequeueUnstarted, DeleteRunnerOfSession,
         DeleteAllocation, DeleteRunner

(* retired changes in this action only. *)
LEMMA RetiredFrame ==
  [Next]_vars => (\E r \in Runner : RetireRunner(r) \/ LeaveTombstone(r)) \/ UNCHANGED retired
  BY Zenon
     DEF Next, vars,
         Enqueue, LeaseExpires, ReportStatus, RegisterRunner, WorkerExits,
         AcknowledgeRunning, AcknowledgeRefused, FailRefused,
         DeleteTombstone, ClaimNext, Acknowledge, Fail, DeleteAdminRunner,
         DeleteInactiveRunner, ReconcileMissing, DeleteSessionPoolAllocation,
         Reserve, WriteLease, WriteLeaseConflict, Rollback, Respond,
         RequestLost, SettleRunning, SettleIdle, RequeueUnstarted,
         DeleteRunnerOfSession, DeleteAllocation, DeleteRunner, MarkStarted

(* erased only grows; in these actions, which leave no record behind.       *)
LEMMA ErasedFrame ==
  ASSUME [Next]_vars
  PROVE  /\ erased \subseteq erased'
         /\ (\E h \in Handler : DeleteRunnerOfSession(h) \/ DeleteRunner(h)) \/ UNCHANGED erased
<1>1. (\E h \in Handler : DeleteRunnerOfSession(h) \/ DeleteRunner(h)) \/ UNCHANGED erased
  BY Zenon
     DEF Next, vars,
         Enqueue, LeaseExpires, ReportStatus, RegisterRunner, WorkerExits,
         AcknowledgeRunning, AcknowledgeRefused, FailRefused, RetireRunner,
         LeaveTombstone, DeleteTombstone, ClaimNext, Acknowledge, Fail,
         DeleteAdminRunner, DeleteInactiveRunner, ReconcileMissing,
         DeleteSessionPoolAllocation, Reserve, WriteLease,
         WriteLeaseConflict, Rollback, Respond, RequestLost, SettleRunning,
         SettleIdle, RequeueUnstarted, DeleteAllocation, MarkStarted
<1>2. ASSUME NEW h \in Handler, DeleteRunnerOfSession(h) \/ DeleteRunner(h)
      PROVE  erased \subseteq erased'
  BY <1>2 DEF DeleteRunnerOfSession, DeleteRunner
<1> QED
  BY <1>1, <1>2

(* reported changes in these actions only. *)
LEMMA ReportedFrame ==
  [Next]_vars =>
    \/ \E s \in Session : ReportStatus(s)
    \/ \E h \in Handler : Respond(h)
    \/ UNCHANGED reported
  BY Zenon
     DEF Next, vars,
         Enqueue, LeaseExpires, RegisterRunner, WorkerExits,
         AcknowledgeRunning, AcknowledgeRefused, FailRefused, RetireRunner,
         LeaveTombstone, DeleteTombstone, ClaimNext, Acknowledge, Fail,
         DeleteAdminRunner, DeleteInactiveRunner, ReconcileMissing,
         DeleteSessionPoolAllocation, Reserve, WriteLease,
         WriteLeaseConflict, Rollback, RequestLost, SettleRunning,
         SettleIdle, RequeueUnstarted, DeleteRunnerOfSession,
         DeleteAllocation, DeleteRunner, MarkStarted
=============================================================================
