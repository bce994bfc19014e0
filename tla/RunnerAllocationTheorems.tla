------------------------ MODULE RunnerAllocationTheorems ------------------------
(***************************************************************************)
(* What is known of RunnerAllocation for every choice of its constants:    *)
(* the invariant, the safety properties that follow from it, and that the  *)
(* protocol implements SessionHandoff.                                     *)
(***************************************************************************)
EXTENDS RunnerAllocationProofs

(* The inductive invariant holds in every state of every behaviour.         *)
THEOREM Invariance == Spec => []IInv
<1>1. Init => IInv
  BY InitInvariant
<1>2. IInv /\ [Next]_vars => IInv'
  BY StepInvariant
<1> QED
  BY <1>1, <1>2, PTL DEF Spec

(* Every variable keeps its type.                                           *)
THEOREM TypeCorrectness == Spec => []TypeOK
<1>1. IInv => TypeOK
  BY DEF IInv
<1> QED
  BY <1>1, Invariance, PTL

(* Of all the hand-offs of a session MarkStarted admits at most one.        *)
THEOREM AtMostOneStart == Spec => []NoDuplicateStart
<1>1. IInv => NoDuplicateStart
  BY DEF IInv, StartedInv
<1> QED
  BY <1>1, Invariance, PTL

(* The runtime MarkStarted admitted stays the one the allocation names.     *)
THEOREM AdmittedStaysCurrent == Spec => []StartedIsCurrent
<1>1. IInv => StartedIsCurrent
  BY DEF IInv, StartedInv
<1> QED
  BY <1>1, Invariance, PTL

(* Session and generation identify a hand-off, reclaims included.           *)
THEOREM GenerationIdentifiesHandoff == Spec => []HandoffsDistinct
<1>1. IInv => HandoffsDistinct
  BY DEF IInv, IssuedInv, Issued, HandoffsDistinct
<1> QED
  BY <1>1, Invariance, PTL

(* ClaimNext never gives a runner a second live allocation.                 *)
THEOREM RunnerServesOneSession == Spec => []OneAssignmentPerRunner
<1>1. IInv => OneAssignmentPerRunner
  BY DEF IInv
<1> QED
  BY <1>1, Invariance, PTL

(* The record of a runner with an allocation is neither idle nor draining.  *)
THEOREM AssignmentFencesRunner == Spec => []AssignedRunnerIsFenced
<1>1. IInv => AssignedRunnerIsFenced
  BY DEF IInv
<1> QED
  BY <1>1, Invariance, PTL

(* A retired runner is never claimable again, and holds no session unless   *)
(* its record was deleted while one named it.                               *)
THEOREM RetirementIsSafe == Spec => []RetiredNeverAssigned
<1>1. IInv => RetiredNeverAssigned
  BY DEF IInv
<1> QED
  BY <1>1, Invariance, PTL

-----------------------------------------------------------------------------
(* Action properties. *)

(* A lease is written under a generation above all those handed out.        *)
THEOREM FreshHandoff == Spec => HandoffIsFresh
<1> DEFINE Fresh == \A s \in Session :
                      alloc'[s].runner \notin {NoRunner, alloc[s].runner} =>
                        \A c \in runtimes : c.session = s => c.gen < alloc'[s].gen
<1>1. IInv /\ [Next]_vars => Fresh
  <2> SUFFICES ASSUME IInv, [Next]_vars, NEW s \in Session,
                      alloc'[s].runner \notin {NoRunner, alloc[s].runner},
                      NEW c \in runtimes, c.session = s
               PROVE  c.gen < alloc'[s].gen
    OBVIOUS
  <2>1. /\ alloc[s].status \in {"pending", "leased"}
        /\ alloc'[s].gen = IF alloc[s].status = "leased" THEN alloc[s].gen + 1 ELSE alloc[s].gen
    BY AllocationChange
  <2>2. c.gen \in Nat /\ alloc[s].gen \in Nat
    BY AllocationFields DEF IInv, TypeOK, Claim
  <2>3. c.gen < alloc[s].gen \/ (c.gen = alloc[s].gen /\ alloc[s].status = "leased")
    <3>1. c \in Issued /\ IssuedInv
      BY DEF Issued, IInv
    <3>2. \/ alloc[s].status = "deleted"
          \/ c.gen < alloc[s].gen
          \/ /\ c.gen = alloc[s].gen
             /\ alloc[s].status \in {"leased", "claimed", "running"}
      BY <3>1 DEF IssuedInv, Live
    <3> QED
      BY <2>1, <3>2
  <2> QED
    BY <2>1, <2>2, <2>3
<1> HIDE DEF Fresh
<1>2. [Next]_vars /\ IInv => [Fresh]_vars
  BY <1>1
<1>3. Spec => [][Fresh]_vars
  BY <1>2, Invariance, PTL DEF Spec
<1> QED
  BY <1>3 DEF HandoffIsFresh, Fresh

(* The record of a started session is written by its deletion only.         *)
THEOREM StartIsFinal == Spec => RunningIsFinal
<1> DEFINE Final == \A s \in Session :
                      alloc[s].status = "running" =>
                        alloc'[s] = alloc[s] \/ alloc'[s].status = "deleted"
<1>1. IInv /\ [Next]_vars => [Final]_vars
  BY AllocationChange DEF Final
<1> HIDE DEF Final
<1>2. Spec => [][Final]_vars
  BY <1>1, Invariance, PTL DEF Spec
<1> QED
  BY <1>2 DEF RunningIsFinal, Final

-----------------------------------------------------------------------------
(* The refinement of SessionHandoff. *)

(* A step writes one allocation.                                            *)
LEMMA OneAllocation ==
  ASSUME IInv, [Next]_vars, ~UNCHANGED alloc
  PROVE  \E s \in Session : \A t \in Session : t # s => alloc'[t] = alloc[t]
<1>0. /\ alloc \in [Session -> Allocation] /\ NamesInv
      /\ \A c \in runtimes : c.session \in Session
  BY DEF IInv, TypeOK, Claim
<1>1. ASSUME NEW s \in Session, NEW x, alloc' = [alloc EXCEPT ![s] = x]
      PROVE  \E u \in Session : \A t \in Session : t # u => alloc'[t] = alloc[t]
  BY <1>0, <1>1
<1>2. ASSUME NEW s \in Session, Enqueue(s)
      PROVE  \E u \in Session : \A t \in Session : t # u => alloc'[t] = alloc[t]
  BY <1>1, <1>2 DEF Enqueue
<1>3. ASSUME NEW h \in Handler, NEW r \in Runner, Acknowledge(h, r) \/ Fail(h, r)
      PROVE  \E u \in Session : \A t \in Session : t # u => alloc'[t] = alloc[t]
  BY <1>0, <1>3 DEF Acknowledge, Fail, LeaseValid, Presents, NamesInv
<1>4. ASSUME NEW h \in Handler,
             WriteLease(h) \/ RequeueUnstarted(h) \/ DeleteAllocation(h)
      PROVE  \E u \in Session : \A t \in Session : t # u => alloc'[t] = alloc[t]
  BY <1>0, <1>4 DEF WriteLease, RequeueUnstarted, DeleteAllocation, NamesInv
<1>5. ASSUME NEW c \in runtimes, MarkStarted(c)
      PROVE  \E u \in Session : \A t \in Session : t # u => alloc'[t] = alloc[t]
  BY <1>0, <1>5 DEF MarkStarted
<1> QED
  BY <1>2, <1>3, <1>4, <1>5, AllocationFrame DEF AllocationStep

(* Only MarkStarted makes an allocation running.                            *)
LEMMA OnlyStartsRun ==
  ASSUME IInv, [Next]_vars, NEW s \in Session,
         alloc'[s].status = "running", alloc'[s] # alloc[s]
  PROVE  \E c \in runtimes : MarkStarted(c)
<1>0. /\ alloc \in [Session -> Allocation] /\ NamesInv
      /\ alloc[s] \in Allocation
  BY DEF IInv, TypeOK
<1>1. ASSUME NEW h \in Handler, NEW r \in Runner, Acknowledge(h, r) PROVE FALSE
  <2>1. alloc'[s] = WithStatus(alloc[s], "claimed")
    BY <1>0, <1>1 DEF Acknowledge, LeaseValid, Presents, NamesInv
  <2> QED
    BY <1>0, <2>1, WithStatusFields DEF AllocationStatus
<1>2. ASSUME NEW t \in Session, Enqueue(t) PROVE FALSE
  BY <1>0, <1>2, BlankFields DEF Enqueue
<1>3. ASSUME NEW h \in Handler, NEW r \in Runner, Fail(h, r) PROVE FALSE
  BY <1>0, <1>3, RequeuedFields DEF Fail, LeaseValid, Presents, NamesInv
<1>4. ASSUME NEW h \in Handler, WriteLease(h) PROVE FALSE
  <2>1. handler[h].snap \in Allocation /\ handler[h].runner \in Runner
    BY <1>4, RequestFields DEF WriteLease, IInv, TypeOK, NamesInv
  <2> QED
    BY <1>0, <1>4, <2>1, LeasedFields DEF WriteLease, NamesInv
<1>5. ASSUME NEW h \in Handler, RequeueUnstarted(h) \/ DeleteAllocation(h) PROVE FALSE
  BY <1>0, <1>5, RequeuedFields, BlankFields DEF RequeueUnstarted, DeleteAllocation, NamesInv
<1> QED
  BY <1>1, <1>2, <1>3, <1>4, <1>5, AllocationFrame DEF AllocationStep

(* An admitted call starts the current offer.                               *)
LEMMA StartRefines ==
  ASSUME IInv, [Next]_vars, NEW c \in runtimes, MarkStarted(c)
  PROVE  Handoff!Start(c.session)
<1> DEFINE s == c.session
<1>1. /\ s \in Session /\ c \in Issued
      /\ alloc \in [Session -> Allocation] /\ alloc[s] \in Allocation
      /\ IssuedInv
  BY DEF IInv, TypeOK, Claim, Issued
<1>2. /\ alloc[s].status \in {"leased", "claimed", "running"}
      /\ alloc[s].gen = c.gen
      /\ started' = started \cup {c}
      /\ alloc' = [alloc EXCEPT ![s] = IF alloc[s].status = "running" THEN alloc[s]
                                       ELSE WithStatus(alloc[s], "running")]
  BY <1>1 DEF MarkStarted, Live
<1>3. alloc[s].runner = c.runner
  BY <1>1, <1>2, AllocationFields DEF IssuedInv, Live
<1>4. /\ alloc'[s].status = "running"
      /\ alloc'[s].gen = alloc[s].gen
      /\ alloc'[s].runner = alloc[s].runner
      /\ \A t \in Session : t # s => alloc'[t] = alloc[t]
  BY <1>1, <1>2, WithStatusFields DEF AllocationStatus
<1> HIDE DEF s
<1>5. /\ Stage[alloc[s].status] \in {"offered", "started"}
      /\ Stage[alloc'[s].status] = "started"
  BY <1>2, <1>4 DEF Stage
<1>6. /\ [t \in Session |-> Stage[alloc[t].status]][s] \in {"offered", "started"}
      /\ [t \in Session |-> Stage[alloc'[t].status]]
           = [[t \in Session |-> Stage[alloc[t].status]] EXCEPT ![s] = "started"]
  BY <1>1, <1>4, <1>5
<1>7. /\ [t \in Session |-> alloc'[t].gen] = [t \in Session |-> alloc[t].gen]
      /\ [t \in Session |-> alloc'[t].runner] = [t \in Session |-> alloc[t].runner]
  BY <1>4
<1>8. {[session |-> d.session, runner |-> d.runner, round |-> d.gen] : d \in started'}
        = {[session |-> d.session, runner |-> d.runner, round |-> d.gen] : d \in started}
            \cup {[session |-> s, runner |-> [t \in Session |-> alloc[t].runner][s],
                   round |-> [t \in Session |-> alloc[t].gen][s]]}
  BY <1>1, <1>2, <1>3 DEF s
<1> QED
  BY <1>6, <1>7, <1>8 DEF Handoff!Start, Handoff!Offered, s

(* A record with another status or assignment, the starts being as before.  *)
LEMMA RecordRefines ==
  ASSUME IInv, [Next]_vars, NEW s \in Session,
         \A t \in Session : t # s => alloc'[t] = alloc[t],
         ~\E c \in runtimes : MarkStarted(c)
  PROVE  \/ Handoff!Submit(s) \/ Handoff!Withdraw(s) \/ Handoff!Remove(s)
         \/ \E r \in Runner : Handoff!Offer(s, r)
         \/ UNCHANGED Handoff!handoffVars
<1>0. started' = started
  BY StartedFrame
<1>1. ASSUME NEW to, Stage[alloc'[s].status] = to
      PROVE  [t \in Session |-> Stage[alloc'[t].status]]
               = [[t \in Session |-> Stage[alloc[t].status]] EXCEPT ![s] = to]
  BY <1>1
<1>2. ASSUME NEW to, alloc'[s].gen = to
      PROVE  [t \in Session |-> alloc'[t].gen]
               = [[t \in Session |-> alloc[t].gen] EXCEPT ![s] = to]
  BY <1>2
<1>3. ASSUME NEW to, alloc'[s].runner = to
      PROVE  [t \in Session |-> alloc'[t].runner]
               = [[t \in Session |-> alloc[t].runner] EXCEPT ![s] = to]
  BY <1>3
<1>4. /\ [t \in Session |-> Stage[alloc[t].status]][s] = Stage[alloc[s].status]
      /\ [t \in Session |-> alloc[t].gen][s] = alloc[s].gen
  OBVIOUS
<1>5. CASE /\ alloc[s].status = "new" /\ alloc'[s].status = "pending"
           /\ alloc'[s].runner = NoRunner /\ alloc'[s].gen = 1
  <2>1. /\ Stage[alloc[s].status] = "new" /\ Stage[alloc'[s].status] = "waiting"
        /\ alloc'[s].gen = 1
        /\ alloc'[s].runner = alloc[s].runner
    BY <1>5, AllocationFields DEF Stage, IInv, TypeOK, RecordInv, Live
  <2> QED
    BY <1>0, <1>1, <1>2, <1>3, <1>4, <2>1 DEF Handoff!Submit
<1>6. ASSUME NEW h \in Handler, WriteLease(h), handler[h].session = s,
             alloc[s].status \in {"pending", "leased"},
             alloc'[s].status = "leased", handler[h].runner \in Runner,
             alloc'[s].runner = handler[h].runner,
             alloc'[s].gen = IF alloc[s].status = "leased" THEN alloc[s].gen + 1 ELSE alloc[s].gen
      PROVE  \E r \in Runner : Handoff!Offer(s, r)
  <2>1. /\ Stage[alloc[s].status] \in {"waiting", "offered"}
        /\ Stage[alloc'[s].status] = "offered"
        /\ alloc'[s].gen = IF Stage[alloc[s].status] = "offered" THEN alloc[s].gen + 1
                                                                  ELSE alloc[s].gen
    BY <1>6 DEF Stage
  <2> QED
    BY <1>0, <1>1, <1>2, <1>3, <1>4, <1>6, <2>1 DEF Handoff!Offer
<1>7. CASE /\ alloc[s].status \in {"leased", "claimed"} /\ alloc'[s].status = "claimed"
           /\ alloc'[s].runner = alloc[s].runner /\ alloc'[s].gen = alloc[s].gen
  <2>1. Stage[alloc'[s].status] = Stage[alloc[s].status]
    BY <1>7 DEF Stage
  <2>2. \A t \in Session : /\ Stage[alloc'[t].status] = Stage[alloc[t].status]
                           /\ alloc'[t].gen = alloc[t].gen
                           /\ alloc'[t].runner = alloc[t].runner
    BY <1>7, <2>1
  <2> QED
    BY <1>0, <2>2 DEF Handoff!handoffVars
<1>8. CASE /\ alloc[s].status \in {"leased", "claimed"} /\ alloc'[s].status = "pending"
           /\ alloc'[s].runner = NoRunner /\ alloc'[s].gen = alloc[s].gen + 1
  <2>1. Stage[alloc[s].status] = "offered" /\ Stage[alloc'[s].status] = "waiting"
    BY <1>8 DEF Stage
  <2> QED
    BY <1>0, <1>1, <1>2, <1>3, <1>4, <1>8, <2>1 DEF Handoff!Withdraw
<1>9. CASE /\ alloc[s].status # "new" /\ alloc'[s].status = "deleted"
           /\ alloc'[s].runner = NoRunner /\ alloc'[s].gen = 0
  <2>1. Stage[alloc[s].status] # "new" /\ Stage[alloc'[s].status] = "gone"
    <3>1. alloc[s].status \in AllocationStatus
      BY AllocationFields DEF IInv, TypeOK
    <3> QED
      BY <1>9, <3>1 DEF Stage, AllocationStatus
  <2> QED
    BY <1>0, <1>1, <1>2, <1>3, <1>4, <1>9, <2>1 DEF Handoff!Remove
<1>10. CASE alloc'[s] = alloc[s]
  BY <1>0, <1>10 DEF Handoff!handoffVars
<1>11. alloc'[s].status = "running" => alloc'[s] = alloc[s]
  BY OnlyStartsRun
<1> QED
  BY <1>5, <1>6, <1>7, <1>8, <1>9, <1>10, <1>11, AllocationChange

LEMMA StepRefines ==
  ASSUME IInv, [Next]_vars
  PROVE  [Handoff!HandoffNext]_(Handoff!handoffVars)
<1>1. ASSUME NEW c \in runtimes, MarkStarted(c) PROVE Handoff!HandoffNext
  <2>1. c.session \in Session
    BY DEF IInv, TypeOK, Claim
  <2> QED
    BY <1>1, <2>1, StartRefines DEF Handoff!HandoffNext
<1>2. CASE UNCHANGED alloc /\ ~\E c \in runtimes : MarkStarted(c)
  BY <1>2, StartedFrame DEF Handoff!handoffVars
<1>3. CASE ~UNCHANGED alloc /\ ~\E c \in runtimes : MarkStarted(c)
  <2>1. PICK s \in Session : \A t \in Session : t # s => alloc'[t] = alloc[t]
    BY <1>3, OneAllocation
  <2> QED
    BY <1>3, <2>1, RecordRefines DEF Handoff!HandoffNext
<1> QED
  BY <1>1, <1>2, <1>3

LEMMA InitRefines == Init => Handoff!HandoffInit
  BY DEF Init, Handoff!HandoffInit, NoAllocation, Stage

(* The protocol implements SessionHandoff, for any number of runners,       *)
(* sessions, requests and attempts.                                         *)
THEOREM Refinement == Spec => ImplementsHandoff
<1>1. IInv /\ [Next]_vars => [Handoff!HandoffNext]_(Handoff!handoffVars)
  BY StepRefines
<1> QED
  BY <1>1, InitRefines, Invariance, PTL DEF Spec, ImplementsHandoff, Handoff!HandoffSpec
=============================================================================
