------------------------ MODULE SessionAllocatorProofs ------------------------
(***************************************************************************)
(* Proofs about SessionAllocator: the invariant of                         *)
(* SessionAllocatorInvariant, one lemma per action, and what follows.      *)
(***************************************************************************)
EXTENDS SessionAllocatorInvariant, FiniteSetTheorems, TLAPS

----------------------------------------------------------------------------
(* What the loop of w becomes.                                             *)

LEMMA Ending ==
    ASSUME NEW w \in Workers
    PROVE  /\ LoopOK(Again(w)) /\ Again(w).pc \in {"look", "off"}
           /\ Again(w).pc # "off" => Again(w).live /\ worker[w].live
<1>1. Again(w) = [pc |-> "look", live |-> TRUE, todo |-> {}, request |-> None, stock |-> None,
                  result |-> "error"] \/ Again(w) = Off
  BY DEF Again, Off
<1> QED
  BY <1>1 DEF Again, Off, LoopOK, Loop, WorkerPCs, Taken, Ahead, Recording, Adopted,
     Unclaimed

LEMMA WasSet ==
    ASSUME TypeInv, NEW w \in Workers, NEW l \in Loop, Set(w, l)
    PROVE  /\ worker' \in [Workers -> Loop]
           /\ worker'[w] = l
           /\ \A v \in Workers : v # w => worker'[v] = worker[v]
BY DEF TypeInv, Set

LEMMA Went ==
    ASSUME TypeInv, NEW w \in Workers, NEW pc \in WorkerPCs, Goto(w, pc)
    PROVE  /\ worker' \in [Workers -> Loop]
           /\ \A v \in Workers : v # w => worker'[v] = worker[v]
           /\ worker'[w].pc = pc
           /\ worker'[w].live = worker[w].live /\ worker'[w].todo = worker[w].todo
           /\ worker'[w].request = worker[w].request /\ worker'[w].stock = worker[w].stock
           /\ worker'[w].result = worker[w].result
<1> DEFINE l == [worker[w] EXCEPT !.pc = pc]
<1>1. /\ l \in Loop /\ l.pc = pc /\ l.live = worker[w].live /\ l.todo = worker[w].todo
      /\ l.request = worker[w].request /\ l.stock = worker[w].stock
      /\ l.result = worker[w].result
  BY DEF TypeInv, Loop
<1>2. Set(w, l)
  BY DEF Goto
<1> HIDE DEF l
<1> QED
  BY <1>1, <1>2, WasSet

LEMMA CameOut ==
    ASSUME TypeInv, NEW w \in Workers, NEW result \in {"assigned", "error"}, Outcome(w, result)
    PROVE  /\ worker' \in [Workers -> Loop]
           /\ \A v \in Workers : v # w => worker'[v] = worker[v]
           /\ worker'[w].pc = IF result = "assigned" /\ worker[w].stock # None
                              THEN "load" ELSE "get"
           /\ worker'[w].live = worker[w].live /\ worker'[w].todo = worker[w].todo
           /\ worker'[w].request = worker[w].request /\ worker'[w].stock = worker[w].stock
           /\ worker'[w].result = result
<1> DEFINE pc == IF result = "assigned" /\ worker[w].stock # None THEN "load" ELSE "get"
           k == [worker[w] EXCEPT !.result = result]
           l == [k EXCEPT !.pc = pc]
<1>1. pc \in WorkerPCs
  BY DEF WorkerPCs
<1>2. Set(w, l)
  BY DEF Outcome
<1>3. pc = IF result = "assigned" /\ worker[w].stock # None THEN "load" ELSE "get"
  OBVIOUS
<1> HIDE DEF pc
<1>4. worker[w] \in Loop
  BY DEF TypeInv
<1>5. /\ k \in Loop /\ k.live = worker[w].live /\ k.todo = worker[w].todo
      /\ k.request = worker[w].request /\ k.stock = worker[w].stock
      /\ k.result = result
  BY <1>4 DEF Loop
<1> HIDE DEF k
<1>6. /\ l \in Loop /\ l.pc = pc /\ l.live = worker[w].live /\ l.todo = worker[w].todo
      /\ l.request = worker[w].request /\ l.stock = worker[w].stock
      /\ l.result = result
  BY <1>1, <1>5 DEF Loop
<1> HIDE DEF l
<1> QED
  BY <1>2, <1>3, <1>6, WasSet

LEMMA WasDone ==
    ASSUME TypeInv, NEW w \in Workers, Done(w)
    PROVE  /\ worker' \in [Workers -> Loop]
           /\ \A v \in Workers : v # w => worker'[v] = worker[v]
           /\ LoopOK(worker'[w]) /\ worker'[w].pc \in {"look", "off"}
           /\ worker'[w].pc # "off" => worker'[w].live /\ worker[w].live
BY Ending, WasSet DEF Done, LoopOK

LEMMA TookStock ==
    ASSUME TypeInv, NEW w \in Workers, NEW pc \in WorkerPCs, NEW s \in Stock \cup {None},
           Set(w, [worker[w] EXCEPT !.pc = pc, !.stock = s])
    PROVE  /\ worker' \in [Workers -> Loop]
           /\ \A v \in Workers : v # w => worker'[v] = worker[v]
           /\ worker'[w].pc = pc /\ worker'[w].stock = s
           /\ worker'[w].live = worker[w].live /\ worker'[w].todo = worker[w].todo
           /\ worker'[w].request = worker[w].request /\ worker'[w].result = worker[w].result
<1> DEFINE k == [worker[w] EXCEPT !.pc = pc]
           l == [k EXCEPT !.stock = s]
<1>1. worker[w] \in Loop
  BY DEF TypeInv
<1>2. /\ k \in Loop /\ k.pc = pc /\ k.live = worker[w].live /\ k.todo = worker[w].todo
      /\ k.request = worker[w].request
      /\ k.result = worker[w].result
  BY <1>1 DEF Loop
<1>3. Set(w, l)
  OBVIOUS
<1> HIDE DEF k
<1>4. /\ l \in Loop /\ l.pc = pc /\ l.live = worker[w].live /\ l.todo = worker[w].todo
      /\ l.request = worker[w].request /\ l.stock = s
      /\ l.result = worker[w].result
  BY <1>2 DEF Loop
<1> HIDE DEF l
<1> QED
  BY <1>3, <1>4, WasSet

(* A step of the loop of w that takes on no request and gives none up      *)
(* while its session works.                                                *)
LEMMA OnceKept ==
    ASSUME OnceInv, NEW w \in Workers, \A v \in Workers : v # w => worker'[v] = worker[v],
           faults' = 0 => faults = 0, UNCHANGED <<alloc, runs>>,
           worker'[w].todo \subseteq worker[w].todo,
           worker'[w].pc \in Ahead =>
               worker[w].pc \in Ahead /\ worker'[w].request = worker[w].request,
           worker[w].pc \in Recording =>
               worker'[w].pc \in Recording /\ worker'[w].request = worker[w].request
    PROVE  OnceInv'
<1> SUFFICES ASSUME faults' = 0 PROVE OnceInv'
  BY DEF OnceInv
<1>1. faults = 0 /\ alloc' = alloc /\ runs' = runs
  OBVIOUS
<1>2. ASSUME NEW q \in Requests, alloc'[q] \in Waiting, ~Unserved(q)'
      PROVE  \E v \in Workers : worker'[v].pc \in Recording /\ worker'[v].request = q
  <2>1. PICK v \in Workers : worker[v].pc \in Recording /\ worker[v].request = q
    BY <1>1, <1>2 DEF OnceInv, Unserved
  <2> QED
    BY <2>1
<1>3. ASSUME NEW v \in Workers
      PROVE  /\ \A q \in worker'[v].todo : Unserved(q)'
             /\ worker'[v].pc \in Ahead => Unserved(worker[v].request)'
  BY <1>1 DEF OnceInv, Unserved
<1>4. \A q \in Requests, s, t \in Sessions : runs'[s] = q /\ runs'[t] = q => s = t
  BY <1>1 DEF OnceInv
<1> QED
  BY <1>2, <1>3, <1>4 DEF OnceInv

----------------------------------------------------------------------------
(* Leaders come and go.                                                    *)

LEMMA LeadStep ==
    ASSUME AllocatorInv, NEW w \in Workers, Lead(w)
    PROVE  AllocatorInv'
<1>1. /\ worker' \in [Workers -> Loop]
      /\ \A v \in Workers : v # w => worker'[v] = worker[v]
      /\ LoopOK(worker'[w])
      /\ worker[w].pc = "off"
      /\ worker'[w].pc = "look" /\ worker'[w].live
      /\ lease = None /\ lease' = w
      /\ faults' = faults
  <2> DEFINE l == [Off EXCEPT !.pc = "look", !.live = TRUE]
  <2>1. TypeInv /\ worker[w] \in Loop /\ worker[w].pc = "off"
    BY DEF AllocatorInv, TypeInv, Lead, Acquirable, At, LoopOK, Taken, Ahead, Recording,
       Adopted, Unclaimed
  <2>2. l \in Loop /\ l.stock = None /\ l.pc = "look" /\ l.live /\ l.todo = {}
    BY <2>1, RequestAssumption DEF TypeInv, Loop, WorkerPCs, Off
  <2>3. LoopOK(l)
    BY <2>1, <2>2 DEF LoopOK, Taken, Ahead, Recording, Adopted, Unclaimed
  <2>4. Set(w, l)
    BY DEF Lead
  <2> HIDE DEF l
  <2> QED
    BY <2>1, <2>2, <2>3, <2>4, WasSet DEF Lead, Acquirable
<1>2. UNCHANGED <<alloc, service, runs, route, channel, user>>
  BY DEF Lead, sessionVars, queueVars
<1>3. TypeInv'
  BY <1>1, <1>2, RequestAssumption, BoundAssumption DEF AllocatorInv, TypeInv,
     LoopOK, Sessions, Waiting, Taken, Ahead, Recording, Adopted, Unclaimed
<1>4. SubmittedInv'
  BY <1>1, <1>2, RequestAssumption DEF AllocatorInv, TypeInv, SubmittedInv, Unserved,
     LoopOK, Taken, Ahead, Recording, Adopted, Unclaimed
<1>5. StockInv'
  BY <1>1, <1>2, RequestAssumption DEF AllocatorInv, TypeInv, StockInv, LoopOK,
     Sessions, At, Taken, Ahead, Recording, Adopted, Unclaimed
<1>6. ServedInv'
  BY <1>1, <1>2, RequestAssumption DEF AllocatorInv, TypeInv, ServedInv, LoopOK,
     Sessions, Taken, Ahead, Recording, Adopted, Unclaimed
<1>7. LeaderInv'
  BY <1>1, <1>2, RequestAssumption, BoundAssumption DEF AllocatorInv, TypeInv,
     LeaderInv, At
<1>8. WakeInv'
  BY <1>1, <1>2, RequestAssumption, BoundAssumption DEF AllocatorInv, TypeInv,
     WakeInv, Subscribed, LoopOK, At, Taken, Ahead, Recording, Adopted, Unclaimed
<1>9. OnceInv'
  BY <1>1, <1>2, RequestAssumption, BoundAssumption DEF AllocatorInv, TypeInv,
     OnceInv, Unserved, LoopOK, Sessions, Waiting, Taken, Ahead, Recording, Adopted,
     Unclaimed
<1> QED
  BY <1>3, <1>4, <1>5, <1>6, <1>7, <1>8, <1>9 DEF AllocatorInv

LEMMA StepDownStep ==
    ASSUME AllocatorInv, NEW w \in Workers, StepDown(w)
    PROVE  AllocatorInv'
<1>1. /\ worker' \in [Workers -> Loop]
      /\ \A v \in Workers : v # w => worker'[v] = worker[v]
      /\ LoopOK(worker'[w])
      /\ lease # w /\ worker[w].live
      /\ faults' = faults
      /\ channel' = [channel EXCEPT ![w] = None]
      /\ \/ worker'[w].pc = "off"
         \/ /\ worker[w].pc \notin {"look", "look_again", "wait", "read", "save"}
            /\ worker'[w].pc = worker[w].pc /\ worker'[w].request = worker[w].request
            /\ worker'[w].stock = worker[w].stock /\ worker'[w].result = worker[w].result
            /\ worker'[w].todo = worker[w].todo
  <2> DEFINE l == [worker[w] EXCEPT !.live = FALSE]
  <2>1. TypeInv /\ LoopOK(worker[w])
    BY DEF AllocatorInv, TypeInv
  <2>2. Off \in Loop /\ LoopOK(Off) /\ Off.pc = "off"
    BY DEF Off, Loop, WorkerPCs, LoopOK, Taken, Ahead, Recording, Adopted, Unclaimed
  <2>3. /\ l \in Loop /\ l.pc = worker[w].pc /\ l.request = worker[w].request
        /\ l.stock = worker[w].stock /\ l.result = worker[w].result
        /\ l.todo = worker[w].todo
    BY <2>1 DEF LoopOK, Loop
  <2>4. LoopOK(l)
    BY <2>1, <2>3 DEF LoopOK
  <2>5. (Idle(w) /\ Set(w, Off)) \/ (~Idle(w) /\ Set(w, l))
    BY DEF StepDown
  <2> HIDE DEF l
  <2> QED
    BY <2>1, <2>2, <2>3, <2>4, <2>5, WasSet DEF StepDown, Idle
<1>2. UNCHANGED <<alloc, service, runs, route, lease, user>>
  BY DEF StepDown, sessionVars, queueVars
<1>3. TypeInv'
  BY <1>1, <1>2, RequestAssumption, BoundAssumption DEF AllocatorInv, TypeInv,
     LoopOK, Sessions, Waiting, Taken, Ahead, Recording, Adopted, Unclaimed
<1>4. SubmittedInv'
  BY <1>1, <1>2, RequestAssumption DEF AllocatorInv, TypeInv, SubmittedInv, Unserved,
     LoopOK, Taken, Ahead, Recording, Adopted, Unclaimed
<1>5. StockInv'
  BY <1>1, <1>2, RequestAssumption DEF AllocatorInv, TypeInv, StockInv, LoopOK,
     Sessions, At, Taken, Ahead, Recording, Adopted, Unclaimed
<1>6. ServedInv'
  BY <1>1, <1>2, RequestAssumption DEF AllocatorInv, TypeInv, ServedInv, LoopOK,
     Sessions, Taken, Ahead, Recording, Adopted, Unclaimed
<1>7. LeaderInv'
  BY <1>1, <1>2, BoundAssumption DEF AllocatorInv, TypeInv, LeaderInv, At
<1>8. WakeInv'
  <2>1. \A v \in Workers :
            channel'[v] # None => worker'[v].pc \in {"look_again", "read", "save", "wait"}
    BY <1>1, <1>2 DEF AllocatorInv, TypeInv, WakeInv, Subscribed
  <2>2. ASSUME faults' = 0, NEW v \in Workers, NEW q \in Requests,
               channel'[v] = "empty", alloc'[q] = "pending"
        PROVE  \/ user'[q] = "notify"
               \/ worker'[v].pc = "look_again"
               \/ worker'[v].pc \in {"read", "save"} /\ q \in worker'[v].todo
               \/ worker'[v].pc = "save" /\ worker'[v].request = q
    <3>1. /\ faults = 0 /\ channel[v] = "empty" /\ alloc[q] = "pending"
          /\ worker[v].pc \in {"look_again", "read", "save", "wait"}
      BY <1>1, <1>2, <2>2, BoundAssumption DEF AllocatorInv, TypeInv, WakeInv, Subscribed,
         None, Waiting
    <3>2. \/ user[q] = "notify"
          \/ worker[v].pc = "look_again"
          \/ worker[v].pc \in {"read", "save"} /\ q \in worker[v].todo
          \/ worker[v].pc = "save" /\ worker[v].request = q
      BY <3>1 DEF AllocatorInv, WakeInv, At
    <3> QED
      BY <1>1, <1>2, <2>2, <3>1, <3>2 DEF Waiting, None, AllocatorInv, TypeInv
  <2> QED
    BY <2>1, <2>2 DEF WakeInv, At, Subscribed
<1>9. OnceInv'
  <2> DEFINE Worked == \A q \in Requests : alloc[q] \in Waiting =>
                           \/ Unserved(q)
                           \/ \E v \in Workers : worker[v].pc \in Recording /\ worker[v].request = q
             Fresh == \A v \in Workers :
                           /\ \A q \in worker[v].todo : Unserved(q)
                           /\ worker[v].pc \in Ahead => Unserved(worker[v].request)
             Single == \A q \in Requests, s, t \in Sessions : runs[s] = q /\ runs[t] = q => s = t
  <2>1. ASSUME faults' = 0 PROVE Worked' /\ Fresh' /\ Single'
    <3>1. /\ Worked /\ Fresh /\ Single
          /\ worker[w].pc # "off" => lease = w
          /\ worker[w].pc # "off" =>
                \A v \in Workers : v # w => worker[v].pc = "off" /\ worker[v].todo = {}
      BY <1>1, <1>2, <2>1, BoundAssumption DEF AllocatorInv, TypeInv, LoopOK, LeaderInv, At,
         OnceInv
    <3>2. Worked'
      BY <1>1, <1>2, <2>1, <3>1, RequestAssumption DEF AllocatorInv, TypeInv, LoopOK,
         Unserved,
         Sessions, Waiting, None, Taken, Ahead, Recording, Adopted, Unclaimed
    <3>3. Fresh'
      BY <1>1, <1>2, <2>1, <3>1, RequestAssumption DEF AllocatorInv, TypeInv, LoopOK,
         Unserved,
         Sessions, Taken, Ahead, Recording, Adopted, Unclaimed
    <3>4. Single'
      BY <1>1, <1>2, <2>1, <3>1, RequestAssumption DEF AllocatorInv, TypeInv, LoopOK,
         Unserved,
         Sessions, Taken, Ahead, Recording, Adopted, Unclaimed
    <3> QED
      BY <3>2, <3>3, <3>4
  <2> QED
    BY <2>1 DEF OnceInv
<1> QED
  BY <1>3, <1>4, <1>5, <1>6, <1>7, <1>8, <1>9 DEF AllocatorInv

LEMMA LeaseExpiresStep ==
    ASSUME AllocatorInv, LeaseExpires
    PROVE  AllocatorInv'
<1>1. TypeInv'
  BY RequestAssumption, BoundAssumption DEF AllocatorInv, TypeInv, LoopOK, Sessions,
     Waiting, Taken, Ahead, Recording, Adopted, Unclaimed, LeaseExpires, sessionVars,
     queueVars, At
<1>2. SubmittedInv'
  BY RequestAssumption DEF AllocatorInv, TypeInv, SubmittedInv, Unserved, LoopOK,
     Taken, Ahead, Recording, Adopted, Unclaimed, LeaseExpires, sessionVars,
     queueVars, At
<1>3. StockInv'
  BY RequestAssumption DEF AllocatorInv, TypeInv, StockInv, LoopOK, Sessions, At,
     Taken, Ahead, Recording, Adopted, Unclaimed, LeaseExpires, sessionVars, queueVars
<1>4. ServedInv'
  BY RequestAssumption DEF AllocatorInv, TypeInv, ServedInv, LoopOK, Sessions, Taken,
     Ahead, Recording, Adopted, Unclaimed, LeaseExpires, sessionVars, queueVars, At
<1>5. LeaderInv'
  BY BoundAssumption DEF AllocatorInv, TypeInv, LeaderInv, At, LeaseExpires,
     sessionVars, queueVars
<1>6. WakeInv'
  BY RequestAssumption, BoundAssumption DEF AllocatorInv, TypeInv, WakeInv,
     Subscribed, LoopOK, At, Taken, Ahead, Recording, Adopted, Unclaimed,
     LeaseExpires, sessionVars, queueVars
<1>7. OnceInv'
  BY RequestAssumption, BoundAssumption DEF AllocatorInv, TypeInv, OnceInv, Unserved,
     LoopOK, Sessions, Waiting, Taken, Ahead, Recording, Adopted, Unclaimed,
     LeaseExpires, sessionVars, queueVars, At
<1> QED
  BY <1>1, <1>2, <1>3, <1>4, <1>5, <1>6, <1>7 DEF AllocatorInv

LEMMA LeaseLostStep ==
    ASSUME AllocatorInv, LeaseLost
    PROVE  AllocatorInv'
<1>1. TypeInv'
  BY RequestAssumption, BoundAssumption DEF AllocatorInv, TypeInv, LoopOK, Sessions,
     Waiting, Taken, Ahead, Recording, Adopted, Unclaimed, LeaseLost, Fault,
     sessionVars, queueVars, At
<1>2. SubmittedInv'
  BY RequestAssumption DEF AllocatorInv, TypeInv, SubmittedInv, Unserved, LoopOK,
     Taken, Ahead, Recording, Adopted, Unclaimed, LeaseLost, Fault, sessionVars,
     queueVars, At
<1>3. StockInv'
  BY RequestAssumption DEF AllocatorInv, TypeInv, StockInv, LoopOK, Sessions, At,
     Taken, Ahead, Recording, Adopted, Unclaimed, LeaseLost, Fault, sessionVars,
     queueVars
<1>4. ServedInv'
  BY RequestAssumption DEF AllocatorInv, TypeInv, ServedInv, LoopOK, Sessions, Taken,
     Ahead, Recording, Adopted, Unclaimed, LeaseLost, Fault, sessionVars, queueVars,
     At
<1>5. LeaderInv'
  BY BoundAssumption DEF AllocatorInv, TypeInv, LeaderInv, At, LeaseLost, Fault,
     sessionVars, queueVars
<1>6. WakeInv'
  BY RequestAssumption, BoundAssumption DEF AllocatorInv, TypeInv, WakeInv,
     Subscribed, LoopOK, At, Taken, Ahead, Recording, Adopted, Unclaimed, LeaseLost,
     Fault, sessionVars, queueVars
<1>7. OnceInv'
  BY RequestAssumption, BoundAssumption DEF AllocatorInv, TypeInv, OnceInv, Unserved,
     LoopOK, Sessions, Waiting, Taken, Ahead, Recording, Adopted, Unclaimed,
     LeaseLost, Fault, sessionVars, queueVars, At
<1> QED
  BY <1>1, <1>2, <1>3, <1>4, <1>5, <1>6, <1>7 DEF AllocatorInv

LEMMA CrashStep ==
    ASSUME AllocatorInv, NEW w \in Workers, Crash(w)
    PROVE  AllocatorInv'
<1>1. /\ worker' \in [Workers -> Loop]
      /\ \A v \in Workers : v # w => worker'[v] = worker[v]
      /\ LoopOK(worker'[w])
      /\ worker'[w].pc = "off"
      /\ faults' = faults + 1 /\ faults < MaxFaults
      /\ channel' = [channel EXCEPT ![w] = None]
  <2>1. TypeInv
    BY DEF AllocatorInv
  <2>2. Off \in Loop /\ LoopOK(Off) /\ Off.pc = "off"
    BY DEF Off, Loop, WorkerPCs, LoopOK, Taken, Ahead, Recording, Adopted, Unclaimed
  <2> QED
    BY <2>1, <2>2, WasSet DEF Crash, Fault
<1>2. UNCHANGED <<alloc, service, runs, route, lease, user>>
  BY DEF Crash, sessionVars, queueVars
<1>3. TypeInv'
  BY <1>1, <1>2, RequestAssumption, BoundAssumption DEF AllocatorInv, TypeInv,
     LoopOK, Sessions, Waiting, Taken, Ahead, Recording, Adopted, Unclaimed
<1>4. SubmittedInv'
  BY <1>1, <1>2, RequestAssumption DEF AllocatorInv, TypeInv, SubmittedInv, Unserved,
     LoopOK, Taken, Ahead, Recording, Adopted, Unclaimed
<1>5. StockInv'
  BY <1>1, <1>2, RequestAssumption DEF AllocatorInv, TypeInv, StockInv, LoopOK,
     Sessions, At, Taken, Ahead, Recording, Adopted, Unclaimed
<1>6. ServedInv'
  BY <1>1, <1>2, RequestAssumption DEF AllocatorInv, TypeInv, ServedInv, LoopOK,
     Sessions, Taken, Ahead, Recording, Adopted, Unclaimed
<1>7. LeaderInv'
  BY <1>1, <1>2, BoundAssumption DEF AllocatorInv, TypeInv, LeaderInv, At
<1>8. WakeInv'
  BY <1>1, <1>2, RequestAssumption, BoundAssumption DEF AllocatorInv, TypeInv,
     WakeInv, Subscribed, LoopOK, At, Taken, Ahead, Recording, Adopted, Unclaimed
<1>9. OnceInv'
  BY <1>1, <1>2, RequestAssumption, BoundAssumption DEF AllocatorInv, TypeInv,
     OnceInv, Unserved, LoopOK, Sessions, Waiting, Taken, Ahead, Recording, Adopted,
     Unclaimed
<1> QED
  BY <1>3, <1>4, <1>5, <1>6, <1>7, <1>8, <1>9 DEF AllocatorInv

----------------------------------------------------------------------------
(* NextSessionAllocation: a worker looks for a request, waits, takes one.  *)

LEMMA LookStep ==
    ASSUME AllocatorInv, NEW w \in Workers, Look(w)
    PROVE  AllocatorInv'
<1>1. /\ worker' \in [Workers -> Loop]
      /\ \A v \in Workers : v # w => worker'[v] = worker[v]
      /\ LoopOK(worker'[w])
      /\ worker[w].pc \in {"look", "look_again"}
      /\ worker'[w].pc = "read" /\ worker'[w].live = worker[w].live
      /\ worker'[w].todo \subseteq Requests
      /\ \A q \in Requests : q \in worker'[w].todo <=> alloc[q] \in Waiting
      /\ faults' = faults
  <2> DEFINE l == [worker[w] EXCEPT !.pc = "read", !.todo = Listed]
  <2>1. TypeInv /\ worker[w] \in Loop /\ worker[w].pc \in {"look", "look_again"} /\ worker[w].stock = None
       /\ Listed \subseteq Requests
    BY DEF AllocatorInv, TypeInv, Look, Listed, At, LoopOK, Taken, Ahead, Recording,
       Adopted, Unclaimed
  <2>2. l \in Loop /\ l.stock = None /\ l.pc = "read" /\ l.live = worker[w].live /\ l.todo = Listed
    BY <2>1, RequestAssumption DEF TypeInv, Loop, WorkerPCs, Off
  <2>3. LoopOK(l)
    BY <2>1, <2>2 DEF LoopOK, Taken, Ahead, Recording, Adopted, Unclaimed
  <2>4. Set(w, l)
    BY DEF Look
  <2> HIDE DEF l
  <2> QED
    BY <2>1, <2>2, <2>3, <2>4, WasSet DEF Look, Listed
<1>2. UNCHANGED <<alloc, service, runs, route, lease, channel, user>>
  BY DEF Look, sessionVars, queueVars
<1>3. TypeInv'
  BY <1>1, <1>2, RequestAssumption, BoundAssumption DEF AllocatorInv, TypeInv,
     LoopOK, Sessions, Waiting, Taken, Ahead, Recording, Adopted, Unclaimed
<1>4. SubmittedInv'
  BY <1>1, <1>2 DEF AllocatorInv, TypeInv, SubmittedInv, Unserved, LoopOK, Waiting, None,
     Taken, Ahead, Recording, Adopted
<1>5. StockInv'
  BY <1>1, <1>2, RequestAssumption DEF AllocatorInv, TypeInv, StockInv, LoopOK,
     Sessions, At, Taken, Ahead, Recording, Adopted, Unclaimed
<1>6. ServedInv'
  BY <1>1, <1>2, RequestAssumption DEF AllocatorInv, TypeInv, ServedInv, LoopOK,
     Sessions, Taken, Ahead, Recording, Adopted, Unclaimed
<1>7. LeaderInv'
  BY <1>1, <1>2, BoundAssumption DEF AllocatorInv, TypeInv, LeaderInv, At
<1>8. WakeInv'
  <2>1. \A v \in Workers :
            channel'[v] # None => worker'[v].pc \in {"look_again", "read", "save", "wait"}
    BY <1>1, <1>2 DEF AllocatorInv, TypeInv, WakeInv, Subscribed
  <2>2. ASSUME faults' = 0, NEW v \in Workers, NEW q \in Requests,
               channel'[v] = "empty", alloc'[q] = "pending"
        PROVE  \/ user'[q] = "notify"
               \/ worker'[v].pc = "look_again"
               \/ worker'[v].pc \in {"read", "save"} /\ q \in worker'[v].todo
               \/ worker'[v].pc = "save" /\ worker'[v].request = q
    <3>1. /\ faults = 0 /\ channel[v] = "empty" /\ alloc[q] = "pending"
          /\ worker[v].pc \in {"look_again", "read", "save", "wait"}
      BY <1>1, <1>2, <2>2, BoundAssumption DEF AllocatorInv, TypeInv, WakeInv, Subscribed,
         None, Waiting
    <3>2. \/ user[q] = "notify"
          \/ worker[v].pc = "look_again"
          \/ worker[v].pc \in {"read", "save"} /\ q \in worker[v].todo
          \/ worker[v].pc = "save" /\ worker[v].request = q
      BY <3>1 DEF AllocatorInv, WakeInv, At
    <3> QED
      BY <1>1, <1>2, <2>2, <3>1, <3>2 DEF Waiting, None, AllocatorInv, TypeInv
  <2> QED
    BY <2>1, <2>2 DEF WakeInv, At, Subscribed
<1>9. OnceInv'
  <2> DEFINE Worked == \A q \in Requests : alloc[q] \in Waiting =>
                           \/ Unserved(q)
                           \/ \E v \in Workers : worker[v].pc \in Recording /\ worker[v].request = q
             Fresh == \A v \in Workers :
                           /\ \A q \in worker[v].todo : Unserved(q)
                           /\ worker[v].pc \in Ahead => Unserved(worker[v].request)
             Single == \A q \in Requests, s, t \in Sessions : runs[s] = q /\ runs[t] = q => s = t
  <2>1. ASSUME faults' = 0 PROVE Worked' /\ Fresh' /\ Single'
    <3>1. /\ Worked /\ Fresh /\ Single
          /\ worker[w].pc # "off" => lease = w
          /\ worker[w].pc # "off" =>
                \A v \in Workers : v # w => worker[v].pc = "off" /\ worker[v].todo = {}
      BY <1>1, <1>2, <2>1, BoundAssumption DEF AllocatorInv, TypeInv, LoopOK, LeaderInv, At,
         OnceInv
    <3>2. Worked'
      BY <1>1, <1>2, <2>1, <3>1, RequestAssumption DEF AllocatorInv, TypeInv, LoopOK,
         Unserved,
         Sessions, Waiting, None, Taken, Ahead, Recording, Adopted, Unclaimed
    <3>3. Fresh'
      <4>1. /\ worker[w].pc \in {"look", "look_again"}
            /\ \A v \in Workers : v # w => worker'[v].pc = "off" /\ worker'[v].todo = {}
        BY <1>1, <3>1
      <4>2. \A q \in Requests : alloc[q] \in Waiting => Unserved(q)
        BY <3>1, <4>1 DEF Recording
      <4>3. \A q \in worker'[w].todo : Unserved(q)
        BY <1>1, <4>2
      <4>4. \A v \in Workers : worker'[v].pc \notin Ahead
        BY <1>1, <4>1 DEF Ahead
      <4> QED
        BY <1>2, <4>1, <4>3, <4>4 DEF Unserved
    <3>4. Single'
      BY <1>1, <1>2, <2>1, <3>1, RequestAssumption DEF AllocatorInv, TypeInv, LoopOK,
         Unserved,
         Sessions, Taken, Ahead, Recording, Adopted, Unclaimed
    <3> QED
      BY <3>2, <3>3, <3>4
  <2> QED
    BY <2>1 DEF OnceInv
<1> QED
  BY <1>3, <1>4, <1>5, <1>6, <1>7, <1>8, <1>9 DEF AllocatorInv

LEMMA ReadStep ==
    ASSUME AllocatorInv, NEW w \in Workers, Read(w)
    PROVE  AllocatorInv'
<1>1. /\ worker' \in [Workers -> Loop]
      /\ \A v \in Workers : v # w => worker'[v] = worker[v]
      /\ LoopOK(worker'[w])
      /\ worker[w].pc = "read"
      /\ worker'[w].live = worker[w].live /\ worker'[w].request \in worker[w].todo
      /\ worker'[w].todo = worker[w].todo \ {worker'[w].request}
      /\ \/ worker'[w].pc = "read" /\ alloc[worker'[w].request] = None
         \/ worker'[w].pc = "save"
      /\ faults' = faults
  <2>1. TypeInv /\ worker[w] \in Loop /\ worker[w].pc = "read" /\ worker[w].stock = None
    BY DEF AllocatorInv, TypeInv, Read, At, LoopOK, Unclaimed
  <2>2. PICK q \in worker[w].todo :
          Set(w, [worker[w] EXCEPT !.todo = @ \ {q}, !.request = q,
                                   !.pc = IF alloc[q] = None THEN "read" ELSE "save"])
    BY DEF Read
  <2> DEFINE pc == IF alloc[q] = None THEN "read" ELSE "save"
             l == [worker[w] EXCEPT !.todo = @ \ {q}, !.request = q, !.pc = pc]
  <2>3. q \in Requests /\ pc \in WorkerPCs
    BY <2>1, <2>2 DEF Loop, WorkerPCs
  <2>4. (pc = "read" /\ alloc[q] = None) \/ pc = "save"
    OBVIOUS
  <2>5. Set(w, l)
    BY <2>2
  <2> HIDE DEF pc
  <2>6. /\ l \in Loop /\ l.pc = pc /\ l.live = worker[w].live /\ l.request = q
        /\ l.stock = None /\ l.todo = worker[w].todo \ {q}
    BY <2>1, <2>3 DEF Loop
  <2>7. LoopOK(l)
    BY <2>3, <2>4, <2>6 DEF LoopOK, Taken, Ahead, Recording, Adopted, Unclaimed
  <2> HIDE DEF l
  <2> QED
    BY <2>1, <2>2, <2>3, <2>4, <2>5, <2>6, <2>7, WasSet DEF Read
<1>2. UNCHANGED <<alloc, service, runs, route, lease, channel, user>>
  BY DEF Read, sessionVars, queueVars
<1>3. TypeInv'
  BY <1>1, <1>2, RequestAssumption, BoundAssumption DEF AllocatorInv, TypeInv,
     LoopOK, Sessions, Waiting, Taken, Ahead, Recording, Adopted, Unclaimed
<1>4. SubmittedInv'
  BY <1>1, <1>2, RequestAssumption DEF AllocatorInv, TypeInv, SubmittedInv, Unserved,
     LoopOK, Taken, Ahead, Recording, Adopted, Unclaimed
<1>5. StockInv'
  BY <1>1, <1>2, RequestAssumption DEF AllocatorInv, TypeInv, StockInv, LoopOK,
     Sessions, At, Taken, Ahead, Recording, Adopted, Unclaimed
<1>6. ServedInv'
  BY <1>1, <1>2, RequestAssumption DEF AllocatorInv, TypeInv, ServedInv, LoopOK,
     Sessions, Taken, Ahead, Recording, Adopted, Unclaimed
<1>7. LeaderInv'
  BY <1>1, <1>2, BoundAssumption DEF AllocatorInv, TypeInv, LeaderInv, At
<1>8. WakeInv'
  <2>1. \A v \in Workers :
            channel'[v] # None => worker'[v].pc \in {"look_again", "read", "save", "wait"}
    BY <1>1, <1>2 DEF AllocatorInv, TypeInv, WakeInv, Subscribed
  <2>2. ASSUME faults' = 0, NEW v \in Workers, NEW q \in Requests,
               channel'[v] = "empty", alloc'[q] = "pending"
        PROVE  \/ user'[q] = "notify"
               \/ worker'[v].pc = "look_again"
               \/ worker'[v].pc \in {"read", "save"} /\ q \in worker'[v].todo
               \/ worker'[v].pc = "save" /\ worker'[v].request = q
    <3>1. /\ faults = 0 /\ channel[v] = "empty" /\ alloc[q] = "pending"
          /\ worker[v].pc \in {"look_again", "read", "save", "wait"}
      BY <1>1, <1>2, <2>2, BoundAssumption DEF AllocatorInv, TypeInv, WakeInv, Subscribed,
         None, Waiting
    <3>2. \/ user[q] = "notify"
          \/ worker[v].pc = "look_again"
          \/ worker[v].pc \in {"read", "save"} /\ q \in worker[v].todo
          \/ worker[v].pc = "save" /\ worker[v].request = q
      BY <3>1 DEF AllocatorInv, WakeInv, At
    <3> QED
      BY <1>1, <1>2, <2>2, <3>1, <3>2 DEF Waiting, None, AllocatorInv, TypeInv
  <2> QED
    BY <2>1, <2>2 DEF WakeInv, At, Subscribed
<1>9. OnceInv'
  BY <1>1, <1>2, RequestAssumption, BoundAssumption DEF AllocatorInv, TypeInv,
     OnceInv, Unserved, LoopOK, Sessions, Waiting, Taken, Ahead, Recording, Adopted,
     Unclaimed
<1> QED
  BY <1>3, <1>4, <1>5, <1>6, <1>7, <1>8, <1>9 DEF AllocatorInv

LEMMA NothingFoundStep ==
    ASSUME AllocatorInv, NEW w \in Workers, NothingFound(w)
    PROVE  AllocatorInv'
<1>1. /\ worker' \in [Workers -> Loop]
      /\ \A v \in Workers : v # w => worker'[v] = worker[v]
      /\ LoopOK(worker'[w])
      /\ worker[w].pc = "read" /\ worker[w].todo = {}
      /\ worker'[w].pc = "wait" /\ worker'[w].live = worker[w].live
      /\ faults' = faults
      /\ channel' = channel
  <2> DEFINE l == [worker[w] EXCEPT !.pc = "wait", !.request = None]
  <2>1. TypeInv /\ worker[w] \in Loop /\ worker[w].pc = "read" /\ worker[w].todo = {} /\ worker[w].stock = None
    BY DEF AllocatorInv, TypeInv, NothingFound, At, LoopOK, Taken, Ahead, Recording,
       Adopted, Unclaimed
  <2>2. l \in Loop /\ l.stock = None /\ l.pc = "wait" /\ l.live = worker[w].live /\ l.todo = worker[w].todo
    BY <2>1, RequestAssumption DEF TypeInv, Loop, WorkerPCs, Off
  <2>3. LoopOK(l)
    BY <2>1, <2>2 DEF LoopOK, Taken, Ahead, Recording, Adopted, Unclaimed
  <2>4. Set(w, l)
    BY DEF NothingFound
  <2> HIDE DEF l
  <2> QED
    BY <2>1, <2>2, <2>3, <2>4, WasSet DEF NothingFound
<1>2. UNCHANGED <<alloc, service, runs, route, lease, user>>
  BY DEF NothingFound, sessionVars, queueVars
<1>3. TypeInv'
  BY <1>1, <1>2, RequestAssumption, BoundAssumption DEF AllocatorInv, TypeInv,
     LoopOK, Sessions, Waiting, Taken, Ahead, Recording, Adopted, Unclaimed
<1>4. SubmittedInv'
  BY <1>1, <1>2, RequestAssumption DEF AllocatorInv, TypeInv, SubmittedInv, Unserved,
     LoopOK, Taken, Ahead, Recording, Adopted, Unclaimed
<1>5. StockInv'
  BY <1>1, <1>2, RequestAssumption DEF AllocatorInv, TypeInv, StockInv, LoopOK,
     Sessions, At, Taken, Ahead, Recording, Adopted, Unclaimed
<1>6. ServedInv'
  BY <1>1, <1>2, RequestAssumption DEF AllocatorInv, TypeInv, ServedInv, LoopOK,
     Sessions, Taken, Ahead, Recording, Adopted, Unclaimed
<1>7. LeaderInv'
  BY <1>1, <1>2, BoundAssumption DEF AllocatorInv, TypeInv, LeaderInv, At
<1>8. WakeInv'
  BY <1>1, <1>2, RequestAssumption, BoundAssumption DEF AllocatorInv, TypeInv,
     WakeInv, Subscribed, LoopOK, At, Taken, Ahead, Recording, Adopted, Unclaimed
<1>9. OnceInv'
  <2>1. /\ worker'[w].todo \subseteq worker[w].todo
        /\ worker'[w].pc \in Ahead =>
              worker[w].pc \in Ahead /\ worker'[w].request = worker[w].request
        /\ worker[w].pc \in Recording =>
              worker'[w].pc \in Recording /\ worker'[w].request = worker[w].request
    BY <1>1 DEF LoopOK, Ahead, Recording
  <2>2. faults' = 0 => faults = 0
    BY <1>1, BoundAssumption DEF AllocatorInv, TypeInv
  <2> QED
    BY <1>1, <1>2, <2>1, <2>2, OnceKept DEF AllocatorInv
<1> QED
  BY <1>3, <1>4, <1>5, <1>6, <1>7, <1>8, <1>9 DEF AllocatorInv

LEMMA SubscribeStep ==
    ASSUME AllocatorInv, NEW w \in Workers, Subscribe(w)
    PROVE  AllocatorInv'
<1>1. /\ worker' \in [Workers -> Loop]
      /\ \A v \in Workers : v # w => worker'[v] = worker[v]
      /\ LoopOK(worker'[w])
      /\ worker[w].pc = "read" /\ worker[w].todo = {}
      /\ worker'[w].pc = "look_again" /\ worker'[w].live = worker[w].live
      /\ faults' = faults
      /\ channel' = [channel EXCEPT ![w] = "empty"]
  <2> DEFINE l == [worker[w] EXCEPT !.pc = "look_again", !.request = None]
  <2>1. TypeInv /\ worker[w] \in Loop /\ worker[w].pc = "read" /\ worker[w].todo = {} /\ worker[w].stock = None
    BY DEF AllocatorInv, TypeInv, Subscribe, At, LoopOK, Taken, Ahead, Recording, Adopted,
       Unclaimed
  <2>2. l \in Loop /\ l.stock = None /\ l.pc = "look_again" /\ l.live = worker[w].live /\ l.todo = worker[w].todo
    BY <2>1, RequestAssumption DEF TypeInv, Loop, WorkerPCs, Off
  <2>3. LoopOK(l)
    BY <2>1, <2>2 DEF LoopOK, Taken, Ahead, Recording, Adopted, Unclaimed
  <2>4. Set(w, l)
    BY DEF Subscribe
  <2> HIDE DEF l
  <2> QED
    BY <2>1, <2>2, <2>3, <2>4, WasSet DEF Subscribe
<1>2. UNCHANGED <<alloc, service, runs, route, lease, user>>
  BY DEF Subscribe, sessionVars, queueVars
<1>3. TypeInv'
  BY <1>1, <1>2, RequestAssumption, BoundAssumption DEF AllocatorInv, TypeInv,
     LoopOK, Sessions, Waiting, Taken, Ahead, Recording, Adopted, Unclaimed
<1>4. SubmittedInv'
  BY <1>1, <1>2, RequestAssumption DEF AllocatorInv, TypeInv, SubmittedInv, Unserved,
     LoopOK, Taken, Ahead, Recording, Adopted, Unclaimed
<1>5. StockInv'
  BY <1>1, <1>2, RequestAssumption DEF AllocatorInv, TypeInv, StockInv, LoopOK,
     Sessions, At, Taken, Ahead, Recording, Adopted, Unclaimed
<1>6. ServedInv'
  BY <1>1, <1>2, RequestAssumption DEF AllocatorInv, TypeInv, ServedInv, LoopOK,
     Sessions, Taken, Ahead, Recording, Adopted, Unclaimed
<1>7. LeaderInv'
  BY <1>1, <1>2, BoundAssumption DEF AllocatorInv, TypeInv, LeaderInv, At
<1>8. WakeInv'
  BY <1>1, <1>2, RequestAssumption, BoundAssumption DEF AllocatorInv, TypeInv,
     WakeInv, Subscribed, LoopOK, At, Taken, Ahead, Recording, Adopted, Unclaimed
<1>9. OnceInv'
  <2>1. /\ worker'[w].todo \subseteq worker[w].todo
        /\ worker'[w].pc \in Ahead =>
              worker[w].pc \in Ahead /\ worker'[w].request = worker[w].request
        /\ worker[w].pc \in Recording =>
              worker'[w].pc \in Recording /\ worker'[w].request = worker[w].request
    BY <1>1 DEF LoopOK, Ahead, Recording
  <2>2. faults' = 0 => faults = 0
    BY <1>1, BoundAssumption DEF AllocatorInv, TypeInv
  <2> QED
    BY <1>1, <1>2, <2>1, <2>2, OnceKept DEF AllocatorInv
<1> QED
  BY <1>3, <1>4, <1>5, <1>6, <1>7, <1>8, <1>9 DEF AllocatorInv

LEMMA SaveStep ==
    ASSUME AllocatorInv, NEW w \in Workers, Save(w)
    PROVE  AllocatorInv'
<1>1. /\ worker' \in [Workers -> Loop]
      /\ \A v \in Workers : v # w => worker'[v] = worker[v]
      /\ LoopOK(worker'[w])
      /\ worker[w].pc = "save"
      /\ faults' = faults \/ (faults' = faults + 1 /\ faults < MaxFaults)
      /\ worker'[w].request = worker[w].request
      /\ worker'[w].live = worker[w].live
      /\ \/ /\ worker'[w].pc = "find"
            /\ alloc' = [alloc EXCEPT ![worker[w].request] = "allocating"]
            /\ channel' = [channel EXCEPT ![w] = None]
         \/ /\ worker'[w].pc = "read" /\ worker'[w].todo = worker[w].todo
            /\ alloc' = alloc /\ channel' = channel
            /\ (alloc[worker[w].request] = None \/ faults' # faults)
  <2>1. /\ TypeInv /\ worker[w].pc = "save" /\ worker[w].request \in Requests
        /\ worker[w].stock = None /\ worker[w] \in Loop
    BY DEF AllocatorInv, TypeInv, Save, At, LoopOK, Taken, Ahead, Unclaimed
  <2>2. CASE Goto(w, "read")
    <3>1. /\ worker' \in [Workers -> Loop]
          /\ \A v \in Workers : v # w => worker'[v] = worker[v]
          /\ worker'[w].pc = "read" /\ LoopOK(worker'[w])
          /\ worker'[w].live = worker[w].live /\ worker'[w].todo = worker[w].todo
          /\ worker'[w].request = worker[w].request
      BY <2>1, <2>2, Went DEF LoopOK, WorkerPCs, Taken, Ahead, Recording, Adopted, Unclaimed
    <3>2. Refused(w) /\ UNCHANGED <<alloc, channel>>
      <4> DEFINE l == [worker[w] EXCEPT !.pc = "find", !.todo = {}]
      <4>1. l.pc = "find" /\ l \in Loop
        BY <2>1 DEF Loop, WorkerPCs
      <4>2. ~Set(w, l)
        <5> HIDE DEF l
        <5> QED
          BY <2>1, <3>1, <4>1, WasSet
      <4> QED
        BY <4>2 DEF Save
    <3> QED
      BY <2>1, <3>1, <3>2, BoundAssumption DEF Refused, Fault, TypeInv
  <2>3. CASE ~Goto(w, "read")
    <3> DEFINE l == [worker[w] EXCEPT !.pc = "find", !.todo = {}]
    <3>1. /\ l \in Loop /\ l.pc = "find" /\ l.todo = {} /\ l.live = worker[w].live
          /\ l.request = worker[w].request /\ l.stock = worker[w].stock
      BY <2>1 DEF Loop, WorkerPCs
    <3>2. Set(w, l)
      BY <2>3 DEF Save
    <3>3. /\ alloc' = [alloc EXCEPT ![worker[w].request] = "allocating"]
          /\ channel' = [channel EXCEPT ![w] = None] /\ faults' = faults
      BY <2>3 DEF Save
    <3> HIDE DEF l
    <3>4. LoopOK(l)
      BY <2>1, <3>1 DEF LoopOK, Taken, Ahead, Recording, Adopted, Unclaimed
    <3> QED
      BY <2>1, <3>1, <3>2, <3>3, <3>4, WasSet
  <2> QED
    BY <2>2, <2>3
<1>2. UNCHANGED <<service, runs, route, lease, user>>
  BY DEF Save, sessionVars
<1>3. TypeInv'
  BY <1>1, <1>2, RequestAssumption, BoundAssumption DEF AllocatorInv, TypeInv,
     LoopOK, Sessions, Waiting, Taken, Ahead, Recording, Adopted, Unclaimed
<1>4. SubmittedInv'
  BY <1>1, <1>2, RequestAssumption DEF AllocatorInv, TypeInv, SubmittedInv, Unserved,
     LoopOK, Taken, Ahead, Recording, Adopted, Unclaimed
<1>5. StockInv'
  BY <1>1, <1>2, RequestAssumption DEF AllocatorInv, TypeInv, StockInv, LoopOK,
     Sessions, At, Taken, Ahead, Recording, Adopted, Unclaimed
<1>6. ServedInv'
  BY <1>1, <1>2, RequestAssumption DEF AllocatorInv, TypeInv, ServedInv, LoopOK,
     Sessions, Taken, Ahead, Recording, Adopted, Unclaimed
<1>7. LeaderInv'
  BY <1>1, <1>2, BoundAssumption DEF AllocatorInv, TypeInv, LeaderInv, At
<1>8. WakeInv'
  <2>1. \A v \in Workers :
            channel'[v] # None => worker'[v].pc \in {"look_again", "read", "save", "wait"}
    BY <1>1, <1>2 DEF AllocatorInv, TypeInv, WakeInv, Subscribed
  <2>2. ASSUME faults' = 0, NEW v \in Workers, NEW q \in Requests,
               channel'[v] = "empty", alloc'[q] = "pending"
        PROVE  \/ user'[q] = "notify"
               \/ worker'[v].pc = "look_again"
               \/ worker'[v].pc \in {"read", "save"} /\ q \in worker'[v].todo
               \/ worker'[v].pc = "save" /\ worker'[v].request = q
    <3>1. /\ faults = 0 /\ channel[v] = "empty" /\ alloc[q] = "pending"
          /\ worker[v].pc \in {"look_again", "read", "save", "wait"}
      BY <1>1, <1>2, <2>2, BoundAssumption DEF AllocatorInv, TypeInv, WakeInv, Subscribed,
         None, Waiting
    <3>2. \/ user[q] = "notify"
          \/ worker[v].pc = "look_again"
          \/ worker[v].pc \in {"read", "save"} /\ q \in worker[v].todo
          \/ worker[v].pc = "save" /\ worker[v].request = q
      BY <3>1 DEF AllocatorInv, WakeInv, At
    <3> QED
      BY <1>1, <1>2, <2>2, <3>1, <3>2 DEF Waiting, None, AllocatorInv, TypeInv
  <2> QED
    BY <2>1, <2>2 DEF WakeInv, At, Subscribed
<1>9. OnceInv'
  <2> DEFINE Worked == \A q \in Requests : alloc[q] \in Waiting =>
                           \/ Unserved(q)
                           \/ \E v \in Workers : worker[v].pc \in Recording /\ worker[v].request = q
             Fresh == \A v \in Workers :
                           /\ \A q \in worker[v].todo : Unserved(q)
                           /\ worker[v].pc \in Ahead => Unserved(worker[v].request)
             Single == \A q \in Requests, s, t \in Sessions : runs[s] = q /\ runs[t] = q => s = t
  <2>1. ASSUME faults' = 0 PROVE Worked' /\ Fresh' /\ Single'
    <3>1. /\ Worked /\ Fresh /\ Single
          /\ worker[w].pc # "off" => lease = w
          /\ worker[w].pc # "off" =>
                \A v \in Workers : v # w => worker[v].pc = "off" /\ worker[v].todo = {}
      BY <1>1, <1>2, <2>1, BoundAssumption DEF AllocatorInv, TypeInv, LoopOK, LeaderInv, At,
         OnceInv
    <3>2. Worked'
      BY <1>1, <1>2, <2>1, <3>1, RequestAssumption DEF AllocatorInv, TypeInv, LoopOK,
         Unserved,
         Sessions, Waiting, None, Taken, Ahead, Recording, Adopted, Unclaimed
    <3>3. Fresh'
      BY <1>1, <1>2, <2>1, <3>1, RequestAssumption DEF AllocatorInv, TypeInv, LoopOK,
         Unserved,
         Sessions, Taken, Ahead, Recording, Adopted, Unclaimed
    <3>4. Single'
      BY <1>1, <1>2, <2>1, <3>1, RequestAssumption DEF AllocatorInv, TypeInv, LoopOK,
         Unserved,
         Sessions, Taken, Ahead, Recording, Adopted, Unclaimed
    <3> QED
      BY <3>2, <3>3, <3>4
  <2> QED
    BY <2>1 DEF OnceInv
<1> QED
  BY <1>3, <1>4, <1>5, <1>6, <1>7, <1>8, <1>9 DEF AllocatorInv

LEMMA WakeStep ==
    ASSUME AllocatorInv, NEW w \in Workers, Wake(w)
    PROVE  AllocatorInv'
<1>1. /\ worker' \in [Workers -> Loop]
      /\ \A v \in Workers : v # w => worker'[v] = worker[v]
      /\ LoopOK(worker'[w])
      /\ worker[w].pc = "wait"
      /\ worker'[w].pc \in {"look", "off"}
      /\ worker'[w].pc # "off" => worker'[w].live /\ worker[w].live
      /\ faults' = faults
      /\ channel' = [channel EXCEPT ![w] = None]
  <2>1. TypeInv /\ worker[w].pc = "wait" /\ Done(w)
    BY DEF AllocatorInv, Wake, Done, At
  <2> QED
    BY <2>1, WasDone DEF Wake
<1>2. UNCHANGED <<alloc, service, runs, route, lease, user>>
  BY DEF Wake, sessionVars, queueVars
<1>3. TypeInv'
  BY <1>1, <1>2, RequestAssumption, BoundAssumption DEF AllocatorInv, TypeInv,
     LoopOK, Sessions, Waiting, Taken, Ahead, Recording, Adopted, Unclaimed
<1>4. SubmittedInv'
  BY <1>1, <1>2, RequestAssumption DEF AllocatorInv, TypeInv, SubmittedInv, Unserved,
     LoopOK, Taken, Ahead, Recording, Adopted, Unclaimed
<1>5. StockInv'
  BY <1>1, <1>2, RequestAssumption DEF AllocatorInv, TypeInv, StockInv, LoopOK,
     Sessions, At, Taken, Ahead, Recording, Adopted, Unclaimed
<1>6. ServedInv'
  BY <1>1, <1>2, RequestAssumption DEF AllocatorInv, TypeInv, ServedInv, LoopOK,
     Sessions, Taken, Ahead, Recording, Adopted, Unclaimed
<1>7. LeaderInv'
  BY <1>1, <1>2, BoundAssumption DEF AllocatorInv, TypeInv, LeaderInv, At
<1>8. WakeInv'
  <2>1. \A v \in Workers :
            channel'[v] # None => worker'[v].pc \in {"look_again", "read", "save", "wait"}
    BY <1>1, <1>2 DEF AllocatorInv, TypeInv, WakeInv, Subscribed
  <2>2. ASSUME faults' = 0, NEW v \in Workers, NEW q \in Requests,
               channel'[v] = "empty", alloc'[q] = "pending"
        PROVE  \/ user'[q] = "notify"
               \/ worker'[v].pc = "look_again"
               \/ worker'[v].pc \in {"read", "save"} /\ q \in worker'[v].todo
               \/ worker'[v].pc = "save" /\ worker'[v].request = q
    <3>1. /\ faults = 0 /\ channel[v] = "empty" /\ alloc[q] = "pending"
          /\ worker[v].pc \in {"look_again", "read", "save", "wait"}
      BY <1>1, <1>2, <2>2, BoundAssumption DEF AllocatorInv, TypeInv, WakeInv, Subscribed,
         None, Waiting
    <3>2. \/ user[q] = "notify"
          \/ worker[v].pc = "look_again"
          \/ worker[v].pc \in {"read", "save"} /\ q \in worker[v].todo
          \/ worker[v].pc = "save" /\ worker[v].request = q
      BY <3>1 DEF AllocatorInv, WakeInv, At
    <3> QED
      BY <1>1, <1>2, <2>2, <3>1, <3>2 DEF Waiting, None, AllocatorInv, TypeInv
  <2> QED
    BY <2>1, <2>2 DEF WakeInv, At, Subscribed
<1>9. OnceInv'
  BY <1>1, <1>2, RequestAssumption, BoundAssumption DEF AllocatorInv, TypeInv,
     OnceInv, Unserved, LoopOK, Sessions, Waiting, Taken, Ahead, Recording, Adopted,
     Unclaimed
<1> QED
  BY <1>3, <1>4, <1>5, <1>6, <1>7, <1>8, <1>9 DEF AllocatorInv

----------------------------------------------------------------------------
(* allocateSessionResources: a stock session or a new one.                 *)

LEMMA FindStockStep ==
    ASSUME AllocatorInv, NEW w \in Workers, FindStock(w)
    PROVE  AllocatorInv'
<1>1. /\ worker' \in [Workers -> Loop]
      /\ \A v \in Workers : v # w => worker'[v] = worker[v]
      /\ LoopOK(worker'[w])
      /\ worker[w].pc = "find"
      /\ worker'[w].pc \in {"claim", "create"}
      /\ worker'[w].request = worker[w].request
      /\ worker'[w].live = worker[w].live
      /\ faults' = faults \/ (faults' = faults + 1 /\ faults < MaxFaults)
  <2>1. /\ TypeInv /\ worker[w].pc = "find" /\ worker[w].todo = {}
        /\ worker[w].request \in Requests /\ worker[w].stock = None
    BY DEF AllocatorInv, TypeInv, FindStock, At, LoopOK, Taken, Ahead, Unclaimed
  <2>2. CASE Goto(w, "create")
    BY <2>1, <2>2, Went DEF LoopOK, WorkerPCs, Taken, Ahead, Recording, Adopted, Unclaimed,
       FindStock, Succeeds, Fails, Fault
  <2>3. CASE \E s \in Stock : Set(w, [worker[w] EXCEPT !.pc = "claim", !.stock = s])
    <3>1. PICK s \in Stock : Set(w, [worker[w] EXCEPT !.pc = "claim", !.stock = s])
      BY <2>3
    <3>2. "claim" \in WorkerPCs /\ s \in Stock \cup {None}
      BY DEF WorkerPCs
    <3>3. /\ worker' \in [Workers -> Loop]
          /\ \A v \in Workers : v # w => worker'[v] = worker[v]
          /\ worker'[w].pc = "claim" /\ worker'[w].stock = s
          /\ worker'[w].live = worker[w].live /\ worker'[w].todo = worker[w].todo
          /\ worker'[w].request = worker[w].request /\ worker'[w].result = worker[w].result
      BY <2>1, <3>1, <3>2, TookStock
    <3>4. LoopOK(worker'[w])
      BY <2>1, <3>3 DEF LoopOK, Taken, Ahead, Recording, Adopted, Unclaimed
    <3> QED
      BY <2>1, <3>3, <3>4 DEF FindStock, Succeeds, Fails, Fault
  <2> QED
    BY <2>2, <2>3 DEF FindStock
<1>2. UNCHANGED <<alloc, service, runs, route, lease, channel, user>>
  BY DEF FindStock, sessionVars, queueVars
<1>3. TypeInv'
  BY <1>1, <1>2, RequestAssumption, BoundAssumption DEF AllocatorInv, TypeInv,
     LoopOK, Sessions, Waiting, Taken, Ahead, Recording, Adopted, Unclaimed
<1>4. SubmittedInv'
  BY <1>1, <1>2, RequestAssumption DEF AllocatorInv, TypeInv, SubmittedInv, Unserved,
     LoopOK, Taken, Ahead, Recording, Adopted, Unclaimed
<1>5. StockInv'
  BY <1>1, <1>2, RequestAssumption DEF AllocatorInv, TypeInv, StockInv, LoopOK,
     Sessions, At, Taken, Ahead, Recording, Adopted, Unclaimed
<1>6. ServedInv'
  BY <1>1, <1>2, RequestAssumption DEF AllocatorInv, TypeInv, ServedInv, LoopOK,
     Sessions, Taken, Ahead, Recording, Adopted, Unclaimed
<1>7. LeaderInv'
  BY <1>1, <1>2, BoundAssumption DEF AllocatorInv, TypeInv, LeaderInv, At
<1>8. WakeInv'
  BY <1>1, <1>2, RequestAssumption, BoundAssumption DEF AllocatorInv, TypeInv,
     WakeInv, Subscribed, LoopOK, At, Taken, Ahead, Recording, Adopted, Unclaimed
<1>9. OnceInv'
  <2>1. /\ worker'[w].todo \subseteq worker[w].todo
        /\ worker'[w].pc \in Ahead =>
              worker[w].pc \in Ahead /\ worker'[w].request = worker[w].request
        /\ worker[w].pc \in Recording =>
              worker'[w].pc \in Recording /\ worker'[w].request = worker[w].request
    BY <1>1 DEF LoopOK, Ahead, Recording
  <2>2. faults' = 0 => faults = 0
    BY <1>1, BoundAssumption DEF AllocatorInv, TypeInv
  <2> QED
    BY <1>1, <1>2, <2>1, <2>2, OnceKept DEF AllocatorInv
<1> QED
  BY <1>3, <1>4, <1>5, <1>6, <1>7, <1>8, <1>9 DEF AllocatorInv

LEMMA ClaimStockStep ==
    ASSUME AllocatorInv, NEW w \in Workers, ClaimStock(w)
    PROVE  AllocatorInv'
<1>1. /\ worker' \in [Workers -> Loop]
      /\ \A v \in Workers : v # w => worker'[v] = worker[v]
      /\ LoopOK(worker'[w])
      /\ worker[w].pc = "claim"
      /\ worker'[w].request = worker[w].request
      /\ worker'[w].live = worker[w].live
      /\ faults' = faults \/ (faults' = faults + 1 /\ faults < MaxFaults)
      /\ \/ /\ worker'[w].pc = "adopt" /\ worker'[w].stock = worker[w].stock
            /\ service[worker[w].stock] = "stock"
            /\ service' = [service EXCEPT ![worker[w].stock] = "claiming"]
         \/ /\ worker'[w].pc = "create" /\ service' = service
  <2>1. /\ TypeInv /\ worker[w].pc = "claim" /\ worker[w].todo = {}
        /\ worker[w].request \in Requests /\ worker[w].stock \in Stock
    BY DEF AllocatorInv, TypeInv, ClaimStock, At, LoopOK, Taken, Ahead
  <2>2. CASE service[worker[w].stock] = "stock" /\ Succeeds(w) /\ Goto(w, "adopt")
             /\ service' = [service EXCEPT ![worker[w].stock] = "claiming"]
    BY <2>1, <2>2, Went DEF LoopOK, WorkerPCs, Taken, Ahead, Recording, Adopted, Unclaimed,
       Succeeds
  <2>3. CASE /\ IF service[worker[w].stock] = "stock" THEN Fails(w) ELSE UNCHANGED faults
             /\ Set(w, [worker[w] EXCEPT !.pc = "create", !.stock = None])
             /\ service' = service
    <3>1. "create" \in WorkerPCs /\ None \in Stock \cup {None}
      BY DEF WorkerPCs
    <3>2. /\ worker' \in [Workers -> Loop]
          /\ \A v \in Workers : v # w => worker'[v] = worker[v]
          /\ worker'[w].pc = "create" /\ worker'[w].stock = None
          /\ worker'[w].live = worker[w].live /\ worker'[w].todo = worker[w].todo
          /\ worker'[w].request = worker[w].request /\ worker'[w].result = worker[w].result
      BY <2>1, <2>3, <3>1, TookStock
    <3>3. LoopOK(worker'[w])
      BY <2>1, <3>2 DEF LoopOK, Taken, Ahead, Recording, Adopted, Unclaimed
    <3> QED
      BY <2>1, <2>3, <3>2, <3>3 DEF Fails, Fault
  <2> QED
    BY <2>2, <2>3 DEF ClaimStock
<1>2. UNCHANGED <<alloc, runs, route, lease, channel, user>>
  BY DEF ClaimStock, queueVars
<1>3. TypeInv'
  BY <1>1, <1>2, RequestAssumption, BoundAssumption DEF AllocatorInv, TypeInv,
     LoopOK, Sessions, Waiting, Taken, Ahead, Recording, Adopted, Unclaimed
<1>4. SubmittedInv'
  BY <1>1, <1>2, RequestAssumption DEF AllocatorInv, TypeInv, SubmittedInv, Unserved,
     LoopOK, Taken, Ahead, Recording, Adopted, Unclaimed
<1>5. StockInv'
  BY <1>1, <1>2, RequestAssumption DEF AllocatorInv, TypeInv, StockInv, LoopOK,
     Sessions, At, Taken, Ahead, Recording, Adopted, Unclaimed
<1>6. ServedInv'
  BY <1>1, <1>2, RequestAssumption DEF AllocatorInv, TypeInv, ServedInv, LoopOK,
     Sessions, Taken, Ahead, Recording, Adopted, Unclaimed
<1>7. LeaderInv'
  BY <1>1, <1>2, BoundAssumption DEF AllocatorInv, TypeInv, LeaderInv, At
<1>8. WakeInv'
  BY <1>1, <1>2, RequestAssumption, BoundAssumption DEF AllocatorInv, TypeInv,
     WakeInv, Subscribed, LoopOK, At, Taken, Ahead, Recording, Adopted, Unclaimed
<1>9. OnceInv'
  <2>1. /\ worker'[w].todo \subseteq worker[w].todo
        /\ worker'[w].pc \in Ahead =>
              worker[w].pc \in Ahead /\ worker'[w].request = worker[w].request
        /\ worker[w].pc \in Recording =>
              worker'[w].pc \in Recording /\ worker'[w].request = worker[w].request
    BY <1>1 DEF LoopOK, Ahead, Recording
  <2>2. faults' = 0 => faults = 0
    BY <1>1, BoundAssumption DEF AllocatorInv, TypeInv
  <2> QED
    BY <1>1, <1>2, <2>1, <2>2, OnceKept DEF AllocatorInv
<1> QED
  BY <1>3, <1>4, <1>5, <1>6, <1>7, <1>8, <1>9 DEF AllocatorInv

LEMMA AdoptStep ==
    ASSUME AllocatorInv, NEW w \in Workers, Adopt(w)
    PROVE  AllocatorInv'
<1>1. /\ worker' \in [Workers -> Loop]
      /\ \A v \in Workers : v # w => worker'[v] = worker[v]
      /\ LoopOK(worker'[w])
      /\ worker[w].pc = "adopt"
      /\ worker'[w].request = worker[w].request
      /\ worker'[w].live = worker[w].live
      /\ worker'[w].stock = worker[w].stock
      /\ faults' = faults \/ (faults' = faults + 1 /\ faults < MaxFaults)
      /\ \/ /\ worker'[w].pc = "label" /\ service' = service
            /\ runs' = [runs EXCEPT ![worker[w].stock] = worker[w].request]
         \/ /\ worker'[w].pc = "get" /\ worker'[w].result = "error" /\ runs' = runs
            /\ service' \in {service, [service EXCEPT ![worker[w].stock] = None]}
  <2>1. /\ TypeInv /\ worker[w].pc = "adopt" /\ worker[w].todo = {}
        /\ worker[w].request \in Requests /\ worker[w].stock \in Stock
        /\ "label" \in WorkerPCs
    BY DEF AllocatorInv, TypeInv, Adopt, At, LoopOK, Taken, Ahead, WorkerPCs
  <2>2. CASE /\ Succeeds(w) /\ Goto(w, "label") /\ UNCHANGED service
             /\ runs' = [runs EXCEPT ![worker[w].stock] = worker[w].request]
    BY <2>1, <2>2, Went DEF LoopOK, Taken, Ahead, Recording, Adopted, Unclaimed, Succeeds
  <2>3. CASE /\ Fails(w) /\ Outcome(w, "error") /\ UNCHANGED runs
             /\ service' \in {service} \cup
                   IF worker[w].live THEN {[service EXCEPT ![worker[w].stock] = None]} ELSE {}
    BY <2>1, <2>3, CameOut DEF LoopOK, Taken, Ahead, Recording, Adopted, Unclaimed, Fails, Fault
  <2> QED
    BY <2>2, <2>3 DEF Adopt
<1>2. UNCHANGED <<alloc, route, lease, channel, user>>
  BY DEF Adopt, queueVars
<1>3. TypeInv'
  BY <1>1, <1>2, RequestAssumption, BoundAssumption DEF AllocatorInv, TypeInv,
     LoopOK, Sessions, Waiting, Taken, Ahead, Recording, Adopted, Unclaimed
<1>4. SubmittedInv'
  BY <1>1, <1>2, RequestAssumption DEF AllocatorInv, TypeInv, SubmittedInv, Unserved,
     LoopOK, Taken, Ahead, Recording, Adopted, Unclaimed
<1>5. StockInv'
  BY <1>1, <1>2, RequestAssumption DEF AllocatorInv, TypeInv, StockInv, LoopOK,
     Sessions, At, Taken, Ahead, Recording, Adopted, Unclaimed
<1>6. ServedInv'
  <2>1. /\ worker[w].stock \in Stock /\ worker[w].request \in Requests
        /\ runs[worker[w].stock] = None
    BY <1>1 DEF AllocatorInv, TypeInv, StockInv, LoopOK, At, Taken, Ahead
  <2> QED
    BY <1>1, <1>2, <2>1, RequestAssumption DEF AllocatorInv, TypeInv, ServedInv, LoopOK,
       Sessions, Taken, Ahead, Recording, Adopted
<1>7. LeaderInv'
  BY <1>1, <1>2, BoundAssumption DEF AllocatorInv, TypeInv, LeaderInv, At
<1>8. WakeInv'
  BY <1>1, <1>2, RequestAssumption, BoundAssumption DEF AllocatorInv, TypeInv,
     WakeInv, Subscribed, LoopOK, At, Taken, Ahead, Recording, Adopted, Unclaimed
<1>9. OnceInv'
  <2> DEFINE Worked == \A q \in Requests : alloc[q] \in Waiting =>
                           \/ Unserved(q)
                           \/ \E v \in Workers : worker[v].pc \in Recording /\ worker[v].request = q
             Fresh == \A v \in Workers :
                           /\ \A q \in worker[v].todo : Unserved(q)
                           /\ worker[v].pc \in Ahead => Unserved(worker[v].request)
             Single == \A q \in Requests, s, t \in Sessions : runs[s] = q /\ runs[t] = q => s = t
  <2>1. ASSUME faults' = 0 PROVE Worked' /\ Fresh' /\ Single'
    <3>1. /\ Worked /\ Fresh /\ Single
          /\ worker[w].pc # "off" => lease = w
          /\ worker[w].pc # "off" =>
                \A v \in Workers : v # w => worker[v].pc = "off" /\ worker[v].todo = {}
      BY <1>1, <1>2, <2>1, BoundAssumption DEF AllocatorInv, TypeInv, LoopOK, LeaderInv, At,
         OnceInv
    <3>2. Worked'
      <4>1. ASSUME NEW q \in Requests, alloc'[q] \in Waiting, ~Unserved(q)'
            PROVE  \E v \in Workers : worker'[v].pc \in Recording /\ worker'[v].request = q
        <5>1. CASE q = worker[w].request
          BY <1>1, <5>1 DEF Recording
        <5>2. CASE q # worker[w].request
          <6>1. ~Unserved(q)
            BY <1>1, <4>1, <5>2 DEF AllocatorInv, TypeInv, Unserved
          <6>2. PICK v \in Workers : worker[v].pc \in Recording /\ worker[v].request = q
            BY <1>2, <3>1, <4>1, <6>1
          <6> QED
            BY <1>1, <5>2, <6>2
        <5> QED
          BY <5>1, <5>2
      <4> QED
        BY <4>1
    <3>3. Fresh'
      BY <1>1, <1>2, <2>1, <3>1, RequestAssumption DEF AllocatorInv, TypeInv, LoopOK,
         Unserved,
         Sessions, Taken, Ahead, Recording, Adopted, Unclaimed
    <3>4. Single'
      BY <1>1, <1>2, <2>1, <3>1, RequestAssumption DEF AllocatorInv, TypeInv, LoopOK,
         Unserved,
         Sessions, Taken, Ahead, Recording, Adopted, Unclaimed
    <3> QED
      BY <3>2, <3>3, <3>4
  <2> QED
    BY <2>1 DEF OnceInv
<1> QED
  BY <1>3, <1>4, <1>5, <1>6, <1>7, <1>8, <1>9 DEF AllocatorInv

LEMMA LabelStep ==
    ASSUME AllocatorInv, NEW w \in Workers, Label(w)
    PROVE  AllocatorInv'
<1>1. /\ worker' \in [Workers -> Loop]
      /\ \A v \in Workers : v # w => worker'[v] = worker[v]
      /\ LoopOK(worker'[w])
      /\ worker[w].pc = "label"
      /\ worker'[w].request = worker[w].request
      /\ worker'[w].live = worker[w].live
      /\ worker'[w].stock = worker[w].stock
      /\ faults' = faults \/ (faults' = faults + 1 /\ faults < MaxFaults)
      /\ worker'[w].pc = "load" \/ (worker'[w].pc = "get" /\ worker'[w].result = "error")
      /\ service' \in {service, [service EXCEPT ![worker[w].stock] = "session"]}
  BY CameOut, RequestAssumption DEF AllocatorInv, TypeInv, LoopOK, WorkerPCs, Taken,
     Ahead, Recording, Adopted, Unclaimed, At, Label, Succeeds, Fails, Fault
<1>2. UNCHANGED <<alloc, runs, route, lease, channel, user>>
  BY DEF Label, queueVars
<1>3. TypeInv'
  BY <1>1, <1>2, RequestAssumption, BoundAssumption DEF AllocatorInv, TypeInv,
     LoopOK, Sessions, Waiting, Taken, Ahead, Recording, Adopted, Unclaimed
<1>4. SubmittedInv'
  BY <1>1, <1>2, RequestAssumption DEF AllocatorInv, TypeInv, SubmittedInv, Unserved,
     LoopOK, Taken, Ahead, Recording, Adopted, Unclaimed
<1>5. StockInv'
  BY <1>1, <1>2, RequestAssumption DEF AllocatorInv, TypeInv, StockInv, LoopOK,
     Sessions, At, Taken, Ahead, Recording, Adopted, Unclaimed
<1>6. ServedInv'
  BY <1>1, <1>2, RequestAssumption DEF AllocatorInv, TypeInv, ServedInv, LoopOK,
     Sessions, Taken, Ahead, Recording, Adopted, Unclaimed
<1>7. LeaderInv'
  BY <1>1, <1>2, BoundAssumption DEF AllocatorInv, TypeInv, LeaderInv, At
<1>8. WakeInv'
  BY <1>1, <1>2, RequestAssumption, BoundAssumption DEF AllocatorInv, TypeInv,
     WakeInv, Subscribed, LoopOK, At, Taken, Ahead, Recording, Adopted, Unclaimed
<1>9. OnceInv'
  <2>1. /\ worker'[w].todo \subseteq worker[w].todo
        /\ worker'[w].pc \in Ahead =>
              worker[w].pc \in Ahead /\ worker'[w].request = worker[w].request
        /\ worker[w].pc \in Recording =>
              worker'[w].pc \in Recording /\ worker'[w].request = worker[w].request
    BY <1>1 DEF LoopOK, Ahead, Recording
  <2>2. faults' = 0 => faults = 0
    BY <1>1, BoundAssumption DEF AllocatorInv, TypeInv
  <2> QED
    BY <1>1, <1>2, <2>1, <2>2, OnceKept DEF AllocatorInv
<1> QED
  BY <1>3, <1>4, <1>5, <1>6, <1>7, <1>8, <1>9 DEF AllocatorInv

LEMMA CreateServiceStep ==
    ASSUME AllocatorInv, NEW w \in Workers, CreateService(w)
    PROVE  AllocatorInv'
<1>1. /\ worker' \in [Workers -> Loop]
      /\ \A v \in Workers : v # w => worker'[v] = worker[v]
      /\ LoopOK(worker'[w])
      /\ worker[w].pc = "create"
      /\ worker'[w].request = worker[w].request
      /\ worker'[w].live = worker[w].live
      /\ faults' = faults \/ (faults' = faults + 1 /\ faults < MaxFaults)
      /\ \/ /\ worker'[w].pc = "finish"
            /\ service' = [service EXCEPT ![worker[w].request] = "session"]
         \/ /\ worker'[w].pc = "get" /\ worker'[w].result = "error" /\ service' = service
  <2>1. /\ TypeInv /\ worker[w].pc = "create" /\ worker[w].todo = {}
        /\ worker[w].request \in Requests /\ worker[w].stock = None
        /\ "finish" \in WorkerPCs
    BY DEF AllocatorInv, TypeInv, CreateService, At, LoopOK, Taken, Ahead, Unclaimed, WorkerPCs
  <2>2. CASE /\ Succeeds(w) /\ Goto(w, "finish")
             /\ service' = [service EXCEPT ![worker[w].request] = "session"]
    BY <2>1, <2>2, Went DEF LoopOK, Taken, Ahead, Recording, Adopted, Unclaimed, Succeeds
  <2>3. CASE /\ Fails(w) \/ UNCHANGED faults
             /\ Outcome(w, "error") /\ UNCHANGED service
    BY <2>1, <2>3, CameOut DEF LoopOK, Taken, Ahead, Recording, Adopted, Unclaimed, Fails, Fault
  <2> QED
    BY <2>2, <2>3 DEF CreateService
<1>2. UNCHANGED <<alloc, runs, route, lease, channel, user>>
  BY DEF CreateService, queueVars
<1>3. TypeInv'
  BY <1>1, <1>2, RequestAssumption, BoundAssumption DEF AllocatorInv, TypeInv,
     LoopOK, Sessions, Waiting, Taken, Ahead, Recording, Adopted, Unclaimed
<1>4. SubmittedInv'
  BY <1>1, <1>2, RequestAssumption DEF AllocatorInv, TypeInv, SubmittedInv, Unserved,
     LoopOK, Taken, Ahead, Recording, Adopted, Unclaimed
<1>5. StockInv'
  BY <1>1, <1>2, RequestAssumption DEF AllocatorInv, TypeInv, StockInv, LoopOK,
     Sessions, At, Taken, Ahead, Recording, Adopted, Unclaimed
<1>6. ServedInv'
  BY <1>1, <1>2, RequestAssumption DEF AllocatorInv, TypeInv, ServedInv, LoopOK,
     Sessions, Taken, Ahead, Recording, Adopted, Unclaimed
<1>7. LeaderInv'
  BY <1>1, <1>2, BoundAssumption DEF AllocatorInv, TypeInv, LeaderInv, At
<1>8. WakeInv'
  BY <1>1, <1>2, RequestAssumption, BoundAssumption DEF AllocatorInv, TypeInv,
     WakeInv, Subscribed, LoopOK, At, Taken, Ahead, Recording, Adopted, Unclaimed
<1>9. OnceInv'
  <2>1. /\ worker'[w].todo \subseteq worker[w].todo
        /\ worker'[w].pc \in Ahead =>
              worker[w].pc \in Ahead /\ worker'[w].request = worker[w].request
        /\ worker[w].pc \in Recording =>
              worker'[w].pc \in Recording /\ worker'[w].request = worker[w].request
    BY <1>1 DEF LoopOK, Ahead, Recording
  <2>2. faults' = 0 => faults = 0
    BY <1>1, BoundAssumption DEF AllocatorInv, TypeInv
  <2> QED
    BY <1>1, <1>2, <2>1, <2>2, OnceKept DEF AllocatorInv
<1> QED
  BY <1>3, <1>4, <1>5, <1>6, <1>7, <1>8, <1>9 DEF AllocatorInv

LEMMA FinishSessionStep ==
    ASSUME AllocatorInv, NEW w \in Workers, FinishSession(w)
    PROVE  AllocatorInv'
<1>1. /\ worker' \in [Workers -> Loop]
      /\ \A v \in Workers : v # w => worker'[v] = worker[v]
      /\ LoopOK(worker'[w])
      /\ worker[w].pc = "finish"
      /\ worker'[w].request = worker[w].request
      /\ worker'[w].live = worker[w].live
      /\ faults' = faults \/ (faults' = faults + 1 /\ faults < MaxFaults)
      /\ worker'[w].pc = "get"
      /\ \/ /\ worker'[w].result = "assigned" /\ service' = service /\ alloc' = alloc
            /\ runs' = [runs EXCEPT ![worker[w].request] = worker[w].request]
         \/ /\ worker'[w].result = "error" /\ runs' = runs
            /\ \/ /\ service' = service /\ alloc' = alloc
               \/ /\ service' = [service EXCEPT ![worker[w].request] = None]
                  /\ alloc' = [alloc EXCEPT ![worker[w].request] = None]
  BY CameOut, RequestAssumption DEF AllocatorInv, TypeInv, LoopOK, WorkerPCs, Taken,
     Ahead, Recording, Adopted, Unclaimed, At, FinishSession, Succeeds, Fails, Fault
<1>2. UNCHANGED <<route, lease, channel, user>>
  BY DEF FinishSession
<1>3. TypeInv'
  BY <1>1, <1>2, RequestAssumption, BoundAssumption DEF AllocatorInv, TypeInv,
     LoopOK, Sessions, Waiting, Taken, Ahead, Recording, Adopted, Unclaimed
<1>4. SubmittedInv'
  BY <1>1, <1>2, RequestAssumption DEF AllocatorInv, TypeInv, SubmittedInv, Unserved,
     LoopOK, Taken, Ahead, Recording, Adopted, Unclaimed
<1>5. StockInv'
  BY <1>1, <1>2, RequestAssumption DEF AllocatorInv, TypeInv, StockInv, LoopOK,
     Sessions, At, Taken, Ahead, Recording, Adopted, Unclaimed
<1>6. ServedInv'
  BY <1>1, <1>2, RequestAssumption DEF AllocatorInv, TypeInv, ServedInv, LoopOK,
     Sessions, Taken, Ahead, Recording, Adopted, Unclaimed
<1>7. LeaderInv'
  BY <1>1, <1>2, BoundAssumption DEF AllocatorInv, TypeInv, LeaderInv, At
<1>8. WakeInv'
  <2>1. \A v \in Workers :
            channel'[v] # None => worker'[v].pc \in {"look_again", "read", "save", "wait"}
    BY <1>1, <1>2 DEF AllocatorInv, TypeInv, WakeInv, Subscribed
  <2>2. ASSUME faults' = 0, NEW v \in Workers, NEW q \in Requests,
               channel'[v] = "empty", alloc'[q] = "pending"
        PROVE  \/ user'[q] = "notify"
               \/ worker'[v].pc = "look_again"
               \/ worker'[v].pc \in {"read", "save"} /\ q \in worker'[v].todo
               \/ worker'[v].pc = "save" /\ worker'[v].request = q
    <3>1. /\ faults = 0 /\ channel[v] = "empty" /\ alloc[q] = "pending"
          /\ worker[v].pc \in {"look_again", "read", "save", "wait"}
      BY <1>1, <1>2, <2>2, BoundAssumption DEF AllocatorInv, TypeInv, WakeInv, Subscribed,
         None, Waiting
    <3>2. \/ user[q] = "notify"
          \/ worker[v].pc = "look_again"
          \/ worker[v].pc \in {"read", "save"} /\ q \in worker[v].todo
          \/ worker[v].pc = "save" /\ worker[v].request = q
      BY <3>1 DEF AllocatorInv, WakeInv, At
    <3> QED
      BY <1>1, <1>2, <2>2, <3>1, <3>2 DEF Waiting, None, AllocatorInv, TypeInv
  <2> QED
    BY <2>1, <2>2 DEF WakeInv, At, Subscribed
<1>9. OnceInv'
  <2> DEFINE Worked == \A q \in Requests : alloc[q] \in Waiting =>
                           \/ Unserved(q)
                           \/ \E v \in Workers : worker[v].pc \in Recording /\ worker[v].request = q
             Fresh == \A v \in Workers :
                           /\ \A q \in worker[v].todo : Unserved(q)
                           /\ worker[v].pc \in Ahead => Unserved(worker[v].request)
             Single == \A q \in Requests, s, t \in Sessions : runs[s] = q /\ runs[t] = q => s = t
  <2>1. ASSUME faults' = 0 PROVE Worked' /\ Fresh' /\ Single'
    <3>1. /\ Worked /\ Fresh /\ Single
          /\ worker[w].pc # "off" => lease = w
          /\ worker[w].pc # "off" =>
                \A v \in Workers : v # w => worker[v].pc = "off" /\ worker[v].todo = {}
      BY <1>1, <1>2, <2>1, BoundAssumption DEF AllocatorInv, TypeInv, LoopOK, LeaderInv, At,
         OnceInv
    <3>2. Worked'
      BY <1>1, <1>2, <2>1, <3>1, RequestAssumption DEF AllocatorInv, TypeInv, LoopOK,
         Unserved,
         Sessions, Waiting, None, Taken, Ahead, Recording, Adopted, Unclaimed
    <3>3. Fresh'
      BY <1>1, <1>2, <2>1, <3>1, RequestAssumption DEF AllocatorInv, TypeInv, LoopOK,
         Unserved,
         Sessions, Taken, Ahead, Recording, Adopted, Unclaimed
    <3>4. Single'
      BY <1>1, <1>2, <2>1, <3>1, RequestAssumption DEF AllocatorInv, TypeInv, LoopOK,
         Unserved,
         Sessions, Taken, Ahead, Recording, Adopted, Unclaimed
    <3> QED
      BY <3>2, <3>3, <3>4
  <2> QED
    BY <2>1 DEF OnceInv
<1> QED
  BY <1>3, <1>4, <1>5, <1>6, <1>7, <1>8, <1>9 DEF AllocatorInv

----------------------------------------------------------------------------
(* Complete: the route, the outcome, the notification, off the queue.      *)

LEMMA LoadAllocationStep ==
    ASSUME AllocatorInv, NEW w \in Workers, LoadAllocation(w)
    PROVE  AllocatorInv'
<1>1. /\ worker' \in [Workers -> Loop]
      /\ \A v \in Workers : v # w => worker'[v] = worker[v]
      /\ LoopOK(worker'[w])
      /\ worker[w].pc = "load"
      /\ faults' = faults \/ (faults' = faults + 1 /\ faults < MaxFaults)
      /\ \/ /\ worker'[w].pc = "route" /\ worker'[w].request = worker[w].request
            /\ worker'[w].live = worker[w].live
            /\ worker'[w].stock = worker[w].stock
         \/ /\ worker'[w].pc \in {"look", "off"}
            /\ worker'[w].pc # "off" => worker'[w].live /\ worker[w].live
            /\ (alloc[worker[w].request] = None \/ faults' # faults)
  <2>1. /\ TypeInv /\ worker[w].pc = "load" /\ worker[w].todo = {}
        /\ worker[w].request \in Requests /\ worker[w].stock \in Stock
        /\ worker[w].result = "assigned" /\ "route" \in WorkerPCs
    BY DEF AllocatorInv, TypeInv, LoadAllocation, At, LoopOK, Taken, Adopted, Recording, WorkerPCs
  <2>2. CASE Goto(w, "route") /\ UNCHANGED faults
    BY <2>1, <2>2, Went DEF LoopOK, Taken, Ahead, Recording, Adopted, Unclaimed
  <2>3. CASE Done(w) /\ ((alloc[worker[w].request] = None /\ UNCHANGED faults) \/ Fault)
    BY <2>1, <2>3, WasDone, BoundAssumption DEF TypeInv, Fault
  <2> QED
    BY <2>2, <2>3 DEF LoadAllocation
<1>2. UNCHANGED <<alloc, service, runs, route, lease, channel, user>>
  BY DEF LoadAllocation, sessionVars, queueVars
<1>3. TypeInv'
  BY <1>1, <1>2, RequestAssumption, BoundAssumption DEF AllocatorInv, TypeInv,
     LoopOK, Sessions, Waiting, Taken, Ahead, Recording, Adopted, Unclaimed
<1>4. SubmittedInv'
  BY <1>1, <1>2, RequestAssumption DEF AllocatorInv, TypeInv, SubmittedInv, Unserved,
     LoopOK, Taken, Ahead, Recording, Adopted, Unclaimed
<1>5. StockInv'
  BY <1>1, <1>2, RequestAssumption DEF AllocatorInv, TypeInv, StockInv, LoopOK,
     Sessions, At, Taken, Ahead, Recording, Adopted, Unclaimed
<1>6. ServedInv'
  BY <1>1, <1>2, RequestAssumption DEF AllocatorInv, TypeInv, ServedInv, LoopOK,
     Sessions, Taken, Ahead, Recording, Adopted, Unclaimed
<1>7. LeaderInv'
  BY <1>1, <1>2, BoundAssumption DEF AllocatorInv, TypeInv, LeaderInv, At
<1>8. WakeInv'
  BY <1>1, <1>2, RequestAssumption, BoundAssumption DEF AllocatorInv, TypeInv,
     WakeInv, Subscribed, LoopOK, At, Taken, Ahead, Recording, Adopted, Unclaimed
<1>9. OnceInv'
  <2> DEFINE Worked == \A q \in Requests : alloc[q] \in Waiting =>
                           \/ Unserved(q)
                           \/ \E v \in Workers : worker[v].pc \in Recording /\ worker[v].request = q
             Fresh == \A v \in Workers :
                           /\ \A q \in worker[v].todo : Unserved(q)
                           /\ worker[v].pc \in Ahead => Unserved(worker[v].request)
             Single == \A q \in Requests, s, t \in Sessions : runs[s] = q /\ runs[t] = q => s = t
  <2>1. ASSUME faults' = 0 PROVE Worked' /\ Fresh' /\ Single'
    <3>1. /\ Worked /\ Fresh /\ Single
          /\ worker[w].pc # "off" => lease = w
          /\ worker[w].pc # "off" =>
                \A v \in Workers : v # w => worker[v].pc = "off" /\ worker[v].todo = {}
      BY <1>1, <1>2, <2>1, BoundAssumption DEF AllocatorInv, TypeInv, LoopOK, LeaderInv, At,
         OnceInv
    <3>2. Worked'
      BY <1>1, <1>2, <2>1, <3>1, RequestAssumption DEF AllocatorInv, TypeInv, LoopOK,
         Unserved,
         Sessions, Waiting, None, Taken, Ahead, Recording, Adopted, Unclaimed
    <3>3. Fresh'
      BY <1>1, <1>2, <2>1, <3>1, RequestAssumption DEF AllocatorInv, TypeInv, LoopOK,
         Unserved,
         Sessions, Taken, Ahead, Recording, Adopted, Unclaimed
    <3>4. Single'
      BY <1>1, <1>2, <2>1, <3>1, RequestAssumption DEF AllocatorInv, TypeInv, LoopOK,
         Unserved,
         Sessions, Taken, Ahead, Recording, Adopted, Unclaimed
    <3> QED
      BY <3>2, <3>3, <3>4
  <2> QED
    BY <2>1 DEF OnceInv
<1> QED
  BY <1>3, <1>4, <1>5, <1>6, <1>7, <1>8, <1>9 DEF AllocatorInv

LEMMA SaveRouteStep ==
    ASSUME AllocatorInv, NEW w \in Workers, SaveRoute(w)
    PROVE  AllocatorInv'
<1>1. /\ worker' \in [Workers -> Loop]
      /\ \A v \in Workers : v # w => worker'[v] = worker[v]
      /\ LoopOK(worker'[w])
      /\ worker[w].pc = "route"
      /\ faults' = faults \/ (faults' = faults + 1 /\ faults < MaxFaults)
      /\ \/ /\ worker'[w].pc = "get" /\ worker'[w].request = worker[w].request
            /\ worker'[w].live = worker[w].live
            /\ route' = [route EXCEPT ![worker[w].request] = worker[w].stock]
         \/ /\ worker'[w].pc \in {"look", "off"}
            /\ worker'[w].pc # "off" => worker'[w].live /\ worker[w].live
            /\ route' = route /\ faults' # faults
  <2>1. /\ TypeInv /\ worker[w].pc = "route" /\ worker[w].todo = {}
        /\ worker[w].request \in Requests /\ worker[w].stock \in Stock
        /\ worker[w].result = "assigned" /\ "get" \in WorkerPCs
    BY DEF AllocatorInv, TypeInv, SaveRoute, At, LoopOK, Taken, Adopted, Recording, WorkerPCs
  <2>2. CASE /\ Goto(w, "get") /\ UNCHANGED faults
             /\ route' = [route EXCEPT ![worker[w].request] = worker[w].stock]
    BY <2>1, <2>2, Went DEF LoopOK, Taken, Ahead, Recording, Adopted, Unclaimed
  <2>3. CASE Done(w) /\ Fault /\ UNCHANGED route
    BY <2>1, <2>3, WasDone, BoundAssumption DEF TypeInv, Fault
  <2> QED
    BY <2>2, <2>3 DEF SaveRoute
<1>2. UNCHANGED <<alloc, service, runs, lease, channel, user>>
  BY DEF SaveRoute, queueVars
<1>3. TypeInv'
  BY <1>1, <1>2, RequestAssumption, BoundAssumption DEF AllocatorInv, TypeInv,
     LoopOK, Sessions, Waiting, Taken, Ahead, Recording, Adopted, Unclaimed
<1>4. SubmittedInv'
  BY <1>1, <1>2, RequestAssumption DEF AllocatorInv, TypeInv, SubmittedInv, Unserved,
     LoopOK, Taken, Ahead, Recording, Adopted, Unclaimed
<1>5. StockInv'
  BY <1>1, <1>2, RequestAssumption DEF AllocatorInv, TypeInv, StockInv, LoopOK,
     Sessions, At, Taken, Ahead, Recording, Adopted, Unclaimed
<1>6. ServedInv'
  BY <1>1, <1>2, RequestAssumption DEF AllocatorInv, TypeInv, ServedInv, LoopOK,
     Sessions, Taken, Ahead, Recording, Adopted, Unclaimed
<1>7. LeaderInv'
  BY <1>1, <1>2, BoundAssumption DEF AllocatorInv, TypeInv, LeaderInv, At
<1>8. WakeInv'
  BY <1>1, <1>2, RequestAssumption, BoundAssumption DEF AllocatorInv, TypeInv,
     WakeInv, Subscribed, LoopOK, At, Taken, Ahead, Recording, Adopted, Unclaimed
<1>9. OnceInv'
  <2> DEFINE Worked == \A q \in Requests : alloc[q] \in Waiting =>
                           \/ Unserved(q)
                           \/ \E v \in Workers : worker[v].pc \in Recording /\ worker[v].request = q
             Fresh == \A v \in Workers :
                           /\ \A q \in worker[v].todo : Unserved(q)
                           /\ worker[v].pc \in Ahead => Unserved(worker[v].request)
             Single == \A q \in Requests, s, t \in Sessions : runs[s] = q /\ runs[t] = q => s = t
  <2>1. ASSUME faults' = 0 PROVE Worked' /\ Fresh' /\ Single'
    <3>1. /\ Worked /\ Fresh /\ Single
          /\ worker[w].pc # "off" => lease = w
          /\ worker[w].pc # "off" =>
                \A v \in Workers : v # w => worker[v].pc = "off" /\ worker[v].todo = {}
      BY <1>1, <1>2, <2>1, BoundAssumption DEF AllocatorInv, TypeInv, LoopOK, LeaderInv, At,
         OnceInv
    <3>2. Worked'
      BY <1>1, <1>2, <2>1, <3>1, RequestAssumption DEF AllocatorInv, TypeInv, LoopOK,
         Unserved,
         Sessions, Waiting, None, Taken, Ahead, Recording, Adopted, Unclaimed
    <3>3. Fresh'
      BY <1>1, <1>2, <2>1, <3>1, RequestAssumption DEF AllocatorInv, TypeInv, LoopOK,
         Unserved,
         Sessions, Taken, Ahead, Recording, Adopted, Unclaimed
    <3>4. Single'
      BY <1>1, <1>2, <2>1, <3>1, RequestAssumption DEF AllocatorInv, TypeInv, LoopOK,
         Unserved,
         Sessions, Taken, Ahead, Recording, Adopted, Unclaimed
    <3> QED
      BY <3>2, <3>3, <3>4
  <2> QED
    BY <2>1 DEF OnceInv
<1> QED
  BY <1>3, <1>4, <1>5, <1>6, <1>7, <1>8, <1>9 DEF AllocatorInv

LEMMA GetAllocationStep ==
    ASSUME AllocatorInv, NEW w \in Workers, GetAllocation(w)
    PROVE  AllocatorInv'
<1>1. /\ worker' \in [Workers -> Loop]
      /\ \A v \in Workers : v # w => worker'[v] = worker[v]
      /\ LoopOK(worker'[w])
      /\ worker[w].pc = "get"
      /\ faults' = faults \/ (faults' = faults + 1 /\ faults < MaxFaults)
      /\ \/ /\ worker'[w].pc = "put" /\ worker'[w].request = worker[w].request
            /\ worker'[w].live = worker[w].live
            /\ worker'[w].result = worker[w].result
         \/ /\ worker'[w].pc \in {"look", "off"}
            /\ worker'[w].pc # "off" => worker'[w].live /\ worker[w].live
            /\ (alloc[worker[w].request] = None \/ faults' # faults)
  <2>1. /\ TypeInv /\ worker[w].pc = "get" /\ worker[w].todo = {}
        /\ worker[w].request \in Requests /\ "put" \in WorkerPCs
    BY DEF AllocatorInv, TypeInv, GetAllocation, At, LoopOK, Taken, Recording, WorkerPCs
  <2>2. CASE Goto(w, "put") /\ UNCHANGED faults
    BY <2>1, <2>2, Went DEF LoopOK, Taken, Ahead, Recording, Adopted, Unclaimed
  <2>3. CASE Done(w) /\ ((alloc[worker[w].request] = None /\ UNCHANGED faults) \/ Fault)
    BY <2>1, <2>3, WasDone, BoundAssumption DEF TypeInv, Fault
  <2> QED
    BY <2>2, <2>3 DEF GetAllocation
<1>2. UNCHANGED <<alloc, service, runs, route, lease, channel, user>>
  BY DEF GetAllocation, sessionVars, queueVars
<1>3. TypeInv'
  BY <1>1, <1>2, RequestAssumption, BoundAssumption DEF AllocatorInv, TypeInv,
     LoopOK, Sessions, Waiting, Taken, Ahead, Recording, Adopted, Unclaimed
<1>4. SubmittedInv'
  BY <1>1, <1>2, RequestAssumption DEF AllocatorInv, TypeInv, SubmittedInv, Unserved,
     LoopOK, Taken, Ahead, Recording, Adopted, Unclaimed
<1>5. StockInv'
  BY <1>1, <1>2, RequestAssumption DEF AllocatorInv, TypeInv, StockInv, LoopOK,
     Sessions, At, Taken, Ahead, Recording, Adopted, Unclaimed
<1>6. ServedInv'
  BY <1>1, <1>2, RequestAssumption DEF AllocatorInv, TypeInv, ServedInv, LoopOK,
     Sessions, Taken, Ahead, Recording, Adopted, Unclaimed
<1>7. LeaderInv'
  BY <1>1, <1>2, BoundAssumption DEF AllocatorInv, TypeInv, LeaderInv, At
<1>8. WakeInv'
  BY <1>1, <1>2, RequestAssumption, BoundAssumption DEF AllocatorInv, TypeInv,
     WakeInv, Subscribed, LoopOK, At, Taken, Ahead, Recording, Adopted, Unclaimed
<1>9. OnceInv'
  <2> DEFINE Worked == \A q \in Requests : alloc[q] \in Waiting =>
                           \/ Unserved(q)
                           \/ \E v \in Workers : worker[v].pc \in Recording /\ worker[v].request = q
             Fresh == \A v \in Workers :
                           /\ \A q \in worker[v].todo : Unserved(q)
                           /\ worker[v].pc \in Ahead => Unserved(worker[v].request)
             Single == \A q \in Requests, s, t \in Sessions : runs[s] = q /\ runs[t] = q => s = t
  <2>1. ASSUME faults' = 0 PROVE Worked' /\ Fresh' /\ Single'
    <3>1. /\ Worked /\ Fresh /\ Single
          /\ worker[w].pc # "off" => lease = w
          /\ worker[w].pc # "off" =>
                \A v \in Workers : v # w => worker[v].pc = "off" /\ worker[v].todo = {}
      BY <1>1, <1>2, <2>1, BoundAssumption DEF AllocatorInv, TypeInv, LoopOK, LeaderInv, At,
         OnceInv
    <3>2. Worked'
      BY <1>1, <1>2, <2>1, <3>1, RequestAssumption DEF AllocatorInv, TypeInv, LoopOK,
         Unserved,
         Sessions, Waiting, None, Taken, Ahead, Recording, Adopted, Unclaimed
    <3>3. Fresh'
      BY <1>1, <1>2, <2>1, <3>1, RequestAssumption DEF AllocatorInv, TypeInv, LoopOK,
         Unserved,
         Sessions, Taken, Ahead, Recording, Adopted, Unclaimed
    <3>4. Single'
      BY <1>1, <1>2, <2>1, <3>1, RequestAssumption DEF AllocatorInv, TypeInv, LoopOK,
         Unserved,
         Sessions, Taken, Ahead, Recording, Adopted, Unclaimed
    <3> QED
      BY <3>2, <3>3, <3>4
  <2> QED
    BY <2>1 DEF OnceInv
<1> QED
  BY <1>3, <1>4, <1>5, <1>6, <1>7, <1>8, <1>9 DEF AllocatorInv

LEMMA PutAllocationStep ==
    ASSUME AllocatorInv, NEW w \in Workers, PutAllocation(w)
    PROVE  AllocatorInv'
<1>1. /\ worker' \in [Workers -> Loop]
      /\ \A v \in Workers : v # w => worker'[v] = worker[v]
      /\ LoopOK(worker'[w])
      /\ worker[w].pc = "put"
      /\ worker[w].result \in {"assigned", "error"}
      /\ faults' = faults \/ (faults' = faults + 1 /\ faults < MaxFaults)
      /\ \/ /\ worker'[w].pc = "notify" /\ worker'[w].request = worker[w].request
            /\ worker'[w].live = worker[w].live
            /\ worker'[w].result = worker[w].result
            /\ alloc' = [alloc EXCEPT ![worker[w].request] = worker[w].result]
         \/ /\ worker'[w].pc \in {"look", "off"}
            /\ worker'[w].pc # "off" => worker'[w].live /\ worker[w].live
            /\ alloc' = alloc /\ (alloc[worker[w].request] = None \/ faults' # faults)
  <2>1. /\ TypeInv /\ worker[w].pc = "put" /\ worker[w].todo = {}
        /\ worker[w].request \in Requests /\ worker[w].result \in {"assigned", "error"}
    BY DEF AllocatorInv, TypeInv, PutAllocation, At, LoopOK, Loop, Taken, Recording
  <2>2. CASE Goto(w, "notify") /\ UNCHANGED faults
             /\ alloc' = [alloc EXCEPT ![worker[w].request] = worker[w].result]
    BY <2>1, <2>2, Went DEF LoopOK, WorkerPCs, Taken, Ahead, Recording, Adopted, Unclaimed
  <2>3. CASE Refused(w) /\ Done(w) /\ UNCHANGED alloc
    BY <2>1, <2>3, WasDone, BoundAssumption DEF Refused, Fault, TypeInv
  <2> QED
    BY <2>2, <2>3 DEF PutAllocation
<1>2. UNCHANGED <<service, runs, route, lease, channel, user>>
  BY DEF PutAllocation, sessionVars
<1>3. TypeInv'
  BY <1>1, <1>2, RequestAssumption, BoundAssumption DEF AllocatorInv, TypeInv,
     LoopOK, Sessions, Waiting, Taken, Ahead, Recording, Adopted, Unclaimed
<1>4. SubmittedInv'
  BY <1>1, <1>2, RequestAssumption DEF AllocatorInv, TypeInv, SubmittedInv, Unserved,
     LoopOK, Taken, Ahead, Recording, Adopted, Unclaimed
<1>5. StockInv'
  BY <1>1, <1>2, RequestAssumption DEF AllocatorInv, TypeInv, StockInv, LoopOK,
     Sessions, At, Taken, Ahead, Recording, Adopted, Unclaimed
<1>6. ServedInv'
  BY <1>1, <1>2, RequestAssumption DEF AllocatorInv, TypeInv, ServedInv, LoopOK,
     Sessions, Taken, Ahead, Recording, Adopted, Unclaimed
<1>7. LeaderInv'
  BY <1>1, <1>2, BoundAssumption DEF AllocatorInv, TypeInv, LeaderInv, At
<1>8. WakeInv'
  <2>1. \A v \in Workers :
            channel'[v] # None => worker'[v].pc \in {"look_again", "read", "save", "wait"}
    BY <1>1, <1>2 DEF AllocatorInv, TypeInv, WakeInv, Subscribed
  <2>2. ASSUME faults' = 0, NEW v \in Workers, NEW q \in Requests,
               channel'[v] = "empty", alloc'[q] = "pending"
        PROVE  \/ user'[q] = "notify"
               \/ worker'[v].pc = "look_again"
               \/ worker'[v].pc \in {"read", "save"} /\ q \in worker'[v].todo
               \/ worker'[v].pc = "save" /\ worker'[v].request = q
    <3>1. /\ faults = 0 /\ channel[v] = "empty" /\ alloc[q] = "pending"
          /\ worker[v].pc \in {"look_again", "read", "save", "wait"}
      BY <1>1, <1>2, <2>2, BoundAssumption DEF AllocatorInv, TypeInv, WakeInv, Subscribed,
         None, Waiting
    <3>2. \/ user[q] = "notify"
          \/ worker[v].pc = "look_again"
          \/ worker[v].pc \in {"read", "save"} /\ q \in worker[v].todo
          \/ worker[v].pc = "save" /\ worker[v].request = q
      BY <3>1 DEF AllocatorInv, WakeInv, At
    <3> QED
      BY <1>1, <1>2, <2>2, <3>1, <3>2 DEF Waiting, None, AllocatorInv, TypeInv
  <2> QED
    BY <2>1, <2>2 DEF WakeInv, At, Subscribed
<1>9. OnceInv'
  <2> DEFINE Worked == \A q \in Requests : alloc[q] \in Waiting =>
                           \/ Unserved(q)
                           \/ \E v \in Workers : worker[v].pc \in Recording /\ worker[v].request = q
             Fresh == \A v \in Workers :
                           /\ \A q \in worker[v].todo : Unserved(q)
                           /\ worker[v].pc \in Ahead => Unserved(worker[v].request)
             Single == \A q \in Requests, s, t \in Sessions : runs[s] = q /\ runs[t] = q => s = t
  <2>1. ASSUME faults' = 0 PROVE Worked' /\ Fresh' /\ Single'
    <3>1. /\ Worked /\ Fresh /\ Single
          /\ worker[w].pc # "off" => lease = w
          /\ worker[w].pc # "off" =>
                \A v \in Workers : v # w => worker[v].pc = "off" /\ worker[v].todo = {}
      BY <1>1, <1>2, <2>1, BoundAssumption DEF AllocatorInv, TypeInv, LoopOK, LeaderInv, At,
         OnceInv
    <3>2. Worked'
      BY <1>1, <1>2, <2>1, <3>1, RequestAssumption DEF AllocatorInv, TypeInv, LoopOK,
         Unserved,
         Sessions, Waiting, None, Taken, Ahead, Recording, Adopted, Unclaimed
    <3>3. Fresh'
      BY <1>1, <1>2, <2>1, <3>1, RequestAssumption DEF AllocatorInv, TypeInv, LoopOK,
         Unserved,
         Sessions, Taken, Ahead, Recording, Adopted, Unclaimed
    <3>4. Single'
      BY <1>1, <1>2, <2>1, <3>1, RequestAssumption DEF AllocatorInv, TypeInv, LoopOK,
         Unserved,
         Sessions, Taken, Ahead, Recording, Adopted, Unclaimed
    <3> QED
      BY <3>2, <3>3, <3>4
  <2> QED
    BY <2>1 DEF OnceInv
<1> QED
  BY <1>3, <1>4, <1>5, <1>6, <1>7, <1>8, <1>9 DEF AllocatorInv

LEMMA NotifyCompletionStep ==
    ASSUME AllocatorInv, NEW w \in Workers, NotifyCompletion(w)
    PROVE  AllocatorInv'
<1>1. /\ worker' \in [Workers -> Loop]
      /\ \A v \in Workers : v # w => worker'[v] = worker[v]
      /\ LoopOK(worker'[w])
      /\ worker[w].pc = "notify"
      /\ faults' = faults \/ (faults' = faults + 1 /\ faults < MaxFaults)
      /\ channel' \in [Workers -> {None, "empty", "full"}]
      /\ \A v \in Workers : channel'[v] = channel[v] \/ (channel[v] # None /\ channel'[v] = "full")
      /\ \/ /\ worker'[w].pc = "delete" /\ worker'[w].request = worker[w].request
            /\ worker'[w].live = worker[w].live
            /\ worker'[w].result = worker[w].result
         \/ /\ worker'[w].pc \in {"look", "off"}
            /\ (worker'[w].pc # "off" => worker'[w].live /\ worker[w].live)
  <2>1. /\ TypeInv /\ worker[w].pc = "notify" /\ worker[w].todo = {}
        /\ worker[w].request \in Requests /\ worker[w] \in Loop
    BY DEF AllocatorInv, TypeInv, NotifyCompletion, At, LoopOK, Taken
  <2>2. /\ faults' = faults \/ (faults' = faults + 1 /\ faults < MaxFaults)
        /\ channel' \in [Workers -> {None, "empty", "full"}]
        /\ \A v \in Workers :
               channel'[v] = channel[v] \/ (channel[v] # None /\ channel'[v] = "full")
    BY <2>1 DEF TypeInv, NotifyCompletion, Notify, Notified, Fault, None
  <2>3. CASE Done(w)
    BY <2>1, <2>2, <2>3, WasDone
  <2>4. CASE worker[w].result # "error" /\ Goto(w, "delete")
    <3>1. /\ worker' \in [Workers -> Loop]
          /\ \A v \in Workers : v # w => worker'[v] = worker[v]
          /\ worker'[w].pc = "delete"
          /\ worker'[w].live = worker[w].live /\ worker'[w].todo = worker[w].todo
          /\ worker'[w].request = worker[w].request /\ worker'[w].stock = worker[w].stock
          /\ worker'[w].result = worker[w].result /\ worker[w].result = "assigned"
      BY <2>1, <2>4, Went DEF WorkerPCs, Loop
    <3>2. LoopOK(worker'[w])
      BY <2>1, <3>1 DEF LoopOK, Taken, Ahead, Recording, Adopted, Unclaimed
    <3> QED
      BY <2>1, <2>2, <3>1, <3>2
  <2> QED
    BY <2>3, <2>4 DEF NotifyCompletion
<1>2. UNCHANGED <<alloc, service, runs, route, lease, user>>
  BY DEF NotifyCompletion, sessionVars, queueVars
<1>3. TypeInv'
  BY <1>1, <1>2, RequestAssumption, BoundAssumption DEF AllocatorInv, TypeInv,
     LoopOK, Sessions, Waiting, Taken, Ahead, Recording, Adopted, Unclaimed
<1>4. SubmittedInv'
  BY <1>1, <1>2, RequestAssumption DEF AllocatorInv, TypeInv, SubmittedInv, Unserved,
     LoopOK, Taken, Ahead, Recording, Adopted, Unclaimed
<1>5. StockInv'
  BY <1>1, <1>2, RequestAssumption DEF AllocatorInv, TypeInv, StockInv, LoopOK,
     Sessions, At, Taken, Ahead, Recording, Adopted, Unclaimed
<1>6. ServedInv'
  BY <1>1, <1>2, RequestAssumption DEF AllocatorInv, TypeInv, ServedInv, LoopOK,
     Sessions, Taken, Ahead, Recording, Adopted, Unclaimed
<1>7. LeaderInv'
  BY <1>1, <1>2, BoundAssumption DEF AllocatorInv, TypeInv, LeaderInv, At
<1>8. WakeInv'
  BY <1>1, <1>2, RequestAssumption, BoundAssumption DEF AllocatorInv, TypeInv,
     WakeInv, Subscribed, LoopOK, At, Taken, Ahead, Recording, Adopted, Unclaimed
<1>9. OnceInv'
  <2>1. /\ worker'[w].todo \subseteq worker[w].todo
        /\ worker'[w].pc \in Ahead =>
              worker[w].pc \in Ahead /\ worker'[w].request = worker[w].request
        /\ worker[w].pc \in Recording =>
              worker'[w].pc \in Recording /\ worker'[w].request = worker[w].request
    BY <1>1 DEF LoopOK, Ahead, Recording
  <2>2. faults' = 0 => faults = 0
    BY <1>1, BoundAssumption DEF AllocatorInv, TypeInv
  <2> QED
    BY <1>1, <1>2, <2>1, <2>2, OnceKept DEF AllocatorInv
<1> QED
  BY <1>3, <1>4, <1>5, <1>6, <1>7, <1>8, <1>9 DEF AllocatorInv

LEMMA DeleteAllocationStep ==
    ASSUME AllocatorInv, NEW w \in Workers, DeleteAllocation(w)
    PROVE  AllocatorInv'
<1>1. /\ worker' \in [Workers -> Loop]
      /\ \A v \in Workers : v # w => worker'[v] = worker[v]
      /\ LoopOK(worker'[w])
      /\ worker[w].pc = "delete"
      /\ faults' = faults \/ (faults' = faults + 1 /\ faults < MaxFaults)
      /\ worker'[w].pc \in {"look", "off"}
      /\ worker'[w].pc # "off" => worker'[w].live /\ worker[w].live
      /\ alloc' = alloc \/ alloc' = [alloc EXCEPT ![worker[w].request] = None]
  BY WasDone, RequestAssumption DEF AllocatorInv, TypeInv, LoopOK, WorkerPCs, Taken,
     Ahead, Recording, Adopted, Unclaimed, At, DeleteAllocation, Fault
<1>2. UNCHANGED <<service, runs, route, lease, channel, user>>
  BY DEF DeleteAllocation, sessionVars
<1>3. TypeInv'
  BY <1>1, <1>2, RequestAssumption, BoundAssumption DEF AllocatorInv, TypeInv,
     LoopOK, Sessions, Waiting, Taken, Ahead, Recording, Adopted, Unclaimed
<1>4. SubmittedInv'
  BY <1>1, <1>2, RequestAssumption DEF AllocatorInv, TypeInv, SubmittedInv, Unserved,
     LoopOK, Taken, Ahead, Recording, Adopted, Unclaimed
<1>5. StockInv'
  BY <1>1, <1>2, RequestAssumption DEF AllocatorInv, TypeInv, StockInv, LoopOK,
     Sessions, At, Taken, Ahead, Recording, Adopted, Unclaimed
<1>6. ServedInv'
  BY <1>1, <1>2, RequestAssumption DEF AllocatorInv, TypeInv, ServedInv, LoopOK,
     Sessions, Taken, Ahead, Recording, Adopted, Unclaimed
<1>7. LeaderInv'
  BY <1>1, <1>2, BoundAssumption DEF AllocatorInv, TypeInv, LeaderInv, At
<1>8. WakeInv'
  <2>1. \A v \in Workers :
            channel'[v] # None => worker'[v].pc \in {"look_again", "read", "save", "wait"}
    BY <1>1, <1>2 DEF AllocatorInv, TypeInv, WakeInv, Subscribed
  <2>2. ASSUME faults' = 0, NEW v \in Workers, NEW q \in Requests,
               channel'[v] = "empty", alloc'[q] = "pending"
        PROVE  \/ user'[q] = "notify"
               \/ worker'[v].pc = "look_again"
               \/ worker'[v].pc \in {"read", "save"} /\ q \in worker'[v].todo
               \/ worker'[v].pc = "save" /\ worker'[v].request = q
    <3>1. /\ faults = 0 /\ channel[v] = "empty" /\ alloc[q] = "pending"
          /\ worker[v].pc \in {"look_again", "read", "save", "wait"}
      BY <1>1, <1>2, <2>2, BoundAssumption DEF AllocatorInv, TypeInv, WakeInv, Subscribed,
         None, Waiting
    <3>2. \/ user[q] = "notify"
          \/ worker[v].pc = "look_again"
          \/ worker[v].pc \in {"read", "save"} /\ q \in worker[v].todo
          \/ worker[v].pc = "save" /\ worker[v].request = q
      BY <3>1 DEF AllocatorInv, WakeInv, At
    <3> QED
      BY <1>1, <1>2, <2>2, <3>1, <3>2 DEF Waiting, None, AllocatorInv, TypeInv
  <2> QED
    BY <2>1, <2>2 DEF WakeInv, At, Subscribed
<1>9. OnceInv'
  <2> DEFINE Worked == \A q \in Requests : alloc[q] \in Waiting =>
                           \/ Unserved(q)
                           \/ \E v \in Workers : worker[v].pc \in Recording /\ worker[v].request = q
             Fresh == \A v \in Workers :
                           /\ \A q \in worker[v].todo : Unserved(q)
                           /\ worker[v].pc \in Ahead => Unserved(worker[v].request)
             Single == \A q \in Requests, s, t \in Sessions : runs[s] = q /\ runs[t] = q => s = t
  <2>1. ASSUME faults' = 0 PROVE Worked' /\ Fresh' /\ Single'
    <3>1. /\ Worked /\ Fresh /\ Single
          /\ worker[w].pc # "off" => lease = w
          /\ worker[w].pc # "off" =>
                \A v \in Workers : v # w => worker[v].pc = "off" /\ worker[v].todo = {}
      BY <1>1, <1>2, <2>1, BoundAssumption DEF AllocatorInv, TypeInv, LoopOK, LeaderInv, At,
         OnceInv
    <3>2. Worked'
      BY <1>1, <1>2, <2>1, <3>1, RequestAssumption DEF AllocatorInv, TypeInv, LoopOK,
         Unserved,
         Sessions, Waiting, None, Taken, Ahead, Recording, Adopted, Unclaimed
    <3>3. Fresh'
      BY <1>1, <1>2, <2>1, <3>1, RequestAssumption DEF AllocatorInv, TypeInv, LoopOK,
         Unserved,
         Sessions, Taken, Ahead, Recording, Adopted, Unclaimed
    <3>4. Single'
      BY <1>1, <1>2, <2>1, <3>1, RequestAssumption DEF AllocatorInv, TypeInv, LoopOK,
         Unserved,
         Sessions, Taken, Ahead, Recording, Adopted, Unclaimed
    <3> QED
      BY <3>2, <3>3, <3>4
  <2> QED
    BY <2>1 DEF OnceInv
<1> QED
  BY <1>3, <1>4, <1>5, <1>6, <1>7, <1>8, <1>9 DEF AllocatorInv

----------------------------------------------------------------------------
(* What users do.                                                          *)

LEMMA SubmitStep ==
    ASSUME AllocatorInv, NEW q \in Requests, Submit(q)
    PROVE  AllocatorInv'
<1>1. /\ user[q] = "new" /\ user' = [user EXCEPT ![q] = "notify"]
      /\ alloc' = [alloc EXCEPT ![q] = "pending"]
      /\ faults' = faults
      /\ channel' = channel
      /\ Unserved(q)
  BY DEF AllocatorInv, TypeInv, SubmittedInv, Submit, User
<1>2. UNCHANGED <<service, runs, route, lease, worker>>
  BY DEF Submit, User, sessionVars
<1>3. TypeInv'
  BY <1>1, <1>2, RequestAssumption, BoundAssumption DEF AllocatorInv, TypeInv,
     LoopOK, Sessions, Waiting, Taken, Ahead, Recording, Adopted, Unclaimed, UserPCs
<1>4. SubmittedInv'
  BY <1>1, <1>2, RequestAssumption DEF AllocatorInv, TypeInv, SubmittedInv, Unserved,
     LoopOK, Taken, Ahead, Recording, Adopted, Unclaimed
<1>5. StockInv'
  BY <1>1, <1>2, RequestAssumption DEF AllocatorInv, TypeInv, StockInv, LoopOK,
     Sessions, At, Taken, Ahead, Recording, Adopted, Unclaimed
<1>6. ServedInv'
  BY <1>1, <1>2, RequestAssumption DEF AllocatorInv, TypeInv, ServedInv, LoopOK,
     Sessions, Taken, Ahead, Recording, Adopted, Unclaimed
<1>7. LeaderInv'
  BY <1>1, <1>2, BoundAssumption DEF AllocatorInv, TypeInv, LeaderInv, At
<1>8. WakeInv'
  <2>1. \A v \in Workers :
            channel'[v] # None => worker[v].pc \in {"look_again", "read", "save", "wait"}
    BY <1>1, <1>2 DEF AllocatorInv, TypeInv, WakeInv, Subscribed
  <2>2. ASSUME faults' = 0, NEW v \in Workers, NEW o \in Requests,
               channel'[v] = "empty", alloc'[o] = "pending"
        PROVE  \/ user'[o] = "notify"
               \/ worker[v].pc = "look_again"
               \/ worker[v].pc \in {"read", "save"} /\ o \in worker[v].todo
               \/ worker[v].pc = "save" /\ worker[v].request = o
    <3>1. CASE o = q
      BY <1>1, <3>1 DEF AllocatorInv, TypeInv
    <3>2. CASE o # q
      BY <1>1, <1>2, <2>2, <3>2 DEF AllocatorInv, TypeInv, WakeInv, At
    <3> QED
      BY <3>1, <3>2
  <2> QED
    BY <1>2, <2>1, <2>2 DEF WakeInv, At, Subscribed
<1>9. OnceInv'
  <2> DEFINE Worked == \A o \in Requests : alloc[o] \in Waiting =>
                           \/ Unserved(o)
                           \/ \E v \in Workers : worker[v].pc \in Recording /\ worker[v].request = o
             Fresh == \A v \in Workers :
                           /\ \A o \in worker[v].todo : Unserved(o)
                           /\ worker[v].pc \in Ahead => Unserved(worker[v].request)
             Single == \A o \in Requests, s, t \in Sessions : runs[s] = o /\ runs[t] = o => s = t
  <2>1. ASSUME faults' = 0 PROVE Worked' /\ Fresh' /\ Single'
    <3>1. /\ Worked /\ Fresh /\ Single
      BY <1>1, <1>2, <2>1, BoundAssumption DEF AllocatorInv, TypeInv, OnceInv
    <3>2. Worked'
      BY <1>1, <1>2, <2>1, <3>1, RequestAssumption DEF AllocatorInv, TypeInv, LoopOK,
         Unserved,
         Sessions, Waiting, None, Taken, Ahead, Recording, Adopted, Unclaimed
    <3>3. Fresh'
      BY <1>1, <1>2, <2>1, <3>1, RequestAssumption DEF AllocatorInv, TypeInv, LoopOK, Loop,
         Unserved,
         Sessions, Taken, Ahead, Recording, Adopted, Unclaimed
    <3>4. Single'
      BY <1>1, <1>2, <2>1, <3>1, RequestAssumption DEF AllocatorInv, TypeInv, LoopOK, Loop,
         Unserved,
         Sessions, Taken, Ahead, Recording, Adopted, Unclaimed
    <3> QED
      BY <3>2, <3>3, <3>4
  <2> QED
    BY <2>1 DEF OnceInv
<1> QED
  BY <1>3, <1>4, <1>5, <1>6, <1>7, <1>8, <1>9 DEF AllocatorInv

LEMMA NotifySubmittedStep ==
    ASSUME AllocatorInv, NEW q \in Requests, NotifySubmitted(q)
    PROVE  AllocatorInv'
<1>1. /\ user[q] = "notify" /\ user' = [user EXCEPT ![q] = "there"]
      /\ faults' = faults \/ (faults' = faults + 1 /\ faults < MaxFaults)
      /\ channel' \in [Workers -> {None, "empty", "full"}]
      /\ \A v \in Workers : channel'[v] = channel[v] \/ (channel[v] # None /\ channel'[v] = "full")
      /\ faults' = faults => \A v \in Workers : channel'[v] # "empty"
      /\ alloc' = alloc
  BY RequestAssumption, BoundAssumption DEF AllocatorInv, TypeInv, UserPCs,
     NotifySubmitted, Notify, Notified, Fault, User, sessionVars, None, Sessions
<1>2. UNCHANGED <<service, runs, route, lease, worker>>
  BY DEF NotifySubmitted, User, sessionVars
<1>3. TypeInv'
  BY <1>1, <1>2, RequestAssumption, BoundAssumption DEF AllocatorInv, TypeInv,
     LoopOK, Sessions, Waiting, Taken, Ahead, Recording, Adopted, Unclaimed, UserPCs
<1>4. SubmittedInv'
  BY <1>1, <1>2, RequestAssumption DEF AllocatorInv, TypeInv, SubmittedInv, Unserved,
     LoopOK, Taken, Ahead, Recording, Adopted, Unclaimed
<1>5. StockInv'
  BY <1>1, <1>2, RequestAssumption DEF AllocatorInv, TypeInv, StockInv, LoopOK,
     Sessions, At, Taken, Ahead, Recording, Adopted, Unclaimed
<1>6. ServedInv'
  BY <1>1, <1>2, RequestAssumption DEF AllocatorInv, TypeInv, ServedInv, LoopOK,
     Sessions, Taken, Ahead, Recording, Adopted, Unclaimed
<1>7. LeaderInv'
  BY <1>1, <1>2, BoundAssumption DEF AllocatorInv, TypeInv, LeaderInv, At
<1>8. WakeInv'
  <2>1. \A v \in Workers :
            channel'[v] # None => worker[v].pc \in {"look_again", "read", "save", "wait"}
    BY <1>1, <1>2 DEF AllocatorInv, TypeInv, WakeInv, Subscribed
  <2>2. ASSUME faults' = 0, NEW v \in Workers, NEW o \in Requests,
               channel'[v] = "empty", alloc'[o] = "pending"
        PROVE  \/ user'[o] = "notify"
               \/ worker[v].pc = "look_again"
               \/ worker[v].pc \in {"read", "save"} /\ o \in worker[v].todo
               \/ worker[v].pc = "save" /\ worker[v].request = o
    <3>1. /\ faults = 0 /\ channel[v] = "empty" /\ alloc[o] = "pending"
          /\ worker[v].pc \in {"look_again", "read", "save", "wait"}
      BY <1>1, <1>2, <2>2, BoundAssumption DEF AllocatorInv, TypeInv, WakeInv, Subscribed,
         None, Waiting
    <3>2. \/ user[o] = "notify"
          \/ worker[v].pc = "look_again"
          \/ worker[v].pc \in {"read", "save"} /\ o \in worker[v].todo
          \/ worker[v].pc = "save" /\ worker[v].request = o
      BY <3>1 DEF AllocatorInv, WakeInv, At
    <3> QED
      BY <1>1, <1>2, <2>2, <3>1, <3>2 DEF Waiting, None, AllocatorInv, TypeInv
  <2> QED
    BY <1>2, <2>1, <2>2 DEF WakeInv, At, Subscribed
<1>9. OnceInv'
  <2> DEFINE Worked == \A o \in Requests : alloc[o] \in Waiting =>
                           \/ Unserved(o)
                           \/ \E v \in Workers : worker[v].pc \in Recording /\ worker[v].request = o
             Fresh == \A v \in Workers :
                           /\ \A o \in worker[v].todo : Unserved(o)
                           /\ worker[v].pc \in Ahead => Unserved(worker[v].request)
             Single == \A o \in Requests, s, t \in Sessions : runs[s] = o /\ runs[t] = o => s = t
  <2>1. ASSUME faults' = 0 PROVE Worked' /\ Fresh' /\ Single'
    <3>1. /\ Worked /\ Fresh /\ Single
      BY <1>1, <1>2, <2>1, BoundAssumption DEF AllocatorInv, TypeInv, OnceInv
    <3>2. Worked'
      BY <1>1, <1>2, <2>1, <3>1, RequestAssumption DEF AllocatorInv, TypeInv, LoopOK,
         Unserved,
         Sessions, Waiting, None, Taken, Ahead, Recording, Adopted, Unclaimed
    <3>3. Fresh'
      BY <1>1, <1>2, <2>1, <3>1, RequestAssumption DEF AllocatorInv, TypeInv, LoopOK, Loop,
         Unserved,
         Sessions, Taken, Ahead, Recording, Adopted, Unclaimed
    <3>4. Single'
      BY <1>1, <1>2, <2>1, <3>1, RequestAssumption DEF AllocatorInv, TypeInv, LoopOK, Loop,
         Unserved,
         Sessions, Taken, Ahead, Recording, Adopted, Unclaimed
    <3> QED
      BY <3>2, <3>3, <3>4
  <2> QED
    BY <2>1 DEF OnceInv
<1> QED
  BY <1>3, <1>4, <1>5, <1>6, <1>7, <1>8, <1>9 DEF AllocatorInv

LEMMA DeleteSessionStep ==
    ASSUME AllocatorInv, NEW q \in Requests, DeleteSession(q)
    PROVE  AllocatorInv'
<1>1. /\ user[q] # "new" /\ user[q] # "gone" /\ user[q] # "notify"
      /\ user' \in [Requests -> UserPCs] /\ user'[q] \notin {"new", "notify"}
      /\ \A o \in Requests : o # q => user'[o] = user[o]
      /\ faults' = faults
      /\ alloc' = alloc /\ channel' = channel
  BY RequestAssumption, BoundAssumption DEF AllocatorInv, TypeInv, UserPCs,
     DeleteSession, User, sessionVars, None, Sessions
<1>2. UNCHANGED <<service, runs, route, lease, worker>>
  BY DEF DeleteSession, User, sessionVars
<1>3. TypeInv'
  BY <1>1, <1>2, RequestAssumption, BoundAssumption DEF AllocatorInv, TypeInv,
     LoopOK, Sessions, Waiting, Taken, Ahead, Recording, Adopted, Unclaimed, UserPCs
<1>4. SubmittedInv'
  BY <1>1, <1>2, RequestAssumption DEF AllocatorInv, TypeInv, SubmittedInv, Unserved,
     LoopOK,
     Loop, Taken, Ahead, Recording, Adopted
<1>5. StockInv'
  BY <1>1, <1>2, RequestAssumption DEF AllocatorInv, TypeInv, StockInv, LoopOK,
     Sessions, At, Taken, Ahead, Recording, Adopted, Unclaimed
<1>6. ServedInv'
  BY <1>1, <1>2, RequestAssumption DEF AllocatorInv, TypeInv, ServedInv, LoopOK,
     Sessions, Taken, Ahead, Recording, Adopted, Unclaimed
<1>7. LeaderInv'
  BY <1>1, <1>2, BoundAssumption DEF AllocatorInv, TypeInv, LeaderInv, At
<1>8. WakeInv'
  <2>1. \A v \in Workers :
            channel'[v] # None => worker[v].pc \in {"look_again", "read", "save", "wait"}
    BY <1>1, <1>2 DEF AllocatorInv, TypeInv, WakeInv, Subscribed
  <2>2. ASSUME faults' = 0, NEW v \in Workers, NEW o \in Requests,
               channel'[v] = "empty", alloc'[o] = "pending"
        PROVE  \/ user'[o] = "notify"
               \/ worker[v].pc = "look_again"
               \/ worker[v].pc \in {"read", "save"} /\ o \in worker[v].todo
               \/ worker[v].pc = "save" /\ worker[v].request = o
    <3>1. /\ faults = 0 /\ channel[v] = "empty" /\ alloc[o] = "pending"
          /\ worker[v].pc \in {"look_again", "read", "save", "wait"}
      BY <1>1, <1>2, <2>2, BoundAssumption DEF AllocatorInv, TypeInv, WakeInv, Subscribed,
         None, Waiting
    <3>2. \/ user[o] = "notify"
          \/ worker[v].pc = "look_again"
          \/ worker[v].pc \in {"read", "save"} /\ o \in worker[v].todo
          \/ worker[v].pc = "save" /\ worker[v].request = o
      BY <3>1 DEF AllocatorInv, WakeInv, At
    <3> QED
      BY <1>1, <1>2, <2>2, <3>1, <3>2 DEF Waiting, None, AllocatorInv, TypeInv
  <2> QED
    BY <1>2, <2>1, <2>2 DEF WakeInv, At, Subscribed
<1>9. OnceInv'
  <2> DEFINE Worked == \A o \in Requests : alloc[o] \in Waiting =>
                           \/ Unserved(o)
                           \/ \E v \in Workers : worker[v].pc \in Recording /\ worker[v].request = o
             Fresh == \A v \in Workers :
                           /\ \A o \in worker[v].todo : Unserved(o)
                           /\ worker[v].pc \in Ahead => Unserved(worker[v].request)
             Single == \A o \in Requests, s, t \in Sessions : runs[s] = o /\ runs[t] = o => s = t
  <2>1. ASSUME faults' = 0 PROVE Worked' /\ Fresh' /\ Single'
    <3>1. /\ Worked /\ Fresh /\ Single
      BY <1>1, <1>2, <2>1, BoundAssumption DEF AllocatorInv, TypeInv, OnceInv
    <3>2. Worked'
      BY <1>1, <1>2, <2>1, <3>1, RequestAssumption DEF AllocatorInv, TypeInv, LoopOK,
         Unserved,
         Sessions, Waiting, None, Taken, Ahead, Recording, Adopted, Unclaimed
    <3>3. Fresh'
      BY <1>1, <1>2, <2>1, <3>1, RequestAssumption DEF AllocatorInv, TypeInv, LoopOK, Loop,
         Unserved,
         Sessions, Taken, Ahead, Recording, Adopted, Unclaimed
    <3>4. Single'
      BY <1>1, <1>2, <2>1, <3>1, RequestAssumption DEF AllocatorInv, TypeInv, LoopOK, Loop,
         Unserved,
         Sessions, Taken, Ahead, Recording, Adopted, Unclaimed
    <3> QED
      BY <3>2, <3>3, <3>4
  <2> QED
    BY <2>1 DEF OnceInv
<1> QED
  BY <1>3, <1>4, <1>5, <1>6, <1>7, <1>8, <1>9 DEF AllocatorInv

LEMMA DeleteManagedStep ==
    ASSUME AllocatorInv, NEW q \in Requests, DeleteManaged(q)
    PROVE  AllocatorInv'
<1>1. /\ user[q] = "session" /\ user' = [user EXCEPT ![q] = "gone"]
      /\ service' = service \/ service' = [service EXCEPT ![q] = None]
      /\ runs' = runs \/ runs' = [runs EXCEPT ![q] = None]
      /\ alloc' = alloc \/ alloc' = [alloc EXCEPT ![q] = None]
      /\ faults' = faults \/ (faults' = faults + 1 /\ faults < MaxFaults)
      /\ channel' = channel
  BY DEF DeleteManaged, User, Without, Fault
<1>2. UNCHANGED <<route, lease, worker>>
  BY DEF DeleteManaged, User
<1>3. TypeInv'
  BY <1>1, <1>2, RequestAssumption, BoundAssumption DEF AllocatorInv, TypeInv,
     LoopOK, Sessions, Waiting, Taken, Ahead, Recording, Adopted, Unclaimed, UserPCs
<1>4. SubmittedInv'
  BY <1>1, <1>2, RequestAssumption DEF AllocatorInv, TypeInv, SubmittedInv, Unserved,
     LoopOK, Taken, Ahead, Recording, Adopted, Unclaimed
<1>5. StockInv'
  BY <1>1, <1>2, RequestAssumption DEF AllocatorInv, TypeInv, StockInv, LoopOK,
     Sessions, At, Taken, Ahead, Recording, Adopted, Unclaimed
<1>6. ServedInv'
  BY <1>1, <1>2, RequestAssumption DEF AllocatorInv, TypeInv, ServedInv, LoopOK,
     Sessions, Taken, Ahead, Recording, Adopted, Unclaimed
<1>7. LeaderInv'
  BY <1>1, <1>2, BoundAssumption DEF AllocatorInv, TypeInv, LeaderInv, At
<1>8. WakeInv'
  <2>1. \A v \in Workers :
            channel'[v] # None => worker[v].pc \in {"look_again", "read", "save", "wait"}
    BY <1>1, <1>2 DEF AllocatorInv, TypeInv, WakeInv, Subscribed
  <2>2. ASSUME faults' = 0, NEW v \in Workers, NEW o \in Requests,
               channel'[v] = "empty", alloc'[o] = "pending"
        PROVE  \/ user'[o] = "notify"
               \/ worker[v].pc = "look_again"
               \/ worker[v].pc \in {"read", "save"} /\ o \in worker[v].todo
               \/ worker[v].pc = "save" /\ worker[v].request = o
    <3>1. /\ faults = 0 /\ channel[v] = "empty" /\ alloc[o] = "pending"
          /\ worker[v].pc \in {"look_again", "read", "save", "wait"}
      BY <1>1, <1>2, <2>2, BoundAssumption DEF AllocatorInv, TypeInv, WakeInv, Subscribed,
         None, Waiting
    <3>2. \/ user[o] = "notify"
          \/ worker[v].pc = "look_again"
          \/ worker[v].pc \in {"read", "save"} /\ o \in worker[v].todo
          \/ worker[v].pc = "save" /\ worker[v].request = o
      BY <3>1 DEF AllocatorInv, WakeInv, At
    <3> QED
      BY <1>1, <1>2, <2>2, <3>1, <3>2 DEF Waiting, None, AllocatorInv, TypeInv
  <2> QED
    BY <1>2, <2>1, <2>2 DEF WakeInv, At, Subscribed
<1>9. OnceInv'
  <2> DEFINE Worked == \A o \in Requests : alloc[o] \in Waiting =>
                           \/ Unserved(o)
                           \/ \E v \in Workers : worker[v].pc \in Recording /\ worker[v].request = o
             Fresh == \A v \in Workers :
                           /\ \A o \in worker[v].todo : Unserved(o)
                           /\ worker[v].pc \in Ahead => Unserved(worker[v].request)
             Single == \A o \in Requests, s, t \in Sessions : runs[s] = o /\ runs[t] = o => s = t
  <2>1. ASSUME faults' = 0 PROVE Worked' /\ Fresh' /\ Single'
    <3>1. /\ Worked /\ Fresh /\ Single
      BY <1>1, <1>2, <2>1, BoundAssumption DEF AllocatorInv, TypeInv, OnceInv
    <3>2. Worked'
      BY <1>1, <1>2, <2>1, <3>1, RequestAssumption DEF AllocatorInv, TypeInv, LoopOK,
         Unserved,
         Sessions, Waiting, None, Taken, Ahead, Recording, Adopted, Unclaimed
    <3>3. Fresh'
      BY <1>1, <1>2, <2>1, <3>1, RequestAssumption DEF AllocatorInv, TypeInv, LoopOK, Loop,
         Unserved,
         Sessions, Taken, Ahead, Recording, Adopted, Unclaimed
    <3>4. Single'
      BY <1>1, <1>2, <2>1, <3>1, RequestAssumption DEF AllocatorInv, TypeInv, LoopOK, Loop,
         Unserved,
         Sessions, Taken, Ahead, Recording, Adopted, Unclaimed
    <3> QED
      BY <3>2, <3>3, <3>4
  <2> QED
    BY <2>1 DEF OnceInv
<1> QED
  BY <1>3, <1>4, <1>5, <1>6, <1>7, <1>8, <1>9 DEF AllocatorInv

LEMMA DeleteAliasStep ==
    ASSUME AllocatorInv, NEW q \in Requests, DeleteAlias(q)
    PROVE  AllocatorInv'
<1>1. /\ user[q] = "alias" /\ user' = [user EXCEPT ![q] = "gone"]
      /\ route' = route \/ route' = [route EXCEPT ![q] = None]
      /\ faults' = faults \/ (faults' = faults + 1 /\ faults < MaxFaults)
      /\ service' = service
            \/ (route[q] \in Stock /\ service' = [service EXCEPT ![route[q]] = None])
      /\ runs' = runs \/ (route[q] \in Stock /\ runs' = [runs EXCEPT ![route[q]] = None])
      /\ alloc' = alloc /\ channel' = channel
  <2>1. route[q] \in Stock
            \/ (Without(service, route[q]) = service /\ Without(runs, route[q]) = runs)
    BY RequestAssumption DEF AllocatorInv, TypeInv, Without, Sessions
  <2> QED
    BY <2>1 DEF DeleteAlias, User, Without, Fault
<1>2. UNCHANGED <<lease, worker>>
  BY DEF DeleteAlias, User
<1>3. TypeInv'
  BY <1>1, <1>2, RequestAssumption, BoundAssumption DEF AllocatorInv, TypeInv,
     LoopOK, Sessions, Waiting, Taken, Ahead, Recording, Adopted, Unclaimed, UserPCs
<1>4. SubmittedInv'
  BY <1>1, <1>2, RequestAssumption DEF AllocatorInv, TypeInv, SubmittedInv, Unserved,
     LoopOK, Taken, Ahead, Recording, Adopted, Unclaimed
<1>5. StockInv'
  BY <1>1, <1>2, RequestAssumption DEF AllocatorInv, TypeInv, StockInv, LoopOK, Sessions,
     At,
     None, Taken, Ahead, Recording, Adopted
<1>6. ServedInv'
  BY <1>1, <1>2, RequestAssumption DEF AllocatorInv, TypeInv, ServedInv, LoopOK,
     Sessions, Taken, Ahead, Recording, Adopted, Unclaimed
<1>7. LeaderInv'
  BY <1>1, <1>2, BoundAssumption DEF AllocatorInv, TypeInv, LeaderInv, At
<1>8. WakeInv'
  <2>1. \A v \in Workers :
            channel'[v] # None => worker[v].pc \in {"look_again", "read", "save", "wait"}
    BY <1>1, <1>2 DEF AllocatorInv, TypeInv, WakeInv, Subscribed
  <2>2. ASSUME faults' = 0, NEW v \in Workers, NEW o \in Requests,
               channel'[v] = "empty", alloc'[o] = "pending"
        PROVE  \/ user'[o] = "notify"
               \/ worker[v].pc = "look_again"
               \/ worker[v].pc \in {"read", "save"} /\ o \in worker[v].todo
               \/ worker[v].pc = "save" /\ worker[v].request = o
    <3>1. /\ faults = 0 /\ channel[v] = "empty" /\ alloc[o] = "pending"
          /\ worker[v].pc \in {"look_again", "read", "save", "wait"}
      BY <1>1, <1>2, <2>2, BoundAssumption DEF AllocatorInv, TypeInv, WakeInv, Subscribed,
         None, Waiting
    <3>2. \/ user[o] = "notify"
          \/ worker[v].pc = "look_again"
          \/ worker[v].pc \in {"read", "save"} /\ o \in worker[v].todo
          \/ worker[v].pc = "save" /\ worker[v].request = o
      BY <3>1 DEF AllocatorInv, WakeInv, At
    <3> QED
      BY <1>1, <1>2, <2>2, <3>1, <3>2 DEF Waiting, None, AllocatorInv, TypeInv
  <2> QED
    BY <1>2, <2>1, <2>2 DEF WakeInv, At, Subscribed
<1>9. OnceInv'
  <2> DEFINE Worked == \A o \in Requests : alloc[o] \in Waiting =>
                           \/ Unserved(o)
                           \/ \E v \in Workers : worker[v].pc \in Recording /\ worker[v].request = o
             Fresh == \A v \in Workers :
                           /\ \A o \in worker[v].todo : Unserved(o)
                           /\ worker[v].pc \in Ahead => Unserved(worker[v].request)
             Single == \A o \in Requests, s, t \in Sessions : runs[s] = o /\ runs[t] = o => s = t
  <2>1. ASSUME faults' = 0 PROVE Worked' /\ Fresh' /\ Single'
    <3>1. /\ Worked /\ Fresh /\ Single
      BY <1>1, <1>2, <2>1, BoundAssumption DEF AllocatorInv, TypeInv, OnceInv
    <3>2. Worked'
      BY <1>1, <1>2, <2>1, <3>1, RequestAssumption DEF AllocatorInv, TypeInv, LoopOK,
         Unserved,
         Sessions, Waiting, None, Taken, Ahead, Recording, Adopted, Unclaimed
    <3>3. Fresh'
      BY <1>1, <1>2, <2>1, <3>1, RequestAssumption DEF AllocatorInv, TypeInv, LoopOK, Loop,
         Unserved,
         Sessions, Taken, Ahead, Recording, Adopted, Unclaimed
    <3>4. Single'
      BY <1>1, <1>2, <2>1, <3>1, RequestAssumption DEF AllocatorInv, TypeInv, LoopOK, Loop,
         Unserved,
         Sessions, Taken, Ahead, Recording, Adopted, Unclaimed
    <3> QED
      BY <3>2, <3>3, <3>4
  <2> QED
    BY <2>1 DEF OnceInv
<1> QED
  BY <1>3, <1>4, <1>5, <1>6, <1>7, <1>8, <1>9 DEF AllocatorInv

LEMMA DeletePendingStep ==
    ASSUME AllocatorInv, NEW q \in Requests, DeletePending(q)
    PROVE  AllocatorInv'
<1>1. /\ user[q] = "queue"
      /\ \/ /\ user' = [user EXCEPT ![q] = "gone"] /\ alloc' = [alloc EXCEPT ![q] = None]
         \/ /\ user' = [user EXCEPT ![q] = "gone"] \/ user' = [user EXCEPT ![q] = "there"]
            /\ alloc' = alloc
      /\ faults' = faults \/ (faults' = faults + 1 /\ faults < MaxFaults)
      /\ channel' \in [Workers -> {None, "empty", "full"}]
      /\ \A v \in Workers : channel'[v] = channel[v] \/ (channel[v] # None /\ channel'[v] = "full")
  BY RequestAssumption, BoundAssumption DEF AllocatorInv, TypeInv, UserPCs,
     DeletePending, Notify, Notified, Fault, User, sessionVars, None, Sessions
<1>2. UNCHANGED <<service, runs, route, lease, worker>>
  BY DEF DeletePending, User, sessionVars
<1>3. TypeInv'
  BY <1>1, <1>2, RequestAssumption, BoundAssumption DEF AllocatorInv, TypeInv,
     LoopOK, Sessions, Waiting, Taken, Ahead, Recording, Adopted, Unclaimed, UserPCs
<1>4. SubmittedInv'
  BY <1>1, <1>2, RequestAssumption DEF AllocatorInv, TypeInv, SubmittedInv, Unserved,
     LoopOK,
     Loop, Taken, Ahead, Recording, Adopted
<1>5. StockInv'
  BY <1>1, <1>2, RequestAssumption DEF AllocatorInv, TypeInv, StockInv, LoopOK,
     Sessions, At, Taken, Ahead, Recording, Adopted, Unclaimed
<1>6. ServedInv'
  BY <1>1, <1>2, RequestAssumption DEF AllocatorInv, TypeInv, ServedInv, LoopOK,
     Sessions, Taken, Ahead, Recording, Adopted, Unclaimed
<1>7. LeaderInv'
  BY <1>1, <1>2, BoundAssumption DEF AllocatorInv, TypeInv, LeaderInv, At
<1>8. WakeInv'
  <2>1. \A v \in Workers :
            channel'[v] # None => worker[v].pc \in {"look_again", "read", "save", "wait"}
    BY <1>1, <1>2 DEF AllocatorInv, TypeInv, WakeInv, Subscribed
  <2>2. ASSUME faults' = 0, NEW v \in Workers, NEW o \in Requests,
               channel'[v] = "empty", alloc'[o] = "pending"
        PROVE  \/ user'[o] = "notify"
               \/ worker[v].pc = "look_again"
               \/ worker[v].pc \in {"read", "save"} /\ o \in worker[v].todo
               \/ worker[v].pc = "save" /\ worker[v].request = o
    <3>1. /\ faults = 0 /\ channel[v] = "empty" /\ alloc[o] = "pending"
          /\ worker[v].pc \in {"look_again", "read", "save", "wait"}
      BY <1>1, <1>2, <2>2, BoundAssumption DEF AllocatorInv, TypeInv, WakeInv, Subscribed,
         None, Waiting
    <3>2. \/ user[o] = "notify"
          \/ worker[v].pc = "look_again"
          \/ worker[v].pc \in {"read", "save"} /\ o \in worker[v].todo
          \/ worker[v].pc = "save" /\ worker[v].request = o
      BY <3>1 DEF AllocatorInv, WakeInv, At
    <3> QED
      BY <1>1, <1>2, <2>2, <3>1, <3>2 DEF Waiting, None, AllocatorInv, TypeInv
  <2> QED
    BY <1>2, <2>1, <2>2 DEF WakeInv, At, Subscribed
<1>9. OnceInv'
  <2> DEFINE Worked == \A o \in Requests : alloc[o] \in Waiting =>
                           \/ Unserved(o)
                           \/ \E v \in Workers : worker[v].pc \in Recording /\ worker[v].request = o
             Fresh == \A v \in Workers :
                           /\ \A o \in worker[v].todo : Unserved(o)
                           /\ worker[v].pc \in Ahead => Unserved(worker[v].request)
             Single == \A o \in Requests, s, t \in Sessions : runs[s] = o /\ runs[t] = o => s = t
  <2>1. ASSUME faults' = 0 PROVE Worked' /\ Fresh' /\ Single'
    <3>1. /\ Worked /\ Fresh /\ Single
      BY <1>1, <1>2, <2>1, BoundAssumption DEF AllocatorInv, TypeInv, OnceInv
    <3>2. Worked'
      BY <1>1, <1>2, <2>1, <3>1, RequestAssumption DEF AllocatorInv, TypeInv, LoopOK,
         Unserved,
         Sessions, Waiting, None, Taken, Ahead, Recording, Adopted, Unclaimed
    <3>3. Fresh'
      BY <1>1, <1>2, <2>1, <3>1, RequestAssumption DEF AllocatorInv, TypeInv, LoopOK, Loop,
         Unserved,
         Sessions, Taken, Ahead, Recording, Adopted, Unclaimed
    <3>4. Single'
      BY <1>1, <1>2, <2>1, <3>1, RequestAssumption DEF AllocatorInv, TypeInv, LoopOK, Loop,
         Unserved,
         Sessions, Taken, Ahead, Recording, Adopted, Unclaimed
    <3> QED
      BY <3>2, <3>3, <3>4
  <2> QED
    BY <2>1 DEF OnceInv
<1> QED
  BY <1>3, <1>4, <1>5, <1>6, <1>7, <1>8, <1>9 DEF AllocatorInv

----------------------------------------------------------------------------
(* The invariant.                                                          *)

LEMMA InitStep == Init => AllocatorInv
<1> SUFFICES ASSUME Init PROVE AllocatorInv
  OBVIOUS
<1>1. LoopOK(Off) /\ Off.pc = "off" /\ Off.todo = {}
  BY DEF Off, Loop, LoopOK, WorkerPCs, Taken, Ahead, Recording, Adopted, Unclaimed
<1>2. \A w \in Workers : worker[w] = Off
  BY DEF Init
<1>3. TypeInv
  <2>1. worker \in [Workers -> Loop]
    BY <1>1 DEF Init, LoopOK
  <2>2. faults \in 0 .. MaxFaults
    BY BoundAssumption DEF Init
  <2> QED
    BY <1>1, <1>2, <2>1, <2>2 DEF Init, TypeInv, UserPCs, Sessions
<1>4. SubmittedInv
  BY <1>1, <1>2, RequestAssumption DEF Init, SubmittedInv, Unserved, Sessions, Taken, Ahead,
     Recording
<1>5. StockInv
  BY <1>1, <1>2, RequestAssumption DEF Init, StockInv, Sessions, At
<1>6. ServedInv
  BY <1>1, <1>2, RequestAssumption DEF Init, ServedInv, Sessions, Adopted
<1>7. LeaderInv
  BY <1>1, <1>2 DEF LeaderInv, At
<1>8. WakeInv
  BY DEF Init, WakeInv, Subscribed, None
<1>9. OnceInv
  BY <1>1, <1>2, RequestAssumption DEF Init, OnceInv, Unserved, Waiting, None, Sessions,
     Ahead
<1> QED
  BY <1>3, <1>4, <1>5, <1>6, <1>7, <1>8, <1>9 DEF AllocatorInv

LEMMA Stutter ==
    ASSUME AllocatorInv, UNCHANGED vars
    PROVE  AllocatorInv'
<1>1. TypeInv' /\ SubmittedInv' /\ StockInv' /\ ServedInv'
  BY DEF vars, AllocatorInv, TypeInv, SubmittedInv, StockInv, ServedInv, Unserved, At
<1>2. LeaderInv' /\ WakeInv' /\ OnceInv'
  BY DEF vars, AllocatorInv, LeaderInv, WakeInv, OnceInv, Unserved, Subscribed, At
<1> QED
  BY <1>1, <1>2 DEF AllocatorInv

LEMMA NextStep == AllocatorInv /\ [Next]_vars => AllocatorInv'
<1> SUFFICES ASSUME AllocatorInv, [Next]_vars PROVE AllocatorInv'
  OBVIOUS
<1>1. ASSUME NEW w \in Workers, WorkerStep(w) PROVE AllocatorInv'
  BY <1>1, LeadStep, LookStep, ReadStep, NothingFoundStep, SaveStep, SubscribeStep,
     WakeStep,
     FindStockStep, ClaimStockStep, AdoptStep, LabelStep, CreateServiceStep,
     FinishSessionStep, LoadAllocationStep, SaveRouteStep, GetAllocationStep,
     PutAllocationStep, NotifyCompletionStep, DeleteAllocationStep DEF WorkerStep
<1>2. ASSUME NEW q \in Requests, UserStep(q) PROVE AllocatorInv'
  BY <1>2, SubmitStep, NotifySubmittedStep, DeleteSessionStep, DeleteManagedStep,
     DeleteAliasStep, DeletePendingStep DEF UserStep
<1>3. ASSUME NEW w \in Workers, StepDown(w) \/ Crash(w) PROVE AllocatorInv'
  BY <1>3, StepDownStep, CrashStep
<1>4. CASE LeaseExpires
  BY <1>4, LeaseExpiresStep
<1>5. CASE LeaseLost
  BY <1>5, LeaseLostStep
<1>6. CASE UNCHANGED vars
  BY <1>6, Stutter
<1> QED
  BY <1>1, <1>2, <1>3, <1>4, <1>5, <1>6 DEF Next

(* The queue, its leaders and the stock sessions keep the invariant,       *)
(* whatever crashes, expires, fails or is lost.                            *)
THEOREM AllocatorInvariance == Spec => []AllocatorInv
<1> QED
  BY InitStep, NextStep, PTL DEF Spec

(* Every variable has its type.                                            *)
THEOREM AllocatorTypeCorrectness == Spec => []AllocatorTypeOK
<1>1. AllocatorInv => AllocatorTypeOK
  BY DEF AllocatorInv, TypeInv, AllocatorTypeOK
<1> QED
  BY <1>1, AllocatorInvariance, PTL

(* Without faults a worker that sleeps has heard of every request that     *)
(* waits, or is about to be told.                                          *)
THEOREM NoWakeUpIsMissed == Spec => []NoMissedWakeUp
<1>1. AllocatorInv => NoMissedWakeUp
  BY DEF AllocatorInv, WakeInv, NoMissedWakeUp, At
<1> QED
  BY <1>1, AllocatorInvariance, PTL

(* Without faults no request is carried out twice.                         *)
THEOREM EachRequestOnce == Spec => []CarriedOutOnce
<1>1. AllocatorInv => CarriedOutOnce
  <2> SUFFICES ASSUME AllocatorInv, faults = 0, NEW q \in Requests
               PROVE  Cardinality({s \in Sessions : runs[s] = q}) <= 1
    BY DEF CarriedOutOnce
  <2>1. \A s, t \in Sessions : runs[s] = q /\ runs[t] = q => s = t
    BY DEF AllocatorInv, OnceInv
  <2>2. CASE {s \in Sessions : runs[s] = q} = {}
    BY <2>2, FS_EmptySet
  <2>3. CASE \E s \in Sessions : runs[s] = q
    <3>1. PICK s \in Sessions : runs[s] = q
      BY <2>3
    <3>2. {t \in Sessions : runs[t] = q} = {s}
      BY <2>1, <3>1
    <3> QED
      BY <3>2, FS_Singleton
  <2> QED
    BY <2>2, <2>3
<1> QED
  BY <1>1, AllocatorInvariance, PTL

(* A workload that works on a request is never given another one, however  *)
(* many leaders compete for it.                                            *)
THEOREM AdoptionIsExclusive == Spec => StockIsAdoptedOnce
<1>1. AllocatorInv /\ [Next]_vars =>
          [\A s \in Sessions : runs[s] # None => runs'[s] \in {runs[s], None}]_vars
  <2> SUFFICES ASSUME AllocatorInv, Next, NEW s \in Sessions, runs[s] # None
               PROVE  runs'[s] \in {runs[s], None}
    OBVIOUS
  <2>1. ASSUME NEW w \in Workers, Adopt(w) PROVE runs'[s] \in {runs[s], None}
    <3>1. runs[worker[w].stock] = None
      BY <2>1 DEF AllocatorInv, StockInv, Adopt
    <3> QED
      BY <2>1, <3>1 DEF Adopt, AllocatorInv, TypeInv
  <2>2. ASSUME NEW w \in Workers, FinishSession(w) PROVE runs'[s] \in {runs[s], None}
    <3>1. runs[worker[w].request] \in {None, worker[w].request}
      BY <2>2 DEF AllocatorInv, TypeInv, StockInv, LoopOK, FinishSession, At, Taken, Ahead
    <3> QED
      BY <2>2, <3>1 DEF FinishSession, AllocatorInv, TypeInv
  <2>3. ASSUME NEW q \in Requests, DeleteManaged(q) \/ DeleteAlias(q)
        PROVE  runs'[s] \in {runs[s], None}
    BY <2>3 DEF DeleteManaged, DeleteAlias, Without, AllocatorInv, TypeInv
  <2>4. CASE runs' = runs
    BY <2>4
  <2>5. \/ runs' = runs
        \/ \E w \in Workers : Adopt(w) \/ FinishSession(w)
        \/ \E q \in Requests : DeleteManaged(q) \/ DeleteAlias(q)
    BY DEF Next, WorkerStep, UserStep, sessionVars, LeaseExpires, LeaseLost, Lead, StepDown,
       Look, Read, NothingFound, Subscribe, Save, Wake, FindStock, ClaimStock, Label,
       CreateService, LoadAllocation, SaveRoute, GetAllocation, PutAllocation,
       NotifyCompletion, DeleteAllocation, Crash, Submit, NotifySubmitted, DeleteSession,
       DeletePending
  <2> QED
    BY <2>1, <2>2, <2>3, <2>4, <2>5
<1> QED
  BY <1>1, AllocatorInvariance, PTL DEF Spec, StockIsAdoptedOnce

(* A request taken off the queue as served has a session, or a route to    *)
(* one, unless its user deleted it.                                        *)
THEOREM ServedCanBeFound == Spec => ServedIsReachable
<1>1. AllocatorInv /\ [Next]_vars =>
          [\A w \in Workers :
              At(w, "delete") /\ user[worker[w].request] \in {"notify", "there"}
              => Reachable(worker[w].request)]_vars
  <2> SUFFICES ASSUME AllocatorInv, NEW w \in Workers, At(w, "delete"),
                      user[worker[w].request] \in {"notify", "there"}
               PROVE  Reachable(worker[w].request)
    OBVIOUS
  <2>1. worker[w].result = "assigned" /\ worker[w].request \in Requests
    BY DEF AllocatorInv, TypeInv, LoopOK, At, Taken
  <2> QED
    BY <2>1 DEF AllocatorInv, ServedInv, Reachable, At
<1> QED
  BY <1>1, AllocatorInvariance, PTL DEF Spec, ServedIsReachable

----------------------------------------------------------------------------
(* What SessionRequests promises.                                          *)

Promises == Promised!RequestsNext
Mild == faults' \in {faults, faults + 1}

LEMMA Unseen ==
    ASSUME Mild, UNCHANGED <<alloc, user, runs, route>>
    PROVE  Promises
<1>1. UNCHANGED <<Asked, Gone, Status, runs, route>>
  BY DEF Asked, Gone, Status
<1> QED
  BY <1>1 DEF Mild, Promises, Promised!RequestsNext

LEMMA Writing ==
    ASSUME TypeInv, NEW q \in Requests, NEW stored, alloc' = [alloc EXCEPT ![q] = stored]
    PROVE  Status' = [Status EXCEPT ![q] = Shown(stored)]
BY DEF TypeInv, Status

LEMMA UserKept == user' = user => Asked' = Asked /\ Gone' = Gone
BY DEF Asked, Gone

(* The user of a request that was made goes on with its deletion.          *)
LEMMA UserMoves ==
    ASSUME TypeInv, NEW q \in Requests, NEW from \in UserPCs \ {"new", "gone"},
           NEW to \in UserPCs \ {"new"}, User(q, from, to)
    PROVE  /\ q \in Asked /\ q \notin Gone /\ Asked' = Asked
           /\ Gone' = IF to = "gone" THEN Gone \cup {q} ELSE Gone
BY DEF TypeInv, User, Asked, Gone

(* What a loop reports or takes off the queue as served.                   *)
LEMMA ReportedIsServed ==
    ASSUME AllocatorInv, NEW w \in Workers, worker[w].pc \in {"put", "delete"},
           worker[w].result = "assigned"
    PROVE  Promised!Served(worker[w].request) \/ worker[w].request \in Gone
<1>1. worker[w].request \in Requests
  BY DEF AllocatorInv, TypeInv, LoopOK, Taken, Recording
<1> QED
  BY <1>1 DEF AllocatorInv, ServedInv, Promised!Served, Gone

LEMMA TakenIsAsked ==
    ASSUME AllocatorInv, NEW w \in Workers, worker[w].pc \in Taken
    PROVE  worker[w].request \in Requests /\ worker[w].request \in Asked
BY DEF AllocatorInv, TypeInv, LoopOK, SubmittedInv, Asked

LEMMA FaultIsMild == Fault \/ UNCHANGED faults => Mild
BY DEF Fault, Mild

----------------------------------------------------------------------------
(* The worker.                                                             *)

LEMMA SavePromises ==
    ASSUME AllocatorInv, NEW w \in Workers, Save(w)
    PROVE  Promises
<1> DEFINE q == worker[w].request
<1>1. Mild
  BY FaultIsMild DEF Save, Refused
<1>2. q \in Requests /\ q \in Asked
  BY TakenIsAsked DEF Save, At, Taken, Ahead
<1>3. UNCHANGED <<user, runs, route>>
  BY DEF Save, sessionVars
<1>4. CASE alloc' = alloc
  BY <1>1, <1>3, <1>4, Unseen
<1>5. CASE alloc' = [alloc EXCEPT ![q] = "allocating"]
  <2>1. Status' = [Status EXCEPT ![q] = "waiting"]
    BY <1>2, <1>5, Writing DEF AllocatorInv, Shown, Waiting
  <2>2. Promised!Report(q, "waiting")
    BY <1>2, <1>3, <2>1, UserKept DEF Promised!Report
  <2> QED
    BY <1>1, <1>2, <2>2 DEF Mild, Promises, Promised!RequestsNext
<1> QED
  BY <1>4, <1>5 DEF Save

LEMMA AdoptPromises ==
    ASSUME AllocatorInv, NEW w \in Workers, Adopt(w)
    PROVE  Promises
<1> DEFINE q == worker[w].request
           s == worker[w].stock
<1>1. Mild
  BY FaultIsMild DEF Adopt, Succeeds, Fails
<1>2. q \in Requests /\ q \in Asked /\ s \in Stock
  <2>1. worker[w].pc \in Taken /\ s \in Stock
    BY DEF Adopt, At, Taken, Ahead, AllocatorInv, TypeInv, LoopOK
  <2> QED
    BY <2>1, TakenIsAsked
<1>3. UNCHANGED <<alloc, user, route>>
  BY DEF Adopt, queueVars
<1>4. CASE runs' = runs
  BY <1>1, <1>3, <1>4, Unseen
<1>5. CASE runs' = [runs EXCEPT ![s] = q]
  <2>1. runs[s] = None
    BY DEF Adopt, AllocatorInv, StockInv
  <2>2. faults = 0 => \A t \in Requests \cup Stock : runs[t] # q
    BY DEF Adopt, At, AllocatorInv, OnceInv, Ahead, Unserved, Sessions
  <2>3. UNCHANGED <<Asked, Gone, Status>>
    BY <1>3 DEF Asked, Gone, Status
  <2>4. Promised!Work(s, q)
    BY <1>2, <1>3, <1>5, <2>1, <2>2, <2>3 DEF Promised!Work
  <2> QED
    BY <1>1, <1>2, <2>4 DEF Mild, Promises, Promised!RequestsNext
<1> QED
  BY <1>4, <1>5 DEF Adopt

LEMMA FinishPromises ==
    ASSUME AllocatorInv, NEW w \in Workers, FinishSession(w)
    PROVE  Promises
<1> DEFINE q == worker[w].request
<1>1. Mild
  BY FaultIsMild DEF FinishSession, Succeeds, Fails
<1>2. q \in Requests /\ q \in Asked
  BY TakenIsAsked DEF FinishSession, At, Taken, Ahead
<1>3. UNCHANGED <<user, route, Asked, Gone>>
  BY UserKept DEF FinishSession
<1>4. CASE UNCHANGED <<alloc, runs>>
  BY <1>1, <1>3, <1>4, Unseen
<1>5. CASE alloc' = alloc /\ runs' = [runs EXCEPT ![q] = q]
  <2>1. runs[q] = None \/ runs[q] = q
    BY <1>2 DEF AllocatorInv, StockInv
  <2>2. CASE runs[q] = q
    <3>1. runs' = runs
      BY <1>5, <2>2 DEF AllocatorInv, TypeInv
    <3> QED
      BY <1>1, <1>3, <1>5, <3>1, Unseen
  <2>3. CASE runs[q] = None
    <3>1. faults = 0 => \A t \in Requests \cup Stock : runs[t] # q
      BY DEF FinishSession, At, AllocatorInv, OnceInv, Ahead, Unserved, Sessions
    <3>2. Status' = Status
      BY <1>5 DEF Status
    <3>3. Promised!Work(q, q)
      BY <1>2, <1>3, <1>5, <2>3, <3>1, <3>2 DEF Promised!Work
    <3> QED
      BY <1>1, <1>2, <3>3 DEF Mild, Promises, Promised!RequestsNext
  <2> QED
    BY <2>1, <2>2, <2>3
<1>6. CASE alloc' = [alloc EXCEPT ![q] = None] /\ runs' = runs /\ faults' = faults + 1
  <2>1. Status' = [Status EXCEPT ![q] = "none"]
    BY <1>2, <1>6, Writing DEF AllocatorInv, Shown, Waiting, None
  <2>2. faults' > faults
    BY <1>6 DEF AllocatorInv, TypeInv
  <2>3. Promised!Leave(q)
    BY <1>3, <1>6, <2>1, <2>2 DEF Promised!Leave
  <2> QED
    BY <1>1, <1>2, <2>3 DEF Mild, Promises, Promised!RequestsNext
<1> QED
  BY <1>4, <1>5, <1>6 DEF FinishSession, Fails, Fault

LEMMA SaveRoutePromises ==
    ASSUME AllocatorInv, NEW w \in Workers, SaveRoute(w)
    PROVE  Promises
<1> DEFINE q == worker[w].request
           s == worker[w].stock
<1>1. Mild
  BY FaultIsMild DEF SaveRoute
<1>2. q \in Requests /\ s \in Stock /\ (runs[s] = q \/ q \in Gone)
  BY DEF SaveRoute, At, AllocatorInv, TypeInv, LoopOK, ServedInv, Taken, Recording, Adopted, Gone
<1>3. UNCHANGED <<alloc, user, runs>>
  BY DEF SaveRoute, queueVars
<1>4. CASE route' = route
  BY <1>1, <1>3, <1>4, Unseen
<1>5. CASE route' = [route EXCEPT ![q] = s]
  <2>1. UNCHANGED <<Asked, Gone, Status>>
    BY <1>3 DEF Asked, Gone, Status
  <2>2. Promised!Name(q, s)
    BY <1>2, <1>3, <1>5, <2>1 DEF Promised!Name
  <2> QED
    BY <1>1, <1>2, <2>2 DEF Mild, Promises, Promised!RequestsNext
<1> QED
  BY <1>4, <1>5 DEF SaveRoute

LEMMA PutPromises ==
    ASSUME AllocatorInv, NEW w \in Workers, PutAllocation(w)
    PROVE  Promises
<1> DEFINE q == worker[w].request
           result == worker[w].result
<1>1. Mild
  BY FaultIsMild DEF PutAllocation, Refused
<1>2. q \in Requests /\ q \in Asked
  BY TakenIsAsked DEF PutAllocation, At, Taken, Recording
<1>3. UNCHANGED <<user, runs, route>>
  BY DEF PutAllocation, sessionVars
<1>4. CASE alloc' = alloc
  BY <1>1, <1>3, <1>4, Unseen
<1>5. CASE alloc' = [alloc EXCEPT ![q] = result]
  <2>1. result \in {"assigned", "error"}
    BY DEF AllocatorInv, TypeInv, Loop
  <2>2. Status' = [Status EXCEPT ![q] = result]
    BY <1>2, <1>5, <2>1, Writing DEF AllocatorInv, Shown, Waiting
  <2>3. result = "assigned" => Promised!Served(q) \/ q \in Gone
    BY ReportedIsServed DEF PutAllocation, At
  <2>4. Promised!Report(q, result)
    BY <1>2, <1>3, <2>2, <2>3, UserKept DEF Promised!Report
  <2> QED
    BY <1>1, <1>2, <2>1, <2>4 DEF Mild, Promises, Promised!RequestsNext
<1> QED
  BY <1>4, <1>5 DEF PutAllocation

LEMMA RemovalPromises ==
    ASSUME AllocatorInv, NEW w \in Workers, DeleteAllocation(w)
    PROVE  Promises
<1> DEFINE q == worker[w].request
<1>1. Mild
  BY FaultIsMild DEF DeleteAllocation
<1>2. q \in Requests
  BY TakenIsAsked DEF DeleteAllocation, At, Taken
<1>3. UNCHANGED <<user, runs, route>>
  BY DEF DeleteAllocation, sessionVars
<1>4. CASE alloc' = alloc
  BY <1>1, <1>3, <1>4, Unseen
<1>5. CASE alloc' = [alloc EXCEPT ![q] = None]
  <2>1. Status' = [Status EXCEPT ![q] = "none"]
    BY <1>2, <1>5, Writing DEF AllocatorInv, Shown, Waiting, None
  <2>2. worker[w].result = "assigned"
    BY DEF DeleteAllocation, At, AllocatorInv, TypeInv, LoopOK
  <2>3. Promised!Served(q) \/ q \in Gone
    BY <2>2, ReportedIsServed DEF DeleteAllocation, At
  <2>4. Promised!Leave(q)
    BY <1>3, <2>1, <2>3, UserKept DEF Promised!Leave
  <2> QED
    BY <1>1, <1>2, <2>4 DEF Mild, Promises, Promised!RequestsNext
<1> QED
  BY <1>4, <1>5 DEF DeleteAllocation

LEMMA WorkerPromises ==
    ASSUME AllocatorInv, NEW w \in Workers, WorkerStep(w) \/ StepDown(w) \/ Crash(w)
    PROVE  Promises
<1>1. CASE \/ Lead(w) \/ Look(w) \/ Read(w) \/ NothingFound(w) \/ Subscribe(w) \/ Wake(w)
           \/ StepDown(w) \/ Crash(w)
  <2>1. Mild
    BY <1>1, FaultIsMild DEF Lead, Look, Read, NothingFound, Subscribe, Wake, StepDown, Crash
  <2>2. UNCHANGED <<alloc, user, runs, route>>
    BY <1>1 DEF Lead, Look, Read, NothingFound, Subscribe, Wake, StepDown, Crash, sessionVars,
       queueVars
  <2> QED
    BY <2>1, <2>2, Unseen
<1>2. CASE \/ FindStock(w) \/ ClaimStock(w) \/ Label(w) \/ CreateService(w)
           \/ LoadAllocation(w) \/ GetAllocation(w) \/ NotifyCompletion(w)
  <2>1. Mild
    BY <1>2, FaultIsMild DEF FindStock, ClaimStock, Label, CreateService, LoadAllocation,
       GetAllocation, NotifyCompletion, Succeeds, Fails, Notify
  <2>2. UNCHANGED <<alloc, user, runs, route>>
    BY <1>2 DEF FindStock, ClaimStock, Label, CreateService, LoadAllocation, GetAllocation,
       NotifyCompletion, sessionVars, queueVars
  <2> QED
    BY <2>1, <2>2, Unseen
<1> QED
  BY <1>1, <1>2, SavePromises, AdoptPromises, FinishPromises, SaveRoutePromises, PutPromises,
     RemovalPromises DEF WorkerStep

----------------------------------------------------------------------------
(* The user.                                                               *)

LEMMA SubmitPromises ==
    ASSUME AllocatorInv, NEW q \in Requests, Submit(q)
    PROVE  Promises
<1>1. Mild /\ UNCHANGED <<runs, route>>
  BY DEF Submit, Mild, sessionVars
<1>2. /\ q \notin Asked /\ Asked' = Asked \cup {q} /\ Gone' = Gone
  BY DEF Submit, User, AllocatorInv, TypeInv, Asked, Gone
<1>3. Status' = [Status EXCEPT ![q] = "waiting"]
  BY Writing DEF Submit, AllocatorInv, Shown, Waiting
<1>4. Promised!Ask(q)
  BY <1>1, <1>2, <1>3 DEF Promised!Ask
<1> QED
  BY <1>1, <1>4 DEF Mild, Promises, Promised!RequestsNext

LEMMA NotifySubmittedPromises ==
    ASSUME AllocatorInv, NEW q \in Requests, NotifySubmitted(q)
    PROVE  Promises
<1>1. Mild
  BY FaultIsMild DEF NotifySubmitted, Notify
<1>2. UNCHANGED <<Asked, Gone, Status, runs, route>>
  BY DEF NotifySubmitted, User, AllocatorInv, TypeInv, Asked, Gone, Status, sessionVars
<1> QED
  BY <1>1, <1>2 DEF Mild, Promises, Promised!RequestsNext

LEMMA DeletionPromises ==
    ASSUME AllocatorInv, NEW q \in Requests,
           DeleteSession(q) \/ DeleteManaged(q) \/ DeleteAlias(q) \/ DeletePending(q)
    PROVE  Promises
<1>1. Mild
  BY FaultIsMild DEF DeleteSession, DeleteManaged, DeleteAlias, DeletePending, Notify
<1>2. PICK from \in UserPCs \ {"new", "gone"}, to \in UserPCs \ {"new"} : User(q, from, to)
  BY DEF DeleteSession, DeleteManaged, DeleteAlias, DeletePending, UserPCs
<1>3. /\ q \in Asked /\ q \notin Gone /\ Asked' = Asked
      /\ Gone' = IF to = "gone" THEN Gone \cup {q} ELSE Gone
  BY <1>2, UserMoves DEF AllocatorInv
<1>4. user'[q] = to
  BY <1>2 DEF User, AllocatorInv, TypeInv
<1>5. CASE to # "gone"
  <2>1. UNCHANGED <<alloc, runs, route>>
    BY <1>4, <1>5 DEF DeleteSession, DeleteManaged, DeleteAlias, DeletePending, User,
       sessionVars, AllocatorInv, TypeInv
  <2>2. UNCHANGED <<Asked, Gone, Status, runs, route>>
    BY <1>3, <1>5, <2>1 DEF Status
  <2> QED
    BY <1>1, <2>2 DEF Mild, Promises, Promised!RequestsNext
<1>6. CASE to = "gone"
  <2>1. alloc' = alloc \/ alloc' = [alloc EXCEPT ![q] = None]
    BY DEF DeleteSession, DeleteManaged, DeleteAlias, DeletePending, Without
  <2>2. Status' = Status \/ Status' = [Status EXCEPT ![q] = "none"]
    <3>1. alloc' = alloc => Status' = Status
      BY DEF Status
    <3>2. alloc' = [alloc EXCEPT ![q] = None] => Status' = [Status EXCEPT ![q] = "none"]
      BY Writing DEF AllocatorInv, Shown, Waiting, None
    <3> QED
      BY <2>1, <3>1, <3>2
  <2>3. route' = route \/ route' = [route EXCEPT ![q] = None]
    BY DEF DeleteSession, DeleteManaged, DeleteAlias, DeletePending, Without, sessionVars
  <2>4. \/ runs' = runs
        \/ \E s \in Requests \cup Stock : runs[s] = q /\ runs' = [runs EXCEPT ![s] = None]
    <3>1. CASE DeleteSession(q) \/ DeletePending(q)
      BY <3>1 DEF DeleteSession, DeletePending, sessionVars
    <3>2. CASE DeleteManaged(q)
      <4>1. runs[q] = q \/ runs' = runs
        BY <3>2 DEF DeleteManaged, Without, AllocatorInv, TypeInv, StockInv
      <4> QED
        BY <3>2, <4>1 DEF DeleteManaged, Without
    <3>3. CASE DeleteAlias(q)
      <4>1. user[q] # "gone"
        BY <3>3 DEF DeleteAlias, User
      <4>2. CASE route[q] = None
        <5>1. None \notin Sessions
          BY RequestAssumption DEF Sessions
        <5> QED
          BY <3>3, <4>2, <5>1 DEF DeleteAlias, Without, AllocatorInv, TypeInv
      <4>3. CASE route[q] # None
        <5>1. route[q] \in Stock /\ runs[route[q]] = q
          BY <4>1, <4>3 DEF AllocatorInv, TypeInv, ServedInv
        <5> QED
          BY <3>3, <5>1 DEF DeleteAlias, Without
      <4> QED
        BY <4>2, <4>3
    <3> QED
      BY <3>1, <3>2, <3>3
  <2>5. Promised!Delete(q)
    BY <1>3, <1>6, <2>2, <2>3, <2>4 DEF Promised!Delete
  <2> QED
    BY <1>1, <2>5 DEF Mild, Promises, Promised!RequestsNext
<1> QED
  BY <1>5, <1>6

LEMMA StepPromises == AllocatorInv /\ [Next]_vars => [Promises]_(Promised!requestVars)
<1> SUFFICES ASSUME AllocatorInv, [Next]_vars PROVE [Promises]_(Promised!requestVars)
  OBVIOUS
<1>1. CASE UNCHANGED vars
  <2>1. UNCHANGED <<Asked, Gone, Status, runs, route, faults>>
    BY <1>1 DEF vars, Asked, Gone, Status
  <2> QED
    BY <2>1 DEF Promised!requestVars
<1>2. CASE LeaseExpires \/ LeaseLost
  <2>1. Mild
    BY <1>2, FaultIsMild DEF LeaseExpires, LeaseLost
  <2>2. UNCHANGED <<alloc, user, runs, route>>
    BY <1>2 DEF LeaseExpires, LeaseLost, sessionVars, queueVars
  <2> QED
    BY <2>1, <2>2, Unseen
<1>3. CASE \E w \in Workers : WorkerStep(w) \/ StepDown(w) \/ Crash(w)
  BY <1>3, WorkerPromises
<1>4. CASE \E q \in Requests : UserStep(q)
  BY <1>4, SubmitPromises, NotifySubmittedPromises, DeletionPromises DEF UserStep
<1> QED
  BY <1>1, <1>2, <1>3, <1>4 DEF Next

LEMMA InitPromises == Init => Promised!RequestsInit
<1> SUFFICES ASSUME Init PROVE Promised!RequestsInit
  OBVIOUS
<1>1. Asked = {} /\ Gone = {}
  BY DEF Init, Asked, Gone
<1>2. Status = [q \in Requests |-> "none"]
  BY DEF Init, Status, Shown, Waiting, None
<1> QED
  BY <1>1, <1>2 DEF Init, Sessions, Promised!RequestsInit

(* The queue, however many leaders there are and wherever they stop, keeps *)
(* what SessionRequests promises: sessions are given away once, a request  *)
(* is reported as served only when its session can be found, it is lost    *)
(* only with a failed call, and a deletion ends no session but its own     *)
(* (NextSessionAllocation, allocateSessionResources, Complete).            *)
THEOREM RequestsRefinement == Spec => ImplementsRequests
<1> QED
  BY AllocatorInvariance, InitPromises, StepPromises, PTL
     DEF Spec, ImplementsRequests, Promised!RequestsSpec, Promises
=============================================================================
