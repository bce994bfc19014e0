-------------------------- MODULE SessionAllocator --------------------------
(***************************************************************************)
(* The internal allocation queue: a creation request is stored, the worker *)
(* of the replica that leads takes it, gives it a stock session or a new   *)
(* one, records where the session is and takes the request off the queue.  *)
(*                                                                         *)
(* Requests, sessions and routes last; a worker is the allocation loop of  *)
(* one term of one replica.  A leader that loses its lease learns of it    *)
(* later and then finishes with a cancelled context, with which every call *)
(* fails but those that complete the request.  A worker works on requests  *)
(* that other workers left behind.                                         *)
(***************************************************************************)
EXTENDS Naturals, FiniteSets

CONSTANTS
    Workers,
    Requests,        \* sessions that are asked for
    Plain,           \* those without storages, which a stock session can serve
    Deletable,       \* those that their user deletes, once
    Stock,           \* stock sessions
    MaxFaults        \* crashes, lost leases, failed calls and lost messages, together

None == "none"

ASSUME RequestAssumption == /\ Plain \subseteq Requests /\ Deletable \subseteq Requests
                            /\ Requests \cap Stock = {}
                            /\ None \notin Workers \cup Requests \cup Stock
ASSUME BoundAssumption == MaxFaults \in Nat

VARIABLES
    alloc,      \* alloc[q]: the status of the stored request
    service,    \* service[s]: the Service of a session and what its label says
    runs,       \* runs[s]: the request that the workload of s works on
    route,      \* route[q]: the stock session that serves q
    lease,      \* the replica that holds the leader's lease
    worker,     \* worker[w]: the loop
    channel,    \* channel[w]: its subscription to notifications, of one slot
    user,       \* user[q]: what the user's requests about q have come to
    faults

vars == <<alloc, service, runs, route, lease, worker, channel, user, faults>>

Sessions == Requests \cup Stock
Waiting == {"pending", "allocating"}

WorkerPCs == {"off", "look", "look_again", "wait", "read", "save",
              "find", "claim", "adopt", "label", "create", "finish",
              "load", "route", "get", "put", "notify", "delete"}

Loop == [pc : WorkerPCs,
         live : BOOLEAN,                        \* the context is not cancelled
         todo : SUBSET Requests,                \* listed, not tried yet
         request : Requests \cup {None}, stock : Stock \cup {None},
         result : {"assigned", "error"}]
Off == [pc |-> "off", live |-> FALSE, todo |-> {}, request |-> None,
        stock |-> None, result |-> "error"]

UserPCs == {"new", "notify", "there", "look_route", "look_alloc", "session", "alias",
            "queue", "gone"}

Fault == faults < MaxFaults /\ faults' = faults + 1

Init ==
    /\ alloc = [q \in Requests |-> None]
    /\ service = [s \in Sessions |-> IF s \in Stock THEN "stock" ELSE None]
    /\ runs = [s \in Sessions |-> None]
    /\ route = [q \in Requests |-> None]
    /\ lease = None
    /\ worker = [w \in Workers |-> Off]
    /\ channel = [w \in Workers |-> None]
    /\ user = [q \in Requests |-> "new"]
    /\ faults = 0

At(w, pc) == worker[w].pc = pc
Set(w, loop) == worker' = [worker EXCEPT ![w] = loop]
Goto(w, pc) == Set(w, [worker[w] EXCEPT !.pc = pc])

(* The loop goes on, or ends when its context is cancelled.                *)
Again(w) == IF worker[w].live THEN [Off EXCEPT !.pc = "look", !.live = TRUE] ELSE Off

(* A call with the leader's context.                                       *)
Succeeds(w) == worker[w].live /\ UNCHANGED faults
Fails(w) == IF worker[w].live THEN Fault ELSE UNCHANGED faults

sessionVars == <<service, runs, route>>
queueVars == <<alloc, user>>

----------------------------------------------------------------------------
(* Notifier.Notify: a subscriber that has not taken the last wake-up gets  *)
(* no second one.  A message to another replica may be lost.               *)
Notified(subscribers) ==
    channel' = [w \in Workers |->
                    IF w \in subscribers /\ channel[w] = "empty" THEN "full"
                                                                 ELSE channel[w]]
Notify == \/ Notified(Workers) /\ UNCHANGED faults
          \/ Fault /\ \E ws \in SUBSET Workers : Notified(ws)

(* Slip: the lease is written whoever holds it.                            *)
AcquirableAlways == TRUE

(* LeaderElector.Run.                                                      *)
Acquirable == lease = None

Lead(w) ==
    /\ Acquirable /\ At(w, "off") /\ lease # w
    /\ lease' = w
    /\ Set(w, [Off EXCEPT !.pc = "look", !.live = TRUE])
    /\ UNCHANGED <<sessionVars, queueVars, channel, faults>>

(* The lease of a replica that went away is released or expires, ...       *)
LeaseExpires ==
    /\ lease # None /\ At(lease, "off")
    /\ lease' = None
    /\ UNCHANGED <<sessionVars, queueVars, worker, channel, faults>>

(* ... and so does that of a leader that does not get to renew it.         *)
LeaseLost ==
    /\ lease # None /\ ~At(lease, "off") /\ Fault
    /\ lease' = None
    /\ UNCHANGED <<sessionVars, queueVars, worker, channel>>

Subscribed(w) == channel[w] # None
(* A save fails also when the request is deleted under it.                 *)
Refused(w) == Fault \/ (alloc[worker[w].request] = None /\ UNCHANGED faults)

Idle(w) == worker[w].pc \in {"look", "look_again", "wait", "read", "save"}

(* The leader finds that it could not renew: its context is cancelled, and *)
(* Worker.run returns unless it is carrying a request out.                 *)
StepDown(w) ==
    /\ worker[w].live /\ lease # w
    /\ Set(w, IF Idle(w) THEN Off ELSE [worker[w] EXCEPT !.live = FALSE])
    /\ channel' = [channel EXCEPT ![w] = None]
    /\ UNCHANGED <<sessionVars, queueVars, lease, faults>>

----------------------------------------------------------------------------
(* NextSessionAllocation.                                                  *)

(* Slip: requests that a worker has taken are not looked at.               *)
ListedPending == {q \in Requests : alloc[q] = "pending"}

(* The listing of claimNextSessionAllocation, which offers requests that   *)
(* were taken and not completed once more.                                 *)
Listed == {q \in Requests : alloc[q] \in Waiting}

Look(w) ==
    /\ worker[w].pc \in {"look", "look_again"}
    /\ Set(w, [worker[w] EXCEPT !.pc = "read", !.todo = Listed])
    /\ UNCHANGED <<sessionVars, queueVars, lease, channel, faults>>

(* Whatever the status has become meanwhile.                               *)
Read(w) ==
    /\ At(w, "read")
    /\ \E q \in worker[w].todo :
           Set(w, [worker[w] EXCEPT !.todo = @ \ {q}, !.request = q,
                                    !.pc = IF alloc[q] = None THEN "read" ELSE "save"])
    /\ UNCHANGED <<sessionVars, queueVars, lease, channel, faults>>

NothingFound(w) ==
    /\ At(w, "read") /\ worker[w].todo = {} /\ Subscribed(w)
    /\ Set(w, [worker[w] EXCEPT !.pc = "wait", !.request = None])
    /\ UNCHANGED <<sessionVars, queueVars, lease, channel, faults>>

(* Slip: the queue is not looked at once more after the subscription.      *)
SubscribeAndWait(w) ==
    /\ At(w, "read") /\ worker[w].todo = {} /\ ~Subscribed(w)
    /\ channel' = [channel EXCEPT ![w] = "empty"]
    /\ Set(w, [worker[w] EXCEPT !.pc = "wait", !.request = None])
    /\ UNCHANGED <<sessionVars, queueVars, lease, faults>>

Subscribe(w) ==
    /\ At(w, "read") /\ worker[w].todo = {} /\ ~Subscribed(w)
    /\ channel' = [channel EXCEPT ![w] = "empty"]
    /\ Set(w, [worker[w] EXCEPT !.pc = "look_again", !.request = None])
    /\ UNCHANGED <<sessionVars, queueVars, lease, faults>>

(* saveSessionAllocation creates what it does not find.                    *)
Save(w) ==
    /\ At(w, "save")
    /\ \/ /\ alloc' = [alloc EXCEPT ![worker[w].request] = "allocating"]
          /\ Set(w, [worker[w] EXCEPT !.pc = "find", !.todo = {}])
          /\ channel' = [channel EXCEPT ![w] = None]
          /\ UNCHANGED faults
       \/ Refused(w) /\ Goto(w, "read") /\ UNCHANGED <<alloc, channel>>
    /\ UNCHANGED <<sessionVars, lease, user>>

(* A wake-up, or the wait is over.                                         *)
Wake(w) ==
    /\ At(w, "wait")
    /\ channel' = [channel EXCEPT ![w] = None]
    /\ Set(w, Again(w))
    /\ UNCHANGED <<sessionVars, queueVars, lease, faults>>

----------------------------------------------------------------------------
(* allocateSessionResources.                                               *)

(* Slip: a stock session is reported like one that bears the request's name*)
OutcomeUnrouted(w, result) ==
    Set(w, [worker[w] EXCEPT !.result = result, !.pc = "get"])

(* The outcome of a stock session begins with a route to it.               *)
Outcome(w, result) ==
    LET aliased == result = "assigned" /\ worker[w].stock # None
    IN  Set(w, [worker[w] EXCEPT !.result = result,
                                 !.pc = IF aliased THEN "load" ELSE "get"])

FindStock(w) ==
    LET stock == {s \in Stock : service[s] = "stock"}
        eligible == worker[w].request \in Plain
    IN  /\ At(w, "find")
        /\ \/ /\ eligible /\ Succeeds(w)
              /\ \E s \in stock : Set(w, [worker[w] EXCEPT !.pc = "claim", !.stock = s])
           \/ /\ eligible /\ Fails(w) /\ Goto(w, "create")
           \/ /\ ~eligible \/ stock = {}
              /\ Goto(w, "create") /\ UNCHANGED faults
        /\ UNCHANGED <<sessionVars, queueVars, lease, channel>>

(* Slip: the version of the Service is not compared.                       *)
ClaimStockBlind(w) ==
    /\ At(w, "claim") /\ Succeeds(w)
    /\ service' = [service EXCEPT ![worker[w].stock] = "claiming"]
    /\ Goto(w, "adopt")
    /\ UNCHANGED <<runs, route, queueVars, lease, channel>>

(* claimStockService; who loses the race makes a new session.              *)
ClaimStock(w) ==
    LET s == worker[w].stock
    IN  /\ At(w, "claim")
        /\ \/ /\ service[s] = "stock" /\ Succeeds(w)
              /\ service' = [service EXCEPT ![s] = "claiming"]
              /\ Goto(w, "adopt")
           \/ /\ IF service[s] = "stock" THEN Fails(w) ELSE UNCHANGED faults
              /\ Set(w, [worker[w] EXCEPT !.pc = "create", !.stock = None])
              /\ UNCHANGED service
        /\ UNCHANGED <<runs, route, queueVars, lease, channel>>

(* adoptStockSession up to the provision request, with which the workload  *)
(* begins.  When the sandbox policy does not get through the stock session *)
(* is deleted, when the settings cannot be stored it stays as it is.       *)
Adopt(w) ==
    LET s == worker[w].stock
    IN  /\ At(w, "adopt")
        /\ \/ /\ Succeeds(w)
              /\ runs' = [runs EXCEPT ![s] = worker[w].request]
              /\ Goto(w, "label") /\ UNCHANGED service
           \/ /\ Fails(w) /\ Outcome(w, "error")
              /\ service' \in {service} \cup
                     IF worker[w].live THEN {[service EXCEPT ![s] = None]} ELSE {}
              /\ UNCHANGED runs
        /\ UNCHANGED <<route, queueVars, lease, channel>>

(* Not to find the Service is an error, not to change its labels is none.  *)
Label(w) ==
    LET s == worker[w].stock
    IN  /\ At(w, "label")
        /\ \/ /\ Succeeds(w) /\ Outcome(w, "assigned")
              /\ service' = [service EXCEPT ![s] = "session"]
           \/ /\ Fails(w) /\ UNCHANGED service
              /\ Outcome(w, "assigned") \/ Outcome(w, "error")
        /\ UNCHANGED <<runs, route, queueVars, lease, channel>>

(* The Service of a new session; one that exists is an error.              *)
CreateService(w) ==
    LET q == worker[w].request
    IN  /\ At(w, "create")
        /\ \/ /\ service[q] = None /\ Succeeds(w)
              /\ service' = [service EXCEPT ![q] = "session"] /\ Goto(w, "finish")
           \/ /\ IF service[q] = None THEN Fails(w) ELSE UNCHANGED faults
              /\ Outcome(w, "error") /\ UNCHANGED service
        /\ UNCHANGED <<runs, route, queueVars, lease, channel>>

(* The rest of it, or deleteSessionResources, which deletes every Secret   *)
(* of the session, the request among them.                                 *)
FinishSession(w) ==
    LET q == worker[w].request
    IN  /\ At(w, "finish")
        /\ \/ /\ Succeeds(w)
              /\ runs' = [runs EXCEPT ![q] = q]
              /\ Outcome(w, "assigned") /\ UNCHANGED <<service, alloc>>
           \/ /\ Fails(w) /\ Outcome(w, "error")
              /\ IF worker[w].live
                 THEN /\ service' = [service EXCEPT ![q] = None]
                      /\ alloc' = [alloc EXCEPT ![q] = None]
                 ELSE UNCHANGED <<service, alloc>>
              /\ UNCHANGED runs
        /\ UNCHANGED <<route, lease, channel, user>>

----------------------------------------------------------------------------
(* localAllocationClient.Complete: the route of a stock session first, ... *)

Done(w) == Set(w, Again(w))

LoadAllocation(w) ==
    /\ At(w, "load")
    /\ \/ alloc[worker[w].request] # None /\ Goto(w, "route") /\ UNCHANGED faults
       \/ alloc[worker[w].request] = None /\ Done(w) /\ UNCHANGED faults
       \/ Fault /\ Done(w)
    /\ UNCHANGED <<sessionVars, queueVars, lease, channel>>

(* Slip: the route that cannot be saved does not hold the completion up.   *)
SaveRouteIgnored(w) ==
    /\ At(w, "route")
    /\ \/ /\ route' = [route EXCEPT ![worker[w].request] = worker[w].stock]
          /\ UNCHANGED faults
       \/ Fault /\ UNCHANGED route
    /\ Goto(w, "get")
    /\ UNCHANGED <<service, runs, queueVars, lease, channel>>

SaveRoute(w) ==
    /\ At(w, "route")
    /\ \/ /\ route' = [route EXCEPT ![worker[w].request] = worker[w].stock]
          /\ Goto(w, "get") /\ UNCHANGED faults
       \/ Fault /\ Done(w) /\ UNCHANGED route
    /\ UNCHANGED <<service, runs, queueVars, lease, channel>>

(* ... then CompleteSessionAllocation reads the request, ...               *)
GetAllocation(w) ==
    /\ At(w, "get")
    /\ \/ alloc[worker[w].request] # None /\ Goto(w, "put") /\ UNCHANGED faults
       \/ alloc[worker[w].request] = None /\ Done(w) /\ UNCHANGED faults
       \/ Fault /\ Done(w)
    /\ UNCHANGED <<sessionVars, queueVars, lease, channel>>

(* ... saves its outcome, creating it again when it was deleted, ...       *)
PutAllocation(w) ==
    /\ At(w, "put")
    /\ \/ /\ alloc' = [alloc EXCEPT ![worker[w].request] = worker[w].result]
          /\ Goto(w, "notify") /\ UNCHANGED faults
       \/ Refused(w) /\ Done(w) /\ UNCHANGED alloc
    /\ UNCHANGED <<sessionVars, lease, channel, user>>

(* Slip: a request that failed is deleted like one that is served.         *)
NotifyAnyCompletion(w) ==
    /\ At(w, "notify")
    /\ Notify
    /\ Goto(w, "delete") \/ (faults' # faults /\ Done(w))
    /\ UNCHANGED <<sessionVars, queueVars, lease>>

(* ... and deletes it unless it failed, or the notification did: not every *)
(* message that is lost is one whose publication failed.                   *)
NotifyCompletion(w) ==
    /\ At(w, "notify")
    /\ Notify
    /\ \/ worker[w].result # "error" /\ Goto(w, "delete")
       \/ (worker[w].result = "error" \/ faults' # faults) /\ Done(w)
    /\ UNCHANGED <<sessionVars, queueVars, lease>>

DeleteAllocation(w) ==
    /\ At(w, "delete")
    /\ \/ alloc' = [alloc EXCEPT ![worker[w].request] = None] /\ UNCHANGED faults
       \/ Fault /\ UNCHANGED alloc
    /\ Done(w)
    /\ UNCHANGED <<sessionVars, lease, channel, user>>

(* The replica stops where it is.                                          *)
Crash(w) ==
    /\ ~At(w, "off") /\ Fault
    /\ Set(w, Off)
    /\ channel' = [channel EXCEPT ![w] = None]
    /\ UNCHANGED <<sessionVars, queueVars, lease>>

----------------------------------------------------------------------------
(* The user of a request.                                                  *)

User(q, from, to) == user[q] = from /\ user' = [user EXCEPT ![q] = to]

(* submitSessionAllocation stores the request, then tells the workers.     *)
Submit(q) ==
    /\ User(q, "new", "notify")
    /\ alloc' = [alloc EXCEPT ![q] = "pending"]
    /\ UNCHANGED <<sessionVars, lease, worker, channel, faults>>

NotifySubmitted(q) ==
    /\ User(q, "notify", "there")
    /\ Notify
    /\ UNCHANGED <<sessionVars, alloc, lease, worker>>

(* DeleteSession looks for a session, for a route, and for a request that  *)
(* has no session yet, and believes that there is nothing if all three     *)
(* fail.                                                                   *)
DeleteSession(q) ==
    /\ q \in Deletable
    /\ \/ User(q, "there", IF service[q] # None THEN "session" ELSE "look_route")
       \/ User(q, "look_route", IF route[q] # None THEN "alias" ELSE "look_alloc")
       \/ User(q, "look_alloc",
                  IF alloc[q] \in Waiting \cup {"error"} THEN "queue" ELSE "gone")
    /\ UNCHANGED <<sessionVars, alloc, lease, worker, channel, faults>>

(* DeleteSession of the manager, with every Secret.  It goes on after a    *)
(* call that fails, so an error may leave any part of the session behind.  *)
Without(f, x) == [f EXCEPT ![x] = None]

DeleteManaged(q) ==
    /\ User(q, "session", "gone")
    /\ \/ /\ service' = Without(service, q) /\ runs' = Without(runs, q)
          /\ alloc' = Without(alloc, q)
          /\ UNCHANGED faults
       \/ /\ Fault
          /\ service' \in {service, Without(service, q)}
          /\ runs' \in {runs, Without(runs, q)}
          /\ alloc' \in {alloc, Without(alloc, q)}
    /\ UNCHANGED <<route, lease, worker, channel>>

(* deleteLocalSessionAlias: the route stays if the session could not be    *)
(* deleted, and also if it cannot be deleted itself.                       *)
DeleteAlias(q) ==
    /\ User(q, "alias", "gone")
    /\ \/ /\ service' = Without(service, route[q]) /\ runs' = Without(runs, route[q])
          /\ route' = Without(route, q)
          /\ UNCHANGED faults
       \/ /\ Fault /\ UNCHANGED route
          /\ service' \in {service, Without(service, route[q])}
          /\ runs' \in {runs, Without(runs, route[q])}
    /\ UNCHANGED <<alloc, lease, worker, channel>>

(* DeletePendingSessionAllocation, also of a request a worker has taken.   *)
DeletePending(q) ==
    /\ user[q] = "queue"
    /\ IF alloc[q] \in Waiting \cup {"error"}
       THEN /\ alloc' = [alloc EXCEPT ![q] = None]
            /\ User(q, "queue", "gone") /\ Notify
       ELSE /\ User(q, "queue", IF alloc[q] = None THEN "gone" ELSE "there")
            /\ UNCHANGED <<alloc, channel, faults>>
    /\ UNCHANGED <<sessionVars, lease, worker>>

----------------------------------------------------------------------------
WorkerStep(w) ==
    \/ Lead(w)
    \/ Look(w) \/ Read(w) \/ NothingFound(w) \/ Save(w) \/ Subscribe(w) \/ Wake(w)
    \/ FindStock(w) \/ ClaimStock(w) \/ Adopt(w) \/ Label(w)
    \/ CreateService(w) \/ FinishSession(w)
    \/ LoadAllocation(w) \/ SaveRoute(w) \/ GetAllocation(w) \/ PutAllocation(w)
    \/ NotifyCompletion(w) \/ DeleteAllocation(w)

UserStep(q) ==
    \/ Submit(q) \/ NotifySubmitted(q) \/ DeleteSession(q)
    \/ DeleteManaged(q) \/ DeleteAlias(q) \/ DeletePending(q)

Next ==
    \/ LeaseExpires \/ LeaseLost
    \/ \E w \in Workers : WorkerStep(w) \/ StepDown(w) \/ Crash(w)
    \/ \E q \in Requests : UserStep(q)

Spec == Init /\ [][Next]_vars

(* Loops go on, leases of dead replicas expire, replicas ask for the       *)
(* lease, and a leader that lost it learns of it whatever its loop does:   *)
(* renewing is a thread of its own.                                        *)
Fairness ==
    /\ WF_vars(LeaseExpires)
    /\ \A w \in Workers : WF_vars(WorkerStep(w)) /\ WF_vars(StepDown(w))
FairSpec == Spec /\ Fairness

----------------------------------------------------------------------------
(* Every variable has its type.                                            *)
AllocatorTypeOK ==
    /\ alloc \in [Requests -> Waiting \cup {None, "assigned", "error"}]
    /\ service \in [Sessions -> {None, "stock", "claiming", "session"}]
    /\ runs \in [Sessions -> Requests \cup {None}]
    /\ route \in [Requests -> Stock \cup {None}]
    /\ lease \in Workers \cup {None}
    /\ worker \in [Workers -> Loop]
    /\ channel \in [Workers -> {None, "empty", "full"}]
    /\ user \in [Requests -> UserPCs]
    /\ faults \in 0 .. MaxFaults

(* A workload that works on a request is never given another one: of two   *)
(* leaders that overlap, or of a leader and the one before that has not    *)
(* noticed yet, only one gets a stock session (claimStockService).         *)
StockIsAdoptedOnce ==
    [][\A s \in Sessions : runs[s] # None => runs'[s] \in {runs[s], None}]_vars

(* A worker that sleeps although a request waits has a wake-up coming: the *)
(* order of subscribing and looking leaves no gap for a request to come in *)
(* unnoticed (NextSessionAllocation), as long as nothing fails.            *)
NoMissedWakeUp ==
    faults = 0 =>
        \A w \in Workers, q \in Requests :
            At(w, "wait") /\ channel[w] = "empty" /\ alloc[q] = "pending"
            => user[q] = "notify"

(* When a request is taken off the queue as served, its session can be     *)
(* found, under its own name or through its route, whatever crashed or     *)
(* failed on the way, unless its user deletes it meanwhile.                *)
Reachable(q) == \/ runs[q] = q
                \/ route[q] # None /\ runs[route[q]] = q
ServedIsReachable ==
    [][\A w \in Workers :
          At(w, "delete") /\ user[worker[w].request] \in {"notify", "there"}
          => Reachable(worker[w].request)]_vars

(* Only a fault makes two sessions work on one request: while leaders keep *)
(* their leases no request is carried out twice, although requests that    *)
(* were taken are offered again.                                           *)
CarriedOutOnce ==
    faults = 0 => \A q \in Requests : Cardinality({s \in Sessions : runs[s] = q}) <= 1

(* Every request is assigned, fails or is deleted: none is left in the     *)
(* queue or with a worker that died, however many wake-ups are lost.       *)
RequestEnds == \A q \in Requests : []<>(alloc[q] \notin Waiting)
=============================================================================
