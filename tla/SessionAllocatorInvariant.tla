----------------------- MODULE SessionAllocatorInvariant -----------------------
(***************************************************************************)
(* Why SessionAllocator is safe: the inductive invariant behind its        *)
(* properties.                                                             *)
(***************************************************************************)
EXTENDS SessionAllocator

(* The steps at which a loop has a request, those before and those after   *)
(* its session works, those after it adopted a stock session, and those at *)
(* which it has none.                                                      *)
Ahead == {"save", "find", "claim", "adopt", "create", "finish"}
Recording == {"label", "load", "route", "get", "put"}
Taken == Ahead \cup Recording \cup {"notify", "delete"}
Adopted == {"label", "load", "route"}
Unclaimed == {"look", "look_again", "wait", "read", "save", "find", "create", "finish"}

(* What a loop remembers at each of its steps.                             *)
LoopOK(l) ==
    /\ l \in Loop
    /\ l.pc \notin {"read", "save"} => l.todo = {}
    /\ l.pc \in Taken => l.request \in Requests
    /\ l.pc \in {"claim", "adopt"} \cup Adopted => l.stock \in Stock
    /\ l.pc \in Unclaimed => l.stock = None
    /\ l.pc \in {"load", "route", "delete"} => l.result = "assigned"

TypeInv ==
    /\ alloc \in [Requests -> Waiting \cup {None, "assigned", "error"}]
    /\ service \in [Sessions -> {None, "stock", "claiming", "session"}]
    /\ runs \in [Sessions -> Requests \cup {None}]
    /\ route \in [Requests -> Stock \cup {None}]
    /\ lease \in Workers \cup {None}
    /\ worker \in [Workers -> Loop] /\ \A w \in Workers : LoopOK(worker[w])
    /\ channel \in [Workers -> {None, "empty", "full"}]
    /\ user \in [Requests -> UserPCs]
    /\ faults \in 0 .. MaxFaults

Unserved(q) == \A s \in Sessions : runs[s] # q

(* Nothing is known of a request before it is submitted.                   *)
SubmittedInv ==
    /\ \A q \in Requests : user[q] = "new" => alloc[q] = None /\ Unserved(q)
    /\ \A w \in Workers :
           /\ \A q \in worker[w].todo : user[q] # "new"
           /\ worker[w].pc \in Taken => user[worker[w].request] # "new"

(* A session of its own works on its request only. A stock session is      *)
(* about to be adopted by one loop, which has claimed it unused.           *)
StockInv ==
    /\ \A q \in Requests : runs[q] \in {None, q}
    /\ \A s \in Stock : service[s] = "stock" => runs[s] = None
    /\ \A w \in Workers : At(w, "adopt") =>
           /\ service[worker[w].stock] # "stock" /\ runs[worker[w].stock] = None
           /\ \A v \in Workers :
                  At(v, "adopt") /\ worker[v].stock = worker[w].stock => v = w

(* A stock session that was adopted, or that a route names, works on that  *)
(* request until the user deletes it, and a loop that is about to report   *)
(* success has a session of its own or a route.                            *)
ServedInv ==
    /\ \A q \in Requests : route[q] # None => runs[route[q]] = q \/ user[q] = "gone"
    /\ \A w \in Workers :
           /\ worker[w].pc \in Adopted =>
                  \/ runs[worker[w].stock] = worker[w].request
                  \/ user[worker[w].request] = "gone"
           /\ worker[w].pc \in {"get", "put", "notify", "delete"}
                  /\ worker[w].result = "assigned" =>
                  \/ runs[worker[w].request] = worker[w].request
                  \/ route[worker[w].request] # None
                  \/ user[worker[w].request] = "gone"

(* Without faults there is one loop, which holds the lease.                *)
LeaderInv ==
    faults = 0 => \A w \in Workers : ~At(w, "off") => lease = w /\ worker[w].live

(* A subscriber has heard of what is pending, is about to be told, or is   *)
(* about to look at it.                                                    *)
WakeInv ==
    /\ \A w \in Workers :
           Subscribed(w) => worker[w].pc \in {"look_again", "read", "save", "wait"}
    /\ faults = 0 =>
           \A w \in Workers, q \in Requests :
               channel[w] = "empty" /\ alloc[q] = "pending" =>
                   \/ user[q] = "notify"
                   \/ At(w, "look_again")
                   \/ worker[w].pc \in {"read", "save"} /\ q \in worker[w].todo
                   \/ At(w, "save") /\ worker[w].request = q

(* Without faults no session works on a request that still waits, except   *)
(* while a loop records the outcome, nor on one that a loop is to work on. *)
OnceInv ==
    faults = 0 =>
        /\ \A q \in Requests : alloc[q] \in Waiting =>
               \/ Unserved(q)
               \/ \E w \in Workers : worker[w].pc \in Recording /\ worker[w].request = q
        /\ \A w \in Workers :
               /\ \A q \in worker[w].todo : Unserved(q)
               /\ worker[w].pc \in Ahead => Unserved(worker[w].request)
        /\ \A q \in Requests, s, t \in Sessions : runs[s] = q /\ runs[t] = q => s = t

(* The inductive invariant.                                                *)
AllocatorInv ==
    /\ TypeInv
    /\ SubmittedInv
    /\ StockInv
    /\ ServedInv
    /\ LeaderInv
    /\ WakeInv
    /\ OnceInv

----------------------------------------------------------------------------
(* The abstract state.                                                     *)

Asked == {q \in Requests : user[q] # "new"}
Gone == {q \in Requests : user[q] = "gone"}
Shown(stored) == IF stored \in Waiting THEN "waiting" ELSE stored
Status == [q \in Requests |-> Shown(alloc[q])]

Promised == INSTANCE SessionRequests WITH
    Nobody <- None, asked <- Asked, gone <- Gone, status <- Status,
    works <- runs, found <- route, mishaps <- faults

(* However many leaders there are and wherever they stop: seen through the *)
(* stored requests, the sessions and the routes, the queue is what         *)
(* SessionRequests promises.                                               *)
ImplementsRequests == Promised!RequestsSpec
=============================================================================
