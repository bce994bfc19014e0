------------------------- MODULE SessionRouteInvariant -------------------------
(***************************************************************************)
(* Why SessionRoute is safe although routes are saved blindly: the         *)
(* inductive invariant behind RouteNamesAHandoff and AcceptedIsCurrent.    *)
(***************************************************************************)
EXTENDS SessionRoute

(* A copy of the route of s that names no hand-off, or one that was, and no *)
(* deletion, or one that was queued.                                        *)
Sound(s, c) ==
  /\ c \in Route
  /\ \/ c = NoRoute
     \/ c.remote = NoRunner /\ c.generation = 1
     \/ [session |-> s, runner |-> c.remote, round |-> c.generation] \in offers
  /\ c.deletion <= Len(commands[s])

(* Stored, remembered and listed routes are sound.                          *)
RepositoryInv ==
  /\ route \in [Session -> Route]
  /\ cache \in [Replica -> [Session -> Route]]
  /\ listed \in [Replica -> [valid : BOOLEAN, routes : [Session -> Route]]]
  /\ \A s \in Session :
       /\ Sound(s, route[s])
       /\ \A p \in Replica : Sound(s, cache[p][s]) /\ Sound(s, listed[p].routes[s])

(* The steps at which a request acts for a hand-off.                        *)
ForHandoff == {"prepare", "saveClaim", "answer", "markPoll", "markPush", "repair"}

(* A request has a sound copy. It acts for a hand-off that was, a call for  *)
(* one whose runtime was started, and a push writes its status into a route *)
(* that was found.                                                          *)
Proper(q) ==
  \/ q = Idle
  \/ /\ q \in InService
     /\ Sound(q.session, q.copy)
     /\ q.pc \in ForHandoff => q.handoff \in offers /\ q.handoff.session = q.session
     /\ q.pc \in {"markPoll", "markPush"} => q.handoff \in runtimes
     /\ q.pc = "markPush" => q.copy # NoRoute

RequestInv ==
  /\ request \in [Replica -> {Idle} \cup InService]
  /\ \A p \in Replica : Proper(request[p])

ManagerInv ==
  /\ local \in [Runner -> LocalSession]
  /\ commands \in [Session -> Seq(Command)]
  /\ runtimes \subseteq offers /\ offers \subseteq Handoff
  /\ accepted \subseteq runtimes /\ fenced \subseteq runtimes

(* Session and round identify a hand-off; the present one is the last, and  *)
(* those before it have lower rounds.                                       *)
OffersInv ==
  /\ phase \in [Session -> HandoffPhase]
  /\ round \in [Session -> Nat]
  /\ holder \in [Session -> Runner \cup {NoRunner}]
  /\ \A o \in offers :
       /\ phase[o.session] # "new"
       /\ \/ phase[o.session] = "gone"
          \/ o.round < round[o.session]
          \/ phase[o.session] \in {"offered", "started"} /\ o = Offered(o.session)
  /\ \A s \in Session : phase[s] \in {"offered", "started"} => Offered(s) \in offers
  /\ \A o, q \in offers : o.session = q.session /\ o.round = q.round => o = q

(* The inductive invariant.                                                 *)
RouteInv ==
  /\ RepositoryInv
  /\ RequestInv
  /\ ManagerInv
  /\ OffersInv
  /\ AcceptedIsCurrent
=============================================================================
