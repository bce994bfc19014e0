--------------------------- MODULE SessionRouteProofs ---------------------------
(***************************************************************************)
(* What is known of SessionRoute for every choice of its constants: the    *)
(* invariant, and the safety properties that follow from it.               *)
(***************************************************************************)
EXTENDS SessionRouteInvariant, TLAPS

-----------------------------------------------------------------------------
(* What the record operators return. *)

LEMMA NoRouteFields ==
  /\ NoRoute \in Route /\ PendingRoute \in Route
  /\ NoRoute.generation = 0 /\ NoRoute.remote = NoRunner
  /\ NoRoute.status = "none" /\ NoRoute.deletion = 0
  /\ PendingRoute.generation = 1 /\ PendingRoute.remote = NoRunner
  /\ PendingRoute.deletion = 0
  BY DEF NoRoute, PendingRoute, Route, Status

LEMMA RouteFields ==
  ASSUME NEW c \in Route
  PROVE  /\ c.generation \in Nat /\ c.remote \in Runner \cup {NoRunner}
         /\ c.status \in Status \cup {"none"} /\ c.deletion \in Nat
  BY DEF Route

(* A change of status or deletion leaves the hand-off a route names alone.  *)
LEMMA StatusFields ==
  ASSUME NEW c \in Route, NEW st \in Status
  PROVE  /\ [c EXCEPT !.status = st] \in Route
         /\ [c EXCEPT !.status = st].generation = c.generation
         /\ [c EXCEPT !.status = st].remote = c.remote
         /\ [c EXCEPT !.status = st].deletion = c.deletion
  BY DEF Route

Deleting(c, d, st) == [c EXCEPT !.deletion = d, !.status = st]

LEMMA DeletingFields ==
  ASSUME NEW c \in Route, NEW d \in Nat, NEW st \in Status
  PROVE  /\ Deleting(c, d, st) \in Route
         /\ Deleting(c, d, st).generation = c.generation
         /\ Deleting(c, d, st).remote = c.remote
         /\ Deleting(c, d, st).deletion = d
  BY DEF Route, Deleting

LEMMA ClaimedFields ==
  ASSUME NEW c \in Route, NEW h \in Handoff
  PROVE  /\ Claimed(c, h) \in Route
         /\ Claimed(c, h).remote = h.runner /\ Claimed(c, h).generation = h.round
         /\ Claimed(c, h).deletion = c.deletion
         /\ Repaired(c, h) \in Route
         /\ Repaired(c, h).remote = h.runner /\ Repaired(c, h).generation = h.round
         /\ Repaired(c, h).deletion = c.deletion
  BY DEF Claimed, Repaired, Route, Handoff, Status

LEMMA ServingFields ==
  ASSUME NEW pc, NEW s, NEW c, NEW h, NEW rs
  PROVE  /\ Serving(pc, s, c, h, rs).pc = pc
         /\ Serving(pc, s, c, h, rs).session = s
         /\ Serving(pc, s, c, h, rs).copy = c
         /\ Serving(pc, s, c, h, rs).handoff = h
         /\ Serving(pc, s, c, h, rs).runners = rs
  BY DEF Serving

LEMMA ServingType ==
  ASSUME NEW pc \in Pc \ {"idle"}, NEW s \in Session, NEW c \in Route,
         NEW h \in [session : Session, runner : Runner \cup {NoRunner}, round : Nat],
         NEW rs \in SUBSET Runner
  PROVE  Serving(pc, s, c, h, rs) \in InService
  BY DEF Serving, InService

LEMMA HandoffFields ==
  /\ \A h \in Handoff :
       /\ h.session \in Session /\ h.runner \in Runner /\ h.round \in Nat
       /\ h \in [session : Session, runner : Runner \cup {NoRunner}, round : Nat]
  /\ \A s \in Session :
       NoHandoff(s) \in [session : Session, runner : Runner \cup {NoRunner}, round : Nat]
  BY DEF Handoff, NoHandoff

LEMMA InServiceFields ==
  ASSUME NEW q \in InService
  PROVE  /\ q.pc \in Pc \ {"idle"} /\ q.session \in Session /\ q.copy \in Route
         /\ q.handoff \in [session : Session, runner : Runner \cup {NoRunner}, round : Nat]
         /\ q.runners \in SUBSET Runner
         /\ q # Idle /\ Idle.pc = "idle"
  BY DEF InService, Idle

LEMMA AfterSaveFields ==
  /\ DOMAIN AfterSave = {"savePending", "saveClaim", "saveStatus", "saveDeletion",
                         "saveFailed", "saveTerminated", "saveReported", "saveRepaired"}
  /\ \A pc \in DOMAIN AfterSave :
       AfterSave[pc] \in {"idle", "answer", "forget", "orphans", "respond"}
  /\ AfterSave["saveClaim"] = "answer"
  /\ \A pc \in DOMAIN AfterSave : AfterSave[pc] = "answer" => pc = "saveClaim"
  BY DEF AfterSave

LEMMA PcFacts ==
  Pc = {"savePending", "saveClaim", "saveStatus", "saveDeletion",
        "saveFailed", "saveTerminated", "saveReported", "saveRepaired",
        "idle", "prepare", "answer", "markPoll", "markPush", "forget",
        "forgetPending", "cleanup", "orphans", "allocations", "repair", "respond"}
  BY AfterSaveFields DEF Pc

-----------------------------------------------------------------------------
(* Soundness only grows: hand-offs and deletion commands are never forgotten. *)

Grows ==
  /\ offers \subseteq offers'
  /\ \A s \in Session : Len(commands[s]) <= Len(commands'[s])

LEMMA GrowsUnchanged ==
  ASSUME ManagerInv, UNCHANGED <<offers, commands>>
  PROVE  Grows
<1>1. \A s \in Session : Len(commands[s]) \in Nat
  BY DEF ManagerInv
<1> QED
  BY <1>1 DEF Grows

LEMMA SoundGrows ==
  ASSUME ManagerInv, Grows, NEW s \in Session, NEW c, Sound(s, c)
  PROVE  Sound(s, c)'
<1>1. Len(commands[s]) \in Nat /\ Len(commands[s]) <= Len(commands'[s]) /\ offers \subseteq offers'
  BY DEF ManagerInv, Grows
<1>2. c \in Route /\ c.deletion \in Nat /\ c.deletion <= Len(commands[s])
  BY RouteFields DEF Sound
<1> QED
  BY <1>1, <1>2 DEF Sound

LEMMA NoRouteSound ==
  ASSUME ManagerInv, NEW s \in Session
  PROVE  Sound(s, NoRoute)
  BY NoRouteFields DEF ManagerInv, Sound

LEMMA ProperGrows ==
  ASSUME ManagerInv, Grows, runtimes \subseteq runtimes', NEW q, Proper(q)
  PROVE  Proper(q)'
<1>1. CASE q = Idle
  BY <1>1 DEF Proper
<1>2. CASE q # Idle
  <2>1. q.session \in Session /\ Sound(q.session, q.copy)
    BY <1>2, InServiceFields DEF Proper
  <2>2. Sound(q.session, q.copy)'
    BY <2>1, SoundGrows
  <2> QED
    BY <1>2, <2>2 DEF Proper, Grows
<1> QED
  BY <1>1, <1>2

-----------------------------------------------------------------------------
(* What the operations of the repository do to the copies it keeps. *)

LEMMA GotSound ==
  ASSUME RepositoryInv, NEW p \in Replica, NEW s \in Session
  PROVE  Sound(s, Got(p, s)) /\ Got(p, s) \in Route
  BY DEF RepositoryInv, Got, Sound

LEMMA ListingSound ==
  ASSUME RepositoryInv, NEW p \in Replica, NEW s \in Session
  PROVE  /\ Sound(s, Listing(p)[s]) /\ Listing(p)[s] \in Route
         /\ Listing(p) \in [Session -> Route]
         /\ Sound(s, route[s]) /\ route[s] \in Route
  BY DEF RepositoryInv, Listing, Sound

LEMMA NotListedFields ==
  /\ NotListed \in [valid : BOOLEAN, routes : [Session -> Route]]
  /\ \A s \in Session : NotListed.routes[s] = NoRoute
  BY NoRouteFields DEF NotListed

(* It is enough that everything new was sound before the step.              *)
LEMMA RepositoryStep ==
  ASSUME ManagerInv, Grows,
         route' \in [Session -> Route],
         cache' \in [Replica -> [Session -> Route]],
         listed' \in [Replica -> [valid : BOOLEAN, routes : [Session -> Route]]],
         \A s \in Session :
           /\ Sound(s, route'[s])
           /\ \A p \in Replica : Sound(s, cache'[p][s]) /\ Sound(s, listed'[p].routes[s])
  PROVE  RepositoryInv'
<1>1. ASSUME NEW s \in Session PROVE Sound(s, route[s])'
  <2>1. ASSUME NEW c, c = route'[s] PROVE Sound(s, c)'
    BY <2>1, SoundGrows
  <2> QED
    BY <2>1 DEF Sound
<1>2. ASSUME NEW s \in Session, NEW p \in Replica
      PROVE  Sound(s, cache[p][s])' /\ Sound(s, listed[p].routes[s])'
  <2>1. ASSUME NEW c, c = cache'[p][s] PROVE Sound(s, c)'
    BY <2>1, SoundGrows
  <2>2. ASSUME NEW c, c = listed'[p].routes[s] PROVE Sound(s, c)'
    BY <2>2, SoundGrows
  <2> QED
    BY <2>1, <2>2 DEF Sound
<1> QED
  BY <1>1, <1>2 DEF RepositoryInv

LEMMA RepositoryUnchanged ==
  ASSUME ManagerInv, Grows, RepositoryInv, UNCHANGED routeVars
  PROVE  RepositoryInv'
<1>1. /\ route' \in [Session -> Route]
      /\ cache' \in [Replica -> [Session -> Route]]
      /\ listed' \in [Replica -> [valid : BOOLEAN, routes : [Session -> Route]]]
      /\ \A s \in Session :
           /\ Sound(s, route'[s])
           /\ \A p \in Replica : Sound(s, cache'[p][s]) /\ Sound(s, listed'[p].routes[s])
  BY DEF RepositoryInv, routeVars
<1> QED
  BY <1>1, RepositoryStep

LEMMA GetKeeps ==
  ASSUME ManagerInv, Grows, RepositoryInv, NEW p \in Replica, NEW s \in Session, Get(p, s)
  PROVE  RepositoryInv'
<1>1. Sound(s, Got(p, s)) /\ Got(p, s) \in Route
  BY GotSound
<1>2. \A t \in Session : Sound(t, NoRoute)
  BY NoRouteSound
<1>3. route' = route /\ cache' = [cache EXCEPT ![p][s] = Got(p, s)]
      /\ (listed' = listed \/ listed' = [listed EXCEPT ![p] = NotListed])
  BY DEF Get
<1>4. /\ route' \in [Session -> Route]
      /\ cache' \in [Replica -> [Session -> Route]]
      /\ \A t \in Session :
           Sound(t, route'[t]) /\ \A r \in Replica : Sound(t, cache'[r][t])
  BY <1>1, <1>3 DEF RepositoryInv
<1>5. /\ listed' \in [Replica -> [valid : BOOLEAN, routes : [Session -> Route]]]
      /\ \A t \in Session, r \in Replica : Sound(t, listed'[r].routes[t])
  BY <1>2, <1>3, NotListedFields DEF RepositoryInv
<1> QED
  BY <1>4, <1>5, RepositoryStep

LEMMA ListKeeps ==
  ASSUME ManagerInv, Grows, RepositoryInv, NEW p \in Replica, List(p)
  PROVE  RepositoryInv'
<1>1. /\ \A s \in Session : Sound(s, Listing(p)[s])
      /\ Listing(p) \in [Session -> Route]
  BY ListingSound DEF RepositoryInv, Listing
<1>2. /\ listed' \in [Replica -> [valid : BOOLEAN, routes : [Session -> Route]]]
      /\ \A t \in Session, r \in Replica : Sound(t, listed'[r].routes[t])
  BY <1>1 DEF RepositoryInv, List
<1>3. route' = route /\ cache' = cache
  BY DEF List
<1> QED
  BY <1>2, <1>3, RepositoryStep DEF RepositoryInv

LEMMA SaveKeeps ==
  ASSUME ManagerInv, Grows, RepositoryInv, NEW p \in Replica, NEW s \in Session,
         NEW c, Sound(s, c), Save(p, s, c)
  PROVE  RepositoryInv'
<1>1. \A t \in Session : Sound(t, NoRoute)
  BY NoRouteSound
<1>2. c \in Route
  BY DEF Sound
<1>3. /\ route' \in [Session -> Route]
      /\ cache' \in [Replica -> [Session -> Route]]
      /\ \A t \in Session :
           Sound(t, route'[t]) /\ \A r \in Replica : Sound(t, cache'[r][t])
  BY <1>2 DEF RepositoryInv, Save
<1>4. /\ listed' \in [Replica -> [valid : BOOLEAN, routes : [Session -> Route]]]
      /\ \A t \in Session, r \in Replica : Sound(t, listed'[r].routes[t])
  BY <1>1, NotListedFields DEF RepositoryInv, Save
<1> QED
  BY <1>3, <1>4, RepositoryStep

(* An entry of either cache is dropped.                                     *)
LEMMA ForgettingKeeps ==
  ASSUME ManagerInv, Grows, RepositoryInv, NEW p \in Replica, NEW s \in Session,
         route' = route,
         cache' = cache \/ cache' = [cache EXCEPT ![p][s] = NoRoute],
         listed' = listed \/ listed' = [listed EXCEPT ![p] = NotListed]
  PROVE  RepositoryInv'
<1>1. \A t \in Session : Sound(t, NoRoute)
  BY NoRouteSound
<1>2. /\ cache' \in [Replica -> [Session -> Route]]
      /\ \A t \in Session, r \in Replica : Sound(t, cache'[r][t])
  <2>1. CASE cache' = cache
    BY <2>1 DEF RepositoryInv
  <2>2. CASE cache' = [cache EXCEPT ![p][s] = NoRoute]
    BY <1>1, <2>2, NoRouteFields DEF RepositoryInv
  <2> QED
    BY <2>1, <2>2
<1>3. /\ listed' \in [Replica -> [valid : BOOLEAN, routes : [Session -> Route]]]
      /\ \A t \in Session, r \in Replica : Sound(t, listed'[r].routes[t])
  BY <1>1, NotListedFields DEF RepositoryInv
<1> QED
  BY <1>2, <1>3, RepositoryStep DEF RepositoryInv

-----------------------------------------------------------------------------
(* What a step does to the request it serves, and to the rest. *)

LEMMA RequestStep ==
  ASSUME RequestInv, ManagerInv, Grows, runtimes \subseteq runtimes',
         NEW p \in Replica, NEW q, Proper(q) \/ Proper(q)',
         request' = [request EXCEPT ![p] = q]
  PROVE  RequestInv'
<1>1. Proper(q)'
  BY ProperGrows
<1>2. q \in {Idle} \cup InService
  BY <1>1 DEF Proper
<1>3. request' \in [Replica -> {Idle} \cup InService]
  BY <1>2 DEF RequestInv
<1>4. ASSUME NEW o \in Replica PROVE Proper(request[o])'
  <2>1. CASE o = p
    BY <1>1, <2>1 DEF RequestInv, Proper
  <2>2. CASE o # p
    <3>1. \A r : r = request[o] => Proper(r)'
      BY ProperGrows DEF RequestInv
    <3>2. request'[o] = request[o]
      BY <2>2 DEF RequestInv
    <3> QED
      BY <3>1, <3>2 DEF Proper
  <2> QED
    BY <2>1, <2>2
<1> QED
  BY <1>3, <1>4 DEF RequestInv

LEMMA RequestUnchanged ==
  ASSUME RequestInv, ManagerInv, Grows, runtimes \subseteq runtimes', UNCHANGED request
  PROVE  RequestInv'
<1>1. ASSUME NEW o \in Replica PROVE Proper(request[o])'
  <2>1. \A r : r = request[o] => Proper(r)'
    BY ProperGrows DEF RequestInv
  <2> QED
    BY <2>1 DEF Proper
<1> QED
  BY <1>1 DEF RequestInv

LEMMA IdleProper == Proper(Idle)
  BY DEF Proper

LEMMA FinishKeeps ==
  ASSUME RequestInv, ManagerInv, Grows, runtimes \subseteq runtimes',
         NEW p \in Replica, Finish(p)
  PROVE  RequestInv'
  BY IdleProper, RequestStep DEF Finish

(* A request in service with a sound copy is proper at a step that acts for *)
(* no hand-off.                                                             *)
LEMMA AboutProper ==
  ASSUME NEW pc \in Pc \ ({"idle"} \cup ForHandoff), NEW s \in Session, NEW c, Sound(s, c),
         NEW h \in [session : Session, runner : Runner \cup {NoRunner}, round : Nat],
         NEW rs \in SUBSET Runner
  PROVE  Proper(Serving(pc, s, c, h, rs))
<1>1. c \in Route
  BY DEF Sound
<1>2. Serving(pc, s, c, h, rs) \in InService
  BY <1>1, ServingType
<1> QED
  BY <1>2, ServingFields DEF Proper, ForHandoff

LEMMA AdvanceKeeps ==
  ASSUME RequestInv, ManagerInv, Grows, runtimes \subseteq runtimes',
         NEW p \in Replica, NEW pc \in Pc \ {"idle"}, Advance(p, pc),
         request[p] # Idle,
         pc \in ForHandoff => pc = "answer" /\ request[p].pc \in ForHandoff
  PROVE  RequestInv'
<1> DEFINE q == [request[p] EXCEPT !.pc = pc, !.copy = NoRoute]
<1>1. request[p] \in InService /\ Proper(request[p])
  BY DEF RequestInv
<1>2. /\ q \in InService /\ q.pc = pc /\ q.copy = NoRoute
      /\ q.session = request[p].session /\ q.handoff = request[p].handoff
  BY <1>1, NoRouteFields DEF InService
<1>3. Sound(q.session, q.copy)
  BY <1>1, <1>2, NoRouteSound, InServiceFields
<1>4. q.pc \in ForHandoff => q.handoff \in offers /\ q.handoff.session = q.session
  BY <1>1, <1>2, InServiceFields DEF Proper
<1>5. Proper(q)
  <2>1. q.pc \notin {"markPoll", "markPush"}
    BY <1>2 DEF ForHandoff
  <2> QED
    BY <1>2, <1>3, <1>4, <2>1 DEF Proper
<1>6. request' = [request EXCEPT ![p] = q]
  BY DEF Advance, RequestInv
<1> HIDE DEF q
<1> QED
  BY <1>5, <1>6, RequestStep

LEMMA OffersUnchanged ==
  ASSUME OffersInv, AcceptedIsCurrent, UNCHANGED <<handoffVars, offers, accepted>>
  PROVE  OffersInv' /\ AcceptedIsCurrent'
  BY DEF OffersInv, AcceptedIsCurrent, handoffVars, Offered

(* Steps that concern routes and requests only.                             *)
Quiet == UNCHANGED <<handoffVars, managerVars, historyVars>>

LEMMA QuietKeeps ==
  ASSUME RouteInv, Quiet
  PROVE  /\ Grows /\ runtimes \subseteq runtimes'
         /\ ManagerInv' /\ OffersInv' /\ AcceptedIsCurrent'
<1>1. UNCHANGED <<handoffVars, offers, accepted, commands, runtimes, local, fenced>>
  BY DEF Quiet, managerVars, historyVars
<1>2. Grows
  BY <1>1, GrowsUnchanged DEF RouteInv
<1>3. ManagerInv'
  BY <1>1 DEF RouteInv, ManagerInv
<1> QED
  BY <1>1, <1>2, <1>3, OffersUnchanged DEF RouteInv

-----------------------------------------------------------------------------
(* The steps that concern routes and requests only. *)

LEMMA SaveRouteStep ==
  ASSUME RouteInv, NEW p \in Replica, SaveRoute(p)
  PROVE  RouteInv'
<1> DEFINE q == request[p]
<1>1. Quiet
  BY DEF SaveRoute, Quiet
<1>2. q \in InService /\ Sound(q.session, q.copy) /\ q.session \in Session
  <2>1. q.pc # "idle"
    BY AfterSaveFields DEF SaveRoute
  <2> QED
    BY <2>1, InServiceFields DEF RouteInv, RequestInv, Proper, Idle
<1>3. RepositoryInv'
  BY <1>1, <1>2, QuietKeeps, SaveKeeps DEF SaveRoute, RouteInv
<1>4. RequestInv'
  <2>1. CASE Finish(p)
    BY <1>1, <2>1, QuietKeeps, FinishKeeps DEF RouteInv
  <2>2. CASE Advance(p, AfterSave[q.pc]) /\ AfterSave[q.pc] # "idle"
    <3>1. /\ AfterSave[q.pc] \in Pc \ {"idle"}
          /\ AfterSave[q.pc] \in ForHandoff => AfterSave[q.pc] = "answer" /\ q.pc \in ForHandoff
      BY <2>2, AfterSaveFields, PcFacts DEF SaveRoute, ForHandoff
    <3> QED
      BY <1>1, <1>2, <2>2, <3>1, QuietKeeps, AdvanceKeeps, InServiceFields DEF RouteInv
  <2> QED
    BY <2>1, <2>2 DEF SaveRoute
<1> QED
  BY <1>1, <1>3, <1>4, QuietKeeps DEF RouteInv

LEMMA RequestLostStep ==
  ASSUME RouteInv, NEW p \in Replica, RequestLost(p)
  PROVE  RouteInv'
<1>1. Quiet /\ UNCHANGED routeVars /\ Finish(p)
  BY DEF RequestLost, Quiet
<1> QED
  BY <1>1, QuietKeeps, RepositoryUnchanged, FinishKeeps DEF RouteInv

LEMMA CacheExpiresStep ==
  ASSUME RouteInv, NEW p \in Replica, NEW s \in Session, CacheExpires(p, s)
  PROVE  RouteInv'
<1>1. /\ Quiet /\ UNCHANGED request /\ route' = route /\ listed' = listed
      /\ cache' = [cache EXCEPT ![p][s] = NoRoute]
  BY DEF CacheExpires, Quiet
<1> QED
  BY <1>1, QuietKeeps, ForgettingKeeps, RequestUnchanged DEF RouteInv

LEMMA ListExpiresStep ==
  ASSUME RouteInv, NEW p \in Replica, ListExpires(p)
  PROVE  RouteInv'
<1>1. /\ Quiet /\ UNCHANGED request /\ route' = route /\ cache' = cache
      /\ listed' = [listed EXCEPT ![p] = NotListed]
  BY DEF ListExpires, Quiet
<1>2. RepositoryInv'
  <2>1. CASE Session = {}
    <3>1. listed' \in [Replica -> [valid : BOOLEAN, routes : [Session -> Route]]]
      BY <1>1, NotListedFields DEF RouteInv, RepositoryInv
    <3> QED
      BY <1>1, <2>1, <3>1 DEF RouteInv, RepositoryInv
  <2>2. CASE Session # {}
    BY <1>1, <2>2, QuietKeeps, ForgettingKeeps DEF RouteInv
  <2> QED
    BY <2>1, <2>2
<1> QED
  BY <1>1, <1>2, QuietKeeps, RequestUnchanged DEF RouteInv

LEMMA PrepareClaimRouteStep ==
  ASSUME RouteInv, NEW p \in Replica, PrepareClaimRoute(p)
  PROVE  RouteInv'
<1> DEFINE q == request[p]
           found == Got(p, q.session)
<1>1. Quiet /\ Get(p, q.session)
  BY DEF PrepareClaimRoute, Quiet
<1>2. /\ q \in InService /\ Proper(q) /\ q.pc = "prepare" /\ q.session \in Session
      /\ q.handoff \in offers /\ q.handoff \in Handoff /\ q.handoff.session = q.session
  BY InServiceFields DEF PrepareClaimRoute, RouteInv, RequestInv, Proper, Idle, ForHandoff, ManagerInv
<1>3. RepositoryInv'
  BY <1>1, <1>2, QuietKeeps, GetKeeps DEF RouteInv
<1>4. CASE found = NoRoute
  <2>1. Proper([q EXCEPT !.pc = "answer"])
    <3>1. [q EXCEPT !.pc = "answer"] \in InService
      BY <1>2, PcFacts DEF InService
    <3>2. /\ [q EXCEPT !.pc = "answer"].pc = "answer"
          /\ [q EXCEPT !.pc = "answer"].session = q.session
          /\ [q EXCEPT !.pc = "answer"].copy = q.copy
          /\ [q EXCEPT !.pc = "answer"].handoff = q.handoff
      BY <1>2 DEF InService
    <3> QED
      BY <1>2, <3>1, <3>2, InServiceFields DEF Proper
  <2>2. request' = [request EXCEPT ![p] = [q EXCEPT !.pc = "answer"]]
    BY <1>4 DEF PrepareClaimRoute
  <2>3. RequestInv'
    BY <1>1, <2>1, <2>2, QuietKeeps, RequestStep DEF RouteInv
  <2> QED
    BY <1>1, <1>3, <2>3, QuietKeeps DEF RouteInv
<1>5. CASE found # NoRoute
  <2> DEFINE c == Claimed(found, q.handoff)
             n == [q EXCEPT !.pc = "saveClaim", !.copy = c]
  <2>1. Sound(q.session, c)
    <3>1. found \in Route /\ Sound(q.session, found)
      BY <1>2, GotSound DEF RouteInv
    <3>2. /\ c \in Route /\ c.remote = q.handoff.runner /\ c.generation = q.handoff.round
          /\ c.deletion = found.deletion
      BY <1>2, <3>1, ClaimedFields
    <3>3. q.handoff = [session |-> q.session, runner |-> c.remote, round |-> c.generation]
      BY <1>2, <3>2 DEF Handoff
    <3> HIDE DEF c
    <3> QED
      BY <1>2, <3>1, <3>2, <3>3 DEF Sound
  <2>2. /\ n \in InService /\ n.pc = "saveClaim" /\ n.copy = c
        /\ n.session = q.session /\ n.handoff = q.handoff
    <3>1. c \in Route
      BY <2>1 DEF Sound
    <3> HIDE DEF c
    <3> QED
      BY <1>2, <3>1, PcFacts DEF InService
  <2>3. request' = [request EXCEPT ![p] = n]
    BY <1>5 DEF PrepareClaimRoute
  <2>4. Proper(n)
    <3> HIDE DEF n, c
    <3> QED
      BY <1>2, <2>1, <2>2, InServiceFields DEF Proper
  <2>5. RequestInv'
    <3> HIDE DEF n
    <3> QED
      BY <1>1, <2>3, <2>4, QuietKeeps, RequestStep DEF RouteInv
  <2> QED
    BY <1>1, <1>3, <2>5, QuietKeeps DEF RouteInv
<1> QED
  BY <1>4, <1>5

LEMMA RepairRouteStep ==
  ASSUME RouteInv, NEW p \in Replica, RepairRoute(p)
  PROVE  RouteInv'
<1> DEFINE q == request[p]
           found == Got(p, q.session)
           c == Repaired(found, q.handoff)
           m == [q EXCEPT !.pc = "saveRepaired", !.copy = c, !.handoff = NoHandoff(q.session)]
           n == [q EXCEPT !.pc = "respond", !.handoff = NoHandoff(q.session)]
<1>1. Quiet /\ Get(p, q.session)
  BY DEF RepairRoute, Quiet
<1>2. /\ q \in InService /\ Proper(q) /\ q.session \in Session /\ Sound(q.session, q.copy)
      /\ q.handoff \in offers /\ q.handoff \in Handoff /\ q.handoff.session = q.session
  BY InServiceFields DEF RepairRoute, RouteInv, RequestInv, Proper, Idle, ForHandoff, ManagerInv
<1>3. RepositoryInv'
  BY <1>1, <1>2, QuietKeeps, GetKeeps DEF RouteInv
<1>4. Sound(q.session, c)
  <2>1. found \in Route /\ Sound(q.session, found)
    BY <1>2, GotSound DEF RouteInv
  <2>2. /\ c \in Route /\ c.remote = q.handoff.runner /\ c.generation = q.handoff.round
        /\ c.deletion = found.deletion
    BY <1>2, <2>1, ClaimedFields
  <2>3. q.handoff = [session |-> q.session, runner |-> c.remote, round |-> c.generation]
    BY <1>2, <2>2 DEF Handoff
  <2> HIDE DEF c
  <2> QED
    BY <1>2, <2>1, <2>2, <2>3 DEF Sound
<1>5. /\ m \in InService /\ m.pc = "saveRepaired" /\ m.copy = c /\ m.session = q.session
      /\ n \in InService /\ n.pc = "respond" /\ n.copy = q.copy /\ n.session = q.session
  <2>1. c \in Route
    BY <1>4 DEF Sound
  <2>2. NoHandoff(q.session) \in [session : Session, runner : Runner \cup {NoRunner}, round : Nat]
    BY <1>2, HandoffFields
  <2> HIDE DEF c
  <2> QED
    BY <1>2, <2>1, <2>2, PcFacts DEF InService
<1>6. request' = [request EXCEPT ![p] = m] \/ request' = [request EXCEPT ![p] = n]
  BY DEF RepairRoute
<1>7. Proper(m) /\ Proper(n)
  <2> HIDE DEF m, n, c
  <2> QED
    BY <1>2, <1>4, <1>5 DEF Proper, ForHandoff
<1>8. RequestInv'
  <2> HIDE DEF m, n
  <2> QED
    BY <1>1, <1>6, <1>7, QuietKeeps, RequestStep DEF RouteInv
<1> QED
  BY <1>1, <1>3, <1>8, QuietKeeps DEF RouteInv

(* What is done about a queued deletion leaves a sound copy.                *)
LEMMA ReconcileProper ==
  ASSUME ManagerInv, NEW s \in Session, NEW c, Sound(s, c)
  PROVE  Proper(ReconcileQueuedDeletion(s, c))
<1> DEFINE nobody == NoHandoff(s)
<1>1. /\ c \in Route /\ c.deletion \in Nat
      /\ nobody \in [session : Session, runner : Runner \cup {NoRunner}, round : Nat]
  BY RouteFields, HandoffFields DEF Sound
<1>2. c.deletion # 0 =>
        /\ c # NoRoute
        /\ Sound(s, [c EXCEPT !.deletion = 0, !.status = "delete_failed"])
        /\ Sound(s, [c EXCEPT !.status = "terminated"])
  <2>1. Len(commands[s]) \in Nat
    BY DEF ManagerInv
  <2>2. c.deletion # 0 => c # NoRoute
    BY NoRouteFields
  <2>3. "delete_failed" \in Status /\ "terminated" \in Status /\ 0 \in Nat
    BY DEF Status
  <2> DEFINE failed == Deleting(c, 0, "delete_failed")
             terminated == [c EXCEPT !.status = "terminated"]
  <2>4. /\ failed \in Route /\ failed.remote = c.remote
        /\ failed.generation = c.generation /\ failed.deletion = 0
    BY <1>1, <2>3, DeletingFields
  <2>5. /\ terminated \in Route /\ terminated.remote = c.remote
        /\ terminated.generation = c.generation /\ terminated.deletion = c.deletion
    BY <1>1, <2>3, StatusFields
  <2> HIDE DEF failed, terminated
  <2>6. c # NoRoute => Sound(s, failed) /\ Sound(s, terminated)
    BY <2>1, <2>4, <2>5 DEF Sound
  <2>7. failed = [c EXCEPT !.deletion = 0, !.status = "delete_failed"]
    BY DEF failed, Deleting
  <2> QED
    BY <2>2, <2>6, <2>7 DEF terminated
<1>3. {"saveFailed", "saveTerminated", "forget"} \subseteq Pc \ ({"idle"} \cup ForHandoff)
  BY PcFacts DEF ForHandoff
<1>4. /\ Proper(About("forget", s, NoRoute))
      /\ c.deletion # 0 =>
           /\ Proper(About("saveFailed", s, [c EXCEPT !.deletion = 0, !.status = "delete_failed"]))
           /\ Proper(About("saveTerminated", s, [c EXCEPT !.status = "terminated"]))
  BY <1>1, <1>2, <1>3, NoRouteSound, AboutProper DEF About
<1> DEFINE result == IF c.deletion = 0 THEN "none" ELSE commands[s][c.deletion].result
<1>5. c.deletion = 0 => result \in {"none", "queued"}
  OBVIOUS
<1>6. ReconcileQueuedDeletion(s, c) \in
        {Idle, About("forget", s, NoRoute)} \cup
        (IF c.deletion = 0 THEN {}
         ELSE {About("saveFailed", s, [c EXCEPT !.deletion = 0, !.status = "delete_failed"]),
               About("saveTerminated", s, [c EXCEPT !.status = "terminated"])})
  <2> DEFINE a == About("saveFailed", s, [c EXCEPT !.deletion = 0, !.status = "delete_failed"])
             b == About("saveTerminated", s, [c EXCEPT !.status = "terminated"])
             f == About("forget", s, NoRoute)
             done == result = "done" /\ c.status # "terminated"
  <2>1. ReconcileQueuedDeletion(s, c) =
          CASE result \in {"none", "queued"} -> Idle
            [] result = "failed" -> a
            [] done -> b
            [] OTHER -> f
    BY DEF ReconcileQueuedDeletion
  <2> HIDE DEF a, b, f
  <2>2. (CASE result \in {"none", "queued"} -> Idle
           [] result = "failed" -> a
           [] done -> b
           [] OTHER -> f) \in {Idle, f} \cup (IF c.deletion = 0 THEN {} ELSE {a, b})
    OBVIOUS
  <2> QED
    BY <2>1, <2>2 DEF a, b, f
<1> QED
  BY <1>4, <1>6, IdleProper

LEMMA DeleteSessionLocallyStep ==
  ASSUME RouteInv, NEW p \in Replica, NEW s \in Session, DeleteSessionLocally(p, s)
  PROVE  RouteInv'
<1>1. Quiet /\ Get(p, s)
  BY DEF DeleteSessionLocally, Quiet
<1>2. RepositoryInv'
  BY <1>1, QuietKeeps, GetKeeps DEF RouteInv
<1>3. PICK pc \in {"forgetPending", "forget"} :
        request' = [request EXCEPT ![p] = About(pc, s, NoRoute)]
  BY DEF DeleteSessionLocally
<1>4. pc \in Pc \ ({"idle"} \cup ForHandoff)
  BY PcFacts DEF ForHandoff
<1>5. Proper(About(pc, s, NoRoute))
  BY <1>4, NoRouteSound, AboutProper, HandoffFields DEF About, RouteInv
<1>6. RequestInv'
  BY <1>1, <1>3, <1>5, QuietKeeps, RequestStep DEF RouteInv
<1> QED
  BY <1>1, <1>2, <1>6, QuietKeeps DEF RouteInv

LEMMA DeleteSessionAgainStep ==
  ASSUME RouteInv, NEW p \in Replica, NEW s \in Session, DeleteSessionAgain(p, s)
  PROVE  RouteInv'
<1>1. /\ Quiet /\ Get(p, s)
      /\ request' = [request EXCEPT ![p] = ReconcileQueuedDeletion(s, Got(p, s))]
  BY DEF DeleteSessionAgain, Quiet
<1>2. RepositoryInv'
  BY <1>1, QuietKeeps, GetKeeps DEF RouteInv
<1>3. Proper(ReconcileQueuedDeletion(s, Got(p, s)))
  BY GotSound, ReconcileProper DEF RouteInv
<1>4. RequestInv'
  BY <1>1, <1>3, QuietKeeps, RequestStep DEF RouteInv
<1> QED
  BY <1>1, <1>2, <1>4, QuietKeeps DEF RouteInv

LEMMA SearchSessionsStep ==
  ASSUME RouteInv, NEW p \in Replica, NEW s \in Session, SearchSessions(p, s)
  PROVE  RouteInv'
<1>1. Quiet /\ (List(p) \/ UNCHANGED routeVars)
  BY DEF SearchSessions, Quiet
<1>2. RepositoryInv'
  BY <1>1, QuietKeeps, ListKeeps, RepositoryUnchanged DEF RouteInv
<1>3. PICK c \in {Listing(p)[s], route[s]} :
        request' = [request EXCEPT ![p] = ReconcileQueuedDeletion(s, c)]
  BY DEF SearchSessions
<1>4. Proper(ReconcileQueuedDeletion(s, c))
  BY ListingSound, ReconcileProper DEF RouteInv
<1>5. RequestInv'
  BY <1>1, <1>3, <1>4, QuietKeeps, RequestStep DEF RouteInv
<1> QED
  BY <1>1, <1>2, <1>5, QuietKeeps DEF RouteInv

LEMMA ReconcileSessionRoutesStep ==
  ASSUME RouteInv, NEW p \in Replica, NEW s \in Session, ReconcileSessionRoutes(p, s)
  PROVE  RouteInv'
<1>1. /\ Quiet /\ List(p)
      /\ request' = [request EXCEPT ![p] = About("forget", s, NoRoute)]
  BY DEF ReconcileSessionRoutes, Quiet
<1>2. RepositoryInv'
  BY <1>1, QuietKeeps, ListKeeps DEF RouteInv
<1>3. "forget" \in Pc \ ({"idle"} \cup ForHandoff)
  BY PcFacts DEF ForHandoff
<1>4. Proper(About("forget", s, NoRoute))
  BY <1>3, NoRouteSound, AboutProper, HandoffFields DEF About, RouteInv
<1>5. RequestInv'
  BY <1>1, <1>4, QuietKeeps, RequestStep DEF RouteInv
<1> QED
  BY <1>1, <1>2, <1>5, QuietKeeps DEF RouteInv

LEMMA ForgetRouteStep ==
  ASSUME RouteInv, NEW p \in Replica, ForgetRoute(p) \/ ForgetFailed(p)
  PROVE  RouteInv'
<1> DEFINE s == request[p].session
<1>1. /\ Quiet /\ Advance(p, "cleanup")
      /\ request[p].pc \in {"forget", "forgetPending"}
  BY DEF ForgetRoute, ForgetFailed, Quiet
<1>2. request[p] # Idle /\ s \in Session
  BY <1>1, InServiceFields DEF RouteInv, RequestInv, Idle
<1>3. RepositoryInv'
  <2>1. CASE ForgetRoute(p)
    BY <1>1, <1>2, <2>1, QuietKeeps, NoRouteSound, SaveKeeps DEF ForgetRoute, Delete, RouteInv
  <2>2. CASE ForgetFailed(p)
    BY <1>1, <1>2, <2>2, QuietKeeps, ForgettingKeeps DEF ForgetFailed, RouteInv
  <2> QED
    BY <2>1, <2>2
<1>4. "cleanup" \in Pc \ {"idle"} /\ "cleanup" \notin ForHandoff
  BY PcFacts DEF ForHandoff
<1>5. RequestInv'
  BY <1>1, <1>2, <1>4, QuietKeeps, AdvanceKeeps DEF RouteInv
<1> QED
  BY <1>1, <1>3, <1>5, QuietKeeps DEF RouteInv

LEMMA HeartbeatManagerStep ==
  ASSUME RouteInv, NEW p \in Replica, NEW s \in Session, HeartbeatManager(p, s)
  PROVE  RouteInv'
<1> DEFINE found == Listing(p)[s]
           c == [found EXCEPT !.status = "active"]
           q == Serving("orphans", s, NoRoute, NoHandoff(s), Inventory)
           n == [q EXCEPT !.pc = "saveReported", !.copy = c]
<1>1. Quiet /\ List(p)
  BY DEF HeartbeatManager, Quiet
<1>2. RepositoryInv'
  BY <1>1, QuietKeeps, ListKeeps DEF RouteInv
<1>3. /\ Inventory \in SUBSET Runner
      /\ NoHandoff(s) \in [session : Session, runner : Runner \cup {NoRunner}, round : Nat]
      /\ {"orphans", "saveReported"} \subseteq Pc \ ({"idle"} \cup ForHandoff)
  BY HandoffFields, PcFacts DEF Inventory, ForHandoff
<1>4. Proper(q)
  BY <1>3, NoRouteSound, AboutProper DEF RouteInv
<1>5. c \in Route => /\ n \in InService /\ n.pc = "saveReported"
                    /\ n.copy = c /\ n.session = s
  <2>1. q \in InService /\ q.session = s
    BY <1>3, NoRouteFields, ServingType, ServingFields
  <2> HIDE DEF q, c
  <2> QED
    BY <1>3, <2>1 DEF InService
<1>6. found.remote \in Inventory => Sound(s, c)
  <2>1. Sound(s, found) /\ found \in Route
    BY ListingSound DEF RouteInv
  <2>2. found.remote \in Inventory => found # NoRoute
    BY <1>3, NoRouteFields, HolderAssumption
  <2> HIDE DEF found
  <2> QED
    BY <2>1, <2>2, StatusFields DEF Sound, Status
<1>7. found.remote \in Inventory => Proper(n)
  <2>1. Sound(s, c) => c \in Route
    BY DEF Sound
  <2> HIDE DEF c, n
  <2> QED
    BY <1>5, <1>6, <2>1 DEF Proper, ForHandoff
<1>8. \/ request' = [request EXCEPT ![p] = q]
      \/ found.remote \in Inventory /\ request' = [request EXCEPT ![p] = n]
  BY DEF HeartbeatManager
<1>9. RequestInv'
  <2> HIDE DEF q, n, found
  <2> QED
    BY <1>1, <1>4, <1>7, <1>8, QuietKeeps, RequestStep DEF RouteInv
<1> QED
  BY <1>1, <1>2, <1>9, QuietKeeps DEF RouteInv

LEMMA FindOrphansStep ==
  ASSUME RouteInv, NEW p \in Replica, FindOrphans(p)
  PROVE  RouteInv'
<1> DEFINE q == request[p]
           n == [q EXCEPT !.pc = "allocations", !.runners = Orphans(p, q.runners)]
<1>1. Quiet /\ List(p) /\ q.pc = "orphans" /\ request' = [request EXCEPT ![p] = n]
  BY DEF FindOrphans, Quiet
<1>2. RepositoryInv'
  BY <1>1, QuietKeeps, ListKeeps DEF RouteInv
<1>3. q \in InService /\ Proper(q)
  BY <1>1 DEF RouteInv, RequestInv, Idle
<1>4. Orphans(p, q.runners) \in SUBSET Runner
  BY <1>3, InServiceFields DEF Orphans
<1>5. /\ n \in InService /\ n.pc = "allocations" /\ n.copy = q.copy /\ n.session = q.session
  BY <1>3, <1>4, PcFacts DEF InService
<1>6. Proper(n)
  <2>1. Sound(q.session, q.copy)
    BY <1>3, InServiceFields DEF Proper
  <2> HIDE DEF n
  <2> QED
    BY <1>5, <2>1 DEF Proper, ForHandoff
<1>7. RequestInv'
  <2> HIDE DEF n
  <2> QED
    BY <1>1, <1>6, QuietKeeps, RequestStep DEF RouteInv
<1> QED
  BY <1>1, <1>2, <1>7, QuietKeeps DEF RouteInv

LEMMA ListAllocationsStep ==
  ASSUME RouteInv, NEW p \in Replica, ListAllocations(p)
  PROVE  RouteInv'
<1> DEFINE q == request[p]
           h == Offered(q.session)
           m == [q EXCEPT !.pc = "repair", !.handoff = h]
           n == [q EXCEPT !.pc = "respond"]
<1>1. Quiet /\ UNCHANGED routeVars /\ q.pc = "allocations"
  BY DEF ListAllocations, Quiet
<1>2. q \in InService /\ q.session \in Session /\ Sound(q.session, q.copy)
  BY <1>1, InServiceFields DEF RouteInv, RequestInv, Idle, Proper
<1>3. \/ /\ phase[q.session] \in {"offered", "started"}
         /\ request' = [request EXCEPT ![p] = m]
      \/ request' = [request EXCEPT ![p] = n]
  BY DEF ListAllocations
<1>4. phase[q.session] \in {"offered", "started"} => Proper(m)
  <2> SUFFICES ASSUME phase[q.session] \in {"offered", "started"} PROVE Proper(m)
    OBVIOUS
  <2>1. h \in offers /\ h \in Handoff /\ h.session = q.session
    BY <1>2 DEF RouteInv, OffersInv, ManagerInv, Offered
  <2>2. /\ m \in InService /\ m.pc = "repair" /\ m.copy = q.copy /\ m.session = q.session
        /\ m.handoff = h
    <3> HIDE DEF h
    <3> QED
      BY <1>2, <2>1, PcFacts, HandoffFields DEF InService
  <2> HIDE DEF m, h
  <2> QED
    BY <1>2, <2>1, <2>2 DEF Proper
<1>5. Proper(n)
  <2>1. /\ n \in InService /\ n.pc = "respond" /\ n.copy = q.copy /\ n.session = q.session
    BY <1>2, PcFacts DEF InService
  <2> HIDE DEF n
  <2> QED
    BY <1>2, <2>1 DEF Proper, ForHandoff
<1>6. RequestInv'
  <2> HIDE DEF m, n
  <2> QED
    BY <1>1, <1>3, <1>4, <1>5, QuietKeeps, RequestStep DEF RouteInv
<1> QED
  BY <1>1, <1>6, QuietKeeps, RepositoryUnchanged DEF RouteInv

-----------------------------------------------------------------------------
(* The steps of runtimes and managers. *)

(* Nothing about the allocation changes, and no hand-off is new.            *)
LEMMA AnswerClaimStep ==
  ASSUME RouteInv, NEW p \in Replica, AnswerClaim(p)
  PROVE  RouteInv'
<1> DEFINE h == request[p].handoff
<1>1. /\ UNCHANGED <<handoffVars, offers, accepted, fenced, commands>> /\ UNCHANGED routeVars
      /\ runtimes' = runtimes \cup {h} /\ local' = [local EXCEPT ![h.runner] = "running"]
      /\ Finish(p) /\ request[p].pc = "answer"
  BY DEF AnswerClaim, Awaited, historyVars
<1>2. h \in offers
  BY <1>1 DEF RouteInv, RequestInv, Proper, Idle, ForHandoff
<1>3. Grows /\ runtimes \subseteq runtimes'
  BY <1>1, GrowsUnchanged DEF RouteInv
<1>4. ManagerInv'
  BY <1>1, <1>2 DEF RouteInv, ManagerInv, LocalSession
<1> QED
  BY <1>1, <1>3, <1>4, RepositoryUnchanged, FinishKeeps, OffersUnchanged DEF RouteInv

LEMMA CleanupOrphansStep ==
  ASSUME RouteInv, NEW p \in Replica, CleanupOrphans(p)
  PROVE  RouteInv'
<1>1. /\ UNCHANGED <<handoffVars, offers, accepted, fenced, commands, runtimes>>
      /\ UNCHANGED routeVars /\ Finish(p)
      /\ local' \in [Runner -> LocalSession]
  BY DEF CleanupOrphans, historyVars, RouteInv, ManagerInv, LocalSession
<1>2. Grows /\ runtimes \subseteq runtimes'
  BY <1>1, GrowsUnchanged DEF RouteInv
<1>3. ManagerInv'
  BY <1>1 DEF RouteInv, ManagerInv
<1> QED
  BY <1>1, <1>2, <1>3, RepositoryUnchanged, FinishKeeps, OffersUnchanged DEF RouteInv

LEMMA AuthorizeStep ==
  ASSUME RouteInv, NEW p \in Replica, NEW h \in runtimes, NEW kind \in {"poll", "push"},
         Authorize(p, h, kind)
  PROVE  RouteInv'
<1> DEFINE found == Got(p, h.session)
           m == Serving("markPoll", h.session, NoRoute, h, {})
           n == Serving("markPush", h.session, found, h, {})
<1>1. /\ UNCHANGED <<handoffVars, offers, accepted, commands, runtimes, local>>
      /\ Get(p, h.session) /\ found # NoRoute
      /\ fenced' \in {fenced, fenced \cup {h}}
      /\ \/ UNCHANGED request
         \/ request' = [request EXCEPT ![p] = m]
         \/ request' = [request EXCEPT ![p] = n]
  BY DEF Authorize, managerVars
<1>2. h \in offers /\ h \in Handoff /\ h.session \in Session
  BY HandoffFields DEF RouteInv, ManagerInv
<1>3. Grows /\ runtimes \subseteq runtimes'
  BY <1>1, GrowsUnchanged DEF RouteInv
<1>4. ManagerInv'
  BY <1>1 DEF RouteInv, ManagerInv
<1>5. RepositoryInv'
  BY <1>1, <1>2, <1>3, GetKeeps DEF RouteInv
<1>6. /\ found \in Route /\ Sound(h.session, found)
      /\ NoRoute \in Route /\ Sound(h.session, NoRoute)
  BY <1>2, GotSound, NoRouteSound, NoRouteFields DEF RouteInv
<1>7. Proper(m) /\ Proper(n)
  <2> HIDE DEF found
  <2>1. m \in InService /\ n \in InService
    BY <1>2, <1>6, ServingType, HandoffFields, PcFacts
  <2> QED
    BY <1>1, <1>2, <1>6, <2>1, ServingFields DEF Proper
<1>8. RequestInv'
  <2> HIDE DEF m, n
  <2> QED
    BY <1>1, <1>3, <1>7, RequestStep, RequestUnchanged DEF RouteInv
<1> QED
  BY <1>1, <1>4, <1>5, <1>8, OffersUnchanged DEF RouteInv

LEMMA RunDeletionStep ==
  ASSUME RouteInv, NEW s \in Session, NEW i \in 1 .. MaxDeletes, RunDeletion(s, i)
  PROVE  RouteInv'
<1>1. /\ UNCHANGED <<handoffVars, offers, accepted, fenced, runtimes>>
      /\ UNCHANGED routeVars /\ UNCHANGED request
  BY DEF RunDeletion, historyVars
<1>2. commands[s] \in Seq(Command) /\ i \in DOMAIN commands[s] /\ commands[s][i] \in Command
  BY DEF RouteInv, ManagerInv, RunDeletion
<1>3. PICK res \in {"done", "failed"} : commands' = [commands EXCEPT ![s][i].result = res]
  BY DEF RunDeletion
<1> DEFINE new == [commands[s][i] EXCEPT !.result = res]
           seq == [commands[s] EXCEPT ![i] = new]
<1>4. seq \in Seq(Command) /\ Len(seq) = Len(commands[s])
  <2>1. new \in Command
    BY <1>2 DEF Command
  <2> HIDE DEF new
  <2> QED
    BY <1>2, <2>1
<1>5. commands' \in [Session -> Seq(Command)]
      /\ \A t \in Session : Len(commands[t]) \in Nat /\ Len(commands'[t]) = Len(commands[t])
  <2>1. commands' = [commands EXCEPT ![s] = seq]
    BY <1>3
  <2> HIDE DEF seq
  <2> QED
    BY <1>4, <2>1 DEF RouteInv, ManagerInv
<1>6. Grows /\ runtimes \subseteq runtimes'
  BY <1>1, <1>5 DEF Grows
<1>7. local' \in [Runner -> LocalSession]
  BY DEF RunDeletion, RouteInv, ManagerInv, LocalSession
<1>8. ManagerInv'
  BY <1>1, <1>5, <1>7 DEF RouteInv, ManagerInv
<1> QED
  BY <1>1, <1>6, <1>8, RepositoryUnchanged, RequestUnchanged, OffersUnchanged DEF RouteInv

LEMMA DeleteSessionStep ==
  ASSUME RouteInv, NEW p \in Replica, NEW s \in Session, DeleteSession(p, s)
  PROVE  RouteInv'
<1> DEFINE found == Got(p, s)
           new == [runner |-> found.remote, result |-> "queued"]
           c == [found EXCEPT !.deletion = Len(commands[s]) + 1, !.status = "terminating"]
<1>1. /\ UNCHANGED <<handoffVars, offers, accepted, fenced, runtimes, local>>
      /\ Get(p, s) /\ found.remote # NoRunner
      /\ commands' = [commands EXCEPT ![s] = Append(@, new)]
      /\ request' = [request EXCEPT ![p] = About("saveDeletion", s, c)]
  BY DEF DeleteSession, historyVars, Terminating
<1>2. found \in Route /\ Sound(s, found) /\ found.remote \in Runner
  BY <1>1, GotSound, RouteFields DEF RouteInv
<1>3. commands[s] \in Seq(Command) /\ Len(commands[s]) \in Nat
  BY DEF RouteInv, ManagerInv
<1>4. /\ Append(commands[s], new) \in Seq(Command)
      /\ Len(Append(commands[s], new)) = Len(commands[s]) + 1
  <2>1. new \in Command
    BY <1>2 DEF Command
  <2> HIDE DEF new
  <2> QED
    BY <1>3, <2>1
<1>5. /\ commands' \in [Session -> Seq(Command)]
      /\ commands'[s] = Append(commands[s], new)
      /\ \A t \in Session : t # s => commands'[t] = commands[t]
      /\ \A t \in Session : Len(commands[t]) \in Nat
  <2> HIDE DEF new
  <2> QED
    BY <1>1, <1>3, <1>4 DEF RouteInv, ManagerInv
<1>6. Grows /\ runtimes \subseteq runtimes'
  <2> HIDE DEF new
  <2> QED
    BY <1>1, <1>4, <1>5 DEF Grows
<1>7. ManagerInv'
  BY <1>1, <1>5 DEF RouteInv, ManagerInv
<1>8. RepositoryInv'
  BY <1>1, <1>6, GetKeeps DEF RouteInv
<1>9. RequestInv'
  <2>1. /\ c \in Route /\ c.deletion = Len(commands[s]) + 1
        /\ c.remote = found.remote /\ c.generation = found.generation
    <3>1. PICK n \in Nat : n = Len(commands[s]) + 1
      BY <1>3
    <3>2. c = Deleting(found, n, "terminating")
      BY <3>1 DEF Deleting
    <3>3. found \in Route /\ "terminating" \in Status
      BY <1>2 DEF Status
    <3> HIDE DEF found, c
    <3> QED
      BY <3>1, <3>2, <3>3, DeletingFields
  <2>2. [session |-> s, runner |-> found.remote, round |-> found.generation] \in offers
    BY <1>1, <1>2, NoRouteFields DEF Sound
  <2>3. PICK d : d = c
    OBVIOUS
  <2>4. Sound(s, d)'
    <3> HIDE DEF c, new, found
    <3> QED
      BY <1>1, <1>3, <1>4, <1>5, <2>1, <2>2, <2>3 DEF Sound
  <2>5. PICK q : q = About("saveDeletion", s, d)
    OBVIOUS
  <2>6. q \in InService /\ q.pc = "saveDeletion" /\ q.session = s /\ q.copy = d
    <3> HIDE DEF c
    <3> QED
      BY <2>1, <2>3, <2>5, ServingType, ServingFields, HandoffFields, PcFacts DEF About
  <2>7. Proper(q)'
    BY <2>4, <2>6 DEF Proper, ForHandoff
  <2>8. request' = [request EXCEPT ![p] = q]
    BY <1>1, <2>3, <2>5
  <2> HIDE DEF c, new, found
  <2> QED
    BY <1>6, <2>7, <2>8, RequestStep DEF RouteInv
<1> QED
  BY <1>1, <1>7, <1>8, <1>9, OffersUnchanged DEF RouteInv

-----------------------------------------------------------------------------
(* The steps of the allocation. *)

(* Every such step leaves what is neither phase, round nor holder of its    *)
(* session alone, so routes and requests are only affected through offers.  *)
LEMMA ManagerUnchanged ==
  ASSUME ManagerInv, offers \subseteq offers', offers' \subseteq Handoff,
         accepted' \subseteq runtimes, UNCHANGED <<managerVars, fenced>>
  PROVE  Grows /\ runtimes \subseteq runtimes' /\ ManagerInv'
<1>1. \A s \in Session : Len(commands[s]) \in Nat
  BY DEF ManagerInv
<1> QED
  BY <1>1 DEF ManagerInv, Grows, managerVars

LEMMA CreatePoolSessionStep ==
  ASSUME RouteInv, NEW p \in Replica, NEW s \in Session, CreatePoolSession(p, s)
  PROVE  RouteInv'
<1> DEFINE q == Serving("savePending", s, PendingRoute, NoHandoff(s), {})
<1>1. /\ Submit(s) /\ UNCHANGED routeVars /\ UNCHANGED <<managerVars, fenced>>
      /\ UNCHANGED <<offers, accepted>>
      /\ request' = [request EXCEPT ![p] = q]
  BY DEF CreatePoolSession, historyVars
<1>2. Grows /\ runtimes \subseteq runtimes' /\ ManagerInv'
  BY <1>1, ManagerUnchanged DEF RouteInv, ManagerInv
<1>3. Sound(s, PendingRoute)
  <2>1. Len(commands[s]) \in Nat
    BY DEF RouteInv, ManagerInv
  <2> QED
    BY <2>1, NoRouteFields DEF Sound
<1>4. Proper(q)
  BY <1>3, AboutProper, HandoffFields, PcFacts DEF ForHandoff
<1>5. RequestInv'
  <2> HIDE DEF q
  <2> QED
    BY <1>1, <1>2, <1>4, RequestStep DEF RouteInv
<1>6. OffersInv'
  BY <1>1 DEF RouteInv, OffersInv, Submit, Offered, HandoffPhase, ManagerInv, Handoff
<1>7. AcceptedIsCurrent'
  BY <1>1 DEF RouteInv, OffersInv, ManagerInv, AcceptedIsCurrent, Submit, Offered, Handoff
<1> QED
  BY <1>1, <1>2, <1>5, <1>6, <1>7, RepositoryUnchanged DEF RouteInv

LEMMA ClaimRunnerAllocationStep ==
  ASSUME RouteInv, NEW p \in Replica, NEW s \in Session, NEW r \in Runner,
         ClaimRunnerAllocation(p, s, r)
  PROVE  RouteInv'
<1>1. PICK h : h = [session |-> s, runner |-> r, round |-> round'[s]]
  OBVIOUS
<1>2. /\ Offer(s, r) /\ UNCHANGED routeVars /\ UNCHANGED <<managerVars, fenced>>
      /\ offers' = offers \cup {h} /\ accepted' = accepted
      /\ request' = [request EXCEPT ![p] = Serving("prepare", s, NoRoute, h, {})]
  BY <1>1 DEF ClaimRunnerAllocation
<1>3. /\ phase[s] \in {"waiting", "offered"}
      /\ phase' = [phase EXCEPT ![s] = "offered"]
      /\ round' = [round EXCEPT ![s] = IF phase[s] = "offered" THEN @ + 1 ELSE @]
      /\ holder' = [holder EXCEPT ![s] = r]
      /\ phase \in [Session -> HandoffPhase] /\ round \in [Session -> Nat]
      /\ holder \in [Session -> Runner \cup {NoRunner}]
  BY <1>2 DEF Offer, RouteInv, OffersInv
<1>4. h \in Handoff /\ h.session = s /\ h.runner = r /\ h.round = round'[s]
  <2>1. round'[s] \in Nat
    BY <1>3
  <2> QED
    BY <1>1, <2>1 DEF Handoff
<1>5. Grows /\ runtimes \subseteq runtimes' /\ ManagerInv'
  BY <1>2, <1>4, ManagerUnchanged DEF RouteInv, ManagerInv
<1>6. PICK q : q = Serving("prepare", s, NoRoute, h, {})
  OBVIOUS
<1>7. Proper(q)'
  <2>1. q \in InService /\ q.pc = "prepare" /\ q.session = s /\ q.copy = NoRoute /\ q.handoff = h
    BY <1>4, <1>6, ServingType, ServingFields, NoRouteFields, HandoffFields, PcFacts
  <2>2. \A c : c = NoRoute => Sound(s, c)'
    BY <1>5, NoRouteSound, SoundGrows DEF RouteInv
  <2>3. Sound(s, NoRoute)'
    BY <2>2 DEF Sound
  <2> QED
    BY <1>2, <1>4, <2>1, <2>3 DEF Proper
<1>8. RequestInv'
  BY <1>2, <1>5, <1>6, <1>7, RequestStep DEF RouteInv
<1>9. \A o \in offers : o.session = s => o.round < h.round
  <2>1. \A o \in offers : o.round \in Nat
    BY HandoffFields DEF RouteInv, ManagerInv
  <2> QED
    BY <1>3, <1>4, <2>1 DEF RouteInv, OffersInv, Offered
<1>10. OffersInv'
  <2>1. phase' \in [Session -> HandoffPhase] /\ round' \in [Session -> Nat]
        /\ holder' \in [Session -> Runner \cup {NoRunner}]
    BY <1>3 DEF HandoffPhase
  <2>2. h = Offered(s)' /\ \A t \in Session : t # s => Offered(t)' = Offered(t)
    BY <1>1, <1>3 DEF Offered
  <2>3. ASSUME NEW o \in offers'
        PROVE  /\ phase'[o.session] # "new"
               /\ \/ phase'[o.session] = "gone"
                  \/ o.round < round'[o.session]
                  \/ phase'[o.session] \in {"offered", "started"} /\ o = Offered(o.session)'
    <3>1. CASE o.session = s
      <4>1. o = h \/ o.round < round'[s]
        BY <1>2, <1>4, <1>9, <3>1
      <4> QED
        BY <1>3, <1>4, <2>2, <3>1, <4>1 DEF Offered
    <3>2. CASE o.session # s
      <4>1. o \in offers /\ o.session \in Session
        BY <1>2, <1>4, <3>2, HandoffFields DEF RouteInv, ManagerInv
      <4> QED
        BY <1>3, <3>2, <4>1 DEF RouteInv, OffersInv, Offered
    <3> QED
      BY <3>1, <3>2
  <2>4. \A t \in Session : phase'[t] \in {"offered", "started"} => Offered(t)' \in offers'
    BY <1>2, <1>3, <2>2 DEF RouteInv, OffersInv
  <2>5. \A o, k \in offers' : o.session = k.session /\ o.round = k.round => o = k
    <3>1. \A o \in offers : o.round \in Nat
      BY HandoffFields DEF RouteInv, ManagerInv
    <3> QED
      BY <1>2, <1>4, <1>9, <3>1 DEF RouteInv, OffersInv, Handoff
  <2> QED
    BY <2>1, <2>3, <2>4, <2>5 DEF OffersInv
<1>11. AcceptedIsCurrent'
  <2>1. \A k \in accepted : k.session # s
    BY <1>3 DEF RouteInv, AcceptedIsCurrent
  <2>2. \A k \in accepted : k.session \in Session
    BY HandoffFields DEF RouteInv, ManagerInv
  <2> QED
    BY <1>2, <1>3, <2>1, <2>2 DEF RouteInv, AcceptedIsCurrent, Offered
<1> QED
  BY <1>2, <1>5, <1>8, <1>10, <1>11, RepositoryUnchanged DEF RouteInv

(* Withdrawing an offer raises the round above it.                          *)
LEMMA WithdrawKeeps ==
  ASSUME RouteInv, NEW s \in Session, Withdraw(s), UNCHANGED <<offers, accepted>>
  PROVE  OffersInv' /\ AcceptedIsCurrent'
<1>1. /\ phase[s] = "offered" /\ phase' = [phase EXCEPT ![s] = "waiting"]
      /\ round' = [round EXCEPT ![s] = @ + 1]
      /\ holder' = [holder EXCEPT ![s] = NoRunner]
      /\ phase \in [Session -> HandoffPhase] /\ round \in [Session -> Nat]
      /\ holder \in [Session -> Runner \cup {NoRunner}]
  BY DEF Withdraw, RouteInv, OffersInv
<1>2. \A o \in offers : o.session \in Session /\ o.round \in Nat
  BY HandoffFields DEF RouteInv, ManagerInv
<1>3. \A t \in Session : t # s => phase'[t] = phase[t] /\ round'[t] = round[t] /\ Offered(t)' = Offered(t)
  BY <1>1 DEF Offered
<1>4. \A o \in offers : o.session = s => o.round < round'[s]
  BY <1>1, <1>2 DEF RouteInv, OffersInv, Offered
<1>5. phase' \in [Session -> HandoffPhase] /\ round' \in [Session -> Nat]
      /\ holder' \in [Session -> Runner \cup {NoRunner}]
  BY <1>1 DEF HandoffPhase
<1>6. \A o \in offers :
        /\ phase'[o.session] # "new"
        /\ \/ phase'[o.session] = "gone"
           \/ o.round < round'[o.session]
           \/ phase'[o.session] \in {"offered", "started"} /\ o = Offered(o.session)'
  <2> SUFFICES ASSUME NEW o \in offers
               PROVE  /\ phase'[o.session] # "new"
                      /\ \/ phase'[o.session] = "gone"
                         \/ o.round < round'[o.session]
                         \/ /\ phase'[o.session] \in {"offered", "started"}
                            /\ o = Offered(o.session)'
    OBVIOUS
  <2>1. CASE o.session = s
    BY <1>1, <1>4, <2>1
  <2>2. CASE o.session # s
    BY <1>2, <1>3, <2>2 DEF RouteInv, OffersInv
  <2> QED
    BY <2>1, <2>2
<1>7. \A t \in Session : phase'[t] \in {"offered", "started"} => Offered(t)' \in offers
  BY <1>1, <1>3 DEF RouteInv, OffersInv
<1>8. OffersInv'
  BY <1>5, <1>6, <1>7 DEF RouteInv, OffersInv
<1>9. AcceptedIsCurrent'
  <2>1. \A k \in accepted : k.session # s /\ k.session \in Session
    BY <1>1, <1>2 DEF RouteInv, AcceptedIsCurrent, ManagerInv
  <2> QED
    BY <1>3, <2>1 DEF RouteInv, AcceptedIsCurrent
<1> QED
  BY <1>8, <1>9

LEMMA FailClaimStep ==
  ASSUME RouteInv, NEW p \in Replica, FailClaim(p)
  PROVE  RouteInv'
<1>1. request[p] # Idle /\ request[p].session \in Session
  BY InServiceFields DEF FailClaim, Awaited, RouteInv, RequestInv, Idle
<1>2. /\ Withdraw(request[p].session) /\ Finish(p) /\ UNCHANGED routeVars
      /\ UNCHANGED <<managerVars, fenced>> /\ UNCHANGED <<offers, accepted>>
  BY DEF FailClaim, historyVars
<1>3. Grows /\ runtimes \subseteq runtimes' /\ ManagerInv'
  BY <1>2, ManagerUnchanged DEF RouteInv, ManagerInv
<1> QED
  BY <1>1, <1>2, <1>3, WithdrawKeeps, RepositoryUnchanged, FinishKeeps DEF RouteInv

LEMMA RequeueUnstartedStep ==
  ASSUME RouteInv, NEW p \in Replica, NEW s \in Session, RequeueUnstarted(p, s)
  PROVE  RouteInv'
<1>1. /\ Withdraw(s) /\ Get(p, s) /\ UNCHANGED request
      /\ UNCHANGED <<managerVars, fenced>> /\ UNCHANGED <<offers, accepted>>
  BY DEF RequeueUnstarted, historyVars
<1>2. Grows /\ runtimes \subseteq runtimes' /\ ManagerInv'
  BY <1>1, ManagerUnchanged DEF RouteInv, ManagerInv
<1> QED
  BY <1>1, <1>2, WithdrawKeeps, GetKeeps, RequestUnchanged DEF RouteInv

LEMMA CleanupAllocationStep ==
  ASSUME RouteInv, NEW p \in Replica, CleanupAllocation(p)
  PROVE  RouteInv'
<1>1. PICK s \in Session : s = request[p].session
  BY InServiceFields DEF CleanupAllocation, RouteInv, RequestInv, Idle
<1>2. /\ Remove(s) /\ Finish(p) /\ UNCHANGED routeVars
      /\ UNCHANGED <<managerVars, fenced>> /\ UNCHANGED <<offers, accepted>>
  BY <1>1 DEF CleanupAllocation, historyVars
<1>3. Grows /\ runtimes \subseteq runtimes' /\ ManagerInv'
  BY <1>2, ManagerUnchanged DEF RouteInv, ManagerInv
<1>4. /\ phase' = [phase EXCEPT ![s] = "gone"] /\ round' = [round EXCEPT ![s] = 0]
      /\ holder' = [holder EXCEPT ![s] = NoRunner]
      /\ phase \in [Session -> HandoffPhase] /\ round \in [Session -> Nat]
      /\ holder \in [Session -> Runner \cup {NoRunner}]
  BY <1>2 DEF Remove, RouteInv, OffersInv
<1>5. \A t \in Session : t # s => phase'[t] = phase[t] /\ round'[t] = round[t] /\ Offered(t)' = Offered(t)
  BY <1>4 DEF Offered
<1>6. phase'[s] = "gone"
  BY <1>4
<1>7. \A o \in offers : o.session \in Session
  BY HandoffFields DEF RouteInv, ManagerInv
<1>8. phase' \in [Session -> HandoffPhase] /\ round' \in [Session -> Nat]
      /\ holder' \in [Session -> Runner \cup {NoRunner}]
  BY <1>4 DEF HandoffPhase
<1>9. OffersInv'
  BY <1>2, <1>5, <1>6, <1>7, <1>8 DEF RouteInv, OffersInv
<1>10. AcceptedIsCurrent'
  BY <1>2, <1>5, <1>6, <1>7 DEF RouteInv, AcceptedIsCurrent, ManagerInv
<1> QED
  BY <1>2, <1>3, <1>9, <1>10, RepositoryUnchanged, FinishKeeps DEF RouteInv

-----------------------------------------------------------------------------
(* The fence of the calls. *)

(* A push is written into the copy the call was authorised with.            *)
LEMMA RecordKeeps ==
  ASSUME RouteInv, Grows, runtimes \subseteq runtimes', NEW p \in Replica,
         request[p].pc \in {"markPoll", "markPush"}, Record(p)
  PROVE  RequestInv'
<1> DEFINE q == request[p]
           c == [q.copy EXCEPT !.status = "active"]
           n == Serving("saveStatus", q.session, c, NoHandoff(q.session), {})
<1>1. q \in InService /\ Proper(q) /\ q.session \in Session /\ Sound(q.session, q.copy)
  BY InServiceFields DEF RouteInv, RequestInv, Proper, Idle
<1>2. \/ request' = [request EXCEPT ![p] = Idle]
      \/ q.pc = "markPush" /\ request' = [request EXCEPT ![p] = n]
  BY DEF Record
<1>3. q.pc = "markPush" => Proper(n)
  <2> SUFFICES ASSUME q.pc = "markPush" PROVE Proper(n)
    OBVIOUS
  <2>1. q.copy # NoRoute /\ q.copy \in Route
    BY <1>1, InServiceFields DEF Proper
  <2>2. Sound(q.session, c)
    BY <1>1, <2>1, StatusFields DEF Sound, Status
  <2> HIDE DEF c
  <2> QED
    BY <1>1, <2>2, AboutProper, HandoffFields, PcFacts DEF ForHandoff
<1> HIDE DEF n
<1> QED
  BY <1>2, <1>3, IdleProper, RequestStep DEF RouteInv

(* Only the current hand-off of a session that is offered or started starts *)
(* it: the one offer of its round.                                          *)
LEMMA MarkStartedStep ==
  ASSUME RouteInv, NEW p \in Replica, MarkStarted(p)
  PROVE  RouteInv'
<1>1. PICK h : h = request[p].handoff
  OBVIOUS
<1>2. PICK s : s = h.session
  OBVIOUS
<1>3. /\ request[p].pc \in {"markPoll", "markPush"}
      /\ round[s] = h.round /\ Start(s) /\ accepted' = accepted \cup {h}
      /\ Record(p) /\ UNCHANGED routeVars /\ UNCHANGED <<managerVars, fenced>>
      /\ UNCHANGED offers
  BY <1>1, <1>2 DEF MarkStarted
<1>4. h \in runtimes /\ h \in offers /\ s \in Session
  BY <1>1, <1>2, <1>3, HandoffFields DEF RouteInv, RequestInv, Proper, Idle, ManagerInv
<1>5. Grows /\ runtimes \subseteq runtimes' /\ ManagerInv'
  BY <1>3, <1>4, ManagerUnchanged DEF RouteInv, ManagerInv
<1>6. h = Offered(s)
  BY <1>2, <1>3, <1>4 DEF Start, RouteInv, OffersInv, Offered
<1>7. /\ phase[s] \in {"offered", "started"} /\ phase' = [phase EXCEPT ![s] = "started"]
      /\ round' = round /\ holder' = holder
      /\ phase \in [Session -> HandoffPhase]
  BY <1>3 DEF Start, RouteInv, OffersInv
<1>8. \A t \in Session : Offered(t)' = Offered(t) /\ (t # s => phase'[t] = phase[t])
  BY <1>7 DEF Offered
<1>9. \A o \in offers : o.session \in Session
  BY HandoffFields DEF RouteInv, ManagerInv
<1>10. OffersInv'
  <2>1. phase' \in [Session -> HandoffPhase] /\ phase'[s] = "started"
    BY <1>4, <1>7 DEF HandoffPhase
  <2> QED
    BY <1>3, <1>7, <1>8, <1>9, <2>1 DEF RouteInv, OffersInv
<1>11. AcceptedIsCurrent'
  <2>1. phase'[s] = "started"
    BY <1>4, <1>7
  <2>2. \A k \in accepted : k.session \in Session
    BY <1>9 DEF RouteInv, ManagerInv
  <2>3. ASSUME NEW k \in accepted'
        PROVE  \/ phase'[k.session] = "gone"
               \/ phase'[k.session] = "started" /\ Offered(k.session)' = k
    <3>1. CASE k = h
      BY <1>2, <1>4, <1>6, <1>8, <2>1, <3>1
    <3>2. CASE k \in accepted /\ k.session = s
      <4>1. Offered(s) = k
        BY <1>7, <3>2 DEF RouteInv, AcceptedIsCurrent
      <4> QED
        BY <1>4, <1>8, <2>1, <3>2, <4>1
    <3>3. CASE k \in accepted /\ k.session # s
      BY <1>8, <2>2, <3>3 DEF RouteInv, AcceptedIsCurrent
    <3> QED
      BY <1>3, <3>1, <3>2, <3>3
  <2> QED
    BY <2>3 DEF AcceptedIsCurrent
<1> QED
  BY <1>3, <1>5, <1>10, <1>11, RecordKeeps, RepositoryUnchanged DEF RouteInv

(* A session without allocation that has been offered is gone.              *)
LEMMA MarkMissingStep ==
  ASSUME RouteInv, NEW p \in Replica, MarkMissing(p)
  PROVE  RouteInv'
<1>1. PICK h : h = request[p].handoff
  OBVIOUS
<1>2. /\ request[p].pc \in {"markPoll", "markPush"}
      /\ phase[h.session] \in {"new", "gone"} /\ accepted' = accepted \cup {h}
      /\ Record(p) /\ UNCHANGED routeVars /\ UNCHANGED <<managerVars, fenced>>
      /\ UNCHANGED offers /\ UNCHANGED handoffVars
  BY <1>1 DEF MarkMissing
<1>3. h \in runtimes /\ h \in offers
  BY <1>1, <1>2 DEF RouteInv, RequestInv, Proper, Idle, ManagerInv
<1>4. Grows /\ runtimes \subseteq runtimes' /\ ManagerInv'
  BY <1>2, <1>3, ManagerUnchanged DEF RouteInv, ManagerInv
<1>5. OffersInv'
  BY <1>2 DEF RouteInv, OffersInv, handoffVars, Offered
<1>6. phase[h.session] = "gone"
  BY <1>2, <1>3 DEF RouteInv, OffersInv
<1>7. AcceptedIsCurrent'
  BY <1>2, <1>6 DEF RouteInv, AcceptedIsCurrent, handoffVars, Offered
<1> QED
  BY <1>2, <1>4, <1>5, <1>7, RecordKeeps, RepositoryUnchanged DEF RouteInv

LEMMA MarkConflictStep ==
  ASSUME RouteInv, NEW p \in Replica, MarkConflict(p)
  PROVE  RouteInv'
<1>1. PICK h : h = request[p].handoff
  OBVIOUS
<1>2. /\ request[p].pc \in {"markPoll", "markPush"}
      /\ fenced' \in {fenced, fenced \cup {h}}
      /\ Finish(p) /\ UNCHANGED routeVars
      /\ UNCHANGED <<handoffVars, offers, accepted, commands, runtimes, local>>
  BY <1>1 DEF MarkConflict, managerVars
<1>3. h \in runtimes
  BY <1>1, <1>2 DEF RouteInv, RequestInv, Proper, Idle
<1>4. ManagerInv'
  BY <1>2, <1>3 DEF RouteInv, ManagerInv
<1>5. Grows /\ runtimes \subseteq runtimes'
  BY <1>2, GrowsUnchanged DEF RouteInv
<1> QED
  BY <1>2, <1>4, <1>5, RepositoryUnchanged, FinishKeeps, OffersUnchanged DEF RouteInv

-----------------------------------------------------------------------------
(* The invariant. *)

LEMMA RouteInit == Init => RouteInv
<1> SUFFICES ASSUME Init PROVE RouteInv
  OBVIOUS
<1>1. ManagerInv
  <2>1. <<>> \in Seq(Command)
    OBVIOUS
  <2> QED
    BY <2>1 DEF Init, ManagerInv, LocalSession, Handoff
<1>2. \A s \in Session : Sound(s, NoRoute)
  BY <1>1, NoRouteSound
<1>3. RepositoryInv
  <2>1. /\ route \in [Session -> Route] /\ cache \in [Replica -> [Session -> Route]]
        /\ listed \in [Replica -> [valid : BOOLEAN, routes : [Session -> Route]]]
    BY NoRouteFields, NotListedFields DEF Init
  <2>2. \A s \in Session : /\ route[s] = NoRoute
                           /\ \A p \in Replica : /\ cache[p][s] = NoRoute
                                                 /\ listed[p].routes[s] = NoRoute
    BY NotListedFields DEF Init
  <2> QED
    BY <1>2, <2>1, <2>2 DEF RepositoryInv
<1>4. RequestInv
  BY IdleProper DEF Init, RequestInv
<1>5. OffersInv
  BY DEF Init, HandoffInit, OffersInv, HandoffPhase
<1>6. AcceptedIsCurrent
  BY DEF Init, AcceptedIsCurrent
<1> QED
  BY <1>1, <1>3, <1>4, <1>5, <1>6 DEF RouteInv

LEMMA RouteStep == RouteInv /\ [Next]_vars => RouteInv'
<1> SUFFICES ASSUME RouteInv, [Next]_vars PROVE RouteInv'
  OBVIOUS
<1>1. CASE UNCHANGED vars
  <2>1. Quiet /\ UNCHANGED routeVars /\ UNCHANGED request
    BY <1>1 DEF vars, Quiet
  <2> QED
    BY <2>1, QuietKeeps, RepositoryUnchanged, RequestUnchanged DEF RouteInv
<1>2. ASSUME NEW p \in Replica, Serve(p) PROVE RouteInv'
  BY <1>2, SaveRouteStep, PrepareClaimRouteStep, AnswerClaimStep, FailClaimStep,
     MarkStartedStep, MarkMissingStep, MarkConflictStep, ForgetRouteStep,
     CleanupAllocationStep, FindOrphansStep, ListAllocationsStep, RepairRouteStep,
     CleanupOrphansStep DEF Serve
<1>3. ASSUME NEW p \in Replica, Arrive(p) PROVE RouteInv'
  BY <1>3, CreatePoolSessionStep, ClaimRunnerAllocationStep, DeleteSessionLocallyStep,
     DeleteSessionStep, DeleteSessionAgainStep, SearchSessionsStep,
     ReconcileSessionRoutesStep, HeartbeatManagerStep DEF Arrive
<1>4. ASSUME NEW p \in Replica, RequestLost(p) \/ ForgetFailed(p) \/ ListExpires(p)
      PROVE  RouteInv'
  BY <1>4, RequestLostStep, ForgetRouteStep, ListExpiresStep
<1>5. ASSUME NEW p \in Replica, NEW s \in Session, CacheExpires(p, s) \/ RequeueUnstarted(p, s)
      PROVE  RouteInv'
  BY <1>5, CacheExpiresStep, RequeueUnstartedStep
<1>6. ASSUME NEW p \in Replica, NEW h \in runtimes, NEW kind \in {"poll", "push"},
             Authorize(p, h, kind)
      PROVE  RouteInv'
  BY <1>6, AuthorizeStep
<1>7. ASSUME NEW s \in Session, NEW i \in 1 .. MaxDeletes, RunDeletion(s, i) PROVE RouteInv'
  BY <1>7, RunDeletionStep
<1> QED
  BY <1>1, <1>2, <1>3, <1>4, <1>5, <1>6, <1>7 DEF Next

(* The inductive invariant holds in every state of every behaviour.         *)
THEOREM RouteInvariance == Spec => []RouteInv
  BY RouteInit, RouteStep, PTL DEF Spec

-----------------------------------------------------------------------------
(* What follows. *)

(* Every copy of a route anywhere is sound.                                 *)
LEMMA CopiesSound ==
  ASSUME RouteInv, NEW s \in Session, NEW c \in Copies(s)
  PROVE  Sound(s, c)
<1>1. ASSUME NEW p \in Replica, request[p].pc # "idle", request[p].session = s
      PROVE  Sound(s, request[p].copy)
  BY <1>1 DEF RouteInv, RequestInv, Proper, Idle
<1> QED
  BY <1>1 DEF Copies, RouteInv, RepositoryInv

(* Every variable keeps its type, and a deletion a copy of a route names    *)
(* has been queued for the session's manager.                               *)
THEOREM RouteTypeCorrectness == Spec => []RouteTypeOK
<1>1. RouteInv => RouteTypeOK
  <2> SUFFICES ASSUME RouteInv PROVE RouteTypeOK
    OBVIOUS
  <2>1. \A s \in Session : \A c \in Copies(s) : c.deletion <= Len(commands[s])
    BY CopiesSound DEF Sound
  <2>2. \A s \in Session : \A i \in DOMAIN commands[s] : commands[s][i] \in Command
    BY DEF RouteInv, ManagerInv
  <2>3. \A p \in Replica : request[p] = Idle \/ request[p] \in InService
    BY DEF RouteInv, RequestInv
  <2> QED
    BY <2>1, <2>2, <2>3 DEF RouteTypeOK, RouteInv, RepositoryInv, ManagerInv, OffersInv
<1> QED
  BY <1>1, RouteInvariance, PTL

(* No copy of a route ever mixes two hand-offs.                             *)
THEOREM RoutesNameHandoffs == Spec => []RouteNamesAHandoff
<1>1. RouteInv => RouteNamesAHandoff
  BY CopiesSound DEF Sound, RouteNamesAHandoff
<1> QED
  BY <1>1, RouteInvariance, PTL

(* However stale the routes are, MarkStarted lets only calls of the started *)
(* hand-off through until the session is deleted.                           *)
THEOREM CallsAreCurrent == Spec => []AcceptedIsCurrent
<1>1. RouteInv => AcceptedIsCurrent
  BY DEF RouteInv
<1> QED
  BY <1>1, RouteInvariance, PTL
=============================================================================
