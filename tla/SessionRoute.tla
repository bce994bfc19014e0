------------------------------ MODULE SessionRoute ------------------------------
(***************************************************************************)
(* The route of a session: the record through which the proxy finds the    *)
(* session's runner and authorises its runtime. A route is saved without   *)
(* comparing versions, read through caches every replica keeps, and        *)
(* rewritten by claims, heartbeats, status reports and deletions that run  *)
(* at the same time.                                                       *)
(*                                                                         *)
(* The allocation of the session is seen as what it promises: the steps of *)
(* SessionHandoff, which RunnerAllocation implements. A replica serves one *)
(* request at a time here; two requests of one replica differ from two     *)
(* replicas only in sharing a cache, and a cache that another replica does *)
(* not share may be as fresh, because it may expire at any time.           *)
(***************************************************************************)
EXTENDS SessionHandoff, Sequences

CONSTANTS
  Replica,     \* replicas of the proxy
  Served,      \* bound: <<p, k>>: replica p gets requests of kind k
  Unreliable,  \* replicas whose requests may be lost
  MaxRound,    \* bound: a session is offered again only below this round
  MaxDeletes   \* bound: deletions queued for the manager of a session

RequestKind == {"create", "claim", "poll", "push", "delete", "search", "heartbeat", "reconcile"}

ASSUME ServedAssumption == Served \subseteq Replica \X RequestKind
ASSUME UnreliableAssumption == Unreliable \subseteq Replica
ASSUME HolderAssumption == NoRunner \notin Runner
ASSUME RouteBounds == MaxRound \in Nat \ {0} /\ MaxDeletes \in Nat

VARIABLES
  route,      \* route[s]: the stored route
  cache,      \* cache[p][s]: the route replica p remembers, NoRoute if none
  listed,     \* listed[p]: the listing of all routes replica p remembers
  request,    \* request[p]: the request replica p is serving
  runtimes,   \* the hand-offs whose claim was answered: their runtime was started
  local,      \* local[r]: the session the manager of runner r has started for it
  commands,   \* commands[s]: deletions queued for the session's manager
  offers,     \* every hand-off there has been
  accepted,   \* the hand-offs whose runtime had a call authorised
  fenced      \* the hand-offs whose runtime stopped on a conflict

routeVars == <<route, cache, listed>>
managerVars == <<runtimes, local, commands>>
historyVars == <<offers, accepted, fenced>>
vars == <<handoffVars, routeVars, request, managerVars, historyVars>>

Status == {"creating", "starting", "active", "terminating", "delete_failed", "terminated"}
Handoff == [session : Session, runner : Runner, round : Nat]
Route == [generation : Nat, remote : Runner \cup {NoRunner},
          status : Status \cup {"none"}, deletion : Nat]
LocalSession == {"none", "running", "deleted"}
Command == [runner : Runner, result : {"queued", "done", "failed"}]

NoRoute == [generation |-> 0, remote |-> NoRunner, status |-> "none", deletion |-> 0]
PendingRoute == [NoRoute EXCEPT !.generation = 1, !.status = "creating"]

NotListed == [valid |-> FALSE, routes |-> [s \in Session |-> NoRoute]]

(* What a request does next. A save is followed by the step AfterSave names. *)
AfterSave ==
  [savePending |-> "idle", saveClaim |-> "answer", saveStatus |-> "idle",
   saveDeletion |-> "idle", saveFailed |-> "idle", saveTerminated |-> "forget",
   saveReported |-> "orphans", saveRepaired |-> "respond"]
Pc == DOMAIN AfterSave \cup
      {"idle", "prepare", "answer", "markPoll", "markPush", "forget",
       "forgetPending", "cleanup", "orphans", "allocations", "repair", "respond"}

(* A request about session s, with its copy of the route, the hand-off it   *)
(* speaks of and the runners its manager reported.                          *)
Idle == [pc |-> "idle"]
Serving(pc, s, copy, h, runners) ==
  [pc |-> pc, session |-> s, copy |-> copy, handoff |-> h, runners |-> runners]
Advance(p, pc) == request' = [request EXCEPT ![p].pc = pc, ![p].copy = NoRoute]
Finish(p) == request' = [request EXCEPT ![p] = Idle]

Init ==
  /\ HandoffInit
  /\ route = [s \in Session |-> NoRoute]
  /\ cache = [p \in Replica |-> [s \in Session |-> NoRoute]]
  /\ listed = [p \in Replica |-> NotListed]
  /\ request = [p \in Replica |-> Idle]
  /\ runtimes = {}
  /\ local = [r \in Runner |-> "none"]
  /\ commands = [s \in Session |-> <<>>]
  /\ offers = {} /\ accepted = {} /\ fenced = {}

-----------------------------------------------------------------------------
(* The repository. *)

Got(p, s) == IF cache[p][s] # NoRoute THEN cache[p][s] ELSE route[s]

(* A read that misses the cache fills it, and drops the listing; an absent  *)
(* route is not remembered.                                                 *)
Get(p, s) ==
  /\ cache' = [cache EXCEPT ![p][s] = Got(p, s)]
  /\ listed' = IF Got(p, s) = cache[p][s] THEN listed ELSE [listed EXCEPT ![p] = NotListed]
  /\ UNCHANGED route

Listing(p) == IF listed[p].valid THEN listed[p].routes ELSE route

List(p) ==
  /\ listed' = [listed EXCEPT ![p] = [valid |-> TRUE, routes |-> Listing(p)]]
  /\ UNCHANGED <<route, cache>>

(* Creates the route or overwrites whatever is there. *)
Save(p, s, r) ==
  /\ route' = [route EXCEPT ![s] = r]
  /\ cache' = [cache EXCEPT ![p][s] = r]
  /\ listed' = [listed EXCEPT ![p] = NotListed]

Delete(p, s) == Save(p, s, NoRoute)

(* The two seconds an entry is kept are over. *)
CacheExpires(p, s) ==
  /\ cache[p][s] # NoRoute
  /\ cache' = [cache EXCEPT ![p][s] = NoRoute]
  /\ UNCHANGED <<handoffVars, route, listed, request, managerVars, historyVars>>

ListExpires(p) ==
  /\ listed[p].valid
  /\ listed' = [listed EXCEPT ![p] = NotListed]
  /\ UNCHANGED <<handoffVars, route, cache, request, managerVars, historyVars>>

SaveRoute(p) ==
  /\ request[p].pc \in DOMAIN AfterSave
  /\ Save(p, request[p].session, request[p].copy)
  /\ IF AfterSave[request[p].pc] = "idle" THEN Finish(p) ELSE Advance(p, AfterSave[request[p].pc])
  /\ UNCHANGED <<handoffVars, managerVars, historyVars>>

(* A request ends between two of its steps: its replica crashes, its        *)
(* client goes away or the store errs.                                      *)
RequestLost(p) ==
  /\ p \in Unreliable
  /\ request[p].pc # "idle"
  /\ Finish(p)
  /\ UNCHANGED <<handoffVars, routeVars, managerVars, historyVars>>

Free(p, kind) == request[p].pc = "idle" /\ <<p, kind>> \in Served
NoHandoff(s) == [session |-> s, runner |-> NoRunner, round |-> 0]

-----------------------------------------------------------------------------
(* Creation and claim. *)

(* The allocation is enqueued first, the route saved after it. *)
CreatePoolSession(p, s) ==
  /\ Free(p, "create")
  /\ Submit(s)
  /\ request' = [request EXCEPT ![p] = Serving("savePending", s, PendingRoute, NoHandoff(s), {})]
  /\ UNCHANGED <<routeVars, managerVars, historyVars>>

(* A runner that polls holds nothing and has never started a session. *)
Polls(r) ==
  /\ local[r] = "none"
  /\ \A s \in Session : phase[s] \in {"offered", "started"} => holder[s] # r

(* The 45 seconds of a lease outlast the creation of the session and the    *)
(* two seconds of a cache.                                                  *)
LeaseMayRunOut(s) ==
  \A p \in Replica :
    /\ request[p].pc = "savePending" => request[p].session # s
    /\ cache[p][s] \in {NoRoute, route[s]}
    /\ listed[p].valid => listed[p].routes[s] = route[s]

(* ClaimNext has written the lease; the route is still to be told. *)
ClaimRunnerAllocation(p, s, r) ==
  /\ Free(p, "claim")
  /\ Polls(r)
  /\ phase[s] = "offered" => round[s] < MaxRound /\ LeaseMayRunOut(s)
  /\ Offer(s, r)
  /\ LET h == [session |-> s, runner |-> r, round |-> round'[s]] IN
       /\ offers' = offers \cup {h}
       /\ request' = [request EXCEPT ![p] = Serving("prepare", s, NoRoute, h, {})]
  /\ UNCHANGED <<routeVars, managerVars, accepted, fenced>>

(* Slip: a route that has a runner keeps it. *)
ClaimedOnce(copy, h) ==
  [copy EXCEPT !.remote = IF @ = NoRunner THEN h.runner ELSE @, !.generation = h.round]

(* The route as the hand-off h wants it: a new generation starts afresh. *)
Claimed(copy, h) ==
  [copy EXCEPT !.remote = h.runner, !.generation = h.round,
               !.status = IF copy.generation = h.round THEN @ ELSE "starting"]

PrepareClaimRoute(p) ==
  LET q == request[p] found == Got(p, q.session) IN
  /\ q.pc = "prepare"
  /\ Get(p, q.session)
  /\ request' = [request EXCEPT ![p] =
       IF found = NoRoute THEN [q EXCEPT !.pc = "answer"]
                          ELSE [q EXCEPT !.pc = "saveClaim", !.copy = Claimed(found, q.handoff)]]
  /\ UNCHANGED <<handoffVars, managerVars, historyVars>>

(* An answer to a poll the runner has given up is a lost request.           *)
Awaited(p) ==
  LET h == request[p].handoff IN
  /\ request[p].pc = "answer"
  /\ local[h.runner] = "none"
  /\ \A o \in offers : o.runner = h.runner => o.round <= h.round

(* The runner gets its claim and starts the session's runtime ... *)
AnswerClaim(p) ==
  LET h == request[p].handoff IN
  /\ Awaited(p)
  /\ runtimes' = runtimes \cup {h}
  /\ local' = [local EXCEPT ![h.runner] = "running"]
  /\ Finish(p)
  /\ UNCHANGED <<handoffVars, routeVars, commands, historyVars>>

(* ... or cannot start it, fails the claim and polls on. *)
FailClaim(p) ==
  LET s == request[p].session IN
  /\ Awaited(p)
  /\ Offered(s) = request[p].handoff
  /\ round[s] < MaxRound
  /\ Withdraw(s)
  /\ Finish(p)
  /\ UNCHANGED <<routeVars, managerVars, historyVars>>

(* Reconciliation misses the runner of an acknowledged claim that has not   *)
(* started, by the status of the route it finds.                            *)
RequeueUnstarted(p, s) ==
  /\ round[s] < MaxRound
  /\ LeaseMayRunOut(s)
  /\ Offered(s) \in runtimes
  /\ Got(p, s).status \in {"none", "creating", "starting"}
  /\ Withdraw(s)
  /\ Get(p, s)
  /\ UNCHANGED <<request, managerVars, historyVars>>

-----------------------------------------------------------------------------
(* Calls of a runtime: a poll for commands or a status push. *)

Alive(h) == h \in runtimes \ fenced /\ local[h.runner] = "running"

(* An unknown route is a 401, which the runtime retries. A generation other *)
(* than the route's is a 409, which stops the worker that polls.            *)
Authorize(p, h, kind) ==
  LET found == Got(p, h.session) IN
  /\ Free(p, kind)
  /\ Alive(h)
  /\ found # NoRoute
  /\ Get(p, h.session)
  /\ IF found.generation = h.round
     THEN /\ request' = [request EXCEPT ![p] =
               IF kind = "poll" THEN Serving("markPoll", h.session, NoRoute, h, {})
                                ELSE Serving("markPush", h.session, found, h, {})]
          /\ UNCHANGED fenced
     ELSE /\ fenced' = IF kind = "poll" THEN fenced \cup {h} ELSE fenced
          /\ UNCHANGED request
  /\ UNCHANGED <<handoffVars, managerVars, offers, accepted>>

(* A push of a new status is saved on the copy read before; the copy of a   *)
(* session being deleted is left alone.                                     *)
Record(p) ==
  LET q == request[p] IN
  request' = [request EXCEPT ![p] =
    IF q.pc = "markPoll" \/ q.copy.deletion # 0 \/ q.copy.status = "active"
    THEN Idle
    ELSE Serving("saveStatus", q.session, [q.copy EXCEPT !.status = "active"],
                 NoHandoff(q.session), {})]

(* Slip: the generation of the route is fence enough. *)
MarkStartedByRoute(p) ==
  LET h == request[p].handoff IN
  /\ request[p].pc \in {"markPoll", "markPush"}
  /\ phase[h.session] # "gone"
  /\ phase' = [phase EXCEPT ![h.session] = "started"]
  /\ accepted' = accepted \cup {h}
  /\ Record(p)
  /\ UNCHANGED <<round, holder, admitted, routeVars, managerVars, offers, fenced>>

(* MarkStarted admits the current hand-off ... *)
MarkStarted(p) ==
  LET h == request[p].handoff IN
  /\ request[p].pc \in {"markPoll", "markPush"}
  /\ round[h.session] = h.round
  /\ Start(h.session)
  /\ accepted' = accepted \cup {h}
  /\ Record(p)
  /\ UNCHANGED <<routeVars, managerVars, offers, fenced>>

(* ... lets a session without allocation pass ... *)
MarkMissing(p) ==
  LET h == request[p].handoff IN
  /\ request[p].pc \in {"markPoll", "markPush"}
  /\ phase[h.session] \in {"new", "gone"}
  /\ accepted' = accepted \cup {h}
  /\ Record(p)
  /\ UNCHANGED <<handoffVars, routeVars, managerVars, offers, fenced>>

(* ... and answers anything else with a conflict. *)
MarkConflict(p) ==
  LET h == request[p].handoff IN
  /\ request[p].pc \in {"markPoll", "markPush"}
  /\ \/ phase[h.session] = "waiting"
     \/ phase[h.session] \in {"offered", "started"} /\ round[h.session] # h.round
  /\ fenced' = IF request[p].pc = "markPoll" THEN fenced \cup {h} ELSE fenced
  /\ Finish(p)
  /\ UNCHANGED <<handoffVars, routeVars, managerVars, offers, accepted>>

-----------------------------------------------------------------------------
(* Deletion. *)

About(pc, s, copy) == Serving(pc, s, copy, NoHandoff(s), {})

(* What is done about a deletion that is already queued. *)
ReconcileQueuedDeletion(s, copy) ==
  LET result == IF copy.deletion = 0 THEN "none" ELSE commands[s][copy.deletion].result IN
  CASE result \in {"none", "queued"} -> Idle
    [] result = "failed" ->
         About("saveFailed", s, [copy EXCEPT !.deletion = 0, !.status = "delete_failed"])
    [] result = "done" /\ copy.status # "terminated" ->
         About("saveTerminated", s, [copy EXCEPT !.status = "terminated"])
    [] OTHER -> About("forget", s, NoRoute)

(* No runner yet, or a manager that is not connected: the route is deleted  *)
(* at once.                                                                 *)
DeleteSessionLocally(p, s) ==
  LET found == Got(p, s) IN
  /\ Free(p, "delete")
  /\ found # NoRoute
  /\ Get(p, s)
  /\ request' = [request EXCEPT ![p] =
       About(IF found.remote = NoRunner THEN "forgetPending" ELSE "forget", s, NoRoute)]
  /\ UNCHANGED <<handoffVars, managerVars, historyVars>>

(* The session's route on its way out, under the next command's identifier. *)
Terminating(s, copy) ==
  About("saveDeletion", s,
        [copy EXCEPT !.deletion = Len(commands[s]) + 1, !.status = "terminating"])

(* Slip: an error of the queue goes unnoticed. *)
DeleteSessionUnqueued(p, s) ==
  /\ Free(p, "delete")
  /\ Got(p, s).remote # NoRunner
  /\ Got(p, s).deletion = 0
  /\ Get(p, s)
  /\ request' = [request EXCEPT ![p] = Terminating(s, Got(p, s))]
  /\ UNCHANGED <<handoffVars, managerVars, historyVars>>

(* A deletion is queued for the manager of the runner the copy names.       *)
DeleteSession(p, s) ==
  LET found == Got(p, s) IN
  /\ Free(p, "delete")
  /\ found.remote # NoRunner
  /\ found.deletion = 0
  /\ Len(commands[s]) < MaxDeletes
  /\ Get(p, s)
  /\ commands' = [commands EXCEPT ![s] = Append(@, [runner |-> found.remote, result |-> "queued"])]
  /\ request' = [request EXCEPT ![p] = Terminating(s, found)]
  /\ UNCHANGED <<handoffVars, runtimes, local, historyVars>>

DeleteSessionAgain(p, s) ==
  LET found == Got(p, s) IN
  /\ Free(p, "delete")
  /\ found.remote # NoRunner
  /\ found.deletion # 0
  /\ Get(p, s)
  /\ request' = [request EXCEPT ![p] = ReconcileQueuedDeletion(s, found)]
  /\ UNCHANGED <<handoffVars, managerVars, historyVars>>

(* A search finishes the queued deletions it comes across.                  *)
SearchSessions(p, s) ==
  /\ Free(p, "search")
  /\ \/ List(p) /\ request' = [request EXCEPT ![p] =
                    ReconcileQueuedDeletion(s, Listing(p)[s])]
     \/ UNCHANGED routeVars /\ request' = [request EXCEPT ![p] =
                    ReconcileQueuedDeletion(s, route[s])]
  /\ UNCHANGED <<handoffVars, managerVars, historyVars>>

(* The reconciler finishes a deletion its manager has not acknowledged for  *)
(* long. Routes without an owner it hands to the deletions above.           *)
ReconcileSessionRoutes(p, s) ==
  /\ Free(p, "reconcile")
  /\ Listing(p)[s].status \in {"terminating", "delete_failed"}
  /\ List(p)
  /\ request' = [request EXCEPT ![p] = About("forget", s, NoRoute)]
  /\ UNCHANGED <<handoffVars, managerVars, historyVars>>

ForgetRoute(p) ==
  /\ request[p].pc \in {"forget", "forgetPending"}
  /\ Delete(p, request[p].session)
  /\ Advance(p, "cleanup")
  /\ UNCHANGED <<handoffVars, managerVars, historyVars>>

(* The pending route of a deleted session may survive an error of the store. *)
ForgetFailed(p) ==
  LET s == request[p].session IN
  /\ request[p].pc = "forgetPending"
  /\ cache' = [cache EXCEPT ![p][s] = NoRoute]
  /\ listed' = [listed EXCEPT ![p] = NotListed]
  /\ Advance(p, "cleanup")
  /\ UNCHANGED <<handoffVars, route, managerVars, historyVars>>

CleanupAllocation(p) ==
  /\ request[p].pc = "cleanup"
  /\ Remove(request[p].session)
  /\ Finish(p)
  /\ UNCHANGED <<routeVars, managerVars, historyVars>>

(* The manager runs a queued deletion. A session it does not have is gone,  *)
(* which counts as done.                                                    *)
RunDeletion(s, i) ==
  /\ i \in DOMAIN commands[s]
  /\ commands[s][i].result = "queued"
  /\ LET r == commands[s][i].runner IN
     \/ /\ commands' = [commands EXCEPT ![s][i].result = "done"]
        /\ local' = [local EXCEPT ![r] = IF @ = "running" THEN "deleted" ELSE @]
     \/ /\ commands' = [commands EXCEPT ![s][i].result = "failed"]
        /\ UNCHANGED local
  /\ UNCHANGED <<handoffVars, routeVars, request, runtimes, historyVars>>

-----------------------------------------------------------------------------
(* A manager's heartbeat: session statuses, orphans, routes to repair. Its  *)
(* loops treat one session after the other; this is the round of session s. *)

Inventory == {r \in Runner : local[r] = "running"}

(* The manager reports a healthy session as active.                         *)
HeartbeatManager(p, s) ==
  LET found == Listing(p)[s] q == Serving("orphans", s, NoRoute, NoHandoff(s), Inventory) IN
  /\ Free(p, "heartbeat")
  /\ List(p)
  /\ request' = [request EXCEPT ![p] =
       IF found.remote \in Inventory /\ found.deletion = 0 /\ found.status # "active"
       THEN [q EXCEPT !.pc = "saveReported", !.copy = [found EXCEPT !.status = "active"]]
       ELSE q]
  /\ UNCHANGED <<handoffVars, managerVars, historyVars>>

(* Slip: a runner some session was offered to counts as routed. *)
OrphansNeverOffered(p, runners) ==
  {r \in runners : \A s \in Session : Listing(p)[s].remote # r /\ \A o \in offers : o.runner # r}

Orphans(p, runners) == {r \in runners : \A s \in Session : Listing(p)[s].remote # r}

FindOrphans(p) ==
  LET q == request[p] IN
  /\ q.pc = "orphans"
  /\ List(p)
  /\ request' = [request EXCEPT ![p] = [q EXCEPT !.pc = "allocations", !.runners = Orphans(p, @)]]
  /\ UNCHANGED <<handoffVars, managerVars, historyVars>>

ListAllocations(p) ==
  LET q == request[p] IN
  /\ q.pc = "allocations"
  /\ request' = [request EXCEPT ![p] =
       IF phase[q.session] \in {"offered", "started"}
       THEN [q EXCEPT !.pc = "repair", !.handoff = Offered(q.session)]
       ELSE [q EXCEPT !.pc = "respond"]]
  /\ UNCHANGED <<handoffVars, routeVars, managerVars, historyVars>>

(* Slip: only a route without runner is repaired. *)
BehindUnclaimed(copy, h) == copy # NoRoute /\ copy.remote = NoRunner

Behind(copy, h) == copy # NoRoute /\ (copy.remote = NoRunner \/ copy.generation < h.round)

(* Slip: the generation is brought forward, the runner is not. *)
RepairedGeneration(copy, h) == [copy EXCEPT !.generation = h.round]

Repaired(copy, h) == [copy EXCEPT !.remote = h.runner, !.generation = h.round]

RepairRoute(p) ==
  LET q == request[p] found == Got(p, q.session) IN
  /\ q.pc = "repair"
  /\ Get(p, q.session)
  /\ request' = [request EXCEPT ![p] =
       IF Behind(found, q.handoff)
       THEN [q EXCEPT !.pc = "saveRepaired", !.copy = Repaired(found, q.handoff),
                      !.handoff = NoHandoff(q.session)]
       ELSE [q EXCEPT !.pc = "respond", !.handoff = NoHandoff(q.session)]]
  /\ UNCHANGED <<handoffVars, managerVars, historyVars>>

(* The manager deletes the sessions it is told are orphaned.                *)
CleanupOrphans(p) ==
  /\ request[p].pc = "respond"
  /\ local' = [r \in Runner |-> IF r \in request[p].runners /\ local[r] = "running"
                                THEN "deleted" ELSE local[r]]
  /\ Finish(p)
  /\ UNCHANGED <<handoffVars, routeVars, runtimes, commands, historyVars>>

-----------------------------------------------------------------------------
Serve(p) ==
  \/ SaveRoute(p) \/ PrepareClaimRoute(p) \/ AnswerClaim(p) \/ FailClaim(p)
  \/ MarkStarted(p) \/ MarkMissing(p) \/ MarkConflict(p)
  \/ ForgetRoute(p) \/ CleanupAllocation(p)
  \/ FindOrphans(p) \/ ListAllocations(p) \/ RepairRoute(p) \/ CleanupOrphans(p)

Arrive(p) ==
  \E s \in Session :
    \/ CreatePoolSession(p, s)
    \/ \E r \in Runner : ClaimRunnerAllocation(p, s, r)
    \/ DeleteSessionLocally(p, s) \/ DeleteSession(p, s) \/ DeleteSessionAgain(p, s)
    \/ SearchSessions(p, s) \/ ReconcileSessionRoutes(p, s) \/ HeartbeatManager(p, s)

Next ==
  \/ \E p \in Replica :
       \/ Serve(p) \/ Arrive(p) \/ RequestLost(p) \/ ForgetFailed(p) \/ ListExpires(p)
       \/ \E s \in Session : CacheExpires(p, s) \/ RequeueUnstarted(p, s)
       \/ \E h \in runtimes, kind \in {"poll", "push"} : Authorize(p, h, kind)
  \/ \E s \in Session, i \in 1..MaxDeletes : RunDeletion(s, i)

Spec == Init /\ [][Next]_vars

(* A request is served, or lost where that can be; managers keep sending    *)
(* heartbeats, to whichever replica; a cached entry expires.                *)
Fairness ==
  /\ \A s \in Session : SF_vars(\E p \in Replica : HeartbeatManager(p, s))
  /\ \A p \in Replica :
       /\ WF_vars(Serve(p) \/ RequestLost(p))
       /\ WF_vars(ListExpires(p))
       /\ \A s \in Session : WF_vars(CacheExpires(p, s))

FairSpec == Spec /\ Fairness

-----------------------------------------------------------------------------
(* Properties. *)

(* Every route anybody holds of session s: stored, remembered or in hand. *)
Copies(s) ==
  {route[s]} \cup {cache[p][s] : p \in Replica} \cup {listed[p].routes[s] : p \in Replica}
    \cup {request[p].copy : p \in {q \in Replica : request[q].pc # "idle" /\ request[q].session = s}}

InService == [pc : Pc \ {"idle"}, session : Session, copy : Route,
              handoff : [session : Session, runner : Runner \cup {NoRunner}, round : Nat],
              runners : SUBSET Runner]

(* Every variable keeps its type, and every deletion a copy of a route      *)
(* names has been queued for the session's manager.                         *)
RouteTypeOK ==
  /\ phase \in [Session -> HandoffPhase] /\ round \in [Session -> Nat]
  /\ holder \in [Session -> Runner \cup {NoRunner}]
  /\ route \in [Session -> Route]
  /\ cache \in [Replica -> [Session -> Route]]
  /\ listed \in [Replica -> [valid : BOOLEAN, routes : [Session -> Route]]]
  /\ \A p \in Replica : request[p] = Idle \/ request[p] \in InService
  /\ local \in [Runner -> LocalSession]
  /\ \A s \in Session : \A i \in DOMAIN commands[s] : commands[s][i] \in Command
  /\ runtimes \subseteq offers /\ offers \subseteq Handoff
  /\ accepted \subseteq runtimes /\ fenced \subseteq runtimes
  /\ \A s \in Session : \A c \in Copies(s) : c.deletion <= Len(commands[s])

(* Whatever claims, repairs, reports and deletions overwrite, a route never *)
(* mixes two hand-offs: its runner is the one its generation was given to.  *)
(* Deletions are sent to that runner and calls are checked against that     *)
(* generation.                                                              *)
RouteNamesAHandoff ==
  \A s \in Session : \A c \in Copies(s) :
    \/ c = NoRoute
    \/ c.remote = NoRunner /\ c.generation = 1
    \/ [session |-> s, runner |-> c.remote, round |-> c.generation] \in offers

(* Routes may be stale, the calls authorised through them may not: until    *)
(* its deletion, a session's calls are all of its one started hand-off.     *)
AcceptedIsCurrent ==
  \A h \in accepted :
    \/ phase[h.session] = "gone"
    \/ phase[h.session] = "started" /\ Offered(h.session) = h

(* A session that stays with a hand-off gets the route of that hand-off,    *)
(* also when the claim could not save it or a stale copy was saved over it. *)
RouteFollowsAllocation ==
  \A s \in Session :
    <>[](phase[s] \in {"offered", "started"} /\ route[s] # NoRoute)
      => <>[](phase[s] \in {"offered", "started"} =>
                route[s].generation = round[s] /\ route[s].remote = holder[s])

(* "Removing the route makes the workload an orphan that the manager        *)
(* deletes on its next heartbeat, so this never leaks a live runtime": a    *)
(* local session no route names any more does not run for ever.             *)
LeaksNoWorkload ==
  \A r \in Runner :
    <>[](\A s \in Session : route[s].remote # r) => []<>(local[r] # "running")
=============================================================================
