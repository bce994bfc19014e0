--------------------------- MODULE SessionRequests ---------------------------
(***************************************************************************)
(* What the allocation queue promises whoever asks for a session, without  *)
(* leaders, loops, versions and notifications.  A session once given to a  *)
(* request is given to no other, and until something fails a request gets  *)
(* only one.  A request is served when its session can be found; it leaves *)
(* the queue served or deleted, or because a call failed at that moment.   *)
(* Deleting a request ends no session but its own.                         *)
(***************************************************************************)
EXTENDS Naturals

CONSTANTS
    Requests,     \* a request may get a session that bears its own name
    Stock,        \* sessions that are there before the requests
    Nobody        \* no session, or no request

VARIABLES
    asked,        \* the requests that were made
    gone,         \* the requests that were deleted
    status,       \* status[q]: "none", "waiting", "assigned" or "error"
    works,        \* works[s]: the request on which s works
    found,        \* found[q]: the session of another name that q names
    mishaps       \* what has failed so far

requestVars == <<asked, gone, status, works, found, mishaps>>

Served(q) == \/ works[q] = q
             \/ found[q] # Nobody /\ works[found[q]] = q

RequestsInit ==
    /\ asked = {} /\ gone = {}
    /\ status = [q \in Requests |-> "none"]
    /\ works = [s \in Requests \cup Stock |-> Nobody]
    /\ found = [q \in Requests |-> Nobody]
    /\ mishaps = 0

Ask(q) ==
    /\ q \notin asked
    /\ asked' = asked \cup {q}
    /\ status' = [status EXCEPT ![q] = "waiting"]
    /\ UNCHANGED <<gone, works, found>>

(* Session s begins to work on q.                                          *)
Work(s, q) ==
    /\ q \in asked /\ works[s] = Nobody
    /\ mishaps = 0 => \A t \in Requests \cup Stock : works[t] # q
    /\ works' = [works EXCEPT ![s] = q]
    /\ UNCHANGED <<asked, gone, status, found>>

Name(q, s) ==
    /\ works[s] = q \/ q \in gone
    /\ found' = [found EXCEPT ![q] = s]
    /\ UNCHANGED <<asked, gone, status, works>>

(* What is written about q; that it is served only if it is.               *)
Report(q, result) ==
    /\ q \in asked
    /\ result = "assigned" => Served(q) \/ q \in gone
    /\ status' = [status EXCEPT ![q] = result]
    /\ UNCHANGED <<asked, gone, works, found>>

(* The request leaves the queue.                                           *)
Leave(q) ==
    /\ Served(q) \/ q \in gone \/ mishaps' > mishaps
    /\ status' = [status EXCEPT ![q] = "none"]
    /\ UNCHANGED <<asked, gone, works, found>>

Delete(q) ==
    /\ q \in asked \ gone
    /\ gone' = gone \cup {q}
    /\ status' \in {status, [status EXCEPT ![q] = "none"]}
    /\ found' \in {found, [found EXCEPT ![q] = Nobody]}
    /\ works' \in {works} \cup {[works EXCEPT ![s] = Nobody] :
                                    s \in {t \in Requests \cup Stock : works[t] = q}}
    /\ UNCHANGED asked

RequestsNext ==
    /\ mishaps' \in {mishaps, mishaps + 1}
    /\ \/ \E q \in Requests :
              \/ Ask(q) \/ Leave(q) \/ Delete(q)
              \/ \E s \in Stock \cup {q} : Work(s, q)
              \/ \E s \in Stock : Name(q, s)
              \/ \E result \in {"waiting", "assigned", "error"} : Report(q, result)
       \/ UNCHANGED <<asked, gone, status, works, found>>

RequestsSpec == RequestsInit /\ [][RequestsNext]_requestVars
==============================================================================
