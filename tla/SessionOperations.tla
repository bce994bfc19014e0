------------------------- MODULE SessionOperations -------------------------
(***************************************************************************)
(* What pauses and restarts promise for a session, without replicas,       *)
(* versions, claims or steps of a goroutine: one operation at a time has   *)
(* the session, no operation has it twice in a row, only the one that has  *)
(* it changes the settings or the hold, and it gives the session back as   *)
(* open only if nothing holds it and its agent, if there is one, was       *)
(* started with the settings that are saved.  Workloads come and go at any *)
(* time.  The settings are those of the agent: nothing is promised of the  *)
(* sandbox and the sidecars that its workload is built with.               *)
(***************************************************************************)
CONSTANTS
    Operations,   \* pauses and restarts
    Base,         \* the settings the session was started with
    Nobody        \* no operation

VARIABLES
    phase,        \* "open", "paused" or "failed", or "busy" with an operation
    owner,        \* the operation that has the session, or was the last to have it
    held,         \* are users kept from the session?
    settings,     \* the settings saved for the agent of the session
    running       \* the settings its agent was started with; empty without a workload

operationVars == <<phase, owner, held, settings, running>>

OperationsInit ==
    /\ phase = "open"
    /\ owner = Nobody
    /\ held = FALSE
    /\ settings = Base
    /\ running = {Base}

Begin(o) ==
    /\ phase # "busy" /\ owner # o
    /\ phase' = "busy" /\ owner' = o
    /\ UNCHANGED <<held, settings, running>>

Hold ==
    /\ phase = "busy"
    /\ held' = TRUE
    /\ UNCHANGED <<phase, owner, settings, running>>

Change ==
    /\ phase = "busy"
    /\ settings' = owner
    /\ UNCHANGED <<phase, owner, held, running>>

(* An agent that is there goes on with the settings of the operation.      *)
Renew ==
    /\ phase = "busy" /\ settings = owner /\ running # {}
    /\ running' = {settings}
    /\ UNCHANGED <<phase, owner, held, settings>>

(* The session runs as the operation wants it.                             *)
Release ==
    /\ phase = "busy" /\ settings = owner /\ running \subseteq {settings}
    /\ held' = FALSE
    /\ UNCHANGED <<phase, owner, settings, running>>

Reopen ==
    /\ phase = "busy" /\ ~held /\ running \subseteq {settings}
    /\ phase' = "open"
    /\ UNCHANGED <<owner, held, settings, running>>

End ==
    /\ phase = "busy"
    /\ phase' \in {"paused", "failed"}
    /\ UNCHANGED <<owner, held, settings, running>>

Remove ==
    /\ running' = {}
    /\ UNCHANGED <<phase, owner, held, settings>>

Create ==
    /\ running = {}
    /\ running' = {settings}
    /\ UNCHANGED <<phase, owner, held, settings>>

OperationsNext ==
    \/ \E o \in Operations : Begin(o)
    \/ Hold \/ Change \/ Renew \/ Release \/ Reopen \/ End
    \/ Remove \/ Create

OperationsSpec == OperationsInit /\ [][OperationsNext]_operationVars
=============================================================================
