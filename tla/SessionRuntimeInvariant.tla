----------------------- MODULE SessionRuntimeInvariant -----------------------
(***************************************************************************)
(* An inductive invariant of SessionRuntime: what the operation that has   *)
(* the session to itself has done at each of its steps, and what a         *)
(* suspension that owns the claim has in its hands.                        *)
(***************************************************************************)
EXTENDS SessionRuntime

(* Where an operation has told the Service of its pause, ...               *)
Pausing == {"pause_suspended", "pause_agent", "pause_save", "pause_phase"}

(* ... where the session is paused, whoever paused it, ...                 *)
IsPaused == {"paused", "restart"}

(* ... where the settings that are saved are its own, ...                  *)
Resumed == {"in_phase", "in_agent", "new_phase", "new_pod", "started", "finish", "ready"}

(* ... and where the workload is known to run them.                        *)
Checked == {"finish", "ready"}

(* The agent of the workload, if there is one, has the settings that are   *)
(* saved.                                                                  *)
PodIsCurrent == pod.state # "none" => pod.settings = secret.settings

(* Where a suspension believes that the claim is its own.                  *)
Owning == {"checkpoint", "mark", "delete", "record"}

(* The operation that works is the one in the configuration, which is in   *)
(* progress, and no other has a copy of it that could still be saved.  A   *)
(* copy that is current says what the phase was before.                    *)
WorkInv ==
    /\ \A o \in Operations :
          Working(o) => cfg.request = o /\ cfg.phase \notin Ended /\ current = {o}
    /\ \A o \in Operations : At(o, "request") /\ o \in current
                             => work[o].previous = cfg.phase
    /\ \A o \in Operations : At(o, "request") \/ At(o, "idle")
                             => work[o].previous \in Ended

(* The Service holds the session from the first step of a pause until the  *)
(* restart is over, and its phase says so.                                 *)
HoldInv ==
    /\ svc.hold <=> svc.phase \notin Open
    /\ cfg.phase \in Open => ~svc.hold
    /\ \A o \in Operations :
          /\ At(o, "idle") /\ work[o].previous \in Open => ~svc.hold
          /\ work[o].pc \in Pausing => svc.phase = "pausing"
          /\ work[o].pc \in IsPaused => svc.phase \in {"paused", "process_paused"}
          /\ At(o, "ready") => ~svc.hold

(* A session that has been resumed once stays so, and no call that wakes it*)
(* writes to its Secret.                                                   *)
ResumedInv == secret.resumed /\ \A e \in Wakers : ensure[e].pc # "prepare"

(* An agent with other settings than those that are saved is there only    *)
(* while an operation is between the two, or after one has failed there.   *)
CurrentInv ==
    /\ cfg.phase \in Open => PodIsCurrent
    /\ \A o \in Operations :
          /\ At(o, "idle") /\ work[o].previous \in Open => PodIsCurrent
          /\ work[o].pc \in Resumed => secret.settings = o
          /\ work[o].pc \in Checked => PodIsCurrent

(* What is known of the agent, if the session is not fresh.                *)
SettingsInv ==
    /\ pod.state # "ready" => pod.agent = "none"
    /\ ~Fresh => ResumedInv /\ CurrentInv

(* As long as no claim has expired under its owner, whoever suspends the   *)
(* session owns it, so there is only one.                                  *)
ClaimInv ==
    used["expiries"] = 0 =>
        \A s \in Suspenders : suspend[s].pc \in Owning => svc.owner = s /\ ~svc.expired

(* What an ordinary suspension is about to delete is what it saved.        *)
SavedInv ==
    session.volume /\ session.checkpointed /\ used["expiries"] = 0 =>
        \A s \in Suspenders :
            suspend[s].pc \in {"mark", "delete"} /\ suspend[s].kind = "idle"
            => suspend[s].saved /\ pod.state # "none"

(* The inductive invariant.  RuntimeTypeOK, OneOperation, OpenIsNotHeld and*)
(* OpenRunsItsSettings follow from it, the last one if the session is not  *)
(* fresh.                                                                  *)
RuntimeInv == RuntimeTypeOK /\ WorkInv /\ HoldInv /\ SettingsInv /\ ClaimInv /\ SavedInv

(* An operation whose request is under way was not the last one: it is not *)
(* accepted a second time in a row.                                        *)
NotAgain ==
    \A o \in Operations : At(o, "request") /\ o \in current => cfg.request # o

----------------------------------------------------------------------------
(* The abstract state.                                                     *)

Stage == IF cfg.phase \in Open THEN "open"
         ELSE IF cfg.phase \in Ended THEN cfg.phase ELSE "busy"

Promised == INSTANCE SessionOperations WITH
    Nobody <- NoOne,
    phase <- Stage,
    owner <- cfg.request,
    held <- svc.hold,
    settings <- secret.settings,
    running <- IF pod.state = "none" THEN {} ELSE {pod.settings}

(* Whatever the replicas, suspensions, readers and operations do to a      *)
(* session that is not fresh, and wherever they fail: seen through the     *)
(* configuration, the Service, the agent's settings in the Secret and the  *)
(* settings of the agent at work, it is what SessionOperations promises.   *)
ImplementsOperations == Promised!OperationsSpec
==============================================================================
