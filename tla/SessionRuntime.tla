--------------------------- MODULE SessionRuntime ---------------------------
(***************************************************************************)
(* The workload of one Kubernetes session: suspended when idle, recreated  *)
(* when somebody reads the session, paused and restarted with new settings.*)
(*                                                                         *)
(* What lasts is the session's Service with its annotations, the settings  *)
(* Secret and the saved configuration of the session.  The workload is a   *)
(* Pod that can be deleted and made again.  Every replica of the manager   *)
(* runs the suspend reconciler and keeps a status of the session in memory,*)
(* which its watchers bring up to date; an operation (pause or restart) is *)
(* a goroutine of one replica.                                             *)
(*                                                                         *)
(* A Get followed by an Update with the version it read either applies to  *)
(* what it read or fails: it is one step, with failure as an alternative.  *)
(* A merge patch is one step that cannot fail on a version.                *)
(***************************************************************************)
EXTENDS Naturals, FiniteSets

CONSTANTS
    Replicas,        \* of the session manager
    Reconciliations, \* calls that suspend the session: because its deadline passed,
    SuspendRequests, \* because somebody asked for it,
    Terminations,    \* and because its workload is being replaced
    Readers,         \* requests for the session's chat routes
    Operations,      \* idempotency keys of pause and restart requests
    Kinds,           \* what operations there are: "pause", "restart" and "replace"
    Base,            \* the settings the session was started with
    Volumes,         \* may the workload be a Deployment on a volume?
    Checkpoints,     \* may suspensions of the session need a checkpoint?
    Published,       \* statuses of the session that a replica may find in Redis
    Fresh,           \* has the session never been resumed, so that the first call
                     \* that wakes it writes to its settings?
    MaxTurns,        \* prompts
    MaxDeadlines,    \* how often the idle deadline passes
    MaxExpiries,     \* claims of suspensions that expire while the owner is alive
    MaxFaults        \* crashes of replicas, evictions and restarts of the workload,
                     \* and failed calls, together

NoOne == "none"
Suspensions == Reconciliations \cup SuspendRequests \cup Terminations

ASSUME NameAssumption == /\ Suspensions \cap Operations = {}
                         /\ Readers \cap Operations = {}
                         /\ Base \notin Operations
                         /\ Kinds \subseteq {"pause", "restart", "replace"}
                         /\ NoOne \notin Suspensions \cup Operations
ASSUME BoundAssumption == /\ Volumes \subseteq BOOLEAN /\ Volumes # {}
                          /\ Checkpoints \subseteq BOOLEAN /\ Checkpoints # {}
                          /\ Published \subseteq {"active", "running"}
                          /\ Fresh \in BOOLEAN
                          /\ {MaxTurns, MaxDeadlines, MaxExpiries, MaxFaults} \subseteq Nat

VARIABLES
    session,    \* whether its workload is a Deployment on a volume, and whether it is
                \* suspended only with a checkpoint
    svc,        \* the annotations of the Service
    secret,     \* the settings Secret
    pod,        \* the workload
    mem,        \* mem[r]: the session's status in the memory of replica r
    known,      \* known[r]: the sandbox, Docker and storages in r's copy of the request
    watch,      \* watch[r]: r watches the workload, and its agent over a stream that is
                \* open to the present workload or broken
    timer,      \* timer[r]: scheduleSuspendWhenRestoredWorkloadReady runs at r
    suspend,    \* suspend[s]: a call that suspends
    ensure,     \* ensure[e]: a call that wakes the session
    cfg,        \* the saved configuration: phase and idempotency key
    current,    \* operations whose copy of the configuration is the saved one
    work,       \* work[o]: the goroutine of operation o
    used        \* how much of each bound is used

vars == <<session, svc, secret, pod, mem, known, watch, timer, suspend, ensure, cfg, current,
          work, used>>

----------------------------------------------------------------------------
Suspenders == Suspensions \cup Operations
Wakers == Readers \cup Operations
Settings == {Base} \cup Operations
Bounds == {"turns", "deadlines", "expiries", "faults"}
Spend(b) == used' = [used EXCEPT ![b] = @ + 1]

Service == [suspendAt : {"none", "later", "due"},
            suspendedAt : BOOLEAN,
            owner : Suspenders \cup {NoOne},
            expired : BOOLEAN,              \* the owner's claim
            hold : BOOLEAN,
            request : Operations \cup {NoOne, "manual"},
            phase : {"", "pausing", "paused", "process_paused", "stopping",
                     "resuming", "ready", "failed"}]

(* The settings of the agent, which it reads from the Secret, and those the*)
(* Pod is built with: sandbox, Docker and storages, its frame.             *)
Frames == Settings \cup {NoOne}
Secret == [settings : Settings, frame : Frames, resumed : BOOLEAN]

Workload == [state : {"none", "starting", "ready"},
             agent : {"none", "idle", "busy", "paused"},
             settings : Settings, frame : Frames]
NoPod == [state |-> "none", agent |-> "none", settings |-> Base, frame |-> NoOne]

Statuses == {"none", "active", "running", "starting", "unhealthy", "stopped", "suspended"}

SuspendPCs == {"off", "acquire", "checkpoint", "mark", "delete", "record", "done",
               "failed"}
EnsurePCs == {"off", "check", "prepare", "clear", "create", "served", "refused"}
WorkPCs == {"off", "request", "idle", "pausing", "pause", "pause_suspended",
            "pause_agent", "pause_save", "pause_phase", "paused", "restart",
            "in_secret", "in_phase", "in_agent",
            "stop_phase", "stop_suspend", "stop_wait", "new_secret", "new_phase",
            "new_pod", "started", "finish", "ready", "undo", "fail"}

Open == {"", "ready"}
Ended == Open \cup {"paused", "failed"}
Phases == Ended \cup {"waiting_idle", "pausing", "restarting"}

(* previous: the phase before the operation; paused: RestartSession has    *)
(* read from the Service that the process is paused.                       *)
IdleWork == [pc |-> "off", at |-> NoOne, kind |-> "pause", previous |-> "",
             paused |-> FALSE]
NoSuspend == [pc |-> "off", at |-> NoOne, kind |-> "idle", saved |-> FALSE]
(* The settings the session was started with.                              *)
Given == [settings |-> Base, frame |-> Base, resumed |-> ~Fresh]
NoEnsure == [pc |-> "off", at |-> NoOne, copy |-> Given]

(* Only the result of a call that is over is kept.                         *)
SuspendEnds(s, result) ==
    suspend' = [suspend EXCEPT ![s] = [NoSuspend EXCEPT !.pc = result]]
EnsureEnds(e, result) ==
    ensure' = [ensure EXCEPT ![e] = [NoEnsure EXCEPT !.pc = result]]

Live(o) == work[o].pc # "off"

(* getSessionStatusFromDeployment; restoreSessionFromService gives the     *)
(* Service the last word, restoreSessionFromServiceWithWorkload only when  *)
(* there is no workload.                                                   *)
FromWorkload == CASE pod.state = "ready" -> "active"
                  [] pod.state = "starting" -> "starting"
                  [] OTHER -> "stopped"
Restored(listed) == IF svc.suspendedAt /\ (listed => pod.state = "none")
                    THEN "suspended" ELSE FromWorkload

(* runtimeStatusOverrideFromRedis: what some replica last published may be *)
(* preferred to it.                                                        *)
Overlaid(status) == IF status \in {"active", "suspended"}
                    THEN {status} \cup Published ELSE {status}

(* statusWatcherTerminal.                                                  *)
Terminal == {"stopped", "suspended"}

(* Slip: the deadline is written in a form that the reconciler cannot read.*)
ScheduledUnreadable == [svc EXCEPT !.suspendAt = "unreadable", !.suspendedAt = FALSE]

(* The patch of ScheduleSessionSuspend.                                    *)
Scheduled == [svc EXCEPT !.suspendAt = "later", !.suspendedAt = FALSE]

Init ==
    /\ session \in [volume : Volumes, checkpointed : Checkpoints]
    /\ svc = [suspendAt |-> "later", suspendedAt |-> FALSE, owner |-> NoOne,
              expired |-> FALSE, hold |-> FALSE, request |-> NoOne, phase |-> ""]
    /\ secret = Given
    /\ pod = [state |-> "ready", agent |-> "idle", settings |-> Base, frame |-> Base]
    /\ mem = [r \in Replicas |-> "none"]
    /\ known = [r \in Replicas |-> NoOne]
    /\ watch = [r \in Replicas |-> "off"]
    /\ timer = [r \in Replicas |-> FALSE]
    /\ suspend = [s \in Suspenders |-> NoSuspend]
    /\ ensure = [e \in Wakers |-> NoEnsure]
    /\ cfg = [phase |-> "", request |-> NoOne]
    /\ current = {}
    /\ work = [o \in Operations |-> IdleWork]
    /\ used = [b \in Bounds |-> 0]

opVars == <<cfg, current, work>>
memVars == <<mem, known, watch, timer>>

----------------------------------------------------------------------------
(* What a replica knows.                                                   *)

(* GetSession: a session that is not in memory is restored from its Service*)
(* and watched from then on.  What its Pod is built with is not restored.  *)
GetSession(r) ==
    /\ mem[r] = "none"
    /\ \E listed \in BOOLEAN :
           LET restored == Restored(listed)
               watched == ~listed \/ restored # "suspended"
           IN  /\ \E status \in Overlaid(restored) :
                      /\ mem' = [mem EXCEPT ![r] = status]
                      /\ watch' = [watch EXCEPT ![r] =
                             CASE ~watched -> "off"
                               [] watched /\ status \in Terminal -> "workload"
                               [] OTHER -> "open"]
               /\ timer' = [timer EXCEPT ![r] = watched]
    /\ known' = [known EXCEPT ![r] = NoOne]
    /\ UNCHANGED <<session, svc, secret, pod, suspend, ensure, opVars, used>>

(* streamAgentAPIEvents: an event sets the status whatever it was before;  *)
(* the end of a turn also moves the suspend deadline.  A stream that broke *)
(* is opened again, ...                                                    *)
WatchAgent(r) ==
    /\ watch[r] = "open" \/ (watch[r] = "broken" /\ mem[r] \notin Terminal)
    /\ pod.state = "ready"
    /\ watch' = [watch EXCEPT ![r] = "open"]
    /\ \/ /\ pod.agent = "busy" /\ mem[r] # "running"
          /\ mem' = [mem EXCEPT ![r] = "running"]
          /\ UNCHANGED svc
       \/ /\ pod.agent = "idle" /\ mem[r] # "active"
          /\ mem' = [mem EXCEPT ![r] = "active"]
          /\ svc' = Scheduled
    /\ UNCHANGED <<session, secret, pod, known, timer, suspend, ensure, opVars, used>>

(* ... watchAgentAPIStatus: unless the status is terminal by then.         *)
LeaveAgent(r) ==
    /\ watch[r] = "broken" /\ mem[r] \in Terminal
    /\ watch' = [watch EXCEPT ![r] = "workload"]
    /\ UNCHANGED <<session, svc, secret, pod, mem, known, timer, suspend, ensure, opVars,
                   used>>

(* watchDeploymentStatus: the workload is not there, is not ready, whatever*)
(* the status was, or is ready again.                                      *)
WatchWorkload(r) ==
    /\ watch[r] # "off"
    /\ \/ /\ pod.state = "none"
          /\ mem' = [mem EXCEPT ![r] = IF @ = "suspended" THEN @ ELSE "stopped"]
          /\ watch' = [watch EXCEPT ![r] = "off"]
       \/ /\ pod.state = "starting" /\ mem[r] # "unhealthy"
          /\ mem' = [mem EXCEPT ![r] = "unhealthy"]
          /\ UNCHANGED watch
       \/ /\ pod.state = "ready" /\ mem[r] \in {"unhealthy", "stopped"}
          /\ mem' = [mem EXCEPT ![r] = "active"]
          /\ UNCHANGED watch
    /\ UNCHANGED <<session, svc, secret, pod, known, timer, suspend, ensure, opVars, used>>

(* scheduleSuspendWhenRestoredWorkloadReady, which does not wait for ever. *)
ScheduleRestored(r) ==
    /\ timer[r]
    /\ svc' = IF pod.state = "ready" THEN Scheduled ELSE svc
    /\ timer' = [timer EXCEPT ![r] = FALSE]
    /\ UNCHANGED <<session, secret, pod, mem, known, watch, suspend, ensure, opVars,
                   used>>

DeadlinePasses ==
    /\ svc.suspendAt = "later" /\ used["deadlines"] < MaxDeadlines
    /\ svc' = [svc EXCEPT !.suspendAt = "due"]
    /\ Spend("deadlines")
    /\ UNCHANGED <<session, secret, pod, memVars, suspend, ensure, opVars>>

----------------------------------------------------------------------------
(* The workload and its agent.                                             *)

PodReady ==
    /\ pod.state = "starting"
    /\ pod' = [pod EXCEPT !.state = "ready", !.agent = "idle"]
    /\ UNCHANGED <<session, svc, secret, memVars, suspend, ensure, opVars, used>>

(* A prompt; checkRestartHold lets it through only between operations.     *)
Turn ==
    /\ cfg.phase \in Open /\ used["turns"] < MaxTurns
    /\ pod.state = "ready" /\ pod.agent = "idle"
    /\ pod' = [pod EXCEPT !.agent = "busy"]
    /\ Spend("turns")
    /\ UNCHANGED <<session, svc, secret, memVars, suspend, ensure, opVars>>

TurnEnds ==
    /\ pod.agent = "busy"
    /\ pod' = [pod EXCEPT !.agent = "idle"]
    /\ UNCHANGED <<session, svc, secret, memVars, suspend, ensure, opVars, used>>

(* A Pod vanishes with its node.  One on a volume is told first, saves what*)
(* it has and asks for a suspension, see Terminate.                        *)
Evict ==
    /\ pod.state # "none" /\ ~session.volume /\ used["faults"] < MaxFaults
    /\ pod' = NoPod
    /\ Spend("faults")
    /\ UNCHANGED <<session, svc, secret, memVars, suspend, ensure, opVars>>

----------------------------------------------------------------------------
(* Suspension.                                                             *)

(* reconcileSessionSuspends: the deadline of a session that is not held has*)
(* passed.  A running session is rescheduled.                              *)
Reconcile(s, r) ==
    /\ suspend[s].pc = "off" /\ mem[r] # "none"
    /\ ~svc.hold /\ svc.suspendAt = "due"
    /\ \/ /\ mem[r] = "running" /\ svc' = Scheduled /\ UNCHANGED suspend
       \/ /\ mem[r] \notin {"running", "suspended"}
          /\ suspend' = [suspend EXCEPT ![s].pc = "acquire", ![s].at = r]
          /\ UNCHANGED svc
    /\ UNCHANGED <<session, secret, pod, memVars, ensure, opVars, used>>

(* SuspendSession on request.                                              *)
SuspendSession(s, r) ==
    /\ suspend[s].pc = "off"
    /\ mem[r] \notin {"none", "running", "suspended"}
    /\ cfg.phase \in Open
    /\ suspend' = [suspend EXCEPT ![s].pc = "acquire", ![s].at = r]
    /\ UNCHANGED <<session, svc, secret, pod, memVars, ensure, opVars, used>>

(* PrepareForTermination and SuspendSessionOnTermination: the agent has    *)
(* stopped and flushed its state, and the proxy is asked to suspend before *)
(* the Deployment has replaced the Pod.                                    *)
Terminate(s, r) ==
    /\ session.volume /\ used["faults"] < MaxFaults
    /\ suspend[s].pc = "off" /\ mem[r] \notin {"none", "suspended"}
    /\ pod.state = "ready"
    /\ pod' = [pod EXCEPT !.state = "starting", !.agent = "none"]
    /\ suspend' = [suspend EXCEPT ![s] = [pc |-> "acquire", at |-> r,
                                          kind |-> "termination", saved |-> TRUE]]
    /\ Spend("faults")
    /\ UNCHANGED <<session, svc, secret, memVars, ensure, opVars>>

Unowned == svc.owner = NoOne \/ svc.expired

(* acquireSessionSuspendOwnership.  Whoever does not get the claim leaves  *)
(* the session to its owner and reports no error, also when it was another *)
(* change of the Service that made the update fail.  Only an ordinary      *)
(* suspension checkpoints, and only a session of which                     *)
(* requiresSessionCheckpoint holds.                                        *)
Acquire(s) ==
    /\ suspend[s].pc = "acquire"
    /\ \/ /\ Unowned
          /\ svc' = [svc EXCEPT !.owner = s, !.expired = FALSE]
          /\ suspend' = [suspend EXCEPT
                 ![s].pc = IF suspend[s].kind = "idle" /\ session.checkpointed
                           THEN "checkpoint" ELSE "mark"]
          /\ UNCHANGED used
       \/ /\ ~Unowned
          /\ SuspendEnds(s, "done")
          /\ UNCHANGED <<svc, used>>
       \/ /\ used["faults"] < MaxFaults /\ Spend("faults")
          /\ \E result \in {"done", "failed"} : SuspendEnds(s, result)
          /\ UNCHANGED svc
    /\ UNCHANGED <<session, secret, pod, memVars, ensure, opVars>>

(* sessionSuspendOwnershipTTL passes while the owner waits for the agent's *)
(* checkpoint, or after it crashed.                                        *)
ClaimExpires ==
    /\ svc.owner # NoOne /\ ~svc.expired
    /\ svc' = [svc EXCEPT !.expired = TRUE]
    /\ \/ /\ suspend[svc.owner].pc \in {"done", "failed", "off", "acquire"}
          /\ UNCHANGED used
       \/ /\ suspend[svc.owner].pc = "checkpoint" /\ used["expiries"] < MaxExpiries
          /\ Spend("expiries")
    /\ UNCHANGED <<session, secret, pod, memVars, suspend, ensure, opVars>>

(* Slip: the claim on the Service is dropped whoever holds it.             *)
DisownAny(s) == svc' = [svc EXCEPT !.owner = NoOne, !.expired = FALSE]

(* releaseSessionSuspendOwnership.                                         *)
Disown(s) ==
    svc' = IF svc.owner = s THEN [svc EXCEPT !.owner = NoOne, !.expired = FALSE]
                            ELSE svc

(* Slip: a checkpoint that failed is taken for one that was made.          *)
CheckpointIgnored(s) ==
    /\ suspend[s].pc = "checkpoint"
    /\ suspend' = [suspend EXCEPT ![s].pc = "mark", ![s].saved = pod.state = "ready"]
    /\ UNCHANGED <<session, svc, secret, pod, memVars, ensure, opVars, used>>

(* checkpointSessionState: the agent writes a snapshot of its conversation,*)
(* or cannot.                                                              *)
Checkpoint(s) ==
    /\ suspend[s].pc = "checkpoint"
    /\ \/ /\ pod.state = "ready"
          /\ suspend' = [suspend EXCEPT ![s].pc = "mark", ![s].saved = TRUE]
          /\ UNCHANGED svc
       \/ /\ SuspendEnds(s, "failed")
          /\ Disown(s)
    /\ UNCHANGED <<session, secret, pod, memVars, ensure, opVars, used>>

(* suspendSessionWorkloadOwned: the status in memory first, so that the    *)
(* watcher does not take the deletion for a stop; ...                      *)
MarkSuspended(s) ==
    /\ suspend[s].pc = "mark"
    /\ mem' = [mem EXCEPT ![suspend[s].at] = "suspended"]
    /\ suspend' = [suspend EXCEPT ![s].pc = "delete"]
    /\ UNCHANGED <<session, svc, secret, pod, known, watch, timer, ensure, opVars, used>>

(* ... then the workload, whatever has become of the claim; ...  A call    *)
(* that fails, whether or not it had its effect, ends the suspension; the  *)
(* status in memory and the claim stay.                                    *)
DeleteWorkload(s) ==
    /\ suspend[s].pc = "delete"
    /\ \/ /\ pod' = NoPod
          /\ suspend' = [suspend EXCEPT ![s].pc = "record"]
          /\ UNCHANGED used
       \/ /\ used["faults"] < MaxFaults /\ Spend("faults")
          /\ pod' \in {pod, NoPod}
          /\ SuspendEnds(s, "failed")
    /\ UNCHANGED <<session, svc, secret, memVars, ensure, opVars>>

(* ... then the Service, which records the suspension for its owner only.  *)
RecordSuspended(s) ==
    /\ suspend[s].pc = "record"
    /\ \/ /\ svc.owner = s
          /\ svc' = [svc EXCEPT !.suspendAt = "none", !.suspendedAt = TRUE,
                                !.owner = NoOne, !.expired = FALSE]
          /\ SuspendEnds(s, "done")
          /\ UNCHANGED used
       \/ /\ \/ svc.owner # s /\ UNCHANGED used
             \/ used["faults"] < MaxFaults /\ Spend("faults")
          /\ SuspendEnds(s, "failed")
          /\ UNCHANGED svc
    /\ UNCHANGED <<session, secret, pod, memVars, ensure, opVars>>

----------------------------------------------------------------------------
(* Waking the session.                                                     *)

(* A read of a chat route; checkRestartHold refuses it during an operation.*)
Read(e, r) ==
    /\ ensure[e].pc \in {"off", "served", "refused"}
    /\ mem[r] # "none" /\ cfg.phase \in Open
    /\ ensure' = [ensure EXCEPT ![e] = [NoEnsure EXCEPT !.pc = "check", !.at = r]]
    /\ UNCHANGED <<session, svc, secret, pod, memVars, suspend, opVars, used>>

(* Slip: the status is left as it is.                                      *)
WokenAsIs(status) == status

(* The status when somebody waits for a workload that is not ready.        *)
Woken(status) == "starting"

(* EnsureSessionWorkload up to the point where the workload is missing.    *)
(* Only the restart itself passes a hold.  Whoever finds a workload that is*)
(* not ready, or that this replica has marked suspended, asks again.       *)
CheckWorkload(e) ==
    LET r == ensure[e].at
    IN  /\ ensure[e].pc = "check" /\ mem[r] # "none"
        /\ \/ /\ svc.hold /\ e \notin Operations
              /\ EnsureEnds(e, "refused") /\ UNCHANGED mem
           \/ /\ ~svc.hold \/ e \in Operations
              /\ \/ /\ pod.state = "ready" /\ mem[r] # "suspended"
                    /\ EnsureEnds(e, "served") /\ UNCHANGED mem
                 \/ /\ pod.state = "starting" \/ (pod.state = "ready"
                                                  /\ mem[r] = "suspended")
                    /\ mem' = [mem EXCEPT ![r] = Woken(@)]
                    /\ UNCHANGED ensure
                 \/ /\ pod.state = "none"
                    /\ ensure' = [ensure EXCEPT
                           ![e].pc = IF secret.resumed THEN "clear" ELSE "prepare",
                           ![e].copy = IF secret.resumed THEN @ ELSE secret]
                    /\ UNCHANGED mem
        /\ UNCHANGED <<session, svc, secret, pod, known, watch, timer, suspend,
                       opVars, used>>

(* preparePersistentWorkloadResume: the first time, the settings are saved *)
(* with the conversation to resume, as they were read before.              *)
PrepareWake(e) ==
    /\ ensure[e].pc = "prepare"
    /\ secret' = [ensure[e].copy EXCEPT !.resumed = TRUE]
    /\ known' = [known EXCEPT ![ensure[e].at] = ensure[e].copy.frame]
    /\ ensure' = [ensure EXCEPT ![e].pc = "clear", ![e].copy = Given]
    /\ UNCHANGED <<session, svc, pod, mem, watch, timer, suspend, opVars, used>>

(* clearSessionSuspendState; the claim of a suspension stays.              *)
ClearSuspend(e) ==
    /\ ensure[e].pc = "clear"
    /\ svc' = [svc EXCEPT !.suspendAt = "none", !.suspendedAt = FALSE]
    /\ ensure' = [ensure EXCEPT ![e].pc = "create"]
    /\ UNCHANGED <<session, secret, pod, memVars, suspend, opVars, used>>

(* The Pod is built from the request as replica r has it in memory; the    *)
(* agent in it reads its settings from the Secret.                         *)
NewPod(r) == [state |-> "starting", agent |-> "none",
              settings |-> secret.settings, frame |-> known[r]]

(* createPod or createDeployment; that it exists already is no error.  The *)
(* caller asks again until the workload is ready.  What others have open to*)
(* or saved of the workload before is not of this one.                     *)
CreateWorkload(e) ==
    \E r \in Replicas :
        LET new == pod.state = "none"
        IN  /\ ensure[e].pc = "create" /\ ensure[e].at = r
            /\ pod' = IF new THEN NewPod(r) ELSE pod
            /\ suspend' = [s \in Suspenders |->
                               [suspend[s] EXCEPT !.saved = @ /\ ~new]]
            /\ watch' = [q \in Replicas |->
                             CASE q = r -> "open"
                               [] q # r /\ new /\ watch[q] = "open" -> "broken"
                               [] OTHER -> watch[q]]
            /\ mem' = [mem EXCEPT ![r] = "starting"]
            /\ timer' = [timer EXCEPT ![r] = TRUE]
            /\ ensure' = [ensure EXCEPT ![e].pc = "check"]
            /\ UNCHANGED <<session, svc, secret, known, opVars, used>>

----------------------------------------------------------------------------
(* Pause and restart.                                                      *)

At(o, pc) == work[o].pc = pc
Goto(o, pc) == work' = [work EXCEPT ![o].pc = pc]
End(o) == work' = [work EXCEPT ![o] = IdleWork]

(* Slip: the version is not compared.                                      *)
SaveBlind(o, phase) ==
    /\ cfg' = [phase |-> phase, request |-> o]
    /\ current' = {o}

(* SaveConfiguration: compare and swap on the version of o's copy.         *)
Save(o, phase) ==
    /\ o \in current
    /\ cfg' = [phase |-> phase, request |-> o]
    /\ current' = {o}

(* Save, and what is next; a copy that is not current ends the operation,  *)
(* for the failure cannot be saved with it either.                         *)
SaveThen(o, phase, Next_) ==
    \/ Save(o, phase) /\ Next_
    \/ o \notin current /\ End(o) /\ UNCHANGED <<cfg, current>>

(* setRestartPhase.                                                        *)
SetPhase(request, phase) ==
    svc' = [svc EXCEPT !.hold = TRUE, !.request = request, !.phase = phase]

(* Slip: an idempotency key is not compared with the last one.             *)
RequestAgain(o, r) ==
    /\ ~Live(o) /\ mem[r] # "none" /\ session.checkpointed
    /\ cfg.phase \in Ended
    /\ \E kind \in Kinds :
           work' = [work EXCEPT ![o] = [IdleWork EXCEPT !.pc = "request", !.at = r,
                                        !.kind = kind, !.previous = cfg.phase]]
    /\ current' = current \cup {o}
    /\ UNCHANGED <<session, svc, secret, pod, memVars, suspend, ensure, cfg, used>>

(* changeSessionRuntime reads the configuration, ...                       *)
Request(o, r) ==
    /\ ~Live(o) /\ mem[r] # "none" /\ session.checkpointed
    /\ cfg.request # o /\ cfg.phase \in Ended
    /\ \E kind \in Kinds :
           work' = [work EXCEPT ![o] = [IdleWork EXCEPT !.pc = "request", !.at = r,
                                        !.kind = kind, !.previous = cfg.phase]]
    /\ current' = current \cup {o}
    /\ UNCHANGED <<session, svc, secret, pod, memVars, suspend, ensure, cfg, used>>

(* ... validates the settings, and saves the operation.                    *)
Accept(o) ==
    /\ At(o, "request")
    /\ SaveThen(o, "waiting_idle", Goto(o, "idle"))
    /\ UNCHANGED <<session, svc, secret, pod, memVars, suspend, ensure, used>>

(* waitRestartIdle.                                                        *)
WaitIdle(o) ==
    /\ At(o, "idle") /\ mem[work[o].at] # "running"
    /\ work' = [work EXCEPT ![o].pc = "pausing", ![o].previous = ""]
    /\ UNCHANGED <<session, svc, secret, pod, memVars, suspend, ensure, cfg, current,
                   used>>

StartPausing(o) ==
    /\ At(o, "pausing")
    /\ SaveThen(o, "pausing", Goto(o, "pause"))
    /\ UNCHANGED <<session, svc, secret, pod, memVars, suspend, ensure, used>>

(* PauseSession: nothing to do, or the hold first.                         *)
Pause(o) ==
    /\ At(o, "pause")
    /\ \/ /\ svc.hold /\ svc.phase \in {"process_paused", "paused"}
          /\ Goto(o, "paused") /\ UNCHANGED svc
       \/ /\ ~(svc.hold /\ svc.phase \in {"process_paused", "paused"})
          /\ SetPhase("manual", "pausing")
          /\ Goto(o, "pause_suspended")
    /\ UNCHANGED <<session, secret, pod, memVars, suspend, ensure, cfg, current, used>>

(* A suspended session needs no pausing.                                   *)
PauseSuspended(o) ==
    /\ At(o, "pause_suspended")
    /\ \/ /\ mem[work[o].at] = "suspended"
          /\ SetPhase("manual", "paused")
          /\ Goto(o, "paused")
       \/ /\ mem[work[o].at] # "suspended"
          /\ Goto(o, "pause_agent") /\ UNCHANGED svc
    /\ UNCHANGED <<session, secret, pod, memVars, suspend, ensure, cfg, current, used>>

(* provisionerLifecycle "pause" and pauseAgent; nobody answers when there  *)
(* is no ready workload.                                                   *)
PauseAgent(o) ==
    /\ At(o, "pause_agent")
    /\ IF pod.state = "ready"
       THEN pod' = [pod EXCEPT !.agent = "paused"] /\ Goto(o, "pause_save")
       ELSE Goto(o, "fail") /\ UNCHANGED pod
    /\ UNCHANGED <<session, svc, secret, memVars, suspend, ensure, cfg, current, used>>

(* checkpointSessionState, and PrepareSessionResume with the settings as   *)
(* they are: the session is resumed from the checkpoint, and the replica   *)
(* knows all of its settings.                                              *)
PauseCheckpoint(o) ==
    /\ At(o, "pause_save")
    /\ IF pod.state = "ready"
       THEN /\ secret' = [secret EXCEPT !.resumed = TRUE]
            /\ known' = [known EXCEPT ![work[o].at] = secret.frame]
            /\ Goto(o, "pause_phase")
       ELSE Goto(o, "fail") /\ UNCHANGED <<secret, known>>
    /\ UNCHANGED <<session, svc, pod, mem, watch, timer, suspend, ensure, cfg, current,
                   used>>

ProcessPaused(o) ==
    /\ At(o, "pause_phase")
    /\ SetPhase("manual", "process_paused")
    /\ Goto(o, "paused")
    /\ UNCHANGED <<session, secret, pod, memVars, suspend, ensure, cfg, current, used>>

(* The pause is over; a restart goes on, a pause reports it.               *)
Paused(o) ==
    /\ At(o, "paused")
    /\ \/ work[o].kind = "pause" /\ SaveThen(o, "paused", End(o))
       \/ work[o].kind # "pause" /\ SaveThen(o, "restarting", Goto(o, "restart"))
    /\ UNCHANGED <<session, svc, secret, pod, memVars, suspend, ensure, used>>

(* RestartSession: done already, refused, in place, or with a new workload.*)
Restart(o) ==
    LET finished == svc.request = o /\ svc.phase = "ready"
        other == /\ svc.hold /\ svc.request # o
                 /\ svc.phase \notin {"paused", "process_paused", "failed"}
        inPlace == svc.phase = "process_paused" /\ work[o].kind = "restart"
    IN  /\ At(o, "restart")
        /\ work' = [work EXCEPT ![o].paused = svc.phase = "process_paused",
                                ![o].pc = CASE finished -> "ready"
                                            [] ~finished /\ other -> "fail"
                                            [] ~finished /\ ~other /\ inPlace -> "in_secret"
                                            [] OTHER -> "stop_phase"]
        /\ UNCHANGED <<session, svc, secret, pod, memVars, suspend, ensure, cfg, current,
                       used>>

(* What the settings of o say the Pod is to be built with: what they said  *)
(* before, or else the workload has to be replaced.                        *)
FrameOf(o) == IF work[o].kind = "replace" THEN o ELSE secret.frame

(* Slip: a restart in place hands its settings to the agent only.          *)
PrepareNewWorkload(o) ==
    /\ \/ At(o, "in_secret") /\ Goto(o, "in_phase") /\ UNCHANGED secret
       \/ /\ At(o, "new_secret") /\ Goto(o, "new_phase")
          /\ secret' = [settings |-> o, frame |-> FrameOf(o), resumed |-> TRUE]
    /\ known' = [known EXCEPT ![work[o].at] = FrameOf(o)]
    /\ UNCHANGED <<session, svc, pod, mem, watch, timer, suspend, ensure, cfg,
                   current, used>>

(* PrepareSessionResume: the new settings are written to the Secret, and   *)
(* to the request that the replica has in memory.                          *)
PrepareResume(o) ==
    /\ \/ At(o, "in_secret") /\ Goto(o, "in_phase")
       \/ At(o, "new_secret") /\ Goto(o, "new_phase")
    /\ secret' = [settings |-> o, frame |-> FrameOf(o), resumed |-> TRUE]
    /\ known' = [known EXCEPT ![work[o].at] = FrameOf(o)]
    /\ UNCHANGED <<session, svc, pod, mem, watch, timer, suspend, ensure, cfg,
                   current, used>>

Resuming(o) ==
    /\ SetPhase(o, "resuming")
    /\ \/ At(o, "in_phase") /\ Goto(o, "in_agent") /\ UNCHANGED ensure
       \/ /\ At(o, "new_phase") /\ Goto(o, "new_pod")
          /\ ensure' = [ensure EXCEPT
                 ![o] = [NoEnsure EXCEPT !.pc = "check", !.at = work[o].at]]
    /\ UNCHANGED <<session, secret, pod, memVars, suspend, cfg, current, used>>

(* provisionerLifecycle "restart" and handleRestartAgent: the agent is     *)
(* provisioned anew with the settings that came with the call.             *)
RestartAgent(o) ==
    /\ At(o, "in_agent")
    /\ IF pod.state = "ready"
       THEN /\ pod' = [pod EXCEPT !.agent = "idle", !.settings = o]
            /\ Goto(o, "started")
       ELSE Goto(o, "undo") /\ UNCHANGED pod
    /\ UNCHANGED <<session, svc, secret, memVars, suspend, ensure, cfg, current, used>>

(* The old workload is to go: without a checkpoint if its process is       *)
(* paused, else as in SuspendSession.                                      *)
StopWorkload(o) ==
    LET status == mem[work[o].at]
        Suspend(kind) == suspend' = [suspend EXCEPT ![o] =
                             [NoSuspend EXCEPT !.pc = "acquire", !.at = work[o].at,
                                               !.kind = kind]]
    IN  /\ At(o, "stop_phase")
        /\ SetPhase(o, "stopping")
        /\ CASE work[o].paused ->
                  Suspend("paused") /\ Goto(o, "stop_suspend")
             [] ~work[o].paused /\ status = "suspended" ->
                  Goto(o, "stop_wait") /\ UNCHANGED suspend
             [] ~work[o].paused /\ status = "running" ->
                  Goto(o, "undo") /\ UNCHANGED suspend
             [] OTHER -> Suspend("idle") /\ Goto(o, "stop_suspend")
        /\ UNCHANGED <<session, secret, pod, memVars, ensure, cfg, current, used>>

StopSuspended(o) ==
    /\ At(o, "stop_suspend")
    /\ suspend[o].pc \in {"done", "failed"}
    /\ Goto(o, IF suspend[o].pc = "done" THEN "stop_wait" ELSE "undo")
    /\ suspend' = [suspend EXCEPT ![o] = NoSuspend]
    /\ UNCHANGED <<session, svc, secret, pod, memVars, ensure, cfg, current, used>>

(* waitRestartWorkloadStopped.                                             *)
WaitStopped(o) ==
    /\ At(o, "stop_wait") /\ pod.state = "none"
    /\ Goto(o, "new_secret")
    /\ UNCHANGED <<session, svc, secret, pod, memVars, suspend, ensure, cfg, current, used>>

NewWorkload(o) ==
    /\ At(o, "new_pod") /\ ensure[o].pc = "served"
    /\ Goto(o, "started")
    /\ ensure' = [ensure EXCEPT ![o] = NoEnsure]
    /\ UNCHANGED <<session, svc, secret, pod, memVars, suspend, cfg, current, used>>

(* waitRestartReady: an agent that was started with the settings of o.     *)
Started(o) == pod.state = "ready" /\ pod.settings = o

WaitReady(o) ==
    /\ At(o, "started") /\ Started(o)
    /\ Goto(o, "finish")
    /\ UNCHANGED <<session, svc, secret, pod, memVars, suspend, ensure, cfg, current, used>>

(* finishRestart.                                                          *)
FinishRestart(o) ==
    /\ At(o, "finish")
    /\ svc' = [svc EXCEPT !.hold = FALSE, !.phase = "ready"]
    /\ Goto(o, "ready")
    /\ UNCHANGED <<session, secret, pod, memVars, suspend, ensure, cfg, current, used>>

Ready(o) ==
    /\ At(o, "ready")
    /\ SaveThen(o, "ready", End(o))
    /\ UNCHANGED <<session, svc, secret, pod, memVars, suspend, ensure, used>>

(* The deferred setRestartPhase of a restart that did not succeed.         *)
UndoRestart(o) ==
    /\ At(o, "undo")
    /\ SetPhase(o, "failed")
    /\ Goto(o, "fail")
    /\ UNCHANGED <<session, secret, pod, memVars, suspend, ensure, cfg, current, used>>

SaveFailed(o) ==
    /\ At(o, "fail")
    /\ SaveThen(o, "failed", End(o))
    /\ UNCHANGED <<session, svc, secret, pod, memVars, suspend, ensure, used>>

(* Slip: what a wait that was given up leaves behind is an open session.   *)
GiveUpReady(o) ==
    /\ At(o, "idle") /\ used["faults"] < MaxFaults /\ Spend("faults")
    /\ SaveThen(o, "ready", End(o))
    /\ UNCHANGED <<session, svc, secret, pod, memVars, suspend, ensure>>

(* The turn does not end in time or cannot be stopped: the operation is    *)
(* taken back.                                                             *)
GiveUp(o) ==
    /\ At(o, "idle")
    /\ \/ mem[work[o].at] = "running" /\ UNCHANGED used
       \/ used["faults"] < MaxFaults /\ Spend("faults")
    /\ SaveThen(o, work[o].previous, End(o))
    /\ UNCHANGED <<session, svc, secret, pod, memVars, suspend, ensure>>

(* What o waits for does not come by itself: the old workload stays, or the*)
(* new one is gone or was started with other settings.                     *)
InVain(o) == \/ At(o, "stop_wait") /\ pod.state # "none"
             \/ /\ At(o, "started") /\ ~Started(o) /\ pod.state # "starting"

(* The ten minutes of the operation pass while it waits for the workload;  *)
(* that a workload takes so long to start is a fault.                      *)
TimeOut(o) ==
    /\ \/ InVain(o) /\ UNCHANGED used
       \/ /\ At(o, "new_pod") \/ (At(o, "started") /\ pod.state = "starting")
          /\ used["faults"] < MaxFaults /\ Spend("faults")
    /\ Goto(o, "undo")
    /\ ensure' = [ensure EXCEPT ![o] = NoEnsure]
    /\ UNCHANGED <<session, svc, secret, pod, memVars, suspend, cfg, current>>

(* A call fails.  Only a restart that is not in place is undone as a whole.*)
Fail(o) ==
    LET inPlace == work[o].paused /\ work[o].kind = "restart"
    IN  /\ used["faults"] < MaxFaults /\ Spend("faults")
        /\ \/ /\ work[o].pc \in {"pausing", "pause", "pause_suspended", "pause_agent",
                                  "pause_save", "pause_phase", "in_secret", "in_phase"}
              /\ Goto(o, "fail")
           \/ /\ work[o].pc \in {"in_agent", "new_secret", "new_phase"}
              /\ Goto(o, "undo")
           \/ /\ At(o, "finish")
              /\ Goto(o, IF inPlace THEN "fail" ELSE "undo")
        /\ UNCHANGED <<session, svc, secret, pod, memVars, suspend, ensure, cfg, current>>

(* Slip: an operation that waits for a turn is not taken for an old one.   *)
InterruptedLater ==
    /\ cfg.phase \notin Ended \cup {"waiting_idle"}
    /\ \A o \in Operations : work[o].pc \in {"off", "request"}
    /\ cfg' = [cfg EXCEPT !.phase = "failed"]
    /\ current' = {}
    /\ UNCHANGED <<session, svc, secret, pod, memVars, suspend, ensure, work, used>>

(* restartConfiguration: an operation that has saved nothing for longer    *)
(* than it may last has been interrupted.                                  *)
Interrupted ==
    /\ cfg.phase \notin Ended
    /\ \A o \in Operations : work[o].pc \in {"off", "request"}
    /\ cfg' = [cfg EXCEPT !.phase = "failed"]
    /\ current' = {}
    /\ UNCHANGED <<session, svc, secret, pod, memVars, suspend, ensure, work, used>>

----------------------------------------------------------------------------
(* A replica crashes: what it was doing stops where it was.                *)
Crash(r) ==
    /\ used["faults"] < MaxFaults /\ Spend("faults")
    /\ mem' = [mem EXCEPT ![r] = "none"]
    /\ known' = [known EXCEPT ![r] = NoOne]
    /\ watch' = [watch EXCEPT ![r] = "off"]
    /\ timer' = [timer EXCEPT ![r] = FALSE]
    /\ suspend' = [s \in Suspenders |->
           CASE suspend[s].at # r -> suspend[s]
             [] suspend[s].at = r /\ s \in Operations -> NoSuspend
             [] OTHER -> [NoSuspend EXCEPT !.pc = "failed"]]
    /\ ensure' = [e \in Wakers |->
           CASE ensure[e].at # r -> ensure[e]
             [] ensure[e].at = r /\ e \in Operations -> NoEnsure
             [] OTHER -> [NoEnsure EXCEPT !.pc = "refused"]]
    /\ work' = [o \in Operations |-> IF work[o].at = r THEN IdleWork ELSE work[o]]
    /\ UNCHANGED <<session, svc, secret, pod, cfg, current>>

----------------------------------------------------------------------------
ReplicaStep(r) == GetSession(r) \/ WatchAgent(r) \/ LeaveAgent(r) \/ WatchWorkload(r)
                  \/ ScheduleRestored(r)

SuspendStep(s) == Acquire(s) \/ Checkpoint(s) \/ MarkSuspended(s)
                  \/ DeleteWorkload(s) \/ RecordSuspended(s)

EnsureStep(e) == CheckWorkload(e) \/ PrepareWake(e) \/ ClearSuspend(e) \/ CreateWorkload(e)

WorkStep(o) ==
    \/ Accept(o) \/ WaitIdle(o) \/ StartPausing(o) \/ Pause(o) \/ PauseSuspended(o)
    \/ PauseAgent(o) \/ PauseCheckpoint(o) \/ ProcessPaused(o) \/ Paused(o)
    \/ Restart(o) \/ PrepareResume(o) \/ Resuming(o) \/ RestartAgent(o)
    \/ StopWorkload(o) \/ StopSuspended(o) \/ WaitStopped(o) \/ NewWorkload(o)
    \/ WaitReady(o) \/ FinishRestart(o) \/ Ready(o) \/ UndoRestart(o) \/ SaveFailed(o)

Next ==
    \/ \E r \in Replicas : ReplicaStep(r) \/ Crash(r)
    \/ DeadlinePasses \/ PodReady \/ Turn \/ TurnEnds \/ Evict
    \/ ClaimExpires \/ Interrupted
    \/ \E s \in Reconciliations, r \in Replicas : Reconcile(s, r)
    \/ \E s \in SuspendRequests, r \in Replicas : SuspendSession(s, r)
    \/ \E s \in Terminations, r \in Replicas : Terminate(s, r)
    \/ \E s \in Suspenders : SuspendStep(s)
    \/ \E e \in Readers, r \in Replicas : Read(e, r)
    \/ \E e \in Wakers : EnsureStep(e)
    \/ \E o \in Operations, r \in Replicas : Request(o, r)
    \/ \E o \in Operations : WorkStep(o) \/ GiveUp(o) \/ TimeOut(o) \/ Fail(o)

Spec == Init /\ [][Next]_vars

(* Every goroutine that can go on does; workloads become ready, turns end, *)
(* waits have a limit, and somebody asks for the status of an operation.   *)
Fairness ==
    /\ \A r \in Replicas : WF_vars(GetSession(r)) /\ WF_vars(WatchAgent(r))
                             /\ WF_vars(WatchWorkload(r))
    /\ WF_vars(PodReady) /\ WF_vars(TurnEnds) /\ WF_vars(Interrupted)
    /\ \A s \in Suspenders : WF_vars(SuspendStep(s))
    /\ \A e \in Wakers : WF_vars(EnsureStep(e))
    /\ \A o \in Operations : WF_vars(WorkStep(o)) /\ WF_vars(GiveUp(o) \/ TimeOut(o))

FairSpec == Spec /\ Fairness

(* Of this, a reader needs that its call goes on, that its replica finds   *)
(* the session again and that workloads become ready, ...                  *)
ReaderFairness ==
    /\ \A r \in Replicas : WF_vars(GetSession(r))
    /\ WF_vars(PodReady)
    /\ \A e \in Readers : WF_vars(EnsureStep(e))

ReaderSpec == Spec /\ ReaderFairness

(* ... and an operation that its goroutine and the calls it makes go on, up*)
(* to their limits of time, and that somebody asks for its status.         *)
OperationFairness ==
    /\ WF_vars(PodReady) /\ WF_vars(Interrupted)
    /\ \A o \in Operations :
          /\ WF_vars(WorkStep(o)) /\ WF_vars(GiveUp(o) \/ TimeOut(o))
          /\ WF_vars(SuspendStep(o)) /\ WF_vars(EnsureStep(o))

OperationSpec == Spec /\ OperationFairness

----------------------------------------------------------------------------
(* Every variable has its type.                                            *)
RuntimeTypeOK ==
    /\ session \in [volume : BOOLEAN, checkpointed : BOOLEAN]
    /\ svc \in Service /\ secret \in Secret
    /\ pod \in Workload
    /\ mem \in [Replicas -> Statuses]
    /\ known \in [Replicas -> Frames]
    /\ watch \in [Replicas -> {"off", "workload", "broken", "open"}]
    /\ timer \in [Replicas -> BOOLEAN]
    /\ suspend \in [Suspenders -> [pc : SuspendPCs, at : Replicas \cup {NoOne},
                                   kind : {"idle", "termination", "paused"},
                                   saved : BOOLEAN]]
    /\ ensure \in [Wakers -> [pc : EnsurePCs, at : Replicas \cup {NoOne}, copy : Secret]]
    /\ cfg \in [phase : Phases, request : Operations \cup {NoOne}]
    /\ current \subseteq Operations
    /\ work \in [Operations -> [pc : WorkPCs, at : Replicas \cup {NoOne},
                                kind : {"pause", "restart", "replace"},
                                previous : Phases, paused : BOOLEAN]]
    /\ used \in [Bounds -> Nat]

(* A claim that has not expired is given up by nobody but its owner: of two*)
(* replicas that find the same deadline passed, the one that lost waits for*)
(* the other, also when a third one is late with giving its claim back.    *)
ClaimIsKept ==
    [][svc.owner # NoOne /\ ~svc.expired /\ svc'.owner # svc.owner
       => suspend'[svc.owner].pc # suspend[svc.owner].pc]_vars

(* Where suspensions need a checkpoint: an ordinary one of a workload on a *)
(* volume deletes the workload whose state was checkpointed for it, and no *)
(* later one that a reader has made since, whoever else suspends: as long  *)
(* as no claim expires while its owner waits for a checkpoint, for the     *)
(* owner would delete all the same.                                        *)
RemovesWhatItSaved ==
    [][\A s \in Suspensions :
          session.volume /\ session.checkpointed
          /\ suspend[s].pc = "delete" /\ suspend'[s].pc = "record"
          /\ suspend[s].kind = "idle" /\ pod.state # "none" /\ used["expiries"] = 0
          => suspend[s].saved]_vars

(* Whoever reads a session gets a ready workload or is told of the hold,   *)
(* whatever suspends the session meanwhile on whichever replica.           *)
ReaderIsAnswered ==
    \A e \in Readers : ensure[e].pc = "check" ~> ensure[e].pc \in {"served", "refused"}

(* Only one operation works on the session at a time, also when one was    *)
(* interrupted and another one has taken over.                             *)
Working(o) == work[o].pc \notin {"off", "request"}
OneOperation == \A o, p \in Operations : Working(o) /\ Working(p) => o = p

(* When the configuration says that the session is open, its Service does  *)
(* not hold it: the two are written by different components and an         *)
(* operation may have ended anywhere in between.                           *)
OpenIsNotHeld == cfg.phase \in Open => ~svc.hold

(* When the session is open, the agent that answers was started with the   *)
(* agent's settings that are saved (its restart_id, environment and files):*)
(* no restart that failed half-way leaves an agent with the settings of    *)
(* another one behind.  Nothing is said of the sandbox, Docker and storages*)
(* of its Pod, and the session has been resumed before.                    *)
OpenRunsItsSettings ==
    cfg.phase \in Open /\ pod.agent \in {"idle", "busy"}
    => pod.settings = secret.settings

(* An operation does not stay in progress: it ends, or it is found to be   *)
(* interrupted.                                                            *)
OperationEnds == cfg.phase \notin Ended ~> cfg.phase \in Ended

(* session_restart_controller.go:65 promises "Operation was interrupted.   *)
(* Retry to recover the stopped session.": who keeps retrying gets there.  *)
RetryFairness == WF_vars(ClaimExpires) /\ \A o \in Operations : WF_vars(\E r \in Replicas : Request(o, r))
RetrySpec == FairSpec /\ RetryFairness
RetryRecovers == cfg.phase = "failed" ~> cfg.phase = "ready"
============================================================================
