------------------------- MODULE SessionRuntimeProofs -------------------------
(***************************************************************************)
(* Proofs about SessionRuntime: the invariant of SessionRuntimeInvariant,  *)
(* one lemma per action, and what follows.                                 *)
(***************************************************************************)
EXTENDS SessionRuntimeInvariant, TLAPS

----------------------------------------------------------------------------
(* What the invariant needs to know of a step: how it changes each record. *)

Call == [pc : SuspendPCs, at : Replicas \cup {NoOne},
         kind : {"idle", "termination", "paused"}, saved : BOOLEAN]
Goroutine == [pc : WorkPCs, at : Replicas \cup {NoOne},
              kind : {"pause", "restart", "replace"}, previous : Phases, paused : BOOLEAN]
Configuration == [phase : Phases, request : Operations \cup {NoOne}]
Wakeup == [pc : EnsurePCs, at : Replicas \cup {NoOne}, copy : Secret]

(* Operation o is at pc; only one that goes to "idle" keeps what it        *)
(* remembers.                                                              *)
Goes(o, pc) ==
    /\ work' \in [Operations -> Goroutine]
    /\ work'[o].pc = pc
    /\ pc = "idle" => work'[o].previous = work[o].previous
    /\ \A p \in Operations : p # o => work'[p] = work[p]

(* Operation o has saved the phase and goes to pc, or it is over.          *)
Saves(o, phase, pc) ==
    \/ /\ o \in current /\ current' = {o}
       /\ cfg' \in Configuration /\ cfg'.phase = phase /\ cfg'.request = o
       /\ Goes(o, pc)
    \/ o \notin current /\ cfg' = cfg /\ current' = current /\ Goes(o, "off")

(* The Service has this hold and phase, the claim is left alone.           *)
Holds(hold, phase) ==
    /\ svc' \in Service /\ svc'.hold = hold /\ svc'.phase = phase
    /\ svc'.owner = svc.owner /\ svc'.expired = svc.expired

(* Suspension s is at pc, and what it has saved or not is as before.       *)
Calls(s, pc) ==
    /\ suspend' \in [Suspenders -> Call]
    /\ suspend'[s].pc = pc
    /\ pc = "delete" => suspend'[s].kind = suspend[s].kind /\ suspend'[s].saved = suspend[s].saved
    /\ \A t \in Suspenders : t # s => suspend'[t] = suspend[t]

(* The call e that wakes the session is at pc.                             *)
Wakes(e, pc) ==
    /\ ensure' \in [Wakers -> Wakeup]
    /\ ensure'[e].pc = pc
    /\ \A x \in Wakers : x # e => ensure'[x] = ensure[x]

Becomes(state, agent, settings) ==
    pod' \in Workload /\ pod'.state = state /\ pod'.agent = agent /\ pod'.settings = settings

(* No claim has expired under its owner.                                   *)
Spends == used' \in [Bounds -> Nat] /\ used'["expiries"] = used["expiries"]

LEMMA Went ==
    ASSUME RuntimeTypeOK, NEW o \in Operations, NEW pc \in WorkPCs, Goto(o, pc)
    PROVE  Goes(o, pc)
<1> DEFINE l == [work[o] EXCEPT !.pc = pc]
<1>1. l \in Goroutine /\ l.pc = pc /\ l.previous = work[o].previous
  <2>1. work[o] \in Goroutine
    BY DEF RuntimeTypeOK, Goroutine
  <2> QED
    BY <2>1 DEF Goroutine
<1>2. work' = [work EXCEPT ![o] = l]
  BY DEF Goto
<1>3. work \in [Operations -> Goroutine]
  BY DEF RuntimeTypeOK, Goroutine
<1> HIDE DEF l
<1> QED
  BY <1>1, <1>2, <1>3 DEF Goes

LEMMA WasOver ==
    ASSUME RuntimeTypeOK, NEW o \in Operations, End(o)
    PROVE  Goes(o, "off")
<1>1. IdleWork \in Goroutine /\ IdleWork.pc = "off"
  BY DEF IdleWork, Goroutine, WorkPCs, Phases, Ended, Open
<1>2. work \in [Operations -> Goroutine]
  BY DEF RuntimeTypeOK, Goroutine
<1> QED
  BY <1>1, <1>2 DEF End, Goes

LEMMA WasSaved ==
    ASSUME RuntimeTypeOK, NEW o \in Operations, NEW phase \in Phases
    PROVE  /\ SaveThen(o, phase, End(o)) => Saves(o, phase, "off")
           /\ \A pc \in WorkPCs : SaveThen(o, phase, Goto(o, pc)) => Saves(o, phase, pc)
<1>1. End(o) => Goes(o, "off")
  BY WasOver
<1>2. \A pc \in WorkPCs : Goto(o, pc) => Goes(o, pc)
  BY Went
<1>3. [phase |-> phase, request |-> o] \in Configuration
  BY DEF Configuration
<1>4. ASSUME Save(o, phase)
      PROVE  /\ o \in current /\ current' = {o}
             /\ cfg' \in Configuration /\ cfg'.phase = phase /\ cfg'.request = o
  BY <1>3, <1>4 DEF Save
<1> QED
  BY <1>1, <1>2, <1>4 DEF SaveThen, Saves

LEMMA PhaseWasSet ==
    ASSUME RuntimeTypeOK, NEW q \in Operations \cup {"manual"},
           NEW phase \in {"pausing", "paused", "process_paused", "stopping", "resuming", "failed"},
           SetPhase(q, phase)
    PROVE  Holds(TRUE, phase)
<1>1. svc \in Service
  BY DEF RuntimeTypeOK
<1> DEFINE k == [svc EXCEPT !.hold = TRUE]
           m == [k EXCEPT !.request = q]
           n == [m EXCEPT !.phase = phase]
<1>2. k \in Service /\ k.hold /\ k.owner = svc.owner /\ k.expired = svc.expired
  BY <1>1 DEF Service
<1> HIDE DEF k
<1>3. m \in Service /\ m.hold /\ m.owner = svc.owner /\ m.expired = svc.expired
  BY <1>2 DEF Service
<1> HIDE DEF m
<1>4. /\ n \in Service /\ n.hold /\ n.phase = phase
      /\ n.owner = svc.owner /\ n.expired = svc.expired
  BY <1>3 DEF Service
<1>5. svc' = n
  BY DEF SetPhase, k, m
<1> HIDE DEF n
<1>6. n.hold \in BOOLEAN
  BY <1>4 DEF Service
<1> QED
  BY <1>4, <1>5, <1>6 DEF Holds

LEMMA WasCalled ==
    ASSUME RuntimeTypeOK, NEW s \in Suspenders, NEW l \in Call, suspend' = [suspend EXCEPT ![s] = l],
           l.pc = "delete" => l.kind = suspend[s].kind /\ l.saved = suspend[s].saved
    PROVE  Calls(s, l.pc)
<1>1. suspend \in [Suspenders -> Call]
  BY DEF RuntimeTypeOK, Call
<1> QED
  BY <1>1 DEF Calls

LEMMA CallBegins ==
    ASSUME RuntimeTypeOK, NEW s \in Suspenders, NEW r \in Replicas, NEW l,
           l = [suspend[s] EXCEPT !.pc = "acquire", !.at = r]
    PROVE  l \in Call /\ l.pc = "acquire"
<1> DEFINE k == [suspend[s] EXCEPT !.pc = "acquire"]
<1>1. suspend[s] \in Call
  BY DEF RuntimeTypeOK, Call
<1>2. k \in Call /\ k.pc = "acquire"
  BY <1>1 DEF Call, SuspendPCs
<1>3. l = [k EXCEPT !.at = r]
  OBVIOUS
<1> HIDE DEF k
<1> QED
  BY <1>2, <1>3 DEF Call

LEMMA CallEnded ==
    ASSUME RuntimeTypeOK, NEW s \in Suspenders, NEW result \in {"done", "failed"},
           SuspendEnds(s, result)
    PROVE  Calls(s, result)
<1> DEFINE l == [NoSuspend EXCEPT !.pc = result]
<1>1. l \in Call /\ l.pc = result
  BY DEF NoSuspend, Call, SuspendPCs
<1>2. suspend' = [suspend EXCEPT ![s] = l]
  BY DEF SuspendEnds
<1> HIDE DEF l
<1> QED
  BY <1>1, <1>2, WasCalled

LEMMA WasWoken ==
    ASSUME RuntimeTypeOK, NEW e \in Wakers, NEW l \in Wakeup, ensure' = [ensure EXCEPT ![e] = l]
    PROVE  Wakes(e, l.pc)
<1>1. ensure \in [Wakers -> Wakeup]
  BY DEF RuntimeTypeOK, Wakeup
<1> QED
  BY <1>1 DEF Wakes

LEMMA WakeEnded ==
    ASSUME RuntimeTypeOK, NEW e \in Wakers, NEW result \in {"served", "refused"},
           EnsureEnds(e, result)
    PROVE  Wakes(e, result)
<1> DEFINE l == [NoEnsure EXCEPT !.pc = result]
<1>1. Given \in Secret
  BY BoundAssumption DEF Given, Secret, Settings, Frames
<1>2. l \in Wakeup /\ l.pc = result
  BY <1>1 DEF NoEnsure, Wakeup, EnsurePCs
<1>3. ensure' = [ensure EXCEPT ![e] = l]
  BY DEF EnsureEnds
<1> HIDE DEF l
<1> QED
  BY <1>2, <1>3, WasWoken

LEMMA WakeBegins ==
    ASSUME RuntimeTypeOK, NEW e \in Wakers, NEW r \in Replicas \cup {NoOne},
           ensure' = [ensure EXCEPT ![e] = [NoEnsure EXCEPT !.pc = "check", !.at = r]]
    PROVE  Wakes(e, "check")
<1> DEFINE k == [NoEnsure EXCEPT !.pc = "check"]
           l == [k EXCEPT !.at = r]
<1>1. Given \in Secret
  BY BoundAssumption DEF Given, Secret, Settings, Frames
<1>2. k \in Wakeup /\ k.pc = "check"
  BY <1>1 DEF NoEnsure, Wakeup, EnsurePCs
<1>3. ensure' = [ensure EXCEPT ![e] = l]
  BY DEF k
<1> HIDE DEF k
<1>4. l \in Wakeup /\ l.pc = "check"
  BY <1>2 DEF Wakeup
<1> HIDE DEF l
<1> QED
  BY <1>3, <1>4, WasWoken

LEMMA WakeWasDropped ==
    ASSUME RuntimeTypeOK, NEW e \in Wakers, ensure' = [ensure EXCEPT ![e] = NoEnsure]
    PROVE  Wakes(e, "off")
<1>1. Given \in Secret
  BY BoundAssumption DEF Given, Secret, Settings, Frames
<1>2. NoEnsure \in Wakeup /\ NoEnsure.pc = "off"
  BY <1>1 DEF NoEnsure, Wakeup, EnsurePCs
<1> QED
  BY <1>2, WasWoken

LEMMA WasScheduled ==
    ASSUME RuntimeTypeOK, svc' = Scheduled \/ svc' = svc
    PROVE  Holds(svc.hold, svc.phase)
<1>1. svc \in Service
  BY DEF RuntimeTypeOK
<1> DEFINE k == [svc EXCEPT !.suspendAt = "later"]
           l == [k EXCEPT !.suspendedAt = FALSE]
<1>2. /\ k \in Service /\ k.hold = svc.hold /\ k.phase = svc.phase
      /\ k.owner = svc.owner /\ k.expired = svc.expired
  BY <1>1 DEF Service
<1> HIDE DEF k
<1>3. /\ l \in Service /\ l.hold = svc.hold /\ l.phase = svc.phase
      /\ l.owner = svc.owner /\ l.expired = svc.expired
  BY <1>2 DEF Service
<1>4. Scheduled = l
  BY DEF Scheduled, k
<1> HIDE DEF l
<1> QED
  BY <1>1, <1>3, <1>4 DEF Holds

LEMMA WasSpent ==
    ASSUME RuntimeTypeOK, NEW b \in Bounds \ {"expiries"}, Spend(b)
    PROVE  Spends
BY DEF RuntimeTypeOK, Spend, Spends, Bounds

(* Nobody else works on the session.                                       *)
LEMMA WorksAlone ==
    ASSUME RuntimeInv, NEW o \in Operations, Working(o)
    PROVE  /\ \A p \in Operations : p # o => work[p].pc \in {"off", "request"} /\ p \notin current
           /\ cfg.phase \notin Ended /\ current = {o}
BY DEF RuntimeInv, WorkInv, Working

LEMMA InitStep == Init => RuntimeInv
<1> SUFFICES ASSUME Init PROVE RuntimeInv
  OBVIOUS
<1>1. RuntimeTypeOK
  <2>1. svc \in Service /\ pod \in Workload /\ Given \in Secret
    BY NameAssumption, BoundAssumption DEF Init, Service, Workload, Settings, Frames, Secret,
       Given
  <2>4. session \in [volume : BOOLEAN, checkpointed : BOOLEAN]
    BY BoundAssumption DEF Init
  <2>2. NoSuspend \in Call /\ NoEnsure \in Wakeup /\ IdleWork \in Goroutine
    BY <2>1 DEF NoSuspend, NoEnsure, IdleWork, Call, Wakeup, Goroutine, SuspendPCs, EnsurePCs,
       WorkPCs, Phases, Ended, Open
  <2>3. cfg \in Configuration
    BY DEF Init, Configuration, Phases, Ended, Open
  <2> QED
    BY <2>1, <2>2, <2>3, <2>4 DEF Init, RuntimeTypeOK, Statuses, Frames, Call, Wakeup, Goroutine,
       Configuration
<1>2. \A o \in Operations : work[o].pc = "off"
  BY DEF Init, IdleWork
<1>3. \A s \in Suspenders : suspend[s].pc = "off"
  BY DEF Init, NoSuspend
<1>4. WorkInv /\ HoldInv /\ SettingsInv
  <2>1. \A e \in Wakers : ensure[e].pc # "prepare"
    BY DEF Init, NoEnsure
  <2> QED
    BY <1>2, <2>1 DEF Init, WorkInv, HoldInv, SettingsInv, ResumedInv, CurrentInv, Working, At,
       Open, Pausing, IsPaused, Resumed, Checked, PodIsCurrent, Given
<1>5. ClaimInv /\ SavedInv
  BY <1>3 DEF ClaimInv, SavedInv, Owning
<1> QED
  BY <1>1, <1>4, <1>5 DEF RuntimeInv

----------------------------------------------------------------------------
(* What a replica knows, and the workload.                                 *)

LEMMA GetSessionStep ==
    ASSUME RuntimeInv, NEW r \in Replicas, GetSession(r)
    PROVE  RuntimeInv'
<1>1. /\ mem' \in [Replicas -> Statuses]
      /\ watch' \in [Replicas -> {"off", "workload", "broken", "open"}]
      /\ timer' \in [Replicas -> BOOLEAN]
      /\ known' \in [Replicas -> Frames]
  <2>1. \A listed \in BOOLEAN : Restored(listed) \in Statuses
    BY DEF Restored, FromWorkload, Statuses
  <2>2. \A status \in Statuses : Overlaid(status) \subseteq Statuses
    BY BoundAssumption DEF Overlaid, Statuses
  <2>3. PICK listed \in BOOLEAN :
              LET restored == Restored(listed)
                  watched == ~listed \/ restored # "suspended"
              IN  /\ \E status \in Overlaid(restored) :
                         /\ mem' = [mem EXCEPT ![r] = status]
                         /\ watch' = [watch EXCEPT ![r] =
                                CASE ~watched -> "off"
                                  [] watched /\ status \in Terminal -> "workload"
                                  [] OTHER -> "open"]
                  /\ timer' = [timer EXCEPT ![r] = watched]
    BY DEF GetSession
  <2>4. PICK status \in Overlaid(Restored(listed)), watched \in BOOLEAN :
              /\ mem' = [mem EXCEPT ![r] = status]
              /\ watch' = [watch EXCEPT ![r] =
                     CASE ~watched -> "off"
                       [] watched /\ status \in Terminal -> "workload"
                       [] OTHER -> "open"]
              /\ timer' = [timer EXCEPT ![r] = watched]
    BY <2>3
  <2>5. status \in Statuses
    BY <2>1, <2>2, <2>4
  <2>6. known' = [known EXCEPT ![r] = NoOne] /\ NoOne \in Frames
    BY DEF GetSession, Frames
  <2> QED
    BY <2>4, <2>5, <2>6 DEF RuntimeInv, RuntimeTypeOK
<1>2. UNCHANGED <<session, svc, secret, pod, suspend, ensure, cfg, current, work, used>>
  BY DEF GetSession, memVars, opVars
<1>3. RuntimeTypeOK'
  BY <1>1, <1>2 DEF RuntimeInv, RuntimeTypeOK
<1>4. WorkInv'
  BY <1>2 DEF RuntimeInv, WorkInv, Working, At
<1>5. HoldInv'
  BY <1>2 DEF RuntimeInv, HoldInv, Open, Ended, Pausing, IsPaused, At
<1>6. SettingsInv'
  BY <1>2 DEF RuntimeInv, SettingsInv, ResumedInv, CurrentInv,
     PodIsCurrent, Open, Resumed, Checked, At
<1>7. ClaimInv'
  BY <1>2 DEF RuntimeInv, ClaimInv, Owning
<1>8. SavedInv'
  BY <1>2 DEF RuntimeInv, SavedInv
<1> QED
  BY <1>3, <1>4, <1>5, <1>6, <1>7, <1>8 DEF RuntimeInv

LEMMA WatchAgentStep ==
    ASSUME RuntimeInv, NEW r \in Replicas, WatchAgent(r)
    PROVE  RuntimeInv'
<1>1. /\ mem' \in [Replicas -> Statuses]
      /\ watch' \in [Replicas -> {"off", "workload", "broken", "open"}]
      /\ Holds(svc.hold, svc.phase)
  BY WasScheduled DEF WatchAgent, RuntimeInv, RuntimeTypeOK, Statuses
<1>2. UNCHANGED <<session, secret, pod, known, timer, suspend, ensure, cfg, current, work, used>>
  BY DEF WatchAgent, memVars, opVars
<1>3. RuntimeTypeOK'
  BY <1>1, <1>2 DEF RuntimeInv, RuntimeTypeOK, Holds
<1>4. WorkInv'
  BY <1>2 DEF RuntimeInv, WorkInv, Working, At
<1>5. HoldInv'
  BY <1>1, <1>2 DEF RuntimeInv, HoldInv, Open, Ended, Pausing, IsPaused, At, Working,
     Holds
<1>6. SettingsInv'
  BY <1>2 DEF RuntimeInv, SettingsInv, ResumedInv, CurrentInv,
     PodIsCurrent, Open, Resumed, Checked, At
<1>7. ClaimInv'
  BY <1>1, <1>2 DEF RuntimeInv, ClaimInv, Owning, Holds
<1>8. SavedInv'
  BY <1>2 DEF RuntimeInv, SavedInv
<1> QED
  BY <1>3, <1>4, <1>5, <1>6, <1>7, <1>8 DEF RuntimeInv

LEMMA LeaveAgentStep ==
    ASSUME RuntimeInv, NEW r \in Replicas, LeaveAgent(r)
    PROVE  RuntimeInv'
<1>1. watch' \in [Replicas -> {"off", "workload", "broken", "open"}]
  BY DEF LeaveAgent, RuntimeInv, RuntimeTypeOK
<1>2. UNCHANGED <<session, svc, secret, pod, mem, known, timer, suspend, ensure, cfg, current, work,
                  used>>
  BY DEF LeaveAgent, memVars, opVars
<1>3. RuntimeTypeOK'
  BY <1>1, <1>2 DEF RuntimeInv, RuntimeTypeOK
<1>4. WorkInv'
  BY <1>2 DEF RuntimeInv, WorkInv, Working, At
<1>5. HoldInv'
  BY <1>2 DEF RuntimeInv, HoldInv, Open, Ended, Pausing, IsPaused, At
<1>6. SettingsInv'
  BY <1>2 DEF RuntimeInv, SettingsInv, ResumedInv, CurrentInv,
     PodIsCurrent, Open, Resumed, Checked, At
<1>7. ClaimInv'
  BY <1>2 DEF RuntimeInv, ClaimInv, Owning
<1>8. SavedInv'
  BY <1>2 DEF RuntimeInv, SavedInv
<1> QED
  BY <1>3, <1>4, <1>5, <1>6, <1>7, <1>8 DEF RuntimeInv

LEMMA WatchWorkloadStep ==
    ASSUME RuntimeInv, NEW r \in Replicas, WatchWorkload(r)
    PROVE  RuntimeInv'
<1>1. /\ mem' \in [Replicas -> Statuses]
      /\ watch' \in [Replicas -> {"off", "workload", "broken", "open"}]
  BY DEF WatchWorkload, RuntimeInv, RuntimeTypeOK, Statuses
<1>2. UNCHANGED <<session, svc, secret, pod, known, timer, suspend, ensure, cfg, current, work, used>>
  BY DEF WatchWorkload, memVars, opVars
<1>3. RuntimeTypeOK'
  BY <1>1, <1>2 DEF RuntimeInv, RuntimeTypeOK
<1>4. WorkInv'
  BY <1>2 DEF RuntimeInv, WorkInv, Working, At
<1>5. HoldInv'
  BY <1>2 DEF RuntimeInv, HoldInv, Open, Ended, Pausing, IsPaused, At
<1>6. SettingsInv'
  BY <1>2 DEF RuntimeInv, SettingsInv, ResumedInv, CurrentInv,
     PodIsCurrent, Open, Resumed, Checked, At
<1>7. ClaimInv'
  BY <1>2 DEF RuntimeInv, ClaimInv, Owning
<1>8. SavedInv'
  BY <1>2 DEF RuntimeInv, SavedInv
<1> QED
  BY <1>3, <1>4, <1>5, <1>6, <1>7, <1>8 DEF RuntimeInv

LEMMA ScheduleRestoredStep ==
    ASSUME RuntimeInv, NEW r \in Replicas, ScheduleRestored(r)
    PROVE  RuntimeInv'
<1>1. /\ timer' \in [Replicas -> BOOLEAN]
      /\ Holds(svc.hold, svc.phase)
  BY WasScheduled DEF ScheduleRestored, RuntimeInv, RuntimeTypeOK
<1>2. UNCHANGED <<session, secret, pod, mem, known, watch, suspend, ensure, cfg, current, work, used>>
  BY DEF ScheduleRestored, memVars, opVars
<1>3. RuntimeTypeOK'
  BY <1>1, <1>2 DEF RuntimeInv, RuntimeTypeOK, Holds
<1>4. WorkInv'
  BY <1>2 DEF RuntimeInv, WorkInv, Working, At
<1>5. HoldInv'
  BY <1>1, <1>2 DEF RuntimeInv, HoldInv, Open, Ended, Pausing, IsPaused, At, Working,
     Holds
<1>6. SettingsInv'
  BY <1>2 DEF RuntimeInv, SettingsInv, ResumedInv, CurrentInv,
     PodIsCurrent, Open, Resumed, Checked, At
<1>7. ClaimInv'
  BY <1>1, <1>2 DEF RuntimeInv, ClaimInv, Owning, Holds
<1>8. SavedInv'
  BY <1>2 DEF RuntimeInv, SavedInv
<1> QED
  BY <1>3, <1>4, <1>5, <1>6, <1>7, <1>8 DEF RuntimeInv

LEMMA DeadlinePassesStep ==
    ASSUME RuntimeInv, DeadlinePasses
    PROVE  RuntimeInv'
<1>1. /\ Holds(svc.hold, svc.phase)
      /\ Spends
  BY WasSpent DEF DeadlinePasses, RuntimeInv, RuntimeTypeOK, Service, Holds, Bounds
<1>2. UNCHANGED <<session, secret, pod, mem, known, watch, timer, suspend, ensure, cfg, current, work>>
  BY DEF DeadlinePasses, memVars, opVars
<1>3. RuntimeTypeOK'
  BY <1>1, <1>2 DEF RuntimeInv, RuntimeTypeOK, Holds, Spends
<1>4. WorkInv'
  BY <1>2 DEF RuntimeInv, WorkInv, Working, At
<1>5. HoldInv'
  BY <1>1, <1>2 DEF RuntimeInv, HoldInv, Open, Ended, Pausing, IsPaused, At, Working,
     Holds, Spends
<1>6. SettingsInv'
  BY <1>2 DEF RuntimeInv, SettingsInv, ResumedInv, CurrentInv,
     PodIsCurrent, Open, Resumed, Checked, At
<1>7. ClaimInv'
  BY <1>1, <1>2 DEF RuntimeInv, ClaimInv, Owning, Holds, Spends
<1>8. SavedInv'
  BY <1>1, <1>2 DEF RuntimeInv, SavedInv, Holds, Spends, ClaimInv, Owning
<1> QED
  BY <1>3, <1>4, <1>5, <1>6, <1>7, <1>8 DEF RuntimeInv

LEMMA PodReadyStep ==
    ASSUME RuntimeInv, PodReady
    PROVE  RuntimeInv'
<1>1. /\ pod.state = "starting"
      /\ Becomes("ready", "idle", pod.settings)
  BY DEF PodReady, RuntimeInv, RuntimeTypeOK, Workload, Becomes
<1>2. UNCHANGED <<session, svc, secret, mem, known, watch, timer, suspend, ensure, cfg, current, work, used>>
  BY DEF PodReady, memVars, opVars
<1>3. RuntimeTypeOK'
  BY <1>1, <1>2 DEF RuntimeInv, RuntimeTypeOK, Becomes
<1>4. WorkInv'
  BY <1>2 DEF RuntimeInv, WorkInv, Working, At
<1>5. HoldInv'
  BY <1>2 DEF RuntimeInv, HoldInv, Open, Ended, Pausing, IsPaused, At
<1>6. SettingsInv'
  BY <1>1, <1>2 DEF RuntimeInv, SettingsInv, ResumedInv, CurrentInv,
     PodIsCurrent, Open, Resumed, Checked, At,
     Ended, Working, Becomes
<1>7. ClaimInv'
  BY <1>2 DEF RuntimeInv, ClaimInv, Owning
<1>8. SavedInv'
  BY <1>1, <1>2 DEF RuntimeInv, SavedInv, Becomes, ClaimInv, Owning
<1> QED
  BY <1>3, <1>4, <1>5, <1>6, <1>7, <1>8 DEF RuntimeInv

LEMMA TurnStep ==
    ASSUME RuntimeInv, Turn
    PROVE  RuntimeInv'
<1>1. /\ pod.state = "ready"
      /\ Becomes("ready", "busy", pod.settings)
      /\ Spends
  BY WasSpent DEF Turn, RuntimeInv, RuntimeTypeOK, Workload, Becomes, Bounds
<1>2. UNCHANGED <<session, svc, secret, mem, known, watch, timer, suspend, ensure, cfg, current, work>>
  BY DEF Turn, memVars, opVars
<1>3. RuntimeTypeOK'
  BY <1>1, <1>2 DEF RuntimeInv, RuntimeTypeOK, Becomes, Spends
<1>4. WorkInv'
  BY <1>2 DEF RuntimeInv, WorkInv, Working, At
<1>5. HoldInv'
  BY <1>2 DEF RuntimeInv, HoldInv, Open, Ended, Pausing, IsPaused, At
<1>6. SettingsInv'
  BY <1>1, <1>2 DEF RuntimeInv, SettingsInv, ResumedInv, CurrentInv,
     PodIsCurrent, Open, Resumed, Checked, At,
     Ended, Working, Becomes, Spends
<1>7. ClaimInv'
  BY <1>1, <1>2 DEF RuntimeInv, ClaimInv, Owning, Becomes, Spends
<1>8. SavedInv'
  BY <1>1, <1>2 DEF RuntimeInv, SavedInv, Becomes, Spends, ClaimInv, Owning
<1> QED
  BY <1>3, <1>4, <1>5, <1>6, <1>7, <1>8 DEF RuntimeInv

LEMMA TurnEndsStep ==
    ASSUME RuntimeInv, TurnEnds
    PROVE  RuntimeInv'
<1>1. /\ pod.agent = "busy"
      /\ Becomes(pod.state, "idle", pod.settings)
  BY DEF TurnEnds, RuntimeInv, RuntimeTypeOK, Workload, Becomes
<1>2. UNCHANGED <<session, svc, secret, mem, known, watch, timer, suspend, ensure, cfg, current, work, used>>
  BY DEF TurnEnds, memVars, opVars
<1>3. RuntimeTypeOK'
  BY <1>1, <1>2 DEF RuntimeInv, RuntimeTypeOK, Becomes
<1>4. WorkInv'
  BY <1>2 DEF RuntimeInv, WorkInv, Working, At
<1>5. HoldInv'
  BY <1>2 DEF RuntimeInv, HoldInv, Open, Ended, Pausing, IsPaused, At
<1>6. SettingsInv'
  BY <1>1, <1>2 DEF RuntimeInv, SettingsInv, ResumedInv, CurrentInv,
     PodIsCurrent, Open, Resumed, Checked, At,
     Ended, Working, Becomes
<1>7. ClaimInv'
  BY <1>2 DEF RuntimeInv, ClaimInv, Owning
<1>8. SavedInv'
  BY <1>1, <1>2 DEF RuntimeInv, SavedInv, Becomes, ClaimInv, Owning
<1> QED
  BY <1>3, <1>4, <1>5, <1>6, <1>7, <1>8 DEF RuntimeInv

LEMMA EvictStep ==
    ASSUME RuntimeInv, Evict
    PROVE  RuntimeInv'
<1>1. /\ ~session.volume
      /\ Becomes("none", "none", Base)
      /\ Spends
  BY WasSpent DEF Evict, RuntimeInv, RuntimeTypeOK, NoPod, Workload, Settings, Frames, Becomes,
     Bounds
<1>2. UNCHANGED <<session, svc, secret, mem, known, watch, timer, suspend, ensure, cfg, current, work>>
  BY DEF Evict, memVars, opVars
<1>3. RuntimeTypeOK'
  BY <1>1, <1>2 DEF RuntimeInv, RuntimeTypeOK, Becomes, Spends
<1>4. WorkInv'
  BY <1>2 DEF RuntimeInv, WorkInv, Working, At
<1>5. HoldInv'
  BY <1>2 DEF RuntimeInv, HoldInv, Open, Ended, Pausing, IsPaused, At
<1>6. SettingsInv'
  BY <1>1, <1>2 DEF RuntimeInv, SettingsInv, ResumedInv, CurrentInv,
     PodIsCurrent, Open, Resumed, Checked, At,
     Ended, Working, Becomes, Spends
<1>7. ClaimInv'
  BY <1>1, <1>2 DEF RuntimeInv, ClaimInv, Owning, Becomes, Spends
<1>8. SavedInv'
  BY <1>1, <1>2 DEF RuntimeInv, SavedInv, Becomes, Spends, ClaimInv, Owning
<1> QED
  BY <1>3, <1>4, <1>5, <1>6, <1>7, <1>8 DEF RuntimeInv

----------------------------------------------------------------------------
(* Suspension.                                                             *)

LEMMA ReconcileStep ==
    ASSUME RuntimeInv, NEW s \in Reconciliations, NEW r \in Replicas, Reconcile(s, r)
    PROVE  RuntimeInv'
<1>1. /\ s \in Suspenders
      /\ Holds(svc.hold, svc.phase)
      /\ Calls(s, "acquire") \/ suspend' = suspend
  <2> DEFINE l == [suspend[s] EXCEPT !.pc = "acquire", !.at = r]
  <2>1. l \in Call /\ l.pc = "acquire"
    BY CallBegins DEF Suspenders, Suspensions, RuntimeInv
  <2>2. (suspend' = [suspend EXCEPT ![s] = l]) \/ suspend' = suspend
    BY DEF Reconcile
  <2> HIDE DEF l
  <2>3. s \in Suspenders
    BY DEF Suspenders, Suspensions
  <2>4. suspend' = [suspend EXCEPT ![s] = l] => Calls(s, "acquire")
    BY <2>1, <2>3, WasCalled DEF RuntimeInv
  <2> QED
    BY <2>2, <2>3, <2>4, WasScheduled DEF Reconcile, RuntimeInv
<1>2. UNCHANGED <<session, secret, pod, mem, known, watch, timer, ensure, cfg, current, work, used>>
  BY DEF Reconcile, memVars, opVars
<1>3. RuntimeTypeOK'
  BY <1>1, <1>2 DEF RuntimeInv, RuntimeTypeOK, Holds, Calls, Call
<1>4. WorkInv'
  BY <1>2 DEF RuntimeInv, WorkInv, Working, At
<1>5. HoldInv'
  BY <1>1, <1>2 DEF RuntimeInv, HoldInv, Open, Ended, Pausing, IsPaused, At, Working,
     Holds, Calls
<1>6. SettingsInv'
  BY <1>2 DEF RuntimeInv, SettingsInv, ResumedInv, CurrentInv,
     PodIsCurrent, Open, Resumed, Checked, At
<1>7. ClaimInv'
  BY <1>1, <1>2 DEF RuntimeInv, ClaimInv, Owning, Holds, Calls
<1>8. SavedInv'
  BY <1>1, <1>2 DEF RuntimeInv, SavedInv, Holds, Calls, ClaimInv, Owning
<1> QED
  BY <1>3, <1>4, <1>5, <1>6, <1>7, <1>8 DEF RuntimeInv

LEMMA SuspendSessionStep ==
    ASSUME RuntimeInv, NEW s \in SuspendRequests, NEW r \in Replicas, SuspendSession(s, r)
    PROVE  RuntimeInv'
<1>1. /\ s \in Suspenders
      /\ Calls(s, "acquire")
  <2> DEFINE l == [suspend[s] EXCEPT !.pc = "acquire", !.at = r]
  <2>1. l \in Call /\ l.pc = "acquire"
    BY CallBegins DEF Suspenders, Suspensions, RuntimeInv
  <2>2. (suspend' = [suspend EXCEPT ![s] = l]) \/ FALSE
    BY DEF SuspendSession
  <2> HIDE DEF l
  <2>3. s \in Suspenders
    BY DEF Suspenders, Suspensions
  <2>4. suspend' = [suspend EXCEPT ![s] = l] => Calls(s, "acquire")
    BY <2>1, <2>3, WasCalled DEF RuntimeInv
  <2> QED
    BY <2>2, <2>3, <2>4, WasScheduled DEF SuspendSession, RuntimeInv
<1>2. UNCHANGED <<session, svc, secret, pod, mem, known, watch, timer, ensure, cfg, current, work, used>>
  BY DEF SuspendSession, memVars, opVars
<1>3. RuntimeTypeOK'
  BY <1>1, <1>2 DEF RuntimeInv, RuntimeTypeOK, Calls, Call
<1>4. WorkInv'
  BY <1>2 DEF RuntimeInv, WorkInv, Working, At
<1>5. HoldInv'
  BY <1>2 DEF RuntimeInv, HoldInv, Open, Ended, Pausing, IsPaused, At
<1>6. SettingsInv'
  BY <1>2 DEF RuntimeInv, SettingsInv, ResumedInv, CurrentInv,
     PodIsCurrent, Open, Resumed, Checked, At
<1>7. ClaimInv'
  BY <1>1, <1>2 DEF RuntimeInv, ClaimInv, Owning, Calls
<1>8. SavedInv'
  BY <1>1, <1>2 DEF RuntimeInv, SavedInv, Calls, ClaimInv, Owning
<1> QED
  BY <1>3, <1>4, <1>5, <1>6, <1>7, <1>8 DEF RuntimeInv

LEMMA TerminateStep ==
    ASSUME RuntimeInv, NEW s \in Terminations, NEW r \in Replicas, Terminate(s, r)
    PROVE  RuntimeInv'
<1>1. /\ s \in Suspenders
      /\ Calls(s, "acquire")
      /\ Becomes("starting", "none", pod.settings)
      /\ pod.state = "ready"
      /\ Spends
  <2> DEFINE l == [pc |-> "acquire", at |-> r, kind |-> "termination", saved |-> TRUE]
  <2>1. l \in Call /\ l.pc = "acquire" /\ s \in Suspenders
    BY DEF Call, SuspendPCs, Suspenders, Suspensions
  <2>2. suspend' = [suspend EXCEPT ![s] = l]
    BY DEF Terminate
  <2> HIDE DEF l
  <2>3. Calls(s, "acquire")
    BY <2>1, <2>2, WasCalled DEF RuntimeInv
  <2>4. Becomes("starting", "none", pod.settings) /\ pod.state = "ready"
    BY DEF Terminate, Becomes, Workload, RuntimeInv, RuntimeTypeOK
  <2> QED
    BY <2>1, <2>3, <2>4, WasSpent DEF Terminate, Bounds, RuntimeInv
<1>2. UNCHANGED <<session, svc, secret, mem, known, watch, timer, ensure, cfg, current, work>>
  BY DEF Terminate, memVars, opVars
<1>3. RuntimeTypeOK'
  BY <1>1, <1>2 DEF RuntimeInv, RuntimeTypeOK, Calls, Becomes, Spends, Call
<1>4. WorkInv'
  BY <1>2 DEF RuntimeInv, WorkInv, Working, At
<1>5. HoldInv'
  BY <1>2 DEF RuntimeInv, HoldInv, Open, Ended, Pausing, IsPaused, At
<1>6. SettingsInv'
  BY <1>1, <1>2 DEF RuntimeInv, SettingsInv, ResumedInv, CurrentInv,
     PodIsCurrent, Open, Resumed, Checked, At,
     Ended, Working, Calls, Becomes, Spends
<1>7. ClaimInv'
  BY <1>1, <1>2 DEF RuntimeInv, ClaimInv, Owning, Calls, Becomes, Spends
<1>8. SavedInv'
  BY <1>1, <1>2 DEF RuntimeInv, SavedInv, Calls, Becomes, Spends, ClaimInv, Owning
<1> QED
  BY <1>3, <1>4, <1>5, <1>6, <1>7, <1>8 DEF RuntimeInv

LEMMA AcquireStep ==
    ASSUME RuntimeInv, NEW s \in Suspenders, Acquire(s)
    PROVE  RuntimeInv'
<1>1. /\ suspend[s].pc = "acquire"
      /\ svc' \in Service /\ svc'.hold = svc.hold /\ svc'.phase = svc.phase
      /\ \/ /\ svc.owner = NoOne \/ svc.expired
            /\ svc'.owner = s /\ ~svc'.expired /\ used' = used
            /\ suspend' \in [Suspenders -> Call]
            /\ suspend'[s].pc \in {"checkpoint", "mark"}
            /\ suspend'[s].pc = "mark" => suspend'[s].kind # "idle" \/ ~session.checkpointed
            /\ \A t \in Suspenders : t # s => suspend'[t] = suspend[t]
         \/ /\ Calls(s, "done") \/ Calls(s, "failed")
            /\ svc'.owner = svc.owner /\ svc'.expired = svc.expired
            /\ Spends
  <2>1. CASE Unowned /\ svc' = [svc EXCEPT !.owner = s, !.expired = FALSE] /\ used' = used
             /\ suspend' = [suspend EXCEPT ![s].pc =
                               IF suspend[s].kind = "idle" /\ session.checkpointed
                               THEN "checkpoint" ELSE "mark"]
    <3> DEFINE l == [suspend[s] EXCEPT !.pc =
                        IF suspend[s].kind = "idle" /\ session.checkpointed
                               THEN "checkpoint" ELSE "mark"]
    <3>1. /\ l \in Call /\ l.pc \in {"checkpoint", "mark"}
          /\ l.pc = "mark" => l.kind # "idle" \/ ~session.checkpointed
      <4> DEFINE pc == IF suspend[s].kind = "idle" /\ session.checkpointed
                               THEN "checkpoint" ELSE "mark"
      <4>1. suspend[s] \in Call
        BY DEF RuntimeInv, RuntimeTypeOK, Call
      <4>2. pc \in {"checkpoint", "mark"} /\ (pc = "mark" => suspend[s].kind # "idle" \/ ~session.checkpointed)
        OBVIOUS
      <4>3. l = [suspend[s] EXCEPT !.pc = pc]
        OBVIOUS
      <4> HIDE DEF pc, l
      <4>4. l \in Call /\ l.pc = pc /\ l.kind = suspend[s].kind
        BY <4>1, <4>2, <4>3 DEF Call, SuspendPCs
      <4> QED
        BY <4>2, <4>4
    <3>2. suspend' = [suspend EXCEPT ![s] = l]
      BY <2>1
    <3>3. /\ svc' \in Service /\ svc'.hold = svc.hold /\ svc'.phase = svc.phase
          /\ svc'.owner = s /\ ~svc'.expired
      BY <2>1 DEF RuntimeInv, RuntimeTypeOK, Service
    <3>4. suspend \in [Suspenders -> Call]
      BY DEF RuntimeInv, RuntimeTypeOK, Call
    <3> HIDE DEF l
    <3> QED
      BY <2>1, <3>1, <3>2, <3>3, <3>4 DEF Unowned, Acquire
  <2>2. CASE /\ SuspendEnds(s, "done") \/ SuspendEnds(s, "failed")
             /\ svc' = svc /\ (used' = used \/ Spend("faults"))
    <3>1. (Calls(s, "done") \/ Calls(s, "failed")) /\ svc \in Service
      BY <2>2, CallEnded DEF RuntimeInv, RuntimeTypeOK
    <3>2. Spends
      BY <2>2, WasSpent DEF Spends, RuntimeInv, RuntimeTypeOK, Bounds
    <3> QED
      BY <2>2, <3>1, <3>2 DEF Acquire
  <2> QED
    BY <2>1, <2>2 DEF Acquire
<1>2. UNCHANGED <<session, secret, pod, mem, known, watch, timer, ensure, cfg, current, work>>
  BY DEF Acquire, memVars, opVars
<1>3. RuntimeTypeOK'
  BY <1>1, <1>2 DEF RuntimeInv, RuntimeTypeOK, Calls, Spends, Call
<1>4. WorkInv'
  BY <1>2 DEF RuntimeInv, WorkInv, Working, At
<1>5. HoldInv'
  BY <1>1, <1>2 DEF RuntimeInv, HoldInv, Open, Ended, Pausing, IsPaused, At, Working,
     Calls, Spends, Suspenders
<1>6. SettingsInv'
  BY <1>2 DEF RuntimeInv, SettingsInv, ResumedInv, CurrentInv,
     PodIsCurrent, Open, Resumed, Checked, At
<1>7. ClaimInv'
  BY <1>1, <1>2, NameAssumption DEF RuntimeInv, ClaimInv, Owning, Calls, Spends,
     Suspenders
<1>8. SavedInv'
  BY <1>1, <1>2, NameAssumption DEF RuntimeInv, SavedInv, Calls, Spends, Suspenders,
     ClaimInv, Owning
<1> QED
  BY <1>3, <1>4, <1>5, <1>6, <1>7, <1>8 DEF RuntimeInv

LEMMA ClaimExpiresStep ==
    ASSUME RuntimeInv, ClaimExpires
    PROVE  RuntimeInv'
<1>1. /\ svc' \in Service /\ svc'.hold = svc.hold /\ svc'.phase = svc.phase
      /\ used' \in [Bounds -> Nat]
      /\ \/ /\ used' = used /\ svc.owner # NoOne
            /\ suspend[svc.owner].pc \in {"done", "failed", "off", "acquire"}
         \/ used'["expiries"] # 0
  <2>1. svc' \in Service /\ svc'.hold = svc.hold /\ svc'.phase = svc.phase
    BY DEF ClaimExpires, RuntimeInv, RuntimeTypeOK, Service
  <2>2. ASSUME Spend("expiries")
        PROVE  used' \in [Bounds -> Nat] /\ used'["expiries"] # 0
    BY <2>2 DEF Spend, Bounds, RuntimeInv, RuntimeTypeOK
  <2>3. \/ /\ used' = used /\ svc.owner # NoOne
           /\ suspend[svc.owner].pc \in {"done", "failed", "off", "acquire"}
        \/ Spend("expiries")
    BY DEF ClaimExpires
  <2> QED
    BY <2>1, <2>2, <2>3 DEF RuntimeInv, RuntimeTypeOK
<1>2. UNCHANGED <<session, secret, pod, mem, known, watch, timer, suspend, ensure, cfg, current, work>>
  BY DEF ClaimExpires, memVars, opVars
<1>3. RuntimeTypeOK'
  BY <1>1, <1>2 DEF RuntimeInv, RuntimeTypeOK
<1>4. WorkInv'
  BY <1>2 DEF RuntimeInv, WorkInv, Working, At
<1>5. HoldInv'
  BY <1>1, <1>2 DEF RuntimeInv, HoldInv, Open, Ended, Pausing, IsPaused, At, Working,
     RuntimeTypeOK
<1>6. SettingsInv'
  BY <1>2 DEF RuntimeInv, SettingsInv, ResumedInv, CurrentInv,
     PodIsCurrent, Open, Resumed, Checked, At
<1>7. ClaimInv'
  BY <1>1, <1>2, NameAssumption DEF RuntimeInv, ClaimInv, Owning, RuntimeTypeOK
<1>8. SavedInv'
  BY <1>1, <1>2, NameAssumption DEF RuntimeInv, SavedInv, ClaimInv, Owning,
     RuntimeTypeOK
<1> QED
  BY <1>3, <1>4, <1>5, <1>6, <1>7, <1>8 DEF RuntimeInv

LEMMA CheckpointStep ==
    ASSUME RuntimeInv, NEW s \in Suspenders, Checkpoint(s)
    PROVE  RuntimeInv'
<1>1. /\ suspend[s].pc = "checkpoint"
      /\ svc' \in Service /\ svc'.hold = svc.hold /\ svc'.phase = svc.phase
      /\ svc.owner # s => svc'.owner = svc.owner /\ svc'.expired = svc.expired
      /\ \/ /\ pod.state = "ready" /\ svc' = svc /\ suspend' \in [Suspenders -> Call]
            /\ suspend'[s].pc = "mark" /\ suspend'[s].saved
            /\ \A t \in Suspenders : t # s => suspend'[t] = suspend[t]
         \/ Calls(s, "failed")
  <2>1. CASE pod.state = "ready" /\ svc' = svc
             /\ suspend' = [suspend EXCEPT ![s].pc = "mark", ![s].saved = TRUE]
    <3> DEFINE k == [suspend[s] EXCEPT !.pc = "mark"]
               l == [k EXCEPT !.saved = TRUE]
    <3>1. suspend' = [suspend EXCEPT ![s] = l]
      BY <2>1
    <3>2. suspend[s] \in Call
      BY DEF RuntimeInv, RuntimeTypeOK, Call
    <3>3. k \in Call /\ k.pc = "mark"
      BY <3>2 DEF Call, SuspendPCs
    <3> HIDE DEF k
    <3>4. l \in Call /\ l.pc = "mark" /\ l.saved
      BY <3>3 DEF Call
    <3>5. suspend \in [Suspenders -> Call] /\ svc \in Service
      BY DEF RuntimeInv, RuntimeTypeOK, Call
    <3> HIDE DEF l
    <3> QED
      BY <2>1, <3>4, <3>1, <3>5 DEF Checkpoint
  <2>2. CASE SuspendEnds(s, "failed") /\ Disown(s)
    <3>1. Calls(s, "failed")
      BY <2>2, CallEnded DEF RuntimeInv
    <3> QED
      BY <2>2, <3>1 DEF Checkpoint, Disown, RuntimeInv, RuntimeTypeOK, Service
  <2> QED
    BY <2>1, <2>2 DEF Checkpoint
<1>2. UNCHANGED <<session, secret, pod, mem, known, watch, timer, ensure, cfg, current, work, used>>
  BY DEF Checkpoint, memVars, opVars
<1>3. RuntimeTypeOK'
  BY <1>1, <1>2 DEF RuntimeInv, RuntimeTypeOK, Calls, Call
<1>4. WorkInv'
  BY <1>2 DEF RuntimeInv, WorkInv, Working, At
<1>5. HoldInv'
  BY <1>1, <1>2 DEF RuntimeInv, HoldInv, Open, Ended, Pausing, IsPaused, At, Working,
     Calls
<1>6. SettingsInv'
  BY <1>2 DEF RuntimeInv, SettingsInv, ResumedInv, CurrentInv,
     PodIsCurrent, Open, Resumed, Checked, At
<1>7. ClaimInv'
  BY <1>1, <1>2 DEF RuntimeInv, ClaimInv, Owning, Calls
<1>8. SavedInv'
  BY <1>1, <1>2 DEF RuntimeInv, SavedInv, Calls, ClaimInv, Owning
<1> QED
  BY <1>3, <1>4, <1>5, <1>6, <1>7, <1>8 DEF RuntimeInv

LEMMA MarkSuspendedStep ==
    ASSUME RuntimeInv, NEW s \in Suspenders, MarkSuspended(s)
    PROVE  RuntimeInv'
<1>1. /\ suspend[s].pc = "mark"
      /\ mem' \in [Replicas -> Statuses]
      /\ Calls(s, "delete")
  <2> DEFINE l == [suspend[s] EXCEPT !.pc = "delete"]
  <2>1. l \in Call /\ l.pc = "delete" /\ l.kind = suspend[s].kind /\ l.saved = suspend[s].saved
    <3>1. suspend[s] \in Call
      BY DEF RuntimeInv, RuntimeTypeOK, Call
    <3> QED
      BY <3>1 DEF Call, SuspendPCs
  <2>2. suspend' = [suspend EXCEPT ![s] = l]
    BY DEF MarkSuspended
  <2> HIDE DEF l
  <2>3. Calls(s, "delete")
    BY <2>1, <2>2, WasCalled DEF RuntimeInv
  <2> QED
    BY <2>3 DEF MarkSuspended, RuntimeInv, RuntimeTypeOK, Statuses
<1>2. UNCHANGED <<session, svc, secret, pod, known, watch, timer, ensure, cfg, current, work, used>>
  BY DEF MarkSuspended, memVars, opVars
<1>3. RuntimeTypeOK'
  BY <1>1, <1>2 DEF RuntimeInv, RuntimeTypeOK, Calls, Call
<1>4. WorkInv'
  BY <1>2 DEF RuntimeInv, WorkInv, Working, At
<1>5. HoldInv'
  BY <1>2 DEF RuntimeInv, HoldInv, Open, Ended, Pausing, IsPaused, At
<1>6. SettingsInv'
  BY <1>2 DEF RuntimeInv, SettingsInv, ResumedInv, CurrentInv,
     PodIsCurrent, Open, Resumed, Checked, At
<1>7. ClaimInv'
  BY <1>1, <1>2 DEF RuntimeInv, ClaimInv, Owning, Calls
<1>8. SavedInv'
  BY <1>1, <1>2 DEF RuntimeInv, SavedInv, Calls, ClaimInv, Owning
<1> QED
  BY <1>3, <1>4, <1>5, <1>6, <1>7, <1>8 DEF RuntimeInv

LEMMA DeleteWorkloadStep ==
    ASSUME RuntimeInv, NEW s \in Suspenders, DeleteWorkload(s)
    PROVE  RuntimeInv'
<1>1. /\ suspend[s].pc = "delete"
      /\ pod' = pod \/ Becomes("none", "none", Base)
      /\ Calls(s, "record") \/ Calls(s, "failed")
      /\ Spends
  <2>1. NoPod \in Workload /\ NoPod.state = "none" /\ NoPod.agent = "none"
        /\ NoPod.settings = Base
    BY DEF NoPod, Workload, Settings, Frames
  <2>2. pod' = pod \/ Becomes("none", "none", Base)
    BY <2>1 DEF DeleteWorkload, Becomes
  <2> DEFINE l == [suspend[s] EXCEPT !.pc = "record"]
  <2>3. l \in Call /\ l.pc = "record" /\ l.kind = suspend[s].kind /\ l.saved = suspend[s].saved
    <3>1. suspend[s] \in Call
      BY DEF RuntimeInv, RuntimeTypeOK, Call
    <3> QED
      BY <3>1 DEF Call, SuspendPCs
  <2>4. \/ suspend' = [suspend EXCEPT ![s] = l] /\ used' = used
        \/ SuspendEnds(s, "failed") /\ Spend("faults")
    BY DEF DeleteWorkload
  <2> HIDE DEF l
  <2>5. Calls(s, "record") \/ Calls(s, "failed")
    BY <2>3, <2>4, WasCalled, CallEnded DEF RuntimeInv
  <2>6. Spends
    BY <2>4, WasSpent DEF Spends, RuntimeInv, RuntimeTypeOK, Bounds
  <2> QED
    BY <2>2, <2>5, <2>6 DEF DeleteWorkload
<1>2. UNCHANGED <<session, svc, secret, mem, known, watch, timer, ensure, cfg, current, work>>
  BY DEF DeleteWorkload, memVars, opVars
<1>3. RuntimeTypeOK'
  BY <1>1, <1>2 DEF RuntimeInv, RuntimeTypeOK, Calls, Spends, Becomes, Spends, Call
<1>4. WorkInv'
  BY <1>2 DEF RuntimeInv, WorkInv, Working, At
<1>5. HoldInv'
  BY <1>2 DEF RuntimeInv, HoldInv, Open, Ended, Pausing, IsPaused, At
<1>6. SettingsInv'
  BY <1>1, <1>2 DEF RuntimeInv, SettingsInv, ResumedInv, CurrentInv,
     PodIsCurrent, Open, Resumed, Checked, At,
     Ended, Working, Calls, Spends, Becomes
<1>7. ClaimInv'
  BY <1>1, <1>2 DEF RuntimeInv, ClaimInv, Owning, Calls, Spends, Becomes
<1>8. SavedInv'
  BY <1>1, <1>2 DEF RuntimeInv, SavedInv, Calls, Spends, Becomes, ClaimInv, Owning
<1> QED
  BY <1>3, <1>4, <1>5, <1>6, <1>7, <1>8 DEF RuntimeInv

LEMMA RecordSuspendedStep ==
    ASSUME RuntimeInv, NEW s \in Suspenders, RecordSuspended(s)
    PROVE  RuntimeInv'
<1>1. /\ suspend[s].pc = "record"
      /\ svc' \in Service /\ svc'.hold = svc.hold /\ svc'.phase = svc.phase
      /\ svc.owner # s => svc'.owner = svc.owner /\ svc'.expired = svc.expired
      /\ Calls(s, "done") \/ Calls(s, "failed")
      /\ Spends
  <2>1. Calls(s, "done") \/ Calls(s, "failed")
    BY CallEnded DEF RecordSuspended, RuntimeInv
  <2>2. Spends
    <3>1. used' = used \/ Spend("faults")
      BY DEF RecordSuspended
    <3> QED
      BY <3>1, WasSpent DEF Spends, RuntimeInv, RuntimeTypeOK, Bounds
  <2> QED
    BY <2>1, <2>2 DEF RecordSuspended, RuntimeInv, RuntimeTypeOK, Service
<1>2. UNCHANGED <<session, secret, pod, mem, known, watch, timer, ensure, cfg, current, work>>
  BY DEF RecordSuspended, memVars, opVars
<1>3. RuntimeTypeOK'
  BY <1>1, <1>2 DEF RuntimeInv, RuntimeTypeOK, Calls, Spends, Call
<1>4. WorkInv'
  BY <1>2 DEF RuntimeInv, WorkInv, Working, At
<1>5. HoldInv'
  BY <1>1, <1>2 DEF RuntimeInv, HoldInv, Open, Ended, Pausing, IsPaused, At, Working,
     Calls, Spends
<1>6. SettingsInv'
  BY <1>2 DEF RuntimeInv, SettingsInv, ResumedInv, CurrentInv,
     PodIsCurrent, Open, Resumed, Checked, At
<1>7. ClaimInv'
  BY <1>1, <1>2 DEF RuntimeInv, ClaimInv, Owning, Calls, Spends
<1>8. SavedInv'
  BY <1>1, <1>2 DEF RuntimeInv, SavedInv, Calls, Spends, ClaimInv, Owning
<1> QED
  BY <1>3, <1>4, <1>5, <1>6, <1>7, <1>8 DEF RuntimeInv

----------------------------------------------------------------------------
(* Waking the session.                                                     *)

LEMMA ReadStep ==
    ASSUME RuntimeInv, NEW e \in Readers, NEW r \in Replicas, Read(e, r)
    PROVE  RuntimeInv'
<1>1. e \in Wakers /\ Wakes(e, "check")
  BY WakeBegins DEF Read, Wakers, RuntimeInv
<1>2. UNCHANGED <<session, svc, secret, pod, mem, known, watch, timer, suspend, cfg, current, work, used>>
  BY DEF Read, memVars, opVars
<1>3. RuntimeTypeOK'
  BY <1>1, <1>2 DEF RuntimeInv, RuntimeTypeOK, Wakes, Wakeup
<1>4. WorkInv'
  BY <1>2 DEF RuntimeInv, WorkInv, Working, At
<1>5. HoldInv'
  BY <1>2 DEF RuntimeInv, HoldInv, Open, Ended, Pausing, IsPaused, At
<1>6. SettingsInv'
  BY <1>1, <1>2 DEF RuntimeInv, SettingsInv, ResumedInv, CurrentInv,
     PodIsCurrent, Open, Resumed, Checked, At,
     Wakes
<1>7. ClaimInv'
  BY <1>2 DEF RuntimeInv, ClaimInv, Owning
<1>8. SavedInv'
  BY <1>2 DEF RuntimeInv, SavedInv
<1> QED
  BY <1>3, <1>4, <1>5, <1>6, <1>7, <1>8 DEF RuntimeInv

LEMMA CheckWorkloadStep ==
    ASSUME RuntimeInv, NEW e \in Wakers, CheckWorkload(e)
    PROVE  RuntimeInv'
<1>1. /\ mem' \in [Replicas -> Statuses]
      /\ ensure' = ensure \/ \E pc \in EnsurePCs :
                                Wakes(e, pc) /\ (pc = "prepare" => ~secret.resumed)
  <2>1. \/ ensure' = ensure
        \/ \E pc \in {"served", "refused"} : EnsureEnds(e, pc)
        \/ secret.resumed /\ ensure' = [ensure EXCEPT ![e].pc = "clear",
                                                      ![e].copy = ensure[e].copy]
        \/ ~secret.resumed /\ ensure' = [ensure EXCEPT ![e].pc = "prepare",
                                                       ![e].copy = secret]
    BY DEF CheckWorkload
  <2>2. ensure[e] \in Wakeup /\ secret \in Secret
    BY DEF RuntimeInv, RuntimeTypeOK, Wakes, Wakeup
  <2>3. ASSUME NEW pc \in {"clear", "prepare"}, NEW copy \in Secret,
               ensure' = [ensure EXCEPT ![e].pc = pc, ![e].copy = copy]
        PROVE  Wakes(e, pc)
    <3> DEFINE k == [ensure[e] EXCEPT !.pc = pc]
               l == [k EXCEPT !.copy = copy]
    <3>1. k \in Wakeup /\ k.pc = pc
      BY <2>2 DEF Wakeup, EnsurePCs
    <3>2. ensure' = [ensure EXCEPT ![e] = l]
      BY <2>3
    <3> HIDE DEF k
    <3>3. l \in Wakeup /\ l.pc = pc
      BY <3>1 DEF Wakeup
    <3> HIDE DEF l
    <3> QED
      BY <3>2, <3>3, WasWoken DEF RuntimeInv
  <2>4. ASSUME NEW pc \in {"served", "refused"}, EnsureEnds(e, pc)
        PROVE  Wakes(e, pc)
    BY <2>4, WakeEnded DEF RuntimeInv
  <2>5. ensure[e].copy \in Secret
    BY <2>2 DEF Wakeup
  <2>6. mem' \in [Replicas -> Statuses]
    BY DEF CheckWorkload, Woken, RuntimeInv, RuntimeTypeOK, Statuses
  <2> QED
    BY <2>1, <2>2, <2>3, <2>4, <2>5, <2>6 DEF EnsurePCs
<1>2. UNCHANGED <<session, svc, secret, pod, known, watch, timer, suspend, cfg, current, work, used>>
  BY DEF CheckWorkload, memVars, opVars
<1>3. RuntimeTypeOK'
  BY <1>1, <1>2 DEF RuntimeInv, RuntimeTypeOK, Wakes, Wakeup
<1>4. WorkInv'
  BY <1>2 DEF RuntimeInv, WorkInv, Working, At
<1>5. HoldInv'
  BY <1>2 DEF RuntimeInv, HoldInv, Open, Ended, Pausing, IsPaused, At
<1>6. SettingsInv'
  BY <1>1, <1>2 DEF RuntimeInv, SettingsInv, ResumedInv, CurrentInv,
     PodIsCurrent, Open, Resumed, Checked, At,
     Wakes
<1>7. ClaimInv'
  BY <1>2 DEF RuntimeInv, ClaimInv, Owning
<1>8. SavedInv'
  BY <1>2 DEF RuntimeInv, SavedInv
<1> QED
  BY <1>3, <1>4, <1>5, <1>6, <1>7, <1>8 DEF RuntimeInv

LEMMA PrepareWakeStep ==
    ASSUME RuntimeInv, NEW e \in Wakers, PrepareWake(e)
    PROVE  RuntimeInv'
<1>1. /\ secret' \in Secret
      /\ known' \in [Replicas -> Frames]
      /\ Wakes(e, "clear")
      /\ Fresh
  <2>1. ensure[e] \in Wakeup /\ ensure[e].copy \in Secret /\ Given \in Secret
    BY BoundAssumption DEF RuntimeInv, RuntimeTypeOK, Wakeup, Given, Secret, Settings, Frames
  <2>2. secret' \in Secret
    BY <2>1 DEF PrepareWake, Secret
  <2>3. known' \in [Replicas -> Frames]
    BY <2>1 DEF PrepareWake, RuntimeInv, RuntimeTypeOK, Secret
  <2> DEFINE k == [ensure[e] EXCEPT !.pc = "clear"]
             l == [k EXCEPT !.copy = Given]
  <2>4. k \in Wakeup /\ k.pc = "clear"
    BY <2>1 DEF Wakeup, EnsurePCs
  <2>5. ensure' = [ensure EXCEPT ![e] = l]
    BY DEF PrepareWake
  <2> HIDE DEF k
  <2>6. l \in Wakeup /\ l.pc = "clear"
    BY <2>1, <2>4 DEF Wakeup
  <2> HIDE DEF l
  <2>7. Wakes(e, "clear")
    BY <2>5, <2>6, WasWoken DEF RuntimeInv
  <2>8. Fresh
    BY DEF PrepareWake, RuntimeInv, SettingsInv, ResumedInv
  <2> QED
    BY <2>2, <2>3, <2>7, <2>8
<1>2. UNCHANGED <<session, svc, pod, mem, watch, timer, suspend, cfg, current, work, used>>
  BY DEF PrepareWake, opVars
<1>3. RuntimeTypeOK'
  BY <1>1, <1>2 DEF RuntimeInv, RuntimeTypeOK, Wakes, Wakeup
<1>4. WorkInv'
  BY <1>2 DEF RuntimeInv, WorkInv, Working, At
<1>5. HoldInv'
  BY <1>2 DEF RuntimeInv, HoldInv, Open, Ended, Pausing, IsPaused, At
<1>6. SettingsInv'
  BY <1>1, <1>2 DEF RuntimeInv, SettingsInv
<1>7. ClaimInv'
  BY <1>2 DEF RuntimeInv, ClaimInv, Owning
<1>8. SavedInv'
  BY <1>2 DEF RuntimeInv, SavedInv
<1> QED
  BY <1>3, <1>4, <1>5, <1>6, <1>7, <1>8 DEF RuntimeInv

LEMMA ClearSuspendStep ==
    ASSUME RuntimeInv, NEW e \in Wakers, ClearSuspend(e)
    PROVE  RuntimeInv'
<1>1. /\ Holds(svc.hold, svc.phase)
      /\ Wakes(e, "create")
  <2> DEFINE k == [svc EXCEPT !.suspendAt = "none"]
             v == [k EXCEPT !.suspendedAt = FALSE]
             l == [ensure[e] EXCEPT !.pc = "create"]
  <2>1. svc \in Service /\ ensure \in [Wakers -> Wakeup]
    BY DEF RuntimeInv, RuntimeTypeOK, Wakeup
  <2>2. svc' = v /\ ensure' = [ensure EXCEPT ![e] = l]
    BY DEF ClearSuspend
  <2>3. /\ k \in Service /\ k.hold = svc.hold /\ k.phase = svc.phase
        /\ k.owner = svc.owner /\ k.expired = svc.expired
    BY <2>1 DEF Service
  <2>4. l \in Wakeup /\ l.pc = "create"
    BY <2>1 DEF Wakeup, EnsurePCs
  <2> HIDE DEF k
  <2>5. /\ v \in Service /\ v.hold = svc.hold /\ v.phase = svc.phase
        /\ v.owner = svc.owner /\ v.expired = svc.expired
    BY <2>3 DEF Service
  <2> HIDE DEF v, l
  <2> QED
    BY <2>2, <2>4, <2>5, WasWoken DEF Holds, RuntimeInv
<1>2. UNCHANGED <<session, secret, pod, mem, known, watch, timer, suspend, cfg, current, work, used>>
  BY DEF ClearSuspend, memVars, opVars
<1>3. RuntimeTypeOK'
  BY <1>1, <1>2 DEF RuntimeInv, RuntimeTypeOK, Holds, Wakes, Wakeup
<1>4. WorkInv'
  BY <1>2 DEF RuntimeInv, WorkInv, Working, At
<1>5. HoldInv'
  BY <1>1, <1>2 DEF RuntimeInv, HoldInv, Open, Ended, Pausing, IsPaused, At, Working,
     Holds
<1>6. SettingsInv'
  BY <1>1, <1>2 DEF RuntimeInv, SettingsInv, ResumedInv, CurrentInv,
     PodIsCurrent, Open, Resumed, Checked, At,
     Wakes
<1>7. ClaimInv'
  BY <1>1, <1>2 DEF RuntimeInv, ClaimInv, Owning, Holds
<1>8. SavedInv'
  BY <1>2 DEF RuntimeInv, SavedInv
<1> QED
  BY <1>3, <1>4, <1>5, <1>6, <1>7, <1>8 DEF RuntimeInv

LEMMA CreateWorkloadStep ==
    ASSUME RuntimeInv, NEW e \in Wakers, CreateWorkload(e)
    PROVE  RuntimeInv'
<1>1. /\ IF pod.state = "none" THEN Becomes("starting", "none", secret.settings) ELSE pod' = pod
      /\ suspend' \in [Suspenders -> Call]
      /\ \A t \in Suspenders :
            /\ suspend'[t].pc = suspend[t].pc /\ suspend'[t].kind = suspend[t].kind
            /\ pod.state # "none" => suspend'[t].saved = suspend[t].saved
      /\ watch' \in [Replicas -> {"off", "workload", "broken", "open"}]
      /\ mem' \in [Replicas -> Statuses]
      /\ timer' \in [Replicas -> BOOLEAN]
      /\ Wakes(e, "check")
  <2>1. IF pod.state = "none" THEN Becomes("starting", "none", secret.settings) ELSE pod' = pod
    <3>1. \A r \in Replicas : NewPod(r) \in Workload
      BY DEF NewPod, Workload, Secret, RuntimeInv, RuntimeTypeOK
    <3> QED
      BY <3>1 DEF CreateWorkload, NewPod, Becomes
  <2>2. ASSUME NEW t \in Suspenders, NEW new \in BOOLEAN
        PROVE  LET l == [suspend[t] EXCEPT !.saved = suspend[t].saved /\ ~new]
               IN  /\ l \in Call /\ l.pc = suspend[t].pc /\ l.kind = suspend[t].kind
                   /\ ~new => l.saved = suspend[t].saved
    <3> DEFINE saved == suspend[t].saved /\ ~new
               l == [suspend[t] EXCEPT !.saved = saved]
    <3>1. suspend[t] \in Call
      BY DEF RuntimeInv, RuntimeTypeOK, Call
    <3>2. /\ saved \in BOOLEAN
          /\ ~new => saved = suspend[t].saved
      <4>1. suspend[t].saved \in BOOLEAN
        BY <3>1 DEF Call
      <4> QED
        BY <4>1
    <3> HIDE DEF saved
    <3>3. /\ l \in Call /\ l.pc = suspend[t].pc /\ l.kind = suspend[t].kind
          /\ l.saved = saved
      BY <3>1, <3>2 DEF Call
    <3> QED
      BY <3>2, <3>3 DEF saved
  <2>3. suspend' = [t \in Suspenders |->
                        [suspend[t] EXCEPT !.saved = suspend[t].saved /\ ~(pod.state = "none")]]
    BY DEF CreateWorkload
  <2>4. /\ suspend' \in [Suspenders -> Call]
        /\ \A t \in Suspenders :
              /\ suspend'[t].pc = suspend[t].pc /\ suspend'[t].kind = suspend[t].kind
              /\ pod.state # "none" => suspend'[t].saved = suspend[t].saved
    BY <2>2, <2>3
  <2>5. watch' \in [Replicas -> {"off", "workload", "broken", "open"}]
    BY DEF CreateWorkload, RuntimeInv, RuntimeTypeOK
  <2>6. mem' \in [Replicas -> Statuses] /\ timer' \in [Replicas -> BOOLEAN]
    BY DEF CreateWorkload, RuntimeInv, RuntimeTypeOK, Statuses
  <2>7. Wakes(e, "check")
    <3> DEFINE l == [ensure[e] EXCEPT !.pc = "check"]
    <3>1. ensure[e] \in Wakeup
      BY DEF RuntimeInv, RuntimeTypeOK, Wakeup
    <3>2. l \in Wakeup /\ l.pc = "check"
      BY <3>1 DEF Wakeup, EnsurePCs
    <3>3. ensure' = [ensure EXCEPT ![e] = l]
      BY DEF CreateWorkload
    <3> HIDE DEF l
    <3> QED
      BY <3>2, <3>3, WasWoken DEF RuntimeInv
  <2> QED
    BY <2>1, <2>4, <2>5, <2>6, <2>7
<1>2. UNCHANGED <<session, svc, secret, known, cfg, current, work, used>>
  BY DEF CreateWorkload, memVars, opVars
<1>3. RuntimeTypeOK'
  BY <1>1, <1>2 DEF RuntimeInv, RuntimeTypeOK, Becomes, Call, Wakes, Wakeup
<1>4. WorkInv'
  BY <1>2 DEF RuntimeInv, WorkInv, Working, At
<1>5. HoldInv'
  BY <1>2 DEF RuntimeInv, HoldInv, Open, Ended, Pausing, IsPaused, At
<1>6. SettingsInv'
  BY <1>1, <1>2 DEF RuntimeInv, SettingsInv, ResumedInv, CurrentInv,
     PodIsCurrent, Open, Resumed, Checked, At,
     Ended, Working, Becomes, Wakes
<1>7. ClaimInv'
  BY <1>1, <1>2 DEF RuntimeInv, ClaimInv, Owning, Becomes
<1>8. SavedInv'
  BY <1>1, <1>2 DEF RuntimeInv, SavedInv, Becomes, ClaimInv, Owning
<1> QED
  BY <1>3, <1>4, <1>5, <1>6, <1>7, <1>8 DEF RuntimeInv

----------------------------------------------------------------------------
(* Pause and restart.                                                      *)

LEMMA RequestStep ==
    ASSUME RuntimeInv, NEW o \in Operations, NEW r \in Replicas, Request(o, r)
    PROVE  RuntimeInv'
<1>1. /\ work[o].pc = "off"
      /\ cfg.phase \in Ended
      /\ current' = current \cup {o}
      /\ work' \in [Operations -> Goroutine]
      /\ work'[o].pc = "request" /\ work'[o].previous = cfg.phase
      /\ \A p \in Operations : p # o => work'[p] = work[p]
  <2>1. PICK kind \in Kinds :
            work' = [work EXCEPT ![o] = [IdleWork EXCEPT !.pc = "request", !.at = r,
                                         !.kind = kind, !.previous = cfg.phase]]
    BY DEF Request
  <2> DEFINE l == [IdleWork EXCEPT !.pc = "request", !.at = r, !.kind = kind,
                                   !.previous = cfg.phase]
  <2>2. l \in Goroutine /\ l.pc = "request" /\ l.previous = cfg.phase
    BY NameAssumption DEF IdleWork, Goroutine, WorkPCs, RuntimeInv, RuntimeTypeOK
  <2>3. work' = [work EXCEPT ![o] = l] /\ work \in [Operations -> Goroutine]
    BY <2>1 DEF RuntimeInv, RuntimeTypeOK, Goroutine
  <2> HIDE DEF l
  <2> QED
    BY <2>2, <2>3 DEF Request, Live
<1>2. UNCHANGED <<session, svc, secret, pod, mem, known, watch, timer, suspend, ensure, cfg, used>>
  BY DEF Request, memVars, opVars
<1>3. RuntimeTypeOK'
  BY <1>1, <1>2 DEF RuntimeInv, RuntimeTypeOK, Goroutine
<1>4. WorkInv'
  BY <1>1, <1>2 DEF RuntimeInv, WorkInv, Working, At, Open, Ended
<1>5. HoldInv'
  BY <1>1, <1>2 DEF RuntimeInv, HoldInv, Open, Ended, Pausing, IsPaused, At, Working,
     WorkInv
<1>6. SettingsInv'
  BY <1>1, <1>2 DEF RuntimeInv, SettingsInv, ResumedInv, CurrentInv,
     PodIsCurrent, Open, Resumed, Checked, At,
     Ended, Working, WorkInv
<1>7. ClaimInv'
  BY <1>2 DEF RuntimeInv, ClaimInv, Owning
<1>8. SavedInv'
  BY <1>2 DEF RuntimeInv, SavedInv
<1> QED
  BY <1>3, <1>4, <1>5, <1>6, <1>7, <1>8 DEF RuntimeInv

LEMMA AcceptStep ==
    ASSUME RuntimeInv, NEW o \in Operations, Accept(o)
    PROVE  RuntimeInv'
<1>1. /\ work[o].pc = "request"
      /\ Saves(o, "waiting_idle", "idle")
  BY WasSaved DEF Accept, At, Phases, Ended, Open, WorkPCs, RuntimeInv
<1>2. UNCHANGED <<session, svc, secret, pod, mem, known, watch, timer, suspend, ensure, used>>
  BY DEF Accept, memVars, opVars
<1>3. RuntimeTypeOK'
  BY <1>1, <1>2 DEF RuntimeInv, RuntimeTypeOK, Goes, Saves, Goroutine, Configuration
<1>4. \A p \in Operations : p # o => work'[p] = work[p]
  BY <1>1 DEF Saves, Goes
<1>5. o \in current => /\ cfg'.phase = "waiting_idle" /\ cfg'.request = o /\ current' = {o}
                       /\ work'[o].pc = "idle" /\ work'[o].previous = cfg.phase
                       /\ cfg.phase \in Ended
  BY <1>1 DEF Saves, Goes, RuntimeInv, WorkInv, At
<1>6. o \notin current => cfg' = cfg /\ current' = current /\ work'[o].pc = "off"
  BY <1>1 DEF Saves, Goes
<1>7. WorkInv'
  <2>1. CASE o \in current
    <3>1. \A p \in Operations : p # o => ~Working(p)
      BY <1>1, <2>1 DEF RuntimeInv, WorkInv, Working
    <3> QED
      BY <1>4, <1>5, <2>1, <3>1 DEF RuntimeInv, WorkInv, Working, At, Ended, Open
  <2>2. CASE o \notin current
    BY <1>4, <1>6, <2>2 DEF RuntimeInv, WorkInv, Working, At
  <2> QED
    BY <2>1, <2>2
<1>8. HoldInv'
  <2>1. CASE o \in current
    BY <1>2, <1>4, <1>5, <2>1 DEF RuntimeInv, HoldInv, Open, Ended, Pausing, IsPaused, At
  <2>2. CASE o \notin current
    BY <1>2, <1>4, <1>6, <2>2 DEF RuntimeInv, HoldInv, Open, Ended, Pausing, IsPaused, At
  <2> QED
    BY <2>1, <2>2
<1>9. SettingsInv'
  <2>1. CASE o \in current
    BY <1>2, <1>4, <1>5, <2>1 DEF RuntimeInv, SettingsInv, ResumedInv, CurrentInv,
     PodIsCurrent, Open, Resumed,
       Checked, At
  <2>2. CASE o \notin current
    BY <1>2, <1>4, <1>6, <2>2 DEF RuntimeInv, SettingsInv, ResumedInv, CurrentInv,
     PodIsCurrent, Open, Resumed,
       Checked, At
  <2> QED
    BY <2>1, <2>2
<1>10. ClaimInv'
  BY <1>2 DEF RuntimeInv, ClaimInv, Owning
<1>11. SavedInv'
  BY <1>2 DEF RuntimeInv, SavedInv
<1> QED
  BY <1>3, <1>7, <1>8, <1>9, <1>10, <1>11 DEF RuntimeInv

LEMMA WaitIdleStep ==
    ASSUME RuntimeInv, NEW o \in Operations, WaitIdle(o)
    PROVE  RuntimeInv'
<1>1. /\ work[o].pc = "idle"
      /\ Goes(o, "pausing")
  <2> DEFINE k == [work[o] EXCEPT !.pc = "pausing"]
             l == [k EXCEPT !.previous = ""]
  <2>1. work \in [Operations -> Goroutine]
    BY DEF RuntimeInv, RuntimeTypeOK, Goroutine
  <2>2. work' = [work EXCEPT ![o] = l] /\ work[o].pc = "idle"
    BY DEF WaitIdle, At
  <2>3. k \in Goroutine /\ k.pc = "pausing"
    BY <2>1 DEF Goroutine, WorkPCs
  <2> HIDE DEF k
  <2>4. l \in Goroutine /\ l.pc = "pausing"
    BY <2>3 DEF Goroutine, Phases, Ended, Open
  <2> HIDE DEF l
  <2> QED
    BY <2>1, <2>2, <2>4 DEF Goes
<1>2. UNCHANGED <<session, svc, secret, pod, mem, known, watch, timer, suspend, ensure, cfg, current, used>>
  BY DEF WaitIdle, memVars, opVars
<1>3. /\ Working(o) /\ cfg.phase \notin Ended /\ current = {o}
      /\ \A p \in Operations : p # o => work[p].pc \in {"off", "request"}
  BY <1>1, WorksAlone DEF Working
<1>4. RuntimeTypeOK'
  BY <1>1, <1>2 DEF RuntimeInv, RuntimeTypeOK, Goes, Goroutine
<1>5. WorkInv'
  BY <1>1, <1>2, <1>3 DEF RuntimeInv, WorkInv, Working, At, Open, Ended, Goes
<1>6. HoldInv'
  BY <1>1, <1>2, <1>3 DEF RuntimeInv, HoldInv, Open, Ended, Pausing, IsPaused, At,
     Working, Goes
<1>7. SettingsInv'
  BY <1>1, <1>2, <1>3 DEF RuntimeInv, SettingsInv, ResumedInv, CurrentInv,
     PodIsCurrent, Open, Resumed,
     Checked, At, Ended, Working, Goes
<1>8. ClaimInv'
  BY <1>2 DEF RuntimeInv, ClaimInv, Owning
<1>9. SavedInv'
  BY <1>2 DEF RuntimeInv, SavedInv
<1> QED
  BY <1>4, <1>5, <1>6, <1>7, <1>8, <1>9 DEF RuntimeInv

LEMMA StartPausingStep ==
    ASSUME RuntimeInv, NEW o \in Operations, StartPausing(o)
    PROVE  RuntimeInv'
<1>1. /\ work[o].pc = "pausing"
      /\ Saves(o, "pausing", "pause")
  BY WasSaved DEF StartPausing, At, Phases, Ended, Open, WorkPCs, RuntimeInv
<1>2. UNCHANGED <<session, svc, secret, pod, mem, known, watch, timer, suspend, ensure, used>>
  BY DEF StartPausing, memVars, opVars
<1>3. /\ Working(o) /\ cfg.phase \notin Ended /\ current = {o}
      /\ \A p \in Operations : p # o => work[p].pc \in {"off", "request"}
  BY <1>1, WorksAlone DEF Working
<1>4. RuntimeTypeOK'
  BY <1>1, <1>2 DEF RuntimeInv, RuntimeTypeOK, Goes, Saves, Goroutine, Configuration
<1>5. WorkInv'
  BY <1>1, <1>2, <1>3 DEF RuntimeInv, WorkInv, Working, At, Open, Ended, Goes, Saves
<1>6. HoldInv'
  BY <1>1, <1>2, <1>3 DEF RuntimeInv, HoldInv, Open, Ended, Pausing, IsPaused, At,
     Working, Goes, Saves
<1>7. SettingsInv'
  BY <1>1, <1>2, <1>3 DEF RuntimeInv, SettingsInv, ResumedInv, CurrentInv,
     PodIsCurrent, Open, Resumed,
     Checked, At, Ended, Working, Goes, Saves
<1>8. ClaimInv'
  BY <1>2 DEF RuntimeInv, ClaimInv, Owning
<1>9. SavedInv'
  BY <1>2 DEF RuntimeInv, SavedInv
<1> QED
  BY <1>4, <1>5, <1>6, <1>7, <1>8, <1>9 DEF RuntimeInv

LEMMA PauseStep ==
    ASSUME RuntimeInv, NEW o \in Operations, Pause(o)
    PROVE  RuntimeInv'
<1>1. /\ work[o].pc = "pause"
      /\ \/ Holds(TRUE, "pausing") /\ Goes(o, "pause_suspended")
         \/ /\ svc' = svc /\ Goes(o, "paused")
            /\ svc.phase \in {"process_paused", "paused"}
  BY Went, PhaseWasSet DEF Pause, At, WorkPCs, RuntimeInv
<1>2. UNCHANGED <<session, secret, pod, mem, known, watch, timer, suspend, ensure, cfg, current, used>>
  BY DEF Pause, memVars, opVars
<1>3. /\ Working(o) /\ cfg.phase \notin Ended /\ current = {o}
      /\ \A p \in Operations : p # o => work[p].pc \in {"off", "request"}
  BY <1>1, WorksAlone DEF Working
<1>4. RuntimeTypeOK'
  BY <1>1, <1>2 DEF RuntimeInv, RuntimeTypeOK, Goes, Holds, Goroutine
<1>5. WorkInv'
  BY <1>1, <1>2, <1>3 DEF RuntimeInv, WorkInv, Working, At, Open, Ended, Goes, Holds
<1>6. HoldInv'
  BY <1>1, <1>2, <1>3 DEF RuntimeInv, HoldInv, Open, Ended, Pausing, IsPaused, At,
     Working, Goes, Holds
<1>7. SettingsInv'
  BY <1>1, <1>2, <1>3 DEF RuntimeInv, SettingsInv, ResumedInv, CurrentInv,
     PodIsCurrent, Open, Resumed,
     Checked, At, Ended, Working, Goes, Holds
<1>8. ClaimInv'
  BY <1>1, <1>2, <1>3 DEF RuntimeInv, ClaimInv, Owning, Goes, Holds
<1>9. SavedInv'
  BY <1>2 DEF RuntimeInv, SavedInv
<1> QED
  BY <1>4, <1>5, <1>6, <1>7, <1>8, <1>9 DEF RuntimeInv

LEMMA PauseSuspendedStep ==
    ASSUME RuntimeInv, NEW o \in Operations, PauseSuspended(o)
    PROVE  RuntimeInv'
<1>1. /\ work[o].pc = "pause_suspended"
      /\ \/ Holds(TRUE, "paused") /\ Goes(o, "paused")
         \/ svc' = svc /\ Goes(o, "pause_agent")
  BY Went, PhaseWasSet DEF PauseSuspended, At, WorkPCs, RuntimeInv
<1>2. UNCHANGED <<session, secret, pod, mem, known, watch, timer, suspend, ensure, cfg, current, used>>
  BY DEF PauseSuspended, memVars, opVars
<1>3. /\ Working(o) /\ cfg.phase \notin Ended /\ current = {o}
      /\ \A p \in Operations : p # o => work[p].pc \in {"off", "request"}
  BY <1>1, WorksAlone DEF Working
<1>4. RuntimeTypeOK'
  BY <1>1, <1>2 DEF RuntimeInv, RuntimeTypeOK, Goes, Holds, Goroutine
<1>5. WorkInv'
  BY <1>1, <1>2, <1>3 DEF RuntimeInv, WorkInv, Working, At, Open, Ended, Goes, Holds
<1>6. HoldInv'
  BY <1>1, <1>2, <1>3 DEF RuntimeInv, HoldInv, Open, Ended, Pausing, IsPaused, At,
     Working, Goes, Holds
<1>7. SettingsInv'
  BY <1>1, <1>2, <1>3 DEF RuntimeInv, SettingsInv, ResumedInv, CurrentInv,
     PodIsCurrent, Open, Resumed,
     Checked, At, Ended, Working, Goes, Holds
<1>8. ClaimInv'
  BY <1>1, <1>2, <1>3 DEF RuntimeInv, ClaimInv, Owning, Goes, Holds
<1>9. SavedInv'
  BY <1>2 DEF RuntimeInv, SavedInv
<1> QED
  BY <1>4, <1>5, <1>6, <1>7, <1>8, <1>9 DEF RuntimeInv

LEMMA PauseAgentStep ==
    ASSUME RuntimeInv, NEW o \in Operations, PauseAgent(o)
    PROVE  RuntimeInv'
<1>1. /\ work[o].pc = "pause_agent"
      /\ \/ /\ Becomes("ready", "paused", pod.settings) /\ pod.state = "ready"
            /\ Goes(o, "pause_save")
         \/ pod' = pod /\ Goes(o, "fail")
  BY Went DEF PauseAgent, At, WorkPCs, RuntimeInv, RuntimeTypeOK, Workload, Becomes
<1>2. UNCHANGED <<session, svc, secret, mem, known, watch, timer, suspend, ensure, cfg, current, used>>
  BY DEF PauseAgent, memVars, opVars
<1>3. /\ Working(o) /\ cfg.phase \notin Ended /\ current = {o}
      /\ \A p \in Operations : p # o => work[p].pc \in {"off", "request"}
  BY <1>1, WorksAlone DEF Working
<1>4. RuntimeTypeOK'
  BY <1>1, <1>2 DEF RuntimeInv, RuntimeTypeOK, Goes, Becomes, Goroutine
<1>5. WorkInv'
  BY <1>1, <1>2, <1>3 DEF RuntimeInv, WorkInv, Working, At, Open, Ended, Goes, Becomes
<1>6. HoldInv'
  BY <1>1, <1>2, <1>3 DEF RuntimeInv, HoldInv, Open, Ended, Pausing, IsPaused, At,
     Working, Goes, Becomes
<1>7. SettingsInv'
  BY <1>1, <1>2, <1>3 DEF RuntimeInv, SettingsInv, ResumedInv, CurrentInv,
     PodIsCurrent, Open, Resumed,
     Checked, At, Ended, Working, Goes, Becomes
<1>8. ClaimInv'
  BY <1>2 DEF RuntimeInv, ClaimInv, Owning
<1>9. SavedInv'
  BY <1>1, <1>2, <1>3 DEF RuntimeInv, SavedInv, Goes, Becomes, ClaimInv, Owning
<1> QED
  BY <1>4, <1>5, <1>6, <1>7, <1>8, <1>9 DEF RuntimeInv

LEMMA PauseCheckpointStep ==
    ASSUME RuntimeInv, NEW o \in Operations, PauseCheckpoint(o)
    PROVE  RuntimeInv'
<1>1. /\ work[o].pc = "pause_save"
      /\ Goes(o, "pause_phase") \/ Goes(o, "fail")
      /\ secret' \in Secret /\ secret'.settings = secret.settings
      /\ secret.resumed => secret'.resumed
      /\ known' \in [Replicas -> Frames]
  <2>1. secret \in Secret /\ known \in [Replicas -> Frames]
    BY DEF RuntimeInv, RuntimeTypeOK
  <2> DEFINE l == [secret EXCEPT !.resumed = TRUE]
  <2>2. l \in Secret /\ l.settings = secret.settings /\ l.resumed /\ secret.frame \in Frames
    BY <2>1 DEF Secret
  <2>3. \/ secret' = l /\ known' = [known EXCEPT ![work[o].at] = secret.frame]
        \/ UNCHANGED <<secret, known>>
    BY DEF PauseCheckpoint
  <2> HIDE DEF l
  <2>4. At(o, "pause_save") /\ (Goes(o, "pause_phase") \/ Goes(o, "fail"))
    BY Went DEF PauseCheckpoint, WorkPCs, RuntimeInv
  <2> QED
    BY <2>1, <2>2, <2>3, <2>4 DEF At
<1>2. UNCHANGED <<session, svc, pod, mem, watch, timer, suspend, ensure, cfg, current, used>>
  BY DEF PauseCheckpoint
<1>3. /\ Working(o) /\ cfg.phase \notin Ended /\ current = {o}
      /\ \A p \in Operations : p # o => work[p].pc \in {"off", "request"}
  BY <1>1, WorksAlone DEF Working
<1>4. RuntimeTypeOK'
  BY <1>1, <1>2 DEF RuntimeInv, RuntimeTypeOK, Goes, Goroutine
<1>5. WorkInv'
  BY <1>1, <1>2, <1>3 DEF RuntimeInv, WorkInv, Working, At, Open, Ended, Goes
<1>6. HoldInv'
  BY <1>1, <1>2, <1>3 DEF RuntimeInv, HoldInv, Open, Ended, Pausing, IsPaused, At,
     Working, Goes
<1>7. SettingsInv'
  BY <1>1, <1>2, <1>3 DEF RuntimeInv, SettingsInv, ResumedInv, CurrentInv,
     PodIsCurrent, Open, Resumed,
     Checked, At, Ended, Working, Goes
<1>8. ClaimInv'
  BY <1>2 DEF RuntimeInv, ClaimInv, Owning
<1>9. SavedInv'
  BY <1>2 DEF RuntimeInv, SavedInv
<1> QED
  BY <1>4, <1>5, <1>6, <1>7, <1>8, <1>9 DEF RuntimeInv

LEMMA ProcessPausedStep ==
    ASSUME RuntimeInv, NEW o \in Operations, ProcessPaused(o)
    PROVE  RuntimeInv'
<1>1. /\ work[o].pc = "pause_phase"
      /\ Holds(TRUE, "process_paused")
      /\ Goes(o, "paused")
  BY Went, PhaseWasSet DEF ProcessPaused, At, WorkPCs, RuntimeInv
<1>2. UNCHANGED <<session, secret, pod, mem, known, watch, timer, suspend, ensure, cfg, current, used>>
  BY DEF ProcessPaused, memVars, opVars
<1>3. /\ Working(o) /\ cfg.phase \notin Ended /\ current = {o}
      /\ \A p \in Operations : p # o => work[p].pc \in {"off", "request"}
  BY <1>1, WorksAlone DEF Working
<1>4. RuntimeTypeOK'
  BY <1>1, <1>2 DEF RuntimeInv, RuntimeTypeOK, Goes, Holds, Goroutine
<1>5. WorkInv'
  BY <1>1, <1>2, <1>3 DEF RuntimeInv, WorkInv, Working, At, Open, Ended, Goes, Holds
<1>6. HoldInv'
  BY <1>1, <1>2, <1>3 DEF RuntimeInv, HoldInv, Open, Ended, Pausing, IsPaused, At,
     Working, Goes, Holds
<1>7. SettingsInv'
  BY <1>1, <1>2, <1>3 DEF RuntimeInv, SettingsInv, ResumedInv, CurrentInv,
     PodIsCurrent, Open, Resumed,
     Checked, At, Ended, Working, Goes, Holds
<1>8. ClaimInv'
  BY <1>1, <1>2, <1>3 DEF RuntimeInv, ClaimInv, Owning, Goes, Holds
<1>9. SavedInv'
  BY <1>2 DEF RuntimeInv, SavedInv
<1> QED
  BY <1>4, <1>5, <1>6, <1>7, <1>8, <1>9 DEF RuntimeInv

LEMMA PausedStep ==
    ASSUME RuntimeInv, NEW o \in Operations, Paused(o)
    PROVE  RuntimeInv'
<1>1. /\ work[o].pc = "paused"
      /\ Saves(o, "paused", "off") \/ Saves(o, "restarting", "restart")
  BY WasSaved DEF Paused, At, Phases, Ended, Open, WorkPCs, RuntimeInv
<1>2. UNCHANGED <<session, svc, secret, pod, mem, known, watch, timer, suspend, ensure, used>>
  BY DEF Paused, memVars, opVars
<1>3. /\ Working(o) /\ cfg.phase \notin Ended /\ current = {o}
      /\ \A p \in Operations : p # o => work[p].pc \in {"off", "request"}
  BY <1>1, WorksAlone DEF Working
<1>4. RuntimeTypeOK'
  BY <1>1, <1>2 DEF RuntimeInv, RuntimeTypeOK, Goes, Saves, Goroutine, Configuration
<1>5. WorkInv'
  BY <1>1, <1>2, <1>3 DEF RuntimeInv, WorkInv, Working, At, Open, Ended, Goes, Saves
<1>6. HoldInv'
  BY <1>1, <1>2, <1>3 DEF RuntimeInv, HoldInv, Open, Ended, Pausing, IsPaused, At,
     Working, Goes, Saves
<1>7. SettingsInv'
  BY <1>1, <1>2, <1>3 DEF RuntimeInv, SettingsInv, ResumedInv, CurrentInv,
     PodIsCurrent, Open, Resumed,
     Checked, At, Ended, Working, Goes, Saves
<1>8. ClaimInv'
  BY <1>2 DEF RuntimeInv, ClaimInv, Owning
<1>9. SavedInv'
  BY <1>2 DEF RuntimeInv, SavedInv
<1> QED
  BY <1>4, <1>5, <1>6, <1>7, <1>8, <1>9 DEF RuntimeInv

LEMMA RestartStep ==
    ASSUME RuntimeInv, NEW o \in Operations, Restart(o)
    PROVE  RuntimeInv'
<1>1. /\ work[o].pc = "restart"
      /\ \/ Goes(o, "ready") /\ svc.phase = "ready"
         \/ Goes(o, "fail") \/ Goes(o, "in_secret") \/ Goes(o, "stop_phase")
  <2>1. ASSUME NEW pc \in WorkPCs,
               work' = [work EXCEPT ![o].paused = svc.phase = "process_paused", ![o].pc = pc]
        PROVE  Goes(o, pc)
    <3> DEFINE paused == svc.phase = "process_paused"
               k == [work[o] EXCEPT !.paused = paused]
               l == [k EXCEPT !.pc = pc]
    <3>1. work \in [Operations -> Goroutine] /\ paused \in BOOLEAN
      BY DEF RuntimeInv, RuntimeTypeOK, Goroutine
    <3>2. work' = [work EXCEPT ![o] = l] /\ work \in [Operations -> Goroutine]
      BY <2>1, <3>1
    <3> HIDE DEF paused
    <3>3. k \in Goroutine /\ k.previous = work[o].previous
      BY <3>1 DEF Goroutine
    <3> HIDE DEF k
    <3>4. l \in Goroutine /\ l.pc = pc /\ l.previous = work[o].previous
      BY <3>3 DEF Goroutine
    <3> HIDE DEF l
    <3> QED
      BY <3>4, <3>2 DEF Goes
  <2>2. PICK pc \in {"ready", "fail", "in_secret", "stop_phase"} :
            /\ work' = [work EXCEPT ![o].paused = svc.phase = "process_paused", ![o].pc = pc]
            /\ pc = "ready" => svc.phase = "ready"
    BY DEF Restart
  <2> QED
    BY <2>1, <2>2 DEF Restart, At, WorkPCs
<1>2. UNCHANGED <<session, svc, secret, pod, mem, known, watch, timer, suspend, ensure, cfg, current, used>>
  BY DEF Restart, memVars, opVars
<1>3. /\ Working(o) /\ cfg.phase \notin Ended /\ current = {o}
      /\ \A p \in Operations : p # o => work[p].pc \in {"off", "request"}
  BY <1>1, WorksAlone DEF Working
<1>4. RuntimeTypeOK'
  BY <1>1, <1>2 DEF RuntimeInv, RuntimeTypeOK, Goes, Goroutine
<1>5. WorkInv'
  BY <1>1, <1>2, <1>3 DEF RuntimeInv, WorkInv, Working, At, Open, Ended, Goes, HoldInv,
     IsPaused
<1>6. HoldInv'
  BY <1>1, <1>2, <1>3 DEF RuntimeInv, HoldInv, Open, Ended, Pausing, IsPaused, At,
     Working, Goes
<1>7. SettingsInv'
  BY <1>1, <1>2, <1>3 DEF RuntimeInv, SettingsInv, ResumedInv, CurrentInv,
     PodIsCurrent, Open, Resumed,
     Checked, At, Ended, Working, Goes, HoldInv, IsPaused
<1>8. ClaimInv'
  BY <1>2 DEF RuntimeInv, ClaimInv, Owning
<1>9. SavedInv'
  BY <1>2 DEF RuntimeInv, SavedInv
<1> QED
  BY <1>4, <1>5, <1>6, <1>7, <1>8, <1>9 DEF RuntimeInv

LEMMA PrepareResumeStep ==
    ASSUME RuntimeInv, NEW o \in Operations, PrepareResume(o)
    PROVE  RuntimeInv'
<1>1. /\ work[o].pc \in {"in_secret", "new_secret"}
      /\ secret' \in Secret /\ secret'.settings = o /\ secret'.resumed
      /\ known' \in [Replicas -> Frames]
      /\ Goes(o, "in_phase") \/ Goes(o, "new_phase")
  <2>1. FrameOf(o) \in Frames
    BY DEF FrameOf, Frames, Settings, Secret, RuntimeInv, RuntimeTypeOK
  <2>2. secret' \in Secret /\ secret'.settings = o /\ secret'.resumed
    BY <2>1 DEF PrepareResume, Secret, Settings
  <2>3. known' \in [Replicas -> Frames]
    BY <2>1 DEF PrepareResume, RuntimeInv, RuntimeTypeOK
  <2>4. /\ At(o, "in_secret") \/ At(o, "new_secret")
        /\ Goes(o, "in_phase") \/ Goes(o, "new_phase")
    BY Went DEF PrepareResume, WorkPCs, RuntimeInv
  <2> QED
    BY <2>2, <2>3, <2>4 DEF At
<1>2. UNCHANGED <<session, svc, pod, mem, watch, timer, suspend, ensure, cfg, current, used>>
  BY DEF PrepareResume
<1>3. /\ Working(o) /\ cfg.phase \notin Ended /\ current = {o}
      /\ \A p \in Operations : p # o => work[p].pc \in {"off", "request"}
  BY <1>1, WorksAlone DEF Working
<1>4. RuntimeTypeOK'
  BY <1>1, <1>2 DEF RuntimeInv, RuntimeTypeOK, Goes, Goroutine, Settings
<1>5. WorkInv'
  BY <1>1, <1>2, <1>3 DEF RuntimeInv, WorkInv, Working, At, Open, Ended, Goes
<1>6. HoldInv'
  BY <1>1, <1>2, <1>3 DEF RuntimeInv, HoldInv, Open, Ended, Pausing, IsPaused, At,
     Working, Goes
<1>7. SettingsInv'
  BY <1>1, <1>2, <1>3 DEF RuntimeInv, SettingsInv, ResumedInv, CurrentInv,
     PodIsCurrent, Open, Resumed,
     Checked, At, Ended, Working, Goes
<1>8. ClaimInv'
  BY <1>2 DEF RuntimeInv, ClaimInv, Owning
<1>9. SavedInv'
  BY <1>2 DEF RuntimeInv, SavedInv
<1> QED
  BY <1>4, <1>5, <1>6, <1>7, <1>8, <1>9 DEF RuntimeInv

LEMMA ResumingStep ==
    ASSUME RuntimeInv, NEW o \in Operations, Resuming(o)
    PROVE  RuntimeInv'
<1>1. /\ work[o].pc \in {"in_phase", "new_phase"}
      /\ Holds(TRUE, "resuming")
      /\ Goes(o, "in_agent") \/ Goes(o, "new_pod")
      /\ ensure' = ensure \/ Wakes(o, "check")
  <2>1. At(o, "in_phase") \/ At(o, "new_phase")
    BY DEF Resuming
  <2>2. Goes(o, "in_agent") \/ Goes(o, "new_pod")
    BY Went DEF Resuming, WorkPCs, RuntimeInv
  <2>3. Holds(TRUE, "resuming")
    BY PhaseWasSet DEF Resuming, RuntimeInv
  <2>4. o \in Wakers /\ work[o].at \in Replicas \cup {NoOne}
    BY DEF Wakers, RuntimeInv, RuntimeTypeOK
  <2>5. ensure' = ensure \/ Wakes(o, "check")
    BY <2>4, WakeBegins DEF Resuming, RuntimeInv
  <2> QED
    BY <2>1, <2>2, <2>3, <2>5 DEF At
<1>2. UNCHANGED <<session, secret, pod, mem, known, watch, timer, suspend, cfg, current, used>>
  BY DEF Resuming, memVars, opVars
<1>3. /\ Working(o) /\ cfg.phase \notin Ended /\ current = {o}
      /\ \A p \in Operations : p # o => work[p].pc \in {"off", "request"}
  BY <1>1, WorksAlone DEF Working
<1>4. RuntimeTypeOK'
  BY <1>1, <1>2 DEF RuntimeInv, RuntimeTypeOK, Goes, Holds, Goroutine, Wakes, Wakeup
<1>5. WorkInv'
  BY <1>1, <1>2, <1>3 DEF RuntimeInv, WorkInv, Working, At, Open, Ended, Goes, Holds
<1>6. HoldInv'
  BY <1>1, <1>2, <1>3 DEF RuntimeInv, HoldInv, Open, Ended, Pausing, IsPaused, At,
     Working, Goes, Holds
<1>7. SettingsInv'
  <2>1. (pod.state # "ready" => pod.agent = "none")'
    BY <1>2 DEF RuntimeInv, SettingsInv
  <2>2. ~Fresh => ResumedInv'
    BY <1>1, <1>2 DEF RuntimeInv, SettingsInv, ResumedInv, Wakes
  <2>3. ~Fresh => CurrentInv'
    BY <1>1, <1>2, <1>3 DEF RuntimeInv, SettingsInv, CurrentInv, PodIsCurrent, Open, Resumed,
       Checked, At, Ended, Working, Goes, Holds
  <2> QED
    BY <2>1, <2>2, <2>3 DEF SettingsInv
<1>8. ClaimInv'
  BY <1>1, <1>2, <1>3 DEF RuntimeInv, ClaimInv, Owning, Goes, Holds
<1>9. SavedInv'
  BY <1>2 DEF RuntimeInv, SavedInv
<1> QED
  BY <1>4, <1>5, <1>6, <1>7, <1>8, <1>9 DEF RuntimeInv

LEMMA RestartAgentStep ==
    ASSUME RuntimeInv, NEW o \in Operations, RestartAgent(o)
    PROVE  RuntimeInv'
<1>1. /\ work[o].pc = "in_agent"
      /\ \/ Becomes("ready", "idle", o) /\ Goes(o, "started")
         \/ pod' = pod /\ Goes(o, "undo")
  <2>1. pod \in Workload /\ o \in Settings
    BY DEF RuntimeInv, RuntimeTypeOK, Settings
  <2> DEFINE k == [pod EXCEPT !.agent = "idle"]
             l == [k EXCEPT !.settings = o]
  <2>2. k \in Workload /\ k.state = pod.state /\ k.agent = "idle"
    BY <2>1 DEF Workload
  <2> HIDE DEF k
  <2>3. /\ l \in Workload /\ l.state = pod.state /\ l.agent = "idle"
        /\ l.settings = o
    BY <2>1, <2>2 DEF Workload
  <2>4. \A pc \in {"started", "undo"} : Goto(o, pc) => Goes(o, pc)
    BY Went DEF RuntimeInv, WorkPCs
  <2>5. At(o, "in_agent") /\ IF pod.state = "ready" THEN pod' = l /\ Goto(o, "started")
                                                   ELSE Goto(o, "undo") /\ pod' = pod
    BY DEF RestartAgent, k
  <2> HIDE DEF l
  <2> QED
    BY <2>3, <2>4, <2>5 DEF At, Becomes
<1>2. UNCHANGED <<session, svc, secret, mem, known, watch, timer, suspend, ensure, cfg, current, used>>
  BY DEF RestartAgent, memVars, opVars
<1>3. /\ Working(o) /\ cfg.phase \notin Ended /\ current = {o}
      /\ \A p \in Operations : p # o => work[p].pc \in {"off", "request"}
  BY <1>1, WorksAlone DEF Working
<1>4. RuntimeTypeOK'
  BY <1>1, <1>2 DEF RuntimeInv, RuntimeTypeOK, Goes, Becomes, Goroutine
<1>5. WorkInv'
  BY <1>1, <1>2, <1>3 DEF RuntimeInv, WorkInv, Working, At, Open, Ended, Goes, Becomes
<1>6. HoldInv'
  BY <1>1, <1>2, <1>3 DEF RuntimeInv, HoldInv, Open, Ended, Pausing, IsPaused, At,
     Working, Goes, Becomes
<1>7. SettingsInv'
  BY <1>1, <1>2, <1>3 DEF RuntimeInv, SettingsInv, ResumedInv, CurrentInv,
     PodIsCurrent, Open, Resumed,
     Checked, At, Ended, Working, Goes, Becomes
<1>8. ClaimInv'
  BY <1>2 DEF RuntimeInv, ClaimInv, Owning
<1>9. SavedInv'
  BY <1>1, <1>2, <1>3 DEF RuntimeInv, SavedInv, Goes, Becomes, ClaimInv, Owning
<1> QED
  BY <1>4, <1>5, <1>6, <1>7, <1>8, <1>9 DEF RuntimeInv

LEMMA StopWorkloadStep ==
    ASSUME RuntimeInv, NEW o \in Operations, StopWorkload(o)
    PROVE  RuntimeInv'
<1>1. /\ work[o].pc = "stop_phase"
      /\ Holds(TRUE, "stopping")
      /\ o \in Suspenders
      /\ Calls(o, "acquire") \/ suspend' = suspend
      /\ Goes(o, "stop_suspend") \/ Goes(o, "stop_wait") \/ Goes(o, "undo")
  <2>1. At(o, "stop_phase") /\ Holds(TRUE, "stopping") /\ o \in Suspenders
    BY PhaseWasSet DEF StopWorkload, RuntimeInv, Suspenders
  <2>2. Goes(o, "stop_suspend") \/ Goes(o, "stop_wait") \/ Goes(o, "undo")
    BY Went DEF StopWorkload, RuntimeInv, WorkPCs
  <2>3. \A kind \in {"idle", "paused"} :
            LET l == [NoSuspend EXCEPT !.pc = "acquire", !.at = work[o].at, !.kind = kind]
            IN  l \in Call /\ l.pc = "acquire"
    BY DEF NoSuspend, Call, SuspendPCs, RuntimeInv, RuntimeTypeOK
  <2>4. suspend' = suspend \/ \E kind \in {"idle", "paused"} :
            suspend' = [suspend EXCEPT ![o] =
                [NoSuspend EXCEPT !.pc = "acquire", !.at = work[o].at, !.kind = kind]]
    BY DEF StopWorkload
  <2>5. Calls(o, "acquire") \/ suspend' = suspend
    <3>1. ASSUME NEW kind \in {"idle", "paused"},
                 suspend' = [suspend EXCEPT ![o] =
                     [NoSuspend EXCEPT !.pc = "acquire", !.at = work[o].at, !.kind = kind]]
          PROVE  Calls(o, "acquire")
      <4> DEFINE l == [NoSuspend EXCEPT !.pc = "acquire", !.at = work[o].at, !.kind = kind]
      <4>1. l \in Call /\ l.pc = "acquire" /\ suspend' = [suspend EXCEPT ![o] = l]
        BY <2>3, <3>1
      <4> HIDE DEF l
      <4> QED
        BY <2>1, <4>1, WasCalled DEF RuntimeInv
    <3> QED
      BY <2>4, <3>1
  <2> QED
    BY <2>1, <2>2, <2>5 DEF At
<1>2. UNCHANGED <<session, secret, pod, mem, known, watch, timer, ensure, cfg, current, used>>
  BY DEF StopWorkload, memVars, opVars
<1>3. /\ Working(o) /\ cfg.phase \notin Ended /\ current = {o}
      /\ \A p \in Operations : p # o => work[p].pc \in {"off", "request"}
  BY <1>1, WorksAlone DEF Working
<1>4. RuntimeTypeOK'
  BY <1>1, <1>2 DEF RuntimeInv, RuntimeTypeOK, Goes, Holds, Calls, Call, Goroutine
<1>5. WorkInv'
  BY <1>1, <1>2, <1>3 DEF RuntimeInv, WorkInv, Working, At, Open, Ended, Goes, Holds,
     Calls
<1>6. HoldInv'
  BY <1>1, <1>2, <1>3 DEF RuntimeInv, HoldInv, Open, Ended, Pausing, IsPaused, At,
     Working, Goes, Holds, Calls
<1>7. SettingsInv'
  BY <1>1, <1>2, <1>3 DEF RuntimeInv, SettingsInv, ResumedInv, CurrentInv,
     PodIsCurrent, Open, Resumed,
     Checked, At, Ended, Working, Goes, Holds, Calls
<1>8. ClaimInv'
  BY <1>1, <1>2, <1>3 DEF RuntimeInv, ClaimInv, Owning, Goes, Holds, Calls
<1>9. SavedInv'
  BY <1>1, <1>2, <1>3 DEF RuntimeInv, SavedInv, Goes, Holds, Calls, ClaimInv, Owning
<1> QED
  BY <1>4, <1>5, <1>6, <1>7, <1>8, <1>9 DEF RuntimeInv

LEMMA StopSuspendedStep ==
    ASSUME RuntimeInv, NEW o \in Operations, StopSuspended(o)
    PROVE  RuntimeInv'
<1>1. /\ work[o].pc = "stop_suspend"
      /\ o \in Suspenders
      /\ Calls(o, "off")
      /\ Goes(o, "stop_wait") \/ Goes(o, "undo")
  <2>1. NoSuspend \in Call /\ NoSuspend.pc = "off" /\ o \in Suspenders
    BY DEF NoSuspend, Call, SuspendPCs, Suspenders
  <2>2. Calls(o, "off")
    BY <2>1, WasCalled DEF StopSuspended, RuntimeInv
  <2> QED
    BY <2>1, <2>2, Went DEF StopSuspended, At, WorkPCs, RuntimeInv
<1>2. UNCHANGED <<session, svc, secret, pod, mem, known, watch, timer, ensure, cfg, current, used>>
  BY DEF StopSuspended, memVars, opVars
<1>3. /\ Working(o) /\ cfg.phase \notin Ended /\ current = {o}
      /\ \A p \in Operations : p # o => work[p].pc \in {"off", "request"}
  BY <1>1, WorksAlone DEF Working
<1>4. RuntimeTypeOK'
  BY <1>1, <1>2 DEF RuntimeInv, RuntimeTypeOK, Goes, Calls, Call, Goroutine
<1>5. WorkInv'
  BY <1>1, <1>2, <1>3 DEF RuntimeInv, WorkInv, Working, At, Open, Ended, Goes, Calls
<1>6. HoldInv'
  BY <1>1, <1>2, <1>3 DEF RuntimeInv, HoldInv, Open, Ended, Pausing, IsPaused, At,
     Working, Goes, Calls
<1>7. SettingsInv'
  BY <1>1, <1>2, <1>3 DEF RuntimeInv, SettingsInv, ResumedInv, CurrentInv,
     PodIsCurrent, Open, Resumed,
     Checked, At, Ended, Working, Goes, Calls
<1>8. ClaimInv'
  BY <1>1, <1>2, <1>3 DEF RuntimeInv, ClaimInv, Owning, Goes, Calls
<1>9. SavedInv'
  BY <1>1, <1>2, <1>3 DEF RuntimeInv, SavedInv, Goes, Calls, ClaimInv, Owning
<1> QED
  BY <1>4, <1>5, <1>6, <1>7, <1>8, <1>9 DEF RuntimeInv

LEMMA WaitStoppedStep ==
    ASSUME RuntimeInv, NEW o \in Operations, WaitStopped(o)
    PROVE  RuntimeInv'
<1>1. /\ work[o].pc = "stop_wait"
      /\ Goes(o, "new_secret")
  BY Went DEF WaitStopped, At, WorkPCs, RuntimeInv
<1>2. UNCHANGED <<session, svc, secret, pod, mem, known, watch, timer, suspend, ensure, cfg, current, used>>
  BY DEF WaitStopped, memVars, opVars
<1>3. /\ Working(o) /\ cfg.phase \notin Ended /\ current = {o}
      /\ \A p \in Operations : p # o => work[p].pc \in {"off", "request"}
  BY <1>1, WorksAlone DEF Working
<1>4. RuntimeTypeOK'
  BY <1>1, <1>2 DEF RuntimeInv, RuntimeTypeOK, Goes, Goroutine
<1>5. WorkInv'
  BY <1>1, <1>2, <1>3 DEF RuntimeInv, WorkInv, Working, At, Open, Ended, Goes
<1>6. HoldInv'
  BY <1>1, <1>2, <1>3 DEF RuntimeInv, HoldInv, Open, Ended, Pausing, IsPaused, At,
     Working, Goes
<1>7. SettingsInv'
  BY <1>1, <1>2, <1>3 DEF RuntimeInv, SettingsInv, ResumedInv, CurrentInv,
     PodIsCurrent, Open, Resumed,
     Checked, At, Ended, Working, Goes
<1>8. ClaimInv'
  BY <1>2 DEF RuntimeInv, ClaimInv, Owning
<1>9. SavedInv'
  BY <1>2 DEF RuntimeInv, SavedInv
<1> QED
  BY <1>4, <1>5, <1>6, <1>7, <1>8, <1>9 DEF RuntimeInv

LEMMA NewWorkloadStep ==
    ASSUME RuntimeInv, NEW o \in Operations, NewWorkload(o)
    PROVE  RuntimeInv'
<1>1. /\ work[o].pc = "new_pod"
      /\ Goes(o, "started")
      /\ Wakes(o, "off")
  <2>1. o \in Wakers
    BY DEF Wakers
  <2> QED
    BY <2>1, Went, WakeWasDropped DEF NewWorkload, At, WorkPCs, RuntimeInv
<1>2. UNCHANGED <<session, svc, secret, pod, mem, known, watch, timer, suspend, cfg, current, used>>
  BY DEF NewWorkload, memVars, opVars
<1>3. /\ Working(o) /\ cfg.phase \notin Ended /\ current = {o}
      /\ \A p \in Operations : p # o => work[p].pc \in {"off", "request"}
  BY <1>1, WorksAlone DEF Working
<1>4. RuntimeTypeOK'
  BY <1>1, <1>2 DEF RuntimeInv, RuntimeTypeOK, Goes, Goroutine, Wakes, Wakeup
<1>5. WorkInv'
  BY <1>1, <1>2, <1>3 DEF RuntimeInv, WorkInv, Working, At, Open, Ended, Goes
<1>6. HoldInv'
  BY <1>1, <1>2, <1>3 DEF RuntimeInv, HoldInv, Open, Ended, Pausing, IsPaused, At,
     Working, Goes
<1>7. SettingsInv'
  <2>1. (pod.state # "ready" => pod.agent = "none")'
    BY <1>2 DEF RuntimeInv, SettingsInv
  <2>2. ~Fresh => ResumedInv'
    BY <1>1, <1>2 DEF RuntimeInv, SettingsInv, ResumedInv, Wakes
  <2>3. ~Fresh => CurrentInv'
    BY <1>1, <1>2, <1>3 DEF RuntimeInv, SettingsInv, CurrentInv, PodIsCurrent, Open, Resumed,
       Checked, At, Ended, Working, Goes
  <2> QED
    BY <2>1, <2>2, <2>3 DEF SettingsInv
<1>8. ClaimInv'
  BY <1>2 DEF RuntimeInv, ClaimInv, Owning
<1>9. SavedInv'
  BY <1>2 DEF RuntimeInv, SavedInv
<1> QED
  BY <1>4, <1>5, <1>6, <1>7, <1>8, <1>9 DEF RuntimeInv

LEMMA WaitReadyStep ==
    ASSUME RuntimeInv, NEW o \in Operations, WaitReady(o)
    PROVE  RuntimeInv'
<1>1. /\ work[o].pc = "started"
      /\ pod.settings = o
      /\ Goes(o, "finish")
  BY Went DEF WaitReady, At, WorkPCs, RuntimeInv, Started
<1>2. UNCHANGED <<session, svc, secret, pod, mem, known, watch, timer, suspend, ensure, cfg, current, used>>
  BY DEF WaitReady, memVars, opVars
<1>3. /\ Working(o) /\ cfg.phase \notin Ended /\ current = {o}
      /\ \A p \in Operations : p # o => work[p].pc \in {"off", "request"}
  BY <1>1, WorksAlone DEF Working
<1>4. RuntimeTypeOK'
  BY <1>1, <1>2 DEF RuntimeInv, RuntimeTypeOK, Goes, Goroutine
<1>5. WorkInv'
  BY <1>1, <1>2, <1>3 DEF RuntimeInv, WorkInv, Working, At, Open, Ended, Goes
<1>6. HoldInv'
  BY <1>1, <1>2, <1>3 DEF RuntimeInv, HoldInv, Open, Ended, Pausing, IsPaused, At,
     Working, Goes
<1>7. SettingsInv'
  BY <1>1, <1>2, <1>3 DEF RuntimeInv, SettingsInv, ResumedInv, CurrentInv,
     PodIsCurrent, Open, Resumed,
     Checked, At, Ended, Working, Goes
<1>8. ClaimInv'
  BY <1>2 DEF RuntimeInv, ClaimInv, Owning
<1>9. SavedInv'
  BY <1>2 DEF RuntimeInv, SavedInv
<1> QED
  BY <1>4, <1>5, <1>6, <1>7, <1>8, <1>9 DEF RuntimeInv

LEMMA FinishRestartStep ==
    ASSUME RuntimeInv, NEW o \in Operations, FinishRestart(o)
    PROVE  RuntimeInv'
<1>1. /\ work[o].pc = "finish"
      /\ Holds(FALSE, "ready")
      /\ Goes(o, "ready")
  BY Went DEF FinishRestart, At, WorkPCs, RuntimeInv, RuntimeTypeOK, Service, Holds
<1>2. UNCHANGED <<session, secret, pod, mem, known, watch, timer, suspend, ensure, cfg, current, used>>
  BY DEF FinishRestart, memVars, opVars
<1>3. /\ Working(o) /\ cfg.phase \notin Ended /\ current = {o}
      /\ \A p \in Operations : p # o => work[p].pc \in {"off", "request"}
  BY <1>1, WorksAlone DEF Working
<1>4. RuntimeTypeOK'
  BY <1>1, <1>2 DEF RuntimeInv, RuntimeTypeOK, Goes, Holds, Goroutine
<1>5. WorkInv'
  BY <1>1, <1>2, <1>3 DEF RuntimeInv, WorkInv, Working, At, Open, Ended, Goes, Holds
<1>6. HoldInv'
  BY <1>1, <1>2, <1>3 DEF RuntimeInv, HoldInv, Open, Ended, Pausing, IsPaused, At,
     Working, Goes, Holds
<1>7. SettingsInv'
  BY <1>1, <1>2, <1>3 DEF RuntimeInv, SettingsInv, ResumedInv, CurrentInv,
     PodIsCurrent, Open, Resumed,
     Checked, At, Ended, Working, Goes, Holds
<1>8. ClaimInv'
  BY <1>1, <1>2, <1>3 DEF RuntimeInv, ClaimInv, Owning, Goes, Holds
<1>9. SavedInv'
  BY <1>2 DEF RuntimeInv, SavedInv
<1> QED
  BY <1>4, <1>5, <1>6, <1>7, <1>8, <1>9 DEF RuntimeInv

LEMMA ReadyStep ==
    ASSUME RuntimeInv, NEW o \in Operations, Ready(o)
    PROVE  RuntimeInv'
<1>1. /\ work[o].pc = "ready"
      /\ Saves(o, "ready", "off")
  BY WasSaved DEF Ready, At, Phases, Ended, Open, WorkPCs, RuntimeInv
<1>2. UNCHANGED <<session, svc, secret, pod, mem, known, watch, timer, suspend, ensure, used>>
  BY DEF Ready, memVars, opVars
<1>3. /\ Working(o) /\ cfg.phase \notin Ended /\ current = {o}
      /\ \A p \in Operations : p # o => work[p].pc \in {"off", "request"}
  BY <1>1, WorksAlone DEF Working
<1>4. RuntimeTypeOK'
  BY <1>1, <1>2 DEF RuntimeInv, RuntimeTypeOK, Goes, Saves, Goroutine, Configuration
<1>5. WorkInv'
  BY <1>1, <1>2, <1>3 DEF RuntimeInv, WorkInv, Working, At, Open, Ended, Goes, Saves
<1>6. HoldInv'
  BY <1>1, <1>2, <1>3 DEF RuntimeInv, HoldInv, Open, Ended, Pausing, IsPaused, At,
     Working, Goes, Saves
<1>7. SettingsInv'
  BY <1>1, <1>2, <1>3 DEF RuntimeInv, SettingsInv, ResumedInv, CurrentInv,
     PodIsCurrent, Open, Resumed,
     Checked, At, Ended, Working, Goes, Saves
<1>8. ClaimInv'
  BY <1>2 DEF RuntimeInv, ClaimInv, Owning
<1>9. SavedInv'
  BY <1>2 DEF RuntimeInv, SavedInv
<1> QED
  BY <1>4, <1>5, <1>6, <1>7, <1>8, <1>9 DEF RuntimeInv

LEMMA UndoRestartStep ==
    ASSUME RuntimeInv, NEW o \in Operations, UndoRestart(o)
    PROVE  RuntimeInv'
<1>1. /\ work[o].pc = "undo"
      /\ Holds(TRUE, "failed")
      /\ Goes(o, "fail")
  BY Went, PhaseWasSet DEF UndoRestart, At, WorkPCs, RuntimeInv
<1>2. UNCHANGED <<session, secret, pod, mem, known, watch, timer, suspend, ensure, cfg, current, used>>
  BY DEF UndoRestart, memVars, opVars
<1>3. /\ Working(o) /\ cfg.phase \notin Ended /\ current = {o}
      /\ \A p \in Operations : p # o => work[p].pc \in {"off", "request"}
  BY <1>1, WorksAlone DEF Working
<1>4. RuntimeTypeOK'
  BY <1>1, <1>2 DEF RuntimeInv, RuntimeTypeOK, Goes, Holds, Goroutine
<1>5. WorkInv'
  BY <1>1, <1>2, <1>3 DEF RuntimeInv, WorkInv, Working, At, Open, Ended, Goes, Holds
<1>6. HoldInv'
  BY <1>1, <1>2, <1>3 DEF RuntimeInv, HoldInv, Open, Ended, Pausing, IsPaused, At,
     Working, Goes, Holds
<1>7. SettingsInv'
  BY <1>1, <1>2, <1>3 DEF RuntimeInv, SettingsInv, ResumedInv, CurrentInv,
     PodIsCurrent, Open, Resumed,
     Checked, At, Ended, Working, Goes, Holds
<1>8. ClaimInv'
  BY <1>1, <1>2, <1>3 DEF RuntimeInv, ClaimInv, Owning, Goes, Holds
<1>9. SavedInv'
  BY <1>2 DEF RuntimeInv, SavedInv
<1> QED
  BY <1>4, <1>5, <1>6, <1>7, <1>8, <1>9 DEF RuntimeInv

LEMMA SaveFailedStep ==
    ASSUME RuntimeInv, NEW o \in Operations, SaveFailed(o)
    PROVE  RuntimeInv'
<1>1. /\ work[o].pc = "fail"
      /\ Saves(o, "failed", "off")
  BY WasSaved DEF SaveFailed, At, Phases, Ended, Open, WorkPCs, RuntimeInv
<1>2. UNCHANGED <<session, svc, secret, pod, mem, known, watch, timer, suspend, ensure, used>>
  BY DEF SaveFailed, memVars, opVars
<1>3. /\ Working(o) /\ cfg.phase \notin Ended /\ current = {o}
      /\ \A p \in Operations : p # o => work[p].pc \in {"off", "request"}
  BY <1>1, WorksAlone DEF Working
<1>4. RuntimeTypeOK'
  BY <1>1, <1>2 DEF RuntimeInv, RuntimeTypeOK, Goes, Saves, Goroutine, Configuration
<1>5. WorkInv'
  BY <1>1, <1>2, <1>3 DEF RuntimeInv, WorkInv, Working, At, Open, Ended, Goes, Saves
<1>6. HoldInv'
  BY <1>1, <1>2, <1>3 DEF RuntimeInv, HoldInv, Open, Ended, Pausing, IsPaused, At,
     Working, Goes, Saves
<1>7. SettingsInv'
  BY <1>1, <1>2, <1>3 DEF RuntimeInv, SettingsInv, ResumedInv, CurrentInv,
     PodIsCurrent, Open, Resumed,
     Checked, At, Ended, Working, Goes, Saves
<1>8. ClaimInv'
  BY <1>2 DEF RuntimeInv, ClaimInv, Owning
<1>9. SavedInv'
  BY <1>2 DEF RuntimeInv, SavedInv
<1> QED
  BY <1>4, <1>5, <1>6, <1>7, <1>8, <1>9 DEF RuntimeInv

LEMMA GiveUpStep ==
    ASSUME RuntimeInv, NEW o \in Operations, GiveUp(o)
    PROVE  RuntimeInv'
<1>1. /\ work[o].pc = "idle"
      /\ Saves(o, work[o].previous, "off")
      /\ Spends
  BY WasSaved, WasSpent DEF GiveUp, At, Spends, Bounds, RuntimeInv, RuntimeTypeOK
<1>2. UNCHANGED <<session, svc, secret, pod, mem, known, watch, timer, suspend, ensure>>
  BY DEF GiveUp, memVars, opVars
<1>3. /\ Working(o) /\ cfg.phase \notin Ended /\ current = {o}
      /\ \A p \in Operations : p # o => work[p].pc \in {"off", "request"}
  BY <1>1, WorksAlone DEF Working
<1>4. RuntimeTypeOK'
  BY <1>1, <1>2 DEF RuntimeInv, RuntimeTypeOK, Goes, Saves, Spends, Goroutine,
     Configuration
<1>5. WorkInv'
  BY <1>1, <1>2, <1>3 DEF RuntimeInv, WorkInv, Working, At, Open, Ended, Goes, Saves,
     Spends
<1>6. HoldInv'
  BY <1>1, <1>2, <1>3 DEF RuntimeInv, HoldInv, Open, Ended, Pausing, IsPaused, At,
     Working, Goes, Saves, Spends, WorkInv
<1>7. SettingsInv'
  BY <1>1, <1>2, <1>3 DEF RuntimeInv, SettingsInv, ResumedInv, CurrentInv,
     PodIsCurrent, Open, Resumed,
     Checked, At, Ended, Working, Goes, Saves, Spends, WorkInv
<1>8. ClaimInv'
  BY <1>1, <1>2, <1>3 DEF RuntimeInv, ClaimInv, Owning, Goes, Saves, Spends, WorkInv
<1>9. SavedInv'
  BY <1>1, <1>2, <1>3 DEF RuntimeInv, SavedInv, Goes, Saves, Spends, WorkInv, ClaimInv,
     Owning
<1> QED
  BY <1>4, <1>5, <1>6, <1>7, <1>8, <1>9 DEF RuntimeInv

LEMMA TimeOutStep ==
    ASSUME RuntimeInv, NEW o \in Operations, TimeOut(o)
    PROVE  RuntimeInv'
<1>1. /\ work[o].pc \in {"stop_wait", "started", "new_pod"}
      /\ Goes(o, "undo")
      /\ Wakes(o, "off")
      /\ Spends
  <2>1. o \in Wakers
    BY DEF Wakers
  <2>2. Goes(o, "undo") /\ Wakes(o, "off")
    BY <2>1, Went, WakeWasDropped DEF TimeOut, WorkPCs, RuntimeInv
  <2>3. used' = used \/ Spend("faults")
    BY DEF TimeOut
  <2>4. Spends
    BY <2>3, WasSpent DEF Spends, RuntimeInv, RuntimeTypeOK, Bounds
  <2> QED
    BY <2>2, <2>4 DEF TimeOut, InVain, At
<1>2. UNCHANGED <<session, svc, secret, pod, mem, known, watch, timer, suspend, cfg, current>>
  BY DEF TimeOut, memVars, opVars
<1>3. /\ Working(o) /\ cfg.phase \notin Ended /\ current = {o}
      /\ \A p \in Operations : p # o => work[p].pc \in {"off", "request"}
  BY <1>1, WorksAlone DEF Working
<1>4. RuntimeTypeOK'
  BY <1>1, <1>2 DEF RuntimeInv, RuntimeTypeOK, Goes, Spends, Goroutine, Wakes, Wakeup
<1>5. WorkInv'
  BY <1>1, <1>2, <1>3 DEF RuntimeInv, WorkInv, Working, At, Open, Ended, Goes, Spends
<1>6. HoldInv'
  BY <1>1, <1>2, <1>3 DEF RuntimeInv, HoldInv, Open, Ended, Pausing, IsPaused, At,
     Working, Goes, Spends
<1>7. SettingsInv'
  <2>1. (pod.state # "ready" => pod.agent = "none")'
    BY <1>2 DEF RuntimeInv, SettingsInv
  <2>2. ~Fresh => ResumedInv'
    BY <1>1, <1>2 DEF RuntimeInv, SettingsInv, ResumedInv, Wakes
  <2>3. ~Fresh => CurrentInv'
    BY <1>1, <1>2, <1>3 DEF RuntimeInv, SettingsInv, CurrentInv, PodIsCurrent, Open, Resumed,
       Checked, At, Ended, Working, Goes, Spends
  <2> QED
    BY <2>1, <2>2, <2>3 DEF SettingsInv
<1>8. ClaimInv'
  BY <1>1, <1>2, <1>3 DEF RuntimeInv, ClaimInv, Owning, Goes, Spends
<1>9. SavedInv'
  BY <1>1, <1>2, <1>3 DEF RuntimeInv, SavedInv, Goes, Spends, ClaimInv, Owning
<1> QED
  BY <1>4, <1>5, <1>6, <1>7, <1>8, <1>9 DEF RuntimeInv

LEMMA FailStep ==
    ASSUME RuntimeInv, NEW o \in Operations, Fail(o)
    PROVE  RuntimeInv'
<1>1. /\ work[o].pc \notin {"off", "request", "idle"}
      /\ Goes(o, "fail") \/ Goes(o, "undo")
      /\ Spends
  BY Went, WasSpent DEF Fail, At, WorkPCs, RuntimeInv, Bounds
<1>2. UNCHANGED <<session, svc, secret, pod, mem, known, watch, timer, suspend, ensure, cfg, current>>
  BY DEF Fail, memVars, opVars
<1>3. /\ Working(o) /\ cfg.phase \notin Ended /\ current = {o}
      /\ \A p \in Operations : p # o => work[p].pc \in {"off", "request"}
  BY <1>1, WorksAlone DEF Working
<1>4. RuntimeTypeOK'
  BY <1>1, <1>2 DEF RuntimeInv, RuntimeTypeOK, Goes, Spends, Goroutine
<1>5. WorkInv'
  BY <1>1, <1>2, <1>3 DEF RuntimeInv, WorkInv, Working, At, Open, Ended, Goes, Spends
<1>6. HoldInv'
  BY <1>1, <1>2, <1>3 DEF RuntimeInv, HoldInv, Open, Ended, Pausing, IsPaused, At,
     Working, Goes, Spends
<1>7. SettingsInv'
  BY <1>1, <1>2, <1>3 DEF RuntimeInv, SettingsInv, ResumedInv, CurrentInv,
     PodIsCurrent, Open, Resumed,
     Checked, At, Ended, Working, Goes, Spends
<1>8. ClaimInv'
  BY <1>1, <1>2, <1>3 DEF RuntimeInv, ClaimInv, Owning, Goes, Spends
<1>9. SavedInv'
  BY <1>1, <1>2, <1>3 DEF RuntimeInv, SavedInv, Goes, Spends, ClaimInv, Owning
<1> QED
  BY <1>4, <1>5, <1>6, <1>7, <1>8, <1>9 DEF RuntimeInv

LEMMA InterruptedStep ==
    ASSUME RuntimeInv, Interrupted
    PROVE  RuntimeInv'
<1>1. /\ \A o \in Operations : work[o].pc \in {"off", "request"}
      /\ cfg' \in Configuration /\ cfg'.phase = "failed"
      /\ current' = {}
  BY DEF Interrupted, Configuration, Phases, Ended, Open, RuntimeInv, RuntimeTypeOK
<1>2. UNCHANGED <<session, svc, secret, pod, mem, known, watch, timer, suspend, ensure, work, used>>
  BY DEF Interrupted, memVars, opVars
<1>3. RuntimeTypeOK'
  BY <1>1, <1>2 DEF RuntimeInv, RuntimeTypeOK, Configuration
<1>4. WorkInv'
  BY <1>1, <1>2 DEF RuntimeInv, WorkInv, Working, At, Open, Ended
<1>5. HoldInv'
  BY <1>1, <1>2 DEF RuntimeInv, HoldInv, Open, Ended, Pausing, IsPaused, At, Working
<1>6. SettingsInv'
  BY <1>1, <1>2 DEF RuntimeInv, SettingsInv, ResumedInv, CurrentInv,
     PodIsCurrent, Open, Resumed, Checked, At,
     Ended, Working
<1>7. ClaimInv'
  BY <1>2 DEF RuntimeInv, ClaimInv, Owning
<1>8. SavedInv'
  BY <1>2 DEF RuntimeInv, SavedInv
<1> QED
  BY <1>3, <1>4, <1>5, <1>6, <1>7, <1>8 DEF RuntimeInv

LEMMA CrashStep ==
    ASSUME RuntimeInv, NEW r \in Replicas, Crash(r)
    PROVE  RuntimeInv'
<1>1. /\ Spends
      /\ mem' \in [Replicas -> Statuses]
      /\ watch' \in [Replicas -> {"off", "workload", "broken", "open"}]
      /\ timer' \in [Replicas -> BOOLEAN]
      /\ suspend' \in [Suspenders -> Call]
      /\ \A s \in Suspenders :
            suspend'[s] = suspend[s] \/ suspend'[s].pc \in {"off", "failed"}
      /\ known' \in [Replicas -> Frames]
      /\ ensure' \in [Wakers -> Wakeup]
      /\ \A e \in Wakers : ensure'[e].pc = "prepare" => ensure[e].pc = "prepare"
      /\ work' \in [Operations -> Goroutine]
      /\ \A o \in Operations : work'[o] = work[o] \/ work'[o].pc = "off"
  <2>1. Spends
    BY WasSpent DEF Crash, RuntimeInv, Bounds
  <2>2. /\ mem' \in [Replicas -> Statuses] /\ timer' \in [Replicas -> BOOLEAN]
        /\ watch' \in [Replicas -> {"off", "workload", "broken", "open"}]
    BY DEF Crash, RuntimeInv, RuntimeTypeOK, Statuses
  <2>3. /\ NoSuspend \in Call /\ NoSuspend.pc = "off"
        /\ [NoSuspend EXCEPT !.pc = "failed"] \in Call
        /\ [NoSuspend EXCEPT !.pc = "failed"].pc = "failed"
    BY DEF NoSuspend, Call, SuspendPCs
  <2>4. suspend \in [Suspenders -> Call] /\ work \in [Operations -> Goroutine]
    BY DEF RuntimeInv, RuntimeTypeOK, Call, Goroutine
  <2>5. \A s \in Suspenders :
            /\ suspend'[s] \in Call
            /\ suspend'[s] = suspend[s] \/ suspend'[s].pc \in {"off", "failed"}
    BY <2>3, <2>4 DEF Crash
  <2>6. suspend' \in [Suspenders -> Call]
    BY <2>5 DEF Crash
  <2>7. /\ NoEnsure \in Wakeup /\ NoEnsure.pc = "off"
        /\ [NoEnsure EXCEPT !.pc = "refused"] \in Wakeup
        /\ [NoEnsure EXCEPT !.pc = "refused"].pc = "refused"
    <3>1. Given \in Secret
      BY BoundAssumption DEF Given, Secret, Settings, Frames
    <3> QED
      BY <3>1 DEF NoEnsure, Wakeup, EnsurePCs
  <2>8. ensure \in [Wakers -> Wakeup]
    BY DEF RuntimeInv, RuntimeTypeOK, Wakeup
  <2>9. \A e \in Wakers :
            /\ ensure'[e] \in Wakeup
            /\ ensure'[e].pc = "prepare" => ensure[e].pc = "prepare"
    BY <2>7, <2>8 DEF Crash
  <2>12. ensure' \in [Wakers -> Wakeup]
    BY <2>9 DEF Crash
  <2>13. known' \in [Replicas -> Frames]
    BY DEF Crash, Frames, RuntimeInv, RuntimeTypeOK
  <2>10. IdleWork \in Goroutine /\ IdleWork.pc = "off"
    BY DEF IdleWork, Goroutine, WorkPCs, Phases, Ended, Open
  <2>11. /\ work' \in [Operations -> Goroutine]
         /\ \A o \in Operations : work'[o] = work[o] \/ work'[o].pc = "off"
    BY <2>4, <2>10 DEF Crash
  <2> QED
    BY <2>1, <2>2, <2>5, <2>6, <2>9, <2>11, <2>12, <2>13
<1>2. UNCHANGED <<session, svc, secret, pod, cfg, current>>
  BY DEF Crash, memVars, opVars
<1>3. RuntimeTypeOK'
  BY <1>1, <1>2 DEF RuntimeInv, RuntimeTypeOK, Spends, Call, Goroutine, Wakeup
<1>4. WorkInv'
  <2>1. ASSUME NEW o \in Operations
        PROVE  /\ Working(o)' => Working(o) /\ work'[o] = work[o]
               /\ At(o, "request")' => At(o, "request") /\ work'[o] = work[o]
               /\ At(o, "idle")' => At(o, "idle") /\ work'[o] = work[o]
    BY <1>1 DEF Working, At
  <2> QED
    BY <1>2, <2>1 DEF RuntimeInv, WorkInv
<1>5. HoldInv'
  <2>1. ASSUME NEW o \in Operations
        PROVE  /\ At(o, "idle")' => At(o, "idle") /\ work'[o] = work[o]
               /\ \A pc \in Pausing \cup IsPaused \cup {"ready"} :
                     work'[o].pc = pc => work[o].pc = pc
    BY <1>1 DEF At, Pausing, IsPaused
  <2>2. UNCHANGED <<svc, cfg>>
    BY <1>2
  <2> QED
    BY <2>1, <2>2 DEF RuntimeInv, HoldInv, At
<1>6. SettingsInv'
  <2>1. ~Fresh => ResumedInv'
    BY <1>1, <1>2 DEF RuntimeInv, SettingsInv, ResumedInv
  <2>2. ASSUME NEW o \in Operations
        PROVE  /\ At(o, "idle")' => At(o, "idle") /\ work'[o] = work[o]
               /\ \A pc \in Resumed \cup Checked : work'[o].pc = pc => work[o].pc = pc
    BY <1>1 DEF At, Resumed, Checked
  <2>3. ~Fresh => CurrentInv'
    BY <1>2, <2>2 DEF RuntimeInv, SettingsInv, CurrentInv, PodIsCurrent
  <2> QED
    BY <1>2, <2>1, <2>3 DEF RuntimeInv, SettingsInv
<1>7. ClaimInv'
  BY <1>1, <1>2 DEF RuntimeInv, ClaimInv, Owning, Spends
<1>8. SavedInv'
  BY <1>1, <1>2 DEF RuntimeInv, SavedInv, Spends, ClaimInv, Owning
<1> QED
  BY <1>3, <1>4, <1>5, <1>6, <1>7, <1>8 DEF RuntimeInv

----------------------------------------------------------------------------
(* Every step.                                                             *)

LEMMA Stutter == ASSUME RuntimeInv, UNCHANGED vars PROVE RuntimeInv'
<1> USE DEF vars
<1>1. RuntimeTypeOK'
  BY DEF RuntimeInv, RuntimeTypeOK
<1>2. WorkInv'
  BY DEF RuntimeInv, WorkInv, Working, At
<1>3. HoldInv'
  BY DEF RuntimeInv, HoldInv, At
<1>4. SettingsInv'
  BY DEF RuntimeInv, SettingsInv, ResumedInv, CurrentInv,
     PodIsCurrent, At
<1>5. ClaimInv' /\ SavedInv'
  BY DEF RuntimeInv, ClaimInv, SavedInv
<1> QED
  BY <1>1, <1>2, <1>3, <1>4, <1>5 DEF RuntimeInv

LEMMA NextStep == RuntimeInv /\ [Next]_vars => RuntimeInv'
<1> SUFFICES ASSUME RuntimeInv, [Next]_vars PROVE RuntimeInv'
  OBVIOUS
<1>1. ASSUME NEW r \in Replicas, ReplicaStep(r) \/ Crash(r) PROVE RuntimeInv'
  BY <1>1, GetSessionStep, WatchAgentStep, LeaveAgentStep, WatchWorkloadStep,
     ScheduleRestoredStep, CrashStep DEF ReplicaStep
<1>2. CASE DeadlinePasses \/ PodReady \/ Turn \/ TurnEnds \/ Evict \/ ClaimExpires
           \/ Interrupted
  BY <1>2, DeadlinePassesStep, PodReadyStep, TurnStep, TurnEndsStep, EvictStep,
     ClaimExpiresStep, InterruptedStep
<1>3. ASSUME NEW r \in Replicas,
             \/ \E s \in Reconciliations : Reconcile(s, r)
             \/ \E s \in SuspendRequests : SuspendSession(s, r)
             \/ \E s \in Terminations : Terminate(s, r)
             \/ \E e \in Readers : Read(e, r)
             \/ \E o \in Operations : Request(o, r)
      PROVE  RuntimeInv'
  BY <1>3, ReconcileStep, SuspendSessionStep, TerminateStep, ReadStep, RequestStep
<1>4. ASSUME NEW s \in Suspenders, SuspendStep(s) PROVE RuntimeInv'
  BY <1>4, AcquireStep, CheckpointStep, MarkSuspendedStep, DeleteWorkloadStep,
     RecordSuspendedStep DEF SuspendStep
<1>5. ASSUME NEW e \in Wakers, EnsureStep(e) PROVE RuntimeInv'
  BY <1>5, CheckWorkloadStep, PrepareWakeStep, ClearSuspendStep, CreateWorkloadStep DEF EnsureStep
<1>6. ASSUME NEW o \in Operations, WorkStep(o) PROVE RuntimeInv'
  BY <1>6, AcceptStep, WaitIdleStep, StartPausingStep, PauseStep, PauseSuspendedStep,
     PauseAgentStep, PauseCheckpointStep, ProcessPausedStep, PausedStep, RestartStep,
     PrepareResumeStep, ResumingStep, RestartAgentStep, StopWorkloadStep,
     StopSuspendedStep, WaitStoppedStep, NewWorkloadStep, WaitReadyStep,
     FinishRestartStep, ReadyStep, UndoRestartStep, SaveFailedStep DEF WorkStep
<1>7. ASSUME NEW o \in Operations, GiveUp(o) \/ TimeOut(o) \/ Fail(o) PROVE RuntimeInv'
  BY <1>7, GiveUpStep, TimeOutStep, FailStep
<1>8. CASE UNCHANGED vars
  BY <1>8, Stutter
<1> QED
  BY <1>1, <1>2, <1>3, <1>4, <1>5, <1>6, <1>7, <1>8 DEF Next

(* The session, its claim and its configuration keep the invariant,        *)
(* whatever crashes, expires, fails or times out.                          *)
THEOREM RuntimeInvariance == Spec => []RuntimeInv
<1> QED
  BY InitStep, NextStep, PTL DEF Spec

(* Every variable has its type.                                            *)
THEOREM RuntimeTypeCorrectness == Spec => []RuntimeTypeOK
<1>1. RuntimeInv => RuntimeTypeOK
  BY DEF RuntimeInv
<1> QED
  BY <1>1, RuntimeInvariance, PTL

(* Of all the pauses and restarts that are asked for, on whatever replica, *)
(* at most one works on the session at a time.                             *)
THEOREM OneOperationAtATime == Spec => []OneOperation
<1>1. RuntimeInv => OneOperation
  BY DEF RuntimeInv, WorkInv, OneOperation
<1> QED
  BY <1>1, RuntimeInvariance, PTL

(* A session whose configuration says that it is open is not held by its   *)
(* Service, wherever the operations before have ended.                     *)
THEOREM OpenSessionIsNotHeld == Spec => []OpenIsNotHeld
<1>1. RuntimeInv => OpenIsNotHeld
  BY DEF RuntimeInv, HoldInv, OpenIsNotHeld
<1> QED
  BY <1>1, RuntimeInvariance, PTL

(* Once a session has been resumed, the agent that answers when it is open *)
(* was started with the agent's settings that are saved (its environment,  *)
(* files and restart_id), whoever made its workload, however often it was  *)
(* made again and wherever a pause or a restart failed.  Sandbox, Docker   *)
(* and storages of the Pod are not among these settings.                   *)
THEOREM OpenSessionRunsItsSettings == ASSUME ~Fresh PROVE Spec => []OpenRunsItsSettings
<1>1. RuntimeInv => OpenRunsItsSettings
  BY DEF RuntimeInv, SettingsInv, CurrentInv, PodIsCurrent, OpenRunsItsSettings
<1> QED
  BY <1>1, RuntimeInvariance, PTL

(* A claim that has not expired changes hands in no step but one of its    *)
(* owner's suspension.                                                     *)
THEOREM ClaimsAreKept == Spec => ClaimIsKept
<1>1. RuntimeInv /\ [Next]_vars =>
          [svc.owner # NoOne /\ ~svc.expired /\ svc'.owner # svc.owner
           => suspend'[svc.owner].pc # suspend[svc.owner].pc]_vars
  <2> SUFFICES ASSUME RuntimeInv, Next, svc.owner # NoOne, ~svc.expired, svc'.owner # svc.owner
               PROVE  suspend'[svc.owner].pc # suspend[svc.owner].pc
    OBVIOUS
  <2>1. \E s \in Suspenders : Acquire(s) \/ Checkpoint(s) \/ RecordSuspended(s)
    <3> DEFINE Kept == svc'.owner = svc.owner
    <3>1. /\ svc' = Scheduled => Kept
          /\ svc' = [svc EXCEPT !.suspendAt = "due"] => Kept
          /\ \A request, phase : SetPhase(request, phase) => Kept
          /\ svc' = [svc EXCEPT !.hold = FALSE, !.phase = "ready"] => Kept
          /\ svc' = [svc EXCEPT !.suspendAt = "none", !.suspendedAt = FALSE] => Kept
          /\ svc' = [svc EXCEPT !.expired = TRUE] => Kept
      <4>1. svc \in Service
        BY DEF RuntimeInv, RuntimeTypeOK
      <4>2. /\ Scheduled.owner = svc.owner
            /\ [svc EXCEPT !.suspendAt = "due"].owner = svc.owner
            /\ [svc EXCEPT !.hold = FALSE, !.phase = "ready"].owner = svc.owner
        BY <4>1 DEF Scheduled, Service
      <4>3. /\ [svc EXCEPT !.suspendAt = "none", !.suspendedAt = FALSE].owner = svc.owner
            /\ [svc EXCEPT !.expired = TRUE].owner = svc.owner
        BY <4>1 DEF Service
      <4>4. ASSUME NEW request, NEW phase, SetPhase(request, phase) PROVE Kept
        <5>1. [svc EXCEPT !.hold = TRUE, !.request = request, !.phase = phase].owner = svc.owner
          BY <4>1 DEF Service
        <5> QED
          BY <4>4, <5>1 DEF SetPhase
      <4> QED
        BY <4>2, <4>3, <4>4
    <3> HIDE DEF Kept
    <3>2. svc' = svc => Kept
      BY DEF Kept
    <3>3. ~Kept
      BY DEF Kept
    <3>4. CASE \E r \in Replicas : ReplicaStep(r) \/ Crash(r)
      BY <3>4, <3>1, <3>2, <3>3 DEF ReplicaStep, GetSession, WatchAgent, LeaveAgent, WatchWorkload,
         ScheduleRestored, Crash
    <3>5. CASE DeadlinePasses \/ PodReady \/ Turn \/ TurnEnds \/ Evict \/ ClaimExpires
               \/ Interrupted
      BY <3>5, <3>1, <3>2, <3>3 DEF DeadlinePasses, PodReady, Turn, TurnEnds, Evict,
         ClaimExpires, Interrupted
    <3>6. CASE \E r \in Replicas :
                 \/ \E s \in Reconciliations : Reconcile(s, r)
                 \/ \E s \in SuspendRequests : SuspendSession(s, r)
                 \/ \E s \in Terminations : Terminate(s, r)
                 \/ \E e \in Readers : Read(e, r)
                 \/ \E o \in Operations : Request(o, r)
      BY <3>6, <3>1, <3>2, <3>3 DEF Reconcile, SuspendSession, Terminate, Read, Request
    <3>7. CASE \E s \in Suspenders : SuspendStep(s)
      BY <3>7 DEF SuspendStep, MarkSuspended, DeleteWorkload
    <3>8. CASE \E e \in Wakers : EnsureStep(e)
      BY <3>8, <3>1, <3>2, <3>3 DEF EnsureStep, CheckWorkload, PrepareWake, ClearSuspend, CreateWorkload
    <3>9. CASE \E o \in Operations : WorkStep(o)
      <4>1. PICK o \in Operations : WorkStep(o)
        BY <3>9
      <4>2. CASE \/ Accept(o) \/ WaitIdle(o) \/ StartPausing(o) \/ PauseAgent(o)
                 \/ PauseCheckpoint(o) \/ Paused(o) \/ Restart(o) \/ PrepareResume(o)
        BY <4>2, <3>2, <3>3 DEF Accept, WaitIdle, StartPausing, PauseAgent,
           PauseCheckpoint, Paused, Restart, PrepareResume
      <4>3. CASE \/ RestartAgent(o) \/ StopSuspended(o) \/ WaitStopped(o) \/ NewWorkload(o)
                 \/ WaitReady(o) \/ Ready(o) \/ SaveFailed(o)
        BY <4>3, <3>2, <3>3 DEF RestartAgent, StopSuspended, WaitStopped, NewWorkload,
           WaitReady, Ready, SaveFailed
      <4>4. CASE \/ Pause(o) \/ PauseSuspended(o) \/ ProcessPaused(o) \/ Resuming(o)
                 \/ StopWorkload(o) \/ FinishRestart(o) \/ UndoRestart(o)
        BY <4>4, <3>1, <3>2, <3>3 DEF Pause, PauseSuspended, ProcessPaused, Resuming,
           StopWorkload, FinishRestart, UndoRestart
      <4> QED
        BY <4>1, <4>2, <4>3, <4>4 DEF WorkStep
    <3>10. CASE \E o \in Operations : GiveUp(o) \/ TimeOut(o) \/ Fail(o)
      BY <3>10 DEF GiveUp, TimeOut, Fail
    <3> QED
      BY <3>4, <3>5, <3>6, <3>7, <3>8, <3>9, <3>10 DEF Next
  <2>2. PICK s \in Suspenders : Acquire(s) \/ Checkpoint(s) \/ RecordSuspended(s)
    BY <2>1
  <2>3. suspend \in [Suspenders -> Call]
    BY DEF RuntimeInv, RuntimeTypeOK, Call
  <2>4. CASE Acquire(s)
    BY <2>4 DEF Acquire, Unowned
  <2>5. \A result \in {"done", "failed"} :
            SuspendEnds(s, result) => suspend'[s].pc = result
    BY CallEnded DEF Calls, RuntimeInv
  <2>6. CASE Checkpoint(s)
    BY <2>5, <2>6 DEF Checkpoint, Disown
  <2>7. CASE RecordSuspended(s)
    BY <2>5, <2>7 DEF RecordSuspended
  <2> QED
    BY <2>2, <2>4, <2>6, <2>7
<1> QED
  BY <1>1, RuntimeInvariance, PTL DEF Spec, ClaimIsKept

(* As long as no claim expires under its owner, an ordinary suspension of a*)
(* workload on a volume deletes only what was saved for it, if the session *)
(* is one whose suspensions need a checkpoint.                             *)
THEOREM DeletesOnlyWhatItSaved == Spec => RemovesWhatItSaved
<1>1. RuntimeInv /\ [Next]_vars =>
          [\A s \in Suspensions :
              session.volume /\ session.checkpointed
              /\ suspend[s].pc = "delete" /\ suspend'[s].pc = "record"
              /\ suspend[s].kind = "idle" /\ pod.state # "none" /\ used["expiries"] = 0
              => suspend[s].saved]_vars
  BY DEF RuntimeInv, SavedInv, Suspenders
<1> QED
  BY <1>1, RuntimeInvariance, PTL DEF Spec, RemovesWhatItSaved

----------------------------------------------------------------------------
(* What SessionOperations promises.                                        *)

(* Operation o is past its request, and nobody else is less so.            *)
Moves(o) ==
    /\ \A p \in Operations : p # o => work'[p] = work[p]
    /\ work'[o].pc # "request"
    /\ UNCHANGED <<cfg, current>> \/ current' = {o}

LEMMA Moving ==
    ASSUME NEW o \in Operations, NEW pc \in WorkPCs \ {"request"}
    PROVE  /\ Goes(o, pc) /\ UNCHANGED <<cfg, current>> => Moves(o)
           /\ \A phase : Saves(o, phase, pc) => Moves(o)
BY DEF Goes, Saves, Moves

LEMMA OperationMoves ==
    ASSUME RuntimeInv, NEW o \in Operations, WorkStep(o) \/ GiveUp(o) \/ TimeOut(o) \/ Fail(o)
    PROVE  Moves(o)
<1> DEFINE Ahead == WorkPCs \ {"request"}
           Stays == UNCHANGED <<cfg, current>>
<1>1. /\ \A pc \in Ahead : Goto(o, pc) /\ Stays => Moves(o)
      /\ \A phase \in Phases, pc \in Ahead : SaveThen(o, phase, Goto(o, pc)) => Moves(o)
      /\ \A phase \in Phases : SaveThen(o, phase, End(o)) => Moves(o)
  <2>1. \A pc \in Ahead : Goto(o, pc) /\ Stays => Moves(o)
    BY Went, Moving DEF RuntimeInv
  <2>2. ASSUME NEW phase \in Phases, NEW pc \in Ahead, SaveThen(o, phase, Goto(o, pc))
        PROVE  Moves(o)
    <3>1. Saves(o, phase, pc)
      BY <2>2, WasSaved DEF RuntimeInv
    <3> QED
      BY <3>1, Moving
  <2>3. ASSUME NEW phase \in Phases, SaveThen(o, phase, End(o)) PROVE Moves(o)
    <3>1. Saves(o, phase, "off") /\ "off" \in WorkPCs \ {"request"}
      BY <2>3, WasSaved DEF RuntimeInv, WorkPCs
    <3> QED
      BY <3>1, Moving
  <2> QED
    BY <2>1, <2>2, <2>3
<1>2. /\ {"idle", "pause", "pause_suspended", "pause_agent", "pause_save", "pause_phase",
          "paused", "restart", "in_phase", "in_agent", "stop_suspend", "stop_wait",
          "new_secret", "new_phase", "new_pod", "started", "finish", "ready", "undo",
          "fail"} \subseteq Ahead
      /\ {"waiting_idle", "pausing", "paused", "restarting", "ready", "failed"} \subseteq Phases
  BY DEF WorkPCs, Phases, Ended, Open
<1> HIDE DEF Ahead
<1>3. CASE Accept(o) \/ StartPausing(o) \/ Paused(o) \/ Ready(o) \/ SaveFailed(o)
  BY <1>1, <1>2, <1>3 DEF Accept, StartPausing, Paused, Ready, SaveFailed
<1>4. CASE \/ Pause(o) \/ PauseSuspended(o) \/ PauseAgent(o) \/ PauseCheckpoint(o)
           \/ ProcessPaused(o) \/ PrepareResume(o) \/ Resuming(o) \/ RestartAgent(o)
  BY <1>1, <1>2, <1>4 DEF Pause, PauseSuspended, PauseAgent, PauseCheckpoint, ProcessPaused,
     PrepareResume, Resuming, RestartAgent
<1>5. CASE \/ StopWorkload(o) \/ StopSuspended(o) \/ WaitStopped(o) \/ NewWorkload(o)
           \/ WaitReady(o) \/ FinishRestart(o) \/ UndoRestart(o)
  BY <1>1, <1>2, <1>5 DEF StopWorkload, StopSuspended, WaitStopped, NewWorkload, WaitReady,
     FinishRestart, UndoRestart
<1>6. CASE TimeOut(o) \/ Fail(o)
  BY <1>1, <1>2, <1>6 DEF TimeOut, Fail
<1>7. CASE GiveUp(o)
  <2>1. work[o].previous \in Phases
    BY DEF RuntimeInv, RuntimeTypeOK
  <2> QED
    BY <1>1, <1>7, <2>1 DEF GiveUp
<1>8. work[o] \in Goroutine /\ work \in [Operations -> Goroutine]
  BY DEF RuntimeInv, RuntimeTypeOK, Goroutine
<1>9. CASE WaitIdle(o)
  <2> DEFINE k == [work[o] EXCEPT !.pc = "pausing"]
             l == [k EXCEPT !.previous = ""]
  <2>1. k.pc = "pausing" /\ k \in Goroutine
    BY <1>8 DEF Goroutine, WorkPCs
  <2> HIDE DEF k
  <2>2. l.pc = "pausing"
    BY <2>1 DEF Goroutine
  <2>3. work' = [work EXCEPT ![o] = l] /\ Stays
    BY <1>9 DEF WaitIdle, k
  <2> HIDE DEF l
  <2> QED
    BY <1>8, <2>2, <2>3 DEF Moves
<1>10. CASE Restart(o)
  <2> DEFINE paused == svc.phase = "process_paused"
             k == [work[o] EXCEPT !.paused = paused]
  <2>1. PICK pc \in {"ready", "fail", "in_secret", "stop_phase"} :
            work' = [work EXCEPT ![o] = [k EXCEPT !.pc = pc]]
    BY <1>10 DEF Restart
  <2>2. paused \in BOOLEAN
    OBVIOUS
  <2> HIDE DEF paused
  <2>3. k \in Goroutine
    BY <1>8, <2>2 DEF Goroutine
  <2> HIDE DEF k
  <2> DEFINE l == [k EXCEPT !.pc = pc]
  <2>4. l.pc = pc
    BY <2>3 DEF Goroutine
  <2>5. work' = [work EXCEPT ![o] = l] /\ Stays
    BY <1>10, <2>1 DEF Restart
  <2> HIDE DEF l
  <2> QED
    BY <1>8, <2>4, <2>5 DEF Moves
<1> QED
  BY <1>3, <1>4, <1>5, <1>6, <1>7, <1>9, <1>10 DEF WorkStep

LEMMA NotAgainStep == RuntimeInv /\ NotAgain /\ [Next]_vars => NotAgain'
<1> SUFFICES ASSUME RuntimeInv, NotAgain, [Next]_vars PROVE NotAgain'
  OBVIOUS
<1>1. CASE UNCHANGED <<cfg, current, work>>
  BY <1>1 DEF NotAgain, At
<1>2. CASE Interrupted
  BY <1>2 DEF Interrupted, NotAgain
<1>3. ASSUME NEW r \in Replicas, Crash(r) PROVE NotAgain'
  BY <1>3 DEF Crash, NotAgain, At, IdleWork
<1>4. ASSUME NEW r \in Replicas, NEW o \in Operations, Request(o, r) PROVE NotAgain'
  <2>1. /\ cfg' = cfg /\ current' = current \cup {o} /\ cfg.request # o
        /\ \A p \in Operations : p # o => work'[p] = work[p]
    BY <1>4 DEF Request, RuntimeInv, RuntimeTypeOK
  <2> QED
    BY <2>1 DEF NotAgain, At
<1>5. ASSUME NEW o \in Operations, WorkStep(o) \/ GiveUp(o) \/ TimeOut(o) \/ Fail(o)
      PROVE  NotAgain'
  BY <1>5, OperationMoves DEF Moves, NotAgain, At
<1>6. CASE UNCHANGED vars
  BY <1>1, <1>6 DEF vars
<1>7. CASE \E r \in Replicas : ReplicaStep(r)
  BY <1>1, <1>7 DEF ReplicaStep, GetSession, WatchAgent, LeaveAgent, WatchWorkload, ScheduleRestored, opVars
<1>8. CASE DeadlinePasses \/ PodReady \/ Turn \/ TurnEnds \/ Evict \/ ClaimExpires
  BY <1>1, <1>8 DEF DeadlinePasses, PodReady, Turn, TurnEnds, Evict, ClaimExpires, opVars
<1>9. CASE \E r \in Replicas :
              \/ \E s \in Reconciliations : Reconcile(s, r)
              \/ \E s \in SuspendRequests : SuspendSession(s, r)
              \/ \E s \in Terminations : Terminate(s, r)
              \/ \E e \in Readers : Read(e, r)
  BY <1>1, <1>9 DEF Reconcile, SuspendSession, Terminate, Read, opVars
<1>10. CASE \E s \in Suspenders : SuspendStep(s)
  BY <1>1, <1>10 DEF SuspendStep, Acquire, Checkpoint, MarkSuspended, DeleteWorkload,
     RecordSuspended, opVars
<1>11. CASE \E e \in Wakers : EnsureStep(e)
  BY <1>1, <1>11 DEF EnsureStep, CheckWorkload, PrepareWake, ClearSuspend, CreateWorkload, opVars
<1> QED
  BY <1>2, <1>3, <1>4, <1>5, <1>6, <1>7, <1>8, <1>9, <1>10, <1>11 DEF Next

(* Nothing of this is seen there.                                          *)
Hidden ==
    /\ cfg' = cfg /\ secret'.settings = secret.settings
    /\ svc'.hold = svc.hold
    /\ pod'.state = "none" <=> pod.state = "none"
    /\ pod.state # "none" => pod'.settings = pod.settings

Stays == UNCHANGED Promised!operationVars
Promises == [Promised!OperationsNext]_(Promised!operationVars)

LEMMA Unseen == Hidden => Stays
BY DEF Hidden, Stays, Stage, Promised!operationVars

LEMMA Busy == (Stage = "busy") <=> cfg.phase \notin Ended
BY DEF Stage, Open, Ended

(* What the operation that has the session saves is seen only if it is the *)
(* end of it.                                                              *)
LEMMA SavePromises ==
    ASSUME RuntimeInv, NEW o \in Operations, Working(o), NEW phase \in Phases, NEW pc \in WorkPCs,
           Saves(o, phase, pc), UNCHANGED <<svc, secret, pod>>,
           phase \in Open => ~svc.hold /\ PodIsCurrent
    PROVE  Promises
<1>1. cfg.request = o /\ cfg.phase \notin Ended /\ current = {o}
  BY DEF RuntimeInv, WorkInv
<1>2. cfg'.phase = phase /\ cfg'.request = o
  BY <1>1 DEF Saves
<1>3. Stage = "busy"
  BY <1>1, Busy
<1>4. CASE phase \notin Ended
  <2>1. Stage' = "busy"
    BY <1>2, <1>4 DEF Stage, Ended
  <2> QED
    BY <1>1, <1>2, <1>3, <2>1 DEF Promises, Promised!operationVars
<1>5. CASE phase \in {"paused", "failed"}
  <2>1. Stage' = phase
    BY <1>2, <1>5 DEF Stage, Ended, Open
  <2>2. Promised!End
    BY <1>1, <1>2, <1>3, <1>5, <2>1 DEF Promised!End
  <2> QED
    BY <2>2 DEF Promises, Promised!OperationsNext
<1>6. CASE phase \in Open
  <2>1. Stage' = "open"
    BY <1>2, <1>6 DEF Stage
  <2>2. Promised!Reopen
    BY <1>1, <1>2, <1>3, <1>6, <2>1 DEF Promised!Reopen, PodIsCurrent
  <2> QED
    BY <2>2 DEF Promises, Promised!OperationsNext
<1> QED
  BY <1>4, <1>5, <1>6 DEF Ended

(* The operation tells the Service of the hold.                            *)
LEMMA HoldPromises ==
    ASSUME RuntimeInv, NEW o \in Operations, Working(o), UNCHANGED <<cfg, secret, pod>>,
           NEW q \in Operations \cup {"manual"},
           NEW phase \in {"pausing", "paused", "process_paused", "stopping", "resuming", "failed"},
           SetPhase(q, phase)
    PROVE  Promises
<1>1. svc'.hold = TRUE
  BY PhaseWasSet DEF RuntimeInv, Holds
<1>2. Stage = "busy" /\ Stage' = Stage
  BY Busy, WorksAlone DEF Stage
<1>3. Promised!Hold
  BY <1>1, <1>2 DEF Promised!Hold
<1> QED
  BY <1>3 DEF Promises, Promised!OperationsNext

(* What other parties do to the Service leaves its hold alone.             *)
LEMMA HoldIsKept ==
    ASSUME RuntimeTypeOK,
           \/ svc' = svc \/ svc' = Scheduled \/ DeadlinePasses \/ ClaimExpires
           \/ \E s \in Suspenders : Acquire(s) \/ Disown(s) \/ RecordSuspended(s)
           \/ \E e \in Wakers : ClearSuspend(e)
    PROVE  svc'.hold = svc.hold
<1>1. svc \in Service
  BY DEF RuntimeTypeOK
<1>2. CASE svc' = svc \/ svc' = Scheduled
  BY <1>2, WasScheduled DEF Holds
<1>3. CASE DeadlinePasses \/ ClaimExpires
  BY <1>1, <1>3 DEF DeadlinePasses, ClaimExpires, Service
<1>4. ASSUME NEW s \in Suspenders, Acquire(s) \/ Disown(s) PROVE svc'.hold = svc.hold
  BY <1>1, <1>4 DEF Acquire, Disown, Service
<1>5. ASSUME NEW s \in Suspenders, RecordSuspended(s) PROVE svc'.hold = svc.hold
  <2> DEFINE k == [svc EXCEPT !.suspendAt = "none"]
             l == [k EXCEPT !.suspendedAt = TRUE]
             m == [l EXCEPT !.owner = NoOne]
             n == [m EXCEPT !.expired = FALSE]
  <2>1. svc' = n \/ svc' = svc
    BY <1>5 DEF RecordSuspended
  <2>2. n.hold = svc.hold
    BY <1>1 DEF Service
  <2> HIDE DEF n
  <2> QED
    BY <2>1, <2>2
<1>6. ASSUME NEW e \in Wakers, ClearSuspend(e) PROVE svc'.hold = svc.hold
  BY <1>1, <1>6 DEF ClearSuspend, Service
<1> QED
  BY <1>2, <1>3, <1>4, <1>5, <1>6

LEMMA WorkloadPromises ==
    /\ \A r \in Replicas : RuntimeInv /\ (ReplicaStep(r) \/ Crash(r)) => Promises
    /\ RuntimeInv /\ (DeadlinePasses \/ PodReady \/ Turn \/ TurnEnds \/ Evict) => Promises
<1>1. ASSUME NEW r \in Replicas, RuntimeInv, ReplicaStep(r) \/ Crash(r) PROVE Promises
  <2>1. svc' = svc \/ svc' = Scheduled
    BY <1>1 DEF ReplicaStep, GetSession, WatchAgent, LeaveAgent, WatchWorkload, ScheduleRestored, Crash
  <2>2. UNCHANGED <<cfg, secret, pod>>
    BY <1>1 DEF ReplicaStep, GetSession, WatchAgent, LeaveAgent, WatchWorkload, ScheduleRestored, Crash, opVars
  <2>3. Hidden
    BY <1>1, <2>1, <2>2, HoldIsKept DEF Hidden, RuntimeInv
  <2> QED
    BY <2>3, Unseen DEF Promises, Stays
<1>2. ASSUME RuntimeInv, DeadlinePasses PROVE Promises
  <2>1. Hidden
    BY <1>2, HoldIsKept DEF DeadlinePasses, opVars, Hidden, RuntimeInv
  <2> QED
    BY <2>1, Unseen DEF Promises, Stays
<1>3. ASSUME RuntimeInv, PodReady \/ Turn \/ TurnEnds PROVE Promises
  <2>1. pod \in Workload
    BY <1>3 DEF RuntimeInv, RuntimeTypeOK
  <2>2. pod.state # "none"
    <3>1. pod.agent = "busy" => pod.state = "ready"
      BY <1>3, <2>1 DEF RuntimeInv, SettingsInv, Workload
    <3> QED
      BY <1>3, <3>1 DEF PodReady, Turn, TurnEnds
  <2>3. pod'.state # "none" /\ pod'.settings = pod.settings
    <3> DEFINE k == [pod EXCEPT !.state = "ready"]
               l == [k EXCEPT !.agent = "idle"]
    <3>1. CASE PodReady
      <4>1. pod' = l
        BY <3>1 DEF PodReady
      <4>2. l.state = "ready" /\ l.settings = pod.settings
        BY <2>1 DEF Workload
      <4> HIDE DEF l
      <4> QED
        BY <4>1, <4>2
    <3>2. CASE Turn \/ TurnEnds
      BY <2>1, <2>2, <3>2 DEF Turn, TurnEnds, Workload
    <3> QED
      BY <1>3, <3>1, <3>2
  <2>4. Hidden
    BY <1>3, <2>2, <2>3 DEF PodReady, Turn, TurnEnds, opVars, Hidden
  <2> QED
    BY <2>4, Unseen DEF Promises, Stays
<1>4. ASSUME Evict PROVE Promises
  <2>1. Promised!Remove
    BY <1>4 DEF Evict, NoPod, opVars, Stage, Promised!Remove
  <2> QED
    BY <2>1 DEF Promises, Promised!OperationsNext
<1> QED
  BY <1>1, <1>2, <1>3, <1>4

LEMMA SuspensionPromises ==
    ASSUME RuntimeInv,
           \/ ClaimExpires \/ \E s \in Suspenders : SuspendStep(s)
           \/ \E r \in Replicas : \/ \E s \in Reconciliations : Reconcile(s, r)
                                  \/ \E s \in SuspendRequests : SuspendSession(s, r)
                                  \/ \E s \in Terminations : Terminate(s, r)
    PROVE  Promises
<1>1. CASE \E s \in Suspenders : DeleteWorkload(s)
  <2>1. pod' \in {pod, NoPod} /\ UNCHANGED <<cfg, secret, svc>>
    BY <1>1 DEF DeleteWorkload, opVars
  <2>2. CASE pod' = pod
    BY <2>1, <2>2, Unseen DEF Hidden, Promises, Stays
  <2>3. CASE pod' = NoPod
    <3>1. Promised!Remove
      BY <2>1, <2>3 DEF NoPod, Stage, Promised!Remove
    <3> QED
      BY <3>1 DEF Promises, Promised!OperationsNext
  <2> QED
    BY <2>1, <2>2, <2>3
<1>2. CASE \E s \in Terminations, r \in Replicas : Terminate(s, r)
  <2> DEFINE k == [pod EXCEPT !.state = "starting"]
             l == [k EXCEPT !.agent = "none"]
  <2>1. l.state = "starting" /\ l.settings = pod.settings
    BY DEF RuntimeInv, RuntimeTypeOK, Workload
  <2>2. pod' = l /\ pod.state = "ready" /\ UNCHANGED <<cfg, secret, svc>>
    BY <1>2 DEF Terminate, opVars
  <2> HIDE DEF l
  <2>3. Hidden
    BY <2>1, <2>2 DEF Hidden
  <2> QED
    BY <2>3, Unseen DEF Promises, Stays
<1>3. CASE \E r \in Replicas : \/ \E s \in Reconciliations : Reconcile(s, r)
                              \/ \E s \in SuspendRequests : SuspendSession(s, r)
  <2>1. svc' = svc \/ svc' = Scheduled
    BY <1>3 DEF Reconcile, SuspendSession
  <2>2. UNCHANGED <<cfg, secret, pod>>
    BY <1>3 DEF Reconcile, SuspendSession, opVars
  <2>3. Hidden
    BY <2>1, <2>2, HoldIsKept DEF Hidden, RuntimeInv
  <2> QED
    BY <2>3, Unseen DEF Promises, Stays
<1>4. CASE \/ ClaimExpires
           \/ \E s \in Suspenders : Acquire(s) \/ Checkpoint(s) \/ MarkSuspended(s)
                                    \/ RecordSuspended(s)
  <2>1. svc'.hold = svc.hold
    BY <1>4, HoldIsKept DEF Checkpoint, MarkSuspended, RuntimeInv
  <2>2. UNCHANGED <<cfg, secret, pod>>
    BY <1>4 DEF ClaimExpires, Acquire, Checkpoint, MarkSuspended, RecordSuspended, opVars
  <2>3. Hidden
    BY <2>1, <2>2 DEF Hidden
  <2> QED
    BY <2>3, Unseen DEF Promises, Stays
<1> QED
  BY <1>1, <1>2, <1>3, <1>4 DEF SuspendStep

LEMMA WakerPromises ==
    ASSUME ~Fresh, RuntimeInv,
           \/ \E e \in Readers, r \in Replicas : Read(e, r)
           \/ \E e \in Wakers : EnsureStep(e)
    PROVE  Promises
<1>1. CASE \E e \in Wakers : CreateWorkload(e) /\ pod.state = "none"
  <2>1. Promised!Create
    BY <1>1 DEF CreateWorkload, NewPod, opVars, Stage, Promised!Create
  <2> QED
    BY <2>1 DEF Promises, Promised!OperationsNext
<1>2. CASE \/ \E e \in Readers, r \in Replicas : Read(e, r)
           \/ \E e \in Wakers : \/ CheckWorkload(e) \/ ClearSuspend(e)
                                \/ CreateWorkload(e) /\ pod.state # "none"
  <2>1. svc'.hold = svc.hold
    BY <1>2, HoldIsKept DEF Read, CheckWorkload, CreateWorkload, RuntimeInv
  <2>2. UNCHANGED <<cfg, secret, pod>>
    BY <1>2 DEF Read, CheckWorkload, ClearSuspend, CreateWorkload, opVars
  <2>3. Hidden
    BY <2>1, <2>2 DEF Hidden
  <2> QED
    BY <2>3, Unseen DEF Promises, Stays
<1>3. CASE \E e \in Wakers : PrepareWake(e)
  BY <1>3 DEF PrepareWake, RuntimeInv, SettingsInv, ResumedInv
<1> QED
  BY <1>1, <1>2, <1>3 DEF EnsureStep

LEMMA BeginPromises ==
    ASSUME RuntimeInv, NotAgain, NEW o \in Operations, Accept(o)
    PROVE  Promises
<1>1. At(o, "request") /\ UNCHANGED <<svc, secret, pod>>
  BY DEF Accept
<1>2. CASE o \notin current
  <2>1. UNCHANGED <<cfg, svc, secret, pod>>
    BY <1>2 DEF Accept, SaveThen, Save
  <2>2. Hidden
    BY <2>1 DEF Hidden
  <2> QED
    BY <2>2, Unseen DEF Promises, Stays
<1>3. CASE o \in current
  <2>1. cfg.request # o
    BY <1>1, <1>3 DEF NotAgain
  <2>2. cfg.phase \in Ended
    <3>1. work[o].previous \in Ended
      BY <1>1 DEF RuntimeInv, WorkInv
    <3> QED
      BY <1>1, <1>3, <3>1 DEF RuntimeInv, WorkInv
  <2>3. cfg'.phase = "waiting_idle" /\ cfg'.request = o
    BY <1>3 DEF Accept, SaveThen, Save
  <2>4. Stage' = "busy" /\ Stage # "busy"
    BY <2>2, <2>3, Busy DEF Stage, Ended, Open
  <2>5. Promised!Begin(o)
    BY <1>1, <2>1, <2>3, <2>4 DEF Promised!Begin
  <2> QED
    BY <2>5 DEF Promises, Promised!OperationsNext
<1> QED
  BY <1>2, <1>3

(* The steps that end in a save.                                           *)
LEMMA SavingPromises ==
    ASSUME ~Fresh, RuntimeInv, NEW o \in Operations,
           StartPausing(o) \/ Paused(o) \/ Ready(o) \/ SaveFailed(o) \/ GiveUp(o)
    PROVE  Promises
<1>1. Working(o) /\ UNCHANGED <<svc, secret, pod>>
  BY DEF StartPausing, Paused, Ready, SaveFailed, GiveUp, At, Working
<1>2. "off" \in WorkPCs /\ "pause" \in WorkPCs /\ "restart" \in WorkPCs
  BY DEF WorkPCs
<1>3. {"pausing", "paused", "restarting", "ready", "failed"} \subseteq Phases
  BY DEF Phases, Ended, Open
<1>4. RuntimeTypeOK
  BY DEF RuntimeInv
<1>5. CASE StartPausing(o) \/ Paused(o) \/ SaveFailed(o)
  <2>1. PICK phase \in {"pausing", "paused", "restarting", "failed"},
             pc \in {"off", "pause", "restart"} :
            Saves(o, phase, pc)
    <3>1. StartPausing(o) => Saves(o, "pausing", "pause")
      BY <1>2, <1>3, <1>4, WasSaved DEF StartPausing
    <3>2. Paused(o) => Saves(o, "paused", "off") \/ Saves(o, "restarting", "restart")
      BY <1>2, <1>3, <1>4, WasSaved DEF Paused
    <3>3. SaveFailed(o) => Saves(o, "failed", "off")
      BY <1>2, <1>3, <1>4, WasSaved DEF SaveFailed
    <3> QED
      BY <1>5, <3>1, <3>2, <3>3
  <2>2. phase \notin Open
    BY DEF Open
  <2> QED
    BY <1>1, <1>2, <1>3, <2>1, <2>2, SavePromises
<1>6. CASE Ready(o)
  <2>1. Saves(o, "ready", "off")
    BY <1>2, <1>3, <1>4, <1>6, WasSaved DEF Ready
  <2>2. ~svc.hold /\ PodIsCurrent
    BY <1>6 DEF Ready, RuntimeInv, HoldInv, SettingsInv, CurrentInv, At, Checked
  <2> QED
    BY <1>1, <1>2, <1>3, <2>1, <2>2, SavePromises
<1>7. CASE GiveUp(o)
  <2> DEFINE phase == work[o].previous
  <2>1. phase \in Phases
    BY <1>4 DEF RuntimeTypeOK
  <2>2. Saves(o, phase, "off")
    BY <1>4, <1>7, <2>1, WasSaved DEF GiveUp
  <2>3. phase \in Open => ~svc.hold /\ PodIsCurrent
    BY <1>7 DEF GiveUp, RuntimeInv, HoldInv, SettingsInv, CurrentInv
  <2> HIDE DEF phase
  <2> QED
    BY <1>1, <1>2, <2>1, <2>2, <2>3, SavePromises
<1> QED
  BY <1>5, <1>6, <1>7

(* The steps that tell the Service of the hold.                            *)
LEMMA HoldingPromises ==
    ASSUME RuntimeInv, NEW o \in Operations,
           \/ Pause(o) \/ PauseSuspended(o) \/ ProcessPaused(o)
           \/ Resuming(o) \/ StopWorkload(o) \/ UndoRestart(o)
    PROVE  Promises
<1>1. Working(o) /\ UNCHANGED <<cfg, secret, pod>>
  BY DEF Pause, PauseSuspended, ProcessPaused, Resuming, StopWorkload, UndoRestart, At, Working
<1>2. CASE svc' = svc
  BY <1>1, <1>2, Unseen DEF Hidden, Promises, Stays
<1>3. CASE svc' # svc
  <2>1. PICK q \in Operations \cup {"manual"},
             phase \in {"pausing", "paused", "process_paused", "stopping", "resuming", "failed"} :
            SetPhase(q, phase)
    BY <1>3 DEF Pause, PauseSuspended, ProcessPaused, Resuming, StopWorkload, UndoRestart
  <2> QED
    BY <1>1, <2>1, HoldPromises
<1> QED
  BY <1>2, <1>3

(* The steps that change the settings or the agent, or end the hold.       *)
LEMMA RestartingPromises ==
    ASSUME ~Fresh, RuntimeInv, NEW o \in Operations,
           PrepareResume(o) \/ RestartAgent(o) \/ FinishRestart(o) \/ PauseAgent(o)
    PROVE  Promises
<1>1. Working(o) /\ UNCHANGED cfg
  BY DEF PrepareResume, RestartAgent, FinishRestart, PauseAgent, At, Working
<1>2. Stage = "busy" /\ Stage' = Stage /\ cfg.request = o
  BY <1>1, Busy, WorksAlone DEF Stage, RuntimeInv, WorkInv
<1>3. CASE PrepareResume(o)
  <2>1. Promised!Change
    BY <1>2, <1>3 DEF PrepareResume, Promised!Change
  <2> QED
    BY <2>1 DEF Promises, Promised!OperationsNext
<1>4. pod \in Workload /\ svc \in Service
  BY DEF RuntimeInv, RuntimeTypeOK
<1>5. CASE RestartAgent(o) /\ pod.state = "ready"
  <2> DEFINE k == [pod EXCEPT !.agent = "idle"]
             l == [k EXCEPT !.settings = o]
  <2>1. l.state = "ready" /\ l.settings = o
    BY <1>4, <1>5 DEF Workload
  <2>2. pod' = l /\ secret.settings = o /\ UNCHANGED <<cfg, svc, secret>>
    BY <1>1, <1>5 DEF RestartAgent, RuntimeInv, SettingsInv, CurrentInv, At, Resumed
  <2> HIDE DEF l
  <2>3. Promised!Renew
    BY <1>2, <1>5, <2>1, <2>2 DEF Promised!Renew
  <2> QED
    BY <2>3 DEF Promises, Promised!OperationsNext
<1>6. CASE RestartAgent(o) /\ pod.state # "ready"
  <2>1. Hidden
    BY <1>1, <1>6 DEF RestartAgent, Hidden
  <2> QED
    BY <2>1, Unseen DEF Promises, Stays
<1>7. CASE FinishRestart(o)
  <2> DEFINE k == [svc EXCEPT !.hold = FALSE]
             l == [k EXCEPT !.phase = "ready"]
  <2>1. l.hold = FALSE
    BY <1>4 DEF Service
  <2>2. svc' = l /\ UNCHANGED <<cfg, secret, pod>>
    BY <1>7 DEF FinishRestart
  <2> HIDE DEF l
  <2>3. secret.settings = o /\ PodIsCurrent
    BY <1>7 DEF FinishRestart, RuntimeInv, SettingsInv, CurrentInv, At, Resumed, Checked
  <2>4. Promised!Release
    BY <1>2, <2>1, <2>2, <2>3 DEF Promised!Release, PodIsCurrent
  <2> QED
    BY <2>4 DEF Promises, Promised!OperationsNext
<1>8. CASE PauseAgent(o)
  <2>1. UNCHANGED <<cfg, svc, secret>>
    BY <1>8 DEF PauseAgent
  <2>2. pod' = pod \/ (pod.state = "ready" /\ pod' = [pod EXCEPT !.agent = "paused"])
    BY <1>8 DEF PauseAgent
  <2>3. Hidden
    BY <1>4, <2>1, <2>2 DEF Hidden, Workload
  <2> QED
    BY <2>3, Unseen DEF Promises, Stays
<1> QED
  BY <1>3, <1>5, <1>6, <1>7, <1>8

LEMMA OperationPromises ==
    ASSUME ~Fresh, RuntimeInv, NotAgain, NEW o \in Operations,
           WorkStep(o) \/ GiveUp(o) \/ TimeOut(o) \/ Fail(o)
    PROVE  Promises
<1>1. CASE \/ WaitIdle(o) \/ Restart(o) \/ StopSuspended(o)
           \/ WaitStopped(o) \/ NewWorkload(o) \/ WaitReady(o) \/ TimeOut(o) \/ Fail(o)
  <2>1. UNCHANGED <<cfg, svc, secret, pod>>
    BY <1>1 DEF WaitIdle, Restart, StopSuspended, WaitStopped, NewWorkload,
       WaitReady, TimeOut, Fail
  <2>2. Hidden
    BY <2>1 DEF Hidden
  <2> QED
    BY <2>2, Unseen DEF Promises, Stays
<1>2. CASE PauseCheckpoint(o)
  <2>1. UNCHANGED <<cfg, svc, pod>>
    BY <1>2 DEF PauseCheckpoint
  <2>2. secret'.settings = secret.settings
    BY <1>2 DEF PauseCheckpoint, Secret, RuntimeInv, RuntimeTypeOK
  <2>3. Hidden
    BY <2>1, <2>2 DEF Hidden
  <2> QED
    BY <2>3, Unseen DEF Promises, Stays
<1> QED
  BY <1>1, <1>2, BeginPromises, SavingPromises, HoldingPromises, RestartingPromises DEF WorkStep

LEMMA StepPromises == ASSUME ~Fresh PROVE RuntimeInv /\ NotAgain /\ [Next]_vars => Promises
<1> SUFFICES ASSUME RuntimeInv, NotAgain, [Next]_vars PROVE Promises
  OBVIOUS
<1>1. CASE Interrupted
  <2>1. Stage = "busy" /\ Stage' = "failed" /\ cfg'.request = cfg.request
    BY <1>1, Busy DEF Interrupted, Stage, Ended, Open, RuntimeInv, RuntimeTypeOK
  <2>2. Promised!End
    BY <1>1, <2>1 DEF Interrupted, Promised!End
  <2> QED
    BY <2>2 DEF Promises, Promised!OperationsNext
<1>2. CASE UNCHANGED vars \/ \E o \in Operations, r \in Replicas : Request(o, r)
  <2>1. Hidden
    BY <1>2 DEF vars, Request, Hidden
  <2> QED
    BY <2>1, Unseen DEF Promises, Stays
<1> QED
  BY <1>1, <1>2, WorkloadPromises, SuspensionPromises, WakerPromises, OperationPromises DEF Next

LEMMA InitPromises == Init => NotAgain /\ Promised!OperationsInit
<1> SUFFICES ASSUME Init PROVE NotAgain /\ Promised!OperationsInit
  OBVIOUS
<1>1. NotAgain
  BY DEF Init, NotAgain
<1>2. cfg = [phase |-> "", request |-> NoOne] /\ "" \in Open
  BY DEF Init, Open
<1>3. cfg.phase \in Open /\ cfg.request = NoOne
  BY <1>2
<1>4. ~svc.hold /\ svc.hold = FALSE
  BY DEF Init
<1>5. secret.settings = Base /\ pod.state = "ready" /\ pod.settings = Base
  BY DEF Init, Given
<1> QED
  BY <1>1, <1>3, <1>4, <1>5 DEF Promised!OperationsInit, Stage

(* Pauses and restarts of a session that has been resumed before keep what *)
(* SessionOperations promises: whichever of the replicas' goroutines,      *)
(* readers and suspensions take steps, fail or crash, one operation at a   *)
(* time changes the agent's settings, and the session is open again only   *)
(* when nothing holds it and its agent, if there is one, was started with  *)
(* them (changeSessionRuntime, PauseSession, RestartSession).              *)
THEOREM OperationsRefinement == ASSUME ~Fresh PROVE Spec => ImplementsOperations
<1>1. Init => RuntimeInv /\ NotAgain /\ Promised!OperationsInit
  BY InitStep, InitPromises
<1>2. RuntimeInv /\ NotAgain /\ [Next]_vars =>
          RuntimeInv' /\ NotAgain' /\ [Promised!OperationsNext]_(Promised!operationVars)
  BY NextStep, NotAgainStep, StepPromises DEF Promises
<1> QED
  BY <1>1, <1>2, PTL DEF Spec, ImplementsOperations, Promised!OperationsSpec
=============================================================================
