# Verification of the session proxy

TLA+ models, TLC runs and TLAPS proofs about the code under `src/backend`.
The program takes requests for agent sessions, hands each one to a pre-warmed
*runner* (a Kubernetes pod or a native process), and lets the *runtime* the
runner starts talk back to it. Several replicas of the proxy serve requests at
the same time over one shared key-value store; runners and their managers are
remote and fail on their own.

What can go wrong is seldom inside one function. It is the order in which two
replicas, a runner that was thought dead and a heartbeat touch the same few
records, or what a crash between two of an operation's writes leaves for the next
one. That is what the modules describe.

## 1. Inventory

Paths are under `src/backend`.

### Modelled, wholly or in part

| Component | State it keeps | Operations |
| --- | --- | --- |
| Runner allocation store (`internal/infrastructure/sessionrunner`, `internal/core/sessionrunner`) | runner records (idle, claiming, running, draining) and allocation records (pending, leased, claimed, running; runner, lease, generation) | CreateRunner, Enqueue, ClaimNext, Acknowledge, Fail, MarkStarted, RequeueUnstarted, RetireRunner, deletes |
| Session pool controller (`internal/interfaces/controllers/session_pool*.go`) | none of its own | runner endpoints (register, claim, ack, fail), manager heartbeat and its reconciliation, retirement, deletion of managers, suppliers, pools and runners |
| Runner process (`pkg/provisioner/pull_client.go`, `direct_runtime_client.go`, `internal/modules/sessionmanager/runner_worker.go`) | the claim it holds | poll, acknowledge or fail, start a runtime, exit |
| Runtime controller (`session_runtime_controller.go`) | none of its own | authorises every call of a runtime, marks the allocation started, takes status pushes |
| Session creation (`internal/app/server.go`) | none of its own | quota, enqueue, pending route, deletion of the allocation |
| Route repository (`internal/infrastructure/repositories/kubernetes_session_route_repository.go`) | a route per session: runner, generation, status, deletion request; per replica, two caches | Save (creates or overwrites), Get, List, Delete |
| Session deletion (`session_controller.go`), route reconciler (`session_route_reconciler.go`) | none of their own | queue a deletion for the manager or delete at once, finish queued deletions on later requests, finalise stuck ones |
| Native session manager (`internal/modules/sessionmanager`) | its local sessions, keyed by runner | heartbeat with inventory, orphan cleanup, deletion commands |
| Control tunnel (`internal/infrastructure/esmcontrol`, `sessionmanager/control_worker.go`, `pkg/provisioner/direct_runtime_client.go`) | a command stream, an acknowledged position and a response stream per request; the worker's cursor, slots and running commands | Enqueue, Request, Cancel, poll, upload, acknowledge, execute, restart of the worker |
| Kubernetes session runtime (`infrastructure/services/kubernetes_session_manager.go`, `kubernetes_session_restart.go`, `interfaces/controllers/session_restart_controller.go`, `sessionrunner/configuration.go`, `pkg/provisioner/restart.go`) | annotations of the Service, settings Secret, Pod; a configuration with phase and version; per replica, a status in memory | suspend (deadline, request, termination), wake, pause, restart in place, restart with a new workload, finding an operation interrupted |
| Allocation queue (`services/session_allocator.go`, `internal/infrastructure/sessionallocation`, `app/session_manager_runtime.go`, `leader_election.go`, stock adoption in the Kubernetes manager) | stored requests, stock and other sessions, routes, the leader's lease; per leader, a subscription | submit, take, adopt or create, complete, notify, delete; gaining and losing the lease |

Replicas interact only through stores and through Kubernetes objects. The runner store compares versions on
update, one record at a time; there are no transactions. The route repository
does not compare versions at all and caches what it reads. The runner record and
the allocation record of one hand-off are therefore never written together,
and the protocol's whole difficulty is what another request may do in between.

What makes it correct: a session is worked on by at most one runtime that the
proxy admits; a runner has at most one session; a runner in use is neither
claimed again nor retired; a retired runner never gets work; every hand-off
can be told from every other; a started session is never taken back; a session
is not left behind when a lease expires or a runner dies. Routes may lag, but
a route never mixes two hand-offs, calls are accepted of one hand-off only, the
route ends up naming the allocation's runner, and a workload without a route is
deleted. A response that comes through the tunnel is of one execution, in order;
cancels find what they cancel. Where a suspension needs a checkpoint, a workload is
deleted only after its own state was saved; whoever reads a session gets a workload
or is told of a hold; an operation on a session is the only one, ends, and leaves no
agent behind that runs other settings than are saved. A request in the queue
is carried out once while nothing fails, wakes a worker that sleeps, and is not
reported served unless its session can be found.

### Not modelled yet, or not to be

| Component | What it keeps and does | Hard behaviour | What makes it correct |
| --- | --- | --- | --- |
| Suspension and resumption of pool sessions (`interfaces/controllers/session_controller.go`, `session_pool_controller.go`) | status in the route | multi-step operations over route and allocation, rolled back by the heartbeat | each ends in one of its two outcomes |
| Quota (`app/server.go`) | none: counts allocations | check and enqueue are separate | the excess over the limit is bounded by the concurrent creations |
| Pool configuration (`sessionrunner/configuration.go`) | pools, suppliers | compare-and-swap retries | no update is lost |
| Pool resolution (`core/sessionrunner/resolver.go`) | none, a pure selection | none | selects a pool the user may use |
| Session control stores (`sessioncontrol`) | command queue of a session, in memory or Redis | a poll races a publish | no command lost or delivered twice |
| Stock inventory, external allocation queue (`kubernetes_session_manager.go`, `sessionallocation`) | the number of stock sessions; requests leased by external managers | the purge of stock races its adoption | a session in use is not purged |
| Key-value stores (`kvstore`) | records with versions; replica; keys | replication half done | the primary decides; an encrypted record can be read back |
| Schedules (`modules/schedule`) | due times, a leader lease | two leaders | a due schedule runs once; of it only the leader election is modelled |
| Slack bots, webhooks, counts; provisioning and storage sync; rate limits, tokens, settings; updater; frontend, native applications, charts | | mostly input and output | out of the model's interest |

The same list, with the reasons, is under `components` in `PROJECT.json`; the
hazards of the code, each at its line, are under `hazards`.

## 2. Modules

| Module | Role |
| --- | --- |
| `RunnerAllocation` | the protocol: state, one action per operation or per write of an operation, specification, properties |
| `SessionHandoff` | the abstract specification: what the protocol promises for a session |
| `RunnerAllocationInvariant` | the inductive invariant and the refinement mapping to `SessionHandoff` |
| `MCRunnerAllocation` | the instances TLC checks |
| `SessionRoute` | the route of a session, over `SessionHandoff`: replicas with caches, claims, runtime calls, deletions, heartbeats |
| `MCSessionRoute` | its instances |
| `ControlTunnel`, `MCControlTunnel` | commands and responses between the proxy and a worker that polls |
| `SessionRuntime`, `MCSessionRuntime` | the workload of one Kubernetes session: suspension, wake-up, pause, restart |
| `SessionOperations` | the abstract specification: what pauses and restarts promise for a session |
| `SessionAllocator`, `MCSessionAllocator` | the queue of creation requests, its leaders and the stock sessions |
| `SessionRequests` | the abstract specification: what the queue promises whoever asks for a session |
| `SessionRouteInvariant`, `ControlTunnelInvariant`, `SessionRuntimeInvariant`, `SessionAllocatorInvariant` | the inductive invariant of each of these four, and the mappings of `SessionRuntime` to `SessionOperations` and of `SessionAllocator` to `SessionRequests`; the instances extend it, so TLC checks what the proofs use |
| `RunnerAllocationLemmas` | facts about the records and about what each kind of step leaves alone |
| `RunnerAllocationProofs` | every action preserves the invariant |
| `RunnerAllocationTheorems` | the results |
| `ControlTunnelLemmas` | what appending uploaded frames to a response yields, by induction over the upload |
| `SessionRouteProofs`, `ControlTunnelProofs`, `SessionRuntimeProofs`, `SessionAllocatorProofs` | every action preserves the invariant, and the results |

`SessionRoute` is composed with `SessionHandoff`. `ControlTunnel`, `SessionRuntime` and
`SessionAllocator` stand alone: the tunnel carries requests whatever they are about,
a session's workload has one owner in Kubernetes, and the queue is the session
manager's own.

### How RunnerAllocation corresponds to the code

*State.* `runner[r]` is the status of a runner record; `"tombstone"` is the
draining record `RetireRunner` makes for a runner that has none, which no
credential matches. `alloc[s]` is the allocation record, with the version the
store compares. `expired[s]` says that the clock is past `LeaseExpiresAt`, so
time is an action that may happen whenever a lease is out. `handler[h]` is a request
in service: its next write and what it read. `worker[r]` is the runner process.
`runtimes` are the claims that reached runners, which is what their runtimes
authenticate with for ever after; `started` are those `MarkStarted` admitted.
`retired` are the runners whose manager was told that they are retired, which
`RetireRunner` also answers for a runner that has no record. `erased` are the runners
whose record was deleted by somebody (with its session, its manager, its pool, or by
hand) and not by the heartbeat after its retention. `reported` are the sessions whose
route shows a status past starting, which keeps reconciliation from requeueing
them. A process that is `"gone"` has vanished from its manager's inventory too.

*Steps.* A step writes one record. The retry loops `mutate` and
`transitionLease` read the record again before every attempt, so a successful
attempt is one atomic step; an exhausted loop is a lost request. `ClaimNext` is
different: it writes the record it *listed*. It is four steps (`ClaimNext`
lists and chooses, `Reserve` writes the runner, `WriteLease` or
`WriteLeaseConflict` and `Rollback` the allocation, `Respond` the answer), and
the compare-and-swap is the version in the snapshot. `Acknowledge` and `Fail`
write the allocation and then the runner (`SettleRunning`, `SettleIdle`).
`ReconcileMissing` decides on what it listed and `RequeueUnstarted` writes
later. Deletions are two or three steps.

*Failures.* `RequestLost` ends any request between two of its steps: a replica
that crashes, a cancelled request, a store that errs. A request lost in front
of its write is a write that did not reach the store; a request lost after it
is a write whose answer did not come back, and `ClaimNext` treats both alike.
`WriteLeaseConflict` allows both answers the stores give for a record that was
deleted meanwhile: a conflict (the reservation is rolled back) or not found (it
is not). `WorkerExits` ends a runner process at any time. `MarkStarted` may
arrive long after its claim was lost and its process ended. The inventory a
manager reports is a snapshot, so `ReconcileMissing` does not ask that the
process is really gone. It does ask for an inventory, which session managers send
(`session_manager_runtime.go:455`) and native workers do not
(`runner_worker.go:90`): `Inventoried` are the runners of the former. And it asks that
the route shows no status or a starting one (`session_pool_controller.go:1575-1584`).
`ReportStatus` is the same heartbeat giving the route a status; a claim may or may not
reset it. `Reportable` are the sessions to which this may happen.

*Left out, because it only removes behaviours:* authentication of managers,
pools that are disabled, the long poll's waiting (a poll that found nothing changes
nothing), `TouchRunner`, capabilities (the constant `Matches` says which runner
fits which session). The lease identifier is a random token; the attempt
number stands for it, which is as unique. Replicas' clocks are taken to agree on
whether a lease has passed. Of a route only `reported` is kept here; what it names,
and how its copies are saved over one another, is `SessionRoute`'s subject.

*Facts about the surroundings the model uses.* A runner identifier is a fresh
UUID and registers once (`runner_worker.go:179`, `kubernetes_session_manager.go`
for pods). A draining record is deleted only after ten minutes, longer than a
registration can be under way (`DeleteTombstone`). Records of managers,
suppliers and runners are deleted by hand only when no registration is pending.
A session identifier is created once.

### How SessionRoute corresponds to the code

*State.* `route[s]` is the stored route: generation, `RemoteSessionID`
(`remote`; `ManagerID` is always written with it, so it is not kept apart),
status and deletion request. `cache[p][s]` and `listed[p]` are the two caches of
replica `p`. `request[p]` is the request `p` is serving: its next step and its
copy of the route. `runtimes` are the hand-offs whose claim was answered, with
the generation they authenticate with; `fenced` those whose worker stopped on a
conflict; `accepted` those with an authorised call. `local[r]` is the session the
manager keeps under runner `r`, `commands[s]` the deletions queued for it, a
deletion request being a position in that queue.

*The allocation* is not the detailed protocol but what `RunnerAllocation` has
been proved to implement: `Submit`, `Offer`, `Withdraw`, `Start`, `Remove` of
`SessionHandoff`. Every allocation step of this module is one of these by the way it
is written, so this is no property of the code and none is claimed.

*Steps.* A step makes one access to the repository, with its effect on the
caches, and a request goes through them in the order of the code. A save is a
step of its own (`SaveRoute`) because everything can happen between the read and
the save: that is the module's subject. `Save` creates or overwrites.
`PrepareClaimRoute` and its save are what a claim does after its lease is
written; `RepairRoute` what a heartbeat does; `Record` what a status push does
after `MarkStarted`; `ReconcileQueuedDeletion` what DELETE and search do about
a queued deletion. A heartbeat goes through `HeartbeatManager` (statuses),
`FindOrphans`, `ListAllocations`, `RepairRoute`, `CleanupOrphans` (the manager's
reaction to the answer).

*Failures.* `RequestLost` ends a request between two steps on replicas in
`Unreliable`; `ForgetFailed` is the one deletion whose error is only logged;
a deletion command may fail. Cached entries expire at any time, or live on.

*Abstractions.* A replica serves one request at a time: two requests of one
replica differ from two replicas only in sharing a cache. The statuses a runtime
or manager reports are one status, `active`; suspension is not modelled. A
heartbeat treats one session per round, and its inventory may be empty, which
stands for another manager's. `LeaseMayRunOut` says that the 45 seconds of a
lease outlast the creation of the session and the two seconds of a cache, so a
copy older than a lease is not used after it (a request in service may still
hold one). The runtime token is not modelled: the code writes it with the generation, so it
fences nothing the generation does not. A deletion that deletes the route and then
the allocation is two steps; revoking leases and deleting configuration is left
out.

### How ControlTunnel corresponds to the code

*State.* `stream` is the Redis stream of commands of one worker; a stream ID is a
place in it. `ack` is the position `ackCommandScript` keeps, `frames[r]` the response
stream of a request, `expired` the requests whose deadline has passed. `worker` is
the poll loop: its life (it may crash), its cursor, the batch it is in and the cancels
it has handled. `execution[r]` is the goroutine of a command. `direct` chooses between
the two programs that play the worker: the session manager's `ControlWorker`, which
keeps its cursor in memory, starts behind `ack` and has a bounded number of slots,
and the runtime's `directRuntimeWorker`, which keeps its cursor in a file and has no
bound.

*Steps.* The loop polls and dispatches one command after the other: a cancel stops
its target if that has begun (`DispatchCancel`), and a `ControlWorker` answers a command
whose deadline has passed itself; both answers are uploaded by the loop, which does
nothing else meanwhile. Any other command gets a goroutine, once a slot is free
(`Spawn`): while the loop waits for one it sees no cancel. A goroutine begins, calls the
local server, reads the response and uploads frames. An upload is two steps, the
proxy's appending (`Upload`) and its acknowledging (`UploadAccepted`), between which
the proxy may fail (`UploadUnanswered`). The runtime gives the upload of a last frame two
minutes and drops it then (`UploadStopped`). A caller waits for its first frame, streams
the rest, and may leave at any time, which sends a cancel.

*Failures.* The worker crashes with everything in memory; its uploads under way may
still arrive (`LateUpload`). An upload of an exposed request may be lost, or its
answer may, and is repeated. Deadlines pass.

*Abstractions.* A frame's identifier is a UUID; the life of the worker and the place
of the frame in the response stand for it. A response is an event stream, small, or
large; only that decides how it is cut into uploads. The in-memory store of a single
replica, trimming of the streams, and limits on sizes are left out. So are uploads the
proxy never accepts (more than a hundred frames at a time, or a request it has
forgotten): their caller is answered by the deadline, as one whose upload was dropped is. A large response
is uploaded in parts before its command is acknowledged, so a crash in between
makes two executions write into one response; `ReplyIsOneExecution` excepts it.

### How SessionRuntime corresponds to the code

*State.* `session` says what kind of session it is: whether its workload is a
Deployment on a volume, and whether its suspensions need a checkpoint
(`requiresSessionCheckpoint`). `svc` are the annotations of the Service: the suspension
deadline, the mark, the claim of whoever suspends, the hold and phase of an
operation. Settings have two parts with different fates. The *agent's settings*
(restart identifier, environment, files) are read from the Secret by the agent when it
starts. The *frame* of a Pod (sandbox, Docker sidecar, storages) is built by the manager from the request
it has in memory (`createPod(ctx, ks, ks.Request())`). So `secret` holds the saved settings,
the saved frame and whether the session has ever been resumed; `pod` the
workload, its agent, the settings that agent was started with and the frame it was built
with; and `known[r]` the frame in replica `r`'s memory, which a session restored from
its Service does not have. `mem[r]`, `watch[r]` and `timer[r]` are a replica's copy of the status,
its watchers and the goroutine that waits to schedule the next deadline. `cfg` is
the saved configuration; `current` says whose copy of it has the version that is
saved. `suspend[s]`, `ensure[e]` and `work[o]` are calls in progress.

*Steps.* Suspending is acquire, checkpoint (where one is needed), mark, delete, record
(`suspendSessionWorkloadOwned`); a caller that finds another owner leaves the session to it. Waking is check, clear,
create, and waiting for readiness (`EnsureSessionWorkload`). The first call that wakes a session
also saves its settings, as it read them before (`PrepareWake`); later ones return
early and refresh neither the Secret nor the replica's memory. The watchers are
`WatchWorkload` (missing, not ready, ready again), `WatchAgent`, and `LeaveAgent` for a
stream that broke and is not opened again. An operation is accepted
by a write of the configuration that must find its version, then works as a goroutine
through pause, restart in place (Secret, phase, agent) or restart with a new workload
(phase, suspension, Secret, phase, Pod), with the undo paths of the code. A Get and
Update with a version is one step that may fail; a merge patch one that cannot fail on
a version.

*Failures.* `MaxFaults` together bounds crashes of a replica, evictions of a Pod and
restarts of its process, and failed calls. A deletion of the workload or a record of the
suspension that fails ends the suspension with the status in memory and the claim
as they are.

*Time.* A claim of 35 minutes runs out only while its owner waits for the checkpoint
or is dead (`MaxExpiries`). An operation is found to be interrupted after 12 minutes,
and its goroutine has a context of 10, so `Interrupted` asks that none is at work.
A Pod without a volume can be evicted; one on a volume is terminated and saves
its state first.

*The abstract specification.* `SessionOperations` is what users and the control
plane may rely on, without replicas, versions, claims or steps: one operation at a
time has the session, none has it twice in a row, only the one that has it changes the settings or the hold,
and it gives the session back as open only if nothing holds it and its agent, if
there is one, was started with the settings that are saved. Workloads come and go at any time. The
settings are the agent's: nothing is promised of the frame, of which the code keeps no
such promise (see the observations). The mapping
(`Promised`, in `SessionRuntimeInvariant`) reads the abstract phase and owner off the configuration, the
hold off the Service, the agent's settings off the Secret, and what runs off the Pod.

*Abstractions.* The Secret is mounted into a Pod and may be updated under it until the agent
reads it; here the agent's settings are fixed when the Pod is created. A replica may
find in Redis a status another one published (`Published`, a constant, since what may be
found there is as old as its retention). `Fresh` says whether the session has never been
resumed, in which case the first wake-up writes to the Secret.

*Left out:* the overwriting of a fresher status by `prepare-resume`, the copy of the
paused flag in the settings, and operations on pooled sessions through a manager.

### How SessionAllocator corresponds to the code

*State.* `alloc[q]` is the stored request, `service[s]` a session's Service and its
label, `runs[s]` the request its workload was given, `route[q]` the stock session that
serves a request, `lease` the leader's. `worker[w]` is the loop of *one term of one
replica*: `Start` returns at once and `Stop` does not wait, so a replica that gains
the lease again may have two loops. `channel[w]` is a subscription, of one slot.

*Steps.* A worker looks, subscribes, looks again and waits; it takes a request
(requests that were taken are offered again), finds a stock session, claims it by the
version of its Service, adopts and labels it, or creates a new one, and completes:
route, allocation, notification, deletion. Each is a write of its own. A user submits,
notifies and, once, deletes: the session under its own name, the alias, or the
waiting request, in the code's order.

*Failures.* A crash, the loss of a lease, a failed call and a lost message count as
faults together. A message that is lost silently is told apart from a publication that
errs: after the former a loop goes on to delete its request, after the latter it does
not. A deletion of a session goes on after a call that fails and so may leave any part of it
behind; a deletion by alias leaves the route too. A leader that lost its lease goes on with a cancelled
context, in which every call fails except the completion, which uses a context of its own.

*Abstractions.* Save and Put create what they do not find, as the stores do. Of two
conflicting saves of one request the later overwrites; in the code it is refused,
which is the failed call. A save also fails if the request is deleted under it. A
deletion reads the listing directly rather than a cached one, which `DeletePending`
checks again in the code as well.

*The abstract specification.* `SessionRequests` knows requests, sessions and routes, but no
leaders, loops, versions or notifications. A session that works on a request is
given to no other one, and until something fails a request gets one session only. A
request is reported as served only when its session can be found under its own
name or through its route, or when its user has deleted it. It leaves the queue in
these cases or at the moment a call fails (the clean-up of a failed creation deletes
the request too). A deletion ends no session but one that works on its request.

## 3. Runs

| Run | Instance | Checks | Shows |
| --- | --- | --- | --- |
| `handoff` | 2 runners, 2 requests, 1 session, everything removable, 2 attempts | `NoDuplicateStart`, `StartedIsCurrent`, `HandoffsDistinct`, `AssignedRunnerIsFenced`, `RetiredNeverAssigned`, `HandoffIsFresh`, `RunningIsFinal` | the safety of one session under all failures, 3.6 million states |
| `refinement` | 2 runners, 2 requests, 2 sessions, nothing removable, 1 attempt | `IInv`, `OneAssignmentPerRunner`, `ImplementsHandoff` | the invariant of the proof; two polls of one runner do not get two sessions; every step is a step of `SessionHandoff` |
| `recovery` | 2 runners, 1 request, 1 session, inventories, fairness | `WaitingIsServed`, `DeadClaimIsRecovered` | sessions are not left behind, where the manager sends an inventory and the route shows no status past starting |
| `claiming_stuck` | 1 runner, 1 request, 1 session, fairness | `ClaimingIsResolved`, violated | see the findings |
| `routes` | 2 replicas, 2 runners, 1 session; claims, polls and deletions on both, pushes and the creation on one, search and reconciler on the other | `RouteInv`, `RouteNamesAHandoff`, `AcceptedIsCurrent` | the invariant of the proof under claims, calls and deletions; whatever is overwritten, no copy of a route anywhere mixes two hand-offs; calls are of one hand-off; 1.9 million states |
| `route_repair` | 2 replicas, 2 runners, 1 session; claims, deletions and losses on one, heartbeats on the other, fairness | `RouteInv`, `RouteFollowsAllocation`, `LeaksNoWorkload` | the invariant of the proof under heartbeats; they bring routes forward and reap what no route names |
| `control` | either worker; an exposed streaming or large request, a small durable one; 1 slot, 1 chunk, 1 crash; fairness | `ControlInv`, `ReplyIsOneExecution`, `CancelReachesExecution`, `DoneIsFinal`, `CommandIsAnswered` | repeated and late uploads do not mix responses, cancels find their target, finished commands stay finished, every command is answered |
| `control_lost` | two small durable requests, 2 slots, 1 crash, fairness | `DurableIsExecuted`, violated | see the findings |
| `suspend` | 2 replicas; a deadline or a request, a termination, a reader; 1 expired claim, 1 fault; a session on a volume that was never resumed; fairness for readers | `ClaimIsKept`, `RemovesWhatItSaved`, `ReaderIsAnswered` | claims exclude, what is deleted was saved, readers get a workload or the refusal of a hold; 2.2 million states |
| `restart` | 1 replica, 2 operations of any kind, a reader, a turn, 1 fault, fairness for operations | `RuntimeInv`, `OneOperation`, `OpenIsNotHeld`, `OpenRunsItsSettings`, `OperationEnds`, `ImplementsOperations` | after any one failure, operations end, and the session that is open has an agent with the settings that are saved and no hold; every step is a step of `SessionOperations`; 1.3 million states |
| `retry` | 1 replica, 2 restarts with a new workload, 1 fault, fairness | `RetryRecovers`, violated | see the findings |
| `allocation` | 2 leaders, 2 requests of which 1 is deletable, 1 stock session, 1 fault, fairness | `AllocatorInv`, `NoMissedWakeUp`, `CarriedOutOnce`, `StockIsAdoptedOnce`, `ServedIsReachable`, `RequestEnds`, `ImplementsRequests` | overlapping leaders do not share a session, what is served can be found, every request ends; every step is a step of `SessionRequests`; 1.4 million states |

*Bounds of the route runs.* Two replicas are a writer and one with a stale
cache. `MaxRound` 2 gives a session to one runner and to its successor, or to the
same runner after a failed claim; a third hand-off would again be a successor.
`MaxDeletes` 1 queues one deletion, which may fail and be seen failed by
several requests. `Served` says which replica gets which request, which keeps
`routes` small: a heartbeat multiplies its states and is checked apart.

*Fairness of the route runs.* A replica serves its request to the end (weak) or
loses it; managers send heartbeats again and again, whatever a replica is doing
(strong, to some replica); cached entries expire. In `route_repair` requests are
lost on the replica that serves claims; heartbeats come through, because a
deployment in which every heartbeat fails repairs nothing.

*Bounds of the allocation runs.* Two runners are a holder and its successor; a third one would be a
successor again. Two requests in flight are enough for every pair of writes to
interleave, and every invariant relates at most two requests. `MaxAttempts`
bounds how often a claim may be failed: at 2 a session is failed and claimed
again, by the same runner or the other. No other counter needs a bound: a runner
becomes idle again only by a failed claim or a rollback, so a finite number of
failures makes a finite number of hand-offs. `Removable` says what may be deleted. In `recovery` every runner's manager sends an inventory and the session's route may take a
status. In `handoff` and `refinement` no route takes one, which leaves reconciliation
enabled as often as it ever is.
Runners and requests are interchangeable (symmetry) in the runs without
fairness; sessions are ordered by creation and are not.
Deadlock is not checked: when every session is done or every runner is gone the
system stops.

*Fairness of the allocation runs.* A request in service takes its next step or is lost (weak); losing
every request is not fair, so a poll, the reservation after it and the heartbeat
with its requeue happen when they are possible again and again (strong): runners
poll in a loop, managers send heartbeats in a loop (`runRunnerClaimClient`,
`control_worker.go`). The fairness of a heartbeat's reconciliation is only for a runner
that is really gone and whose manager sends inventories: an inventory lists what the
manager finds at the time, so it omits at last what is gone. Time passes. Nobody has to
die, retire, delete or report a status or a start. `DeadClaimIsRecovered` is
claimed while the route shows no status past starting: without this it fails (see the
observations).

*Bounds of the control runs.* With one slot every second command waits for the
first one, which is the case `CommandIsAnswered` is about; one chunk beside the
first and last frame is enough to be lost, doubled or mixed. One crash gives two
executions of a command; a third would again be a second. A
durable command and one whose caller may leave are the two kinds there are.

*Fairness of the control runs.* The loop, the goroutines and the callers go on; an
upload that is repeated for ever is accepted at last (strong), unless the runtime drops
it; an event stream ends with its deadline, and the deadline of a command whose
execution was dropped passes. Nobody has to leave, cancel or crash. `CommandIsAnswered` does not
speak of commands whose caller left, whose deadline passed or whose worker crashed.

*Bounds of the session runs.* Two replicas are an owner and one that finds the
claim. In `suspend` there are two suspensions: the first because the deadline passed or on
request, the second a termination; one claim may expire. That two replicas find the same
deadline passed, and that a session needs no checkpoint, are left to the theorems, which
cover safety only: the instances are too large for liveness. Restarts are not combined with the reconciler in one instance:
the operation makes suspensions of its own, and its goroutine is the only one of its
replica. Two operations are one and its successor or its retry. One fault anywhere is what the
operations' undo paths are written for. `RemovesWhatItSaved` is claimed only where a checkpoint
is required, and only while no claim has expired: an owner whose claim expired during its
checkpoint deletes all the same, a new workload too. A session that needs no
checkpoint is deleted without one, which is the code's intent. `suspend` has a session
that was never resumed, so that its first wake-up writes to the Secret; `restart` one that was
(`Fresh` is false, see the observations).

*Fairness of the session runs.* Each liveness property is checked under what it needs
and no more. For a reader (`ReaderSpec`) its own call goes on, its replica finds the session
again, and workloads become ready; suspensions need not go on. For operations
(`OperationSpec`) their goroutines and the calls they make go on, the code's time limits pass,
workloads become ready, and somebody asks for the status (`Interrupted`). `retry` has all
the fairness there is, a user who retries, and claims that expire.

*Bounds of the allocation queue.* Two leaders overlap; two requests are one at work
and one that comes in unnoticed; one stock session is one to compete for. One
fault: a crash, a lost lease and a failed call each leave a request half done, and
the second leader finds it. `CarriedOutOnce` and `NoMissedWakeUp` are claimed while
nothing has failed: after a crash between creating a session and recording it the
next leader makes another, and a lost notification is made good only by the
timeout, with which `RequestEnds` holds.

*Fairness of the allocation queue.* Loops go on, leases of dead leaders expire,
and a leader that lost its lease learns of it. Deadlock is checked in none of the
new runs: when requests are used up these systems stop.

### Findings

- `claiming_stuck`: a claim lost between its two writes leaves the runner
  claiming with no session. The comment at `kv_store.go:728` leaves this to
  reconciliation, but none touches a claiming runner without an allocation;
  its process goes on polling and is refused every time.
- `control_lost`: `tunnel.go:73` says that a manager resumes a durable command
  after reconnecting. Its acknowledgement is one position in the stream, and commands
  run concurrently: when the later of two is finished, the earlier one is behind the
  acknowledgement, and a manager that restarts never gets it again.
- `retry`: `session_restart_controller.go:65` says that a retry recovers the
  stopped session. A replica that crashes after a restart has deleted the workload
  leaves a session that is not marked suspended; the pause every retry begins with
  calls the provisioner of a workload that is gone, and fails, every time.

### Observations

Behaviours of the models, each of them found by TLC or read off them, that no run
states as a property.

- *A restart whose sandbox is forgotten.* `kubernetes_session_restart.go:102` says that a
  restart replaces the workload when sandbox or Docker changed and persists the complete
  settings. They are in the Secret, but Pods are built from memory
  (`kubernetes_session_manager.go:2501`). A replica that restored the session from its Service has
  neither there (`:6807`), and `preparePersistentWorkloadResume` returns early for a session
  resumed before (`:2526`). After the restart, a suspension and a restart of the replica, the
  next Pod is built without them: `pod.frame` is not `secret.frame`.
- *A first wake-up that overwrites a restart.* The first call that wakes a session reads its
  settings (`:2519`), reads the Secret again for its version only (`:2545`), and saves what it read first
  (`:2592`). A restart that saved its own in between loses them and ends as ready with an agent that runs
  settings which are not saved: `OpenRunsItsSettings` fails with `Fresh`.
- *A claim that reconciliation does not recover.* `session_pool_controller.go:1568` says that an acknowledged
  runtime that never connected is considered for recovery after its startup lease. The
  heartbeat may by then have written the status of the Pod into the route (`:1502`),
  whether or not the runtime connected, and a claim is requeued only while the route has no
  status or a starting one (`:1580`). Native workers send no inventory at all, so none of
  their claims is recovered like this.
- *A route that comes back.* `session_controller.go:1331` says that a late status push must not
  resurrect a route. The guard looks at the copy read when the push was authorised, and the
  save at `:1342` creates what it does not find. The route has no allocation behind
  it, so it alone authorises the deleted session's runtime; `AcceptedIsCurrent` says
  nothing of a session that is gone.

- `session_pool_controller.go:1339` says that the lease is written before the
  runner's status; the code does it the other way round. The heartbeat's protection
  of claiming runners covers the real order.
- `RetireRunner` answers success for a runner without a record (`lifecycle.go:63`), also
  when that record was deleted by a deletion that has not reached the allocation yet, or
  failed in front of it: the manager may then delete a workload an allocation still
  names. `RetiredNeverAssigned` excepts such runners (`erased`).
- `docs/direct-session-runtime.md:86` promises a conflict to runtimes of older
  generations. A replica that cached the route before the claim gives it to the
  runtime of the newer one, whose worker then stops.
- `session_pool_controller.go:1432` promises to preserve the sessions whose routes are
  being repaired. Native managers report sessions by runner, not by the public
  identifier the comment counts on; the orphan search, in a listing of before the
  claim or before the repair of the same heartbeat, does not know that runner.
- The purge of stock sessions decides by what it listed and deletes without a
  version (`kubernetes_session_manager.go:1827`): of an adoption in between only a
  runner that cannot be retired holds it back. The purge is not modelled.
- A creation that fails cleans up the Secret that holds its allocation
  (`kubernetes_session_manager.go:5650`), so its error is not reported under it.
- A request that was taken and is then deleted is created again by the save that
  follows (`session_allocator.go:319`).

## 4. Proofs

Every invariant and every action property of the runs that pass is a theorem, for
every value of the constants. TLC checks each inductive invariant on an instance too.
The number of replicas, workers, crashes or repetitions is a constant of the
modules and nothing in a proof bounds it. The assumptions are the modules' own and say that
the constants have their types, that names of different things differ, and that bounds
are natural numbers.

### RunnerAllocation

From `SessionAssumption` (sessions are positive numbers), `RunnerAssumption`
(`NoRunner` is no runner), `MatchesAssumption` and `BoundAssumption`:

- `Invariance`: `IInv` is an invariant of `Spec`; from it `TypeCorrectness`,
  `AtMostOneStart`, `AdmittedStaysCurrent`, `GenerationIdentifiesHandoff`,
  `RunnerServesOneSession`, `AssignmentFencesRunner`, `RetirementIsSafe`;
- `FreshHandoff` and `StartIsFinal`, action properties, from the same invariant;
- `Refinement`: `Spec` implements `SessionHandoff`.

None of the properties is inductive. That at most one hand-off starts rests on
every hand-off having its own generation (`IssuedInv`: a claim given out is the
current one or of an earlier generation, including claims still on their way
in an answer). That in turn needs the snapshot a claim writes to be the current
record whenever its version is (`SnapshotInv`). That a runner has one session
and is not retired rests on `FenceInv`: every request between its two writes
has its runner to itself, out of `idle`, and a request that is about to make the
runner idle again knows that no allocation names it. `RetiredNeverAssigned` says that the
record of a runner whose retirement succeeded is never claimable again, and that no
allocation names the runner unless somebody deleted its record. It
covers retirements of runners without a record. `UnregisteredInv` says that
a runner not yet registered is known nowhere, and `LostInv` that one whose record is not
there, or is a tombstone, and which nobody deleted has no allocation and no request
that is about to give it one: a record only goes by its retention, which asks that no
allocation names the runner, or by a deletion, which `erased` remembers.

`RunnerAllocationProofs` has one lemma per action and conjunct it can disturb;
`RunnerAllocationLemmas` holds what they share: the effect of a step that
writes one allocation or one runner on the conjuncts that mention the others.

### SessionRoute

From `HolderAssumption`, `ServedAssumption`, `UnreliableAssumption` and `RouteBounds`:
`RouteInvariance` (`RouteInv`), `RouteTypeCorrectness`, `RoutesNameHandoffs` and
`CallsAreCurrent`.

`RouteNamesAHandoff` speaks of stored and cached routes, but a save writes what a
request read long before. The invariant therefore asks the same of every copy
there is, in the store, in both caches of every replica and in every request
(`Sound`), and it says what a request does it *for*: at the steps in `ForHandoff` the
request holds a hand-off that was made, and a call holds one whose runtime was started
(`Proper`). As saves take both runner and generation from one copy or from one
hand-off, nothing they write can mix two. `CallsAreCurrent` needs `OffersInv`: session and round
identify a hand-off, the present one is the last, and earlier ones have lower
rounds, so a hand-off that is started stays the one whose generation matches.

### ControlTunnel

From `RequestAssumption` and `BoundAssumption`: `ControlInvariance` (`ControlInv`),
`ControlTypeCorrectness`, `CancelIsHeard`, `ExecutedOnce` and `OneExecutionReplies`.

`ExecutedOnce` rests on two notions. A command is `Past` when this worker will not come
to it again, and `Settled` when no later worker will either, because the acknowledged
position is behind it. A command that was executed is past; one whose last
frame was accepted is settled (`PastInv`). `CancelIsHeard` adds that a
cancel comes after a first frame, and the frames of this life of the worker are of an execution
that has begun (`CancelInv`, `LifeInv`).

`OneExecutionReplies` has a different reason for each kind of response. A small one is
uploaded whole, so the first upload that arrives decides what the caller reads,
and all others go behind its last frame (`SmallOK`). An event stream is uploaded
part by part, and after a crash the parts of an upload still under way may meet those
of a second execution. They do not, because the first frame of a stream that is
accepted settles the command: whoever has parts, on their way or in the response, has
no second execution (`StreamsOK`), and the one upload that can be late carries
the part that comes next or one that is there already (`LateOK`). Hence parts lie in the response in
their order, without a gap and of one life (`PartsOK`). The first frames, of which there may be
several, are told apart from parts and dropped by the reader. Large responses are
excepted, as above: they are uploaded before their command is acknowledged.

The upload appends frame by frame and skips what is there already, which the model
writes as a recursive function. `ControlTunnelLemmas` proves by induction what it
yields: what is there stays, what is appended comes from the upload in its order,
everything uploaded is in the result, and `AppendedWhole`: appending to an empty response yields
the upload. The library's induction theorems take an operator as
parameter and cannot be used; the induction is carried out on the least number that
would refute the claim (`Least`).

### SessionRuntime

From `NameAssumption` and `BoundAssumption`: `RuntimeInvariance` (`RuntimeInv`),
`RuntimeTypeCorrectness`, `OneOperationAtATime`, `OpenSessionIsNotHeld`,
`OpenSessionRunsItsSettings`, the action properties `ClaimsAreKept` and
`DeletesOnlyWhatItSaved`, and `OperationsRefinement`: `Spec` implements `SessionOperations`.

`OpenSessionRunsItsSettings` and `OperationsRefinement` assume a session that has been resumed
before (`~Fresh`), which is needed: the former fails for a fresh one. They speak of
the agent's settings only, because nothing of the kind holds of the frame (both among the
observations). In the invariant `ResumedInv` (no wake-up writes to the Secret) and `CurrentInv`
(when the agent may run other settings than are saved) are the parts that need the
assumption. The other results hold of fresh sessions too.

`OneOperation` follows from the compare-and-swap on the configuration: an operation
that works is the one that is saved, its phase is not an end, and no other has a copy
that could be saved (`WorkInv`). `OpenIsNotHeld` and `OpenRunsItsSettings` speak of
the time when no operation works, but each way an operation can end must restore them,
so `HoldInv` and `SettingsInv` say what the operation has done at every step, up to the
undo paths: an undo needs to know the phase it found, and that the agent had the
saved settings then. Suspensions and readers interfere at every step; they may
remove the workload or create one, with whatever frame, but with an agent that reads the
settings that are saved.
`ClaimsAreKept` needs no claim to have expired, in which case every suspension that
believes it owns the claim does (`ClaimInv`). `DeletesOnlyWhatItSaved` is about sessions that need a checkpoint; it needs in addition that
nothing replaces the workload between checkpoint and deletion (`SavedInv`).

`OperationsRefinement` maps every step to a step of the abstract specification or to
none. Most of what replicas, suspensions and readers do is not seen there (`Unseen`); they only remove
and create workloads. The steps of an operation are grouped by what they do to the
abstract state: saves (`SavePromises`), writes of the hold (`HoldPromises`), and the
changes of settings and agent (`RestartingPromises`). That whoever changes something is the abstract
owner is `WorkInv`; that a save as open finds no hold and no other settings is
`HoldInv` and `SettingsInv`. That no operation has the session twice in a row needs one fact
more, `NotAgain`: between the comparison of an idempotency key and the save that
accepts it nothing can make that operation the last one without making its copy of
the configuration old.

### SessionAllocator

From `RequestAssumption` and `BoundAssumption`: `AllocatorInvariance` (`AllocatorInv`),
`AllocatorTypeCorrectness`, `NoWakeUpIsMissed`, `EachRequestOnce`,
`AdoptionIsExclusive`, `ServedCanBeFound` and `RequestsRefinement`: `Spec` implements
`SessionRequests`.

`AdoptionIsExclusive` holds whatever fails and however many leaders there are, since the claim of a
stock session needs its version: a loop about to adopt has claimed a session nobody
else has and that has worked on nothing (`StockInv`). `ServedCanBeFound` needs a
loop to remember that what it adopted or created still works on its request until it
says so, unless the user deleted it (`ServedInv`). The two others are stated for behaviours in which
nothing has failed, where one loop holds the lease (`LeaderInv`): a subscriber has
heard of whatever waits, is about to be told, or is about to look (`WakeInv`), and a
request on the list or in the hands of the loop is not being worked on (`OnceInv`).

`RequestsRefinement` needs no further invariant. Most steps of leaders and loops are
not seen in the abstract state (`Unseen`); the six writes of a loop and the deletions
of a user each map to one step there. `StockInv` says that a session that is adopted worked on nothing, `OnceInv`
that it is the only one until something fails, and `ServedInv` that what is reported, routed or
taken off the queue as served is served.

### Only model-checked

- The liveness properties: `WaitingIsServed`, `DeadClaimIsRecovered`,
  `RouteFollowsAllocation`, `LeaksNoWorkload`, `CommandIsAnswered`, `ReaderIsAnswered`,
  `OperationEnds`, `RequestEnds`. They rest on fairness and on `ENABLED`, which the proof
  system does not handle.
- The three violations, which are counterexamples and not theorems.

## 5. Plan

In this order:

1. Refinement of the control tunnel: an abstract specification of a command and its
   response, implemented step by step, as `RunnerAllocation`, `SessionRuntime` and
   `SessionAllocator` implement theirs.
2. `SessionQuota`: concurrent creations against the limit; the excess is at
   most the number of concurrent creations.
3. Suspension and resumption of pool sessions and their rollback by the heartbeat,
   over `SessionRoute`.
4. The stock inventory and the external allocation queue, over `SessionAllocator`.
5. `SessionControl`: command queues in memory and in Redis, refining one
   queue specification.
6. `ReplicatedStore` and `RecordLock`: the compare-and-swap store the first
   modules take for granted, and what a failed replication leaves behind.
7. Schedules: one run per due time under leader changes.
8. `PoolConfiguration` and the resolver, as operators over bounded inputs.
