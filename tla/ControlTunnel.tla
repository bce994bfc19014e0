---------------------------- MODULE ControlTunnel ----------------------------
(***************************************************************************)
(* The control tunnel: how the proxy calls a session manager or a session  *)
(* runtime that it cannot reach.                                           *)
(*                                                                         *)
(* The worker at the other end polls for commands, runs each one against   *)
(* its own local server and uploads the response in frames.  Commands and  *)
(* frames are kept in Redis streams, so any replica serves any poll and    *)
(* any upload.  A caller waits for the first frame of its request, streams *)
(* the rest, and cancels the request when it closes the response.          *)
(*                                                                         *)
(* Two programs play the worker: the session manager's ControlWorker, which*)
(* keeps its cursor in memory and runs a bounded number of commands at a   *)
(* time, and the runtime's directRuntimeWorker, which keeps its cursor in a*)
(* file and has no bound.  `direct' says which one it is.                  *)
(***************************************************************************)
EXTENDS Naturals, Sequences, FiniteSets

CONSTANTS
    Requests,      \* the requests callers make
    Durable,       \* those enqueued without waiting for the response
    Slots,         \* how many commands a ControlWorker runs at a time
    Chunks,        \* how many body frames a response has
    Exposed,       \* those whose caller may leave, whose deadline may pass and
                   \* whose uploads may be lost, repeated or late
    KindOf,        \* KindOf[r]: what r's response may be like
    MaxCrashes     \* how often the worker crashes

(* An event stream is acknowledged with its first frame and uploaded frame *)
(* by frame; a small response is uploaded at once, a large one in parts;   *)
(* both are acknowledged with their last frame.                            *)
Kinds == {"event_stream", "small", "large"}

ASSUME RequestAssumption == /\ Durable \subseteq Requests
                            /\ Exposed \subseteq Requests
                            /\ KindOf \in [Requests -> SUBSET Kinds]
ASSUME BoundAssumption == /\ Slots \in Nat \ {0}
                          /\ Chunks \in Nat
                          /\ MaxCrashes \in Nat

VARIABLES
    direct,      \* which of the two workers this is
    kind,        \* kind[r]: what r's response is like
    stream,      \* the command stream; a command's stream ID is its place in it
    ack,         \* the acknowledged stream ID
    frames,      \* frames[r]: the response stream of r
    caller,      \* caller[r]: who made request r
    expired,     \* requests whose deadline has passed
    worker,      \* the worker's poll loop
    execution,   \* execution[r]: the goroutine that runs r
    late         \* uploads under way when their worker crashed

vars == <<direct, kind, stream, ack, frames, caller, expired, worker,
          execution, late>>

----------------------------------------------------------------------------
Command == [request : Requests, cancel : BOOLEAN]

Lives == 1 .. MaxCrashes + 1

(* A frame's identifier is a fresh UUID; the execution (the life of the    *)
(* worker) and the number of the frame in it stand for it.                 *)
Frame == [life : Lives, seq : 0 .. Chunks + 1, done : BOOLEAN, error : BOOLEAN]

StartFrame == [life |-> worker.life, seq |-> 0, done |-> FALSE, error |-> FALSE]
BodyFrame(n) == [life |-> worker.life, seq |-> n, done |-> FALSE, error |-> FALSE]
DoneFrame(n, failed) ==
    [life |-> worker.life, seq |-> n, done |-> TRUE, error |-> failed]
ErrorFrame == DoneFrame(0, TRUE)

(* pc: none, spawned (the goroutine exists), calling (it is in `active'),  *)
(* reading the local response, posting an upload, posted (the proxy has    *)
(* appended it), done (its last frame was accepted), dropped (it ended     *)
(* without one).                                                           *)
NoExecution == [pc |-> "none", sent |-> 0, batch |-> <<>>, stopped |-> FALSE]

(* active: the map in which a cancel finds the executions it can stop.     *)
ActiveCalling(r) == execution[r].pc = "calling" \* Slip: left with the headers.
Active(r) == execution[r].pc \in {"calling", "reading", "posting", "posted"}
Alive(r) == execution[r].pc \notin {"none", "done", "dropped"}
Busy == {r \in Requests : Alive(r)}

Largest(m, n) == IF m < n THEN n ELSE m

(* The place in the stream of r's own command.                             *)
PositionOf(r) ==
    CHOOSE i \in 1 .. Len(stream) :
        stream[i] = [request |-> r, cancel |-> FALSE]

Ids(fs) == {<<fs[i].life, fs[i].seq>> : i \in 1 .. Len(fs)}

(* Slip: frames are not told apart by their identifiers.                   *)
AppendFramesAgain(old, new) == old \o new

(* appendFrameScript: a frame that is in the stream is not added again.    *)
AppendFrame(old, f) == IF <<f.life, f.seq>> \in Ids(old) THEN old ELSE Append(old, f)

(* AppendFrames of the store runs the script for one frame after another.  *)
AppendFrames(old, new) ==
    LET after[n \in 0 .. Len(new)] ==
            IF n = 0 THEN old ELSE AppendFrame(after[n - 1], new[n])
    IN  after[Len(new)]

(* Slip: the last acknowledgement stands, whatever it is.                  *)
AckCommandLast(id) == ack' = id

(* ackCommandScript: the acknowledgement only moves forward.               *)
AckCommand(id) == ack' = Largest(ack, id)

LastOf(s) == s[Len(s)]

(* A frame carries the command's stream ID when it is the last one, or the *)
(* first one of an event stream.                                           *)
Acknowledges(r, f) == f.done \/ (kind[r] = "event_stream" /\ f.seq = 0)

AcksIn(r, batch) == \E i \in 1 .. Len(batch) : Acknowledges(r, batch[i])

----------------------------------------------------------------------------
Init ==
    /\ direct \in BOOLEAN
    /\ kind \in {k \in [Requests -> Kinds] : \A r \in Requests : k[r] \in KindOf[r]}
    /\ stream = <<>>
    /\ ack = 0
    /\ frames = [r \in Requests |-> <<>>]
    /\ caller = [r \in Requests |-> [pc |-> "idle", read |-> 0]]
    /\ expired = {}
    /\ worker = [life |-> 1, cursor |-> 0, batch |-> <<>>, answering |-> FALSE,
                 cancelled |-> {}]
    /\ execution = [r \in Requests |-> NoExecution]
    /\ late = {}

----------------------------------------------------------------------------
(* The caller.                                                             *)

(* Tunnel.Enqueue: the command is appended to the manager's stream.        *)
Enqueue(r) ==
    /\ caller[r].pc = "idle"
    /\ stream' = Append(stream, [request |-> r, cancel |-> FALSE])
    /\ caller' = [caller EXCEPT ![r].pc = IF r \in Durable THEN "left"
                                                           ELSE "waiting"]
    /\ UNCHANGED <<direct, kind, ack, frames, expired, worker, execution, late>>

(* waitForFirstFrame, and what Do makes of the first frame: an error is the*)
(* result, anything else opens the response.                               *)
ReadFirstFrame(r) ==
    /\ caller[r].pc = "waiting"
    /\ frames[r] # <<>>
    /\ caller' = [caller EXCEPT
                    ![r] = IF frames[r][1].error
                           THEN [pc |-> "failed", read |-> 1]
                           ELSE [pc |-> "reading", read |-> Len(frames[r])]]
    /\ UNCHANGED <<direct, kind, stream, ack, frames, expired, worker,
                   execution, late>>

(* streamBody: read on until a frame says that it is the last one.         *)
Ended(r) == \E i \in 1 .. caller[r].read : frames[r][i].done

StreamBody(r) ==
    /\ caller[r].pc = "reading"
    /\ ~Ended(r)
    /\ caller[r].read < Len(frames[r])
    /\ caller' = [caller EXCEPT ![r].read = Len(frames[r])]
    /\ UNCHANGED <<direct, kind, stream, ack, frames, expired, worker,
                   execution, late>>

(* The caller's context ends while it waits for the first frame: it returns*)
(* and nobody tells the worker.                                            *)
GiveUp(r) ==
    /\ r \in Exposed
    /\ caller[r].pc = "waiting"
    /\ caller' = [caller EXCEPT ![r].pc = "failed"]
    /\ UNCHANGED <<direct, kind, stream, ack, frames, expired, worker,
                   execution, late>>

(* cancelBody.Close: closing a response, read to its end or not, enqueues a*)
(* cancel command.                                                         *)
CloseBody(r) ==
    /\ caller[r].pc = "reading"
    /\ r \in Exposed \/ Ended(r)
    /\ stream' = Append(stream, [request |-> r, cancel |-> TRUE])
    /\ caller' = [caller EXCEPT ![r].pc = "closed"]
    /\ UNCHANGED <<direct, kind, ack, frames, expired, worker, execution, late>>

(* Slip: the execution's context has no deadline.                          *)
ExpireUnheeded(r) ==
    /\ r \in Exposed /\ caller[r].pc # "idle"
    /\ r \notin expired
    /\ expired' = expired \cup {r}
    /\ UNCHANGED <<direct, kind, stream, ack, frames, caller, worker, execution,
                   late>>

(* The deadline of a command passes; the context of its execution ends.    *)
Expire(r) ==
    /\ r \in Exposed /\ caller[r].pc # "idle"
    /\ r \notin expired
    /\ expired' = expired \cup {r}
    /\ execution' = [execution EXCEPT
                        ![r].stopped = @ \/ Active(r)]
    /\ UNCHANGED <<direct, kind, stream, ack, frames, caller, worker, late>>

----------------------------------------------------------------------------
(* The worker's poll loop.                                                 *)

(* Slip: the command at the cursor is read again.                          *)
ReadCommandsInclusive(after) ==
    [i \in 1 .. Len(stream) - Largest(Largest(after, ack), 1) + 1 |->
        Largest(Largest(after, ack), 1) + i - 1]

(* WaitCommands, ReadCommands: the commands after the worker's cursor and  *)
(* after the acknowledgement, whichever is further.                        *)
ReadCommands(after) ==
    [i \in 1 .. Len(stream) - Largest(after, ack) |-> Largest(after, ack) + i]

Poll ==
    /\ worker.batch = <<>>
    /\ ReadCommands(worker.cursor) # <<>>
    /\ worker' = [worker EXCEPT !.batch = ReadCommands(worker.cursor)]
    /\ UNCHANGED <<direct, kind, stream, ack, frames, caller, expired,
                   execution, late>>

Position == Head(worker.batch)
Next_ == stream[Position]

(* The loop goes on with the next command; behind the last one of the batch*)
(* it moves the cursor.                                                    *)
Advanced ==
    [worker EXCEPT !.batch = Tail(@),
                   !.answering = FALSE,
                   !.cursor = IF Len(worker.batch) = 1 THEN Position ELSE @]

(* A cancel stops its target if it finds it in `active'; it is then        *)
(* answered by the loop itself.                                            *)
DispatchCancel ==
    /\ worker.batch # <<>> /\ ~worker.answering
    /\ Next_.cancel
    /\ execution' = [execution EXCEPT
                        ![Next_.request].stopped = @ \/ Active(Next_.request)]
    /\ worker' = [worker EXCEPT !.answering = TRUE,
                                !.cancelled = @ \cup {Next_.request}]
    /\ UNCHANGED <<direct, kind, stream, ack, frames, caller, expired, late>>

(* A ControlWorker answers a command whose deadline has passed itself; the *)
(* direct runtime does not look at the deadline here.                      *)
DispatchExpired ==
    /\ worker.batch # <<>> /\ ~worker.answering
    /\ ~Next_.cancel /\ Next_.request \in expired /\ ~direct
    /\ worker' = [worker EXCEPT !.answering = TRUE]
    /\ UNCHANGED <<direct, kind, stream, ack, frames, caller, expired,
                   execution, late>>

(* The loop's own upload, retried until it is accepted: nothing else is    *)
(* dispatched meanwhile.  The response to a cancel is read by nobody.      *)
AnswerInline ==
    /\ worker.answering
    /\ frames' = IF Next_.cancel THEN frames
                 ELSE [frames EXCEPT ![Next_.request] =
                          AppendFrames(@, <<ErrorFrame>>)]
    /\ AckCommand(Position)
    /\ execution' = IF Next_.cancel THEN execution
                    ELSE [execution EXCEPT ![Next_.request].pc = "done"]
    /\ worker' = Advanced
    /\ UNCHANGED <<direct, kind, stream, caller, expired, late>>

(* Any other command gets a goroutine, once a slot is free.                *)
Spawn ==
    /\ worker.batch # <<>> /\ ~worker.answering
    /\ ~Next_.cancel
    /\ direct \/ (Next_.request \notin expired /\ Cardinality(Busy) < Slots)
    /\ execution' = [execution EXCEPT
                        ![Next_.request] = [NoExecution EXCEPT !.pc = "spawned"]]
    /\ worker' = Advanced
    /\ UNCHANGED <<direct, kind, stream, ack, frames, caller, expired, late>>

----------------------------------------------------------------------------
(* One execution.                                                          *)

Going(r, e) ==
    /\ execution' = [execution EXCEPT ![r] = e]
    /\ UNCHANGED <<direct, kind, stream, caller, expired, worker, late>>

(* execute: the goroutine enters itself in `active', with a context that   *)
(* ends at the deadline.                                                   *)
Begin(r) ==
    /\ execution[r].pc = "spawned"
    /\ Going(r, [execution[r] EXCEPT !.pc = "calling", !.stopped = r \in expired])
    /\ UNCHANGED <<ack, frames>>

(* The local server answers.  The first frame of an event stream is posted *)
(* before anything is read.                                                *)
Respond(r) ==
    /\ execution[r].pc = "calling" /\ ~execution[r].stopped
    /\ Going(r, [execution[r] EXCEPT
                    !.batch = <<StartFrame>>,
                    !.pc = IF kind[r] = "event_stream" THEN "posting"
                                                       ELSE "reading"])
    /\ UNCHANGED <<ack, frames>>

(* The local call fails and the error is posted.                           *)
CallFails(r) ==
    /\ execution[r].pc = "calling" /\ ~execution[r].stopped
    /\ Going(r, [execution[r] EXCEPT !.batch = <<ErrorFrame>>, !.pc = "posting"])
    /\ UNCHANGED <<ack, frames>>

(* The local call ends with its context.  The error would be posted with   *)
(* the same context, so it is not.                                         *)
CallStopped(r) ==
    /\ execution[r].pc = "calling" /\ execution[r].stopped
    /\ Going(r, [execution[r] EXCEPT !.pc = "dropped"])
    /\ UNCHANGED <<ack, frames>>

(* A part of the body; posted at once unless the response is small.        *)
ReadBody(r) ==
    /\ execution[r].pc = "reading" /\ ~execution[r].stopped
    /\ execution[r].sent < Chunks
    /\ Going(r, [execution[r] EXCEPT
                    !.sent = @ + 1,
                    !.batch = Append(@, BodyFrame(execution[r].sent + 1)),
                    !.pc = IF kind[r] = "small" THEN "reading" ELSE "posting"])
    /\ UNCHANGED <<ack, frames>>

(* The body ends: as it should, or broken off.                             *)
ReadEnd(r) ==
    /\ execution[r].pc = "reading"
    /\ execution[r].stopped \/ execution[r].sent = Chunks
    /\ Going(r, [execution[r] EXCEPT
                    !.batch = Append(@, DoneFrame(execution[r].sent + 1,
                                                  execution[r].stopped)),
                    !.pc = "posting"])
    /\ UNCHANGED <<ack, frames>>

(* Only the upload of a body's end outlives the context of its execution.  *)
Final(r) == LastOf(execution[r].batch).done /\ LastOf(execution[r].batch).seq > 0

(* AppendFrames of the controllers, first half: the frames are appended.   *)
(* Batches that are never accepted (more frames than the proxy takes at a  *)
(* time, or a request that has been forgotten) are left out.               *)
Upload(r) ==
    /\ execution[r].pc = "posting"
    /\ ~execution[r].stopped \/ Final(r)
    /\ frames' = [frames EXCEPT ![r] = AppendFrames(@, execution[r].batch)]
    /\ Going(r, [execution[r] EXCEPT !.pc = "posted"])
    /\ UNCHANGED ack

AckUpload(r) ==
    IF AcksIn(r, execution[r].batch) THEN AckCommand(PositionOf(r))
                                     ELSE UNCHANGED ack

(* Second half: the command is acknowledged, and the worker is told.       *)
UploadAccepted(r) ==
    /\ execution[r].pc = "posted"
    /\ AckUpload(r)
    /\ Going(r, [execution[r] EXCEPT
                    !.batch = <<>>,
                    !.pc = IF LastOf(execution[r].batch).done THEN "done"
                                                              ELSE "reading"])
    /\ UNCHANGED frames

(* The proxy fails in between, or its answer is lost: the worker uploads   *)
(* the same frames again.                                                  *)
UploadUnanswered(r) ==
    /\ execution[r].pc = "posted"
    /\ r \in Exposed
    /\ AckUpload(r) \/ UNCHANGED ack
    /\ Going(r, [execution[r] EXCEPT !.pc = "posting"])
    /\ UNCHANGED frames

(* The context ends while frames are uploaded: the execution ends without a*)
(* last frame.  The runtime gives the last frame two minutes.              *)
UploadStopped(r) ==
    /\ execution[r].pc = "posting"
    /\ \/ execution[r].stopped /\ ~Final(r)
       \/ direct /\ Final(r) /\ r \in Exposed
    /\ Going(r, [execution[r] EXCEPT !.pc = "dropped", !.batch = <<>>])
    /\ UNCHANGED <<ack, frames>>

----------------------------------------------------------------------------
(* The worker process dies and is started again.  Uploads it had under way *)
(* may still arrive.                                                       *)
Crash ==
    /\ worker.life <= MaxCrashes
    /\ worker' = [life |-> worker.life + 1,
                  cursor |-> IF direct THEN worker.cursor ELSE 0,
                  batch |-> <<>>, answering |-> FALSE, cancelled |-> {}]
    /\ execution' = [r \in Requests |-> IF execution[r].pc = "done"
                                        THEN execution[r] ELSE NoExecution]
    /\ late' = late \cup {[request |-> r, batch |-> execution[r].batch] :
                            r \in {q \in Exposed : execution[q].pc = "posting"}}
    /\ UNCHANGED <<direct, kind, stream, ack, frames, caller, expired>>

LateUpload ==
    \E u \in late :
        /\ late' = late \ {u}
        /\ frames' = [frames EXCEPT ![u.request] = AppendFrames(@, u.batch)]
        /\ IF AcksIn(u.request, u.batch) THEN AckCommand(PositionOf(u.request))
                                         ELSE UNCHANGED ack
        /\ UNCHANGED <<direct, kind, stream, caller, expired, worker, execution>>

----------------------------------------------------------------------------
CallerStep(r) ==
    \/ Enqueue(r) \/ ReadFirstFrame(r) \/ StreamBody(r)
    \/ GiveUp(r) \/ CloseBody(r) \/ Expire(r)

LoopStep == Poll \/ DispatchCancel \/ DispatchExpired \/ AnswerInline \/ Spawn

ExecutionStep(r) ==
    \/ Begin(r) \/ Respond(r) \/ CallFails(r) \/ CallStopped(r)
    \/ ReadBody(r) \/ ReadEnd(r) \/ Upload(r) \/ UploadAccepted(r)
    \/ UploadUnanswered(r) \/ UploadStopped(r)

Next ==
    \/ \E r \in Requests : CallerStep(r) \/ ExecutionStep(r)
    \/ LoopStep
    \/ Crash
    \/ LateUpload

Spec == Init /\ [][Next]_vars

(* The worker and the callers go on; an upload is not lost for ever; a     *)
(* local call that is open ends with its response, or, an event stream's,  *)
(* with its deadline, which also passes when an execution has given up.    *)
(* Nobody has to cancel, give up or crash.                                 *)
Fairness ==
    /\ WF_vars(LoopStep)
    /\ \A r \in Requests :
        /\ WF_vars(ReadFirstFrame(r) \/ StreamBody(r))
        /\ WF_vars(Begin(r) \/ Respond(r) \/ CallStopped(r) \/ ReadEnd(r))
        /\ WF_vars(Upload(r) \/ UploadStopped(r))
        /\ SF_vars(UploadAccepted(r))
        /\ WF_vars((kind[r] = "event_stream" \/ execution[r].pc = "dropped") /\ Expire(r))
        /\ WF_vars(kind[r] # "event_stream" /\ ReadBody(r))

FairSpec == Spec /\ Fairness

----------------------------------------------------------------------------
(* Every variable has its type.                                            *)
ControlTypeOK ==
    /\ direct \in BOOLEAN
    /\ kind \in [Requests -> Kinds]
    /\ stream \in Seq(Command)
    /\ ack \in 0 .. Len(stream)
    /\ frames \in [Requests -> Seq(Frame)]
    /\ expired \subseteq Requests
    /\ \A r \in Requests :
        /\ caller[r].pc \in {"idle", "left", "waiting", "reading", "closed",
                             "failed"}
        /\ caller[r].read \in 0 .. Len(frames[r])
        /\ execution[r].pc \in {"none", "spawned", "calling", "reading",
                                "posting", "posted", "done", "dropped"}
        /\ execution[r].sent \in 0 .. Chunks
        /\ execution[r].batch \in Seq(Frame)
        /\ execution[r].pc \in {"posting", "posted"} => execution[r].batch # <<>>
    /\ worker.life \in Lives
    /\ worker.cursor \in 0 .. Len(stream)
    /\ \A i \in 1 .. Len(worker.batch) :
        worker.batch[i] \in worker.cursor + 1 .. Len(stream)

(* What a caller was given of the body, up to the frame that ends it.      *)
Body(r) ==
    {i \in 1 .. caller[r].read :
        frames[r][i].seq > 0 /\ \A j \in 1 .. i : ~frames[r][j].done}

(* What a caller reads is the beginning of what one execution produced, in *)
(* its order: nothing twice, nothing missing in between, nothing of another*)
(* execution of the same command, although uploads are repeated, may arrive*)
(* after their worker is dead, and commands are executed again after a     *)
(* crash.  A large response is excepted: it is uploaded in parts before its*)
(* command is acknowledged.                                                *)
ReplyIsOneExecution ==
    \A r \in Requests : kind[r] # "large" =>
        \A i \in Body(r) :
            /\ \A j \in Body(r) : /\ frames[r][j].life = frames[r][i].life
                                  /\ j < i => frames[r][j].seq < frames[r][i].seq
            /\ frames[r][i].seq > 1 =>
                  \E j \in Body(r) : frames[r][j].seq = frames[r][i].seq - 1

(* A cancel does not miss its target: once this worker has handled it, an  *)
(* execution of this worker whose response the caller was reading is over  *)
(* or stopping.  (After a restart both commands may be delivered again, and*)
(* the cancel may pass its target.)                                        *)
CancelReachesExecution ==
    \A r \in worker.cancelled :
        /\ frames[r] # <<>>
        /\ frames[r][1].life = worker.life
        => execution[r].stopped \/ ~Alive(r)

(* A command whose last frame was accepted is not executed again, by this  *)
(* worker or by one started later: executions finish in any order, the     *)
(* acknowledgement must not fall back behind one that is finished.         *)
DoneIsFinal ==
    [][\A r \in Requests : execution[r].pc = "done" =>
                              execution'[r].pc = "done"]_vars

Answered(r) == \E i \in 1 .. Len(frames[r]) : frames[r][i].done

(* A command is answered to the end, unless its caller leaves, its deadline*)
(* passes or the worker crashes: the slots are not held for ever by streams*)
(* nobody reads, since those have deadlines, and an upload that is repeated*)
(* gets through.                                                           *)
CommandIsAnswered ==
    \A r \in Requests :
        (caller[r].pc \in {"waiting", "left"}) ~>
            (\/ Answered(r) \/ r \in expired
             \/ caller[r].pc \in {"closed", "failed"} \/ worker.life > 1)

(* A durable command is executed, or its deadline passes, also when the    *)
(* session manager restarts: it resumes the command when it is back.       *)
DurableIsExecuted ==
    \A r \in Durable :
        (caller[r].pc = "left" /\ ~direct) ~> (r \in expired \/ Answered(r))
=============================================================================
