----------------------- MODULE ControlTunnelInvariant -----------------------
(***************************************************************************)
(* An inductive invariant of ControlTunnel: which commands the worker has  *)
(* behind it, and what an execution, an upload that is late and the        *)
(* response have to do with each other.                                    *)
(***************************************************************************)
EXTENDS ControlTunnel

Caller == [pc : {"idle", "left", "waiting", "reading", "closed", "failed"}, read : Nat]

Worker == [life : Lives, cursor : Nat, batch : Seq(Nat), answering : BOOLEAN,
           cancelled : SUBSET Requests]

Execution == [pc : {"none", "spawned", "calling", "reading", "posting", "posted",
                    "done", "dropped"},
              sent : 0 .. Chunks, batch : Seq(Frame), stopped : BOOLEAN]

(* Frames belong to the request whose caller is there and to a life that   *)
(* has begun; those of an execution to the present one, those of an upload *)
(* that is late to an earlier one.                                         *)
TypeInv ==
    /\ direct \in BOOLEAN
    /\ kind \in [Requests -> Kinds]
    /\ stream \in Seq(Command)
    /\ ack \in 0 .. Len(stream)
    /\ frames \in [Requests -> Seq(Frame)]
    /\ caller \in [Requests -> Caller]
    /\ \A r \in Requests : caller[r].read <= Len(frames[r])
    /\ expired \subseteq Requests
    /\ worker \in Worker /\ worker.cursor <= Len(stream)
    /\ execution \in [Requests -> Execution]
    /\ \A r \in Requests :
          /\ execution[r].pc \in {"posting", "posted"} => execution[r].batch # <<>>
          /\ execution[r].pc \notin {"reading", "posting", "posted"}
             => execution[r].batch = <<>>
          /\ execution[r].pc \in {"none", "spawned", "calling"} => execution[r].sent = 0
    /\ late \subseteq [request : Requests, batch : Seq(Frame) \ {<<>>}]

LifeInv ==
    /\ \A r \in Requests : \A i \in 1 .. Len(frames[r]) :
          /\ frames[r][i].life <= worker.life
          /\ frames[r][i].life = worker.life
             => execution[r].pc \notin {"none", "spawned", "calling"}
    /\ \A r \in Requests : \A i \in 1 .. Len(execution[r].batch) :
          execution[r].batch[i].life = worker.life
    /\ \A u \in late : \A i \in 1 .. Len(u.batch) : u.batch[i].life < worker.life

----------------------------------------------------------------------------
(* The command of r, which is in the stream once its caller is there.      *)
CommandOf(r) == [request |-> r, cancel |-> FALSE]
Commands(r) == {i \in 1 .. Len(stream) : stream[i] = CommandOf(r)}

StreamInv ==
    /\ \A r \in Requests :
          /\ \A i, j \in Commands(r) : i = j
          /\ caller[r].pc # "idle" <=> Commands(r) # {}
          /\ caller[r].pc = "idle" => execution[r].pc = "none" /\ frames[r] = <<>>
          /\ caller[r].pc = "reading" => frames[r] # <<>>
    /\ \A i \in 1 .. Len(stream) : stream[i].cancel => frames[stream[i].request] # <<>>
    /\ \A u \in late : caller[u.request].pc # "idle"

(* What the worker has polled is the next piece of the stream.             *)
BatchInv ==
    /\ \A i \in 1 .. Len(worker.batch) :
          /\ worker.batch[i] = worker.batch[1] + i - 1
          /\ worker.batch[i] \in worker.cursor + 1 .. Len(stream)
    /\ worker.answering => worker.batch # <<>>

(* This worker will not come to the command at position i (again), and no  *)
(* other one to a command that is settled.                                 *)
Past(i) == IF worker.batch = <<>> THEN i <= worker.cursor \/ i <= ack
                                  ELSE i < worker.batch[1]
Settled(r) == \A i \in Commands(r) : i <= ack /\ Past(i)

PastInv ==
    \A r \in Requests :
        /\ execution[r].pc # "none" => \A i \in Commands(r) : Past(i)
        /\ execution[r].pc = "done" => Settled(r)

(* A cancel comes after the response whose reader sent it has begun.       *)
CancelInv ==
    \A r \in worker.cancelled :
        /\ frames[r] # <<>>
        /\ frames[r][1].life = worker.life => execution[r].stopped \/ ~Alive(r)

----------------------------------------------------------------------------
(* A small response is uploaded as a whole, so the response stream starts  *)
(* with one as a whole.                                                    *)
Begins(b, n) ==
    \A i \in 1 .. n :
        b[i].seq = i - 1 /\ b[i].life = b[1].life /\ (i < n => ~b[i].done)
Whole(b) == Begins(b, Len(b)) /\ b[Len(b)].done

SmallOK(r) ==
    /\ execution[r].pc = "reading" =>
          /\ Len(execution[r].batch) = execution[r].sent + 1
          /\ Begins(execution[r].batch, execution[r].sent + 1)
          /\ ~execution[r].batch[execution[r].sent + 1].done
    /\ execution[r].pc \in {"posting", "posted"} => Whole(execution[r].batch)
    /\ \A u \in late : u.request = r => Whole(u.batch)
    /\ frames[r] # <<>> =>
          \E n \in 1 .. Len(frames[r]) : frames[r][n].done /\ Begins(frames[r], n)

(* The parts of an event stream are uploaded one by one, each after the one*)
(* before: part n of a life goes behind its parts 1 .. n - 1.              *)
Parts(r) == {i \in 1 .. Len(frames[r]) : frames[r][i].seq > 0}

Follows(r, life, n, last) ==
    /\ \A i \in Parts(r) : frames[r][i].life = life /\ frames[r][i].seq <= last
    /\ \A m \in 1 .. n : \E i \in Parts(r) : frames[r][i].seq = m

(* The execution of r has had its first frame accepted.                    *)
Posting(r) == execution[r].pc \in {"posting", "posted"}
Streams(r) ==
    \/ execution[r].pc = "reading"
    \/ Posting(r) /\ execution[r].batch[1].seq > 0

LateParts(r) == {u \in late : u.request = r /\ u.batch[1].seq > 0}

PartsOK(r) ==
    /\ \A i, j \in Parts(r) :
          /\ frames[r][i].life = frames[r][j].life
          /\ i < j => frames[r][i].seq < frames[r][j].seq
    /\ \A i \in Parts(r) : frames[r][i].seq > 1 =>
          \E j \in Parts(r) : j < i /\ frames[r][j].seq = frames[r][i].seq - 1

StreamsOK(r) ==
    /\ execution[r].pc = "reading" =>
          /\ execution[r].batch = <<>>
          /\ Follows(r, worker.life, execution[r].sent, execution[r].sent)
    /\ Posting(r) =>
          LET f == execution[r].batch[1]
          IN  /\ Len(execution[r].batch) = 1
              /\ \/ f.seq = 0 /\ execution[r].sent = 0
                 \/ f.seq = execution[r].sent + (IF f.done THEN 1 ELSE 0)
              /\ f.seq > 0 =>
                    /\ Follows(r, worker.life, f.seq - 1, f.seq)
                    /\ execution[r].pc = "posted" =>
                          \E i \in Parts(r) : frames[r][i].seq = f.seq
    /\ Streams(r) \/ Parts(r) # {} \/ LateParts(r) # {} => Settled(r)
    /\ ~Streams(r) /\ execution[r].pc \notin {"none", "done", "dropped"} =>
          LateParts(r) = {} /\ Parts(r) = {}

LateOK(r) ==
    /\ \A u \in late : u.request = r => Len(u.batch) = 1
    /\ \A u \in LateParts(r) :
          /\ execution[r].pc = "none"
          /\ Follows(r, u.batch[1].life, u.batch[1].seq - 1, u.batch[1].seq)
          /\ \A v \in LateParts(r) : v = u

ReplyInv ==
    \A r \in Requests :
        /\ kind[r] = "small" => SmallOK(r)
        /\ kind[r] = "event_stream" => PartsOK(r) /\ StreamsOK(r) /\ LateOK(r)

(* The inductive invariant.  ControlTypeOK, CancelReachesExecution and     *)
(* ReplyIsOneExecution follow from it.                                     *)
ControlInv ==
    TypeInv /\ LifeInv /\ StreamInv /\ BatchInv /\ PastInv /\ CancelInv /\ ReplyInv
=============================================================================
