------------------------- MODULE ControlTunnelProofs -------------------------
(***************************************************************************)
(* Proofs about ControlTunnel: the invariant of ControlTunnelInvariant, one*)
(* lemma per action, and what follows.                                     *)
(***************************************************************************)
EXTENDS ControlTunnelLemmas

----------------------------------------------------------------------------
(* The acknowledgement and the commands behind the worker.                 *)

(* The stream has the command of a request once, where PositionOf says.    *)
LEMMA PositionIsThere ==
    ASSUME ControlInv, NEW r \in Requests, caller[r].pc # "idle"
    PROVE  /\ PositionOf(r) \in 1 .. Len(stream)
           /\ \A i \in Commands(r) : i = PositionOf(r)
<1>1. PICK i \in Commands(r) : TRUE
  BY DEF ControlInv, StreamInv
<1>2. i \in 1 .. Len(stream) /\ stream[i] = [request |-> r, cancel |-> FALSE]
  BY <1>1 DEF Commands, CommandOf
<1>3. /\ PositionOf(r) \in 1 .. Len(stream)
      /\ stream[PositionOf(r)] = [request |-> r, cancel |-> FALSE]
  BY <1>2 DEF PositionOf
<1>4. PositionOf(r) \in Commands(r)
  BY <1>3 DEF Commands, CommandOf
<1> QED
  BY <1>3, <1>4 DEF ControlInv, StreamInv

LEMMA LargestIs ==
    ASSUME NEW m \in Nat, NEW n \in Nat
    PROVE  /\ Largest(m, n) \in Nat /\ m <= Largest(m, n) /\ n <= Largest(m, n)
           /\ Largest(m, n) = m \/ Largest(m, n) = n
BY DEF Largest

(* Acknowledging a command of the stream moves the acknowledgement forward.*)
LEMMA Acknowledged ==
    ASSUME ControlInv, NEW i \in 1 .. Len(stream), AckCommand(i)
    PROVE  ack' \in Nat /\ ack <= ack' /\ ack' <= Len(stream) /\ i <= ack'
<1>1. ack \in Nat /\ ack <= Len(stream) /\ Len(stream) \in Nat
  BY DEF ControlInv, TypeInv
<1>2. i \in Nat /\ ack' = Largest(ack, i)
  BY <1>1 DEF AckCommand
<1>3. Largest(ack, i) \in Nat /\ ack <= Largest(ack, i) /\ i <= Largest(ack, i)
  BY <1>1, <1>2, LargestIs
<1>4. Largest(ack, i) = ack \/ Largest(ack, i) = i
  BY <1>1, <1>2, LargestIs
<1> QED
  BY <1>1, <1>2, <1>3, <1>4

LEMMA AcknowledgedUpload ==
    ASSUME ControlInv, NEW r \in Requests, caller[r].pc # "idle", NEW batch,
           IF AcksIn(r, batch) THEN AckCommand(PositionOf(r)) ELSE UNCHANGED ack
    PROVE  /\ ack' \in Nat /\ ack <= ack' /\ ack' <= Len(stream)
           /\ AcksIn(r, batch) => \A i \in Commands(r) : i <= ack'
<1>1. ack \in Nat /\ ack <= Len(stream) /\ Len(stream) \in Nat
  BY DEF ControlInv, TypeInv
<1>2. CASE AcksIn(r, batch)
  BY <1>2, PositionIsThere, Acknowledged
<1>3. CASE ~ AcksIn(r, batch)
  BY <1>1, <1>3
<1> QED
  BY <1>2, <1>3

(* What is past stays past and what is settled stays settled.              *)
Onward ==
    /\ \A q \in Requests : Commands(q)' = Commands(q)
    /\ \A i \in Nat : Past(i) => Past(i)'
    /\ \A q \in Requests : Settled(q) => Settled(q)'

LEMMA Moved ==
    ASSUME ControlInv, stream' = stream, ack' \in Nat, ack <= ack',
           \A i \in Nat : Past(i) => Past(i)'
    PROVE  Onward
<1>1. \A q \in Requests : Commands(q)' = Commands(q)
  BY DEF Commands, CommandOf
<1>2. ASSUME NEW q \in Requests, Settled(q) PROVE Settled(q)'
  <2>1. \A i \in Commands(q) : i \in Nat /\ i <= ack /\ Past(i)
    BY <1>2 DEF Settled, Commands
  <2>2. \A i \in Commands(q) : i <= ack' /\ Past(i)'
    BY <2>1 DEF ControlInv, TypeInv
  <2> QED
    BY <1>1, <2>2 DEF Settled
<1> QED
  BY <1>1, <1>2 DEF Onward

LEMMA MovedOnly ==
    ASSUME ControlInv, stream' = stream, ack' \in Nat, ack <= ack',
           worker'.batch = worker.batch, worker'.cursor = worker.cursor
    PROVE  Onward
<1>1. ack \in Nat
  BY DEF ControlInv, TypeInv
<1>2. \A i \in Nat : Past(i) => Past(i)'
  BY <1>1 DEF Past
<1> QED
  BY <1>2, Moved

(* A command is added: nothing is past or settled that was not, and nothing*)
(* ceases to be but the request whose command it is.                       *)
LEMMA MovedStream ==
    ASSUME ControlInv, NEW c \in Command, stream' = Append(stream, c),
           UNCHANGED <<ack, worker>>
    PROVE  /\ \A q \in Requests : c # CommandOf(q) =>
                 Commands(q)' = Commands(q) /\ (Settled(q) => Settled(q)')
           /\ \A q \in Requests : c = CommandOf(q) =>
                 Commands(q)' = Commands(q) \cup {Len(stream) + 1}
           /\ \A i : Past(i)' <=> Past(i)
           /\ stream' \in Seq(Command) /\ Len(stream') = Len(stream) + 1
           /\ stream'[Len(stream) + 1] = c
           /\ \A i \in 1 .. Len(stream) : stream'[i] = stream[i]
<1>1. stream \in Seq(Command) /\ Len(stream) \in Nat
  BY DEF ControlInv, TypeInv
<1>2. /\ stream' \in Seq(Command) /\ Len(stream') = Len(stream) + 1
      /\ stream'[Len(stream) + 1] = c
      /\ \A i \in 1 .. Len(stream) : stream'[i] = stream[i]
  BY <1>1
<1>3. \A i : Past(i)' <=> Past(i)
  BY DEF Past
<1>4. ASSUME NEW q \in Requests, c # CommandOf(q) PROVE Commands(q)' = Commands(q)
  BY <1>1, <1>2, <1>4 DEF Commands, CommandOf
<1>5. ASSUME NEW q \in Requests, c = CommandOf(q)
      PROVE  Commands(q)' = Commands(q) \cup {Len(stream) + 1}
  BY <1>1, <1>2, <1>5 DEF Commands, CommandOf
<1>6. ASSUME NEW q \in Requests, c # CommandOf(q), Settled(q) PROVE Settled(q)'
  BY <1>3, <1>4, <1>6 DEF Settled
<1> QED
  BY <1>2, <1>3, <1>4, <1>5, <1>6

----------------------------------------------------------------------------
(* Replies that a step does not touch.                                     *)

Same(q) ==
    /\ frames'[q] = frames[q]
    /\ execution'[q].pc = execution[q].pc
    /\ execution'[q].sent = execution[q].sent
    /\ execution'[q].batch = execution[q].batch

ReplyOf(r) ==
    /\ kind[r] = "small" => SmallOK(r)
    /\ kind[r] = "event_stream" => PartsOK(r) /\ StreamsOK(r) /\ LateOK(r)

(* What SmallOK says of the next state.                                    *)
LEMMA SmallNext ==
    ASSUME NEW r
    PROVE  SmallOK(r)' <=>
             /\ execution'[r].pc = "reading" =>
                   /\ Len(execution'[r].batch) = execution'[r].sent + 1
                   /\ Begins(execution'[r].batch, execution'[r].sent + 1)
                   /\ ~execution'[r].batch[execution'[r].sent + 1].done
             /\ execution'[r].pc \in {"posting", "posted"} => Whole(execution'[r].batch)
             /\ \A u \in late' : u.request = r => Whole(u.batch)
             /\ frames'[r] # <<>> =>
                   \E n \in 1 .. Len(frames'[r]) : frames'[r][n].done /\ Begins(frames'[r], n)
BY DEF SmallOK, Whole, Begins

LEMMA ReplyKept ==
    ASSUME ControlInv, kind' = kind, late' \subseteq late, worker'.life = worker.life,
           NEW q \in Requests, Same(q),
           caller[q].pc # "idle" => (Settled(q) => Settled(q)')
    PROVE  ReplyOf(q)'
<1>1. kind[q] = "small" => SmallOK(q)
  BY DEF ControlInv, ReplyInv
<1>2. SmallOK(q) => SmallOK(q)'
  BY SmallNext DEF SmallOK, Same
<1>3. kind[q] = "event_stream" => PartsOK(q) /\ StreamsOK(q) /\ LateOK(q)
  BY DEF ControlInv, ReplyInv
<1>4. Parts(q)' = Parts(q)
  BY DEF Parts, Same
<1>5. PartsOK(q) => PartsOK(q)'
  BY <1>4 DEF PartsOK, Same
<1>6. LateParts(q)' \subseteq LateParts(q)
  BY DEF LateParts
<1>7. \A l, n, m : Follows(q, l, n, m)' <=> Follows(q, l, n, m)
  BY <1>4 DEF Follows, Same
<1>8. LateOK(q) => LateOK(q)'
  BY <1>6, <1>7 DEF LateOK, Same
<1>9. (Streams(q)' <=> Streams(q)) /\ (Posting(q)' <=> Posting(q))
  BY DEF Streams, Posting, Same
<1>10. StreamsOK(q) => StreamsOK(q)'
  <2> SUFFICES ASSUME StreamsOK(q) PROVE StreamsOK(q)'
    OBVIOUS
  <2>1. CASE caller[q].pc = "idle"
    <3>1. execution[q].pc = "none" /\ frames[q] = <<>> /\ LateParts(q) = {}
      BY <2>1 DEF ControlInv, StreamInv, LateParts
    <3>2. Parts(q) = {}
      BY <3>1 DEF Parts
    <3>3. Parts(q)' = {} /\ LateParts(q)' = {} /\ execution'[q].pc = "none"
      BY <3>1, <3>2, <1>4, <1>6 DEF Same
    <3> QED
      BY <3>3 DEF StreamsOK, Streams, Posting
  <2>2. CASE caller[q].pc # "idle"
    <3>1. Settled(q) => Settled(q)'
      BY <2>2
    <3>2. (execution[q].pc = "reading" =>
             /\ execution[q].batch = <<>>
             /\ Follows(q, worker.life, execution[q].sent, execution[q].sent))'
      BY <1>7 DEF StreamsOK, Same
    <3>3. (Posting(q) =>
          LET f == execution[q].batch[1]
          IN  /\ Len(execution[q].batch) = 1
              /\ \/ f.seq = 0 /\ execution[q].sent = 0
                 \/ f.seq = execution[q].sent + (IF f.done THEN 1 ELSE 0)
              /\ f.seq > 0 =>
                    /\ Follows(q, worker.life, f.seq - 1, f.seq)
                    /\ execution[q].pc = "posted" =>
                          \E i \in Parts(q) : frames[q][i].seq = f.seq)'
      BY <1>4, <1>7, <1>9 DEF StreamsOK, Same
    <3>4. (Streams(q) \/ Parts(q) # {} \/ LateParts(q) # {} => Settled(q))'
      BY <1>4, <1>6, <1>9, <3>1 DEF StreamsOK
    <3>5. (~Streams(q) /\ execution[q].pc \notin {"none", "done", "dropped"} =>
            LateParts(q) = {} /\ Parts(q) = {})'
      BY <1>4, <1>6, <1>9 DEF StreamsOK, Same
    <3> QED
      BY <3>2, <3>3, <3>4, <3>5 DEF StreamsOK
  <2> QED
    BY <2>1, <2>2
<1> QED
  BY <1>1, <1>2, <1>3, <1>5, <1>8, <1>10 DEF ReplyOf

LEMMA RepliesKept ==
    ASSUME ControlInv, kind' = kind, late' \subseteq late, worker'.life = worker.life,
           \A q \in Requests : Same(q),
           \A q \in Requests : caller[q].pc # "idle" => (Settled(q) => Settled(q)')
    PROVE  ReplyInv'
<1>1. \A q \in Requests : ReplyOf(q)'
  BY ReplyKept
<1> QED
  BY <1>1 DEF ReplyInv, ReplyOf

LEMMA OtherRepliesKept ==
    ASSUME ControlInv, kind' = kind, late' \subseteq late, worker'.life = worker.life,
           NEW r \in Requests, ReplyOf(r)',
           \A q \in Requests : q # r => Same(q),
           \A q \in Requests : caller[q].pc # "idle" => (Settled(q) => Settled(q)')
    PROVE  ReplyInv'
<1>1. \A q \in Requests : q # r => ReplyOf(q)'
  BY ReplyKept
<1> QED
  BY <1>1 DEF ReplyInv, ReplyOf

----------------------------------------------------------------------------
LEMMA InitStep == Init => ControlInv
<1> SUFFICES ASSUME Init PROVE ControlInv
  OBVIOUS
<1> USE RequestAssumption, BoundAssumption DEF Init
<1>1. stream = <<>> /\ Len(stream) = 0
  OBVIOUS
<1>2. \A r \in Requests : /\ frames[r] = <<>> /\ caller[r].pc = "idle" /\ caller[r].read = 0
                          /\ execution[r] = NoExecution
  OBVIOUS
<1>3. NoExecution \in Execution
  BY DEF NoExecution, Execution
<1>4. worker \in Worker /\ worker.cursor = 0 /\ worker.batch = <<>> /\ worker.cancelled = {}
      /\ worker.answering = FALSE
  BY DEF Worker, Lives
<1>5. TypeInv
  BY <1>1, <1>2, <1>3, <1>4 DEF TypeInv, Caller, NoExecution
<1>6. LifeInv
  BY <1>2 DEF LifeInv, NoExecution
<1>7. \A r \in Requests : Commands(r) = {}
  BY <1>1 DEF Commands
<1>8. StreamInv
  BY <1>1, <1>2, <1>7 DEF StreamInv, NoExecution
<1>9. BatchInv
  BY <1>4 DEF BatchInv
<1>10. PastInv
  BY <1>2, <1>7 DEF PastInv, Settled
<1>11. CancelInv
  BY <1>4 DEF CancelInv
<1>12. \A r \in Requests : Parts(r) = {} /\ LateParts(r) = {} /\ ~Streams(r) /\ ~Posting(r)
  BY <1>2 DEF Parts, LateParts, Streams, Posting, NoExecution
<1>13. ReplyInv
  BY <1>2, <1>12 DEF ReplyInv, SmallOK, PartsOK, StreamsOK, LateOK, NoExecution
<1> QED
  BY <1>5, <1>6, <1>8, <1>9, <1>10, <1>11, <1>13 DEF ControlInv

(* A caller reads, or turns away.                                          *)
LEMMA CallerGoesOn ==
    ASSUME ControlInv, NEW r \in Requests, NEW c \in Caller, caller' = [caller EXCEPT ![r] = c],
           caller[r].pc # "idle", c.pc # "idle", c.read <= Len(frames[r]),
           c.pc = "reading" => frames[r] # <<>>,
           UNCHANGED <<direct, kind, stream, ack, frames, expired, worker, execution, late>>
    PROVE  ControlInv'
<1>1. caller' \in [Requests -> Caller] /\ caller'[r] = c
      /\ \A q \in Requests : q # r => caller'[q] = caller[q]
  BY DEF ControlInv, TypeInv
<1>2. TypeInv'
  BY <1>1 DEF ControlInv, TypeInv
<1>3. LifeInv'
  BY DEF ControlInv, LifeInv
<1>4. \A q \in Requests : Commands(q)' = Commands(q)
  BY DEF Commands, CommandOf
<1>5. StreamInv'
  BY <1>1, <1>4 DEF ControlInv, StreamInv, TypeInv
<1>6. BatchInv'
  BY DEF ControlInv, BatchInv
<1>7. Onward
  BY MovedOnly DEF ControlInv, TypeInv
<1>8. PastInv'
  BY <1>4, <1>7 DEF ControlInv, PastInv, Onward, Past
<1>9. CancelInv'
  BY DEF ControlInv, CancelInv, Alive
<1>10. ReplyInv'
  BY <1>7, RepliesKept DEF Onward, Same
<1> QED
  BY <1>2, <1>3, <1>5, <1>6, <1>8, <1>9, <1>10 DEF ControlInv

LEMMA ReadFirstFrameStep ==
    ASSUME ControlInv, NEW r \in Requests, ReadFirstFrame(r) PROVE ControlInv'
<1> DEFINE c == IF frames[r][1].error THEN [pc |-> "failed", read |-> 1]
                                      ELSE [pc |-> "reading", read |-> Len(frames[r])]
<1>1. frames[r] \in Seq(Frame) /\ frames[r] # <<>>
  BY DEF ReadFirstFrame, ControlInv, TypeInv
<1>2. Len(frames[r]) \in Nat /\ 1 <= Len(frames[r])
  BY <1>1
<1>3. c \in Caller /\ c.pc # "idle" /\ c.read <= Len(frames[r])
  BY <1>2 DEF Caller
<1>4. caller' = [caller EXCEPT ![r] = c]
  BY DEF ReadFirstFrame
<1> HIDE DEF c
<1>5. caller[r].pc # "idle"
      /\ UNCHANGED <<direct, kind, stream, ack, frames, expired, worker, execution, late>>
  BY DEF ReadFirstFrame
<1> QED
  BY <1>1, <1>3, <1>4, <1>5, CallerGoesOn

LEMMA StreamBodyStep ==
    ASSUME ControlInv, NEW r \in Requests, StreamBody(r) PROVE ControlInv'
<1> DEFINE c == [caller[r] EXCEPT !.read = Len(frames[r])]
<1>1. frames[r] \in Seq(Frame) /\ caller[r] \in Caller
  BY DEF StreamBody, ControlInv, TypeInv
<1>2. c \in Caller /\ c.pc = "reading" /\ c.read <= Len(frames[r])
  BY <1>1 DEF Caller, StreamBody
<1>3. caller' = [caller EXCEPT ![r] = c]
  BY DEF StreamBody
<1> HIDE DEF c
<1>4. caller[r].pc = "reading"
      /\ UNCHANGED <<direct, kind, stream, ack, frames, expired, worker, execution, late>>
  BY DEF StreamBody
<1>5. frames[r] # <<>>
  BY <1>4 DEF ControlInv, StreamInv
<1> QED
  BY <1>2, <1>3, <1>4, <1>5, CallerGoesOn

LEMMA GiveUpStep ==
    ASSUME ControlInv, NEW r \in Requests, GiveUp(r) PROVE ControlInv'
<1> DEFINE c == [caller[r] EXCEPT !.pc = "failed"]
<1>1. caller[r] \in Caller /\ caller[r].read <= Len(frames[r])
  BY DEF ControlInv, TypeInv
<1>2. c \in Caller /\ c.pc = "failed" /\ c.read <= Len(frames[r])
  BY <1>1 DEF Caller
<1>3. caller' = [caller EXCEPT ![r] = c]
  BY DEF GiveUp
<1> HIDE DEF c
<1>4. caller[r].pc = "waiting"
      /\ UNCHANGED <<direct, kind, stream, ack, frames, expired, worker, execution, late>>
  BY DEF GiveUp
<1> QED
  BY <1>2, <1>3, <1>4, CallerGoesOn

(* A command is put into the stream: the first of its caller, or a cancel  *)
(* of the caller that reads its response.                                  *)
LEMMA CommandAdded ==
    ASSUME ControlInv, NEW r \in Requests, NEW c \in Command, stream' = Append(stream, c),
           c.request = r, c.cancel => caller[r].pc = "reading", ~c.cancel => caller[r].pc = "idle",
           NEW pc \in {"left", "waiting", "closed"}, caller' = [caller EXCEPT ![r].pc = pc],
           UNCHANGED <<direct, kind, ack, frames, expired, worker, execution, late>>
    PROVE  ControlInv'
<1>1. caller' \in [Requests -> Caller] /\ caller'[r].pc = pc /\ caller'[r].read = caller[r].read
      /\ \A q \in Requests : q # r => caller'[q] = caller[q]
  BY DEF ControlInv, TypeInv, Caller
<1>2. /\ \A q \in Requests : c # CommandOf(q) =>
                 Commands(q)' = Commands(q) /\ (Settled(q) => Settled(q)')
      /\ \A q \in Requests : c = CommandOf(q) =>
                 Commands(q)' = Commands(q) \cup {Len(stream) + 1}
      /\ \A i : Past(i)' <=> Past(i)
  BY MovedStream
<1>3. /\ stream' \in Seq(Command) /\ Len(stream') = Len(stream) + 1
      /\ stream'[Len(stream) + 1] = c
      /\ \A i \in 1 .. Len(stream) : stream'[i] = stream[i]
  BY MovedStream
<1>4. \A q \in Requests : c = CommandOf(q) => q = r /\ ~c.cancel
  BY DEF CommandOf
<1>5. ~c.cancel => c = CommandOf(r)
  BY DEF Command, CommandOf
<1>6. ~c.cancel => execution[r].pc = "none" /\ frames[r] = <<>> /\ Commands(r) = {}
  BY DEF ControlInv, StreamInv
<1>7. Len(stream) \in Nat
  BY DEF ControlInv, TypeInv
<1>8. TypeInv'
  BY <1>1, <1>3, <1>7 DEF ControlInv, TypeInv, Worker
<1>9. LifeInv'
  BY DEF ControlInv, LifeInv
<1>10. StreamInv'
  <2>1. ASSUME NEW q \in Requests
        PROVE  (/\ \A i, j \in Commands(q) : i = j
                /\ caller[q].pc # "idle" <=> Commands(q) # {}
                /\ caller[q].pc = "idle" => execution[q].pc = "none" /\ frames[q] = <<>>
                /\ caller[q].pc = "reading" => frames[q] # <<>>)'
    <3>1. /\ \A i, j \in Commands(q) : i = j
          /\ caller[q].pc # "idle" <=> Commands(q) # {}
          /\ caller[q].pc = "idle" => execution[q].pc = "none" /\ frames[q] = <<>>
          /\ caller[q].pc = "reading" => frames[q] # <<>>
      BY DEF ControlInv, StreamInv
    <3>2. CASE c = CommandOf(q)
      <4>1. q = r /\ ~c.cancel /\ Commands(q)' = {Len(stream) + 1}
        BY <3>2, <1>2, <1>4, <1>6
      <4> QED
        BY <4>1, <1>1, <1>6
    <3>3. CASE c # CommandOf(q)
      <4>1. Commands(q)' = Commands(q)
        BY <3>3, <1>2
      <4>2. CASE q # r
        BY <3>1, <4>1, <4>2, <1>1
      <4>3. CASE q = r
        <5>1. caller[q].pc = "reading"
          BY <3>3, <4>3, <1>5
        <5> QED
          BY <3>1, <4>1, <4>3, <5>1, <1>1
      <4> QED
        BY <4>2, <4>3
    <3> QED
      BY <3>2, <3>3
  <2>2. \A i \in 1 .. Len(stream') : stream'[i].cancel => frames[stream'[i].request] # <<>>
    <3>1. c.cancel => frames[r] # <<>>
      BY DEF ControlInv, StreamInv
    <3> QED
      BY <3>1, <1>3, <1>7 DEF ControlInv, StreamInv
  <2>3. \A u \in late : caller'[u.request].pc # "idle"
    BY <1>1 DEF ControlInv, StreamInv, TypeInv
  <2> QED
    BY <2>1, <2>2, <2>3 DEF StreamInv
<1>11. BatchInv'
  BY <1>3, <1>7 DEF ControlInv, BatchInv
<1>12. PastInv'
  <2>1. ASSUME NEW q \in Requests, execution[q].pc # "none"
        PROVE  Commands(q)' = Commands(q) /\ (Settled(q) => Settled(q)')
    BY <2>1, <1>2, <1>4, <1>6
  <2> QED
    BY <2>1, <1>2 DEF ControlInv, PastInv
<1>13. CancelInv'
  BY DEF ControlInv, CancelInv, Alive
<1>14. \A q \in Requests : caller[q].pc # "idle" => (Settled(q) => Settled(q)')
  BY <1>2, <1>4
<1>15. ReplyInv'
  BY <1>14, RepliesKept DEF Same
<1> QED
  BY <1>8, <1>9, <1>10, <1>11, <1>12, <1>13, <1>15 DEF ControlInv

LEMMA EnqueueStep ==
    ASSUME ControlInv, NEW r \in Requests, Enqueue(r) PROVE ControlInv'
<1> DEFINE c == [request |-> r, cancel |-> FALSE]
           pc == IF r \in Durable THEN "left" ELSE "waiting"
<1>1. c \in Command /\ c.request = r /\ ~c.cancel
  BY DEF Command
<1>2. pc \in {"left", "waiting", "closed"}
  OBVIOUS
<1>3. /\ stream' = Append(stream, c) /\ caller' = [caller EXCEPT ![r].pc = pc]
      /\ caller[r].pc = "idle"
      /\ UNCHANGED <<direct, kind, ack, frames, expired, worker, execution, late>>
  BY DEF Enqueue
<1> HIDE DEF c, pc
<1> QED
  BY <1>1, <1>2, <1>3, CommandAdded

LEMMA CloseBodyStep ==
    ASSUME ControlInv, NEW r \in Requests, CloseBody(r) PROVE ControlInv'
<1> DEFINE c == [request |-> r, cancel |-> TRUE]
<1>1. c \in Command /\ c.request = r /\ c.cancel
  BY DEF Command
<1>2. /\ stream' = Append(stream, c) /\ caller' = [caller EXCEPT ![r].pc = "closed"]
      /\ caller[r].pc = "reading"
      /\ UNCHANGED <<direct, kind, ack, frames, expired, worker, execution, late>>
  BY DEF CloseBody
<1> HIDE DEF c
<1> QED
  BY <1>1, <1>2, CommandAdded

----------------------------------------------------------------------------
(* A step of an execution that adds nothing to the response.               *)
Proper(e) ==
    /\ e \in Execution
    /\ e.pc \in {"posting", "posted"} => e.batch # <<>>
    /\ e.pc \notin {"reading", "posting", "posted"} => e.batch = <<>>
    /\ e.pc \in {"none", "spawned", "calling"} => e.sent = 0
    /\ \A i \in 1 .. Len(e.batch) : e.batch[i].life = worker.life

LEMMA ExecutionGoesOn ==
    ASSUME ControlInv, NEW r \in Requests, NEW e, Proper(e), Going(r, e), frames' = frames,
           ack' \in Nat, ack <= ack', ack' <= Len(stream),
           execution[r].pc \notin {"none", "done"}, e.pc # "none",
           e.pc \in {"spawned", "calling"} => execution[r].pc \in {"spawned", "calling"},
           e.pc = "done" => \A i \in Commands(r) : i <= ack',
           execution[r].pc = "spawned" \/ (execution[r].stopped => e.stopped)
              \/ e.pc \in {"done", "dropped"},
           execution[r].pc = "dropped" => e.pc = "dropped",
           ReplyOf(r)'
    PROVE  ControlInv'
<1>1. /\ execution' \in [Requests -> Execution] /\ execution'[r] = e
      /\ \A q \in Requests : q # r => execution'[q] = execution[q]
  BY DEF ControlInv, TypeInv, Going, Proper
<1>2. UNCHANGED <<direct, kind, stream, caller, expired, worker, late>> /\ frames' = frames
  BY DEF Going
<1>3. TypeInv'
  <2>1. (\A q \in Requests :
          /\ execution[q].pc \in {"posting", "posted"} => execution[q].batch # <<>>
          /\ execution[q].pc \notin {"reading", "posting", "posted"}
             => execution[q].batch = <<>>
          /\ execution[q].pc \in {"none", "spawned", "calling"} => execution[q].sent = 0)'
    BY <1>1 DEF ControlInv, TypeInv, Proper
  <2>2. ack' \in 0 .. Len(stream')
    BY <1>2 DEF ControlInv, TypeInv
  <2> QED
    BY <1>1, <1>2, <2>1, <2>2 DEF ControlInv, TypeInv
<1>4. LifeInv'
  BY <1>1, <1>2 DEF ControlInv, LifeInv, Proper
<1>5. Onward
  BY <1>2, MovedOnly
<1>6. caller[r].pc # "idle"
  BY DEF ControlInv, StreamInv
<1>7. StreamInv'
  BY <1>1, <1>2, <1>5, <1>6 DEF ControlInv, StreamInv, Onward
<1>8. BatchInv'
  BY <1>2 DEF ControlInv, BatchInv
<1>9. PastInv'
  <2>1. \A i \in Commands(r) : i \in Nat /\ Past(i)
    BY DEF ControlInv, PastInv, Commands
  <2>2. \A i \in Commands(r) : Past(i)'
    BY <2>1, <1>5 DEF Onward
  <2>3. e.pc = "done" => Settled(r)'
    BY <2>2, <1>5 DEF Onward, Settled
  <2>4. ASSUME NEW q \in Requests, q # r, execution'[q].pc # "none"
        PROVE  \A i \in Commands(q) : Past(i)'
    <3>1. \A i \in Commands(q) : i \in Nat /\ Past(i)
      BY <2>4, <1>1 DEF ControlInv, PastInv, Commands
    <3> QED
      BY <3>1, <1>5 DEF Onward
  <2>5. ASSUME NEW q \in Requests, q # r, execution'[q].pc = "done" PROVE Settled(q)'
    BY <2>5, <1>1, <1>5 DEF ControlInv, PastInv, Onward
  <2> QED
    BY <1>1, <1>5, <2>2, <2>3, <2>4, <2>5 DEF PastInv, Onward
<1>10. CancelInv'
  <2>1. ASSUME NEW q \in worker.cancelled, q # r, frames[q][1].life = worker.life
        PROVE  (execution[q].stopped \/ ~Alive(q))'
    BY <2>1, <1>1, <1>2 DEF ControlInv, CancelInv, Alive, TypeInv, Worker
  <2>2. ASSUME r \in worker.cancelled, frames[r][1].life = worker.life
        PROVE  (execution[r].stopped \/ ~Alive(r))'
    <3>1. execution[r].stopped \/ ~Alive(r)
      BY <2>2 DEF ControlInv, CancelInv
    <3>2. execution[r].pc # "spawned"
      <4>1. frames[r] \in Seq(Frame) /\ frames[r] # <<>>
        BY <2>2 DEF ControlInv, CancelInv, TypeInv
      <4>2. 1 \in 1 .. Len(frames[r])
        BY <4>1
      <4> QED
        BY <2>2, <4>2 DEF ControlInv, LifeInv
    <3> QED
      BY <3>1, <3>2, <1>1 DEF Alive
  <2> QED
    BY <2>1, <2>2, <1>2 DEF ControlInv, CancelInv
<1>11. ReplyInv'
  BY <1>1, <1>2, <1>5, OtherRepliesKept DEF Same, Onward
<1> QED
  BY <1>3, <1>4, <1>7, <1>8, <1>9, <1>10, <1>11 DEF ControlInv

LEMMA FirstFramesAre ==
    ASSUME ControlInv
    PROVE  /\ StartFrame \in Frame /\ StartFrame.life = worker.life
           /\ StartFrame.seq = 0 /\ StartFrame.done = FALSE
           /\ ErrorFrame \in Frame /\ ErrorFrame.life = worker.life
           /\ ErrorFrame.seq = 0 /\ ErrorFrame.done = TRUE
<1>1. worker.life \in Lives /\ 0 \in 0 .. Chunks + 1
  BY BoundAssumption DEF ControlInv, TypeInv, Worker
<1> QED
  BY <1>1 DEF StartFrame, DoneFrame, ErrorFrame, Frame

LEMMA FramesAre ==
    ASSUME ControlInv, NEW n \in 0 .. Chunks + 1, NEW failed \in BOOLEAN
    PROVE  /\ BodyFrame(n) \in Frame /\ BodyFrame(n).life = worker.life
           /\ BodyFrame(n).seq = n /\ BodyFrame(n).done = FALSE
           /\ DoneFrame(n, failed) \in Frame /\ DoneFrame(n, failed).life = worker.life
           /\ DoneFrame(n, failed).seq = n /\ DoneFrame(n, failed).done = TRUE
<1>1. worker.life \in Lives
  BY DEF ControlInv, TypeInv, Worker
<1> QED
  BY <1>1 DEF BodyFrame, DoneFrame, Frame

LEMMA FramesTyped ==
    ASSUME NEW fs \in Seq(Frame)
    PROVE  /\ Len(fs) \in Nat
           /\ \A i \in 1 .. Len(fs) : /\ fs[i] \in Frame /\ fs[i].life \in Nat
                                      /\ fs[i].seq \in Nat /\ fs[i].done \in BOOLEAN
<1>1. \A f \in Frame : f.life \in Nat /\ f.seq \in Nat /\ f.done \in BOOLEAN
  BY BoundAssumption DEF Frame, Lives
<1>2. Len(fs) \in Nat /\ \A i \in 1 .. Len(fs) : fs[i] \in Frame
  OBVIOUS
<1> QED
  BY <1>1, <1>2

LEMMA ExecutionIs ==
    ASSUME ControlInv, NEW r \in Requests
    PROVE  /\ execution[r] \in Execution
           /\ execution[r].sent \in Nat /\ execution[r].sent <= Chunks /\ Chunks \in Nat
           /\ execution[r].batch \in Seq(Frame)
           /\ execution[r].pc \in {"reading", "posting", "posted"} \/ execution[r].batch = <<>>
           /\ \A i \in 1 .. Len(execution[r].batch) : execution[r].batch[i].life = worker.life
           /\ execution[r].pc # "none" => caller[r].pc # "idle"
           /\ ack \in Nat /\ ack <= Len(stream)
           /\ ReplyOf(r)
BY BoundAssumption DEF ControlInv, TypeInv, LifeInv, StreamInv, Execution, ReplyInv, ReplyOf

(* A step of an execution leaves what the response and the late uploads    *)
(* are.                                                                    *)
LEMMA ReplyFields ==
    ASSUME ControlInv, NEW r \in Requests, NEW e, Going(r, e), frames' = frames,
           ack' \in Nat, ack <= ack'
    PROVE  /\ execution'[r] = e /\ kind' = kind /\ late' = late /\ worker' = worker
           /\ Parts(r)' = Parts(r) /\ LateParts(r)' = LateParts(r)
           /\ \A l, n, m : Follows(r, l, n, m)' <=> Follows(r, l, n, m)
           /\ PartsOK(r)' <=> PartsOK(r)
           /\ Settled(r) => Settled(r)'
<1>1. execution'[r] = e /\ kind' = kind /\ late' = late /\ worker' = worker /\ stream' = stream
  BY DEF ControlInv, TypeInv, Going
<1>2. Parts(r)' = Parts(r) /\ LateParts(r)' = LateParts(r)
  BY <1>1 DEF Parts, LateParts
<1>3. \A l, n, m : Follows(r, l, n, m)' <=> Follows(r, l, n, m)
  BY <1>2 DEF Follows
<1>4. PartsOK(r)' <=> PartsOK(r)
  BY <1>2 DEF PartsOK
<1>5. Settled(r) => Settled(r)'
  BY <1>1, MovedOnly DEF Onward
<1> QED
  BY <1>1, <1>2, <1>3, <1>4, <1>5

(* The local call: nothing has been read or posted.                        *)
LEMMA CallGoesOn ==
    ASSUME ControlInv, NEW r \in Requests, execution[r].pc \in {"spawned", "calling"},
           NEW e \in Execution, Going(r, e), UNCHANGED <<ack, frames>>,
           e.pc \in {"calling", "dropped"}, e.batch = <<>>, e.sent = 0,
           execution[r].pc = "calling" => e.pc = "dropped"
    PROVE  ControlInv'
<1>1. ack \in Nat /\ ack <= Len(stream) /\ ReplyOf(r)
  BY ExecutionIs
<1>2. /\ execution'[r] = e /\ kind' = kind /\ late' = late /\ worker' = worker
      /\ Parts(r)' = Parts(r) /\ LateParts(r)' = LateParts(r)
      /\ \A l, n, m : Follows(r, l, n, m)' <=> Follows(r, l, n, m)
      /\ PartsOK(r)' <=> PartsOK(r)
      /\ Settled(r) => Settled(r)'
  BY <1>1, ReplyFields
<1>3. SmallOK(r) => SmallOK(r)'
  BY <1>2, SmallNext DEF SmallOK
<1>4. ASSUME StreamsOK(r), LateOK(r) PROVE StreamsOK(r)' /\ LateOK(r)'
  <2>1. ~Streams(r) /\ ~Streams(r)' /\ ~Posting(r)'
    BY <1>2 DEF Streams, Posting
  <2>2. LateParts(r) = {} /\ Parts(r) = {}
    BY <1>4, <2>1 DEF StreamsOK
  <2> QED
    BY <1>2, <1>4, <2>1, <2>2 DEF StreamsOK, LateOK
<1>5. ReplyOf(r)'
  BY <1>1, <1>2, <1>3, <1>4 DEF ReplyOf
<1>6. Proper(e)
  BY DEF Proper
<1> QED
  BY <1>1, <1>5, <1>6, ExecutionGoesOn

LEMMA BeginStep ==
    ASSUME ControlInv, NEW r \in Requests, Begin(r) PROVE ControlInv'
<1> DEFINE e == [execution[r] EXCEPT !.pc = "calling", !.stopped = r \in expired]
<1>1. execution[r] \in Execution /\ execution[r].batch = <<>> /\ execution[r].sent = 0
      /\ execution[r].pc = "spawned"
  BY DEF Begin, ControlInv, TypeInv
<1>2. (r \in expired) \in BOOLEAN
  OBVIOUS
<1>3. e \in Execution /\ e.pc = "calling" /\ e.batch = <<>> /\ e.sent = 0
  BY <1>1, <1>2 DEF Execution
<1>4. Going(r, e) /\ UNCHANGED <<ack, frames>>
  BY DEF Begin
<1> HIDE DEF e
<1> QED
  BY <1>1, <1>3, <1>4, CallGoesOn

LEMMA CallStoppedStep ==
    ASSUME ControlInv, NEW r \in Requests, CallStopped(r) PROVE ControlInv'
<1> DEFINE e == [execution[r] EXCEPT !.pc = "dropped"]
<1>1. execution[r] \in Execution /\ execution[r].batch = <<>> /\ execution[r].sent = 0
      /\ execution[r].pc = "calling"
  BY DEF CallStopped, ControlInv, TypeInv
<1>2. e \in Execution /\ e.pc = "dropped" /\ e.batch = <<>> /\ e.sent = 0
  BY <1>1 DEF Execution
<1>3. Going(r, e) /\ UNCHANGED <<ack, frames>>
  BY DEF CallStopped
<1> HIDE DEF e
<1> QED
  BY <1>1, <1>2, <1>3, CallGoesOn

(* The first frame: of a response, or of an error.                         *)
LEMMA FirstFrame ==
    ASSUME ControlInv, NEW r \in Requests, execution[r].pc = "calling", ~execution[r].stopped,
           NEW e \in Execution, Going(r, e), UNCHANGED <<ack, frames>>,
           NEW f \in Frame, f.life = worker.life, f.seq = 0,
           e.batch = <<f>>, e.sent = 0, e.pc \in {"reading", "posting"},
           kind[r] = "small" => (f.done <=> e.pc = "posting"),
           kind[r] = "event_stream" => e.pc = "posting"
    PROVE  ControlInv'
<1>1. ack \in Nat /\ ack <= Len(stream) /\ ReplyOf(r)
  BY ExecutionIs
<1>2. /\ execution'[r] = e /\ kind' = kind /\ late' = late /\ worker' = worker
      /\ Parts(r)' = Parts(r) /\ LateParts(r)' = LateParts(r)
      /\ \A l, n, m : Follows(r, l, n, m)' <=> Follows(r, l, n, m)
      /\ PartsOK(r)' <=> PartsOK(r)
      /\ Settled(r) => Settled(r)'
  BY <1>1, ReplyFields
<1>3. e.batch # <<>> /\ Len(e.batch) = 1 /\ e.batch[1] = f
  OBVIOUS
<1>4. ASSUME kind[r] = "small", SmallOK(r) PROVE SmallOK(r)'
  <2>1. Begins(e.batch, 1)
    BY <1>3 DEF Begins
  <2>2. e.pc = "reading" => Len(e.batch) = e.sent + 1 /\ Begins(e.batch, e.sent + 1)
                              /\ ~e.batch[e.sent + 1].done
    BY <2>1, <1>3, <1>4
  <2>3. e.pc = "posting" => Whole(e.batch)
    BY <2>1, <1>3, <1>4 DEF Whole
  <2>4. /\ \A u \in late' : u.request = r => Whole(u.batch)
        /\ frames'[r] # <<>> =>
             \E n \in 1 .. Len(frames'[r]) : frames'[r][n].done /\ Begins(frames'[r], n)
    BY <1>2, <1>4 DEF SmallOK
  <2>5. e.pc # "posted"
    OBVIOUS
  <2> QED
    BY <2>2, <2>3, <2>4, <2>5, <1>2, SmallNext
<1>5. ASSUME kind[r] = "event_stream", StreamsOK(r), LateOK(r) PROVE StreamsOK(r)' /\ LateOK(r)'
  <2>1. ~Streams(r) /\ ~Streams(r)'
    BY <1>2, <1>3, <1>5 DEF Streams, Posting
  <2>2. LateParts(r) = {} /\ Parts(r) = {}
    BY <1>5, <2>1 DEF StreamsOK
  <2>3. e.pc = "posting" /\ f.seq = 0 /\ ~(f.seq > 0)
    BY <1>5
  <2>4. (Posting(r) =>
          LET g == execution[r].batch[1]
          IN  /\ Len(execution[r].batch) = 1
              /\ \/ g.seq = 0 /\ execution[r].sent = 0
                 \/ g.seq = execution[r].sent + (IF g.done THEN 1 ELSE 0)
              /\ g.seq > 0 =>
                    /\ Follows(r, worker.life, g.seq - 1, g.seq)
                    /\ execution[r].pc = "posted" =>
                          \E i \in Parts(r) : frames[r][i].seq = g.seq)'
    BY <1>2, <1>3, <2>3
  <2>5. StreamsOK(r)'
    BY <1>2, <2>1, <2>2, <2>3, <2>4 DEF StreamsOK
  <2> QED
    BY <1>2, <1>5, <2>2, <2>5 DEF LateOK
<1>6. ReplyOf(r)'
  BY <1>1, <1>2, <1>4, <1>5 DEF ReplyOf
<1>7. Proper(e)
  BY <1>3 DEF Proper
<1> QED
  BY <1>1, <1>6, <1>7, ExecutionGoesOn

LEMMA RespondStep ==
    ASSUME ControlInv, NEW r \in Requests, Respond(r) PROVE ControlInv'
<1> DEFINE e == [execution[r] EXCEPT !.batch = <<StartFrame>>,
                    !.pc = IF kind[r] = "event_stream" THEN "posting" ELSE "reading"]
<1>1. execution[r] \in Execution /\ execution[r].sent = 0 /\ execution[r].pc = "calling"
      /\ ~execution[r].stopped
  BY DEF Respond, ControlInv, TypeInv
<1>2. /\ StartFrame \in Frame /\ StartFrame.life = worker.life
      /\ StartFrame.seq = 0 /\ StartFrame.done = FALSE
  BY FirstFramesAre
<1>3. <<StartFrame>> \in Seq(Frame)
  BY <1>2
<1>4. /\ e \in Execution /\ e.batch = <<StartFrame>> /\ e.sent = 0
      /\ e.pc = IF kind[r] = "event_stream" THEN "posting" ELSE "reading"
  BY <1>1, <1>3 DEF Execution
<1>5. Going(r, e) /\ UNCHANGED <<ack, frames>>
  BY DEF Respond
<1> HIDE DEF e
<1> QED
  BY <1>1, <1>2, <1>4, <1>5, FirstFrame

LEMMA CallFailsStep ==
    ASSUME ControlInv, NEW r \in Requests, CallFails(r) PROVE ControlInv'
<1> DEFINE e == [execution[r] EXCEPT !.batch = <<ErrorFrame>>, !.pc = "posting"]
<1>1. execution[r] \in Execution /\ execution[r].sent = 0 /\ execution[r].pc = "calling"
      /\ ~execution[r].stopped
  BY DEF CallFails, ControlInv, TypeInv
<1>2. /\ ErrorFrame \in Frame /\ ErrorFrame.life = worker.life
      /\ ErrorFrame.seq = 0 /\ ErrorFrame.done = TRUE
  BY FirstFramesAre
<1>3. <<ErrorFrame>> \in Seq(Frame)
  BY <1>2
<1>4. e \in Execution /\ e.batch = <<ErrorFrame>> /\ e.sent = 0 /\ e.pc = "posting"
  BY <1>1, <1>3 DEF Execution
<1>5. Going(r, e) /\ UNCHANGED <<ack, frames>>
  BY DEF CallFails
<1> HIDE DEF e
<1> QED
  BY <1>1, <1>2, <1>4, <1>5, FirstFrame

(* The next frame is read, and posted unless it is a part of a small       *)
(* response.                                                               *)
LEMMA NextFrame ==
    ASSUME ControlInv, NEW r \in Requests, execution[r].pc = "reading",
           NEW e \in Execution, Going(r, e), UNCHANGED <<ack, frames>>,
           NEW f \in Frame, f.life = worker.life, f.seq = execution[r].sent + 1,
           e.batch = Append(execution[r].batch, f), e.stopped = execution[r].stopped,
           e.pc \in {"reading", "posting"},
           e.sent = execution[r].sent + (IF f.done THEN 0 ELSE 1),
           kind[r] = "small" => (f.done <=> e.pc = "posting"),
           kind[r] = "event_stream" => e.pc = "posting"
    PROVE  ControlInv'
<1>1. ack \in Nat /\ ack <= Len(stream) /\ ReplyOf(r)
  BY ExecutionIs
<1>2. /\ execution'[r] = e /\ kind' = kind /\ late' = late /\ worker' = worker
      /\ Parts(r)' = Parts(r) /\ LateParts(r)' = LateParts(r)
      /\ \A l, n, m : Follows(r, l, n, m)' <=> Follows(r, l, n, m)
      /\ PartsOK(r)' <=> PartsOK(r)
      /\ Settled(r) => Settled(r)'
  BY <1>1, ReplyFields
<1> DEFINE b == execution[r].batch
<1>3. b \in Seq(Frame) /\ Len(b) \in Nat /\ execution[r].sent \in Nat
      /\ \A i \in 1 .. Len(b) : b[i].life = worker.life
  BY ExecutionIs
<1>4. /\ e.batch # <<>> /\ e.batch \in Seq(Frame) /\ Len(e.batch) = Len(b) + 1
      /\ e.batch[Len(b) + 1] = f
      /\ \A i \in 1 .. Len(b) : e.batch[i] = b[i]
  <2>1. e.batch = Append(b, f) /\ b \in Seq(Frame)
    BY <1>3
  <2> HIDE DEF b
  <2>2. PICK new : new = e.batch
    OBVIOUS
  <2>3. /\ new # <<>> /\ new \in Seq(Frame) /\ Len(new) = Len(b) + 1
        /\ new[Len(b) + 1] = f
        /\ \A i \in 1 .. Len(b) : new[i] = b[i]
    BY <2>1, <2>2
  <2> QED
    BY <2>2, <2>3
<1>5. \A i \in 1 .. Len(e.batch) : e.batch[i].life = worker.life
  BY <1>3, <1>4
<1> HIDE DEF b
<1>6. ASSUME kind[r] = "small", SmallOK(r) PROVE SmallOK(r)'
  <2>1. /\ Len(b) = execution[r].sent + 1
        /\ Begins(b, execution[r].sent + 1)
        /\ ~b[execution[r].sent + 1].done
    BY <1>6 DEF SmallOK, b
  <2>2. Begins(e.batch, execution[r].sent + 2)
    <3>1. ASSUME NEW i \in 1 .. execution[r].sent + 2
          PROVE  e.batch[i].seq = i - 1 /\ (i < execution[r].sent + 2 => ~e.batch[i].done)
      <4>1. CASE i = execution[r].sent + 2
        <5>1. /\ i = Len(b) + 1 /\ e.batch[i] = f
              /\ f.seq = i - 1
          BY <4>1, <2>1, <1>3, <1>4
        <5>2. ~(i < execution[r].sent + 2)
          BY <4>1, <1>3
        <5> QED
          BY <5>1, <5>2
      <4>2. CASE i # execution[r].sent + 2
        <5>1. i \in 1 .. Len(b) /\ i \in 1 .. execution[r].sent + 1 /\ e.batch[i] = b[i]
          BY <4>2, <2>1, <1>3, <1>4
        <5>2. b[i].seq = i - 1 /\ ~b[i].done
          <6>1. CASE i = execution[r].sent + 1
            BY <5>1, <6>1, <2>1 DEF Begins
          <6>2. CASE i # execution[r].sent + 1
            BY <5>1, <6>2, <2>1, <1>3 DEF Begins
          <6> QED
            BY <6>1, <6>2
        <5> QED
          BY <5>1, <5>2
      <4> QED
        BY <4>1, <4>2
    <3>2. \A i \in 1 .. execution[r].sent + 2 : i \in 1 .. Len(e.batch) /\ 1 \in 1 .. Len(e.batch)
      BY <2>1, <1>3, <1>4
    <3> QED
      BY <3>1, <3>2, <1>5 DEF Begins
  <2>3. \A u \in late' : u.request = r => Whole(u.batch)
    BY <1>2, <1>6 DEF SmallOK
  <2>4. CASE e.pc = "reading"
    <3>1. ~f.done /\ e.sent + 1 = execution[r].sent + 2
      BY <2>4, <1>3, <1>6
    <3>2. Len(e.batch) = e.sent + 1 /\ Begins(e.batch, e.sent + 1) /\ ~e.batch[e.sent + 1].done
      BY <2>1, <2>2, <3>1, <1>3, <1>4
    <3> QED
      BY <2>3, <2>4, <3>2, <1>2, <1>6, SmallNext DEF SmallOK
  <2>5. CASE e.pc = "posting"
    <3>1. Whole(e.batch)
      BY <2>1, <2>2, <2>5, <1>3, <1>4, <1>6 DEF Whole
    <3> QED
      BY <2>3, <2>5, <3>1, <1>2, <1>6, SmallNext DEF SmallOK
  <2> QED
    BY <2>4, <2>5
<1>7. ASSUME kind[r] = "event_stream", StreamsOK(r), LateOK(r) PROVE StreamsOK(r)' /\ LateOK(r)'
  <2>1. b = <<>> /\ Follows(r, worker.life, execution[r].sent, execution[r].sent)
    BY <1>7 DEF StreamsOK, b
  <2>2. Len(e.batch) = 1 /\ e.batch[1] = f
    BY <2>1, <1>4
  <2>3. Streams(r) /\ Streams(r)' /\ Settled(r)'
    BY <1>2, <1>3, <1>7, <2>2 DEF Streams, Posting, StreamsOK
  <2>4. LateParts(r) = {}
    BY <1>7 DEF LateOK
  <2>5. Follows(r, worker.life, f.seq - 1, f.seq)
    <3>1. f.seq - 1 = execution[r].sent /\ f.seq = execution[r].sent + 1
      BY <1>3
    <3>2. \A i \in Parts(r) : frames[r][i].seq \in Nat
      <4>1. frames[r] \in Seq(Frame)
        BY DEF ControlInv, TypeInv
      <4> QED
        BY <4>1, FramesTyped DEF Parts
    <3> QED
      BY <2>1, <3>1, <3>2, <1>3 DEF Follows
  <2>6. f.seq = e.sent + (IF f.done THEN 1 ELSE 0)
    BY <1>3
  <2>7. StreamsOK(r)'
    BY <1>2, <1>7, <2>2, <2>3, <2>4, <2>5, <2>6 DEF StreamsOK, Posting
  <2> QED
    BY <1>2, <1>7, <2>4, <2>7 DEF LateOK
<1>8. ReplyOf(r)'
  BY <1>1, <1>2, <1>6, <1>7 DEF ReplyOf
<1>9. Proper(e)
  BY <1>4, <1>5 DEF Proper
<1> QED
  BY <1>1, <1>8, <1>9, ExecutionGoesOn

LEMMA ReadBodyStep ==
    ASSUME ControlInv, NEW r \in Requests, ReadBody(r) PROVE ControlInv'
<1> DEFINE f == BodyFrame(execution[r].sent + 1)
           e == [execution[r] EXCEPT !.sent = @ + 1, !.batch = Append(@, f),
                    !.pc = IF kind[r] = "small" THEN "reading" ELSE "posting"]
<1>1. /\ execution[r] \in Execution /\ execution[r].pc = "reading"
      /\ execution[r].sent + 1 \in 0 .. Chunks + 1 /\ execution[r].sent + 1 \in 0 .. Chunks
      /\ execution[r].sent \in Nat /\ execution[r].batch \in Seq(Frame)
  BY ExecutionIs DEF ReadBody
<1>2. f \in Frame /\ f.life = worker.life /\ f.seq = execution[r].sent + 1 /\ f.done = FALSE
  BY <1>1, FramesAre
<1> HIDE DEF f
<1>3. Append(execution[r].batch, f) \in Seq(Frame)
  BY <1>1, <1>2
<1>4. /\ e \in Execution /\ e.batch = Append(execution[r].batch, f)
      /\ e.stopped = execution[r].stopped
      /\ e.sent = execution[r].sent + 1
      /\ e.pc = IF kind[r] = "small" THEN "reading" ELSE "posting"
  BY <1>1, <1>3 DEF Execution
<1>5. Going(r, e) /\ UNCHANGED <<ack, frames>>
  BY DEF ReadBody, f
<1> HIDE DEF e
<1> QED
  BY <1>1, <1>2, <1>4, <1>5, NextFrame

LEMMA ReadEndStep ==
    ASSUME ControlInv, NEW r \in Requests, ReadEnd(r) PROVE ControlInv'
<1> DEFINE f == DoneFrame(execution[r].sent + 1, execution[r].stopped)
           e == [execution[r] EXCEPT !.batch = Append(@, f), !.pc = "posting"]
<1>1. /\ execution[r] \in Execution /\ execution[r].pc = "reading"
      /\ execution[r].sent + 1 \in 0 .. Chunks + 1 /\ execution[r].stopped \in BOOLEAN
      /\ execution[r].sent \in Nat /\ execution[r].batch \in Seq(Frame)
  BY ExecutionIs DEF ReadEnd, Execution
<1>2. f \in Frame /\ f.life = worker.life /\ f.seq = execution[r].sent + 1 /\ f.done = TRUE
  BY <1>1, FramesAre
<1> HIDE DEF f
<1>3. Append(execution[r].batch, f) \in Seq(Frame)
  BY <1>1, <1>2
<1>4. /\ e \in Execution /\ e.batch = Append(execution[r].batch, f)
      /\ e.stopped = execution[r].stopped
      /\ e.sent = execution[r].sent /\ e.pc = "posting"
  BY <1>1, <1>3 DEF Execution
<1>5. Going(r, e) /\ UNCHANGED <<ack, frames>>
  BY DEF ReadEnd, f
<1> HIDE DEF e
<1> QED
  BY <1>1, <1>2, <1>4, <1>5, NextFrame

(* An upload is over, one way or the other.                                *)
LEMMA LastOfOne ==
    ASSUME ControlInv, NEW r \in Requests, Posting(r)
    PROVE  /\ Len(execution[r].batch) \in Nat /\ Len(execution[r].batch) >= 1
           /\ LastOf(execution[r].batch) = execution[r].batch[Len(execution[r].batch)]
           /\ LastOf(execution[r].batch) \in Frame
           /\ caller[r].pc # "idle" /\ \A i \in Commands(r) : i \in Nat /\ Past(i)
<1>1. execution[r].batch \in Seq(Frame) /\ execution[r].batch # <<>>
  BY ExecutionIs DEF Posting, ControlInv, TypeInv
<1>2. Len(execution[r].batch) \in Nat /\ Len(execution[r].batch) >= 1
  BY <1>1
<1>3. caller[r].pc # "idle" /\ \A i \in Commands(r) : i \in Nat /\ Past(i)
  BY ExecutionIs DEF Posting, ControlInv, PastInv, Commands
<1> QED
  BY <1>1, <1>2, <1>3 DEF LastOf

(* What is acknowledged of what is past is settled.                        *)
LEMMA AcknowledgedIsSettled ==
    ASSUME ControlInv, NEW r \in Requests, Onward, \A i \in Commands(r) : i \in Nat /\ Past(i),
           \A i \in Commands(r) : i <= ack'
    PROVE  Settled(r)'
BY DEF Onward, Settled

LEMMA UploadAcceptedStep ==
    ASSUME ControlInv, NEW r \in Requests, UploadAccepted(r) PROVE ControlInv'
<1> DEFINE b == execution[r].batch
           e == [execution[r] EXCEPT !.batch = <<>>,
                    !.pc = IF LastOf(b).done THEN "done" ELSE "reading"]
<1>1. execution[r].pc = "posted" /\ Posting(r) /\ AckUpload(r) /\ Going(r, e) /\ frames' = frames
  BY DEF UploadAccepted, Posting
<1>2. execution[r] \in Execution /\ ReplyOf(r) /\ ack \in Nat /\ execution[r].sent \in Nat
  BY ExecutionIs
<1>3. /\ Len(b) \in Nat /\ Len(b) >= 1 /\ LastOf(b) = b[Len(b)] /\ LastOf(b) \in Frame
      /\ caller[r].pc # "idle" /\ \A i \in Commands(r) : i \in Nat /\ Past(i)
  BY <1>1, LastOfOne
<1>4. /\ ack' \in Nat /\ ack <= ack' /\ ack' <= Len(stream)
      /\ AcksIn(r, b) => \A i \in Commands(r) : i <= ack'
  BY <1>1, <1>3, AcknowledgedUpload DEF AckUpload
<1>5. <<>> \in Seq(Frame) /\ Len(<<>>) = 0
  OBVIOUS
<1>6. /\ e \in Execution /\ e.batch = <<>> /\ e.sent = execution[r].sent
      /\ e.stopped = execution[r].stopped
      /\ e.pc = IF LastOf(b).done THEN "done" ELSE "reading"
  BY <1>2, <1>5 DEF Execution
<1> HIDE DEF e, b
<1>7. /\ execution'[r] = e /\ kind' = kind /\ late' = late /\ worker' = worker
      /\ Parts(r)' = Parts(r) /\ LateParts(r)' = LateParts(r)
      /\ \A l, n, m : Follows(r, l, n, m)' <=> Follows(r, l, n, m)
      /\ PartsOK(r)' <=> PartsOK(r)
      /\ Settled(r) => Settled(r)'
  BY <1>1, <1>4, ReplyFields
<1>8. e.pc = "done" => \A i \in Commands(r) : i <= ack'
  BY <1>3, <1>4, <1>6 DEF AcksIn, Acknowledges
<1>9. ASSUME kind[r] = "small", SmallOK(r) PROVE SmallOK(r)'
  <2>1. LastOf(b).done
    BY <1>1, <1>3, <1>9 DEF SmallOK, Whole, b
  <2>2. e.pc = "done"
    BY <2>1, <1>6
  <2> QED
    BY <2>2, <1>1, <1>7, <1>9, SmallNext DEF SmallOK
<1>10. ASSUME kind[r] = "event_stream", PartsOK(r), StreamsOK(r), LateOK(r)
       PROVE  StreamsOK(r)' /\ LateOK(r)'
  <2> DEFINE f == b[1]
  <2>1. /\ Len(b) = 1
        /\ \/ f.seq = 0 /\ execution[r].sent = 0
           \/ f.seq = execution[r].sent + (IF f.done THEN 1 ELSE 0)
        /\ f.seq > 0 => /\ Follows(r, worker.life, f.seq - 1, f.seq)
                        /\ \E i \in Parts(r) : frames[r][i].seq = f.seq
    BY <1>1, <1>10 DEF StreamsOK, b
  <2>2. LastOf(b) = f /\ f \in Frame /\ f.seq \in Nat
    BY <2>1, <1>3, BoundAssumption DEF Frame
  <2> HIDE DEF f
  <2>3. LateParts(r) = {}
    BY <1>1, <1>10 DEF LateOK
  <2>4. f.done \/ f.seq = 0 => Settled(r)'
    <3>1. ASSUME f.done \/ f.seq = 0 PROVE AcksIn(r, b)
      BY <3>1, <2>1, <1>10 DEF AcksIn, Acknowledges, f
    <3>2. Onward
      BY <1>4, <1>7, <1>1, MovedOnly DEF Going
    <3> QED
      BY <3>1, <3>2, <1>3, <1>4, AcknowledgedIsSettled
  <2>5. f.seq > 0 => Settled(r)'
    BY <1>1, <1>7, <1>10, <2>2 DEF StreamsOK, Streams, f, b
  <2>6. Settled(r)'
    BY <2>2, <2>4, <2>5
  <2>7. ~f.done => Follows(r, worker.life, e.sent, e.sent)
    <3>1. CASE f.seq = 0
      <4>1. ~Streams(r)
        BY <3>1, <1>1 DEF Streams, f, b
      <4>2. Parts(r) = {}
        BY <4>1, <1>1, <1>10 DEF StreamsOK
      <4>3. ~f.done => e.sent = 0
        BY <2>1, <3>1, <1>2, <1>6 DEF f
      <4> QED
        BY <4>2, <4>3 DEF Follows
    <3>2. CASE f.seq > 0
      <4>1. ~f.done => e.sent = f.seq
        BY <3>2, <2>1, <1>2, <1>6 DEF f
      <4>2. Follows(r, worker.life, f.seq - 1, f.seq)
            /\ \E i \in Parts(r) : frames[r][i].seq = f.seq
        BY <2>1, <3>2 DEF f
      <4>3. \A m \in 1 .. f.seq : m = f.seq \/ m \in 1 .. f.seq - 1
        BY <2>2
      <4>4. Follows(r, worker.life, f.seq, f.seq)
        BY <4>2, <4>3 DEF Follows
      <4> QED
        BY <4>1, <4>4
    <3> QED
      BY <2>2, <3>1, <3>2
  <2>8. e.pc = "reading" => ~f.done
    BY <2>2, <1>6
  <2>9. StreamsOK(r)'
    BY <1>6, <1>7, <2>6, <2>7, <2>8 DEF StreamsOK, Streams, Posting
  <2> QED
    BY <1>7, <1>10, <2>3, <2>9 DEF LateOK
<1>11. ReplyOf(r)'
  BY <1>2, <1>7, <1>9, <1>10 DEF ReplyOf
<1>12. Proper(e)
  BY <1>6, <1>5 DEF Proper
<1>13. execution[r].pc \notin {"none", "done", "dropped"} /\ e.pc \in {"done", "reading"}
  BY <1>1, <1>6
<1> QED
  BY <1>1, <1>4, <1>6, <1>8, <1>11, <1>12, <1>13, ExecutionGoesOn

LEMMA UploadUnansweredStep ==
    ASSUME ControlInv, NEW r \in Requests, UploadUnanswered(r) PROVE ControlInv'
<1> DEFINE e == [execution[r] EXCEPT !.pc = "posting"]
<1>1. execution[r].pc = "posted" /\ Posting(r) /\ (AckUpload(r) \/ UNCHANGED ack)
      /\ Going(r, e) /\ frames' = frames
  BY DEF UploadUnanswered, Posting
<1>2. /\ execution[r] \in Execution /\ ReplyOf(r) /\ ack \in Nat /\ ack <= Len(stream)
      /\ execution[r].batch # <<>> /\ caller[r].pc # "idle"
      /\ \A i \in 1 .. Len(execution[r].batch) : execution[r].batch[i].life = worker.life
  BY <1>1, ExecutionIs DEF ControlInv, TypeInv
<1>3. ack' \in Nat /\ ack <= ack' /\ ack' <= Len(stream)
  BY <1>1, <1>2, AcknowledgedUpload DEF AckUpload
<1>4. /\ e \in Execution /\ e.batch = execution[r].batch /\ e.sent = execution[r].sent
      /\ e.stopped = execution[r].stopped /\ e.pc = "posting"
  BY <1>2 DEF Execution
<1> HIDE DEF e
<1>5. /\ execution'[r] = e /\ kind' = kind /\ late' = late /\ worker' = worker
      /\ Parts(r)' = Parts(r) /\ LateParts(r)' = LateParts(r)
      /\ \A l, n, m : Follows(r, l, n, m)' <=> Follows(r, l, n, m)
      /\ PartsOK(r)' <=> PartsOK(r)
      /\ Settled(r) => Settled(r)'
  BY <1>1, <1>2, <1>3, ReplyFields
<1>6. SmallOK(r) => SmallOK(r)'
  BY <1>1, <1>4, <1>5, SmallNext DEF SmallOK
<1>7. StreamsOK(r) => StreamsOK(r)'
  BY <1>1, <1>4, <1>5 DEF StreamsOK, Streams, Posting
<1>8. LateOK(r) => LateOK(r)'
  BY <1>1, <1>4, <1>5 DEF LateOK
<1>9. ReplyOf(r)'
  BY <1>2, <1>5, <1>6, <1>7, <1>8 DEF ReplyOf
<1>10. Proper(e)
  BY <1>2, <1>4 DEF Proper
<1> QED
  BY <1>1, <1>3, <1>4, <1>9, <1>10, ExecutionGoesOn

LEMMA UploadStoppedStep ==
    ASSUME ControlInv, NEW r \in Requests, UploadStopped(r) PROVE ControlInv'
<1> DEFINE e == [execution[r] EXCEPT !.pc = "dropped", !.batch = <<>>]
<1>1. execution[r].pc = "posting" /\ Going(r, e) /\ UNCHANGED <<ack, frames>>
  BY DEF UploadStopped
<1>2. execution[r] \in Execution /\ ReplyOf(r) /\ ack \in Nat /\ ack <= Len(stream)
  BY ExecutionIs
<1>3. <<>> \in Seq(Frame) /\ Len(<<>>) = 0
  OBVIOUS
<1>4. e \in Execution /\ e.batch = <<>> /\ e.pc = "dropped"
  BY <1>2, <1>3 DEF Execution
<1> HIDE DEF e
<1>5. /\ execution'[r] = e /\ kind' = kind /\ late' = late /\ worker' = worker
      /\ Parts(r)' = Parts(r) /\ LateParts(r)' = LateParts(r)
      /\ \A l, n, m : Follows(r, l, n, m)' <=> Follows(r, l, n, m)
      /\ PartsOK(r)' <=> PartsOK(r)
      /\ Settled(r) => Settled(r)'
  BY <1>1, <1>2, ReplyFields
<1>6. SmallOK(r) => SmallOK(r)'
  BY <1>1, <1>4, <1>5, SmallNext DEF SmallOK
<1>7. StreamsOK(r) => StreamsOK(r)'
  BY <1>1, <1>4, <1>5 DEF StreamsOK, Streams, Posting
<1>8. LateOK(r) => LateOK(r)'
  BY <1>1, <1>4, <1>5 DEF LateOK
<1>9. ReplyOf(r)'
  BY <1>2, <1>5, <1>6, <1>7, <1>8 DEF ReplyOf
<1>10. Proper(e)
  BY <1>3, <1>4 DEF Proper
<1> QED
  BY <1>1, <1>2, <1>4, <1>9, <1>10, ExecutionGoesOn

----------------------------------------------------------------------------
(* Frames are appended to the response of a request.                       *)
Grows(r, batch) ==
    /\ frames' \in [Requests -> Seq(Frame)]
    /\ \A q \in Requests : q # r => frames'[q] = frames[q]
    /\ frames'[r] = AppendFrames(frames[r], batch)
    /\ Len(frames[r]) \in Nat /\ Len(frames'[r]) \in Nat
    /\ Len(frames[r]) <= Len(frames'[r])
    /\ \A i \in 1 .. Len(frames[r]) : frames'[r][i] = frames[r][i]
    /\ \A i \in Len(frames[r]) + 1 .. Len(frames'[r]) :
          \E j \in 1 .. Len(batch) : frames'[r][i] = batch[j]
    /\ frames[r] # <<>> => frames'[r] # <<>> /\ frames'[r][1] = frames[r][1]

LEMMA Grown ==
    ASSUME ControlInv, NEW r \in Requests, NEW batch \in Seq(Frame),
           frames' = [frames EXCEPT ![r] = AppendFrames(@, batch)]
    PROVE  Grows(r, batch)
<1>1. frames \in [Requests -> Seq(Frame)] /\ frames[r] \in Seq(Frame)
  BY DEF ControlInv, TypeInv
<1> DEFINE fs == AppendFrames(frames[r], batch)
<1>2. /\ fs \in Seq(Frame)
      /\ Len(frames[r]) <= Len(fs)
      /\ \A i \in 1 .. Len(frames[r]) : fs[i] = frames[r][i]
      /\ \A i \in Len(frames[r]) + 1 .. Len(fs) :
            \E j \in 1 .. Len(batch) : fs[i] = batch[j]
  BY <1>1, Appended
<1> HIDE DEF fs
<1>3. frames' \in [Requests -> Seq(Frame)] /\ frames'[r] = fs
      /\ \A q \in Requests : q # r => frames'[q] = frames[q]
  BY <1>1, <1>2 DEF fs
<1>4. Len(frames[r]) \in Nat /\ Len(fs) \in Nat
  BY <1>1, <1>2
<1>5. frames[r] # <<>> => fs # <<>> /\ fs[1] = frames[r][1]
  BY <1>1, <1>2, <1>4
<1>6. frames'[r] = AppendFrames(frames[r], batch)
  BY <1>3 DEF fs
<1> QED
  BY <1>2, <1>3, <1>4, <1>5, <1>6 DEF Grows

(* A response that begins with a whole one still does; the first upload of *)
(* a whole one is one.                                                     *)
LEMMA SmallGrows ==
    ASSUME ControlInv, NEW r \in Requests, NEW batch \in Seq(Frame), batch # <<>>, Whole(batch),
           Grows(r, batch), SmallOK(r)
    PROVE  frames'[r] # <<>> =>
              \E n \in 1 .. Len(frames'[r]) : frames'[r][n].done /\ Begins(frames'[r], n)
<1>1. CASE frames[r] = <<>>
  <2>1. frames'[r] = batch
    BY <1>1, AppendedWhole DEF Grows
  <2>2. Len(batch) \in Nat /\ Len(batch) >= 1
    OBVIOUS
  <2> QED
    BY <2>1, <2>2 DEF Whole
<1>2. CASE frames[r] # <<>>
  <2>1. PICK n \in 1 .. Len(frames[r]) : frames[r][n].done /\ Begins(frames[r], n)
    BY <1>2 DEF SmallOK
  <2>2. /\ n \in 1 .. Len(frames'[r]) /\ n \in Nat
        /\ \A i \in 1 .. n : frames'[r][i] = frames[r][i]
    BY DEF Grows
  <2>3. n \in 1 .. n /\ 1 \in 1 .. n
    BY DEF Grows
  <2>4. frames'[r][n].done /\ frames'[r][1] = frames[r][1]
    BY <2>1, <2>2, <2>3
  <2>5. \A i \in 1 .. n : /\ frames'[r][i].seq = i - 1 /\ frames'[r][i].life = frames'[r][1].life
                          /\ i < n => ~frames'[r][i].done
    BY <2>1, <2>2, <2>4 DEF Begins
  <2>6. Begins(frames'[r], n)
    BY <2>5 DEF Begins
  <2> QED
    BY <2>2, <2>4, <2>6
<1> QED
  BY <1>1, <1>2

(* A part of an event stream goes behind the parts it follows, and a frame *)
(* that is no part leaves the parts as they are.                           *)
LEMMA PartsGrow ==
    ASSUME ControlInv, NEW r \in Requests, NEW batch \in Seq(Frame), Len(batch) = 1,
           Grows(r, batch), PartsOK(r),
           batch[1].seq > 0 => Follows(r, batch[1].life, batch[1].seq - 1, batch[1].seq)
    PROVE  /\ PartsOK(r)'
           /\ batch[1].seq > 0 =>
                 /\ Follows(r, batch[1].life, batch[1].seq - 1, batch[1].seq)'
                 /\ \E i \in Parts(r)' : frames'[r][i].seq = batch[1].seq
           /\ batch[1].seq = 0 =>
                 /\ Parts(r)' = Parts(r)
                 /\ \A l, n, m : Follows(r, l, n, m)' <=> Follows(r, l, n, m)
<1> DEFINE f == batch[1]
           old == frames[r]
<1>1. old \in Seq(Frame) /\ frames'[r] = AppendFrames(old, batch) /\ f \in Frame
  <2>1. f \in Frame
    <3>1. 1 \in 1 .. Len(batch)
      OBVIOUS
    <3> QED
      BY <3>1, FramesTyped
  <2>2. old \in Seq(Frame)
    BY DEF ControlInv, TypeInv
  <2> QED
    BY <2>1, <2>2 DEF Grows
<1>2. batch = <<f>>
  OBVIOUS
<1>3. frames'[r] = AppendFrame(old, f)
  BY <1>1, <1>2, AppendedOne
<1>4. f.seq \in Nat /\ f.life \in Nat
  BY <1>1, BoundAssumption DEF Frame, Lives
<1>5. Len(old) \in Nat /\ \A i \in 1 .. Len(old) : old[i].seq \in Nat /\ old[i].life \in Nat
  BY <1>1, FramesTyped
<1>6. Parts(r) = {i \in 1 .. Len(old) : old[i].seq > 0}
  BY DEF Parts
<1>7. CASE <<f.life, f.seq>> \in Ids(old)
  <2>1. frames'[r] = old
    BY <1>3, <1>7 DEF AppendFrame
  <2>2. Parts(r)' = Parts(r)
    BY <2>1 DEF Parts
  <2>3. \A l, n, m : Follows(r, l, n, m)' <=> Follows(r, l, n, m)
    BY <2>1, <2>2 DEF Follows
  <2>4. PartsOK(r)'
    BY <2>1, <2>2 DEF PartsOK
  <2>5. PICK i \in 1 .. Len(old) : old[i].life = f.life /\ old[i].seq = f.seq
    BY <1>7 DEF Ids
  <2>6. f.seq > 0 => i \in Parts(r) /\ frames'[r][i].seq = f.seq
    BY <1>6, <2>1, <2>5
  <2> QED
    BY <2>2, <2>3, <2>4, <2>6
<1>8. CASE <<f.life, f.seq>> \notin Ids(old)
  <2>1. frames'[r] = Append(old, f)
    BY <1>3, <1>8 DEF AppendFrame
  <2> DEFINE l == Len(old) + 1
  <2>2. /\ Len(frames'[r]) = l /\ frames'[r][l] = f
        /\ \A i \in 1 .. Len(old) : frames'[r][i] = old[i]
    BY <1>1, <2>1
  <2>3. Parts(r)' = Parts(r) \cup (IF f.seq > 0 THEN {l} ELSE {})
    <3>1. Parts(r)' = {i \in 1 .. l : frames'[r][i].seq > 0}
      BY <2>2 DEF Parts
    <3> QED
      BY <3>1, <1>5, <1>6, <2>2
  <2>4. l \in Nat /\ \A i \in Parts(r) : i \in 1 .. Len(old) /\ i < l /\ frames'[r][i] = old[i]
    BY <1>5, <1>6, <2>2
  <2>5. \A i \in 1 .. Len(old) : old[i].life # f.life \/ old[i].seq # f.seq
    BY <1>8 DEF Ids
  <2> HIDE DEF l
  <2>6. CASE f.seq = 0
    <3>1. Parts(r)' = Parts(r)
      BY <2>3, <2>6
    <3>2. \A k, n, m : Follows(r, k, n, m)' <=> Follows(r, k, n, m)
      BY <3>1, <2>4 DEF Follows
    <3>3. PartsOK(r)'
      BY <3>1, <2>4 DEF PartsOK
    <3> QED
      BY <2>6, <3>1, <3>2, <3>3
  <2>7. CASE f.seq > 0
    <3>1. Parts(r)' = Parts(r) \cup {l}
      BY <2>3, <2>7
    <3>2. /\ \A i \in Parts(r) : old[i].life = f.life /\ old[i].seq <= f.seq
          /\ \A m \in 1 .. f.seq - 1 : \E i \in Parts(r) : old[i].seq = m
      BY <2>7 DEF Follows
    <3>3. \A i \in Parts(r) : old[i].seq < f.seq
      BY <1>4, <1>5, <2>4, <2>5, <3>2
    <3>4. \A i, j \in Parts(r)' :
             /\ frames'[r][i].life = frames'[r][j].life
             /\ i < j => frames'[r][i].seq < frames'[r][j].seq
      <4>1. ASSUME NEW i \in Parts(r), NEW j \in Parts(r)
            PROVE  /\ frames'[r][i].life = frames'[r][j].life
                   /\ i < j => frames'[r][i].seq < frames'[r][j].seq
        BY <2>4 DEF PartsOK
      <4>2. ASSUME NEW i \in Parts(r)
            PROVE  /\ frames'[r][i].life = frames'[r][l].life
                   /\ frames'[r][i].seq < frames'[r][l].seq
                   /\ ~(l < i)
        BY <2>2, <2>4, <3>2, <3>3
      <4>3. ~(l < l)
        BY <2>4
      <4> QED
        BY <3>1, <4>1, <4>2, <4>3
    <3>5. \A i \in Parts(r)' : frames'[r][i].seq > 1 =>
             \E j \in Parts(r)' : j < i /\ frames'[r][j].seq = frames'[r][i].seq - 1
      <4>1. ASSUME NEW i \in Parts(r), frames'[r][i].seq > 1
            PROVE  \E j \in Parts(r)' : j < i /\ frames'[r][j].seq = frames'[r][i].seq - 1
        BY <2>4, <3>1, <4>1 DEF PartsOK
      <4>2. ASSUME f.seq > 1
            PROVE  \E j \in Parts(r)' : j < l /\ frames'[r][j].seq = f.seq - 1
        <5>1. f.seq - 1 \in 1 .. f.seq - 1
          BY <1>4, <4>2
        <5>2. PICK j \in Parts(r) : old[j].seq = f.seq - 1
          BY <3>2, <5>1
        <5> QED
          BY <5>2, <2>4, <3>1
      <4> QED
        BY <2>2, <3>1, <4>1, <4>2
    <3>6. PartsOK(r)'
      BY <3>4, <3>5 DEF PartsOK
    <3>7. Follows(r, f.life, f.seq - 1, f.seq)'
      <4>1. \A i \in Parts(r)' : frames'[r][i].life = f.life /\ frames'[r][i].seq <= f.seq
        BY <1>4, <2>2, <2>4, <3>1, <3>2
      <4>2. \A m \in 1 .. f.seq - 1 : \E i \in Parts(r)' : frames'[r][i].seq = m
        BY <2>4, <3>1, <3>2
      <4> QED
        BY <4>1, <4>2 DEF Follows
    <3>8. l \in Parts(r)' /\ frames'[r][l].seq = f.seq
      BY <2>2, <3>1
    <3> QED
      BY <2>7, <3>6, <3>7, <3>8
  <2> QED
    BY <1>4, <2>6, <2>7
<1> QED
  BY <1>7, <1>8

(* Frames are added to the response of r, of this life or an earlier one;  *)
(* nothing else changes but r's own execution and the worker's place.      *)
LEMMA ResponseGrows ==
    ASSUME ControlInv, NEW r \in Requests, NEW batch \in Seq(Frame), batch # <<>>,
           frames' = [frames EXCEPT ![r] = AppendFrames(@, batch)],
           \A i \in 1 .. Len(batch) : batch[i].life <= worker.life,
           UNCHANGED <<direct, kind, stream, caller, expired>>, late' \subseteq late,
           ack' \in Nat, ack <= ack', ack' <= Len(stream),
           worker' \in Worker, worker'.life = worker.life, worker'.cancelled = worker.cancelled,
           worker'.cursor <= Len(stream), BatchInv', \A i \in Nat : Past(i) => Past(i)',
           caller[r].pc # "idle",
           NEW pc, execution' = [execution EXCEPT ![r].pc = pc],
           pc \in {"posted", "done", execution[r].pc},
           pc = "posted" => execution[r].pc \in {"posting", "posted"},
           pc = "done" => \/ execution[r].pc = "done"
                          \/ /\ execution[r].pc = "none"
                             /\ \A i \in Commands(r) : i <= ack' /\ Past(i)',
           pc \notin {"posted", "done"} =>
              \A i \in 1 .. Len(batch) : batch[i].life < worker.life,
           ReplyOf(r)'
    PROVE  ControlInv'
<1>1. Grows(r, batch)
  BY Grown
<1>2. /\ execution' \in [Requests -> Execution] /\ execution'[r].pc = pc
      /\ execution'[r].sent = execution[r].sent /\ execution'[r].batch = execution[r].batch
      /\ execution'[r].stopped = execution[r].stopped
      /\ \A q \in Requests : q # r => execution'[q] = execution[q]
  BY DEF ControlInv, TypeInv, Execution
<1>3. TypeInv'
  <2>1. (\A q \in Requests :
          /\ execution[q].pc \in {"posting", "posted"} => execution[q].batch # <<>>
          /\ execution[q].pc \notin {"reading", "posting", "posted"}
             => execution[q].batch = <<>>
          /\ execution[q].pc \in {"none", "spawned", "calling"} => execution[q].sent = 0)'
    BY <1>2 DEF ControlInv, TypeInv
  <2>2. ack' \in 0 .. Len(stream')
    BY DEF ControlInv, TypeInv
  <2>3. \A q \in Requests : caller'[q].read <= Len(frames'[q])
    BY <1>1 DEF ControlInv, TypeInv, Caller, Grows
  <2> QED
    BY <1>1, <1>2, <2>1, <2>2, <2>3 DEF ControlInv, TypeInv, Grows
<1>4. LifeInv'
  <2>1. ASSUME NEW q \in Requests, NEW i \in 1 .. Len(frames'[q])
        PROVE  /\ frames'[q][i].life <= worker.life
               /\ frames'[q][i].life = worker.life
                  => execution'[q].pc \notin {"none", "spawned", "calling"}
    <3>1. CASE q # r
      BY <3>1, <1>1, <1>2, <2>1 DEF ControlInv, LifeInv, Grows
    <3>2. CASE q = r /\ i \in 1 .. Len(frames[r])
      BY <3>2, <1>1, <1>2 DEF ControlInv, LifeInv, Grows
    <3>3. CASE q = r /\ i \notin 1 .. Len(frames[r])
      <4>1. i \in Len(frames[r]) + 1 .. Len(frames'[r])
        BY <3>3, <1>1, <2>1 DEF Grows
      <4>2. PICK j \in 1 .. Len(batch) : frames'[r][i] = batch[j]
        BY <4>1, <1>1 DEF Grows
      <4>3. batch[j].life <= worker.life
        OBVIOUS
      <4>4. batch[j].life = worker.life => pc \in {"posted", "done"}
        <5>1. worker.life \in Nat
          BY BoundAssumption DEF ControlInv, TypeInv, Worker, Lives
        <5> QED
          BY <5>1
      <4> QED
        BY <3>3, <4>2, <4>3, <4>4, <1>2
    <3> QED
      BY <3>1, <3>2, <3>3
  <2>2. \A q \in Requests : \A i \in 1 .. Len(execution'[q].batch) :
           execution'[q].batch[i].life = worker.life
    BY <1>2 DEF ControlInv, LifeInv
  <2> QED
    BY <2>1, <2>2 DEF ControlInv, LifeInv
<1>5. Onward
  BY Moved
<1>6. StreamInv'
  <2>1. ASSUME NEW q \in Requests
        PROVE  (/\ \A i, j \in Commands(q) : i = j
                /\ caller[q].pc # "idle" <=> Commands(q) # {}
                /\ caller[q].pc = "idle" => execution[q].pc = "none" /\ frames[q] = <<>>
                /\ caller[q].pc = "reading" => frames[q] # <<>>)'
    BY <1>1, <1>2, <1>5 DEF ControlInv, StreamInv, Grows, Onward
  <2>2. \A i \in 1 .. Len(stream') : stream'[i].cancel => frames'[stream'[i].request] # <<>>
    <3>1. \A i \in 1 .. Len(stream) : stream[i].request \in Requests
      <4>1. stream \in Seq(Command) /\ \A c \in Command : c.request \in Requests
        BY DEF ControlInv, TypeInv, Command
      <4> QED
        BY <4>1
    <3> QED
      BY <3>1, <1>1 DEF ControlInv, StreamInv, Grows
  <2> QED
    BY <2>1, <2>2 DEF ControlInv, StreamInv
<1>7. PastInv'
  <2>1. ASSUME NEW q \in Requests, execution'[q].pc # "none"
        PROVE  \A i \in Commands(q) : Past(i)'
    <3>1. CASE execution[q].pc # "none"
      <4>1. \A i \in Commands(q) : i \in Nat /\ Past(i)
        BY <3>1 DEF ControlInv, PastInv, Commands
      <4> QED
        BY <4>1
    <3>2. CASE execution[q].pc = "none"
      <4>1. q = r /\ pc = "done"
        BY <3>2, <2>1, <1>2
      <4> QED
        BY <3>2, <4>1
    <3> QED
      BY <3>1, <3>2
  <2>2. ASSUME NEW q \in Requests, execution'[q].pc = "done" PROVE Settled(q)'
    <3>1. CASE execution[q].pc = "done"
      BY <3>1, <1>5 DEF ControlInv, PastInv, Onward
    <3>2. CASE execution[q].pc # "done"
      <4>1. q = r /\ pc = "done"
        BY <3>2, <2>2, <1>2
      <4> QED
        BY <3>2, <4>1, <1>5 DEF Settled, Onward
    <3> QED
      BY <3>1, <3>2
  <2> QED
    BY <2>1, <2>2, <1>5 DEF PastInv, Onward
<1>8. CancelInv'
  <2>1. ASSUME NEW q \in worker.cancelled
        PROVE  /\ frames'[q] # <<>>
               /\ frames'[q][1].life = worker.life => execution'[q].stopped \/ ~Alive(q)'
    <3>1. q \in Requests /\ frames[q] # <<>>
          /\ (frames[q][1].life = worker.life => execution[q].stopped \/ ~Alive(q))
      BY DEF ControlInv, CancelInv, TypeInv, Worker
    <3>2. frames'[q] # <<>> /\ frames'[q][1] = frames[q][1]
      BY <3>1, <1>1 DEF Grows
    <3>3. execution'[q].stopped = execution[q].stopped /\ (~Alive(q) => ~Alive(q)')
      BY <3>1, <1>2 DEF Alive
    <3> QED
      BY <3>1, <3>2, <3>3
  <2> QED
    BY <2>1 DEF CancelInv
<1>9. ReplyInv'
  <2>1. \A q \in Requests : q # r => Same(q)
    BY <1>1, <1>2 DEF Same, Grows
  <2> QED
    BY <2>1, <1>5, OtherRepliesKept DEF Onward
<1> QED
  BY <1>3, <1>4, <1>6, <1>7, <1>8, <1>9 DEF ControlInv

LEMMA UploadStep ==
    ASSUME ControlInv, NEW r \in Requests, Upload(r) PROVE ControlInv'
<1>0. PICK b : b = execution[r].batch
  OBVIOUS
<1>1. /\ execution[r].pc = "posting" /\ frames' = [frames EXCEPT ![r] = AppendFrames(@, b)]
      /\ execution' = [execution EXCEPT ![r] = [execution[r] EXCEPT !.pc = "posted"]]
      /\ UNCHANGED <<direct, kind, stream, caller, expired, worker, late, ack>>
  BY <1>0 DEF Upload, Going
<1>2. /\ execution[r] \in Execution /\ ReplyOf(r) /\ ack \in Nat /\ ack <= Len(stream)
      /\ b \in Seq(Frame) /\ caller[r].pc # "idle" /\ execution[r].sent \in Nat
      /\ \A i \in 1 .. Len(b) : b[i].life = worker.life
  BY <1>0, <1>1, ExecutionIs
<1>3. b # <<>>
  BY <1>0, <1>1 DEF ControlInv, TypeInv
<1>4. /\ execution' = [execution EXCEPT ![r].pc = "posted"]
      /\ execution'[r].pc = "posted" /\ execution'[r].sent = execution[r].sent
      /\ execution'[r].batch = b
  BY <1>0, <1>1, <1>2 DEF ControlInv, TypeInv, Execution
<1>5. Grows(r, b)
  BY <1>1, <1>2, Grown
<1>6. ASSUME kind[r] = "small", SmallOK(r) PROVE SmallOK(r)'
  <2>1. Whole(b)
    BY <1>0, <1>1, <1>6 DEF SmallOK
  <2>2. frames'[r] # <<>> =>
           \E n \in 1 .. Len(frames'[r]) : frames'[r][n].done /\ Begins(frames'[r], n)
    BY <1>2, <1>3, <1>5, <1>6, <2>1, SmallGrows
  <2> QED
    BY <1>1, <1>4, <1>6, <2>1, <2>2, SmallNext DEF SmallOK
<1>7. ASSUME kind[r] = "event_stream", PartsOK(r), StreamsOK(r), LateOK(r)
      PROVE  PartsOK(r)' /\ StreamsOK(r)' /\ LateOK(r)'
  <2>1. /\ Len(b) = 1
        /\ \/ b[1].seq = 0 /\ execution[r].sent = 0
           \/ b[1].seq = execution[r].sent + (IF b[1].done THEN 1 ELSE 0)
        /\ b[1].seq > 0 => Follows(r, worker.life, b[1].seq - 1, b[1].seq)
    BY <1>0, <1>1, <1>7 DEF StreamsOK, Posting
  <2>2. b[1].life = worker.life /\ b[1].seq \in Nat
    <3>1. 1 \in 1 .. Len(b)
      BY <2>1
    <3> QED
      BY <3>1, <1>2, FramesTyped
  <2>3. /\ PartsOK(r)'
        /\ b[1].seq > 0 =>
              /\ Follows(r, b[1].life, b[1].seq - 1, b[1].seq)'
              /\ \E i \in Parts(r)' : frames'[r][i].seq = b[1].seq
        /\ b[1].seq = 0 =>
              /\ Parts(r)' = Parts(r)
              /\ \A l, n, m : Follows(r, l, n, m)' <=> Follows(r, l, n, m)
    <3>1. b[1].seq > 0 => Follows(r, b[1].life, b[1].seq - 1, b[1].seq)
      BY <2>1, <2>2
    <3> QED
      BY <1>2, <1>5, <1>7, <2>1, <3>1, PartsGrow
  <2>4. LateParts(r) = {} /\ LateParts(r)' = {}
    BY <1>1, <1>7 DEF LateOK, LateParts
  <2>5. Settled(r) => Settled(r)'
    BY <1>1, <1>2, MovedOnly DEF Onward
  <2>6. /\ Streams(r)' <=> b[1].seq > 0
        /\ Streams(r) <=> b[1].seq > 0
    BY <1>0, <1>1, <1>4 DEF Streams, Posting
  <2>7. (Streams(r) \/ Parts(r) # {} \/ LateParts(r) # {} => Settled(r))'
    <3>1. b[1].seq > 0 => Settled(r)
      BY <1>7, <2>6 DEF StreamsOK
    <3>2. b[1].seq = 0 => (Parts(r) # {} => Settled(r))
      BY <1>7 DEF StreamsOK
    <3> QED
      BY <2>2, <2>3, <2>4, <2>5, <2>6, <3>1, <3>2
  <2>8. ~Streams(r)' => LateParts(r)' = {} /\ Parts(r)' = {}
    <3>1. ~Streams(r) => Parts(r) = {}
      BY <1>1, <1>7 DEF StreamsOK
    <3> QED
      BY <2>2, <2>3, <2>4, <2>6, <3>1
  <2>9. StreamsOK(r)'
    <3>1. (Posting(r) =>
             LET f == execution[r].batch[1]
             IN  /\ Len(execution[r].batch) = 1
                 /\ \/ f.seq = 0 /\ execution[r].sent = 0
                    \/ f.seq = execution[r].sent + (IF f.done THEN 1 ELSE 0)
                 /\ f.seq > 0 =>
                       /\ Follows(r, worker.life, f.seq - 1, f.seq)
                       /\ execution[r].pc = "posted" =>
                             \E i \in Parts(r) : frames[r][i].seq = f.seq)'
      <4>1. b[1].seq > 0 => Follows(r, worker.life, b[1].seq - 1, b[1].seq)'
        BY <1>1, <2>2, <2>3
      <4> QED
        BY <1>1, <1>4, <2>1, <2>3, <4>1
    <3> QED
      BY <1>1, <1>4, <2>7, <2>8, <3>1 DEF StreamsOK
  <2>10. LateOK(r)'
    BY <1>1, <1>7, <2>4 DEF LateOK
  <2> QED
    BY <2>3, <2>9, <2>10
<1>8. ReplyOf(r)'
  BY <1>1, <1>2, <1>6, <1>7 DEF ReplyOf
<1>9. \A i \in 1 .. Len(b) : b[i].life <= worker.life
  BY <1>2, BoundAssumption DEF ControlInv, TypeInv, Worker, Lives
<1>10. \A i \in Nat : Past(i) => Past(i)'
  BY <1>1 DEF Past
<1>11. BatchInv'
  BY <1>1 DEF ControlInv, BatchInv
<1>12. worker \in Worker /\ worker.cursor <= Len(stream)
  BY DEF ControlInv, TypeInv
<1>13. /\ ack' \in Nat /\ ack <= ack' /\ ack' <= Len(stream) /\ late' \subseteq late
       /\ worker' \in Worker /\ worker'.life = worker.life
       /\ worker'.cancelled = worker.cancelled /\ worker'.cursor <= Len(stream)
  BY <1>1, <1>2, <1>12
<1>14. \A pc : pc = "posted" =>
          /\ pc \in {"posted", "done", execution[r].pc} /\ pc # "done"
          /\ execution' = [execution EXCEPT ![r].pc = pc]
          /\ execution[r].pc \in {"posting", "posted"}
  BY <1>1, <1>4
<1> HIDE DEF Grows
<1> QED
  BY <1>1, <1>2, <1>3, <1>8, <1>9, <1>10, <1>11, <1>13, <1>14, ResponseGrows

LEMMA LateUploadStep == ASSUME ControlInv, LateUpload PROVE ControlInv'
<1>1. PICK u \in late :
         /\ late' = late \ {u}
         /\ frames' = [frames EXCEPT ![u.request] = AppendFrames(@, u.batch)]
         /\ IF AcksIn(u.request, u.batch) THEN AckCommand(PositionOf(u.request))
                                          ELSE UNCHANGED ack
         /\ UNCHANGED <<direct, kind, stream, caller, expired, worker, execution>>
  BY DEF LateUpload
<1>2. PICK r \in Requests, b \in Seq(Frame) : r = u.request /\ b = u.batch /\ b # <<>>
  BY DEF ControlInv, TypeInv
<1>3. frames' = [frames EXCEPT ![r] = AppendFrames(@, b)]
  BY <1>1, <1>2
<1>4. caller[r].pc # "idle" /\ \A i \in 1 .. Len(b) : b[i].life < worker.life
  BY <1>2 DEF ControlInv, StreamInv, LifeInv
<1>5. ack' \in Nat /\ ack <= ack' /\ ack' <= Len(stream)
  BY <1>1, <1>2, <1>4, AcknowledgedUpload
<1>6. ReplyOf(r) /\ execution[r] \in Execution
  BY ExecutionIs
<1>7. Grows(r, b)
  BY <1>3, Grown
<1>8. Settled(r) => Settled(r)'
  BY <1>1, <1>5, MovedOnly DEF Onward
<1>9. ASSUME kind[r] = "small", SmallOK(r) PROVE SmallOK(r)'
  <2>1. Whole(b)
    BY <1>2, <1>9 DEF SmallOK
  <2>2. frames'[r] # <<>> =>
           \E n \in 1 .. Len(frames'[r]) : frames'[r][n].done /\ Begins(frames'[r], n)
    BY <1>2, <1>7, <1>9, <2>1, SmallGrows
  <2> QED
    BY <1>1, <1>9, <2>2, SmallNext DEF SmallOK
<1>10. ASSUME kind[r] = "event_stream", PartsOK(r), StreamsOK(r), LateOK(r)
       PROVE  PartsOK(r)' /\ StreamsOK(r)' /\ LateOK(r)'
  <2>1. /\ Len(b) = 1 /\ b[1].seq \in Nat
        /\ b[1].seq > 0 => u \in LateParts(r)
    <3>1. Len(b) = 1
      BY <1>2, <1>10 DEF LateOK
    <3>2. b[1].seq \in Nat
      <4>1. 1 \in 1 .. Len(b)
        BY <3>1
      <4> QED
        BY <4>1, FramesTyped
    <3> QED
      BY <1>2, <3>1, <3>2 DEF LateParts
  <2>2. b[1].seq > 0 => Follows(r, b[1].life, b[1].seq - 1, b[1].seq)
    BY <1>2, <1>10, <2>1 DEF LateOK
  <2>3. /\ PartsOK(r)'
        /\ b[1].seq > 0 =>
              /\ Follows(r, b[1].life, b[1].seq - 1, b[1].seq)'
              /\ \E i \in Parts(r)' : frames'[r][i].seq = b[1].seq
        /\ b[1].seq = 0 =>
              /\ Parts(r)' = Parts(r)
              /\ \A l, n, m : Follows(r, l, n, m)' <=> Follows(r, l, n, m)
    BY <1>7, <1>10, <2>1, <2>2, PartsGrow
  <2>4. LateParts(r)' = LateParts(r) \ {u}
    BY <1>1 DEF LateParts
  <2>5. /\ Streams(r)' <=> Streams(r)
        /\ Posting(r)' <=> Posting(r)
    BY <1>1 DEF Streams, Posting
  <2>6. CASE b[1].seq > 0
    <3>1. execution[r].pc = "none" /\ LateParts(r)' = {}
      BY <1>10, <2>1, <2>4, <2>6 DEF LateOK
    <3>2. Settled(r)'
      BY <1>8, <1>10, <2>1, <2>6 DEF StreamsOK
    <3>3. StreamsOK(r)'
      BY <1>1, <3>1, <3>2 DEF StreamsOK, Streams, Posting
    <3>4. LateOK(r)'
      BY <1>1, <1>10, <3>1 DEF LateOK
    <3> QED
      BY <2>3, <3>3, <3>4
  <2>7. CASE b[1].seq = 0
    <3>1. /\ Parts(r)' = Parts(r)
          /\ \A l, n, m : Follows(r, l, n, m)' <=> Follows(r, l, n, m)
          /\ \A i \in Parts(r) : frames'[r][i] = frames[r][i]
      BY <1>7, <2>3, <2>7 DEF Grows, Parts
    <3>2. (Posting(r) =>
             LET f == execution[r].batch[1]
             IN  /\ Len(execution[r].batch) = 1
                 /\ \/ f.seq = 0 /\ execution[r].sent = 0
                    \/ f.seq = execution[r].sent + (IF f.done THEN 1 ELSE 0)
                 /\ f.seq > 0 =>
                       /\ Follows(r, worker.life, f.seq - 1, f.seq)
                       /\ execution[r].pc = "posted" =>
                             \E i \in Parts(r) : frames[r][i].seq = f.seq)'
      BY <1>1, <1>10, <2>5, <3>1 DEF StreamsOK
    <3>3. StreamsOK(r)'
      BY <1>1, <1>8, <1>10, <2>4, <2>5, <3>1, <3>2 DEF StreamsOK
    <3>4. LateOK(r)'
      BY <1>1, <1>10, <2>4, <3>1 DEF LateOK
    <3> QED
      BY <2>3, <3>3, <3>4
  <2> QED
    BY <2>1, <2>6, <2>7
<1>11. ReplyOf(r)'
  BY <1>1, <1>6, <1>9, <1>10 DEF ReplyOf
<1>12. \A i \in Nat : Past(i) => Past(i)'
  BY <1>1, <1>5 DEF Past, ControlInv, TypeInv
<1>13. BatchInv'
  BY <1>1 DEF ControlInv, BatchInv
<1>14. /\ worker' \in Worker /\ worker'.life = worker.life /\ late' \subseteq late
       /\ worker'.cancelled = worker.cancelled /\ worker'.cursor <= Len(stream)
       /\ UNCHANGED <<direct, kind, stream, caller, expired>>
  BY <1>1 DEF ControlInv, TypeInv
<1>15. \A i \in 1 .. Len(b) : b[i].life <= worker.life
  <2>1. worker.life \in Nat /\ \A i \in 1 .. Len(b) : b[i].life \in Nat
    BY FramesTyped, BoundAssumption DEF ControlInv, TypeInv, Worker, Lives
  <2> QED
    BY <2>1, <1>4
<1>16. PICK pc : pc = execution[r].pc
  OBVIOUS
<1>17. execution' = [execution EXCEPT ![r].pc = pc]
  <2>1. execution[r] = [execution[r] EXCEPT !.pc = execution[r].pc]
    BY <1>6 DEF Execution
  <2> QED
    BY <1>1, <1>16, <2>1 DEF ControlInv, TypeInv
<1>18. /\ pc \in {"posted", "done", execution[r].pc}
       /\ pc = "posted" => execution[r].pc \in {"posting", "posted"}
       /\ pc = "done" => execution[r].pc = "done"
       /\ pc \notin {"posted", "done"} => \A i \in 1 .. Len(b) : b[i].life < worker.life
  BY <1>4, <1>16
<1> QED
  BY <1>2, <1>3, <1>4, <1>5, <1>11, <1>12, <1>13, <1>14, <1>15, <1>17, <1>18, ResponseGrows

----------------------------------------------------------------------------
(* The worker's loop, at the first command it has polled and not passed.   *)
LEMMA PositionIs ==
    ASSUME ControlInv, worker.batch # <<>>
    PROVE  /\ worker.batch \in Seq(Nat) /\ Len(worker.batch) \in Nat /\ Len(worker.batch) >= 1
           /\ Position = worker.batch[1] /\ Position \in 1 .. Len(stream) /\ Position \in Nat
           /\ Next_ \in Command /\ Next_.request \in Requests
           /\ ~Next_.cancel => Position \in Commands(Next_.request)
           /\ ~Past(Position)
<1>1. worker \in Worker /\ worker.cursor \in Nat /\ stream \in Seq(Command)
  BY DEF ControlInv, TypeInv, Worker
<1>2. worker.batch \in Seq(Nat) /\ Len(worker.batch) \in Nat /\ Len(worker.batch) >= 1
  BY <1>1 DEF Worker
<1>3. Position = worker.batch[1]
  BY <1>2 DEF Position
<1>4. Position \in worker.cursor + 1 .. Len(stream)
  BY <1>2, <1>3 DEF ControlInv, BatchInv
<1>5. Position \in 1 .. Len(stream) /\ Position \in Nat
  BY <1>1, <1>4
<1>6. Next_ \in Command
  BY <1>1, <1>5 DEF Next_
<1>7. Next_.request \in Requests /\ Next_ = [request |-> Next_.request, cancel |-> Next_.cancel]
      /\ Next_.cancel \in BOOLEAN
  BY <1>6 DEF Command
<1>8. ~Next_.cancel => Position \in Commands(Next_.request)
  BY <1>5, <1>7 DEF Commands, CommandOf, Next_
<1>9. ~Past(Position)
  BY <1>3, <1>5 DEF Past
<1> QED
  BY <1>2, <1>3, <1>5, <1>6, <1>7, <1>8, <1>9

LEMMA AdvancedIs ==
    ASSUME ControlInv, worker.batch # <<>>, worker' = Advanced, stream' = stream,
           ack' \in Nat, ack <= ack'
    PROVE  /\ worker' \in Worker /\ worker'.life = worker.life
           /\ worker'.cancelled = worker.cancelled /\ worker'.cursor <= Len(stream)
           /\ BatchInv'
           /\ \A i \in Nat : Past(i) \/ i = Position => Past(i)'
<1>1. /\ worker.batch \in Seq(Nat) /\ Len(worker.batch) \in Nat /\ Len(worker.batch) >= 1
      /\ Position = worker.batch[1] /\ Position \in 1 .. Len(stream) /\ Position \in Nat
  BY PositionIs
<1>2. worker \in Worker /\ worker.cursor \in Nat /\ worker.cursor <= Len(stream)
  BY DEF ControlInv, TypeInv, Worker
<1> DEFINE b == Tail(worker.batch)
<1>3. /\ b \in Seq(Nat) /\ Len(b) = Len(worker.batch) - 1
      /\ \A i \in 1 .. Len(b) : b[i] = worker.batch[i + 1]
  BY <1>1
<1> DEFINE c == IF Len(worker.batch) = 1 THEN Position ELSE worker.cursor
<1>4. c \in Nat /\ c <= Len(stream)
  BY <1>1, <1>2
<1>5. /\ worker' \in Worker /\ worker'.life = worker.life
      /\ worker'.cancelled = worker.cancelled /\ worker'.answering = FALSE
      /\ worker'.batch = b /\ worker'.cursor = c
  BY <1>2, <1>3, <1>4 DEF Advanced, Worker
<1> HIDE DEF b
<1>6. \A i \in 1 .. Len(worker.batch) :
         /\ worker.batch[i] = worker.batch[1] + i - 1
         /\ worker.batch[i] \in worker.cursor + 1 .. Len(stream)
  BY DEF ControlInv, BatchInv
<1>7. CASE Len(worker.batch) = 1
  <2>1. b = <<>> /\ c = Position
    BY <1>3, <1>7
  <2>2. BatchInv'
    BY <2>1, <1>5 DEF BatchInv
  <2>3. \A i \in Nat : i <= Position => Past(i)'
    BY <2>1, <1>5 DEF Past
  <2>4. \A i \in Nat : Past(i) => i <= Position
    BY <1>1 DEF Past
  <2>5. \A i \in Nat : Past(i) \/ i = Position => Past(i)'
    BY <1>1, <2>3, <2>4
  <2> QED
    BY <1>4, <1>5, <2>2, <2>5
<1>8. CASE Len(worker.batch) # 1
  <2>1. Len(b) \in Nat /\ Len(b) >= 1 /\ b # <<>> /\ c = worker.cursor
    <3>1. \A k \in Nat : k >= 1 /\ k # 1 => k - 1 \in Nat /\ k - 1 >= 1
      OBVIOUS
    <3>2. Len(b) \in Nat /\ Len(b) >= 1
      BY <3>1, <1>1, <1>3, <1>8
    <3> QED
      BY <3>2, <1>8
  <2>2. b[1] = Position + 1
    <3>1. \A k \in Nat : k >= 1 => 1 \in 1 .. k /\ (k # 1 => 2 \in 1 .. k)
      OBVIOUS
    <3>2. 2 \in 1 .. Len(worker.batch) /\ 1 \in 1 .. Len(b)
      BY <3>1, <1>1, <1>8, <2>1
    <3>3. b[1] = worker.batch[2] /\ worker.batch[2] = worker.batch[1] + 2 - 1
      BY <3>2, <1>3, <1>6
    <3> QED
      BY <3>3, <1>1
  <2>3. \A i \in 1 .. Len(b) : b[i] = b[1] + i - 1 /\ b[i] \in worker.cursor + 1 .. Len(stream)
    <3>1. ASSUME NEW i \in 1 .. Len(b)
          PROVE  b[i] = b[1] + i - 1 /\ b[i] \in worker.cursor + 1 .. Len(stream)
      <4>1. i + 1 \in 1 .. Len(worker.batch) /\ b[i] = worker.batch[i + 1]
        BY <1>1, <1>3
      <4>2. b[i] = worker.batch[1] + (i + 1) - 1 /\ b[i] \in worker.cursor + 1 .. Len(stream)
        BY <4>1, <1>6
      <4> QED
        BY <4>2, <2>2, <1>1
    <3> QED
      BY <3>1
  <2>4. BatchInv'
    BY <2>1, <2>3, <1>5 DEF BatchInv
  <2>5. \A i \in Nat : i < Position + 1 => Past(i)'
    BY <2>1, <2>2, <1>5 DEF Past
  <2>6. \A i \in Nat : Past(i) => i < Position
    BY <1>1 DEF Past
  <2>7. \A i \in Nat : Past(i) \/ i = Position => Past(i)'
    BY <1>1, <2>5, <2>6
  <2> QED
    BY <1>4, <1>5, <2>4, <2>7
<1> QED
  BY <1>7, <1>8

(* The worker does something that no execution or response sees.           *)
LEMMA WorkerGoesOn ==
    ASSUME ControlInv, UNCHANGED <<direct, kind, stream, frames, caller, expired, execution, late>>,
           ack' \in Nat, ack <= ack', ack' <= Len(stream),
           worker' \in Worker, worker'.life = worker.life, worker'.cancelled = worker.cancelled,
           worker'.cursor <= Len(stream), BatchInv', \A i \in Nat : Past(i) => Past(i)'
    PROVE  ControlInv'
<1>1. TypeInv'
  BY DEF ControlInv, TypeInv
<1>2. LifeInv'
  BY DEF ControlInv, LifeInv
<1>3. Onward
  BY Moved
<1>4. StreamInv'
  BY <1>3 DEF ControlInv, StreamInv, Onward
<1>5. PastInv'
  <2>1. \A q \in Requests : \A i \in Commands(q) : i \in Nat
    BY DEF Commands
  <2> QED
    BY <1>3, <2>1 DEF ControlInv, PastInv, Onward
<1>6. CancelInv'
  BY DEF ControlInv, CancelInv, Alive
<1>7. ReplyInv'
  BY <1>3, RepliesKept DEF Onward, Same
<1> QED
  BY <1>1, <1>2, <1>4, <1>5, <1>6, <1>7 DEF ControlInv

LEMMA PollStep == ASSUME ControlInv, Poll PROVE ControlInv'
<1>1. worker.batch = <<>>
      /\ UNCHANGED <<direct, kind, stream, ack, frames, caller, expired, execution, late>>
  BY DEF Poll
<1>2. /\ worker \in Worker /\ worker.cursor \in Nat /\ worker.cursor <= Len(stream)
      /\ ack \in Nat /\ ack <= Len(stream) /\ Len(stream) \in Nat /\ worker.answering = FALSE
  BY <1>1 DEF ControlInv, TypeInv, Worker, BatchInv
<1> DEFINE m == Largest(worker.cursor, ack)
           b == [i \in 1 .. Len(stream) - m |-> m + i]
<1>3. m \in Nat /\ worker.cursor <= m /\ ack <= m /\ (m = worker.cursor \/ m = ack)
  BY <1>2, LargestIs
<1>4. b = ReadCommands(worker.cursor)
  BY DEF ReadCommands
<1> HIDE DEF m
<1>5. Len(stream) - m \in Nat
  BY <1>2, <1>3
<1>6. b \in Seq(Nat) /\ Len(b) = Len(stream) - m /\ \A i \in 1 .. Len(b) : b[i] = m + i
  <2>1. \A i \in 1 .. Len(stream) - m : m + i \in Nat
    BY <1>3
  <2> QED
    BY <1>5, <2>1
<1> HIDE DEF b
<1>7. b # <<>> /\ worker' = [worker EXCEPT !.batch = b]
  BY <1>4 DEF Poll
<1>8. /\ worker' \in Worker /\ worker'.life = worker.life
      /\ worker'.cancelled = worker.cancelled /\ worker'.answering = FALSE
      /\ worker'.batch = b /\ worker'.cursor = worker.cursor
  BY <1>2, <1>6, <1>7 DEF Worker
<1>9. Len(b) \in Nat /\ Len(b) >= 1
  BY <1>6, <1>7
<1>10. BatchInv'
  <2>1. ASSUME NEW i \in 1 .. Len(b)
        PROVE  b[i] = b[1] + i - 1 /\ b[i] \in worker.cursor + 1 .. Len(stream)
    <3>1. i \in Nat /\ 1 <= i /\ i <= Len(stream) - m /\ b[i] = m + i /\ b[1] = m + 1
      BY <1>5, <1>6, <1>9
    <3> QED
      BY <3>1, <1>2, <1>3
  <2> QED
    BY <1>1, <1>8, <2>1 DEF BatchInv
<1>11. \A i \in Nat : Past(i) => Past(i)'
  <2>1. b[1] = m + 1
    BY <1>6, <1>9
  <2>2. \A i \in Nat : Past(i) => i <= m
    BY <1>1, <1>2, <1>3 DEF Past
  <2> QED
    BY <1>3, <1>7, <1>8, <2>1, <2>2 DEF Past
<1> QED
  BY <1>1, <1>2, <1>8, <1>10, <1>11, WorkerGoesOn

LEMMA DispatchExpiredStep == ASSUME ControlInv, DispatchExpired PROVE ControlInv'
<1>1. /\ worker.batch # <<>> /\ worker' = [worker EXCEPT !.answering = TRUE]
      /\ UNCHANGED <<direct, kind, stream, ack, frames, caller, expired, execution, late>>
  BY DEF DispatchExpired
<1>2. /\ worker' \in Worker /\ worker'.life = worker.life
      /\ worker'.cancelled = worker.cancelled
      /\ worker'.batch = worker.batch /\ worker'.cursor = worker.cursor
      /\ worker.cursor <= Len(stream) /\ ack \in Nat /\ ack <= Len(stream)
  <2>1. worker \in Worker /\ worker.cursor <= Len(stream) /\ ack \in Nat /\ ack <= Len(stream)
    BY DEF ControlInv, TypeInv
  <2> QED
    BY <1>1, <2>1 DEF Worker
<1>3. BatchInv'
  BY <1>1, <1>2 DEF ControlInv, BatchInv
<1>4. \A i \in Nat : Past(i) => Past(i)'
  BY <1>1, <1>2 DEF Past
<1> QED
  BY <1>1, <1>2, <1>3, <1>4, WorkerGoesOn

(* The context of an execution ends: if it is active, it is stopped.       *)
LEMMA ExecutionStops ==
    ASSUME ControlInv, NEW r \in Requests,
           execution' = [execution EXCEPT ![r].stopped = @ \/ Active(r)],
           UNCHANGED <<direct, kind, stream, ack, frames, caller, late>>,
           expired' \subseteq Requests, worker' \in Worker,
           worker'.life = worker.life, worker'.batch = worker.batch,
           worker'.cursor = worker.cursor, worker'.answering => worker.batch # <<>>,
           \/ worker'.cancelled = worker.cancelled
           \/ frames[r] # <<>> /\ worker'.cancelled = worker.cancelled \cup {r}
    PROVE  ControlInv'
<1>0. (execution[r].stopped \/ Active(r)) \in BOOLEAN
  OBVIOUS
<1>1. /\ execution' \in [Requests -> Execution]
      /\ \A q \in Requests : /\ execution'[q].pc = execution[q].pc
                             /\ execution'[q].sent = execution[q].sent
                             /\ execution'[q].batch = execution[q].batch
                             /\ execution[q].stopped => execution'[q].stopped
      /\ Active(r) => execution'[r].stopped
  <2> DEFINE e == [execution[r] EXCEPT !.stopped = @ \/ Active(r)]
  <2>1. execution[r] \in Execution /\ execution \in [Requests -> Execution]
    BY DEF ControlInv, TypeInv
  <2>2. /\ e \in Execution /\ e.pc = execution[r].pc /\ e.sent = execution[r].sent
        /\ e.batch = execution[r].batch
        /\ e.stopped = (execution[r].stopped \/ Active(r))
    BY <1>0, <2>1 DEF Execution
  <2>3. execution' = [execution EXCEPT ![r] = e]
    OBVIOUS
  <2> HIDE DEF e
  <2> QED
    BY <2>1, <2>2, <2>3
<1>2. TypeInv'
  BY <1>1 DEF ControlInv, TypeInv
<1>3. LifeInv'
  BY <1>1 DEF ControlInv, LifeInv
<1>4. Onward
  BY MovedOnly DEF ControlInv, TypeInv
<1>5. StreamInv'
  BY <1>1, <1>4 DEF ControlInv, StreamInv, Onward
<1>6. BatchInv'
  BY DEF ControlInv, BatchInv
<1>7. PastInv'
  <2>1. \A q \in Requests : \A i \in Commands(q) : i \in Nat
    BY DEF Commands
  <2> QED
    BY <1>1, <1>4, <2>1 DEF ControlInv, PastInv, Onward
<1>8. CancelInv'
  <2>1. ASSUME NEW q \in worker.cancelled
        PROVE  /\ frames'[q] # <<>>
               /\ frames'[q][1].life = worker'.life => execution'[q].stopped \/ ~Alive(q)'
    BY <1>1 DEF ControlInv, CancelInv, Alive, TypeInv, Worker
  <2>2. ASSUME frames[r] # <<>>
        PROVE  frames'[r][1].life = worker'.life => execution'[r].stopped \/ ~Alive(r)'
    <3>1. 1 \in 1 .. Len(frames[r])
      BY <2>2 DEF ControlInv, TypeInv
    <3>2. frames[r][1].life = worker.life => execution[r].pc \notin {"none", "spawned", "calling"}
      BY <3>1 DEF ControlInv, LifeInv
    <3>3. execution[r].pc \in {"none", "spawned", "calling", "reading", "posting", "posted",
                               "done", "dropped"}
      BY DEF ControlInv, TypeInv, Execution
    <3> QED
      BY <3>2, <3>3, <1>1 DEF Active, Alive
  <2> QED
    BY <2>1, <2>2 DEF CancelInv
<1>9. ReplyInv'
  BY <1>1, <1>4, RepliesKept DEF Onward, Same
<1> QED
  BY <1>2, <1>3, <1>5, <1>6, <1>7, <1>8, <1>9 DEF ControlInv

LEMMA ExpireStep ==
    ASSUME ControlInv, NEW r \in Requests, Expire(r) PROVE ControlInv'
<1>1. /\ execution' = [execution EXCEPT ![r].stopped = @ \/ Active(r)]
      /\ UNCHANGED <<direct, kind, stream, ack, frames, caller, worker, late>>
      /\ expired' = expired \cup {r}
  BY DEF Expire
<1>2. expired' \subseteq Requests /\ worker \in Worker /\ (worker.answering => worker.batch # <<>>)
  BY <1>1 DEF ControlInv, TypeInv, BatchInv
<1> QED
  BY <1>1, <1>2, ExecutionStops

LEMMA DispatchCancelStep == ASSUME ControlInv, DispatchCancel PROVE ControlInv'
<1>1. worker.batch # <<>> /\ Next_.cancel
  BY DEF DispatchCancel
<1>2. PICK r \in Requests : r = Next_.request
  BY <1>1, PositionIs
<1>3. /\ execution' = [execution EXCEPT ![r].stopped = @ \/ Active(r)]
      /\ worker' = [worker EXCEPT !.answering = TRUE, !.cancelled = @ \cup {r}]
      /\ UNCHANGED <<direct, kind, stream, ack, frames, caller, expired, late>>
  BY <1>2 DEF DispatchCancel
<1>4. frames[r] # <<>>
  BY <1>1, <1>2, PositionIs DEF ControlInv, StreamInv, Next_
<1>5. worker \in Worker /\ expired \subseteq Requests
  BY DEF ControlInv, TypeInv
<1>6. /\ worker' \in Worker /\ worker'.life = worker.life
      /\ worker'.cancelled = worker.cancelled \cup {r}
      /\ worker'.batch = worker.batch /\ worker'.cursor = worker.cursor
  BY <1>3, <1>5 DEF Worker
<1> QED
  BY <1>1, <1>3, <1>4, <1>5, <1>6, ExecutionStops

LEMMA SpawnStep == ASSUME ControlInv, Spawn PROVE ControlInv'
<1> DEFINE e == [NoExecution EXCEPT !.pc = "spawned"]
<1>1. worker.batch # <<>> /\ ~Next_.cancel
  BY DEF Spawn
<1>2. PICK r \in Requests, p \in 1 .. Len(stream) :
         r = Next_.request /\ p = Position /\ p \in Nat /\ p \in Commands(r) /\ ~Past(p)
  BY <1>1, PositionIs
<1>3. /\ execution' = [execution EXCEPT ![r] = e] /\ worker' = Advanced
      /\ UNCHANGED <<direct, kind, stream, ack, frames, caller, expired, late>>
  BY <1>2 DEF Spawn
<1>4. ack \in Nat /\ ack <= Len(stream) /\ ReplyOf(r)
  BY ExecutionIs
<1>5. /\ worker' \in Worker /\ worker'.life = worker.life
      /\ worker'.cancelled = worker.cancelled /\ worker'.cursor <= Len(stream)
      /\ BatchInv'
      /\ \A i \in Nat : Past(i) \/ i = p => Past(i)'
  BY <1>1, <1>2, <1>3, <1>4, AdvancedIs
<1>6. execution[r].pc = "none" /\ ~Settled(r) /\ (\A i \in Commands(r) : i = p)
      /\ caller[r].pc # "idle"
  BY <1>2 DEF ControlInv, PastInv, Settled, StreamInv
<1>7. e \in Execution /\ e.pc = "spawned" /\ e.batch = <<>> /\ e.sent = 0
  <2>1. 0 \in 0 .. Chunks /\ <<>> \in Seq(Frame)
    BY BoundAssumption
  <2>2. NoExecution \in Execution /\ NoExecution.batch = <<>> /\ NoExecution.sent = 0
    BY <2>1 DEF NoExecution, Execution
  <2> QED
    BY <2>2 DEF Execution
<1> HIDE DEF e
<1>8. /\ execution' \in [Requests -> Execution] /\ execution'[r] = e
      /\ \A q \in Requests : q # r => execution'[q] = execution[q]
  BY <1>3, <1>7 DEF ControlInv, TypeInv
<1>9. TypeInv'
  BY <1>3, <1>5, <1>7, <1>8 DEF ControlInv, TypeInv
<1>10. LifeInv'
  BY <1>3, <1>5, <1>6, <1>7, <1>8 DEF ControlInv, LifeInv
<1>11. Onward
  BY <1>3, <1>4, <1>5, Moved
<1>12. StreamInv'
  BY <1>3, <1>6, <1>8, <1>11 DEF ControlInv, StreamInv, Onward
<1>13. PastInv'
  <2>1. \A q \in Requests : \A i \in Commands(q) : i \in Nat
    BY DEF Commands
  <2>2. \A i \in Commands(r) : Past(i)'
    BY <1>5, <1>6, <2>1
  <2> QED
    BY <1>7, <1>8, <1>11, <2>1, <2>2 DEF ControlInv, PastInv, Onward
<1>14. CancelInv'
  <2>1. ASSUME NEW q \in worker.cancelled
        PROVE  /\ frames[q] # <<>>
               /\ frames[q][1].life = worker.life => execution'[q].stopped \/ ~Alive(q)'
    <3>1. q \in Requests /\ frames[q] # <<>>
          /\ (frames[q][1].life = worker.life => execution[q].stopped \/ ~Alive(q))
      BY DEF ControlInv, CancelInv, TypeInv, Worker
    <3>2. CASE q = r
      <4>1. 1 \in 1 .. Len(frames[r])
        BY <3>1, <3>2 DEF ControlInv, TypeInv
      <4>2. frames[r][1].life # worker.life
        BY <4>1, <1>6 DEF ControlInv, LifeInv
      <4> QED
        BY <3>1, <3>2, <4>2
    <3>3. CASE q # r
      BY <3>1, <3>3, <1>8 DEF Alive
    <3> QED
      BY <3>2, <3>3
  <2> QED
    BY <2>1, <1>3, <1>5 DEF CancelInv
<1>15. ReplyOf(r)'
  <2>1. Parts(r)' = Parts(r) /\ LateParts(r)' = LateParts(r)
    BY <1>3 DEF Parts, LateParts
  <2>2. SmallOK(r) => SmallOK(r)'
    BY <1>3, <1>7, <1>8, SmallNext DEF SmallOK
  <2>3. PartsOK(r) => PartsOK(r)'
    BY <1>3, <2>1 DEF PartsOK
  <2>4. ASSUME StreamsOK(r), LateOK(r) PROVE StreamsOK(r)' /\ LateOK(r)'
    <3>1. Parts(r) = {} /\ LateParts(r) = {}
      BY <1>6, <2>4 DEF StreamsOK
    <3>2. ~Streams(r)' /\ ~Posting(r)'
      BY <1>7, <1>8 DEF Streams, Posting
    <3>3. StreamsOK(r)'
      BY <1>7, <1>8, <2>1, <3>1, <3>2 DEF StreamsOK
    <3> QED
      BY <1>3, <2>1, <2>4, <3>1, <3>3 DEF LateOK
  <2> QED
    BY <1>3, <1>4, <2>2, <2>3, <2>4 DEF ReplyOf
<1>16. ReplyInv'
  BY <1>3, <1>5, <1>8, <1>11, <1>15, OtherRepliesKept DEF Same, Onward
<1> QED
  BY <1>5, <1>9, <1>10, <1>12, <1>13, <1>14, <1>16 DEF ControlInv

LEMMA AnswerInlineStep == ASSUME ControlInv, AnswerInline PROVE ControlInv'
<1>1. worker.answering /\ worker.batch # <<>> /\ worker' = Advanced /\ AckCommand(Position)
      /\ UNCHANGED <<direct, kind, stream, caller, expired, late>>
  BY DEF AnswerInline, ControlInv, BatchInv
<1>2. PICK p \in 1 .. Len(stream) : p = Position /\ p \in Nat /\ ~Past(p)
  BY <1>1, PositionIs
<1>3. ack' \in Nat /\ ack <= ack' /\ ack' <= Len(stream) /\ p <= ack'
  BY <1>1, <1>2, Acknowledged
<1>4. /\ worker' \in Worker /\ worker'.life = worker.life
      /\ worker'.cancelled = worker.cancelled /\ worker'.cursor <= Len(stream)
      /\ BatchInv'
      /\ \A i \in Nat : Past(i) \/ i = p => Past(i)'
  BY <1>1, <1>2, <1>3, AdvancedIs
<1>5. CASE Next_.cancel
  <2>1. frames' = frames /\ execution' = execution
    BY <1>5 DEF AnswerInline
  <2> QED
    BY <1>1, <1>3, <1>4, <2>1, WorkerGoesOn
<1>6. CASE ~Next_.cancel
  <2>1. PICK r \in Requests : r = Next_.request /\ p \in Commands(r)
    BY <1>1, <1>2, <1>6, PositionIs
  <2>2. PICK f \in Frame : f = ErrorFrame /\ f.life = worker.life /\ f.seq = 0 /\ f.done = TRUE
    BY FirstFramesAre
  <2> DEFINE b == <<f>>
  <2>3. /\ frames' = [frames EXCEPT ![r] = AppendFrames(@, b)]
        /\ execution' = [execution EXCEPT ![r].pc = "done"]
    BY <1>6, <2>1, <2>2 DEF AnswerInline
  <2>4. b \in Seq(Frame) /\ b # <<>> /\ Len(b) = 1 /\ b[1] = f
    OBVIOUS
  <2> HIDE DEF b
  <2>5. PICK batch \in Seq(Frame) : batch = b
    BY <2>4
  <2>6. Grows(r, batch)
    BY <2>3, <2>5, Grown
  <2>7. execution[r].pc = "none" /\ ~Settled(r) /\ (\A i \in Commands(r) : i = p)
        /\ caller[r].pc # "idle" /\ execution[r] \in Execution /\ ReplyOf(r)
    BY <1>2, <2>1, ExecutionIs DEF ControlInv, PastInv, Settled, StreamInv
  <2>8. execution'[r].pc = "done"
    BY <2>3, <2>7 DEF ControlInv, TypeInv, Execution
  <2>9. ASSUME kind[r] = "small", SmallOK(r) PROVE SmallOK(r)'
    <3>1. Whole(batch)
      <4>1. Len(batch) = 1 /\ batch[1] = f /\ \A i \in 1 .. 1 : i = 1
        BY <2>4, <2>5
      <4>2. batch[1].seq = 1 - 1 /\ batch[1].done
        BY <4>1, <2>2
      <4> QED
        BY <4>1, <4>2 DEF Whole, Begins
    <3>2. frames'[r] # <<>> =>
             \E n \in 1 .. Len(frames'[r]) : frames'[r][n].done /\ Begins(frames'[r], n)
      BY <2>4, <2>5, <2>6, <2>9, <3>1, SmallGrows
    <3> QED
      BY <1>1, <2>8, <2>9, <3>2, SmallNext DEF SmallOK
  <2>10. ASSUME kind[r] = "event_stream", PartsOK(r), StreamsOK(r), LateOK(r)
         PROVE  PartsOK(r)' /\ StreamsOK(r)' /\ LateOK(r)'
    <3>1. Parts(r) = {} /\ LateParts(r) = {}
      BY <2>7, <2>10 DEF StreamsOK
    <3>2. batch[1].seq = 0 /\ ~(batch[1].seq > 0) /\ Len(batch) = 1
      BY <2>2, <2>4, <2>5
    <3>3. PartsOK(r)' /\ Parts(r)' = {}
      BY <2>6, <2>10, <3>1, <3>2, PartsGrow
    <3>4. LateParts(r)' = {}
      BY <1>1, <3>1 DEF LateParts
    <3>5. StreamsOK(r)'
      BY <2>8, <3>3, <3>4 DEF StreamsOK, Streams, Posting
    <3> QED
      BY <1>1, <2>10, <3>3, <3>4, <3>5 DEF LateOK
  <2>11. ReplyOf(r)'
    BY <1>1, <2>7, <2>9, <2>10 DEF ReplyOf
  <2>12. \A i \in 1 .. Len(batch) : batch[i].life <= worker.life
    <3>1. worker.life \in Nat
      BY BoundAssumption DEF ControlInv, TypeInv, Worker, Lives
    <3>2. Len(batch) = 1 /\ batch[1] = f /\ \A i \in 1 .. 1 : i = 1
      BY <2>4, <2>5
    <3> QED
      BY <3>1, <3>2, <2>2
  <2>13. /\ \A i \in Nat : Past(i) => Past(i)'
         /\ \A i \in Commands(r) : i <= ack' /\ Past(i)'
    BY <1>2, <1>3, <1>4, <2>7
  <2>14. frames' = [frames EXCEPT ![r] = AppendFrames(@, batch)] /\ batch # <<>>
    BY <2>3, <2>4, <2>5
  <2>15. \A pc : pc = "done" => /\ execution' = [execution EXCEPT ![r].pc = pc]
                                /\ pc \in {"posted", "done", execution[r].pc}
                                /\ pc # "posted"
    BY <2>3
  <2> HIDE DEF Grows
  <2> QED
    BY <1>1, <1>3, <1>4, <2>7, <2>11, <2>12, <2>13, <2>14, <2>15, ResponseGrows
<1> QED
  BY <1>5, <1>6

LEMMA CrashStep == ASSUME ControlInv, Crash PROVE ControlInv'
<1> DEFINE w == [life |-> worker.life + 1, cursor |-> IF direct THEN worker.cursor ELSE 0,
                 batch |-> <<>>, answering |-> FALSE, cancelled |-> {}]
           new == {[request |-> r, batch |-> execution[r].batch] :
                     r \in {q \in Exposed : execution[q].pc = "posting"}}
<1>1. /\ worker.life <= MaxCrashes /\ worker' = w
      /\ execution' = [r \in Requests |-> IF execution[r].pc = "done"
                                          THEN execution[r] ELSE NoExecution]
      /\ late' = late \cup new
      /\ UNCHANGED <<direct, kind, stream, ack, frames, caller, expired>>
  BY DEF Crash
<1>2. /\ worker \in Worker /\ worker.cursor \in Nat /\ worker.cursor <= Len(stream)
      /\ worker.life \in Nat /\ worker.life \in Lives /\ ack \in Nat /\ Len(stream) \in Nat
  BY BoundAssumption DEF ControlInv, TypeInv, Worker, Lives
<1>3. /\ worker' \in Worker /\ worker'.life = worker.life + 1 /\ worker'.batch = <<>>
      /\ worker'.cursor <= Len(stream) /\ worker'.cancelled = {} /\ worker'.answering = FALSE
      /\ worker'.life \in Nat
  <2>1. worker.life + 1 \in Lives
    BY <1>1, <1>2, BoundAssumption DEF Lives
  <2>2. (IF direct THEN worker.cursor ELSE 0) \in Nat
        /\ (IF direct THEN worker.cursor ELSE 0) <= Len(stream)
    BY <1>2
  <2>3. <<>> \in Seq(Nat)
    OBVIOUS
  <2> QED
    BY <1>1, <1>2, <2>1, <2>2, <2>3 DEF Worker
<1>4. NoExecution \in Execution /\ NoExecution.pc = "none" /\ NoExecution.batch = <<>>
      /\ NoExecution.sent = 0
  BY BoundAssumption DEF NoExecution, Execution
<1>5. /\ execution' \in [Requests -> Execution]
      /\ \A q \in Requests : \/ execution[q].pc = "done" /\ execution'[q] = execution[q]
                             \/ execution[q].pc # "done" /\ execution'[q] = NoExecution
  BY <1>1, <1>4 DEF ControlInv, TypeInv
<1>6. \A q \in Requests : execution'[q].pc \in {"none", "done"} /\ execution'[q].batch = <<>>
  BY <1>4, <1>5 DEF ControlInv, TypeInv
<1>7. ASSUME NEW u \in new
      PROVE  /\ u.request \in Requests /\ execution[u.request].pc = "posting"
             /\ u.batch = execution[u.request].batch /\ u.batch \in Seq(Frame) /\ u.batch # <<>>
             /\ \A i \in 1 .. Len(u.batch) : u.batch[i].life = worker.life
             /\ u \in [request : Requests, batch : Seq(Frame) \ {<<>>}]
             /\ caller[u.request].pc # "idle"
  <2>1. PICK r \in Exposed : execution[r].pc = "posting"
                             /\ u = [request |-> r, batch |-> execution[r].batch]
    OBVIOUS
  <2>2. r \in Requests
    BY RequestAssumption
  <2>3. /\ execution[r].batch \in Seq(Frame) /\ execution[r].batch # <<>>
        /\ \A i \in 1 .. Len(execution[r].batch) : execution[r].batch[i].life = worker.life
        /\ caller[r].pc # "idle"
    BY <2>1, <2>2, ExecutionIs DEF ControlInv, TypeInv
  <2> QED
    BY <2>1, <2>2, <2>3
<1> HIDE DEF w, new
<1>8. TypeInv'
  <2>1. late' \subseteq [request : Requests, batch : Seq(Frame) \ {<<>>}]
    BY <1>1, <1>7 DEF ControlInv, TypeInv
  <2>2. \A q \in Requests : execution'[q].pc = "none" => execution'[q].sent = 0
    BY <1>4, <1>5
  <2> QED
    BY <1>1, <1>3, <1>5, <1>6, <2>1, <2>2 DEF ControlInv, TypeInv
<1>9. LifeInv'
  <2>1. ASSUME NEW q \in Requests, NEW i \in 1 .. Len(frames[q])
        PROVE  frames[q][i].life <= worker'.life /\ frames[q][i].life # worker'.life
    <3>1. frames[q][i].life <= worker.life
      BY DEF ControlInv, LifeInv
    <3>2. frames[q][i].life \in Nat
      BY FramesTyped DEF ControlInv, TypeInv
    <3> QED
      BY <3>1, <3>2, <1>2, <1>3
  <2>2. ASSUME NEW q \in Requests, NEW i \in 1 .. Len(execution'[q].batch)
        PROVE  FALSE
    BY <1>6, <2>2
  <2>3. ASSUME NEW u \in late', NEW i \in 1 .. Len(u.batch) PROVE u.batch[i].life < worker'.life
    <3>1. CASE u \in late
      <4>1. u.batch[i].life < worker.life
        BY <3>1 DEF ControlInv, LifeInv
      <4>2. u.batch \in Seq(Frame)
        BY <3>1 DEF ControlInv, TypeInv
      <4>3. u.batch[i].life \in Nat
        BY <4>2, FramesTyped
      <4> QED
        BY <4>1, <4>3, <1>2, <1>3
    <3>2. CASE u \in new
      BY <3>2, <1>2, <1>3, <1>7
    <3> QED
      BY <3>1, <3>2, <1>1
  <2> QED
    BY <1>1, <2>1, <2>2, <2>3 DEF LifeInv
<1>10. /\ \A q \in Requests : Commands(q)' = Commands(q)
       /\ \A q \in Requests : Settled(q) => Settled(q)'
  <2>1. \A q \in Requests : Commands(q)' = Commands(q)
    BY <1>1 DEF Commands, CommandOf
  <2>2. \A i : i <= ack => Past(i)'
    BY <1>1, <1>3 DEF Past
  <2> QED
    BY <1>1, <2>1, <2>2 DEF Settled
<1>11. StreamInv'
  <2>1. \A u \in late' : caller[u.request].pc # "idle"
    BY <1>1, <1>7 DEF ControlInv, StreamInv
  <2>2. \A q \in Requests : caller[q].pc = "idle" => execution'[q].pc = "none"
    BY <1>4, <1>5 DEF ControlInv, StreamInv
  <2> QED
    BY <1>1, <1>10, <2>1, <2>2 DEF ControlInv, StreamInv
<1>12. BatchInv'
  BY <1>3 DEF BatchInv
<1>13. PastInv'
  <2>1. ASSUME NEW q \in Requests, execution'[q].pc # "none" PROVE Settled(q)'
    BY <2>1, <1>4, <1>5, <1>10 DEF ControlInv, PastInv
  <2> QED
    BY <2>1, <1>10 DEF PastInv, Settled
<1>14. CancelInv'
  BY <1>3 DEF CancelInv
<1>15. ReplyInv'
  <2>1. ASSUME NEW q \in Requests, kind[q] = "small" PROVE SmallOK(q)'
    <3>1. SmallOK(q)
      BY <2>1 DEF ControlInv, ReplyInv
    <3>2. \A u \in late' : u.request = q => Whole(u.batch)
      BY <3>1, <1>1, <1>7 DEF SmallOK
    <3> QED
      BY <3>1, <3>2, <1>1, <1>6, SmallNext DEF SmallOK
  <2>2. ASSUME NEW q \in Requests, kind[q] = "event_stream"
        PROVE  PartsOK(q)' /\ StreamsOK(q)' /\ LateOK(q)'
    <3>1. PartsOK(q) /\ StreamsOK(q) /\ LateOK(q)
      BY <2>2 DEF ControlInv, ReplyInv
    <3>2. Parts(q)' = Parts(q) /\ (\A l, n, m : Follows(q, l, n, m)' <=> Follows(q, l, n, m))
      BY <1>1 DEF Parts, Follows
    <3>3. PartsOK(q)'
      BY <3>1, <3>2, <1>1 DEF PartsOK
    <3>4. ASSUME NEW u \in LateParts(q)', u \notin LateParts(q)
          PROVE  /\ u \in new /\ u.request = q /\ Streams(q) /\ execution[q].pc = "posting"
                 /\ u.batch = execution[q].batch
      <4>1. u \in new /\ u.request = q /\ u.batch[1].seq > 0
        BY <3>4, <1>1 DEF LateParts
      <4> QED
        BY <4>1, <1>7 DEF Streams, Posting
    <3>5. StreamsOK(q)'
      <4>1. Parts(q)' # {} \/ LateParts(q)' # {} => Settled(q)'
        BY <3>1, <3>2, <3>4, <1>10 DEF StreamsOK
      <4> QED
        BY <4>1, <1>6 DEF StreamsOK, Streams, Posting
    <3>6. \A u \in late' : u.request = q => Len(u.batch) = 1
      BY <3>1, <1>1, <1>7 DEF LateOK, StreamsOK, Posting
    <3>7. ASSUME NEW u \in LateParts(q)'
          PROVE  /\ execution'[q].pc = "none"
                 /\ Follows(q, u.batch[1].life, u.batch[1].seq - 1, u.batch[1].seq)
                 /\ \A v \in LateParts(q)' : v = u
      <4>1. CASE u \in LateParts(q)
        <5>1. execution[q].pc = "none"
              /\ Follows(q, u.batch[1].life, u.batch[1].seq - 1, u.batch[1].seq)
              /\ (\A v \in LateParts(q) : v = u)
          BY <4>1, <3>1 DEF LateOK
        <5>2. \A v \in LateParts(q)' : v \in LateParts(q)
          BY <5>1, <3>4
        <5> QED
          BY <5>1, <5>2, <1>4, <1>5
      <4>2. CASE u \notin LateParts(q)
        <5>1. /\ u \in new /\ u.request = q /\ Streams(q) /\ execution[q].pc = "posting"
              /\ u.batch = execution[q].batch
          BY <4>2, <3>4
        <5>2. LateParts(q) = {}
          BY <5>1, <3>1 DEF LateOK
        <5>3. \A v \in LateParts(q)' : v \in new /\ v.request = q
          BY <5>2, <3>4
        <5>4. \A v \in new : v.request = q => v = u
          BY <5>1 DEF new
        <5>5. execution'[q].pc = "none"
          BY <5>1, <1>4, <1>5
        <5>6. Follows(q, u.batch[1].life, u.batch[1].seq - 1, u.batch[1].seq)
          <6>1. Posting(q) /\ u.batch[1].seq > 0
            BY <5>1, <3>7 DEF Posting, LateParts
          <6>2. /\ Len(u.batch) = 1
                /\ Follows(q, worker.life, u.batch[1].seq - 1, u.batch[1].seq)
            BY <6>1, <5>1, <3>1 DEF StreamsOK
          <6>3. u.batch[1].life = worker.life
            BY <6>2, <5>1, <1>7
          <6> QED
            BY <6>2, <6>3
        <5> QED
          BY <5>3, <5>4, <5>5, <5>6
      <4> QED
        BY <4>1, <4>2
    <3>8. LateOK(q)'
      <4>1. \A u \in LateParts(q)' :
               /\ execution'[q].pc = "none"
               /\ Follows(q, u.batch[1].life, u.batch[1].seq - 1, u.batch[1].seq)
               /\ \A v \in LateParts(q)' : v = u
        BY <3>7
      <4> QED
        BY <4>1, <3>2, <3>6 DEF LateOK
    <3> QED
      BY <3>3, <3>5, <3>8
  <2> QED
    BY <2>1, <2>2, <1>1 DEF ReplyInv
<1> QED
  BY <1>8, <1>9, <1>11, <1>12, <1>13, <1>14, <1>15 DEF ControlInv

----------------------------------------------------------------------------
LEMMA InductionStep == ControlInv /\ [Next]_vars => ControlInv'
<1> SUFFICES ASSUME ControlInv, [Next]_vars PROVE ControlInv'
  OBVIOUS
<1>1. ASSUME NEW r \in Requests, CallerStep(r) PROVE ControlInv'
  BY <1>1, EnqueueStep, ReadFirstFrameStep, StreamBodyStep, GiveUpStep, CloseBodyStep, ExpireStep
     DEF CallerStep
<1>2. ASSUME NEW r \in Requests, ExecutionStep(r) PROVE ControlInv'
  BY <1>2, BeginStep, RespondStep, CallFailsStep, CallStoppedStep, ReadBodyStep, ReadEndStep,
     UploadStep, UploadAcceptedStep, UploadUnansweredStep, UploadStoppedStep DEF ExecutionStep
<1>3. CASE LoopStep
  BY <1>3, PollStep, DispatchCancelStep, DispatchExpiredStep, AnswerInlineStep, SpawnStep
     DEF LoopStep
<1>4. CASE Crash
  BY <1>4, CrashStep
<1>5. CASE LateUpload
  BY <1>5, LateUploadStep
<1>6. CASE UNCHANGED vars
  <2>1. UNCHANGED <<direct, kind, stream, ack, frames, caller, expired, worker, execution, late>>
    BY <1>6 DEF vars
  <2>2. /\ ack \in Nat /\ ack <= Len(stream) /\ worker \in Worker /\ worker.cursor <= Len(stream)
    BY DEF ControlInv, TypeInv
  <2>3. BatchInv' /\ (\A i \in Nat : Past(i) => Past(i)')
    BY <2>1 DEF ControlInv, BatchInv, Past
  <2> QED
    BY <2>1, <2>2, <2>3, WorkerGoesOn
<1> QED
  BY <1>1, <1>2, <1>3, <1>4, <1>5, <1>6 DEF Next

(* The invariant holds in every state, for any number of requests, slots,  *)
(* frames and crashes.                                                     *)
THEOREM ControlInvariance == Spec => []ControlInv
<1>1. Init => ControlInv
  BY InitStep
<1>2. ControlInv /\ [Next]_vars => ControlInv'
  BY InductionStep
<1> QED
  BY <1>1, <1>2, PTL DEF Spec

(* Every variable has its type: the acknowledgement and the cursor stay    *)
(* within the stream, a caller has not read what is not there.             *)
THEOREM ControlTypeCorrectness == Spec => []ControlTypeOK
<1>1. ControlInv => ControlTypeOK
  <2> SUFFICES ASSUME ControlInv PROVE ControlTypeOK
    OBVIOUS
  <2>1. ASSUME NEW r \in Requests
        PROVE  /\ caller[r].pc \in {"idle", "left", "waiting", "reading", "closed", "failed"}
               /\ caller[r].read \in 0 .. Len(frames[r])
               /\ execution[r].pc \in {"none", "spawned", "calling", "reading",
                                       "posting", "posted", "done", "dropped"}
               /\ execution[r].sent \in 0 .. Chunks
               /\ execution[r].batch \in Seq(Frame)
               /\ execution[r].pc \in {"posting", "posted"} => execution[r].batch # <<>>
    BY DEF ControlInv, TypeInv, Caller, Execution
  <2>2. worker.life \in Lives /\ worker.cursor \in 0 .. Len(stream)
    BY DEF ControlInv, TypeInv, Worker
  <2>3. \A i \in 1 .. Len(worker.batch) :
           worker.batch[i] \in worker.cursor + 1 .. Len(stream)
    BY DEF ControlInv, BatchInv
  <2> QED
    BY <2>1, <2>2, <2>3 DEF ControlInv, TypeInv, ControlTypeOK
<1> QED
  BY <1>1, ControlInvariance, PTL

(* A cancel that the worker has handled found its target: the worker polls *)
(* a cancel behind the command it is for, and the response whose reader    *)
(* sent it was begun by an execution that had entered `active'.            *)
THEOREM CancelIsHeard == Spec => []CancelReachesExecution
<1>1. ControlInv => CancelReachesExecution
  BY DEF ControlInv, CancelInv, CancelReachesExecution
<1> QED
  BY <1>1, ControlInvariance, PTL

(* A command whose last frame was accepted is not executed again: it is    *)
(* acknowledged and behind the worker, and the worker spawns or answers    *)
(* only what is not.                                                       *)
THEOREM ExecutedOnce == Spec => DoneIsFinal
<1>1. ControlInv /\ [Next]_vars
         => [\A r \in Requests : execution[r].pc = "done" => execution'[r].pc = "done"]_vars
  <2> SUFFICES ASSUME ControlInv, Next, NEW r \in Requests, execution[r].pc = "done"
               PROVE  execution'[r].pc = "done"
    OBVIOUS
  <2>0. execution \in [Requests -> Execution] /\ execution[r] \in Execution
    BY DEF ControlInv, TypeInv
  <2>1. ASSUME NEW q \in Requests, NEW e, execution' = [execution EXCEPT ![q] = e],
               q = r => e.pc = "done"
        PROVE  execution'[r].pc = "done"
    BY <2>0, <2>1
  <2>2. CASE execution' = execution
    BY <2>2
  <2>3. ASSUME NEW q \in Requests, CallerStep(q) PROVE execution'[r].pc = "done"
    <3>1. execution' = execution \/ Expire(q)
      BY <2>3 DEF CallerStep, Enqueue, ReadFirstFrame, StreamBody, GiveUp, CloseBody
    <3>2. Expire(q) => execution'[r].pc = "done"
      BY <2>0 DEF Expire, Execution
    <3> QED
      BY <2>2, <3>1, <3>2
  <2>4. ASSUME NEW q \in Requests, ExecutionStep(q) PROVE execution'[r].pc = "done"
    <3>1. execution[q].pc # "done" /\ \E e : Going(q, e)
      BY <2>4 DEF ExecutionStep, Begin, Respond, CallFails, CallStopped, ReadBody, ReadEnd,
                  Upload, UploadAccepted, UploadUnanswered, UploadStopped
    <3> QED
      BY <2>1, <3>1 DEF Going
  <2>5. CASE LoopStep
    <3>1. CASE Poll \/ DispatchExpired
      BY <2>2, <3>1 DEF Poll, DispatchExpired
    <3>2. CASE DispatchCancel
      BY <2>0, <3>2 DEF DispatchCancel, Execution
    <3>3. CASE AnswerInline
      BY <2>0, <3>3 DEF AnswerInline, Execution
    <3>4. CASE Spawn
      <4>1. worker.batch # <<>> /\ ~Next_.cancel
        BY <3>4 DEF Spawn
      <4>2. /\ Next_.request \in Requests /\ Position \in Commands(Next_.request)
            /\ ~Past(Position)
        BY <4>1, PositionIs
      <4>3. Next_.request # r
        BY <4>2 DEF ControlInv, PastInv
      <4> QED
        BY <2>0, <3>4, <4>3 DEF Spawn
    <3> QED
      BY <2>5, <3>1, <3>2, <3>3, <3>4 DEF LoopStep
  <2>6. CASE Crash
    BY <2>6 DEF Crash
  <2>7. CASE LateUpload
    BY <2>2, <2>7 DEF LateUpload
  <2> QED
    BY <2>3, <2>4, <2>5, <2>6, <2>7 DEF Next
<1> QED
  BY <1>1, ControlInvariance, PTL DEF Spec, DoneIsFinal

(* What a caller reads of an event stream or of a small response comes from*)
(* one execution, in its order, without a gap.                             *)
THEOREM OneExecutionReplies == Spec => []ReplyIsOneExecution
<1>1. ControlInv => ReplyIsOneExecution
  <2> SUFFICES ASSUME ControlInv, NEW r \in Requests, kind[r] # "large", NEW i \in Body(r)
               PROVE  /\ \A j \in Body(r) : /\ frames[r][j].life = frames[r][i].life
                                            /\ j < i => frames[r][j].seq < frames[r][i].seq
                      /\ frames[r][i].seq > 1 =>
                            \E j \in Body(r) : frames[r][j].seq = frames[r][i].seq - 1
    BY DEF ReplyIsOneExecution
  <2>1. /\ frames[r] \in Seq(Frame) /\ Len(frames[r]) \in Nat /\ caller[r].read \in Nat
        /\ caller[r].read <= Len(frames[r]) /\ kind[r] \in {"small", "event_stream"}
    BY DEF ControlInv, TypeInv, Caller, Kinds
  <2>2. \A j \in Body(r) : /\ j \in 1 .. caller[r].read /\ j \in 1 .. Len(frames[r]) /\ j \in Nat
                           /\ frames[r][j].seq > 0
                           /\ \A k \in 1 .. j : ~frames[r][k].done
    BY <2>1 DEF Body
  <2>3. CASE kind[r] = "small"
    <3>1. frames[r] # <<>>
      BY <2>1, <2>2
    <3>2. PICK n \in 1 .. Len(frames[r]) : frames[r][n].done /\ Begins(frames[r], n)
      BY <2>3, <3>1 DEF ControlInv, ReplyInv, SmallOK
    <3>3. \A j \in Body(r) : j < n
      BY <2>1, <2>2, <3>2
    <3>4. \A j \in 1 .. n : frames[r][j].seq = j - 1 /\ frames[r][j].life = frames[r][1].life
      BY <3>2 DEF Begins
    <3>5. \A j \in Body(r) : frames[r][j].seq = j - 1 /\ frames[r][j].life = frames[r][1].life
      BY <2>1, <2>2, <3>3, <3>4
    <3>6. ASSUME frames[r][i].seq > 1
          PROVE  i - 1 \in Body(r) /\ frames[r][i - 1].seq = frames[r][i].seq - 1
      <4>1. i - 1 \in 1 .. caller[r].read /\ i - 1 \in 1 .. n /\ i > 2
        BY <2>1, <2>2, <3>3, <3>5, <3>6
      <4>2. frames[r][i - 1].seq = i - 1 - 1 /\ frames[r][i].seq = i - 1
        BY <3>4, <3>5, <4>1
      <4>3. \A k \in 1 .. i - 1 : k \in 1 .. i
        BY <2>2
      <4> QED
        BY <2>2, <4>1, <4>2, <4>3 DEF Body
    <3> QED
      BY <2>2, <3>5, <3>6
  <2>4. CASE kind[r] = "event_stream"
    <3>1. PartsOK(r)
      BY <2>4 DEF ControlInv, ReplyInv
    <3>2. \A j \in Body(r) : j \in Parts(r)
      BY <2>2 DEF Parts
    <3>3. ASSUME frames[r][i].seq > 1
          PROVE  \E j \in Body(r) : frames[r][j].seq = frames[r][i].seq - 1
      <4>1. PICK j \in Parts(r) : j < i /\ frames[r][j].seq = frames[r][i].seq - 1
        BY <3>1, <3>2, <3>3 DEF PartsOK
      <4>2. j \in 1 .. Len(frames[r]) /\ frames[r][j].seq > 0
        BY DEF Parts
      <4>3. j \in 1 .. caller[r].read /\ \A k \in 1 .. j : k \in 1 .. i
        BY <2>1, <2>2, <4>1, <4>2
      <4> QED
        BY <2>2, <4>1, <4>2, <4>3 DEF Body
    <3> QED
      BY <3>1, <3>2, <3>3 DEF PartsOK
  <2> QED
    BY <2>1, <2>3, <2>4
<1> QED
  BY <1>1, ControlInvariance, PTL
=============================================================================
