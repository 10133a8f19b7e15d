------------------------------- MODULE Duplex -------------------------------
(***************************************************************************)
(* The traffic of a session that runs: the pipelines between the two       *)
(* sources and the two sinks, for as much data as comes.                   *)
(*                                                                         *)
(* On each side one router task (src/router.rs) serves both directions,    *)
(* and its one handler queue holds the frames that were received beside    *)
(* those that are to be sent.  Module Session has everything around it,    *)
(* for a few chunks; here the data is not counted, so that every queue can *)
(* fill and the question is what then still moves.  All frames are alike.  *)
(***************************************************************************)
EXTENDS Naturals, Sequences, FiniteSets

CONSTANTS HandlerCap,   \* capacity of the handler queue (64 in the code)
          PeerCap,      \* capacity of the peer queue (64 in the code)
          ChanCap,      \* capacity of a ChannelReceiver's queue (64 in the code)
          WireCap,      \* frames the ssh connection buffers in one direction
          PipeCap       \* chunks that the child's stdin, or local stdout, buffers

ASSUME DuplexAssumption ==
    /\ HandlerCap \in Nat \ {0} /\ PeerCap \in Nat \ {0} /\ ChanCap \in Nat \ {0}
    /\ WireCap \in Nat \ {0} /\ PipeCap \in Nat \ {0}

Side == {"Local", "Remote"}
Other(s) == IF s = "Local" THEN "Remote" ELSE "Local"

VARIABLES
    feeds,    \* the sides whose source has something to read
    src,      \* the source holds a frame and waits to send it
    handler,  \* the handler queue: Recv and Send commands
    job,      \* what the router has taken: none, for the chan or for the peer queue
    peer,     \* number of frames in the peer queue
    out,      \* the sender holds a frame
    wire,     \* number of frames written and not yet read by the other side
    in,       \* the receiver holds a frame
    chan,     \* number of chunks in the sink's channel
    pipe      \* number of chunks in what the sink writes to: the child's stdin on the
              \* remote side, local stdout (a pipe, a terminal) on the local one

vars == <<feeds, src, handler, job, peer, out, wire, in, chan, pipe>>

Init == /\ feeds \in SUBSET Side
        /\ src = [s \in Side |-> FALSE]
        /\ handler = [s \in Side |-> <<>>]
        /\ job = [s \in Side |-> "none"]
        /\ peer = [s \in Side |-> 0]
        /\ out = [s \in Side |-> FALSE]
        /\ wire = [s \in Side |-> 0]
        /\ in = [s \in Side |-> FALSE]
        /\ chan = [s \in Side |-> 0]
        /\ pipe = [s \in Side |-> 0]

-----------------------------------------------------------------------------
(* When a task can go on.                                                   *)

Room(s) == Len(handler[s]) < HandlerCap

CanPush(s) == src[s] /\ Room(s)
CanTake(s) == job[s] = "none" /\ handler[s] # <<>>
CanDeliver(s) == job[s] = "chan" /\ chan[s] < ChanCap
CanForward(s) == job[s] = "peer" /\ peer[s] < PeerCap
CanSend(s) == ~out[s] /\ peer[s] > 0

\* Mutant: feed in place of send: a frame is flushed by the one after it.
CanWriteUnflushed(s) == out[s] /\ wire[s] < WireCap /\ peer[s] > 0

CanWrite(s) == out[s] /\ wire[s] < WireCap
CanRead(s) == ~in[s] /\ wire[Other(s)] > 0

\* Mutant: an unbounded handler queue.
CanReceiveUnbounded(s) == in[s]

CanReceive(s) == in[s] /\ Room(s)
CanSink(s) == chan[s] > 0 /\ pipe[s] < PipeCap

-----------------------------------------------------------------------------
(* endpoint/source.rs                                                       *)

Read(s) == /\ s \in feeds /\ ~src[s]
           /\ src' = [src EXCEPT ![s] = TRUE]
           /\ UNCHANGED <<feeds, handler, job, peer, out, wire, in, chan, pipe>>

SourcePush(s) == /\ CanPush(s)
                 /\ src' = [src EXCEPT ![s] = FALSE]
                 /\ handler' = [handler EXCEPT ![s] = Append(@, "send")]
                 /\ UNCHANGED <<feeds, job, peer, out, wire, in, chan, pipe>>

(* router.rs: the router task.                                              *)

\* Mutant: what was received is sent back.
RouterTakeEchoes(s) == /\ CanTake(s)
                       /\ handler' = [handler EXCEPT ![s] = Tail(@)]
                       /\ job' = [job EXCEPT ![s] = "peer"]
                       /\ UNCHANGED <<feeds, src, peer, out, wire, in, chan, pipe>>

RouterTake(s) ==
    /\ CanTake(s)
    /\ handler' = [handler EXCEPT ![s] = Tail(@)]
    /\ job' = [job EXCEPT ![s] = IF Head(handler[s]) = "recv" THEN "chan" ELSE "peer"]
    /\ UNCHANGED <<feeds, src, peer, out, wire, in, chan, pipe>>

RouterDeliver(s) == /\ CanDeliver(s)
                    /\ chan' = [chan EXCEPT ![s] = @ + 1]
                    /\ job' = [job EXCEPT ![s] = "none"]
                    /\ UNCHANGED <<feeds, src, handler, peer, out, wire, in, pipe>>

\* Mutant: try_send in place of send: a frame without room is dropped.
RouterForwardTrySend(s) == /\ job[s] = "peer"
                           /\ peer' = [peer EXCEPT ![s] = IF @ < PeerCap THEN @ + 1 ELSE @]
                           /\ job' = [job EXCEPT ![s] = "none"]
                           /\ UNCHANGED <<feeds, src, handler, out, wire, in, chan, pipe>>

RouterForward(s) == /\ CanForward(s)
                    /\ peer' = [peer EXCEPT ![s] = @ + 1]
                    /\ job' = [job EXCEPT ![s] = "none"]
                    /\ UNCHANGED <<feeds, src, handler, out, wire, in, chan, pipe>>

(* router.rs: the sender and the receiver task.                             *)

SenderTake(s) == /\ CanSend(s)
                 /\ peer' = [peer EXCEPT ![s] = @ - 1]
                 /\ out' = [out EXCEPT ![s] = TRUE]
                 /\ UNCHANGED <<feeds, src, handler, job, wire, in, chan, pipe>>

SenderWrite(s) == /\ CanWrite(s)
                  /\ out' = [out EXCEPT ![s] = FALSE]
                  /\ wire' = [wire EXCEPT ![s] = @ + 1]
                  /\ UNCHANGED <<feeds, src, handler, job, peer, in, chan, pipe>>

ReceiverRead(s) == /\ CanRead(s)
                   /\ wire' = [wire EXCEPT ![Other(s)] = @ - 1]
                   /\ in' = [in EXCEPT ![s] = TRUE]
                   /\ UNCHANGED <<feeds, src, handler, job, peer, out, chan, pipe>>

ReceiverPush(s) == /\ CanReceive(s)
                   /\ in' = [in EXCEPT ![s] = FALSE]
                   /\ handler' = [handler EXCEPT ![s] = Append(@, "recv")]
                   /\ UNCHANGED <<feeds, src, job, peer, out, wire, chan, pipe>>

(* endpoint/sink.rs: write_all waits for room.                              *)

SinkWrite(s) == /\ CanSink(s)
                /\ chan' = [chan EXCEPT ![s] = @ - 1]
                /\ pipe' = [pipe EXCEPT ![s] = @ + 1]
                /\ UNCHANGED <<feeds, src, handler, job, peer, out, wire, in>>

\* Who is at the other end reads if it likes: the child its stdin; a pager, or the
\* terminal, what login writes.
PipeReads(s) == /\ pipe[s] > 0
                /\ pipe' = [pipe EXCEPT ![s] = @ - 1]
                /\ UNCHANGED <<feeds, src, handler, job, peer, out, wire, in, chan>>

-----------------------------------------------------------------------------
Router(s) == RouterTake(s) \/ RouterDeliver(s) \/ RouterForward(s)
Sender(s) == SenderTake(s) \/ SenderWrite(s)

Next == \E s \in Side : \/ Read(s) \/ SourcePush(s) \/ Router(s) \/ Sender(s)
                         \/ ReceiverRead(s) \/ ReceiverPush(s) \/ SinkWrite(s)
                         \/ PipeReads(s)

Spec == Init /\ [][Next]_vars

-----------------------------------------------------------------------------
(* Properties.                                                              *)

\* Every variable has its type and every queue keeps to its capacity.
QueueType == {q \in Seq({"recv", "send"}) : Len(q) <= HandlerCap}
TypeOK == /\ feeds \in SUBSET Side
          /\ src \in [Side -> BOOLEAN]
          /\ handler \in [Side -> QueueType]
          /\ job \in [Side -> {"none", "chan", "peer"}]
          /\ peer \in [Side -> 0 .. PeerCap]
          /\ out \in [Side -> BOOLEAN]
          /\ wire \in [Side -> 0 .. WireCap]
          /\ in \in [Side -> BOOLEAN]
          /\ chan \in [Side -> 0 .. ChanCap]
          /\ pipe \in [Side -> 0 .. PipeCap]

\* No task can go on: the next step is a user's or a reader's, or there is none.
Halted == \A s \in Side :
    ~ \/ CanPush(s) \/ CanTake(s) \/ CanDeliver(s) \/ CanForward(s) \/ CanSend(s)
      \/ CanWrite(s) \/ CanRead(s) \/ CanReceive(s) \/ CanSink(s)

\* Nothing is under way.
Idle == \A s \in Side :
    /\ ~src[s] /\ handler[s] = <<>> /\ job[s] = "none" /\ peer[s] = 0
    /\ ~out[s] /\ wire[s] = 0 /\ ~in[s] /\ chan[s] = 0

\* Both routers wait for their peer queue; every queue between them is full.
Jam == \A s \in Side :
    /\ job[s] = "peer" /\ peer[s] = PeerCap /\ out[s] /\ wire[s] = WireCap
    /\ in[s] /\ Len(handler[s]) = HandlerCap

\* The child has left its stdin full, or local stdout is full and nobody reads it,
\* and there is more for it.
Unread(s) == chan[s] > 0 /\ pipe[s] = PipeCap

\* The tasks come to a halt only when all is delivered, or the child does not read its
\* stdin, or nobody reads local stdout, or both directions wait for each other: a task
\* never waits for room that the other tasks of the two pipelines could make.
HaltsOnlyStuck == Halted => Idle \/ (\E s \in Side : Unread(s)) \/ Jam

\* A jam is for ever: neither the sinks that go on nor who reads what they write
\* resolve it.
JamIsForever == [][Jam => Jam']_vars

\* It takes data in both directions.
OneWayNeverJams == feeds # Side => ~Jam

\* How many places of a queue hold a command k; how many frames a task holds.
Queued(q, k) == Cardinality({i \in 1 .. Len(q) : q[i] = k})
Held(b) == IF b THEN 1 ELSE 0

\* Every step of a task takes one frame one place further, and no step loses a frame,
\* makes one or sends one back: Work is the number of steps the frames under way have
\* still to go.  So the tasks halt after that many steps when nothing more is read.
Sending(s) ==
    10 * Held(src[s]) + 9 * Queued(handler[s], "send") + 8 * Held(job[s] = "peer")
Crossing(s) == 7 * peer[s] + 6 * Held(out[s]) + 5 * wire[s] + 4 * Held(in[s])
Arriving(s) == 3 * Queued(handler[s], "recv") + 2 * Held(job[s] = "chan") + chan[s]
Steps(s) == Sending(s) + Crossing(s) + Arriving(s)
Work == Steps("Local") + Steps("Remote")
EveryStepCounts ==
    [][Work' = IF \E s \in Side : Read(s) THEN Work + 10
               ELSE IF \E s \in Side : PipeReads(s) THEN Work ELSE Work - 1]_vars
=============================================================================
