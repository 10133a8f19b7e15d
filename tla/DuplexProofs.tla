---------------------------- MODULE DuplexProofs ----------------------------
(***************************************************************************)
(* Proofs about Duplex: the ways in which the two pipelines of a session   *)
(* come to a halt, for queues of any capacity and any amount of data.      *)
(***************************************************************************)
EXTENDS Duplex, FiniteSetTheorems, TLAPS

-----------------------------------------------------------------------------
(* Types.                                                                   *)

\* The capacities are positive numbers.
LEMMA Capacities ==
  /\ HandlerCap \in Nat /\ PeerCap \in Nat /\ ChanCap \in Nat /\ WireCap \in Nat
  /\ PipeCap \in Nat
  /\ HandlerCap > 0 /\ PeerCap > 0 /\ ChanCap > 0 /\ WireCap > 0 /\ PipeCap > 0
  BY DuplexAssumption

\* A command joins a queue that has room, and the head of a queue leaves it.
LEMMA QueueSteps ==
  ASSUME NEW q \in QueueType
  PROVE  /\ \A c \in {"recv", "send"} : Len(q) < HandlerCap => Append(q, c) \in QueueType
         /\ q # <<>> => Tail(q) \in QueueType /\ Head(q) \in {"recv", "send"}
  BY Capacities DEF QueueType

LEMMA InitType == Init => TypeOK
<1>1. <<>> \in QueueType
  <2>1. Len(<<>>) = 0 /\ <<>> \in Seq({"recv", "send"})
    OBVIOUS
  <2>2. QED
    BY <2>1, Capacities DEF QueueType
<1>2. 0 \in 0 .. PeerCap /\ 0 \in 0 .. WireCap /\ 0 \in 0 .. ChanCap /\ 0 \in 0 .. PipeCap
  BY Capacities
<1>3. QED
  BY <1>1, <1>2 DEF Init, TypeOK

\* A step of any task, of a user or of a reader keeps the types.
LEMMA StepType == TypeOK /\ [Next]_vars => TypeOK'
<1> SUFFICES ASSUME TypeOK, [Next]_vars PROVE TypeOK'
  OBVIOUS
<1> USE Capacities DEF TypeOK
<1>1. ASSUME NEW s \in Side, Read(s) PROVE TypeOK'
  BY <1>1 DEF Read
<1>2. ASSUME NEW s \in Side, SourcePush(s) PROVE TypeOK'
  <2>1. Append(handler[s], "send") \in QueueType
    BY <1>2, QueueSteps DEF SourcePush, CanPush, Room
  <2>2. QED
    BY <1>2, <2>1 DEF SourcePush
<1>3. ASSUME NEW s \in Side, RouterTake(s) PROVE TypeOK'
  <2>1. Tail(handler[s]) \in QueueType
    BY <1>3, QueueSteps DEF RouterTake, CanTake
  <2>2. QED
    BY <1>3, <2>1 DEF RouterTake
<1>4. ASSUME NEW s \in Side, RouterDeliver(s) PROVE TypeOK'
  <2>1. chan[s] + 1 \in 0 .. ChanCap
    BY <1>4 DEF RouterDeliver, CanDeliver
  <2>2. QED
    BY <1>4, <2>1 DEF RouterDeliver
<1>5. ASSUME NEW s \in Side, RouterForward(s) PROVE TypeOK'
  <2>1. peer[s] + 1 \in 0 .. PeerCap
    BY <1>5 DEF RouterForward, CanForward
  <2>2. QED
    BY <1>5, <2>1 DEF RouterForward
<1>6. ASSUME NEW s \in Side, SenderTake(s) PROVE TypeOK'
  <2>1. peer[s] - 1 \in 0 .. PeerCap
    BY <1>6 DEF SenderTake, CanSend
  <2>2. QED
    BY <1>6, <2>1 DEF SenderTake
<1>7. ASSUME NEW s \in Side, SenderWrite(s) PROVE TypeOK'
  <2>1. wire[s] + 1 \in 0 .. WireCap
    BY <1>7 DEF SenderWrite, CanWrite
  <2>2. QED
    BY <1>7, <2>1 DEF SenderWrite
<1>8. ASSUME NEW s \in Side, ReceiverRead(s) PROVE TypeOK'
  <2>1. Other(s) \in Side
    BY DEF Other, Side
  <2>2. wire[Other(s)] - 1 \in 0 .. WireCap
    BY <1>8, <2>1 DEF ReceiverRead, CanRead
  <2>3. QED
    BY <1>8, <2>1, <2>2 DEF ReceiverRead
<1>9. ASSUME NEW s \in Side, ReceiverPush(s) PROVE TypeOK'
  <2>1. Append(handler[s], "recv") \in QueueType
    BY <1>9, QueueSteps DEF ReceiverPush, CanReceive, Room
  <2>2. QED
    BY <1>9, <2>1 DEF ReceiverPush
<1>10. ASSUME NEW s \in Side, SinkWrite(s) PROVE TypeOK'
  <2>1. chan[s] - 1 \in 0 .. ChanCap
    BY <1>10 DEF SinkWrite, CanSink
  <2>2. pipe[s] + 1 \in 0 .. PipeCap
    BY <1>10 DEF SinkWrite, CanSink
  <2>3. QED
    BY <1>10, <2>1, <2>2 DEF SinkWrite
<1>11. ASSUME NEW s \in Side, PipeReads(s) PROVE TypeOK'
  <2>1. pipe[s] - 1 \in 0 .. PipeCap
    BY <1>11 DEF PipeReads
  <2>2. QED
    BY <1>11, <2>1 DEF PipeReads
<1>12. CASE UNCHANGED vars
  BY <1>12 DEF vars
<1>13. QED
  BY <1>1, <1>2, <1>3, <1>4, <1>5, <1>6, <1>7, <1>8, <1>9, <1>10, <1>11, <1>12
  DEF Next, Router, Sender

\* Every queue keeps to its capacity, for any capacities.
THEOREM DuplexTypes == Spec => []TypeOK
  BY InitType, StepType, PTL DEF Spec

-----------------------------------------------------------------------------
(* How the tasks come to a halt.                                            *)

\* A side whose router has nothing to do leaves nothing to do to the other side's
\* sender, and the frames of the other side have all arrived.
LEMMA QuietSide ==
  ASSUME TypeOK, Halted, NEW s \in Side, NEW o \in Side, o = Other(s), job[s] = "none"
  PROVE  /\ handler[s] = <<>> /\ ~src[s] /\ ~in[s]
         /\ wire[o] = 0 /\ ~out[o] /\ peer[o] = 0 /\ job[o] # "peer"
<1>1. handler[s] = <<>>
  BY DEF Halted, CanTake
<1>2. Room(s)
  <2>1. Len(handler[s]) = 0
    BY <1>1
  <2>2. QED
    BY <2>1, Capacities DEF Room
<1>3. ~src[s] /\ ~in[s]
  BY <1>2 DEF Halted, CanPush, CanReceive
<1>4. wire[o] = 0
  <2>1. ~(wire[o] > 0)
    BY <1>3 DEF Halted, CanRead
  <2>2. QED
    BY <2>1, Capacities DEF TypeOK
<1>5. ~out[o]
  BY <1>4, Capacities DEF Halted, CanWrite
<1>6. peer[o] = 0
  <2>1. ~(peer[o] > 0)
    BY <1>5 DEF Halted, CanSend
  <2>2. QED
    BY <2>1, Capacities DEF TypeOK
<1>7. job[o] # "peer"
  BY <1>6, Capacities DEF Halted, CanForward
<1>8. QED
  BY <1>1, <1>3, <1>4, <1>5, <1>6, <1>7

\* A halted router that waits for its peer queue has everything before it full.
LEMMA FullSide ==
  ASSUME TypeOK, Halted, NEW s \in Side, job[s] = "peer"
  PROVE  peer[s] = PeerCap /\ out[s] /\ wire[s] = WireCap
<1>1. peer[s] = PeerCap
  <2>1. ~(peer[s] < PeerCap)
    BY DEF Halted, CanForward
  <2>2. QED
    BY <2>1, Capacities DEF TypeOK
<1>2. out[s]
  BY <1>1, Capacities DEF Halted, CanSend
<1>3. wire[s] = WireCap
  <2>1. ~(wire[s] < WireCap)
    BY <1>2 DEF Halted, CanWrite
  <2>2. QED
    BY <2>1, Capacities DEF TypeOK
<1>4. QED
  BY <1>1, <1>2, <1>3

\* When no task can go on, everything is delivered, or somebody does not read what a sink
\* has written, or the two directions wait for each other.
LEMMA HaltedStates == TypeOK => HaltsOnlyStuck
<1> SUFFICES ASSUME TypeOK, Halted, \A s \in Side : ~Unread(s) PROVE Idle \/ Jam
  BY DEF HaltsOnlyStuck
<1>1. \A s \in Side : chan[s] = 0
  <2>1. \A s \in Side : ~(chan[s] > 0)
    <3>1. TAKE s \in Side
    <3>2. ~(chan[s] > 0 /\ pipe[s] < PipeCap)
      BY DEF Halted, CanSink
    <3>3. chan[s] > 0 => pipe[s] < PipeCap
      BY Capacities DEF Unread, TypeOK
    <3>4. QED
      BY <3>2, <3>3
  <2>2. QED
    BY <2>1, Capacities DEF TypeOK
<1>2. \A s \in Side : job[s] \in {"none", "peer"}
  BY <1>1, Capacities DEF Halted, CanDeliver, TypeOK
<1>3. /\ Side = {"Local", "Remote"}
      /\ Other("Local") = "Remote" /\ Other("Remote") = "Local"
  BY DEF Side, Other
<1>4. CASE job["Local"] = "none"
  <2>1. /\ handler["Local"] = <<>> /\ ~src["Local"] /\ ~in["Local"]
        /\ wire["Remote"] = 0 /\ ~out["Remote"] /\ peer["Remote"] = 0
        /\ job["Remote"] # "peer"
    BY <1>3, <1>4, QuietSide
  <2>2. job["Remote"] = "none"
    BY <1>2, <1>3, <2>1
  <2>3. /\ handler["Remote"] = <<>> /\ ~src["Remote"] /\ ~in["Remote"]
        /\ wire["Local"] = 0 /\ ~out["Local"] /\ peer["Local"] = 0
    BY <1>3, <2>2, QuietSide
  <2>4. Idle
    BY <1>1, <1>3, <1>4, <2>1, <2>2, <2>3 DEF Idle
  <2>5. QED
    BY <2>4
<1>5. CASE job["Remote"] = "none"
  <2>1. job["Local"] # "peer"
    BY <1>3, <1>5, QuietSide
  <2>2. QED
    BY <1>2, <1>3, <1>4, <2>1
<1>6. CASE job["Local"] = "peer" /\ job["Remote"] = "peer"
  <2>1. \A s \in Side : job[s] = "peer"
    BY <1>3, <1>6
  <2>2. \A s \in Side : peer[s] = PeerCap /\ out[s] /\ wire[s] = WireCap
    BY <2>1, FullSide
  <2>3. \A s \in Side : in[s] /\ Len(handler[s]) = HandlerCap
    <3>1. TAKE s \in Side
    <3>2. wire[Other(s)] > 0
      BY <1>3, <2>2, Capacities
    <3>3. in[s]
      BY <3>2 DEF Halted, CanRead
    <3>4. ~(Len(handler[s]) < HandlerCap)
      BY <3>3 DEF Halted, CanReceive, Room
    <3>5. handler[s] \in Seq({"recv", "send"}) /\ Len(handler[s]) <= HandlerCap
      BY DEF TypeOK, QueueType
    <3>6. QED
      BY <3>3, <3>4, <3>5, Capacities
  <2>4. QED
    BY <2>1, <2>2, <2>3 DEF Jam
<1>7. QED
  BY <1>2, <1>3, <1>4, <1>5, <1>6

\* Whatever the capacities, the tasks halt only when all is delivered, when the child or
\* the reader of local stdout does not read, or in a jam.
THEOREM DuplexHalts == Spec => []HaltsOnlyStuck
  BY DuplexTypes, HaltedStates, PTL

-----------------------------------------------------------------------------
(* The jam.                                                                 *)

\* No step leads out of a jam: only a source that reads, a sink and its reader move.
LEMMA JamStep == TypeOK /\ Jam /\ [Next]_vars => Jam'
<1> SUFFICES ASSUME TypeOK, Jam, [Next]_vars PROVE Jam'
  OBVIOUS
<1>1. \A s \in Side : /\ ~CanTake(s) /\ ~CanDeliver(s) /\ ~CanForward(s) /\ ~CanSend(s)
                      /\ ~CanWrite(s) /\ ~CanRead(s) /\ ~Room(s)
  BY Capacities DEF Jam, CanTake, CanDeliver, CanForward, CanSend, CanWrite, CanRead, Room
<1>2. ASSUME NEW s \in Side, Read(s) PROVE Jam'
  BY <1>2 DEF Read, Jam
<1>3. ASSUME NEW s \in Side, SinkWrite(s) PROVE Jam'
  BY <1>3 DEF SinkWrite, Jam
<1>4. ASSUME NEW s \in Side, PipeReads(s) PROVE Jam'
  BY <1>4 DEF PipeReads, Jam
<1>5. ASSUME NEW s \in Side,
             SourcePush(s) \/ Router(s) \/ Sender(s) \/ ReceiverRead(s) \/ ReceiverPush(s)
      PROVE  FALSE
  BY <1>1, <1>5
  DEF SourcePush, Router, RouterTake, RouterDeliver, RouterForward, Sender, SenderTake,
      SenderWrite, ReceiverRead, ReceiverPush, CanPush, CanReceive
<1>6. CASE UNCHANGED vars
  BY <1>6 DEF vars, Jam
<1>7. QED
  BY <1>2, <1>3, <1>4, <1>5, <1>6 DEF Next

\* A jam is for ever.
THEOREM JamStays == Spec => JamIsForever
<1>1. TypeOK /\ [Next]_vars => [Jam => Jam']_vars
  BY JamStep
<1>2. QED
  BY <1>1, DuplexTypes, PTL DEF Spec, JamIsForever

\* A side whose source reads nothing has nothing to send.
SilentSides == \A s \in Side \ feeds :
    /\ ~src[s] /\ handler[s] \in Seq({"recv"}) /\ job[s] # "peer"
    /\ peer[s] = 0 /\ ~out[s]

LEMMA SilentStep == TypeOK /\ SilentSides /\ [Next]_vars => SilentSides'
<1> SUFFICES ASSUME TypeOK, SilentSides, [Next]_vars, NEW t \in Side, t \notin feeds'
             PROVE  (/\ ~src[t] /\ handler[t] \in Seq({"recv"}) /\ job[t] # "peer"
                     /\ peer[t] = 0 /\ ~out[t])'
  BY DEF SilentSides
<1>0. feeds' = feeds
  BY DEF Next, vars, PipeReads, Read, SourcePush, Router, RouterTake, RouterDeliver,
         RouterForward, Sender, SenderTake, SenderWrite, ReceiverRead, ReceiverPush, SinkWrite
<1>1. /\ ~src[t] /\ handler[t] \in Seq({"recv"}) /\ job[t] # "peer"
      /\ peer[t] = 0 /\ ~out[t]
  BY <1>0 DEF SilentSides
<1>2. ASSUME NEW s \in Side, Read(s) \/ SourcePush(s)
      PROVE  UNCHANGED <<src[t], handler[t], job, peer, out>>
  BY <1>0, <1>1, <1>2 DEF Read, SourcePush, CanPush, TypeOK
<1>3. ASSUME NEW s \in Side, RouterTake(s)
      PROVE  /\ UNCHANGED <<src, peer, out>>
             /\ handler'[t] \in Seq({"recv"}) /\ job'[t] # "peer"
  <2>1. CASE s = t
    <3>1. handler[t] # <<>> /\ Head(handler[t]) = "recv" /\ Tail(handler[t]) \in Seq({"recv"})
      BY <1>1, <1>3, <2>1 DEF RouterTake, CanTake
    <3>2. QED
      BY <1>3, <2>1, <3>1 DEF RouterTake, TypeOK
  <2>2. CASE s # t
    BY <1>1, <1>3, <2>2 DEF RouterTake, TypeOK
  <2>3. QED
    BY <2>1, <2>2
<1>4. ASSUME NEW s \in Side, RouterDeliver(s) \/ RouterForward(s)
      PROVE  /\ UNCHANGED <<src, handler, peer[t], out>> /\ job'[t] # "peer"
  BY <1>1, <1>4 DEF RouterDeliver, RouterForward, CanForward, TypeOK
<1>5. ASSUME NEW s \in Side, Sender(s)
      PROVE  UNCHANGED <<src, handler, job, peer[t], out[t]>>
  BY <1>1, <1>5 DEF Sender, SenderTake, SenderWrite, CanSend, CanWrite, TypeOK
<1>6. ASSUME NEW s \in Side, ReceiverPush(s)
      PROVE  UNCHANGED <<src, job, peer, out>> /\ handler'[t] \in Seq({"recv"})
  <2>1. Append(handler[t], "recv") \in Seq({"recv"})
    BY <1>1
  <2>2. QED
    BY <1>1, <1>6, <2>1 DEF ReceiverPush, TypeOK
<1>7. ASSUME NEW s \in Side, ReceiverRead(s) \/ SinkWrite(s)
      PROVE  UNCHANGED <<src, handler, job, peer, out>>
  BY <1>7 DEF ReceiverRead, SinkWrite
<1>8. ASSUME (\E s \in Side : PipeReads(s)) \/ UNCHANGED vars
      PROVE  UNCHANGED <<src, handler, job, peer, out>>
  BY <1>8 DEF PipeReads, vars
<1>9. QED
  BY <1>1, <1>2, <1>3, <1>4, <1>5, <1>6, <1>7, <1>8 DEF Next, Router

\* As long as only one side has anything to send there is no jam, whatever the capacities.
THEOREM OneWay == Spec => []OneWayNeverJams
<1>1. Init => SilentSides
  <2>1. <<>> \in Seq({"recv"})
    OBVIOUS
  <2>2. QED
    BY <2>1 DEF Init, SilentSides
<1>2. TypeOK /\ SilentSides => OneWayNeverJams
  BY DEF TypeOK, SilentSides, OneWayNeverJams, Jam, Side
<1>3. QED
  BY <1>1, <1>2, SilentStep, DuplexTypes, PTL DEF Spec

-----------------------------------------------------------------------------
(* What is under way.                                                       *)

\* The places of a queue that hold a command k.
At(q, k) == {i \in 1 .. Len(q) : q[i] = k}

\* There are finitely many of them, and Queued is their number.
LEMMA AtFinite ==
  ASSUME NEW q \in QueueType, NEW k
  PROVE  IsFiniteSet(At(q, k)) /\ Queued(q, k) = Cardinality(At(q, k)) /\ Queued(q, k) \in Nat
<1>1. Len(q) \in Nat
  BY DEF QueueType
<1>2. IsFiniteSet(1 .. Len(q))
  BY <1>1, FS_Interval
<1>3. IsFiniteSet(At(q, k))
  BY <1>2, FS_Subset DEF At
<1>4. Queued(q, k) = Cardinality(At(q, k))
  BY DEF Queued, At
<1>5. QED
  BY <1>3, <1>4, FS_CardinalityType

\* A command that joins a queue counts once.
LEMMA QueuedAppend ==
  ASSUME NEW q \in QueueType, NEW c \in {"recv", "send"}, Append(q, c) \in QueueType, NEW k
  PROVE  Queued(Append(q, c), k) = Queued(q, k) + Held(c = k)
<1> DEFINE n == Len(q) + 1
<1>1. q \in Seq({"recv", "send"}) /\ Len(q) \in Nat
  BY DEF QueueType
<1>2. /\ Len(Append(q, c)) = n /\ Append(q, c)[n] = c
      /\ \A i \in 1 .. Len(q) : Append(q, c)[i] = q[i]
  BY <1>1
<1>3. 1 .. n = (1 .. Len(q)) \cup {n} /\ n \notin 1 .. Len(q)
  BY <1>1
<1>4. n \notin At(q, k)
  BY <1>3 DEF At
<1>5. CASE c = k
  <2>1. At(Append(q, c), k) = At(q, k) \cup {n}
    BY <1>2, <1>3, <1>5 DEF At
  <2>2. Cardinality(At(q, k) \cup {n}) = Cardinality(At(q, k)) + 1
    BY <1>4, AtFinite, FS_AddElement
  <2>3. QED
    BY <1>5, <2>1, <2>2, AtFinite DEF Held
<1>6. CASE c # k
  <2>1. At(Append(q, c), k) = At(q, k)
    BY <1>2, <1>3, <1>6 DEF At
  <2>2. QED
    BY <1>6, <2>1, AtFinite DEF Held
<1>7. QED
  BY <1>5, <1>6

\* The head of a queue that leaves it counted once.
LEMMA QueuedTail ==
  ASSUME NEW q \in QueueType, q # <<>>, NEW k
  PROVE  Queued(q, k) = Queued(Tail(q), k) + Held(Head(q) = k)
<1> DEFINE Later == At(q, k) \ {1}
<1>1. q \in Seq({"recv", "send"}) /\ Len(q) \in Nat /\ Len(q) > 0 /\ Tail(q) \in QueueType
  BY QueueSteps DEF QueueType
<1>2. /\ Len(Tail(q)) = Len(q) - 1 /\ Head(q) = q[1]
      /\ \A i \in 1 .. Len(q) - 1 : Tail(q)[i] = q[i + 1]
  BY <1>1
<1>3. Cardinality(Later) = Cardinality(At(Tail(q), k))
  <2> DEFINE f == [i \in At(Tail(q), k) |-> i + 1]
  <2>1. \A i \in At(Tail(q), k) : i \in Nat /\ i + 1 \in Later
    BY <1>1, <1>2 DEF At
  <2>2. \A j \in Later : j - 1 \in At(Tail(q), k) /\ (j - 1) + 1 = j
    BY <1>1, <1>2 DEF At
  <2>3. f \in Bijection(At(Tail(q), k), Later)
    <3>1. f \in [At(Tail(q), k) -> Later]
      BY <2>1
    <3>2. \A i, j \in At(Tail(q), k) : f[i] = f[j] => i = j
      BY <2>1
    <3>3. \A j \in Later : \E i \in At(Tail(q), k) : f[i] = j
      BY <2>2
    <3>4. QED
      BY <3>1, <3>2, <3>3 DEF Bijection, Injection, Surjection, IsInjective
  <2>4. QED
    BY <1>1, <2>3, AtFinite, FS_Bijection DEF ExistsBijection
<1>4. IsFiniteSet(At(q, k)) /\ Cardinality(At(q, k)) \in Nat /\ Cardinality(At(Tail(q), k)) \in Nat
  BY <1>1, AtFinite, FS_CardinalityType
<1>5. CASE Head(q) = k
  <2>1. 1 \in At(q, k)
    BY <1>1, <1>2, <1>5 DEF At
  <2>2. Cardinality(Later) = Cardinality(At(q, k)) - 1
    BY <1>4, <2>1, FS_RemoveElement
  <2>3. QED
    <3>1. Queued(q, k) = Cardinality(At(q, k)) /\ Queued(Tail(q), k) = Cardinality(At(Tail(q), k))
      BY <1>1, AtFinite
    <3>2. Queued(q, k) = Queued(Tail(q), k) + 1
      BY <1>3, <1>4, <2>2, <3>1
    <3>3. Held(Head(q) = k) = 1
      BY <1>5 DEF Held
    <3>4. QED
      BY <3>2, <3>3
<1>6. CASE Head(q) # k
  <2>1. 1 \notin At(q, k)
    BY <1>2, <1>6 DEF At
  <2>2. Later = At(q, k)
    BY <2>1
  <2>3. QED
    <3>1. Queued(q, k) = Cardinality(At(q, k)) /\ Queued(Tail(q), k) = Cardinality(At(Tail(q), k))
      BY <1>1, AtFinite
    <3>2. Queued(Tail(q), k) = Queued(q, k) /\ Queued(q, k) \in Nat
      BY <1>3, <1>4, <2>2, <3>1
    <3>3. Held(Head(q) = k) = 0
      BY <1>6 DEF Held
    <3>4. QED
      BY <3>2, <3>3
<1>7. QED
  BY <1>5, <1>6

\* The quantities that a side's work is made of are numbers.
Numbers(s) ==
  /\ Held(src[s]) \in Nat /\ Held(out[s]) \in Nat /\ Held(in[s]) \in Nat
  /\ Held(job[s] = "peer") \in Nat /\ Held(job[s] = "chan") \in Nat
  /\ Queued(handler[s], "send") \in Nat /\ Queued(handler[s], "recv") \in Nat
  /\ peer[s] \in Nat /\ wire[s] \in Nat /\ chan[s] \in Nat

LEMMA Quantities == TypeOK => \A s \in Side : Numbers(s)
<1> SUFFICES ASSUME TypeOK, NEW s \in Side PROVE Numbers(s)
  OBVIOUS
<1>1. /\ Held(src[s]) \in Nat /\ Held(out[s]) \in Nat /\ Held(in[s]) \in Nat
      /\ Held(job[s] = "peer") \in Nat /\ Held(job[s] = "chan") \in Nat
  BY DEF TypeOK, Held
<1>2. Queued(handler[s], "send") \in Nat /\ Queued(handler[s], "recv") \in Nat
  BY AtFinite DEF TypeOK
<1>3. QED
  BY <1>1, <1>2, Capacities DEF TypeOK, Numbers

\* What a side has still to do is a number.
Counted(s) == Steps(s) \in Nat /\ Sending(s) \in Nat /\ Crossing(s) \in Nat /\ Arriving(s) \in Nat

LEMMA StepsNat == TypeOK => \A s \in Side : Counted(s)
<1> SUFFICES ASSUME TypeOK, NEW s \in Side PROVE Counted(s)
  OBVIOUS
<1>1. Numbers(s)
  BY Quantities
<1>2. Sending(s) \in Nat
  BY <1>1 DEF Sending, Numbers
<1>3. Crossing(s) \in Nat
  BY <1>1 DEF Crossing, Numbers
<1>4. Arriving(s) \in Nat
  BY <1>1 DEF Arriving, Numbers
<1>5. QED
  BY <1>2, <1>3, <1>4 DEF Steps, Counted

\* All of them are numbers before and after a step.
LEMMA QuantitiesNext ==
  TypeOK /\ [Next]_vars =>
    \A s \in Side : Numbers(s) /\ Numbers(s)' /\ Counted(s) /\ Counted(s)'
<1>1. (TypeOK => \A s \in Side : Numbers(s))'
  BY Quantities, PTL
<1>2. (TypeOK => \A s \in Side : Counted(s))'
  BY StepsNat, PTL
<1>3. QED
  BY <1>1, <1>2, Quantities, StepsNat, StepType

\* The two sides add up.
LEMMA WorkMoves ==
  ASSUME TypeOK, NEW s \in Side, NEW d \in Int, NEW e \in Int,
         Steps(s)' = Steps(s) + d, Steps(Other(s))' = Steps(Other(s)) + e
  PROVE  Work' = Work + d + e
<1>1. Steps("Local") \in Nat /\ Steps("Remote") \in Nat
  BY StepsNat DEF Side, Counted
<1>2. CASE s = "Local"
  BY <1>1, <1>2 DEF Other, Work
<1>3. CASE s = "Remote"
  BY <1>1, <1>3 DEF Other, Work
<1>4. QED
  BY <1>2, <1>3 DEF Side

\* A side none of whose tasks moves has as much to do as before.
SideSame(s) == /\ src'[s] = src[s] /\ handler'[s] = handler[s] /\ job'[s] = job[s]
               /\ peer'[s] = peer[s] /\ out'[s] = out[s] /\ wire'[s] = wire[s]
               /\ in'[s] = in[s] /\ chan'[s] = chan[s]

LEMMA SideStays == ASSUME NEW s \in Side, SideSame(s) PROVE Steps(s)' = Steps(s)
  BY DEF SideSame, Steps, Sending, Crossing, Arriving

\* One side moves and the other does not.
LEMMA OneSide ==
  ASSUME TypeOK, NEW s \in Side, NEW d \in Int, Steps(s)' = Steps(s) + d, SideSame(Other(s))
  PROVE  Work' = Work + d
<1>1. Other(s) \in Side
  BY DEF Other, Side
<1>2. Steps(Other(s)) \in Nat /\ Steps(Other(s))' = Steps(Other(s))
  BY <1>1, StepsNat, SideStays DEF Counted
<1>3. Steps(Other(s))' = Steps(Other(s)) + 0 /\ 0 \in Int
  BY <1>2
<1>4. Work' = Work + d + 0
  BY <1>3, WorkMoves
<1>5. Work \in Nat
  BY StepsNat DEF Work, Side, Counted
<1>6. QED
  BY <1>4, <1>5

\* A step of one side that brings a frame one place further.
LEMMA WorkLess ==
  ASSUME TypeOK, NEW s \in Side, Steps(s)' = Steps(s) + (-1), SideSame(Other(s))
  PROVE  Work' = Work - 1
<1>1. -1 \in Int
  OBVIOUS
<1>2. Work' = Work + (-1)
  BY <1>1, OneSide
<1>3. Work \in Nat
  BY StepsNat DEF Work, Side, Counted
<1>4. QED
  BY <1>2, <1>3

\* A source that reads has all the way before its frame.
LEMMA ReadCounts == ASSUME TypeOK, Next, NEW s \in Side, Read(s) PROVE Work' = Work + 10
<1>0. Numbers(s) /\ Numbers(s)' /\ Counted(s) /\ Counted(s)'
  BY QuantitiesNext
<1>1. SideSame(Other(s))
  BY DEF Read, SideSame, TypeOK, Other, Side
<1>2. Held(src[s]) = 0 /\ Held(src'[s]) = 1
  BY DEF Read, TypeOK, Held
<1>3. /\ handler'[s] = handler[s] /\ job'[s] = job[s] /\ peer'[s] = peer[s] /\ out'[s] = out[s]
      /\ wire'[s] = wire[s] /\ in'[s] = in[s] /\ chan'[s] = chan[s]
  BY DEF Read
<1>4. Steps(s)' = Steps(s) + 10
  <2>1. Sending(s)' = Sending(s) + 10
    BY <1>2, <1>3, <1>0 DEF Sending, Numbers, Counted
  <2>2. Crossing(s)' = Crossing(s)
    BY <1>2, <1>3, <1>0 DEF Crossing, Numbers, Counted
  <2>3. Arriving(s)' = Arriving(s)
    BY <1>2, <1>3, <1>0 DEF Arriving, Numbers, Counted
  <2>4. QED
    BY <2>1, <2>2, <2>3, <1>0 DEF Steps, Counted
<1>5. QED
  BY <1>1, <1>4, OneSide

\* A frame goes from a source to the router's queue.
LEMMA PushCounts ==
  ASSUME TypeOK, Next, NEW s \in Side, SourcePush(s) PROVE Work' = Work - 1
<1>0. Numbers(s) /\ Numbers(s)' /\ Counted(s) /\ Counted(s)'
  BY QuantitiesNext
<1>1. SideSame(Other(s))
  BY DEF SourcePush, SideSame, TypeOK, Other, Side
<1>2. Held(src[s]) = 1 /\ Held(src'[s]) = 0
  BY DEF SourcePush, CanPush, TypeOK, Held
<1>3. /\ handler'[s] = Append(handler[s], "send") /\ job'[s] = job[s] /\ peer'[s] = peer[s]
      /\ out'[s] = out[s] /\ wire'[s] = wire[s] /\ in'[s] = in[s] /\ chan'[s] = chan[s]
  BY DEF SourcePush, TypeOK
<1>4. handler[s] \in QueueType /\ Append(handler[s], "send") \in QueueType
  BY QueueSteps DEF SourcePush, CanPush, Room, TypeOK
<1>5. /\ Queued(handler'[s], "send") = Queued(handler[s], "send") + 1
      /\ Queued(handler'[s], "recv") = Queued(handler[s], "recv")
  <2>1. \A k : Queued(handler'[s], k) = Queued(handler[s], k) + Held("send" = k)
    BY <1>3, <1>4, QueuedAppend
  <2>2. Held("send" = "send") = 1 /\ Held("send" = "recv") = 0
    BY DEF Held
  <2>3. QED
    BY <2>1, <2>2, <1>0 DEF Numbers
<1>6. Steps(s)' = Steps(s) + (-1)
  <2>1. Sending(s) = Sending(s)' + 1
    <3>1. Held(job'[s] = "peer") = Held(job[s] = "peer")
      BY <1>3
    <3>2. QED
      BY <1>2, <1>5, <3>1, <1>0 DEF Sending, Numbers
  <2>2. Crossing(s)' = Crossing(s)
    BY <1>2, <1>3, <1>5, <1>0 DEF Crossing, Numbers, Counted
  <2>3. Arriving(s)' = Arriving(s)
    BY <1>2, <1>3, <1>5, <1>0 DEF Arriving, Numbers, Counted
  <2>4. QED
    BY <2>1, <2>2, <2>3, <1>0 DEF Steps, Counted
<1>7. QED
  BY <1>1, <1>6, WorkLess

\* A router takes the head of its queue.
LEMMA TakeCounts ==
  ASSUME TypeOK, Next, NEW s \in Side, RouterTake(s) PROVE Work' = Work - 1
<1>0. Numbers(s) /\ Numbers(s)' /\ Counted(s) /\ Counted(s)'
  BY QuantitiesNext
<1>1. SideSame(Other(s))
  BY DEF RouterTake, SideSame, TypeOK, Other, Side
<1>2. /\ handler'[s] = Tail(handler[s]) /\ src'[s] = src[s] /\ peer'[s] = peer[s]
      /\ out'[s] = out[s] /\ wire'[s] = wire[s] /\ in'[s] = in[s] /\ chan'[s] = chan[s]
      /\ job[s] = "none" /\ job'[s] = IF Head(handler[s]) = "recv" THEN "chan" ELSE "peer"
  BY DEF RouterTake, CanTake, TypeOK
<1>3. handler[s] \in QueueType /\ handler[s] # <<>> /\ Head(handler[s]) \in {"recv", "send"}
  BY QueueSteps DEF RouterTake, CanTake, TypeOK
<1>4. \A k : Queued(handler[s], k) = Queued(handler'[s], k) + Held(Head(handler[s]) = k)
  BY <1>2, <1>3, QueuedTail
<1>5. \A k : Queued(handler'[s], k) \in Nat
  BY <1>2, <1>3, QueueSteps, AtFinite
<1>6. Held(job[s] = "peer") = 0 /\ Held(job[s] = "chan") = 0
  BY <1>2 DEF Held
<1>7. CASE Head(handler[s]) = "recv"
  <2>1. Held(job'[s] = "peer") = 0 /\ Held(job'[s] = "chan") = 1
    BY <1>2, <1>7 DEF Held
  <2>2. Held(Head(handler[s]) = "recv") = 1 /\ Held(Head(handler[s]) = "send") = 0
    BY <1>7 DEF Held
  <2>3. /\ Queued(handler[s], "recv") = Queued(handler'[s], "recv") + 1
        /\ Queued(handler[s], "send") = Queued(handler'[s], "send")
    BY <1>4, <1>5, <2>2
  <2>4. Steps(s)' = Steps(s) + (-1)
    <3>1. Sending(s)' = Sending(s)
      BY <1>2, <1>5, <1>6, <2>1, <2>3, <1>0 DEF Sending, Numbers, Counted
    <3>2. Crossing(s)' = Crossing(s)
      BY <1>2, <1>5, <1>6, <2>1, <2>3, <1>0 DEF Crossing, Numbers, Counted
    <3>3. Arriving(s) = Arriving(s)' + 1
      <4>1. Queued(handler[s], "recv") = Queued(handler'[s], "recv") + 1 /\ chan'[s] = chan[s]
        BY <1>2, <2>3
      <4>2. Held(job'[s] = "chan") = Held(job[s] = "chan") + 1
        BY <1>6, <2>1
      <4>3. QED
        BY <4>1, <4>2, <1>0 DEF Arriving, Numbers
    <3>4. QED
      BY <3>1, <3>2, <3>3, <1>0 DEF Steps, Counted
  <2>5. QED
    BY <1>1, <2>4, WorkLess
<1>8. CASE Head(handler[s]) = "send"
  <2>1. Held(job'[s] = "peer") = 1 /\ Held(job'[s] = "chan") = 0
    BY <1>2, <1>8 DEF Held
  <2>2. Held(Head(handler[s]) = "recv") = 0 /\ Held(Head(handler[s]) = "send") = 1
    BY <1>8 DEF Held
  <2>3. /\ Queued(handler[s], "recv") = Queued(handler'[s], "recv")
        /\ Queued(handler[s], "send") = Queued(handler'[s], "send") + 1
    BY <1>4, <1>5, <2>2
  <2>4. Steps(s)' = Steps(s) + (-1)
    <3>1. Sending(s) = Sending(s)' + 1
      BY <1>2, <1>5, <1>6, <2>1, <2>3, <1>0 DEF Sending, Numbers, Counted
    <3>2. Crossing(s)' = Crossing(s)
      BY <1>2, <1>5, <1>6, <2>1, <2>3, <1>0 DEF Crossing, Numbers, Counted
    <3>3. Arriving(s)' = Arriving(s)
      BY <1>2, <1>5, <1>6, <2>1, <2>3, <1>0 DEF Arriving, Numbers, Counted
    <3>4. QED
      BY <3>1, <3>2, <3>3, <1>0 DEF Steps, Counted
  <2>5. QED
    BY <1>1, <2>4, WorkLess
<1>9. QED
  BY <1>3, <1>7, <1>8

\* The router's own two steps: to a sink's channel or to the peer queue.
LEMMA RouterCounts ==
  ASSUME TypeOK, Next, NEW s \in Side, RouterDeliver(s) \/ RouterForward(s) PROVE Work' = Work - 1
<1>0. Numbers(s) /\ Numbers(s)' /\ Counted(s) /\ Counted(s)'
  BY QuantitiesNext
<1>1. SideSame(Other(s))
  BY DEF RouterDeliver, RouterForward, SideSame, TypeOK, Other, Side
<1>2. /\ handler'[s] = handler[s] /\ src'[s] = src[s] /\ out'[s] = out[s]
      /\ wire'[s] = wire[s] /\ in'[s] = in[s] /\ job'[s] = "none"
  BY DEF RouterDeliver, RouterForward, TypeOK
<1>3. Held(job'[s] = "peer") = 0 /\ Held(job'[s] = "chan") = 0
  BY <1>2 DEF Held
<1>4. CASE RouterDeliver(s)
  <2>1. job[s] = "chan" /\ chan'[s] = chan[s] + 1 /\ peer'[s] = peer[s]
    BY <1>4 DEF RouterDeliver, CanDeliver, TypeOK
  <2>2. Held(job[s] = "peer") = 0 /\ Held(job[s] = "chan") = 1
    BY <2>1 DEF Held
  <2>3. Steps(s)' = Steps(s) + (-1)
    <3>1. Sending(s)' = Sending(s)
      BY <1>2, <1>3, <2>1, <2>2, <1>0 DEF Sending, Numbers, Counted
    <3>2. Crossing(s)' = Crossing(s)
      BY <1>2, <1>3, <2>1, <2>2, <1>0 DEF Crossing, Numbers, Counted
    <3>3. Arriving(s) = Arriving(s)' + 1
      <4>1. Queued(handler'[s], "recv") = Queued(handler[s], "recv")
        BY <1>2
      <4>2. chan'[s] = chan[s] + 1
        BY <2>1
      <4>3. Held(job[s] = "chan") = Held(job'[s] = "chan") + 1
        BY <1>3, <2>2
      <4>4. QED
        BY <4>1, <4>2, <4>3, <1>0 DEF Arriving, Numbers
    <3>4. QED
      BY <3>1, <3>2, <3>3, <1>0 DEF Steps, Counted
  <2>4. QED
    BY <1>1, <2>3, WorkLess
<1>5. CASE RouterForward(s)
  <2>1. job[s] = "peer" /\ peer'[s] = peer[s] + 1 /\ chan'[s] = chan[s]
    BY <1>5 DEF RouterForward, CanForward, TypeOK
  <2>2. Held(job[s] = "peer") = 1 /\ Held(job[s] = "chan") = 0
    BY <2>1 DEF Held
  <2>3. Steps(s)' = Steps(s) + (-1)
    <3>1. Sending(s) = Sending(s)' + 8
      BY <1>2, <1>3, <2>1, <2>2, <1>0 DEF Sending, Numbers, Counted
    <3>2. Crossing(s)' = Crossing(s) + 7
      BY <1>2, <1>3, <2>1, <2>2, <1>0 DEF Crossing, Numbers, Counted
    <3>3. Arriving(s)' = Arriving(s)
      BY <1>2, <1>3, <2>1, <2>2, <1>0 DEF Arriving, Numbers, Counted
    <3>4. QED
      BY <3>1, <3>2, <3>3, <1>0 DEF Steps, Counted
  <2>4. QED
    BY <1>1, <2>3, WorkLess
<1>6. QED
  BY <1>4, <1>5

\* A sender takes a frame and writes it.
LEMMA SenderCounts ==
  ASSUME TypeOK, Next, NEW s \in Side, Sender(s) PROVE Work' = Work - 1
<1>0. Numbers(s) /\ Numbers(s)' /\ Counted(s) /\ Counted(s)'
  BY QuantitiesNext
<1>1. SideSame(Other(s))
  BY DEF Sender, SenderTake, SenderWrite, SideSame, TypeOK, Other, Side
<1>2. /\ handler'[s] = handler[s] /\ src'[s] = src[s] /\ job'[s] = job[s]
      /\ in'[s] = in[s] /\ chan'[s] = chan[s]
  BY DEF Sender, SenderTake, SenderWrite
<1>3. CASE SenderTake(s)
  <2>1. peer[s] = peer'[s] + 1 /\ wire'[s] = wire[s]
    BY <1>3 DEF SenderTake, TypeOK
  <2>2. Held(out[s]) = 0 /\ Held(out'[s]) = 1
    BY <1>3 DEF SenderTake, CanSend, TypeOK, Held
  <2>3. Steps(s)' = Steps(s) + (-1)
    <3>1. Sending(s)' = Sending(s)
      BY <1>2, <2>1, <2>2, <1>0 DEF Sending, Numbers, Counted
    <3>2. Crossing(s) = Crossing(s)' + 1
      BY <1>2, <2>1, <2>2, <1>0 DEF Crossing, Numbers, Counted
    <3>3. Arriving(s)' = Arriving(s)
      BY <1>2, <2>1, <2>2, <1>0 DEF Arriving, Numbers, Counted
    <3>4. QED
      BY <3>1, <3>2, <3>3, <1>0 DEF Steps, Counted
  <2>4. QED
    BY <1>1, <2>3, WorkLess
<1>4. CASE SenderWrite(s)
  <2>1. peer'[s] = peer[s] /\ wire'[s] = wire[s] + 1
    BY <1>4 DEF SenderWrite, TypeOK
  <2>2. Held(out[s]) = 1 /\ Held(out'[s]) = 0
    BY <1>4 DEF SenderWrite, CanWrite, TypeOK, Held
  <2>3. Steps(s)' = Steps(s) + (-1)
    <3>1. Sending(s)' = Sending(s)
      BY <1>2, <2>1, <2>2, <1>0 DEF Sending, Numbers, Counted
    <3>2. Crossing(s) = Crossing(s)' + 1
      BY <1>2, <2>1, <2>2, <1>0 DEF Crossing, Numbers, Counted
    <3>3. Arriving(s)' = Arriving(s)
      BY <1>2, <2>1, <2>2, <1>0 DEF Arriving, Numbers, Counted
    <3>4. QED
      BY <3>1, <3>2, <3>3, <1>0 DEF Steps, Counted
  <2>4. QED
    BY <1>1, <2>3, WorkLess
<1>5. QED
  BY <1>3, <1>4 DEF Sender

\* A receiver that reads takes a frame over from the other side.
LEMMA ReceiverReadCounts ==
  ASSUME TypeOK, Next, NEW s \in Side, ReceiverRead(s) PROVE Work' = Work - 1
<1> DEFINE o == Other(s)
<1>1. o \in Side /\ o # s
  BY DEF Other, Side
<1>0. /\ Numbers(s) /\ Numbers(s)' /\ Counted(s) /\ Counted(s)'
      /\ Numbers(o) /\ Numbers(o)' /\ Counted(o) /\ Counted(o)'
  BY <1>1, QuantitiesNext
<1>2. /\ UNCHANGED <<src, handler, job, peer, out, chan>>
      /\ wire'[s] = wire[s] /\ wire[o] = wire'[o] + 1 /\ in'[o] = in[o]
  BY <1>1 DEF ReceiverRead, TypeOK
<1>3. Held(in[s]) = 0 /\ Held(in'[s]) = 1
  BY DEF ReceiverRead, CanRead, TypeOK, Held
<1> HIDE DEF o
<1>4. Steps(s)' = Steps(s) + 4
  <2>1. Sending(s)' = Sending(s)
    BY <1>2, <1>3, <1>0 DEF Sending, Numbers, Counted
  <2>2. Crossing(s)' = Crossing(s) + 4
    BY <1>2, <1>3, <1>0 DEF Crossing, Numbers, Counted
  <2>3. Arriving(s)' = Arriving(s)
    BY <1>2, <1>3, <1>0 DEF Arriving, Numbers, Counted
  <2>4. QED
    BY <2>1, <2>2, <2>3, <1>0 DEF Steps, Counted
<1>5. Steps(o)' = Steps(o) + (-5)
  <2>1. Sending(o)' = Sending(o)
    BY <1>1, <1>2, <1>0 DEF Sending, Numbers, Counted
  <2>2. Crossing(o) = Crossing(o)' + 5
    BY <1>1, <1>2, <1>0 DEF Crossing, Numbers, Counted
  <2>3. Arriving(o)' = Arriving(o)
    BY <1>1, <1>2, <1>0 DEF Arriving, Numbers, Counted
  <2>4. QED
    BY <2>1, <2>2, <2>3, <1>0 DEF Steps, Counted
<1>6. Work' = Work + 4 + (-5)
  <2>1. 4 \in Int /\ -5 \in Int
    OBVIOUS
  <2>2. QED
    BY <1>4, <1>5, <2>1, WorkMoves DEF o
<1>7. Work \in Nat
  BY StepsNat DEF Work, Side, Counted
<1>8. QED
  BY <1>6, <1>7

\* A receiver hands its frame to the router.
LEMMA ReceiverPushCounts ==
  ASSUME TypeOK, Next, NEW s \in Side, ReceiverPush(s) PROVE Work' = Work - 1
<1>0. Numbers(s) /\ Numbers(s)' /\ Counted(s) /\ Counted(s)'
  BY QuantitiesNext
<1>1. SideSame(Other(s))
  BY DEF ReceiverPush, SideSame, TypeOK, Other, Side
<1>2. Held(in[s]) = 1 /\ Held(in'[s]) = 0
  BY DEF ReceiverPush, CanReceive, TypeOK, Held
<1>3. /\ handler'[s] = Append(handler[s], "recv") /\ job'[s] = job[s] /\ peer'[s] = peer[s]
      /\ out'[s] = out[s] /\ wire'[s] = wire[s] /\ src'[s] = src[s] /\ chan'[s] = chan[s]
  BY DEF ReceiverPush, TypeOK
<1>4. handler[s] \in QueueType /\ Append(handler[s], "recv") \in QueueType
  BY QueueSteps DEF ReceiverPush, CanReceive, Room, TypeOK
<1>5. /\ Queued(handler'[s], "recv") = Queued(handler[s], "recv") + 1
      /\ Queued(handler'[s], "send") = Queued(handler[s], "send")
  <2>1. \A k : Queued(handler'[s], k) = Queued(handler[s], k) + Held("recv" = k)
    BY <1>3, <1>4, QueuedAppend
  <2>2. Held("recv" = "send") = 0 /\ Held("recv" = "recv") = 1
    BY DEF Held
  <2>3. QED
    BY <2>1, <2>2, <1>0 DEF Numbers
<1>6. Steps(s)' = Steps(s) + (-1)
  <2>1. Sending(s)' = Sending(s)
    BY <1>2, <1>3, <1>5, <1>0 DEF Sending, Numbers, Counted
  <2>2. Crossing(s) = Crossing(s)' + 4
    <3>1. peer'[s] = peer[s] /\ wire'[s] = wire[s] /\ Held(out'[s]) = Held(out[s])
      BY <1>3
    <3>2. QED
      BY <1>2, <3>1, <1>0 DEF Crossing, Numbers
  <2>3. Arriving(s)' = Arriving(s) + 3
    <3>1. chan'[s] = chan[s] /\ Held(job'[s] = "chan") = Held(job[s] = "chan")
      BY <1>3
    <3>2. QED
      BY <1>5, <3>1, <1>0 DEF Arriving, Numbers
  <2>4. QED
    BY <2>1, <2>2, <2>3, <1>0 DEF Steps, Counted
<1>7. QED
  BY <1>1, <1>6, WorkLess

\* A sink writes what has come.
LEMMA SinkCounts ==
  ASSUME TypeOK, Next, NEW s \in Side, SinkWrite(s) PROVE Work' = Work - 1
<1>0. Numbers(s) /\ Numbers(s)' /\ Counted(s) /\ Counted(s)'
  BY QuantitiesNext
<1>1. SideSame(Other(s))
  BY DEF SinkWrite, SideSame, TypeOK, Other, Side
<1>2. /\ src'[s] = src[s] /\ handler'[s] = handler[s] /\ job'[s] = job[s] /\ peer'[s] = peer[s]
      /\ out'[s] = out[s] /\ wire'[s] = wire[s] /\ in'[s] = in[s] /\ chan[s] = chan'[s] + 1
  BY DEF SinkWrite, TypeOK
<1>3. Steps(s)' = Steps(s) + (-1)
  <2>1. Sending(s)' = Sending(s)
    BY <1>2, <1>0 DEF Sending, Numbers, Counted
  <2>2. Crossing(s)' = Crossing(s)
    BY <1>2, <1>0 DEF Crossing, Numbers, Counted
  <2>3. Arriving(s) = Arriving(s)' + 1
    BY <1>2, <1>0 DEF Arriving, Numbers, Counted
  <2>4. QED
    BY <2>1, <2>2, <2>3, <1>0 DEF Steps, Counted
<1>4. QED
  BY <1>1, <1>3, WorkLess

\* Every step counts: a task's step one less, a source's read ten more.
LEMMA CountingStep ==
  TypeOK /\ [Next]_vars =>
    [Work' = IF \E s \in Side : Read(s) THEN Work + 10
             ELSE IF \E s \in Side : PipeReads(s) THEN Work ELSE Work - 1]_vars
<1> SUFFICES ASSUME TypeOK, Next
             PROVE  Work' = IF \E s \in Side : Read(s) THEN Work + 10
                            ELSE IF \E s \in Side : PipeReads(s) THEN Work ELSE Work - 1
  OBVIOUS
<1>1. Work \in Nat
  BY StepsNat DEF Work, Side, Counted
<1>2. ASSUME \E s \in Side : Read(s) PROVE Work' = Work + 10
  BY <1>2, ReadCounts
<1>3. ASSUME \E s \in Side : PipeReads(s) PROVE Work' = Work
  <2>1. \A s \in Side : SideSame(s)
    BY <1>3 DEF PipeReads, SideSame
  <2>2. QED
    BY <2>1, SideStays DEF Work, Side
<1>4. CASE \E s \in Side : Read(s)
  BY <1>2, <1>4
<1>5. CASE \E s \in Side : PipeReads(s)
  BY <1>1, <1>2, <1>3, <1>5
<1>6. ASSUME NEW s \in Side, \/ SourcePush(s) \/ Router(s) \/ Sender(s)
                             \/ ReceiverRead(s) \/ ReceiverPush(s) \/ SinkWrite(s)
      PROVE  Work' = IF \E x \in Side : Read(x) THEN Work + 10
                     ELSE IF \E x \in Side : PipeReads(x) THEN Work ELSE Work - 1
  <2>1. Work' = Work - 1
    BY <1>6, PushCounts, TakeCounts, RouterCounts, SenderCounts, ReceiverReadCounts,
       ReceiverPushCounts, SinkCounts DEF Router
  <2>2. Work - 1 # Work /\ Work - 1 # Work + 10
    BY <1>1
  <2>3. QED
    BY <1>2, <1>3, <2>1, <2>2
<1>7. QED
  BY <1>4, <1>5, <1>6 DEF Next

\* Every step of a task brings one frame one place further, whatever the capacities.
THEOREM StepsCount == Spec => EveryStepCounts
  BY CountingStep, DuplexTypes, PTL DEF Spec, EveryStepCounts
=============================================================================
