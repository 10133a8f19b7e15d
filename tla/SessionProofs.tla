----------------------------- MODULE SessionProofs -----------------------------
(***************************************************************************)
(* Proofs about Session, for queues of any capacity, any amount of data    *)
(* and any set of faults.                                                  *)
(***************************************************************************)
EXTENDS Session, TLAPS

-----------------------------------------------------------------------------
(* Frames, and the records of one side.                                     *)

\* A frame of a known type with a value in range is a frame.
LEMMA FrameType ==
  ASSUME NEW t \in FrameTypes, NEW v \in 0 .. NIn + NOut + NResize
  PROVE  F(t, v) \in Frame
  BY DEF F, Frame

\* The capacities are numbers, and the empty queue is within each.
LEMMA EmptyQueue ==
  /\ HandlerCap \in Nat /\ PeerCap \in Nat /\ WireCap \in Nat /\ ChanCap \in Nat
  /\ <<>> \in Seq(Command) /\ <<>> \in Seq(Frame)
  /\ Len(<<>>) <= HandlerCap /\ Len(<<>>) <= PeerCap
  /\ Len(<<>>) <= WireCap /\ Len(<<>>) <= ChanCap
<1>1. HandlerCap \in Nat /\ PeerCap \in Nat /\ WireCap \in Nat /\ ChanCap \in Nat
  BY SessionAssumption
<1>2. Len(<<>>) = 0
  OBVIOUS
<1>3. QED
  BY <1>1, <1>2

\* What net holds of one side can be updated field by field.
LEMMA NetFields ==
  ASSUME NEW n \in NetType
  PROVE  /\ \A q \in Seq(Command) : Len(q) <= HandlerCap => [n EXCEPT !.handler = q] \in NetType
         /\ \A q \in Seq(Frame) : Len(q) <= PeerCap => [n EXCEPT !.peer = q] \in NetType
         /\ \A q \in Seq(Frame) : Len(q) <= WireCap => [n EXCEPT !.wire = q] \in NetType
         /\ \A t \in TaskState : /\ [n EXCEPT !.router = t] \in NetType
                                 /\ [n EXCEPT !.sender = t] \in NetType
                                 /\ [n EXCEPT !.receiver = t] \in NetType
         /\ \A j \in [to : {"chan", "peer"}, f : Frame] \cup {NoJob} :
                [n EXCEPT !.job = j] \in NetType
         /\ \A f \in Frame \cup {None} : /\ [n EXCEPT !.out = f] \in NetType
                                         /\ [n EXCEPT !.in = f] \in NetType
<1>1. \A q \in Seq(Command) : Len(q) <= HandlerCap => [n EXCEPT !.handler = q] \in NetType
  BY DEF NetType, NetRecord
<1>2. \A q \in Seq(Frame) : Len(q) <= PeerCap => [n EXCEPT !.peer = q] \in NetType
  BY DEF NetType, NetRecord
<1>3. \A q \in Seq(Frame) : Len(q) <= WireCap => [n EXCEPT !.wire = q] \in NetType
  BY DEF NetType, NetRecord
<1>4. \A t \in TaskState : [n EXCEPT !.router = t] \in NetType
  BY DEF NetType, NetRecord
<1>5. \A t \in TaskState : [n EXCEPT !.sender = t] \in NetType
  BY DEF NetType, NetRecord
<1>6. \A t \in TaskState : [n EXCEPT !.receiver = t] \in NetType
  BY DEF NetType, NetRecord
<1>7. \A j \in [to : {"chan", "peer"}, f : Frame] \cup {NoJob} : [n EXCEPT !.job = j] \in NetType
  BY DEF NetType, NetRecord
<1>8. \A f \in Frame \cup {None} : [n EXCEPT !.out = f] \in NetType
  BY DEF NetType, NetRecord
<1>9. \A f \in Frame \cup {None} : [n EXCEPT !.in = f] \in NetType
  BY DEF NetType, NetRecord
<1>10. QED
  BY <1>1, <1>2, <1>3, <1>4, <1>5, <1>6, <1>7, <1>8, <1>9

\* The fields of such a record, and the empty queue.
LEMMA NetParts ==
  ASSUME NetOK, NEW s \in Side
  PROVE  /\ net[s] \in NetType
         /\ net[s].handler \in Seq(Command) /\ Len(net[s].handler) <= HandlerCap
         /\ net[s].peer \in Seq(Frame) /\ Len(net[s].peer) <= PeerCap
         /\ net[s].wire \in Seq(Frame) /\ Len(net[s].wire) <= WireCap
         /\ net[s].job \in [to : {"chan", "peer"}, f : Frame] \cup {NoJob}
         /\ net[s].out \in Frame \cup {None} /\ net[s].in \in Frame \cup {None}
  BY DEF NetOK, NetType, NetRecord

LEMMA EndsFields ==
  ASSUME NEW e \in EndsType
  PROVE  /\ \A q \in Seq(Frame) : Len(q) <= ChanCap => [e EXCEPT !.chan = q] \in EndsType
         /\ \A t \in {"none", "held", "queued", "run", "end"} : [e EXCEPT !.sink = t] \in EndsType
         /\ \A t \in {"none", "read", "end"} : [e EXCEPT !.source = t] \in EndsType
         /\ \A f \in Frame \cup {None} : [e EXCEPT !.data = f] \in EndsType
  BY DEF EndsType, EndsRecord

LEMMA EndsParts ==
  ASSUME EndsOK, NEW s \in Side
  PROVE  /\ ends[s] \in EndsType
         /\ ends[s].chan \in Seq(Frame) /\ Len(ends[s].chan) <= ChanCap
         /\ ends[s].data \in Frame \cup {None}
  BY DEF EndsOK, EndsType, EndsRecord

\* One side changes.
LEMMA NetUpdate ==
  ASSUME NetOK, NEW s \in Side, NEW n \in NetType, net' = [net EXCEPT ![s] = n]
  PROVE  NetOK'
  BY DEF NetOK

LEMMA EndsUpdate ==
  ASSUME EndsOK, NEW s \in Side, NEW e \in EndsType, ends' = [ends EXCEPT ![s] = e]
  PROVE  EndsOK'
  BY DEF EndsOK

-----------------------------------------------------------------------------
(* What the operators that build the steps preserve.                        *)

\* A send keeps the queues' types and the capacity of the handler queue.
LEMMA SendsType ==
  ASSUME NetOK, NEW s \in Side, NEW c \in Command, Sends(s, c)
  PROVE  NetOK'
<1> DEFINE q == Append(net[s].handler, c)
<1>1. q \in Seq(Command) /\ Len(q) <= HandlerCap
  BY NetParts, SessionAssumption DEF Sends
<1>2. [net[s] EXCEPT !.handler = q] \in NetType
  BY <1>1, NetParts, NetFields
<1>3. net' = [net EXCEPT ![s] = [net[s] EXCEPT !.handler = q]]
  BY DEF Sends
<1>4. QED
  BY <1>2, <1>3, NetUpdate

\* The command the router takes, and the queue without it.
LEMMA CmdType ==
  ASSUME NetOK, NEW s \in Side, Takes(s)
  PROVE  /\ Cmd(s) \in Command
         /\ Tail(net[s].handler) \in Seq(Command)
         /\ Len(Tail(net[s].handler)) <= HandlerCap
  BY NetParts, SessionAssumption DEF Takes, Cmd

LEMMA PopType ==
  ASSUME NetOK, NEW s \in Side, Takes(s), Pop(s)
  PROVE  NetOK'
<1>1. [net[s] EXCEPT !.handler = Tail(@)] \in NetType
  BY CmdType, NetParts, NetFields
<1>2. net' = [net EXCEPT ![s] = [net[s] EXCEPT !.handler = Tail(@)]]
  BY DEF Pop
<1>3. QED
  BY <1>1, <1>2, NetUpdate

LEMMA PopForType ==
  ASSUME NetOK, NEW s \in Side, NEW to \in {"chan", "peer"}, Takes(s),
         Cmd(s).f \in Frame, PopFor(s, to)
  PROVE  NetOK'
<1> DEFINE n == [net[s] EXCEPT !.handler = Tail(@)]
           j == [to |-> to, f |-> Cmd(s).f]
<1>1. n \in NetType
  BY CmdType, NetParts, NetFields
<1>2. [n EXCEPT !.job = j] \in NetType
  BY <1>1, NetFields
<1>3. net' = [net EXCEPT ![s] = [n EXCEPT !.job = j]]
  BY DEF PopFor, NetOK
<1>4. QED
  BY <1>2, <1>3, NetUpdate

LEMMA DropReceiverType ==
  ASSUME EndsOK, NEW s \in Side, DropReceiver(s)
  PROVE  EndsOK'
<1> DEFINE e == [ends[s] EXCEPT !.sink = "end"]
<1>1. e \in EndsType
  BY EndsParts, EndsFields
<1>2. [e EXCEPT !.chan = <<>>] \in EndsType
  BY <1>1, EndsFields, EmptyQueue
<1>3. ends' = [ends EXCEPT ![s] = [e EXCEPT !.chan = <<>>]]
  BY DEF DropReceiver, EndsOK
<1>4. QED
  BY <1>2, <1>3, EndsUpdate

LEMMA PanicHookType ==
  ASSUME LoginOK, NEW s \in Side, PanicHook(s)
  PROVE  LoginOK'
  BY ZenonT(60) DEF PanicHook, Left, LeaveFails, LoginOK

LEMMA RouterEndsType ==
  ASSUME NetOK, EndsOK, NEW s \in Side, NEW how \in TaskState, RouterEnds(s, how)
  PROVE  NetOK' /\ EndsOK'
<1> DEFINE n1 == [net[s] EXCEPT !.router = how]
           n2 == [n1 EXCEPT !.job = NoJob]
           n3 == [n2 EXCEPT !.handler = <<>>]
<1>1. n1 \in NetType
  BY NetParts, NetFields
<1>2. n2 \in NetType
  BY <1>1, NetFields
<1>3. n3 \in NetType
  BY <1>2, NetFields, EmptyQueue
<1>4. net' = [net EXCEPT ![s] = n3]
  BY DEF RouterEnds, NetOK
<1>5. EndsOK'
  BY DropReceiverType DEF RouterEnds, EndsOK
<1>6. QED
  BY <1>3, <1>4, <1>5, NetUpdate

-----------------------------------------------------------------------------
(* The steps of router.rs.                                                  *)

\* A part of the state no step touches keeps its type.
LEMMA UnchangedTypes ==
  ASSUME TypeOK
  PROVE  /\ UNCHANGED login => LoginOK'
         /\ UNCHANGED winch => WinchOK'
         /\ UNCHANGED up => UpOK'
         /\ UNCHANGED net => NetOK'
         /\ UNCHANGED ends => EndsOK'
         /\ UNCHANGED remote => RemoteOK'
         /\ UNCHANGED io => IoOK'
  BY ZenonT(60) DEF TypeOK, LoginOK, WinchOK, UpOK, NetOK, EndsOK, RemoteOK, IoOK

\* A frame is a natural number's worth of value.
LEMMA FrameValue == ASSUME NEW f \in Frame PROVE f.v \in Nat /\ f.t \in FrameTypes
  BY SessionAssumption DEF Frame

\* Recv and Send commands carry frames; the other two commands do not.
LEMMA CommandFrame ==
  ASSUME NEW c \in Command, c.k \in {"Recv", "Send"}
  PROVE  c.f \in Frame
  BY DEF Command, SourceCmd, SinkCmd

LEMMA FrameCommand ==
  /\ \A f \in Frame : Recv(f) \in Command /\ Send(f) \in Command
  /\ SourceCmd \in Command /\ SinkCmd \in Command
  BY DEF Command, Recv, Send

\* A step of the router task keeps the types.
LEMMA RouterType ==
  ASSUME TypeOK, NEW s \in Side, Router(s)
  PROVE  TypeOK'
<1> USE UnchangedTypes
<1>0. LoginOK /\ NetOK /\ EndsOK /\ RemoteOK
  BY DEF TypeOK
<1>1. ASSUME RouterSetEnv(s) PROVE TypeOK'
  <2>1. NetOK'
    BY <1>0, <1>1, PopType DEF RouterSetEnv, TakesFrame
  <2>2. RemoteOK'
    BY <1>0, <1>1 DEF RouterSetEnv, RemoteOK
  <2>3. QED
    BY <1>1, <2>1, <2>2 DEF RouterSetEnv, TypeOK
<1>2. ASSUME RouterSpawn(s) PROVE TypeOK'
  <2>1. NetOK'
    BY <1>0, <1>2, PopType DEF RouterSpawn, TakesFrame
  <2>2. Cmd(s).f \in Frame
    BY <1>0, <1>2, CmdType, CommandFrame DEF RouterSpawn, TakesFrame
  <2>3. RemoteOK'
    BY <1>0, <1>2, <2>2, FrameValue DEF RouterSpawn, RemoteOK
  <2>4. [ends[s] EXCEPT !.sink = "held"] \in EndsType
    BY <1>0, EndsParts, EndsFields
  <2>5. EndsOK'
    BY <1>0, <1>2, <2>4, EndsUpdate DEF RouterSpawn
  <2>6. QED
    BY <1>2, <2>1, <2>3, <2>5 DEF RouterSpawn, TypeOK
<1>3. ASSUME RouterLookup(s) PROVE TypeOK'
  <2>1. Takes(s) /\ Cmd(s).f \in Frame
    BY <1>0, <1>3, CmdType, CommandFrame DEF RouterLookup, TakesFrame
  <2>2. NetOK'
    BY <1>0, <1>3, <2>1, PopType, PopForType DEF RouterLookup
  <2>3. QED
    BY <1>3, <2>2 DEF RouterLookup, TypeOK
<1>4. ASSUME RouterProcessExit(s) PROVE TypeOK'
  <2>1. NetOK'
    BY <1>0, <1>4, PopType DEF RouterProcessExit, TakesFrame
  <2>2. LoginOK'
    BY <1>0, <1>4 DEF RouterProcessExit, LoginOK
  <2>3. QED
    BY <1>4, <2>1, <2>2 DEF RouterProcessExit, TypeOK
<1>5. ASSUME RouterExit(s) PROVE TypeOK'
  <2>1. NetOK' /\ EndsOK'
    BY <1>0, <1>5, RouterEndsType DEF RouterExit, TaskState
  <2>2. QED
    BY <1>5, <2>1 DEF RouterExit, TypeOK
<1>6. ASSUME RouterSend(s) PROVE TypeOK'
  <2>1. Takes(s) /\ Cmd(s).f \in Frame
    BY <1>0, <1>6, CmdType, CommandFrame DEF RouterSend
  <2>2. NetOK'
    BY <1>0, <1>6, <2>1, PopForType DEF RouterSend
  <2>3. QED
    BY <1>6, <2>2 DEF RouterSend, TypeOK
<1>7. ASSUME RouterSource(s) PROVE TypeOK'
  <2>1. NetOK'
    BY <1>0, <1>7, PopType DEF RouterSource
  <2>2. [ends[s] EXCEPT !.source = "read"] \in EndsType
    BY <1>0, EndsParts, EndsFields
  <2>3. EndsOK'
    BY <1>0, <1>7, <2>2, EndsUpdate DEF RouterSource
  <2>4. QED
    BY <1>7, <2>1, <2>3 DEF RouterSource, TypeOK
<1>8. ASSUME RouterSink(s) PROVE TypeOK'
  <2>1. NetOK'
    BY <1>0, <1>8, PopType DEF RouterSink
  <2>2. [ends[s] EXCEPT !.sink = "run"] \in EndsType
    BY <1>0, EndsParts, EndsFields
  <2>3. EndsOK'
    BY <1>0, <1>8, <2>2, EndsUpdate DEF RouterSink
  <2>4. QED
    BY <1>8, <2>1, <2>3 DEF RouterSink, TypeOK
<1>9. ASSUME RouterDeliver(s) PROVE TypeOK'
  <2>1. net[s].job.f \in Frame
    BY <1>0, <1>9, NetParts DEF RouterDeliver, NoJob
  <2>2. [net[s] EXCEPT !.job = NoJob] \in NetType
    BY <1>0, NetParts, NetFields
  <2>3. NetOK'
    BY <1>0, <1>9, <2>2, NetUpdate DEF RouterDeliver
  <2>4. /\ Append(ends[s].chan, net[s].job.f) \in Seq(Frame)
        /\ Len(Append(ends[s].chan, net[s].job.f)) <= ChanCap
    BY <1>0, <1>9, <2>1, EndsParts, EmptyQueue DEF RouterDeliver
  <2>5. [ends[s] EXCEPT !.chan = Append(@, net[s].job.f)] \in EndsType
    BY <1>0, <2>4, EndsParts, EndsFields
  <2>6. EndsOK'
    BY <1>0, <1>9, <2>5, EndsUpdate DEF RouterDeliver
  <2>7. QED
    BY <1>9, <2>3, <2>6 DEF RouterDeliver, TypeOK
<1>10. ASSUME RouterForward(s) PROVE TypeOK'
  <2> DEFINE n == [net[s] EXCEPT !.peer = Append(@, net[s].job.f)]
  <2>1. net[s].job.f \in Frame
    BY <1>0, <1>10, NetParts DEF RouterForward, NoJob
  <2>2. /\ Append(net[s].peer, net[s].job.f) \in Seq(Frame)
        /\ Len(Append(net[s].peer, net[s].job.f)) <= PeerCap
    BY <1>0, <1>10, <2>1, NetParts, EmptyQueue DEF RouterForward
  <2>3. n \in NetType
    BY <1>0, <2>2, NetParts, NetFields
  <2>4. [n EXCEPT !.job = NoJob] \in NetType
    BY <2>3, NetFields
  <2>5. net' = [net EXCEPT ![s] = [n EXCEPT !.job = NoJob]]
    BY <1>0, <1>10 DEF RouterForward, NetOK
  <2>6. NetOK'
    BY <1>0, <2>4, <2>5, NetUpdate
  <2>7. QED
    BY <1>10, <2>6 DEF RouterForward, TypeOK
<1>11. ASSUME RouterFail(s) PROVE TypeOK'
  <2>1. NetOK' /\ EndsOK' /\ LoginOK'
    BY <1>0, <1>11, RouterEndsType, PanicHookType DEF RouterFail, TaskState
  <2>2. QED
    BY <1>11, <2>1 DEF RouterFail, TypeOK
<1>12. QED
  BY <1>1, <1>2, <1>3, <1>4, <1>5, <1>6, <1>7, <1>8, <1>9, <1>10, <1>11 DEF Router

\* A step of the sender task keeps the types.
LEMMA SenderType ==
  ASSUME TypeOK, NEW s \in Side, Sender(s)
  PROVE  TypeOK'
<1> USE UnchangedTypes
<1>0. LoginOK /\ NetOK /\ net[s] \in NetType
  BY NetParts DEF TypeOK
<1>1. ASSUME SenderTake(s) PROVE TypeOK'
  <2> DEFINE n == [net[s] EXCEPT !.out = Head(net[s].peer)]
  <2>1. /\ Head(net[s].peer) \in Frame /\ Tail(net[s].peer) \in Seq(Frame)
        /\ Len(Tail(net[s].peer)) <= PeerCap
    BY <1>0, <1>1, NetParts, EmptyQueue DEF SenderTake
  <2>2. n \in NetType /\ n.peer = net[s].peer
    BY <1>0, <2>1, NetFields DEF NetType, NetRecord
  <2>3. [n EXCEPT !.peer = Tail(@)] \in NetType
    BY <2>1, <2>2, NetFields
  <2>4. net' = [net EXCEPT ![s] = [n EXCEPT !.peer = Tail(@)]]
    BY <1>0, <1>1 DEF SenderTake, NetOK
  <2>5. NetOK'
    BY <1>0, <2>3, <2>4, NetUpdate
  <2>6. QED
    BY <1>1, <2>5 DEF SenderTake, TypeOK
<1>2. ASSUME SenderWrite(s) PROVE TypeOK'
  <2> DEFINE n == [net[s] EXCEPT !.out = None]
             q == IF ReaderGone(Other(s)) THEN net[s].wire ELSE Append(net[s].wire, net[s].out)
  <2>1. q \in Seq(Frame) /\ Len(q) <= WireCap
    BY <1>0, <1>2, NetParts, EmptyQueue DEF SenderWrite
  <2>2. n \in NetType
    BY <1>0, NetFields
  <2>3. [n EXCEPT !.wire = q] \in NetType
    BY <2>1, <2>2, NetFields
  <2>4. net' = [net EXCEPT ![s] = [n EXCEPT !.wire = q]]
    BY <1>0, <1>2 DEF SenderWrite, NetOK, NetType, NetRecord
  <2>5. NetOK'
    BY <1>0, <2>3, <2>4, NetUpdate
  <2>6. QED
    BY <1>2, <2>5 DEF SenderWrite, TypeOK
<1>3. ASSUME SenderFail(s) PROVE TypeOK'
  <2> DEFINE n1 == [net[s] EXCEPT !.sender = "failed"]
             n2 == [n1 EXCEPT !.out = None]
  <2>1. n1 \in NetType
    BY <1>0, NetFields DEF TaskState
  <2>2. n2 \in NetType
    BY <2>1, NetFields
  <2>3. [n2 EXCEPT !.peer = <<>>] \in NetType
    BY <2>2, NetFields, EmptyQueue
  <2>4. net' = [net EXCEPT ![s] = [n2 EXCEPT !.peer = <<>>]]
    BY <1>0, <1>3 DEF SenderFail, NetOK
  <2>5. NetOK' /\ LoginOK'
    BY <1>0, <1>3, <2>3, <2>4, NetUpdate, PanicHookType DEF SenderFail
  <2>6. QED
    BY <1>3, <2>5 DEF SenderFail, TypeOK
<1>4. ASSUME SenderDone(s) PROVE TypeOK'
  <2>1. [net[s] EXCEPT !.sender = "done"] \in NetType
    BY <1>0, NetFields DEF TaskState
  <2>2. NetOK'
    BY <1>0, <1>4, <2>1, NetUpdate DEF SenderDone
  <2>3. QED
    BY <1>4, <2>2 DEF SenderDone, TypeOK
<1>5. QED
  BY <1>1, <1>2, <1>3, <1>4 DEF Sender

\* A step of the receiver task keeps the types.
LEMMA ReceiverType ==
  ASSUME TypeOK, NEW s \in Side, Receiver(s)
  PROVE  TypeOK'
<1> USE UnchangedTypes
<1>0. LoginOK /\ NetOK /\ net[s] \in NetType
  BY NetParts DEF TypeOK
<1>1. ASSUME ReceiverRead(s) PROVE TypeOK'
  <2> DEFINE o == Other(s)
             n1 == [net[s] EXCEPT !.in = Head(net[o].wire)]
             n2 == [net[o] EXCEPT !.wire = Tail(@)]
  <2>1. o \in Side /\ o # s
    BY DEF Other, Side
  <2>2. /\ Head(net[o].wire) \in Frame /\ Tail(net[o].wire) \in Seq(Frame)
        /\ Len(Tail(net[o].wire)) <= WireCap
    BY <1>0, <1>1, <2>1, NetParts, EmptyQueue DEF ReceiverRead
  <2>3. n1 \in NetType /\ n2 \in NetType
    BY <1>0, <2>1, <2>2, NetParts, NetFields
  <2>4. net' = [[net EXCEPT ![s] = n1] EXCEPT ![o] = n2]
    BY <1>0, <1>1, <2>1 DEF ReceiverRead, NetOK
  <2>5. NetOK'
    BY <1>0, <2>1, <2>3, <2>4 DEF NetOK
  <2>6. QED
    BY <1>1, <2>5 DEF ReceiverRead, TypeOK
<1>2. ASSUME ReceiverEof(s) PROVE TypeOK'
  <2>1. [net[s] EXCEPT !.receiver = "done"] \in NetType
    BY <1>0, NetFields DEF TaskState
  <2>2. NetOK'
    BY <1>0, <1>2, <2>1, NetUpdate DEF ReceiverEof
  <2>3. QED
    BY <1>2, <2>2 DEF ReceiverEof, TypeOK
<1>3. ASSUME ReceiverPush(s) PROVE TypeOK'
  <2> DEFINE q == Append(net[s].handler, Recv(net[s].in))
             n == [net[s] EXCEPT !.handler = q]
  <2>1. Recv(net[s].in) \in Command
    BY <1>0, <1>3, NetParts, FrameCommand DEF ReceiverPush
  <2>2. q \in Seq(Command) /\ Len(q) <= HandlerCap
    BY <1>0, <1>3, <2>1, NetParts, EmptyQueue DEF ReceiverPush
  <2>3. n \in NetType
    BY <1>0, <2>2, NetFields
  <2>4. [n EXCEPT !.in = None] \in NetType
    BY <2>3, NetFields
  <2>5. net' = [net EXCEPT ![s] = [n EXCEPT !.in = None]]
    BY <1>0, <1>3 DEF ReceiverPush, NetOK
  <2>6. NetOK'
    BY <1>0, <2>4, <2>5, NetUpdate
  <2>7. QED
    BY <1>3, <2>6 DEF ReceiverPush, TypeOK
<1>4. ASSUME ReceiverFail(s) PROVE TypeOK'
  <2> DEFINE n == [net[s] EXCEPT !.receiver = "failed"]
  <2>1. n \in NetType
    BY <1>0, NetFields DEF TaskState
  <2>2. [n EXCEPT !.in = None] \in NetType
    BY <2>1, NetFields
  <2>3. net' = [net EXCEPT ![s] = [n EXCEPT !.in = None]]
    BY <1>0, <1>4 DEF ReceiverFail, NetOK
  <2>4. NetOK' /\ LoginOK'
    BY <1>0, <1>4, <2>2, <2>3, NetUpdate, PanicHookType DEF ReceiverFail
  <2>5. QED
    BY <1>4, <2>4 DEF ReceiverFail, TypeOK
<1>5. QED
  BY <1>1, <1>2, <1>3, <1>4 DEF Receiver

-----------------------------------------------------------------------------
(* The steps of the endpoints.                                              *)

\* A read that leaves a frame in the source's hands.
LEMMA ReadsType ==
  ASSUME EndsOK, NEW s \in Side, NEW f \in Frame, Reads(s, f)
  PROVE  EndsOK'
  BY EndsParts, EndsFields, EndsUpdate DEF Reads

\* A step that reads stdin or the child's stdout keeps the types.
LEMMA ReadType ==
  ASSUME TypeOK,
         ReadStdin \/ (\E s \in Side : ReadEnd(s) \/ ReadFail(s)) \/ ReadChild
  PROVE  TypeOK'
<1> USE UnchangedTypes
<1>0. EndsOK /\ IoOK /\ "Local" \in Side /\ "Remote" \in Side
  BY DEF TypeOK, Side
<1>1. ASSUME ReadStdin PROVE TypeOK'
  <2>1. /\ io.typed \in 0 .. NIn /\ io.typed < NIn
        /\ NIn \in Nat /\ NOut \in Nat /\ NResize \in Nat
    BY <1>0, <1>1, SessionAssumption DEF ReadStdin, IoOK
  <2>2. F("Output", io.typed + 1) \in Frame
    BY <2>1, FrameType DEF FrameTypes, ChannelData
  <2>3. EndsOK'
    BY <1>0, <1>1, <2>2, ReadsType DEF ReadStdin
  <2>4. io.typed + 1 \in 0 .. NIn
    BY <2>1
  <2>5. IoOK'
    BY <1>0, <1>1, <2>4 DEF ReadStdin, IoOK
  <2>6. QED
    BY <1>1, <2>3, <2>5 DEF ReadStdin, Reads, TypeOK
<1>2. ASSUME NEW s \in Side, ReadEnd(s) PROVE TypeOK'
  <2>1. F("Shutdown", 0) \in Frame
    BY FrameType, SessionAssumption DEF FrameTypes, ChannelData
  <2>2. EndsOK'
    BY <1>0, <1>2, <2>1, ReadsType DEF ReadEnd
  <2>3. QED
    BY <1>2, <2>2 DEF ReadEnd, Reads, TypeOK
<1>3. ASSUME ReadChild PROVE TypeOK'
  <2>1. /\ io.outRead \in 0 .. NOut /\ io.outMade \in 0 .. NOut /\ io.outRead < io.outMade
        /\ NIn \in Nat /\ NOut \in Nat /\ NResize \in Nat
    BY <1>0, <1>3, SessionAssumption DEF ReadChild, IoOK
  <2>2. F("Output", io.outRead + 1) \in Frame
    BY <2>1, FrameType DEF FrameTypes, ChannelData
  <2>3. EndsOK'
    BY <1>0, <1>3, <2>2, ReadsType DEF ReadChild
  <2>4. io.outRead + 1 \in 0 .. NOut
    BY <2>1
  <2>5. IoOK'
    BY <1>0, <1>3, <2>4 DEF ReadChild, IoOK
  <2>6. QED
    BY <1>3, <2>3, <2>5 DEF ReadChild, Reads, TypeOK
<1>4. ASSUME NEW s \in Side, ReadFail(s) PROVE TypeOK'
  <2>1. [ends[s] EXCEPT !.source = "end"] \in EndsType
    BY <1>0, EndsParts, EndsFields
  <2>2. EndsOK'
    BY <1>0, <1>4, <2>1, EndsUpdate DEF ReadFail
  <2>3. QED
    BY <1>4, <2>2 DEF ReadFail, TypeOK
<1>5. QED
  BY <1>1, <1>2, <1>3, <1>4

\* A step of a source task keeps the types.
LEMMA SourceType ==
  ASSUME TypeOK, NEW s \in Side, Source(s)
  PROVE  TypeOK'
<1> USE UnchangedTypes
<1> DEFINE e == [ends[s] EXCEPT !.data = None]
           e2 == [[ends[s] EXCEPT !.source = "end"] EXCEPT !.data = None]
<1>0. NetOK /\ EndsOK /\ ends[s] \in EndsType
  BY EndsParts DEF TypeOK
<1>1. e \in EndsType /\ e2 \in EndsType
  <2>1. [ends[s] EXCEPT !.source = "end"] \in EndsType
    BY <1>0, EndsFields
  <2>2. QED
    BY <1>0, <2>1, EndsFields
<1>2. SourceEnds(s) => EndsOK'
  <2>1. ASSUME SourceEnds(s) PROVE ends' = [ends EXCEPT ![s] = e2]
    BY <1>0, <2>1 DEF SourceEnds, EndsOK
  <2>2. QED
    BY <1>0, <1>1, <2>1, EndsUpdate
<1>3. ASSUME SourcePush(s) PROVE TypeOK'
  <2>1. Send(ends[s].data) \in Command
    BY <1>0, <1>3, EndsParts, FrameCommand DEF SourcePush
  <2>2. NetOK'
    BY <1>0, <1>3, <2>1, SendsType DEF SourcePush
  <2>3. EndsOK'
    BY <1>0, <1>1, <1>2, <1>3, EndsUpdate DEF SourcePush
  <2>4. QED
    BY <1>3, <2>2, <2>3 DEF SourcePush, TypeOK
<1>4. ASSUME SourceFail(s) PROVE TypeOK'
  BY <1>2, <1>4 DEF SourceFail, TypeOK
<1>5. QED
  BY <1>3, <1>4 DEF Source

\* The frame a sink takes, and its queue afterwards.
LEMMA SinkTakesType ==
  ASSUME EndsOK, NEW s \in Side, NEW t, SinkTakes(s, t)
  PROVE  /\ SinkValue(s) \in Nat
         /\ SinkNext(s) => EndsOK'
<1>1. /\ Head(ends[s].chan) \in Frame
      /\ Tail(ends[s].chan) \in Seq(Frame) /\ Len(Tail(ends[s].chan)) <= ChanCap
  BY EndsParts, EmptyQueue DEF SinkTakes
<1>2. [ends[s] EXCEPT !.chan = Tail(@)] \in EndsType
  BY <1>1, EndsParts, EndsFields
<1>3. SinkNext(s) => EndsOK'
  BY <1>2, EndsUpdate DEF SinkNext
<1>4. QED
  BY <1>1, <1>3, FrameValue DEF SinkValue

\* A step of a sink task keeps the types.
LEMMA SinkType ==
  ASSUME TypeOK, (\E s \in Side : Sink(s)) \/ Writer
  PROVE  TypeOK'
<1> USE UnchangedTypes
<1>0. EndsOK /\ IoOK /\ RemoteOK /\ "Local" \in Side /\ "Remote" \in Side
  BY DEF TypeOK, Side
<1>1. ASSUME WriteStdout PROVE TypeOK'
  <2>1. SinkValue("Local") \in Nat /\ EndsOK'
    BY <1>0, <1>1, SinkTakesType DEF WriteStdout
  <2>2. Append(io.outGot, SinkValue("Local")) \in Seq(Nat)
    BY <1>0, <2>1 DEF IoOK
  <2>3. IoOK'
    BY <1>0, <1>1, <2>2 DEF WriteStdout, IoOK
  <2>4. QED
    BY <1>1, <2>1, <2>3 DEF WriteStdout, SinkTakes, TypeOK
<1>2. ASSUME WriteChild PROVE TypeOK'
  <2>1. SinkValue("Remote") \in Nat /\ EndsOK'
    BY <1>0, <1>2, SinkTakesType DEF WriteChild
  <2>2. Append(io.inGot, SinkValue("Remote")) \in Seq(Nat)
    BY <1>0, <2>1 DEF IoOK
  <2>3. IoOK'
    BY <1>0, <1>2, <2>2 DEF WriteChild, IoOK
  <2>4. QED
    BY <1>2, <2>1, <2>3 DEF WriteChild, SinkTakes, TypeOK
<1>3. ASSUME NEW s \in Side, SinkFail(s) PROVE TypeOK'
  BY <1>0, <1>3, DropReceiverType DEF SinkFail, SinkTakes, TypeOK
<1>4. ASSUME NEW s \in Side, SinkResize(s) PROVE TypeOK'
  <2>1. SinkValue(s) \in Nat /\ EndsOK'
    BY <1>0, <1>4, SinkTakesType DEF SinkResize
  <2>2. RemoteOK'
    BY <1>0, <1>4, <2>1 DEF SinkResize, RemoteOK
  <2>3. QED
    BY <1>4, <2>1, <2>2 DEF SinkResize, SinkTakes, TypeOK
<1>5. ASSUME NEW s \in Side, SinkShutdown(s) PROVE TypeOK'
  <2>1. EndsOK'
    BY <1>0, <1>5, DropReceiverType DEF SinkShutdown
  <2>2. IoOK'
    BY <1>0, <1>5 DEF SinkShutdown, IoOK
  <2>3. QED
    BY <1>5, <2>1, <2>2 DEF SinkShutdown, SinkTakes, TypeOK
<1>6. QED
  BY <1>1, <1>2, <1>3, <1>4, <1>5 DEF Sink, Writer

\* A step of process::run, or of the child, keeps the types.
LEMMA ProcType ==
  ASSUME TypeOK, Proc \/ ChildIO \/ ChildGoes
  PROVE  TypeOK'
<1> USE UnchangedTypes
<1>0. NetOK /\ EndsOK /\ RemoteOK /\ IoOK /\ "Remote" \in Side
  BY DEF TypeOK, Side
<1>1. CASE ProcSpawn \/ ProcReap \/ ChildGoes
  <2>1. RemoteOK'
    BY <1>0, <1>1 DEF ProcSpawn, ProcReap, ProcTo, ChildGoes, RemoteOK
  <2>2. QED
    BY <1>1, <2>1 DEF ProcSpawn, ProcReap, ChildGoes, TypeOK
<1>2. CASE ProcSpawnFail \/ ProcFail
  <2>1. EndsOK'
    BY <1>0, <1>2, DropReceiverType DEF ProcSpawnFail, ProcFail
  <2>2. RemoteOK'
    BY <1>0, <1>2 DEF ProcSpawnFail, ProcFail, ProcTo, RemoteOK
  <2>3. QED
    BY <1>2, <2>1, <2>2 DEF ProcSpawnFail, ProcFail, TypeOK
<1>3. CASE ProcSink
  <2>1. NetOK'
    BY <1>0, <1>3, SendsType, FrameCommand DEF ProcSink
  <2>2. [ends["Remote"] EXCEPT !.sink = "queued"] \in EndsType
    BY <1>0, EndsParts, EndsFields
  <2>3. EndsOK'
    BY <1>0, <1>3, <2>2, EndsUpdate DEF ProcSink
  <2>4. RemoteOK'
    BY <1>0, <1>3 DEF ProcSink, ProcTo, RemoteOK
  <2>5. QED
    BY <1>3, <2>1, <2>3, <2>4 DEF ProcSink, TypeOK
<1>4. CASE ProcSource \/ ProcExit
  <2>1. F("ProcessExit", 0) \in Frame
    BY FrameType, SessionAssumption DEF FrameTypes
  <2>2. NetOK'
    BY <1>0, <1>4, <2>1, SendsType, FrameCommand DEF ProcSource, ProcExit
  <2>3. RemoteOK'
    BY <1>0, <1>4 DEF ProcSource, ProcExit, ProcTo, RemoteOK
  <2>4. QED
    BY <1>4, <2>2, <2>3 DEF ProcSource, ProcExit, TypeOK
<1>5. CASE ChildIO
  <2>1. io.outMade < NOut => io.outMade + 1 \in 0 .. NOut
    BY <1>0, SessionAssumption, SMTT(30) DEF IoOK
  <2>2. io.inRead + 1 \in Nat
    BY <1>0 DEF IoOK
  <2>3. \/ io.outMade < NOut /\ io' = [io EXCEPT !.outMade = io.outMade + 1]
        \/ io' = [io EXCEPT !.inRead = io.inRead + 1]
    BY <1>5 DEF ChildIO
  <2>4. IoOK'
    BY <1>0, <2>1, <2>2, <2>3 DEF IoOK
  <2>5. QED
    BY <1>5, <2>4 DEF ChildIO, TypeOK
<1>6. QED
  BY <1>1, <1>2, <1>3, <1>4, <1>5 DEF Proc

-----------------------------------------------------------------------------
(* The steps of login.rs, and the ends of the processes.                    *)

\* The frames the login process makes itself.
LEMMA LoginFrames ==
  ASSUME NEW v \in 0 .. NResize
  PROVE  /\ F("SetEnv", 0) \in Frame /\ F("Exit", 0) \in Frame
         /\ F("Spawn", v) \in Frame /\ F("WindowSizeChange", v) \in Frame
<1>1. 0 \in 0 .. NIn + NOut + NResize /\ v \in 0 .. NIn + NOut + NResize
  BY SessionAssumption
<1>2. QED
  BY <1>1, FrameType DEF FrameTypes, ChannelData

\* One of the sends of login::run.
LEMMA MainSendsType ==
  ASSUME LoginOK, NetOK, NEW at, NEW c \in Command,
         NEW next \in {"await", "register", "spawn", "source", "wait", "exit self", "ssh"},
         MainSends(at, c, next)
  PROVE  LoginOK' /\ NetOK'
<1>1. NetOK'
  BY SendsType DEF MainSends, Side
<1>2. LoginOK'
  BY DEF MainSends, MainTo, LoginOK
<1>3. QED
  BY <1>1, <1>2

\* A step of the main task keeps the types.
LEMMA MainType ==
  ASSUME TypeOK, Main
  PROVE  TypeOK'
<1> USE UnchangedTypes
<1>0. LoginOK /\ WinchOK /\ NetOK /\ EndsOK /\ "Local" \in Side /\ ends["Local"] \in EndsType
  BY EndsParts DEF TypeOK, Side
<1>1. /\ login.size \in 0 .. NResize /\ winch.win \in 0 .. NResize
      /\ Send(F("SetEnv", 0)) \in Command /\ Send(F("Spawn", login.size)) \in Command
      /\ Send(F("Exit", 0)) \in Command /\ Recv(F("Exit", 0)) \in Command
      /\ SourceCmd \in Command /\ SinkCmd \in Command
  <2>1. login.size \in 0 .. NResize /\ winch.win \in 0 .. NResize
    BY <1>0 DEF LoginOK, WinchOK
  <2>2. QED
    BY <2>1, LoginFrames, FrameCommand
<1>2. CASE MainSetEnv \/ MainSpawn \/ MainSource \/ MainExitPeer \/ MainExitSelf
  <2>1. LoginOK' /\ NetOK'
    BY <1>0, <1>1, <1>2, MainSendsType
    DEF MainSetEnv, AfterSetEnv, MainSpawn, MainSource, MainExitPeer, MainExitSelf
  <2>2. QED
    BY <1>2, <2>1 DEF MainSetEnv, MainSpawn, MainSource, MainExitPeer, MainExitSelf, TypeOK
<1>3. CASE MainRegister
  <2>1. LoginOK'
    BY <1>0, <1>3 DEF MainRegister, Entered, LoginOK
  <2>2. [ends["Local"] EXCEPT !.sink = "held"] \in EndsType
    BY <1>0, EndsFields
  <2>3. EndsOK'
    BY <1>0, <1>3, <2>2, EndsUpdate DEF MainRegister
  <2>4. WinchOK'
    BY <1>0, <1>3 DEF MainRegister, WinchOK
  <2>5. QED
    BY <1>3, <2>1, <2>3, <2>4 DEF MainRegister, TypeOK
<1>4. CASE MainSize
  <2>1. (IF UsePty THEN winch.win ELSE 0) \in 0 .. NResize
    BY <1>1, SessionAssumption
  <2>2. LoginOK'
    BY <1>0, <1>4, <2>1 DEF MainSize, LoginOK
  <2>3. QED
    BY <1>4, <2>2 DEF MainSize, TypeOK
<1>5. CASE MainSink
  <2>1. LoginOK' /\ NetOK'
    BY <1>0, <1>1, <1>5, MainSendsType DEF MainSink
  <2>2. [ends["Local"] EXCEPT !.sink = "queued"] \in EndsType
    BY <1>0, EndsFields
  <2>3. EndsOK'
    BY <1>0, <1>5, <2>2, EndsUpdate DEF MainSink
  <2>4. QED
    BY <1>5, <2>1, <2>3 DEF MainSink, TypeOK
<1>6. CASE MainStatus \/ MainDone \/ MainEnterFail
  <2>1. LoginOK'
    BY <1>0, <1>6, ZenonT(60) DEF MainStatus, MainDone, MainEnterFail, MainTo, Left, LoginOK
  <2>2. QED
    BY <1>6, <2>1 DEF MainStatus, MainDone, MainEnterFail, TypeOK
<1>7. CASE MainFail \/ MainSizeFail
  <2>1. LoginOK'
    BY <1>0, <1>7 DEF MainFail, MainSizeFail, MainTo, LoginOK
  <2>2. EndsOK'
    BY <1>0, <1>7, DropReceiverType DEF MainFail, MainSizeFail
  <2>3. QED
    BY <1>7, <2>1, <2>2 DEF MainFail, MainSizeFail, TypeOK
<1>8. QED
  BY <1>2, <1>3, <1>4, <1>5, <1>6, <1>7 DEF Main

\* A resize, a step of the window-change task and the panic of the task that copies
\* stderr keep the types.
LEMMA WinchType ==
  ASSUME TypeOK, Resize \/ Winch \/ StderrFail
  PROVE  TypeOK'
<1> USE UnchangedTypes
<1>0. LoginOK /\ WinchOK /\ NetOK /\ "Local" \in Side
  BY DEF TypeOK, Side
<1>1. CASE Resize
  <2>1. winch.win + 1 \in 0 .. NResize
    BY <1>0, <1>1, SessionAssumption DEF Resize, WinchOK
  <2>2. (winch.pending \/ winch.st = "on") \in BOOLEAN
    BY <1>0 DEF WinchOK
  <2>3. WinchOK'
    BY <1>0, <1>1, <2>1, <2>2 DEF Resize, WinchOK
  <2>4. QED
    BY <1>1, <2>3 DEF Resize, TypeOK
<1>2. CASE WinchStart
  BY <1>0, <1>2 DEF WinchStart, WinchOK, TypeOK
<1>3. CASE WinchTake
  <2>1. F("WindowSizeChange", winch.win) \in Frame
    BY <1>0, LoginFrames DEF WinchOK
  <2>2. WinchOK'
    BY <1>0, <1>3, <2>1 DEF WinchTake, WinchOK
  <2>3. QED
    BY <1>3, <2>2 DEF WinchTake, TypeOK
<1>4. CASE WinchPush
  <2>1. Send(winch.hold) \in Command
    BY <1>0, <1>4, FrameCommand DEF WinchPush, WinchOK
  <2>2. NetOK'
    BY <1>0, <1>4, <2>1, SendsType DEF WinchPush
  <2>3. WinchOK'
    BY <1>0, <1>4 DEF WinchPush, WinchOK
  <2>4. QED
    BY <1>4, <2>2, <2>3 DEF WinchPush, TypeOK
<1>5. CASE WinchFail
  <2>1. LoginOK'
    BY <1>0, <1>5, PanicHookType DEF WinchFail
  <2>2. WinchOK'
    BY <1>0, <1>5 DEF WinchFail, WinchOK
  <2>3. QED
    BY <1>5, <2>1, <2>2 DEF WinchFail, TypeOK
<1>6. CASE StderrFail
  <2>1. LoginOK'
    BY <1>0, <1>6, PanicHookType DEF StderrFail
  <2>2. QED
    BY <1>6, <2>1 DEF StderrFail, TypeOK
<1>7. QED
  BY <1>1, <1>2, <1>3, <1>4, <1>5, <1>6 DEF Winch

\* The end of a process or of the connection keeps the types.
LEMMA EndType ==
  ASSUME TypeOK, Shutdown \/ Abort \/ LinkDown
  PROVE  TypeOK'
<1> USE UnchangedTypes
<1>0. UpOK /\ NetOK
  BY DEF TypeOK
<1>1. ASSUME NEW s \in Side, Exits(s) PROVE TypeOK'
  <2>1. UpOK'
    BY <1>0, <1>1 DEF Exits, UpOK
  <2>2. QED
    BY <1>1, <2>1 DEF Exits, TypeOK
<1>2. CASE LinkDown
  <2>1. \A s \in Side : [net[s] EXCEPT !.wire = <<>>] \in NetType
    BY <1>0, NetParts, NetFields, EmptyQueue
  <2>2. NetOK'
    BY <1>0, <1>2, <2>1 DEF LinkDown, NetOK
  <2>3. UpOK'
    BY <1>0, <1>2 DEF LinkDown, UpOK
  <2>4. QED
    BY <1>2, <2>2, <2>3 DEF LinkDown, TypeOK
<1>3. QED
  BY <1>1, <1>2 DEF Shutdown, RemoteShutdown, LocalShutdown, Abort, Side

-----------------------------------------------------------------------------
(* The theorem.                                                             *)

\* Initially every variable has its type.
LEMMA InitType == Init => TypeOK
<1> SUFFICES ASSUME Init PROVE TypeOK
  OBVIOUS
<1> USE SessionAssumption DEF Init
<1>1. LoginOK
  BY DEF LoginOK
<1>2. WinchOK
  BY DEF WinchOK
<1>3. UpOK
  BY DEF UpOK
<1>4. NetOK
  BY EmptyQueue DEF NetOK, NetType, NetRecord, TaskState
<1>5. EndsOK
  BY EmptyQueue DEF EndsOK, EndsType, EndsRecord
<1>6. RemoteOK
  BY DEF RemoteOK
<1>7. IoOK
  BY DEF IoOK
<1>8. QED
  BY <1>1, <1>2, <1>3, <1>4, <1>5, <1>6, <1>7 DEF TypeOK

\* Every variable keeps its type, and every queue of router.rs its capacity, whatever
\* the capacities, the amount of data and the faults.
THEOREM SessionTypes == Spec => []TypeOK
<1>1. ASSUME TypeOK, [Next]_vars PROVE TypeOK'
  <2>1. CASE Next
    BY <1>1, <2>1, RouterType, SenderType, ReceiverType, ReadType, SourceType, SinkType,
       ProcType, MainType, WinchType, EndType DEF Next, Env, ChildReader, Side
  <2>2. CASE UNCHANGED vars
    BY <1>1, <2>2, UnchangedTypes DEF vars, TypeOK
  <2>3. QED
    BY <1>1, <2>1, <2>2
<1>2. QED
  BY <1>1, InitType, PTL DEF Spec
=============================================================================
