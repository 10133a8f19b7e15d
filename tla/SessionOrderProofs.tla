-------------------------- MODULE SessionOrderProofs --------------------------
(***************************************************************************)
(* Proofs about the order of a session: that SetEnv is applied before the  *)
(* child runs, that nobody logs out before the child has exited, and that  *)
(* the terminal leaves raw mode, for queues of any capacity, any amount of *)
(* data and any set of faults.                                             *)
(***************************************************************************)
EXTENDS SessionProofs, SequenceTheorems

-----------------------------------------------------------------------------
(* The invariant.                                                           *)

\* What either process may send to the other.  Exit and ProcessExit are sent
\* only once the child has exited, and Exit once login::run knows it.
Exited == remote.child = "exited"
Leaving == login.at \in {"exit peer", "exit self", "ssh", "done", "err"}
Kinds(s) == IF s = "Local"
            THEN {"SetEnv", "Spawn", "Output", "WindowSizeChange", "Shutdown"}
                 \cup (IF Exited /\ Leaving THEN {"Exit"} ELSE {})
            ELSE {"Output", "Shutdown"} \cup (IF Exited THEN {"ProcessExit"} ELSE {})
Frames(s) == {f \in Frame : f.t \in Kinds(s)}

\* What may be in the handler queue: what is for the other process, what comes from
\* it, the commands of one's own, and the Exit of login::run to its own router.
Upward(s) == {Send(f) : f \in Frames(s)} \cup {SourceCmd, SinkCmd}
Downward(s) == {Recv(f) : f \in Frames(Other(s))}
OwnExit == IF login.at \in {"ssh", "done"} THEN {Recv(F("Exit", 0))} ELSE {}
Commands(s) == Upward(s) \cup Downward(s) \cup (IF s = "Local" THEN OwnExit ELSE {})

\* Every queue and every task carries what its senders may send.
Jobs(s) == [to : {"peer"}, f : Frames(s)] \cup [to : {"chan"}, f : Frame] \cup {NoJob}
Traffic(s) == /\ net[s].handler \in Seq(Commands(s))
              /\ net[s].peer \in Seq(Frames(s)) /\ net[s].wire \in Seq(Frames(s))
              /\ net[s].job \in Jobs(s)
              /\ net[s].out \in Frames(s) \cup {None}
              /\ net[s].in \in Frames(Other(s)) \cup {None}
Origins == /\ \A s \in Side : ends[s].data = None \/ ends[s].data.t \in {"Output", "Shutdown"}
           /\ winch.hold = None \/ winch.hold.t = "WindowSizeChange"
TrafficInv == Origins /\ \A s \in Side : Traffic(s)

\* Until Spawn arrives the remote process sends nothing, runs nothing and does not end.
Silent == LET l == net["Local"]  r == net["Remote"] IN
    remote.proc = "none" =>
        /\ remote.child = "none" /\ ends["Remote"].sink = "none"
        /\ ends["Remote"].source = "none" /\ ends["Remote"].data = None
        /\ r.router = "run" /\ r.handler \in Seq(Downward("Remote")) /\ r.job = NoJob
        /\ r.peer = <<>> /\ r.out = None /\ r.wire = <<>>
        /\ l.in = None /\ l.handler \in Seq(Upward("Local"))

\* What takes place only once the child has exited, and the child only after Spawn.
ExitInv == /\ LogoutAfterChild
           /\ net["Remote"].router = "done" => Leaving
           /\ remote.proc = "exit" => Exited
           /\ remote.proc = "spawn" => remote.child = "none"
           /\ net["Local"].router = "done" => login.at \in {"ssh", "done"}

\* There is one Spawn: it is still to be sent, in one place on its way, or taken.
One(b) == IF b THEN 1 ELSE 0
Holds(q) == \E i \in 1 .. Len(q) : q[i].t = "Spawn"
Twice(q) == \E i, j \in 1 .. Len(q) : i # j /\ q[i].t = "Spawn" /\ q[j].t = "Spawn"
HoldsCmd(q) == \E i \in 1 .. Len(q) : q[i].f.t = "Spawn"
TwiceCmd(q) == \E i, j \in 1 .. Len(q) : i # j /\ q[i].f.t = "Spawn" /\ q[j].f.t = "Spawn"
BeforeSpawn == login.at \in {"setenv", "await", "register", "size", "sink", "spawn"}
SpawnOnce == LET l == net["Local"]  r == net["Remote"] IN
    /\ One(BeforeSpawn) + One(HoldsCmd(l.handler)) + One(l.job.to = "peer" /\ l.job.f.t = "Spawn")
       + One(Holds(l.peer)) + One(l.out.t = "Spawn") + One(Holds(l.wire))
       + One(r.in.t = "Spawn") + One(HoldsCmd(r.handler)) + One(remote.proc # "none") <= 1
    /\ ~TwiceCmd(l.handler) /\ ~Twice(l.peer) /\ ~Twice(l.wire) /\ ~TwiceCmd(r.handler)

\* Up to the choice of a command the login process has sent SetEnv alone: its router
\* has nothing to fail on.
SetEnvFrame == F("SetEnv", 0)
Opening == LET l == net["Local"] IN
    login.at \in {"setenv", "await", "register"} =>
        /\ l.router = "run" /\ login.notifier = "none"
        /\ winch.st = "none" /\ winch.hold = None
        /\ ends["Local"].sink = "none" /\ ends["Local"].source = "none"
        /\ ends["Local"].data = None
        /\ l.handler \in {<<>>, <<Send(SetEnvFrame)>>}
        /\ l.job \in {NoJob, [to |-> "peer", f |-> SetEnvFrame]}
        /\ l.peer \in {<<>>, <<SetEnvFrame>>}
        /\ l.handler # <<>> => l.job = NoJob
        /\ l.handler # <<>> \/ l.job # NoJob => l.sender = "run" /\ l.peer = <<>> /\ l.out = None
        /\ l.peer # <<>> => l.out = None
        /\ login.at = "setenv" =>
               /\ l.handler = <<>> /\ l.job = NoJob /\ l.peer = <<>> /\ l.out = None
               /\ l.sender = "run"

\* Raw mode is entered at most once, with the router running, and left by whoever
\* ends the session.
RawInv ==
    /\ TerminalRestored
    /\ login.raw => login.scene.tty /\ (login.orig \/ login.term \in {"leave", "hook", "size"})
    /\ login.term \in {"leave", "size"} => login.at = "err"
    /\ login.at \in {"setenv", "await", "register"}
           => ~login.raw /\ ~login.orig /\ login.term = "ok"
    /\ login.at \in {"size", "sink", "spawn", "source", "wait"} /\ ~Open("Local")
           => ~login.raw \/ login.term = "hook"

\* As long as SetEnv is not applied it is the next frame on the way to the remote
\* router, or it is still to be sent, or it is lost and nothing follows it.
InClear == net["Remote"].handler = <<>> /\ net["Remote"].in = None
WireClear == InClear /\ net["Local"].wire = <<>> /\ ~ReaderGone("Remote")
SenderClear == /\ WireClear /\ net["Local"].out = None /\ net["Local"].peer = <<>>
               /\ net["Local"].sender = "run"
RouterClear == SenderClear /\ net["Local"].job.to # "peer" /\ Open("Local")
EnvNext == LET l == net["Local"]  r == net["Remote"] IN
    /\ r.handler # <<>> => Head(r.handler).f.t = "SetEnv"
    /\ r.handler = <<>> /\ r.in # None => r.in.t = "SetEnv"
    /\ InClear /\ l.wire # <<>> => Head(l.wire).t = "SetEnv"
    /\ WireClear /\ l.out # None => l.out.t = "SetEnv"
    /\ WireClear /\ l.out = None /\ l.peer # <<>> => Head(l.peer).t = "SetEnv"
    /\ SenderClear /\ l.job.to = "peer" => l.job.f.t = "SetEnv"
    /\ RouterClear /\ l.handler # <<>> => Head(l.handler) = Send(SetEnvFrame)
    /\ RouterClear /\ l.handler = <<>> => login.at = "setenv"
EnvFirst == ~remote.env => remote.proc = "none" /\ EnvNext

Inv == /\ TrafficInv /\ Silent /\ ExitInv /\ SpawnOnce /\ Opening /\ RawInv /\ EnvFirst

-----------------------------------------------------------------------------
(* What the steps do to the queues and the tasks of either process.         *)

Becomes(s, handler, job, peer, out, wire, in) ==
    /\ net'[s].handler = handler /\ net'[s].job = job /\ net'[s].peer = peer
    /\ net'[s].out = out /\ net'[s].wire = wire /\ net'[s].in = in
SameTasks(s) == net'[s].router = net[s].router /\ net'[s].sender = net[s].sender
Still(s) == /\ Becomes(s, net[s].handler, net[s].job, net[s].peer, net[s].out, net[s].wire,
                       net[s].in)
            /\ SameTasks(s)

Enqueued(s, c) ==
    /\ Becomes(s, Append(net[s].handler, c), net[s].job, net[s].peer,
               net[s].out, net[s].wire, net[s].in)
    /\ SameTasks(s) /\ Still(Other(s))
Popped(s) ==
    /\ Becomes(s, Tail(net[s].handler), net[s].job, net[s].peer,
               net[s].out, net[s].wire, net[s].in)
    /\ SameTasks(s) /\ Still(Other(s))
PoppedFor(s, to) ==
    /\ Becomes(s, Tail(net[s].handler), [to |-> to, f |-> Cmd(s).f], net[s].peer,
               net[s].out, net[s].wire, net[s].in)
    /\ SameTasks(s) /\ Still(Other(s))
Delivered(s) ==
    /\ Becomes(s, net[s].handler, NoJob, net[s].peer, net[s].out, net[s].wire, net[s].in)
    /\ SameTasks(s) /\ Still(Other(s))
Forwarded(s) ==
    /\ Becomes(s, net[s].handler, NoJob, Append(net[s].peer, net[s].job.f),
               net[s].out, net[s].wire, net[s].in)
    /\ SameTasks(s) /\ Still(Other(s))
Ended(s, how) ==
    /\ Becomes(s, <<>>, NoJob, net[s].peer, net[s].out, net[s].wire, net[s].in)
    /\ net'[s].router = how /\ net'[s].sender = net[s].sender /\ Still(Other(s))
Taken(s) ==
    /\ Becomes(s, net[s].handler, net[s].job, Tail(net[s].peer), Head(net[s].peer),
               net[s].wire, net[s].in)
    /\ SameTasks(s) /\ Still(Other(s))
Written(s) ==
    /\ Becomes(s, net[s].handler, net[s].job, net[s].peer, None,
               IF ReaderGone(Other(s)) THEN net[s].wire ELSE Append(net[s].wire, net[s].out),
               net[s].in)
    /\ SameTasks(s) /\ Still(Other(s))
SenderEnded(s, how) ==
    /\ Becomes(s, net[s].handler, net[s].job, <<>>, None, net[s].wire, net[s].in)
    /\ net'[s].router = net[s].router /\ net'[s].sender = how /\ Still(Other(s))
Received(s, o) ==
    /\ Becomes(s, net[s].handler, net[s].job, net[s].peer, net[s].out,
               net[s].wire, Head(net[o].wire))
    /\ Becomes(o, net[o].handler, net[o].job, net[o].peer, net[o].out,
               Tail(net[o].wire), net[o].in)
    /\ SameTasks(s) /\ SameTasks(o)
Pushed(s) ==
    /\ Becomes(s, Append(net[s].handler, Recv(net[s].in)), net[s].job, net[s].peer,
               net[s].out, net[s].wire, None)
    /\ SameTasks(s) /\ Still(Other(s))
Dropped(s) ==
    /\ Becomes(s, net[s].handler, net[s].job, net[s].peer, net[s].out, net[s].wire, None)
    /\ SameTasks(s) /\ Still(Other(s))
Cut(s) == /\ \E w \in {net[s].wire, <<>>} :
                 Becomes(s, net[s].handler, net[s].job, net[s].peer, net[s].out, w, net[s].in)
          /\ SameTasks(s)

Quiet == Still("Local") /\ Still("Remote")

\* The two processes.
LEMMA Sides == /\ "Local" \in Side /\ "Remote" \in Side
               /\ Other("Local") = "Remote" /\ Other("Remote") = "Local"
               /\ \A s \in Side : Other(s) \in Side /\ Other(s) # s /\ Other(Other(s)) = s
               /\ \A s \in Side : s = "Local" \/ s = "Remote"
  BY DEF Side, Other

\* One side of net changes.
LEMMA OneSide ==
  ASSUME NetOK, NEW s \in Side, NEW n, net' = [net EXCEPT ![s] = n]
  PROVE  net'[s] = n /\ net'[Other(s)] = net[Other(s)]
  BY Sides DEF NetOK

\* A step that leaves net alone.
LEMMA UnchangedEffect == ASSUME UNCHANGED net PROVE Quiet
  BY DEF Quiet, Still, SameTasks, Becomes

\* A command is put at the end of the handler queue.
LEMMA SendsEffect ==
  ASSUME NetOK, NEW s \in Side, NEW c, Sends(s, c)
  PROVE  Alive(s) /\ Open(s) /\ Enqueued(s, c)
<1> DEFINE n == [net[s] EXCEPT !.handler = Append(@, c)]
<1>1. net' = [net EXCEPT ![s] = n]
  BY DEF Sends
<1>2. net'[s] = n /\ net'[Other(s)] = net[Other(s)]
  BY <1>1, OneSide
<1>3. net[s] \in NetRecord
  BY DEF NetOK, NetType
<1>4. QED
  BY <1>2, <1>3 DEF Sends, NetRecord, Enqueued, Becomes, SameTasks, Still

\* The router is done with the command it takes.
LEMMA PopEffect ==
  ASSUME NetOK, NEW s \in Side, Pop(s)
  PROVE  Popped(s)
<1> DEFINE n == [net[s] EXCEPT !.handler = Tail(@)]
<1>1. net' = [net EXCEPT ![s] = n]
  BY DEF Pop
<1>2. net'[s] = n /\ net'[Other(s)] = net[Other(s)]
  BY <1>1, OneSide
<1>3. net[s] \in NetRecord
  BY DEF NetOK, NetType
<1>4. QED
  BY <1>2, <1>3 DEF NetRecord, Popped, Becomes, SameTasks, Still

\* The router takes a command and keeps its frame as its job.
LEMMA PopForEffect ==
  ASSUME NetOK, NEW s \in Side, NEW to, PopFor(s, to)
  PROVE  PoppedFor(s, to)
<1> DEFINE n == [net[s] EXCEPT !.handler = Tail(@), !.job = [to |-> to, f |-> Cmd(s).f]]
<1>1. net[s] \in NetRecord
  BY DEF NetOK, NetType
<1>2. net' = [net EXCEPT ![s] = n]
  BY <1>1 DEF PopFor, NetOK, NetRecord
<1>3. net'[s] = n /\ net'[Other(s)] = net[Other(s)]
  BY <1>2, OneSide
<1>4. QED
  BY <1>1, <1>3 DEF NetRecord, PoppedFor, Becomes, SameTasks, Still

\* The job goes to the ChannelReceiver.
LEMMA DeliverEffect ==
  ASSUME NetOK, NEW s \in Side, RouterDeliver(s)
  PROVE  Delivered(s)
<1> DEFINE n == [net[s] EXCEPT !.job = NoJob]
<1>1. net[s] \in NetRecord
  BY DEF NetOK, NetType
<1>2. net' = [net EXCEPT ![s] = n]
  BY <1>1 DEF RouterDeliver, NetOK, NetRecord
<1>3. net'[s] = n /\ net'[Other(s)] = net[Other(s)]
  BY <1>2, OneSide
<1>4. QED
  BY <1>1, <1>3 DEF NetRecord, Delivered, Becomes, SameTasks, Still

\* The job goes to the end of the peer queue.
LEMMA ForwardEffect ==
  ASSUME NetOK, NEW s \in Side, RouterForward(s)
  PROVE  Forwarded(s)
<1> DEFINE n == [net[s] EXCEPT !.peer = Append(@, net[s].job.f), !.job = NoJob]
<1>1. net[s] \in NetRecord
  BY DEF NetOK, NetType
<1>2. net' = [net EXCEPT ![s] = n]
  BY <1>1 DEF RouterForward, NetOK, NetRecord
<1>3. net'[s] = n /\ net'[Other(s)] = net[Other(s)]
  BY <1>2, OneSide
<1>4. QED
  BY <1>1, <1>3 DEF NetRecord, Forwarded, Becomes, SameTasks, Still

\* A router task ends, with all it has not handled.
LEMMA EndsEffect ==
  ASSUME NetOK, NEW s \in Side, NEW how, RouterEnds(s, how)
  PROVE  Ended(s, how)
<1> DEFINE n == [net[s] EXCEPT !.router = how, !.job = NoJob, !.handler = <<>>]
<1>1. net[s] \in NetRecord
  BY DEF NetOK, NetType
<1>2. net' = [net EXCEPT ![s] = n]
  BY <1>1 DEF RouterEnds, NetOK, NetRecord
<1>3. net'[s] = n /\ net'[Other(s)] = net[Other(s)]
  BY <1>2, OneSide
<1>4. QED
  BY <1>1, <1>3 DEF NetRecord, Ended, Becomes, SameTasks, Still

\* The sender takes the next frame.
LEMMA TakeEffect ==
  ASSUME NetOK, NEW s \in Side, SenderTake(s)
  PROVE  Taken(s)
<1> DEFINE n == [net[s] EXCEPT !.out = Head(net[s].peer), !.peer = Tail(@)]
<1>1. net[s] \in NetRecord
  BY DEF NetOK, NetType
<1>2. net' = [net EXCEPT ![s] = n]
  BY <1>1 DEF SenderTake, NetOK, NetRecord
<1>3. net'[s] = n /\ net'[Other(s)] = net[Other(s)]
  BY <1>2, OneSide
<1>4. QED
  BY <1>1, <1>3 DEF NetRecord, Taken, Becomes, SameTasks, Still

\* The sender writes its frame, to a reader that may be gone.
LEMMA WriteEffect ==
  ASSUME NetOK, NEW s \in Side, SenderWrite(s)
  PROVE  Written(s)
<1> DEFINE n == [net[s] EXCEPT !.out = None,
                              !.wire = IF ReaderGone(Other(s)) THEN @ ELSE Append(@, net[s].out)]
<1>1. net[s] \in NetRecord
  BY DEF NetOK, NetType
<1>2. net' = [net EXCEPT ![s] = n]
  BY <1>1 DEF SenderWrite, NetOK, NetRecord
<1>3. net'[s] = n /\ net'[Other(s)] = net[Other(s)]
  BY <1>2, OneSide
<1>4. QED
  BY <1>1, <1>3 DEF NetRecord, Written, Becomes, SameTasks, Still

\* A sender that fails takes its frame and its queue along.
LEMMA SenderFailEffect ==
  ASSUME NetOK, NEW s \in Side, SenderFail(s)
  PROVE  SenderEnded(s, "failed")
<1> DEFINE n == [net[s] EXCEPT !.sender = "failed", !.out = None, !.peer = <<>>]
<1>1. net[s] \in NetRecord
  BY DEF NetOK, NetType
<1>2. net' = [net EXCEPT ![s] = n]
  BY <1>1 DEF SenderFail, NetOK, NetRecord
<1>3. net'[s] = n /\ net'[Other(s)] = net[Other(s)]
  BY <1>2, OneSide
<1>4. QED
  BY <1>1, <1>3 DEF NetRecord, SenderEnded, Becomes, SameTasks, Still

\* A sender that is done leaves nothing behind.
LEMMA SenderDoneEffect ==
  ASSUME NetOK, NEW s \in Side, SenderDone(s)
  PROVE  SenderEnded(s, "done")
<1> DEFINE n == [net[s] EXCEPT !.sender = "done"]
<1>1. net[s] \in NetRecord
  BY DEF NetOK, NetType
<1>2. net' = [net EXCEPT ![s] = n]
  BY <1>1 DEF SenderDone, NetOK, NetRecord
<1>3. net'[s] = n /\ net'[Other(s)] = net[Other(s)]
  BY <1>2, OneSide
<1>4. QED
  BY <1>1, <1>3 DEF SenderDone, NetRecord, SenderEnded, Becomes, SameTasks, Still

\* At end of file no frame moves.
LEMMA EofEffect ==
  ASSUME NetOK, NEW s \in Side, ReceiverEof(s)
  PROVE  Quiet
<1> DEFINE n == [net[s] EXCEPT !.receiver = "done"]
<1>1. net[s] \in NetRecord
  BY DEF NetOK, NetType
<1>2. net' = [net EXCEPT ![s] = n]
  BY <1>1 DEF ReceiverEof, NetOK, NetRecord
<1>3. net'[s] = n /\ net'[Other(s)] = net[Other(s)]
  BY <1>2, OneSide
<1>4. QED
  BY <1>1, <1>3, Sides DEF NetRecord, Quiet, Becomes, SameTasks, Still

\* The receiver hands its frame to the router.
LEMMA PushEffect ==
  ASSUME NetOK, NEW s \in Side, ReceiverPush(s)
  PROVE  Pushed(s)
<1> DEFINE n == [net[s] EXCEPT !.handler = Append(@, Recv(net[s].in)), !.in = None]
<1>1. net[s] \in NetRecord
  BY DEF NetOK, NetType
<1>2. net' = [net EXCEPT ![s] = n]
  BY <1>1 DEF ReceiverPush, NetOK, NetRecord
<1>3. net'[s] = n /\ net'[Other(s)] = net[Other(s)]
  BY <1>2, OneSide
<1>4. QED
  BY <1>1, <1>3 DEF NetRecord, Pushed, Becomes, SameTasks, Still

\* A receiver that fails drops its frame.
LEMMA ReceiverFailEffect ==
  ASSUME NetOK, NEW s \in Side, ReceiverFail(s)
  PROVE  Dropped(s)
<1> DEFINE n == [net[s] EXCEPT !.receiver = "failed", !.in = None]
<1>1. net[s] \in NetRecord
  BY DEF NetOK, NetType
<1>2. net' = [net EXCEPT ![s] = n]
  BY <1>1 DEF ReceiverFail, NetOK, NetRecord
<1>3. net'[s] = n /\ net'[Other(s)] = net[Other(s)]
  BY <1>2, OneSide
<1>4. QED
  BY <1>1, <1>3 DEF NetRecord, Dropped, Becomes, SameTasks, Still

\* The receiver reads the next frame of the other side.
LEMMA ReadEffect ==
  ASSUME NetOK, NEW s \in Side, ReceiverRead(s)
  PROVE  Received(s, Other(s))
<1> DEFINE o == Other(s)
           n == [net[s] EXCEPT !.in = Head(net[o].wire)]
           m == [net[o] EXCEPT !.wire = Tail(@)]
<1>1. net[s] \in NetRecord /\ net[o] \in NetRecord /\ o \in Side /\ o # s
  BY Sides DEF NetOK, NetType
<1>2. net' = [[net EXCEPT ![s] = n] EXCEPT ![o] = m]
  BY <1>1 DEF ReceiverRead, NetOK
<1>3. net'[s] = n /\ net'[o] = m
  BY <1>1, <1>2 DEF NetOK
<1>4. QED
  BY <1>1, <1>3 DEF NetRecord, Received, Becomes, SameTasks

\* What is on the wire may be lost with the connection.
LEMMA CutEffect ==
  ASSUME NetOK, NEW s \in Side, LinkDown
  PROVE  Cut(s)
<1>1. net[s] \in NetRecord
  BY DEF NetOK, NetType
<1>2. net'[s] \in {net[s], [net[s] EXCEPT !.wire = <<>>]}
  BY DEF LinkDown
<1>3. QED
  BY <1>1, <1>2 DEF NetRecord, Cut, Becomes, SameTasks

-----------------------------------------------------------------------------
(* What never goes back.                                                    *)

\* Which steps change what is kept of the remote process.
LEMMA RemoteSteps ==
  ASSUME Next
  PROVE  \/ remote' = remote
         \/ \E s \in Side : RouterSetEnv(s) \/ RouterSpawn(s) \/ SinkResize(s)
         \/ Proc \/ ChildGoes
<1>1. ASSUME NEW s \in Side, Router(s), ~RouterSetEnv(s), ~RouterSpawn(s) PROVE remote' = remote
  BY <1>1 DEF Router, RouterLookup, RouterProcessExit, RouterExit, RouterSend, RouterSource,
              RouterSink, RouterDeliver, RouterForward, RouterFail
<1>2. ASSUME NEW s \in Side, Sender(s) \/ Receiver(s) \/ Source(s) PROVE remote' = remote
  BY <1>2 DEF Sender, SenderTake, SenderWrite, SenderFail, SenderDone, Receiver, ReceiverRead,
              ReceiverEof, ReceiverPush, ReceiverFail, Source, SourcePush, SourceFail
<1>3. ASSUME NEW s \in Side, Sink(s), ~SinkResize(s) PROVE remote' = remote
  BY <1>3 DEF Sink, SinkFail, SinkShutdown
<1>4. ASSUME Main \/ Winch PROVE remote' = remote
  BY <1>4 DEF Main, MainSetEnv, MainRegister, MainEnterFail, MainSize, MainSizeFail, MainSink,
              MainSpawn, MainSource, MainStatus, MainExitPeer, MainExitSelf, MainDone, MainFail,
              Winch, WinchStart, WinchTake, WinchPush, WinchFail
<1>5. ASSUME Env, ~ChildGoes PROVE remote' = remote
  BY <1>5 DEF Env, ReadStdin, ReadEnd, ReadFail, Reads, Resize, LinkDown, ChildIO, StderrFail,
              Abort, Exits
<1>6. ASSUME ChildReader \/ Writer \/ Shutdown PROVE remote' = remote
  BY <1>6 DEF ChildReader, ReadChild, ReadEnd, ReadFail, Reads, Writer, WriteStdout, WriteChild,
              Shutdown, RemoteShutdown, LocalShutdown, Exits
<1>7. QED
  BY <1>1, <1>2, <1>3, <1>4, <1>5, <1>6 DEF Next

\* Which steps change what is kept of the main task, the notifier and the terminal.
LEMMA LoginSteps ==
  ASSUME Next
  PROVE  \/ login' = login
         \/ Main
         \/ \E s \in Side : RouterProcessExit(s)
         \/ Alive("Local") /\ PanicHook("Local") /\ up' = up
<1>1. ASSUME NEW s \in Side, Router(s), ~RouterProcessExit(s)
      PROVE  login' = login \/ (Alive("Local") /\ PanicHook("Local") /\ up' = up)
  BY <1>1 DEF Router, RouterSetEnv, RouterSpawn, RouterLookup, RouterExit, RouterSend,
              RouterSource, RouterSink, RouterDeliver, RouterForward, RouterFail, PanicHook
<1>2. ASSUME NEW s \in Side, Sender(s) \/ Receiver(s)
      PROVE  login' = login \/ (Alive("Local") /\ PanicHook("Local") /\ up' = up)
  BY <1>2 DEF Sender, SenderRuns, SenderTake, SenderWrite, SenderFail, SenderDone, Receiver,
              ReceiverRuns, ReceiverRead, ReceiverEof, ReceiverPush, ReceiverFail, PanicHook
<1>3. ASSUME NEW s \in Side, Source(s) \/ Sink(s) PROVE login' = login
  BY <1>3 DEF Source, SourcePush, SourceFail, Sink, SinkFail, SinkResize, SinkShutdown, SinkTakes
<1>4. ASSUME Winch \/ StderrFail
      PROVE  login' = login \/ (Alive("Local") /\ PanicHook("Local") /\ up' = up)
  BY <1>4 DEF Winch, WinchStart, WinchTake, WinchPush, WinchFail, WinchWakes, SendFails, StderrFail
<1>5. ASSUME Env, ~StderrFail PROVE login' = login
  BY <1>5 DEF Env, ReadStdin, ReadEnd, ReadFail, Reads, Resize, LinkDown, ChildIO, ChildGoes,
              Abort, Exits
<1>6. ASSUME Proc \/ ChildReader \/ Writer \/ Shutdown PROVE login' = login
  BY <1>6 DEF Proc, ProcSpawn, ProcSpawnFail, ProcSink, ProcSource, ProcReap, ProcExit, ProcFail,
              ChildReader, ReadChild, ReadEnd, ReadFail, Reads, Writer, WriteStdout, WriteChild,
              SinkTakes, Shutdown, RemoteShutdown, LocalShutdown, Exits
<1>7. QED
  BY <1>1, <1>2, <1>3, <1>4, <1>5, <1>6 DEF Next

\* Where a command that the router takes comes from.
LEMMA CmdOrigin ==
  ASSUME NEW s \in Side, Traffic(s), Takes(s)
  PROVE  /\ Cmd(s) \in Commands(s) /\ Tail(net[s].handler) \in Seq(Commands(s))
         /\ Cmd(s).k = "Send" => Cmd(s) = Send(Cmd(s).f) /\ Cmd(s).f \in Frames(s)
         /\ Cmd(s).k = "Recv" => \/ Cmd(s).f \in Frames(Other(s))
                                 \/ /\ s = "Local" /\ login.at \in {"ssh", "done"}
                                    /\ Cmd(s).f = F("Exit", 0)
<1>1. Cmd(s) \in Commands(s) /\ Tail(net[s].handler) \in Seq(Commands(s))
  BY HeadTailProperties DEF Traffic, Takes, Cmd
<1>2. QED
  BY <1>1 DEF Commands, Upward, Downward, OwnExit, Send, Recv, SourceCmd, SinkCmd

\* A frame that the receiver hands to the router has come from the other process.
LEMMA FrameTaken ==
  ASSUME Inv, NEW s \in Side, NEW t, TakesFrame(s, t)
  PROVE  /\ t = "Spawn" => s = "Remote" /\ HoldsCmd(net["Remote"].handler)
         /\ t = "SetEnv" => s = "Remote"
         /\ t = "Exit" /\ s = "Remote" => Exited /\ Leaving
         /\ t = "Exit" /\ s = "Local" => login.at \in {"ssh", "done"}
         /\ t = "ProcessExit" => Exited /\ s = "Local"
<1>1. Traffic(s) /\ Takes(s) /\ Cmd(s).k = "Recv" /\ Cmd(s).f.t = t
  BY DEF Inv, TrafficInv, TakesFrame
<1>2. \/ t \in Kinds(Other(s))
      \/ s = "Local" /\ login.at \in {"ssh", "done"} /\ t = "Exit"
  BY <1>1, CmdOrigin DEF Frames, F
<1>3. t = "Spawn" => s = "Remote"
  BY <1>2, Sides DEF Kinds
<1>4. 1 \in 1 .. Len(net[s].handler) /\ net[s].handler[1] = Cmd(s)
  <2>1. net[s].handler \in Seq(Commands(s)) /\ net[s].handler # <<>>
    BY <1>1 DEF Traffic, Takes
  <2>2. QED
    BY <2>1 DEF Cmd
<1>5. QED
  BY <1>1, <1>2, <1>3, <1>4, Sides DEF Kinds, HoldsCmd

\* Spawn is taken once, by the remote router.
LEMMA SpawnTaken ==
  ASSUME Inv, NEW s \in Side, RouterSpawn(s)
  PROVE  s = "Remote" /\ remote.proc = "none" /\ ~BeforeSpawn
<1>1. s = "Remote" /\ HoldsCmd(net["Remote"].handler)
  BY FrameTaken DEF RouterSpawn
<1>2. SpawnOnce
  BY DEF Inv
<1>3. remote.proc = "none" /\ ~BeforeSpawn
  BY <1>1, <1>2 DEF SpawnOnce, One
<1>4. QED
  BY <1>1, <1>3

\* SetEnv stays applied, the child stays exited, process::run is started once, and
\* the main task does not go back.
LEMMA Progress ==
  ASSUME TypeOK, Inv, Next
  PROVE  /\ remote.env => remote'.env
         /\ Exited => Exited'
         /\ remote.proc # "none" => remote'.proc # "none"
         /\ login.at \in {"ssh", "done"} => login'.at \in {"ssh", "done"}
         /\ Leaving => Leaving'
         /\ login'.scene = login.scene
<1>1. RemoteOK /\ LoginOK
  BY DEF TypeOK
<1>2. /\ remote.env => remote'.env
      /\ Exited => Exited'
      /\ remote.proc # "none" => remote'.proc # "none"
  <2>1. CASE \E s \in Side : RouterSpawn(s)
    BY <1>1, <2>1, SpawnTaken DEF RouterSpawn, RemoteOK, Exited
  <2>2. CASE \E s \in Side : RouterSetEnv(s) \/ SinkResize(s)
    BY <1>1, <2>2 DEF RouterSetEnv, SinkResize, RemoteOK, Exited
  <2>3. CASE Proc
    BY <1>1, <2>3 DEF Inv, ExitInv, Proc, ProcAt, ProcTo, ProcSpawn, ProcSpawnFail, ProcSink,
       ProcSource, ProcReap, ProcExit, ProcFail, RemoteOK, Exited
  <2>4. CASE ChildGoes
    BY <1>1, <2>4 DEF ChildGoes, RemoteOK, Exited
  <2>5. QED
    BY <2>1, <2>2, <2>3, <2>4, RemoteSteps DEF Exited
<1>3. /\ login.at \in {"ssh", "done"} => login'.at \in {"ssh", "done"}
      /\ Leaving => Leaving'
      /\ login'.scene = login.scene
  <2>1. CASE Main
    BY <1>1, <2>1 DEF Main, MainSends, MainAt, MainTo, MainSetEnv, MainRegister, MainEnterFail,
       MainSize, MainSizeFail, MainSink, MainSpawn, MainSource, MainStatus, MainExitPeer,
       MainExitSelf, MainDone, MainFail, Entered, Left, LoginOK, Leaving
  <2>2. CASE \E s \in Side : RouterProcessExit(s)
    BY <1>1, <2>2 DEF RouterProcessExit, LoginOK, Leaving
  <2>3. CASE PanicHook("Local")
    BY <1>1, <2>3 DEF PanicHook, Left, LoginOK, Leaving
  <2>4. QED
    BY <2>1, <2>2, <2>3, LoginSteps DEF Leaving
<1>4. QED
  BY <1>2, <1>3

\* So what may be in the queues only grows.
LEMMA Grows ==
  ASSUME TypeOK, Inv, Next, NEW s \in Side
  PROVE  /\ Frames(s) \subseteq Frames(s)' /\ Commands(s) \subseteq Commands(s)'
         /\ Jobs(s) \subseteq Jobs(s)'
<1>1. Kinds("Local") \subseteq Kinds("Local")' /\ Kinds("Remote") \subseteq Kinds("Remote")'
  BY Progress DEF Kinds
<1>2. \A o \in Side : Frames(o) \subseteq Frames(o)'
  BY <1>1, Sides DEF Frames
<1>3. OwnExit \subseteq OwnExit'
  BY Progress DEF OwnExit
<1>4. Frames(s) \subseteq Frames(s)' /\ Frames(Other(s)) \subseteq Frames(Other(s))'
  BY <1>2, Sides
<1>5. Upward(s) \subseteq Upward(s)' /\ Downward(s) \subseteq Downward(s)'
  BY <1>4 DEF Upward, Downward
<1>6. Commands(s) \subseteq Commands(s)'
  BY <1>3, <1>5 DEF Commands
<1>7. Jobs(s) \subseteq Jobs(s)'
  BY <1>4 DEF Jobs
<1>8. QED
  BY <1>4, <1>6, <1>7

-----------------------------------------------------------------------------
(* Every step as a move of commands and frames.                             *)

Start == {"setenv", "await", "register"}

\* Who puts which command in the handler queue, apart from the receiver.
Sent(s, c) ==
    \/ /\ s = "Local" /\ login.at = "setenv" /\ c = Send(SetEnvFrame)
       /\ login'.at \in {"await", "register"}
    \/ /\ s = "Local" /\ login.at = "spawn" /\ c = Send(F("Spawn", login.size))
       /\ login'.at = "source"
    \/ /\ c \in Upward(s) \/ (/\ s = "Local" /\ c = Recv(F("Exit", 0))
                               /\ login.at = "exit self" /\ login'.at = "ssh")
       /\ c.f.t \notin {"SetEnv", "Spawn"}
       /\ s = "Local" => login.at \notin Start
       /\ s = "Remote" => remote.proc # "none"

RouterMove(s) ==
    \/ /\ Takes(s) /\ Popped(s) /\ Cmd(s).k # "Send"
       /\ Cmd(s).f.t = "SetEnv" => remote'.env
       /\ Cmd(s).f.t = "Spawn" => remote'.proc # "none"
    \/ /\ Takes(s) /\ PoppedFor(s, "chan") /\ Cmd(s).k = "Recv" /\ Cmd(s).f.t \in ChannelData
       /\ Registered(s)
    \/ Takes(s) /\ PoppedFor(s, "peer") /\ Cmd(s).k = "Send"
    \/ Delivered(s) /\ net[s].job.to = "chan"
    \/ Forwarded(s) /\ net[s].job.to = "peer" /\ net[s].sender = "run"
    \/ Ended(s, "done") /\ TakesFrame(s, "Exit")
    \/ /\ Ended(s, "failed")
       /\ \/ net[s].job.to = "chan" /\ ~Registered(s)
          \/ net[s].job.to = "peer" /\ net[s].sender # "run"
SenderMove(s) ==
    /\ net[s].sender = "run"
    /\ \/ Taken(s) /\ net[s].out = None /\ net[s].peer # <<>>
       \/ Written(s) /\ net[s].out # None
       \/ SenderEnded(s, "failed") /\ net[s].out # None /\ ReaderGone(Other(s))
       \/ SenderEnded(s, "done") /\ net[s].out = None /\ net[s].peer = <<>> /\ ~Open(s)
ReceiverMove(s) ==
    \/ Received(s, Other(s)) /\ net[s].in = None /\ net[Other(s)].wire # <<>>
    \/ Pushed(s) /\ net[s].in # None /\ Open(s)
    \/ Dropped(s) /\ net[s].in # None /\ ~Open(s)

NetMove == \/ Quiet
           \/ \E s \in Side : \/ RouterMove(s) \/ SenderMove(s) \/ ReceiverMove(s)
                              \/ \E c : Open(s) /\ Sent(s, c) /\ Enqueued(s, c)
           \/ Cut("Local") /\ Cut("Remote") /\ ~up'.link

\* The steps of the router.
LEMMA RouterMoves ==
  ASSUME TypeOK, Inv, NEW s \in Side, Router(s)
  PROVE  RouterMove(s)
<1>1. NetOK /\ RemoteOK
  BY DEF TypeOK
<1>2. ASSUME NEW t, TakesFrame(s, t), t \notin {"SetEnv", "Spawn"}, Pop(s) PROVE RouterMove(s)
  BY <1>1, <1>2, PopEffect DEF RouterMove, TakesFrame
<1>3. CASE RouterSetEnv(s)
  <2>1. remote'.env
    BY <1>1, <1>3 DEF RouterSetEnv, RemoteOK
  <2>2. QED
    BY <1>1, <1>3, <2>1, PopEffect DEF RouterSetEnv, RouterMove, TakesFrame
<1>4. CASE RouterSpawn(s)
  <2>1. remote'.proc = "spawn"
    BY <1>1, <1>4 DEF RouterSpawn, RemoteOK
  <2>2. QED
    BY <1>1, <1>4, <2>1, PopEffect DEF RouterSpawn, RouterMove, TakesFrame
<1>5. CASE RouterLookup(s)
  <2>1. PICK t \in ChannelData : TakesFrame(s, t)
    BY <1>5 DEF RouterLookup
  <2>2. CASE Registered(s)
    BY <1>1, <1>5, <2>1, <2>2, PopForEffect DEF RouterLookup, RouterMove, TakesFrame
  <2>3. CASE ~Registered(s)
    BY <1>2, <1>5, <2>1, <2>3 DEF RouterLookup, ChannelData
  <2>4. QED
    BY <2>2, <2>3
<1>6. CASE RouterProcessExit(s)
  BY <1>2, <1>6 DEF RouterProcessExit
<1>7. CASE RouterExit(s)
  BY <1>1, <1>7, EndsEffect DEF RouterExit, RouterMove
<1>8. CASE RouterSend(s)
  BY <1>1, <1>8, PopForEffect DEF RouterSend, RouterMove
<1>9. CASE RouterSource(s) \/ RouterSink(s)
  BY <1>1, <1>9, PopEffect
  DEF RouterSource, RouterSink, RouterMove, SourceCmd, SinkCmd, None, F
<1>10. CASE RouterDeliver(s)
  BY <1>1, <1>10, DeliverEffect DEF RouterDeliver, RouterMove
<1>11. CASE RouterForward(s)
  BY <1>1, <1>11, ForwardEffect DEF RouterForward, RouterMove
<1>12. CASE RouterFail(s)
  BY <1>1, <1>12, EndsEffect DEF RouterFail, RouterMove
<1>13. QED
  BY <1>3, <1>4, <1>5, <1>6, <1>7, <1>8, <1>9, <1>10, <1>11, <1>12 DEF Router

\* The steps of the sender and of the receiver.
LEMMA SenderMoves ==
  ASSUME NetOK, NEW s \in Side, Sender(s)
  PROVE  SenderMove(s)
BY TakeEffect, WriteEffect, SenderFailEffect, SenderDoneEffect
DEF Sender, SenderMove, SenderRuns, SenderTake, SenderWrite, SenderFail, SenderDone

\* The steps of the receiver.
LEMMA ReceiverMoves ==
  ASSUME NetOK, NEW s \in Side, Receiver(s)
  PROVE  ReceiverMove(s) \/ Quiet
<1>1. CASE ReceiverFail(s)
  <2>1. Dropped(s) /\ (Torn(s) \/ (net[s].in # None /\ ~Open(s)))
    BY <1>1, ReceiverFailEffect DEF ReceiverFail, SendFails
  <2>2. CASE Torn(s)
    <3>1. Still(s) /\ Still(Other(s))
      BY <2>1, <2>2 DEF Torn, Dropped, Still, Becomes
    <3>2. QED
      BY <3>1, Sides DEF Quiet
  <2>3. QED
    BY <2>1, <2>2 DEF ReceiverMove
<1>2. QED
  BY <1>1, ReadEffect, EofEffect, PushEffect DEF Receiver, ReceiverMove, ReceiverRead, ReceiverPush

\* The commands the other tasks send to the router.
LEMMA SendMoves ==
  ASSUME TypeOK, Inv, NEW s \in Side, NEW c, Sends(s, c), Sent(s, c)
  PROVE  NetMove
<1>1. Open(s) /\ Enqueued(s, c)
  BY SendsEffect DEF TypeOK
<1>2. QED
  BY <1>1 DEF NetMove

\* The steps of the main task.
LEMMA MainMoves ==
  ASSUME TypeOK, Inv, Main
  PROVE  NetMove
<1>1. LoginOK /\ "Local" \in Side
  BY DEF TypeOK, Side
<1>2. ASSUME NEW pc, NEW next, NEW c, MainSends(pc, c, next)
      PROVE  login.at = pc /\ login'.at = next /\ Sends("Local", c)
  BY <1>1, <1>2 DEF MainSends, MainAt, MainTo, LoginOK
<1>3. CASE MainSetEnv
  BY <1>1, <1>2, <1>3, SendMoves DEF MainSetEnv, AfterSetEnv, Sent, SetEnvFrame
<1>4. CASE MainSpawn
  BY <1>1, <1>2, <1>4, SendMoves DEF MainSpawn, Sent
<1>5. CASE MainSink \/ MainSource
  <2>1. PICK c \in {SinkCmd, SourceCmd} : Sends("Local", c) /\ login.at \notin Start
    BY <1>2, <1>5 DEF MainSink, MainSource, Start
  <2>2. c \in Upward("Local") /\ c.f.t \notin {"SetEnv", "Spawn"}
    BY DEF Upward, SinkCmd, SourceCmd, None, F
  <2>3. QED
    BY <1>1, <2>1, <2>2, SendMoves DEF Sent
<1>6. CASE MainExitPeer
  <2>1. Sends("Local", Send(F("Exit", 0))) /\ login.at = "exit peer"
    BY <1>2, <1>6 DEF MainExitPeer
  <2>2. Exited /\ Leaving
    BY <2>1 DEF Inv, ExitInv, LogoutAfterChild, Exited, Leaving
  <2>3. F("Exit", 0) \in Frames("Local")
    BY <2>2, FrameType, SessionAssumption DEF Frames, Kinds, F, FrameTypes
  <2>4. QED
    BY <1>1, <2>1, <2>3, SendMoves DEF Sent, Start, Upward, Send, F
<1>7. CASE MainExitSelf
  <2>1. /\ Sends("Local", Recv(F("Exit", 0))) /\ login.at = "exit self"
        /\ login'.at = "ssh"
    BY <1>2, <1>7 DEF MainExitSelf
  <2>2. Recv(F("Exit", 0)).f.t = "Exit"
    BY DEF Recv, F
  <2>3. QED
    BY <1>1, <2>1, <2>2, SendMoves DEF Sent, Start
<1>8. CASE \/ MainRegister \/ MainEnterFail \/ MainSize \/ MainSizeFail \/ MainStatus
           \/ MainDone \/ MainFail
  BY <1>8, UnchangedEffect DEF NetMove, MainRegister, MainEnterFail, MainSize, MainSizeFail,
     MainStatus, MainDone, MainFail
<1>9. QED
  BY <1>3, <1>4, <1>5, <1>6, <1>7, <1>8 DEF Main

\* The steps of sources, sinks, process::run and the environment.
LEMMA EndpointMoves ==
  ASSUME TypeOK, Inv,
         (\E s \in Side : Source(s) \/ Sink(s)) \/ Winch \/ Proc \/ Env \/ ChildReader \/ Writer
         \/ Shutdown
  PROVE  NetMove
<1>1. NetOK /\ EndsOK /\ WinchOK
  BY DEF TypeOK
<1>2. ASSUME NEW s \in Side, SourcePush(s) PROVE NetMove
  <2>1. ends[s].data \in Frame /\ ends[s].data # None /\ Sends(s, Send(ends[s].data))
    BY <1>1, <1>2, EndsParts DEF SourcePush
  <2>2. ends[s].data.t \in {"Output", "Shutdown"}
    BY <2>1 DEF Inv, TrafficInv, Origins
  <2>3. Send(ends[s].data) \in Upward(s) /\ Send(ends[s].data).f.t \notin {"SetEnv", "Spawn"}
    BY <2>1, <2>2 DEF Upward, Frames, Kinds, Send
  <2>4. s = "Local" => login.at \notin Start
    BY <2>1 DEF Inv, Opening, Start
  <2>5. s = "Remote" => remote.proc # "none"
    BY <2>1 DEF Inv, Silent
  <2>6. QED
    BY <2>1, <2>3, <2>4, <2>5, SendMoves DEF Sent
<1>3. ASSUME WinchPush PROVE NetMove
  <2>1. winch.hold \in Frame /\ winch.hold # None /\ Sends("Local", Send(winch.hold))
    BY <1>1, <1>3 DEF WinchPush, WinchOK
  <2>2. winch.hold.t = "WindowSizeChange"
    BY <2>1 DEF Inv, TrafficInv, Origins
  <2>3. /\ Send(winch.hold) \in Upward("Local")
        /\ Send(winch.hold).f.t \notin {"SetEnv", "Spawn"}
    BY <2>1, <2>2 DEF Upward, Frames, Kinds, Send
  <2>4. login.at \notin Start
    BY <2>1 DEF Inv, Opening, Start
  <2>5. QED
    BY <2>1, <2>3, <2>4, SendMoves, Sides DEF Sent
<1>4. ASSUME ProcSink \/ ProcSource \/ ProcExit PROVE NetMove
  <2>1. PICK c \in {SinkCmd, SourceCmd, Send(F("ProcessExit", 0))} :
            Sends("Remote", c) /\ remote.proc # "none" /\ (c.k = "Send" => remote.proc = "exit")
    BY <1>4 DEF ProcSink, ProcSource, ProcExit, ProcAt, SinkCmd, SourceCmd
  <2>2. c \in Upward("Remote") /\ c.f.t \notin {"SetEnv", "Spawn"}
    <3>1. CASE c \in {SinkCmd, SourceCmd}
      BY <3>1 DEF Upward, SinkCmd, SourceCmd, None, F
    <3>2. CASE c = Send(F("ProcessExit", 0))
      <4>1. Exited
        BY <2>1, <3>2 DEF Inv, ExitInv, Send
      <4>2. F("ProcessExit", 0) \in Frames("Remote")
        BY <4>1, FrameType, SessionAssumption DEF Frames, Kinds, F, FrameTypes
      <4>3. QED
        BY <3>2, <4>2 DEF Upward, Send, F
    <3>3. QED
      BY <3>1, <3>2
  <2>3. QED
    BY <2>1, <2>2, SendMoves, Sides DEF Sent
<1>5. ASSUME NEW s \in Side, SourceFail(s) \/ Sink(s) PROVE NetMove
  BY <1>5, UnchangedEffect
  DEF NetMove, SourceFail, Sink, SinkFail, SinkResize, SinkShutdown, SinkTakes
<1>6. ASSUME (Winch /\ ~WinchPush) \/ (Proc /\ ~ProcSink /\ ~ProcSource /\ ~ProcExit)
      PROVE  NetMove
  BY <1>6, UnchangedEffect DEF NetMove, Winch, WinchStart, WinchTake, WinchFail,
     Proc, ProcSpawn, ProcSpawnFail, ProcReap, ProcFail
<1>7. ASSUME Env, ~LinkDown PROVE NetMove
  BY <1>7, UnchangedEffect DEF NetMove, Env, ReadStdin, ReadEnd, ReadFail, Reads, Resize, ChildIO,
     ChildGoes, StderrFail, Abort, Exits
<1>8. ASSUME LinkDown PROVE NetMove
  <2>1. ~up'.link
    BY <1>8 DEF LinkDown, TypeOK, UpOK
  <2>2. QED
    BY <1>1, <1>8, <2>1, CutEffect, Sides DEF NetMove
<1>9. ASSUME ChildReader \/ Writer \/ Shutdown PROVE NetMove
  BY <1>9, UnchangedEffect DEF NetMove, ChildReader, ReadChild, ReadEnd, ReadFail, Reads,
     Writer, WriteStdout, WriteChild, SinkTakes, Shutdown, RemoteShutdown, LocalShutdown, Exits
<1>10. QED
  BY <1>2, <1>3, <1>4, <1>5, <1>6, <1>7, <1>8, <1>9 DEF Source

\* All of them.
LEMMA NetMoves ==
  ASSUME TypeOK, Inv, Next
  PROVE  NetMove
<1>1. NetOK
  BY DEF TypeOK
<1>2. ASSUME NEW s \in Side, Router(s) \/ Sender(s) \/ Receiver(s) PROVE NetMove
  BY <1>1, <1>2, RouterMoves, SenderMoves, ReceiverMoves DEF NetMove
<1>3. QED
  BY <1>2, MainMoves, EndpointMoves DEF Next

-----------------------------------------------------------------------------
(* The queues carry what they may.                                          *)

\* Which steps start a source or create a ChannelReceiver, and what sources hold.
LEMMA EndsSteps ==
  ASSUME TypeOK, Inv, Next, NEW s \in Side
  PROVE  /\ \/ ends'[s].data = ends[s].data \/ ends'[s].data = None
            \/ ends'[s].data.t \in {"Output", "Shutdown"} /\ ends[s].source = "read"
         /\ ends[s].source = "none" /\ ends[s].data = None /\ ends'[s].source # "none"
                => Takes(s) /\ Cmd(s) = SourceCmd
         /\ ends[s].sink = "none" /\ ends'[s].sink # "none"
                => \/ Takes(s) /\ Cmd(s) = SinkCmd
                   \/ s = "Remote" /\ ~(remote.proc = "none" /\ remote'.proc = "none")
                   \/ s = "Local" /\ login'.at \notin Start
<1> DEFINE D == \/ ends'[s].data = ends[s].data \/ ends'[s].data = None
                \/ ends'[s].data.t \in {"Output", "Shutdown"} /\ ends[s].source = "read"
           R == ends[s].source = "none" /\ ends[s].data = None /\ ends'[s].source # "none"
                    => Takes(s) /\ Cmd(s) = SourceCmd
           S == ends[s].sink = "none" /\ ends'[s].sink # "none"
                    => \/ Takes(s) /\ Cmd(s) = SinkCmd
                       \/ s = "Remote" /\ ~(remote.proc = "none" /\ remote'.proc = "none")
                       \/ s = "Local" /\ login'.at \notin Start
<1>1. /\ LoginOK /\ RemoteOK /\ EndsOK
      /\ \A o \in Side : ends[o] \in EndsRecord
  BY DEF TypeOK, EndsOK, EndsType
<1>2. ASSUME ends' = ends PROVE D /\ R /\ S
  BY <1>2
<1>3. ASSUME NEW o \in Side, ends[o].sink # "none", DropReceiver(o) PROVE D /\ R /\ S
  BY <1>1, <1>3 DEF DropReceiver, EndsOK, EndsRecord
<1>4. ASSUME NEW o \in Side, Router(o) PROVE D /\ R /\ S
  <2>1. CASE RouterSpawn(o)
    <3>1. o = "Remote" /\ remote'.proc # "none"
      BY <1>1, <2>1, SpawnTaken DEF RouterSpawn, RemoteOK
    <3>2. ends' = [ends EXCEPT !["Remote"].sink = "held"]
      BY <2>1, <3>1 DEF RouterSpawn
    <3>3. QED
      BY <1>1, <3>1, <3>2 DEF EndsOK, EndsRecord
  <2>2. CASE RouterSource(o)
    BY <1>1, <2>2 DEF RouterSource, EndsOK, EndsRecord
  <2>3. CASE RouterSink(o)
    BY <1>1, <2>3 DEF RouterSink, EndsOK, EndsRecord
  <2>4. CASE RouterDeliver(o)
    BY <1>1, <2>4 DEF RouterDeliver, EndsOK, EndsRecord
  <2>5. CASE RouterExit(o) \/ RouterFail(o)
    BY <1>2, <1>3, <2>5 DEF RouterExit, RouterFail, RouterEnds
  <2>6. CASE RouterSetEnv(o) \/ RouterLookup(o) \/ RouterProcessExit(o) \/ RouterSend(o)
             \/ RouterForward(o)
    BY <1>2, <2>6 DEF RouterSetEnv, RouterLookup, RouterProcessExit, RouterSend, RouterForward
  <2>7. QED
    BY <1>4, <2>1, <2>2, <2>3, <2>4, <2>5, <2>6 DEF Router
<1>5. ASSUME NEW o \in Side, Sender(o) \/ Receiver(o) \/ SourceFail(o) \/ SourcePush(o)
      PROVE  D /\ R /\ S
  <2>1. CASE Sender(o) \/ Receiver(o)
    BY <1>2, <2>1 DEF Sender, SenderTake, SenderWrite, SenderFail, SenderDone, Receiver,
       ReceiverRead, ReceiverEof, ReceiverPush, ReceiverFail
  <2>2. CASE SourceFail(o) \/ SourcePush(o)
    <3>1. /\ ends[o].data # None
          /\ \/ ends' = [ends EXCEPT ![o].source = "end", ![o].data = None]
             \/ ends' = [ends EXCEPT ![o].data = None]
      BY <2>2 DEF SourceFail, SourcePush, SourceEnds
    <3>2. /\ ends'[o].data = None /\ ends'[o].sink = ends[o].sink
          /\ \A p \in Side : p # o => ends'[p] = ends[p]
      BY <1>1, <3>1 DEF EndsOK, EndsRecord
    <3>3. QED
      BY <3>1, <3>2
  <2>3. QED
    BY <1>5, <2>1, <2>2
<1>6. ASSUME NEW o \in Side, NEW t, SinkTakes(o, t), DropReceiver(o) \/ SinkNext(o)
      PROVE  D /\ R /\ S
  <2>1. CASE DropReceiver(o)
    BY <1>3, <1>6, <2>1 DEF SinkTakes
  <2>2. CASE SinkNext(o)
    BY <1>1, <2>2 DEF SinkNext, EndsOK, EndsRecord
  <2>3. QED
    BY <1>6, <2>1, <2>2
<1>7. ASSUME (\E o \in Side : Sink(o)) \/ Writer PROVE D /\ R /\ S
  BY <1>6, <1>7, Sides DEF Sink, SinkFail, SinkResize, SinkShutdown, Writer, WriteStdout,
     WriteChild
<1>8. ASSUME NEW o \in Side, NEW f, f.t \in {"Output", "Shutdown"}, Reads(o, f) PROVE D /\ R /\ S
  BY <1>1, <1>8 DEF Reads, Reading, EndsOK, EndsRecord
<1>9. ASSUME ReadStdin \/ ReadChild \/ \E o \in Side : ReadEnd(o) \/ ReadFail(o)
      PROVE  D /\ R /\ S
  <2>1. \A v : /\ F("Output", v).t \in {"Output", "Shutdown"}
               /\ F("Shutdown", v).t \in {"Output", "Shutdown"}
    BY DEF F
  <2>2. CASE ReadStdin \/ ReadChild \/ \E o \in Side : ReadEnd(o)
    BY <1>8, <2>1, <2>2, Sides DEF ReadStdin, ReadChild, ReadEnd
  <2>3. CASE \E o \in Side : ReadFail(o)
    BY <1>1, <2>3 DEF ReadFail, Reading, EndsOK, EndsRecord
  <2>4. QED
    BY <1>9, <2>2, <2>3
<1>10. ASSUME Proc PROVE D /\ R /\ S
  <2>1. CASE ProcSink \/ ProcSpawnFail \/ ProcFail
    BY <1>1, <2>1 DEF ProcSink, ProcSpawnFail, ProcFail, ProcAt, DropReceiver, EndsOK, EndsRecord
  <2>2. CASE ProcSpawn \/ ProcSource \/ ProcReap \/ ProcExit
    BY <1>2, <2>2 DEF ProcSpawn, ProcSource, ProcReap, ProcExit
  <2>3. QED
    BY <1>10, <2>1, <2>2 DEF Proc
<1>11. ASSUME Main PROVE D /\ R /\ S
  <2>1. CASE MainRegister \/ MainSink \/ MainSizeFail \/ MainFail
    <3>1. login'.at \notin Start
      BY <1>1, <2>1 DEF MainRegister, MainSink, MainSends, MainSizeFail, MainFail, MainTo,
         Entered, LoginOK, Start
    <3>2. \/ ends' = ends
          \/ ends' = [ends EXCEPT !["Local"].sink = "held"]
          \/ ends' = [ends EXCEPT !["Local"].sink = "queued"]
          \/ ends' = [ends EXCEPT !["Local"].sink = "end", !["Local"].chan = <<>>]
      BY <2>1 DEF MainRegister, MainSink, MainSizeFail, MainFail, DropReceiver
    <3>3. QED
      BY <1>1, <3>1, <3>2 DEF EndsOK, EndsRecord
  <2>2. CASE MainSetEnv \/ MainEnterFail \/ MainSize \/ MainSpawn \/ MainSource \/ MainStatus
             \/ MainExitPeer \/ MainExitSelf \/ MainDone
    BY <1>2, <2>2 DEF MainSetEnv, MainEnterFail, MainSize, MainSpawn, MainSource, MainStatus,
       MainExitPeer, MainExitSelf, MainDone
  <2>3. QED
    BY <1>11, <2>1, <2>2 DEF Main
<1>12. ASSUME Resize \/ Winch \/ StderrFail \/ Abort \/ LinkDown \/ ChildIO \/ ChildGoes \/ Shutdown
       PROVE  D /\ R /\ S
  BY <1>2, <1>12 DEF Resize, Winch, WinchStart, WinchTake, WinchPush, WinchFail, StderrFail,
     Abort, LinkDown, ChildIO, ChildGoes, Shutdown, RemoteShutdown, LocalShutdown, Exits
<1>13. D /\ R /\ S
  BY <1>4, <1>5, <1>7, <1>9, <1>10, <1>11, <1>12, Sides DEF Next, Env, ChildReader, Source
<1>14. QED
  BY <1>13

\* The window-change task and its signals keep to themselves.
LEMMA WinchSame ==
  ASSUME Next
  PROVE  winch' = winch \/ Resize \/ Winch \/ MainRegister
<1> SUFFICES ASSUME ~Resize, ~Winch, ~MainRegister PROVE winch' = winch
  OBVIOUS
<1>1. ASSUME NEW s \in Side, Router(s) PROVE winch' = winch
  BY <1>1 DEF Router, RouterSetEnv, RouterSpawn, RouterLookup, RouterProcessExit, RouterExit,
     RouterSend, RouterSource, RouterSink, RouterDeliver, RouterForward, RouterFail
<1>2. ASSUME NEW s \in Side, Sender(s) \/ Receiver(s) \/ Source(s) \/ Sink(s)
      PROVE  winch' = winch
  BY <1>2 DEF Sender, SenderTake, SenderWrite, SenderFail, SenderDone, Receiver, ReceiverRead,
     ReceiverEof, ReceiverPush, ReceiverFail, Source, SourcePush, SourceFail, Sink, SinkFail,
     SinkResize, SinkShutdown, SinkTakes
<1>3. ASSUME Main PROVE winch' = winch
  BY <1>3 DEF Main, MainSetEnv, MainEnterFail, MainSize, MainSizeFail, MainSink,
     MainSpawn, MainSource, MainStatus, MainExitPeer, MainExitSelf, MainDone, MainFail
<1>4. ASSUME Env \/ Proc \/ ChildReader \/ Writer \/ Shutdown PROVE winch' = winch
  BY <1>4 DEF Env, ReadStdin, ReadEnd, Reads, LinkDown, ChildIO, ChildGoes, StderrFail,
     Abort, Exits, Proc, ProcSpawn, ProcSpawnFail, ProcSink, ProcSource, ProcReap, ProcExit,
     ProcFail, ChildReader, ReadChild, ReadFail, Writer, WriteStdout, WriteChild, SinkTakes,
     Shutdown, RemoteShutdown, LocalShutdown
<1>5. QED
  BY <1>1, <1>2, <1>3, <1>4 DEF Next

\* What the window-change task does: it runs from MainRegister on.
LEMMA WinchSteps ==
  ASSUME TypeOK, Next
  PROVE  /\ \/ winch'.hold = winch.hold \/ winch'.hold = None
            \/ winch'.hold.t = "WindowSizeChange" /\ winch.st = "on"
         /\ winch.st = "none" /\ winch.hold = None /\ winch'.st # "none" => MainRegister
<1>1. WinchOK
  BY DEF TypeOK
<1>2. CASE Resize
  BY <1>1, <1>2 DEF Resize, WinchOK
<1>3. CASE Winch
  <2>1. F("WindowSizeChange", winch.win).t = "WindowSizeChange"
    BY DEF F
  <2>2. CASE WinchTake
    BY <1>1, <2>1, <2>2 DEF WinchTake, WinchWakes, WinchOK
  <2>3. CASE WinchStart \/ WinchPush
    BY <1>1, <2>3 DEF WinchStart, WinchPush, WinchOK
  <2>4. CASE WinchFail
    BY <1>1, <2>4 DEF WinchFail, WinchWakes, WinchOK
  <2>5. QED
    BY <1>3, <2>2, <2>3, <2>4 DEF Winch
<1>4. CASE MainRegister
  BY <1>1, <1>4 DEF MainRegister, WinchOK
<1>5. CASE winch' = winch
  BY <1>5
<1>6. QED
  BY <1>2, <1>3, <1>4, <1>5, WinchSame

\* What one side holds may still be there after the step.
LEMMA TrafficKept ==
  ASSUME TypeOK, Inv, Next, NEW s \in Side
  PROVE  /\ net[s].handler \in Seq(Commands(s)') /\ net[s].peer \in Seq(Frames(s)')
         /\ net[s].wire \in Seq(Frames(s)') /\ net[s].job \in Jobs(s)'
         /\ net[s].out \in Frames(s)' \cup {None}
         /\ net[s].in \in Frames(Other(s))' \cup {None}
<1>1. Traffic(s)
  BY DEF Inv, TrafficInv
<1>2. /\ Frames(s) \subseteq Frames(s)' /\ Commands(s) \subseteq Commands(s)'
      /\ Jobs(s) \subseteq Jobs(s)' /\ Frames(Other(s)) \subseteq Frames(Other(s))'
  BY Grows, Sides
<1>3. /\ net[s].handler \in Seq(Commands(s)') /\ net[s].peer \in Seq(Frames(s)')
      /\ net[s].wire \in Seq(Frames(s)')
  BY <1>1, <1>2, SeqMonotonic DEF Traffic
<1>4. QED
  BY <1>1, <1>2, <1>3 DEF Traffic

\* A side of which each part holds what it may.
LEMMA TrafficBecomes ==
  ASSUME TypeOK, Inv, Next, NEW s \in Side,
         NEW handler \in Seq(Commands(s)'), NEW job \in Jobs(s)', NEW peer \in Seq(Frames(s)'),
         NEW out \in Frames(s)' \cup {None}, NEW wire \in Seq(Frames(s)'),
         NEW in \in Frames(Other(s))' \cup {None},
         Becomes(s, handler, job, peer, out, wire, in)
  PROVE  Traffic(s)'
BY DEF Becomes, Traffic

\* A side that keeps what it holds.
LEMMA TrafficStill ==
  ASSUME TypeOK, Inv, Next, NEW s \in Side, Still(s)
  PROVE  Traffic(s)'
BY TrafficKept, TrafficBecomes DEF Still

\* The ends of a queue.
LEMMA QueueEnds ==
  ASSUME NEW S, NEW q \in Seq(S)
  PROVE  /\ \A x \in S : Append(q, x) \in Seq(S) /\ Append(q, x) # <<>>
         /\ q # <<>> => Head(q) \in S /\ Tail(q) \in Seq(S)
         /\ <<>> \in Seq(S)
  BY HeadTailProperties, EmptySeq

\* What the router moves may be where it puts it.
LEMMA RouterTraffic ==
  ASSUME TypeOK, Inv, Next, NEW s \in Side, RouterMove(s)
  PROVE  Traffic(s)' /\ Traffic(Other(s))'
<1> USE DEF Becomes
<1>0. /\ net[s].handler \in Seq(Commands(s)') /\ net[s].peer \in Seq(Frames(s)')
      /\ net[s].wire \in Seq(Frames(s)') /\ net[s].job \in Jobs(s)'
      /\ net[s].out \in Frames(s)' \cup {None}
      /\ net[s].in \in Frames(Other(s))' \cup {None}
  BY TrafficKept
<1>1. NoJob \in Jobs(s)' /\ <<>> \in Seq(Commands(s)')
  BY QueueEnds DEF Jobs
<1>2. Traffic(Other(s))'
  BY TrafficStill, Sides DEF RouterMove, Popped, PoppedFor, Delivered, Forwarded, Ended
<1>3. Takes(s) => Tail(net[s].handler) \in Seq(Commands(s)')
  BY <1>0, QueueEnds DEF Takes
<1>4. CASE Takes(s) /\ Popped(s)
  BY <1>0, <1>2, <1>3, <1>4 DEF Popped, Traffic
<1>5. ASSUME NEW to \in {"chan", "peer"}, Takes(s), PoppedFor(s, to),
             [to |-> to, f |-> Cmd(s).f] \in Jobs(s)'
      PROVE  Traffic(s)'
  BY <1>0, <1>3, <1>5 DEF PoppedFor, Traffic
<1>6. CASE Takes(s) /\ PoppedFor(s, "peer") /\ Cmd(s).k = "Send"
  <2>1. Cmd(s).f \in Frames(s)'
    BY <1>6, CmdOrigin, Grows DEF Inv, TrafficInv
  <2>2. QED
    BY <1>2, <1>5, <1>6, <2>1 DEF Jobs
<1>7. CASE Takes(s) /\ PoppedFor(s, "chan") /\ Cmd(s).k = "Recv"
  <2>1. Cmd(s).f \in Frame
    BY <1>7, CmdType, CommandFrame DEF TypeOK
  <2>2. QED
    BY <1>2, <1>5, <1>7, <2>1 DEF Jobs
<1>8. CASE Delivered(s)
  BY <1>0, <1>1, <1>2, <1>8 DEF Delivered, Traffic
<1>9. CASE Forwarded(s) /\ net[s].job.to = "peer"
  <2>1. net[s].job.f \in Frames(s)'
    BY <1>0, <1>9 DEF Jobs, NoJob
  <2>2. Append(net[s].peer, net[s].job.f) \in Seq(Frames(s)')
    BY <1>0, <2>1, QueueEnds
  <2>3. QED
    BY <1>0, <1>1, <1>2, <1>9, <2>2 DEF Forwarded, Traffic
<1>10. ASSUME NEW how, Ended(s, how) PROVE Traffic(s)'
  BY <1>0, <1>1, <1>10 DEF Ended, Traffic
<1>11. QED
  BY <1>2, <1>4, <1>6, <1>7, <1>8, <1>9, <1>10 DEF RouterMove

\* So may what the sender moves.
LEMMA SenderTraffic ==
  ASSUME TypeOK, Inv, Next, NEW s \in Side, SenderMove(s)
  PROVE  Traffic(s)' /\ Traffic(Other(s))'
<1> USE DEF Becomes
<1>0. /\ net[s].handler \in Seq(Commands(s)') /\ net[s].peer \in Seq(Frames(s)')
      /\ net[s].wire \in Seq(Frames(s)') /\ net[s].job \in Jobs(s)'
      /\ net[s].out \in Frames(s)' \cup {None}
      /\ net[s].in \in Frames(Other(s))' \cup {None}
  BY TrafficKept
<1>1. <<>> \in Seq(Frames(s)')
  BY QueueEnds
<1>2. Traffic(Other(s))'
  BY TrafficStill, Sides DEF SenderMove, Taken, Written, SenderEnded
<1>3. CASE Taken(s) /\ net[s].peer # <<>>
  <2>1. Head(net[s].peer) \in Frames(s)' /\ Tail(net[s].peer) \in Seq(Frames(s)')
    BY <1>0, <1>3, QueueEnds
  <2>2. QED
    BY <1>0, <1>2, <1>3, <2>1 DEF Taken, Traffic
<1>4. CASE Written(s) /\ net[s].out # None
  <2>1. Append(net[s].wire, net[s].out) \in Seq(Frames(s)')
    BY <1>0, <1>4, QueueEnds
  <2>2. QED
    BY <1>0, <1>2, <1>4, <2>1 DEF Written, Traffic
<1>5. ASSUME NEW how, SenderEnded(s, how) PROVE Traffic(s)'
  BY <1>0, <1>1, <1>5 DEF SenderEnded, Traffic
<1>6. QED
  BY <1>2, <1>3, <1>4, <1>5 DEF SenderMove

\* So may what the receiver moves.
LEMMA ReceiverTraffic ==
  ASSUME TypeOK, Inv, Next, NEW s \in Side, ReceiverMove(s)
  PROVE  Traffic(s)' /\ Traffic(Other(s))'
<1> USE DEF Becomes
<1> DEFINE o == Other(s)
<1>0. /\ net[s].handler \in Seq(Commands(s)') /\ net[s].peer \in Seq(Frames(s)')
      /\ net[s].wire \in Seq(Frames(s)') /\ net[s].job \in Jobs(s)'
      /\ net[s].out \in Frames(s)' \cup {None}
      /\ net[s].in \in Frames(Other(s))' \cup {None}
  BY TrafficKept
<1>1. /\ net[o].handler \in Seq(Commands(o)') /\ net[o].peer \in Seq(Frames(o)')
      /\ net[o].wire \in Seq(Frames(o)') /\ net[o].job \in Jobs(o)'
      /\ net[o].out \in Frames(o)' \cup {None}
      /\ net[o].in \in Frames(Other(o))' \cup {None}
  BY TrafficKept, Sides
<1>2. CASE Received(s, o) /\ net[o].wire # <<>>
  <2>1. Head(net[o].wire) \in Frames(o)' /\ Tail(net[o].wire) \in Seq(Frames(o)')
    BY <1>1, <1>2, QueueEnds
  <2>2. Traffic(s)'
    BY <1>0, <1>2, <2>1 DEF Received, Traffic
  <2>3. Traffic(o)'
    BY <1>1, <1>2, <2>1 DEF Received, Traffic
  <2>4. QED
    BY <2>2, <2>3
<1>3. CASE Pushed(s) /\ net[s].in # None
  <2>1. Recv(net[s].in) \in Commands(s)'
    BY <1>0, <1>3 DEF Commands, Downward
  <2>2. Append(net[s].handler, Recv(net[s].in)) \in Seq(Commands(s)')
    BY <1>0, <2>1, QueueEnds
  <2>3. Traffic(s)'
    BY <1>0, <1>3, <2>2 DEF Pushed, Traffic
  <2>4. QED
    BY <1>3, <2>3, TrafficStill, Sides DEF Pushed
<1>4. CASE Dropped(s)
  <2>1. Traffic(s)'
    BY <1>0, <1>4 DEF Dropped, Traffic
  <2>2. QED
    BY <1>4, <2>1, TrafficStill, Sides DEF Dropped
<1>5. QED
  BY <1>2, <1>3, <1>4 DEF ReceiverMove

\* What a task sends to its router is for the other process, or the router's own Exit.
LEMMA SentType ==
  ASSUME TypeOK, Inv, Next, NEW s \in Side, NEW c, Sent(s, c)
  PROVE  \/ c \in Upward(s)'
         \/ /\ s = "Local" /\ c = Recv(F("Exit", 0))
            /\ login.at = "exit self" /\ login'.at = "ssh"
<1>1. CASE c = Send(SetEnvFrame) /\ s = "Local"
  <2>1. SetEnvFrame \in Frames("Local")'
    BY FrameType, SessionAssumption DEF SetEnvFrame, Frames, Kinds, F, FrameTypes
  <2>2. QED
    BY <1>1, <2>1 DEF Upward
<1>2. CASE c = Send(F("Spawn", login.size)) /\ s = "Local"
  <2>1. F("Spawn", login.size) \in Frame
    BY LoginFrames DEF TypeOK, LoginOK
  <2>2. F("Spawn", login.size) \in Frames("Local")'
    BY <2>1 DEF Frames, Kinds, F
  <2>3. QED
    BY <1>2, <2>2 DEF Upward
<1>3. CASE c \in Upward(s)
  BY <1>3, Grows DEF Upward
<1>4. QED
  BY <1>1, <1>2, <1>3 DEF Sent

\* So may what other tasks send; and what the connection loses is gone.
LEMMA OtherTraffic ==
  ASSUME TypeOK, Inv, Next, NEW s \in Side,
         \/ \E c : Sent(s, c) /\ Enqueued(s, c)
         \/ Cut("Local") /\ Cut("Remote")
  PROVE  Traffic(s)' /\ Traffic(Other(s))'
<1> USE DEF Becomes
<1>1. ASSUME NEW c, Sent(s, c), Enqueued(s, c) PROVE Traffic(s)' /\ Traffic(Other(s))'
  <2>1. c \in Commands(s)'
    BY <1>1, SentType DEF Commands, OwnExit
  <2>2. Append(net[s].handler, c) \in Seq(Commands(s)')
    BY <2>1, TrafficKept, QueueEnds
  <2>3. Traffic(s)'
    BY <1>1, <2>2, TrafficKept DEF Enqueued, Traffic
  <2>4. QED
    BY <1>1, <2>3, TrafficStill, Sides DEF Enqueued
<1>2. ASSUME NEW o \in Side, Cut(o) PROVE Traffic(o)'
  <2>1. <<>> \in Seq(Frames(o)')
    BY QueueEnds
  <2>2. QED
    BY <1>2, <2>1, TrafficKept DEF Cut, Traffic
<1>3. QED
  BY <1>1, <1>2, Sides

\* A step puts nothing in a queue that may not be there.
LEMMA TrafficStep ==
  ASSUME TypeOK, Inv, Next
  PROVE  TrafficInv'
<1>1. PICK s \in Side : Traffic(s)' /\ Traffic(Other(s))'
  BY NetMoves, RouterTraffic, SenderTraffic, ReceiverTraffic, OtherTraffic, TrafficStill, Sides
  DEF NetMove, Quiet
<1>2. \A o \in Side : Traffic(o)'
  BY <1>1, Sides
<1>3. Origins'
  BY EndsSteps, WinchSteps DEF Inv, TrafficInv, Origins
<1>4. QED
  BY <1>2, <1>3 DEF TrafficInv

-----------------------------------------------------------------------------
(* Before Spawn arrives.                                                    *)

\* As long as process::run has not started the remote process has only received.
LEMMA SilentStep ==
  ASSUME TypeOK, Inv, Next
  PROVE  Silent'
<1> DEFINE l == net["Local"]
           r == net["Remote"]
           Q == /\ r'.router = "run" /\ r'.handler \in Seq(Downward("Remote")') /\ r'.job = NoJob
                /\ r'.peer = <<>> /\ r'.out = None /\ r'.wire = <<>>
                /\ l'.in = None /\ l'.handler \in Seq(Upward("Local")')
<1> SUFFICES ASSUME remote'.proc = "none"
             PROVE  /\ remote'.child = "none" /\ ends'["Remote"].sink = "none"
                    /\ ends'["Remote"].source = "none" /\ ends'["Remote"].data = None /\ Q
  BY DEF Silent
<1>1. remote.proc = "none" /\ RemoteOK
  BY Progress DEF TypeOK
<1>2. /\ remote.child = "none" /\ ends["Remote"].sink = "none"
      /\ ends["Remote"].source = "none" /\ ends["Remote"].data = None
      /\ r.router = "run" /\ r.handler \in Seq(Downward("Remote")) /\ r.job = NoJob
      /\ r.peer = <<>> /\ r.out = None /\ r.wire = <<>>
      /\ l.in = None /\ l.handler \in Seq(Upward("Local"))
  BY <1>1 DEF Inv, Silent
<1>3. remote'.child = "none"
  <2>1. ASSUME NEW s \in Side, RouterSpawn(s) PROVE FALSE
    BY <1>1, <2>1 DEF RouterSpawn, RemoteOK
  <2>2. ~Proc /\ ~ChildGoes
    BY <1>1, <1>2 DEF Proc, ProcAt, ProcSpawn, ProcSpawnFail, ProcSink, ProcSource, ProcReap,
       ProcExit, ProcFail, ChildGoes
  <2>3. QED
    BY <1>1, <1>2, <2>1, <2>2, RemoteSteps DEF RouterSetEnv, SinkResize, RemoteOK
<1>4. /\ r.handler \in Seq(Downward("Remote")') /\ l.handler \in Seq(Upward("Local")')
      /\ <<>> \in Seq(Upward("Local")')
  <2>1. Frames("Local") \subseteq Frames("Local")'
    BY Grows, Sides
  <2>2. /\ Downward("Remote") \subseteq Downward("Remote")'
        /\ Upward("Local") \subseteq Upward("Local")'
    BY <2>1, Sides DEF Downward, Upward
  <2>3. QED
    BY <1>2, <2>2, SeqMonotonic, QueueEnds
<1>5. Takes("Remote") => Cmd("Remote").k = "Recv"
  BY <1>2, QueueEnds DEF Takes, Cmd, Downward, Recv
<1>6. /\ ends'["Remote"].sink = "none" /\ ends'["Remote"].source = "none"
      /\ ends'["Remote"].data = None
  BY <1>1, <1>2, <1>5, EndsSteps, Sides DEF SourceCmd, SinkCmd
<1>7. Q
  <2> USE DEF Becomes, SameTasks, Still
  <2>1. CASE RouterMove("Remote")
    <3>2. ~TakesFrame("Remote", "Exit")
      BY <1>2, FrameTaken, Sides DEF Exited
    <3>3. Takes("Remote") /\ Popped("Remote")
      BY <1>2, <1>5, <2>1, <3>2 DEF RouterMove, NoJob, Registered
    <3>4. Tail(r.handler) \in Seq(Downward("Remote")')
      BY <1>4, <3>3, QueueEnds DEF Takes
    <3>5. QED
      BY <1>2, <1>4, <3>3, <3>4, Sides DEF Popped
  <2>2. CASE RouterMove("Local")
    <3>1. /\ l'.in = None /\ Still("Remote")
          /\ l'.handler \in {l.handler, <<>>} \/ (Takes("Local") /\ l'.handler = Tail(l.handler))
      BY <1>2, <2>2, Sides DEF RouterMove, Popped, PoppedFor, Delivered, Forwarded, Ended
    <3>2. Takes("Local") => Tail(l.handler) \in Seq(Upward("Local")')
      BY <1>4, QueueEnds DEF Takes
    <3>3. QED
      BY <1>2, <1>4, <3>1, <3>2
  <2>3. ~SenderMove("Remote")
    BY <1>2 DEF SenderMove, Open
  <2>4. CASE SenderMove("Local")
    BY <1>2, <1>4, <2>4, Sides DEF SenderMove, Taken, Written, SenderEnded
  <2>5. CASE ReceiverMove("Remote")
    <3>1. CASE Received("Remote", "Local")
      BY <1>2, <1>4, <3>1 DEF Received
    <3>2. CASE Pushed("Remote") /\ r.in # None
      <4>1. r.in \in Frames("Local")'
        BY <3>2, TrafficKept, Sides
      <4>2. Append(r.handler, Recv(r.in)) \in Seq(Downward("Remote")')
        BY <1>4, <4>1, QueueEnds, Sides DEF Downward
      <4>3. QED
        BY <1>2, <1>4, <3>2, <4>2, Sides DEF Pushed
    <3>3. QED
      BY <1>2, <2>5, <3>1, <3>2, Sides DEF ReceiverMove, Open
  <2>6. ~ReceiverMove("Local")
    BY <1>2, Sides DEF ReceiverMove
  <2>7. ASSUME NEW s \in Side, NEW c, Sent(s, c), Enqueued(s, c) PROVE Q
    <3>1. s = "Local"
      BY <1>1, <2>7, Sides DEF Sent
    <3>2. login.at # "exit self"
      BY <1>2 DEF Inv, ExitInv, LogoutAfterChild
    <3>3. c \in Upward("Local")'
      BY <2>7, <3>1, <3>2, SentType
    <3>4. Append(l.handler, c) \in Seq(Upward("Local")')
      BY <1>4, <3>3, QueueEnds
    <3>5. QED
      <4>1. Enqueued("Local", c)
        BY <2>7, <3>1
      <4>2. Still("Remote") /\ l'.in = l.in /\ l'.handler = Append(l.handler, c)
        BY <4>1, Sides DEF Enqueued
      <4>3. QED
        BY <1>2, <1>4, <3>4, <4>2
  <2>8. CASE Cut("Local") /\ Cut("Remote")
    BY <1>2, <1>4, <2>8 DEF Cut
  <2>9. CASE Quiet
    BY <1>2, <1>4, <2>9 DEF Quiet
  <2>10. QED
    BY <2>1, <2>2, <2>3, <2>4, <2>5, <2>6, <2>7, <2>8, <2>9, NetMoves, Sides DEF NetMove
<1>8. QED
  BY <1>3, <1>6, <1>7

-----------------------------------------------------------------------------
(* The end of the session.                                                  *)

\* A router task ends by Exit or because a queue it sends to is gone.
LEMMA RouterEnding ==
  ASSUME TypeOK, Inv, Next, NEW s \in Side, net'[s].router # net[s].router
  PROVE  \/ RouterExit(s) /\ net'[s].router = "done"
         \/ RouterFail(s) /\ net'[s].router = "failed"
<1> USE DEF SameTasks, Still
<1>0. NetOK
  BY DEF TypeOK
<1>1. net' # net
  OBVIOUS
<1>2. ASSUME NEW o \in Side, SameTasks(o), Still(Other(o)) PROVE FALSE
  BY <1>2, Sides
<1>3. ASSUME NEW o \in Side, NEW c, Sends(o, c) PROVE FALSE
  BY <1>0, <1>2, <1>3, SendsEffect DEF Enqueued
<1>4. ASSUME NEW o \in Side, Pop(o) PROVE FALSE
  BY <1>0, <1>2, <1>4, PopEffect DEF Popped
<1>5. ASSUME NEW o \in Side, NEW to, PopFor(o, to) PROVE FALSE
  BY <1>0, <1>2, <1>5, PopForEffect DEF PoppedFor
<1>6. ASSUME NEW o \in Side, RouterExit(o) \/ RouterFail(o) PROVE o = s
  <2>1. Still(Other(o))
    BY <1>0, <1>6, EndsEffect DEF RouterExit, RouterFail, Ended
  <2>2. QED
    BY <2>1, Sides
<1>7. RouterExit(s) => net'[s].router = "done"
  BY <1>0, EndsEffect DEF RouterExit, Ended
<1>8. RouterFail(s) => net'[s].router = "failed"
  BY <1>0, EndsEffect DEF RouterFail, Ended
<1>9. ASSUME NEW o \in Side, Router(o) PROVE RouterExit(o) \/ RouterFail(o)
  <2>1. ~RouterDeliver(o)
    BY <1>0, <1>2, DeliverEffect DEF Delivered
  <2>2. ~RouterForward(o)
    BY <1>0, <1>2, ForwardEffect DEF Forwarded
  <2>3. QED
    BY <1>4, <1>5, <1>9, <2>1, <2>2 DEF Router, RouterSetEnv, RouterSpawn, RouterLookup,
       RouterProcessExit, RouterSend, RouterSource, RouterSink
<1>10. ASSUME NEW o \in Side, Sender(o) \/ Receiver(o) PROVE FALSE
  <2>1. SenderMove(o) \/ ReceiverMove(o) \/ Quiet
    BY <1>0, <1>10, SenderMoves, ReceiverMoves
  <2>2. QED
    BY <1>2, <2>1, Sides DEF SenderMove, Taken, Written, SenderEnded, ReceiverMove, Received,
       Pushed, Dropped, Quiet
<1>11. ~LinkDown
  BY <1>0, CutEffect DEF Cut
<1>12. ~Main
  BY <1>1, <1>3, Sides DEF Main, MainSends, MainSetEnv, MainRegister, MainEnterFail, MainSize,
     MainSizeFail, MainSink, MainSpawn, MainSource, MainStatus, MainExitPeer, MainExitSelf,
     MainDone, MainFail
<1>13. ~Winch /\ ~Proc
  BY <1>1, <1>3, Sides DEF Winch, WinchStart, WinchTake, WinchPush, WinchFail, Proc, ProcSpawn,
     ProcSpawnFail, ProcSink, ProcSource, ProcReap, ProcExit, ProcFail
<1>14. ASSUME NEW o \in Side, Source(o) \/ Sink(o) PROVE FALSE
  BY <1>1, <1>3, <1>14 DEF Source, SourcePush, SourceFail, Sink, SinkFail, SinkResize,
     SinkShutdown, SinkTakes
<1>15. ~Env /\ ~ChildReader /\ ~Writer /\ ~Shutdown
  BY <1>1, <1>11 DEF Env, ReadStdin, ReadEnd, Reads, Resize, ChildIO, ChildGoes, StderrFail,
     Abort, Exits, ChildReader, ReadChild, ReadFail, Writer, WriteStdout, WriteChild, SinkTakes,
     Shutdown, RemoteShutdown, LocalShutdown
<1>16. QED
  BY <1>6, <1>7, <1>8, <1>9, <1>10, <1>12, <1>13, <1>14, <1>15 DEF Next

\* What needs the child's exit status happens after the child has exited.
LEMMA ExitStep ==
  ASSUME TypeOK, Inv, Next
  PROVE  ExitInv'
<1> DEFINE After == {"exit peer", "exit self", "ssh", "done"}
<1>1. LoginOK /\ RemoteOK /\ ExitInv /\ (Exited => Exited') /\ (Leaving => Leaving')
  BY Progress DEF TypeOK, Inv
<1>2. login'.notifier \in {"sent", "got"} \/ login'.at \in After => Exited'
  <2>1. CASE Main
    BY <1>1, <2>1, ZenonT(60)
    DEF ExitInv, LogoutAfterChild, Exited, Main, MainSends, MainAt, MainTo,
       MainSetEnv, AfterSetEnv,
       MainRegister, MainEnterFail, MainSize, MainSizeFail, MainSink, MainSpawn, MainSource,
       MainStatus, MainExitPeer, MainExitSelf, MainDone, MainFail, Entered, Left, LoginOK
  <2>2. ASSUME NEW s \in Side, RouterProcessExit(s) PROVE Exited'
    BY <1>1, <2>2, FrameTaken DEF RouterProcessExit
  <2>3. CASE login' = login
    BY <1>1, <2>3 DEF ExitInv, LogoutAfterChild, Exited
  <2>4. CASE PanicHook("Local")
    BY <1>1, <2>4 DEF ExitInv, LogoutAfterChild, Exited, PanicHook, Left, LoginOK
  <2>5. QED
    BY <2>1, <2>2, <2>3, <2>4, LoginSteps
<1>3. net'["Remote"].router = "done" => Exited' /\ Leaving'
  <2>1. RouterExit("Remote") => Exited /\ Leaving
    BY FrameTaken, Sides DEF RouterExit
  <2>2. net["Remote"].router = "done" => Exited /\ Leaving
    BY <1>1 DEF ExitInv, LogoutAfterChild, Exited
  <2>3. QED
    BY <1>1, <2>1, <2>2, RouterEnding, Sides
<1>4. net'["Local"].router = "done" => login'.at \in {"ssh", "done"}
  <2>1. RouterExit("Local") => login.at \in {"ssh", "done"}
    BY FrameTaken, Sides DEF RouterExit
  <2>2. QED
    BY <1>1, <2>1, RouterEnding, Progress, Sides DEF ExitInv
<1>5. (remote'.proc = "exit" => Exited') /\ (remote'.proc = "spawn" => remote'.child = "none")
  <2>1. CASE remote' = remote
    BY <1>1, <2>1 DEF ExitInv
  <2>2. ASSUME NEW s \in Side, RouterSpawn(s) PROVE remote'.proc = "spawn" /\ remote'.child = "none"
    <3>1. remote.child = "none"
      BY <2>2, SpawnTaken DEF Inv, Silent
    <3>2. QED
      BY <1>1, <2>2, <3>1 DEF RouterSpawn, RemoteOK
  <2>3. ASSUME NEW s \in Side, RouterSetEnv(s) \/ SinkResize(s)
        PROVE  remote'.proc = remote.proc /\ remote'.child = remote.child
    BY <1>1, <2>3 DEF RouterSetEnv, SinkResize, RemoteOK
  <2>4. CASE Proc
    BY <1>1, <2>4 DEF Exited, Proc, ProcAt, ProcTo, ProcSpawn, ProcSpawnFail, ProcSink, ProcSource,
       ProcReap, ProcExit, ProcFail, RemoteOK
  <2>5. CASE ChildGoes
    BY <1>1, <2>5 DEF ExitInv, ChildGoes, RemoteOK
  <2>6. QED
    BY <1>1, <2>1, <2>2, <2>3, <2>4, <2>5, RemoteSteps DEF ExitInv
<1>6. LogoutAfterChild'
  BY <1>2, <1>3 DEF LogoutAfterChild, Exited
<1>7. QED
  BY <1>3, <1>4, <1>5, <1>6 DEF ExitInv

\* Only the connection and the processes themselves end.
LEMMA UpSteps ==
  ASSUME Next
  PROVE  /\ up' = up \/ LinkDown \/ Abort \/ Shutdown
         /\ Main => up' = up
<1>1. ASSUME NEW s \in Side, Router(s) \/ Sender(s) \/ Receiver(s) \/ Source(s) \/ Sink(s)
      PROVE  up' = up
  BY <1>1 DEF Router, RouterSetEnv, RouterSpawn, RouterLookup, RouterProcessExit, RouterExit,
     RouterSend, RouterSource, RouterSink, RouterDeliver, RouterForward, RouterFail, Sender,
     SenderTake, SenderWrite, SenderFail, SenderDone, Receiver, ReceiverRead, ReceiverEof,
     ReceiverPush, ReceiverFail, Source, SourcePush, SourceFail, Sink, SinkFail, SinkResize,
     SinkShutdown, SinkTakes
<1>2. ASSUME Main \/ Winch \/ Proc PROVE up' = up
  BY <1>2 DEF Main, MainSetEnv, MainRegister, MainEnterFail, MainSize, MainSizeFail, MainSink,
     MainSpawn, MainSource, MainStatus, MainExitPeer, MainExitSelf, MainDone, MainFail, Winch,
     WinchStart, WinchTake, WinchPush, WinchFail, Proc, ProcSpawn, ProcSpawnFail, ProcSink,
     ProcSource, ProcReap, ProcExit, ProcFail
<1>3. ASSUME Env \/ ChildReader \/ Writer, ~LinkDown, ~Abort PROVE up' = up
  BY <1>3 DEF Env, ReadStdin, ReadEnd, Reads, Resize, ChildIO, ChildGoes, StderrFail,
     ChildReader, ReadChild, ReadFail, Writer, WriteStdout, WriteChild, SinkTakes
<1>4. QED
  BY <1>1, <1>2, <1>3 DEF Next

\* Which steps end the login process.
LEMMA LocalEnding ==
  ASSUME UpOK, Next
  PROVE  /\ up'.alive["Local"] = up.alive["Local"] \/ LocalShutdown \/ Abort
         /\ Main => up' = up
<1>1. LinkDown \/ RemoteShutdown => up'.alive["Local"] = up.alive["Local"]
  BY DEF LinkDown, RemoteShutdown, Exits, UpOK, Side
<1>2. up' = up => up'.alive["Local"] = up.alive["Local"]
  OBVIOUS
<1>3. QED
  BY <1>1, <1>2, UpSteps DEF Shutdown

\* Whoever ends the session, raw mode is left.
LEMMA RawStep ==
  ASSUME TypeOK, Inv, Next
  PROVE  RawInv'
<1> DEFINE Middle == {"size", "sink", "spawn", "source", "wait"}
           After == {"exit peer", "exit self", "ssh", "done", "err"}
           Failed == {"leave", "hook", "size"}
           Goal == /\ ~Alive("Local")' \/ login'.at \in After
                          => ~login'.raw \/ login'.term \in Failed
                   /\ login'.raw => /\ login'.scene.tty
                                    /\ login'.orig \/ login'.term \in Failed
                   /\ login'.term \in {"leave", "size"} => login'.at = "err"
                   /\ login'.at \in Start
                          => ~login'.raw /\ ~login'.orig /\ login'.term = "ok"
                   /\ login'.at \in Middle /\ net'["Local"].router # "run"
                          => ~login'.raw \/ login'.term = "hook"
<1> SUFFICES Goal
  BY DEF RawInv, TerminalRestored, Open, Start
<1>1. LoginOK /\ UpOK
  BY DEF TypeOK
<1>2. /\ ~Alive("Local") \/ login.at \in After => ~login.raw \/ login.term \in Failed
      /\ login.raw => login.scene.tty /\ (login.orig \/ login.term \in Failed)
      /\ login.term \in {"leave", "size"} => login.at = "err"
      /\ login.at \in Start => ~login.raw /\ ~login.orig /\ login.term = "ok"
      /\ login.at \in Middle /\ ~Open("Local") => ~login.raw \/ login.term = "hook"
  BY DEF Inv, RawInv, TerminalRestored, Start
<1>3. CASE Alive("Local") /\ PanicHook("Local") /\ up' = up
  <2>1. CASE login' = Left(login)
    BY <1>1, <1>2, <1>3, <2>1 DEF Left, LoginOK, Alive, Start
  <2>2. CASE LeaveFails(login) /\ login' = [login EXCEPT !.orig = FALSE, !.term = "hook"]
    BY <1>1, <1>2, <1>3, <2>2 DEF LeaveFails, LoginOK, Alive, Start
  <2>3. QED
    BY <1>3, <2>1, <2>2 DEF PanicHook
<1>4. ASSUME net'["Local"].router = net["Local"].router \/ login.at \in {"ssh", "done"},
             login' = login
      PROVE  Goal
  <2>1. LocalShutdown \/ Abort => login.at \in After \/ login.term \in Failed
    BY DEF LocalShutdown, Abort
  <2>2. Alive("Local")' \/ ~Alive("Local") \/ login.at \in After \/ login.term \in Failed
    BY <1>1, <2>1, LocalEnding DEF Alive
  <2>3. QED
    BY <1>2, <1>4, <2>2 DEF Open
<1>5. ASSUME net'["Local"].router = net["Local"].router, Main PROVE Goal
  <2>1. up' = up
    BY <1>1, <1>5, LocalEnding
  <2>2. CASE MainRegister
    <3>1. Open("Local")
      BY <2>2 DEF Inv, Opening, MainRegister, MainAt, Open
    <3>2. QED
      BY <1>1, <1>2, <1>5, <2>1, <2>2, <3>1
      DEF MainRegister, MainAt, Entered, EntersRaw, Open, Alive, LoginOK, Start
  <2>3. CASE MainStatus
    BY <1>1, <1>2, <2>1, <2>3 DEF MainStatus, MainAt, Left, LeaveFails, Alive, LoginOK, Start
  <2>4. CASE MainEnterFail \/ MainSizeFail
    <3>1. CASE MainEnterFail
      BY <1>1, <1>2, <2>1, <3>1 DEF MainEnterFail, MainAt, Alive, LoginOK, Start
    <3>2. CASE MainSizeFail
      BY <1>1, <1>2, <2>1, <3>2 DEF MainSizeFail, MainAt, Alive, LoginOK, Start
    <3>3. QED
      BY <2>4, <3>1, <3>2
  <2>5. CASE MainFail
    BY <1>1, <1>2, <2>1, <2>5 DEF MainFail, MainTo, SendFails, Open, Alive, LoginOK, Start
  <2>6. ASSUME NEW pc \in {"setenv", "size", "sink", "spawn", "source", "exit peer",
                          "exit self", "ssh"},
               NEW next, MainAt(pc), login'.at = next,
               login'.raw = login.raw, login'.orig = login.orig, login'.term = login.term,
               login'.scene = login.scene,
               \/ pc = "setenv" /\ next \in Start
               \/ pc \in Middle /\ next \in Middle
               \/ pc \in After /\ next \in After
        PROVE  Goal
    BY <1>2, <1>5, <2>1, <2>6 DEF MainAt, Open, Alive, Start
  <2>7. CASE MainSetEnv \/ MainSize \/ MainSink \/ MainSpawn \/ MainSource \/ MainExitPeer
             \/ MainExitSelf \/ MainDone
    <3>1. CASE MainSetEnv
      BY <1>1, <2>6, <3>1 DEF MainSetEnv, AfterSetEnv, MainSends, MainTo, LoginOK, Start, MainAt
    <3>2. CASE MainSize
      BY <1>1, <2>6, <3>2 DEF MainSize, LoginOK, MainAt
    <3>3. CASE MainSink \/ MainSpawn \/ MainSource
      BY <1>1, <2>6, <3>3, ZenonT(60)
      DEF MainSink, MainSpawn, MainSource, MainSends, MainTo, LoginOK, MainAt
    <3>4. CASE MainExitPeer \/ MainExitSelf \/ MainDone
      BY <1>1, <2>6, <3>4, ZenonT(60) DEF MainExitPeer, MainExitSelf, MainDone, MainSends, MainTo,
         LoginOK, MainAt
    <3>5. QED
      BY <2>7, <3>1, <3>2, <3>3, <3>4
  <2>8. QED
    BY <1>5, <2>2, <2>3, <2>4, <2>5, <2>7 DEF Main
<1>6. ASSUME net'["Local"].router = net["Local"].router, NEW s \in Side, RouterProcessExit(s)
      PROVE  Goal
  <2>1. /\ login'.at = login.at /\ login'.raw = login.raw /\ login'.orig = login.orig
        /\ login'.term = login.term /\ login'.scene = login.scene /\ up' = up
    BY <1>1, <1>6 DEF RouterProcessExit, LoginOK
  <2>2. QED
    BY <1>2, <1>6, <2>1 DEF Open, Alive
<1>7. CASE net'["Local"].router # net["Local"].router
  <2>1. CASE RouterExit("Local")
    <3>1. login' = login /\ login.at \in {"ssh", "done"}
      BY <2>1, FrameTaken, Sides DEF RouterExit
    <3>2. QED
      BY <1>4, <3>1
  <2>2. CASE RouterFail("Local")
    BY <1>3, <2>2 DEF RouterFail
  <2>3. QED
    BY <1>7, <2>1, <2>2, RouterEnding, Sides
<1>8. QED
  BY <1>3, <1>4, <1>5, <1>6, <1>7, LoginSteps

-----------------------------------------------------------------------------
(* There is one Spawn.                                                      *)

\* A queue of frames that grows or gives its first.
LEMMA SpawnQueue ==
  ASSUME NEW S, NEW q \in Seq(S)
  PROVE  /\ \A x : /\ Holds(Append(q, x)) <=> Holds(q) \/ x.t = "Spawn"
                   /\ Twice(Append(q, x)) => Twice(q) \/ (Holds(q) /\ x.t = "Spawn")
         /\ q # <<>> => /\ Head(q).t = "Spawn" => Holds(q)
                        /\ Holds(Tail(q)) => Holds(q)
                        /\ Twice(Tail(q)) => Twice(q)
                        /\ Head(q).t = "Spawn" /\ Holds(Tail(q)) => Twice(q)
         /\ ~Holds(<<>>) /\ ~Twice(<<>>)
<1>1. Len(q) \in Nat
  OBVIOUS
<1>2. ASSUME NEW x
      PROVE  /\ Holds(Append(q, x)) <=> Holds(q) \/ x.t = "Spawn"
             /\ Twice(Append(q, x)) => Twice(q) \/ (Holds(q) /\ x.t = "Spawn")
  <2>1. /\ Len(Append(q, x)) = Len(q) + 1 /\ Append(q, x)[Len(q) + 1] = x
        /\ \A i \in 1 .. Len(q) : Append(q, x)[i] = q[i]
    OBVIOUS
  <2>2. Holds(Append(q, x)) <=> Holds(q) \/ x.t = "Spawn"
    BY <1>1, <2>1 DEF Holds
  <2>3. Twice(Append(q, x)) => Twice(q) \/ (Holds(q) /\ x.t = "Spawn")
    BY <1>1, <2>1 DEF Holds, Twice
  <2>4. QED
    BY <2>2, <2>3
<1>3. ASSUME q # <<>>
      PROVE  /\ Head(q).t = "Spawn" => Holds(q)
             /\ Holds(Tail(q)) => Holds(q)
             /\ Twice(Tail(q)) => Twice(q)
             /\ Head(q).t = "Spawn" /\ Holds(Tail(q)) => Twice(q)
  <2>1. /\ Len(q) >= 1 /\ Head(q) = q[1] /\ Len(Tail(q)) = Len(q) - 1
        /\ \A i \in 1 .. Len(q) - 1 : Tail(q)[i] = q[i + 1]
    BY <1>1, <1>3, HeadTailProperties, EmptySeq
  <2>2. Head(q).t = "Spawn" => Holds(q)
    BY <1>1, <2>1 DEF Holds
  <2>3. \A i \in 1 .. Len(q) - 1 : i + 1 \in 1 .. Len(q) /\ i + 1 # 1
    BY <1>1
  <2>4. Holds(Tail(q)) => Holds(q)
    BY <2>1, <2>3 DEF Holds
  <2>5. Twice(Tail(q)) => Twice(q)
    <3>1. SUFFICES ASSUME NEW i \in 1 .. Len(q) - 1, NEW j \in 1 .. Len(q) - 1, i # j,
                          q[i + 1].t = "Spawn", q[j + 1].t = "Spawn"
                   PROVE  Twice(q)
      BY <2>1 DEF Twice
    <3>2. i + 1 # j + 1
      BY <3>1
    <3>3. QED
      BY <2>3, <3>1, <3>2 DEF Twice
  <2>6. Head(q).t = "Spawn" /\ Holds(Tail(q)) => Twice(q)
    <3>1. 1 \in 1 .. Len(q)
      BY <1>1, <2>1
    <3>2. QED
      BY <2>1, <2>3, <3>1 DEF Holds, Twice
  <2>7. QED
    BY <2>2, <2>4, <2>5, <2>6
<1>4. ~Holds(<<>>) /\ ~Twice(<<>>)
  BY DEF Holds, Twice
<1>5. QED
  BY <1>2, <1>3, <1>4

\* The same of a queue of commands.
LEMMA SpawnCommands ==
  ASSUME NEW S, NEW q \in Seq(S)
  PROVE  /\ \A x : /\ HoldsCmd(Append(q, x)) <=> HoldsCmd(q) \/ x.f.t = "Spawn"
                   /\ TwiceCmd(Append(q, x)) => TwiceCmd(q) \/ (HoldsCmd(q) /\ x.f.t = "Spawn")
         /\ q # <<>> => /\ Head(q).f.t = "Spawn" => HoldsCmd(q)
                        /\ HoldsCmd(Tail(q)) => HoldsCmd(q)
                        /\ TwiceCmd(Tail(q)) => TwiceCmd(q)
                        /\ Head(q).f.t = "Spawn" /\ HoldsCmd(Tail(q)) => TwiceCmd(q)
         /\ ~HoldsCmd(<<>>) /\ ~TwiceCmd(<<>>)
<1>1. Len(q) \in Nat
  OBVIOUS
<1>2. ASSUME NEW x
      PROVE  /\ HoldsCmd(Append(q, x)) <=> HoldsCmd(q) \/ x.f.t = "Spawn"
             /\ TwiceCmd(Append(q, x)) => TwiceCmd(q) \/ (HoldsCmd(q) /\ x.f.t = "Spawn")
  <2>1. /\ Len(Append(q, x)) = Len(q) + 1 /\ Append(q, x)[Len(q) + 1] = x
        /\ \A i \in 1 .. Len(q) : Append(q, x)[i] = q[i]
    OBVIOUS
  <2>2. HoldsCmd(Append(q, x)) <=> HoldsCmd(q) \/ x.f.t = "Spawn"
    BY <1>1, <2>1 DEF HoldsCmd
  <2>3. TwiceCmd(Append(q, x)) => TwiceCmd(q) \/ (HoldsCmd(q) /\ x.f.t = "Spawn")
    BY <1>1, <2>1 DEF HoldsCmd, TwiceCmd
  <2>4. QED
    BY <2>2, <2>3
<1>3. ASSUME q # <<>>
      PROVE  /\ Head(q).f.t = "Spawn" => HoldsCmd(q)
             /\ HoldsCmd(Tail(q)) => HoldsCmd(q)
             /\ TwiceCmd(Tail(q)) => TwiceCmd(q)
             /\ Head(q).f.t = "Spawn" /\ HoldsCmd(Tail(q)) => TwiceCmd(q)
  <2>1. /\ Len(q) >= 1 /\ Head(q) = q[1] /\ Len(Tail(q)) = Len(q) - 1
        /\ \A i \in 1 .. Len(q) - 1 : Tail(q)[i] = q[i + 1]
    BY <1>1, <1>3, HeadTailProperties, EmptySeq
  <2>2. Head(q).f.t = "Spawn" => HoldsCmd(q)
    BY <1>1, <2>1 DEF HoldsCmd
  <2>3. \A i \in 1 .. Len(q) - 1 : i + 1 \in 1 .. Len(q) /\ i + 1 # 1
    BY <1>1
  <2>4. HoldsCmd(Tail(q)) => HoldsCmd(q)
    BY <2>1, <2>3 DEF HoldsCmd
  <2>5. TwiceCmd(Tail(q)) => TwiceCmd(q)
    <3>1. SUFFICES ASSUME NEW i \in 1 .. Len(q) - 1, NEW j \in 1 .. Len(q) - 1, i # j,
                          q[i + 1].f.t = "Spawn", q[j + 1].f.t = "Spawn"
                   PROVE  TwiceCmd(q)
      BY <2>1 DEF TwiceCmd
    <3>2. i + 1 # j + 1
      BY <3>1
    <3>3. QED
      BY <2>3, <3>1, <3>2 DEF TwiceCmd
  <2>6. Head(q).f.t = "Spawn" /\ HoldsCmd(Tail(q)) => TwiceCmd(q)
    <3>1. 1 \in 1 .. Len(q)
      BY <1>1, <2>1
    <3>2. QED
      BY <2>1, <2>3, <3>1 DEF HoldsCmd, TwiceCmd
  <2>7. QED
    BY <2>2, <2>4, <2>5, <2>6
<1>4. ~HoldsCmd(<<>>) /\ ~TwiceCmd(<<>>)
  BY DEF HoldsCmd, TwiceCmd
<1>5. QED
  BY <1>2, <1>3, <1>4


\* The main task passes the sending of Spawn once; process::run is started by Spawn.
LEMMA SpawnSteps ==
  ASSUME TypeOK, Inv, Next
  PROVE  /\ BeforeSpawn' => BeforeSpawn
         /\ remote.proc = "none" /\ remote'.proc # "none" => RouterSpawn("Remote")
<1>1. LoginOK /\ RemoteOK
  BY DEF TypeOK
<1>2. BeforeSpawn' => BeforeSpawn
  <2>1. CASE Main
    BY <1>1, <2>1, ZenonT(60)
    DEF BeforeSpawn, Main, MainSends, MainAt, MainTo, MainSetEnv, MainRegister,
       MainEnterFail, MainSize, MainSizeFail, MainSink, MainSpawn, MainSource, MainStatus,
       MainExitPeer, MainExitSelf, MainDone, MainFail, Entered, Left, LoginOK
  <2>2. CASE \E s \in Side : RouterProcessExit(s)
    BY <1>1, <2>2 DEF BeforeSpawn, RouterProcessExit, LoginOK
  <2>3. CASE PanicHook("Local")
    BY <1>1, <2>3 DEF BeforeSpawn, PanicHook, Left, LoginOK
  <2>4. QED
    BY <2>1, <2>2, <2>3, LoginSteps DEF BeforeSpawn
<1>3. ASSUME remote.proc = "none", remote'.proc # "none" PROVE RouterSpawn("Remote")
  <2>1. ~Proc
    BY <1>3 DEF Proc, ProcAt, ProcSpawn, ProcSpawnFail, ProcSink, ProcSource, ProcReap, ProcExit,
       ProcFail
  <2>2. ASSUME NEW s \in Side, RouterSetEnv(s) \/ SinkResize(s) PROVE FALSE
    BY <1>1, <1>3, <2>2 DEF RouterSetEnv, SinkResize, RemoteOK
  <2>3. ~ChildGoes
    BY <1>1, <1>3 DEF ChildGoes, RemoteOK
  <2>4. QED
    BY <1>3, <2>1, <2>2, <2>3, RemoteSteps, SpawnTaken
<1>4. QED
  BY <1>2, <1>3

\* Spawn goes from one place to the next.
LEMMA SpawnOnceStep ==
  ASSUME TypeOK, Inv, Next
  PROVE  SpawnOnce'
<1> DEFINE l == net["Local"]
           r == net["Remote"]
           a1 == BeforeSpawn
           a2 == HoldsCmd(l.handler)
           a3 == l.job.to = "peer" /\ l.job.f.t = "Spawn"
           a4 == Holds(l.peer)
           a5 == l.out.t = "Spawn"
           a6 == Holds(l.wire)
           a7 == r.in.t = "Spawn"
           a8 == HoldsCmd(r.handler)
           a9 == remote.proc # "none"
           b1 == BeforeSpawn'
           b2 == HoldsCmd(l'.handler)
           b3 == l'.job.to = "peer" /\ l'.job.f.t = "Spawn"
           b4 == Holds(l'.peer)
           b5 == l'.out.t = "Spawn"
           b6 == Holds(l'.wire)
           b7 == r'.in.t = "Spawn"
           b8 == HoldsCmd(r'.handler)
           b9 == remote'.proc # "none"
           Sum == One(b1) + One(b2) + One(b3) + One(b4) + One(b5) + One(b6) + One(b7) + One(b8)
                  + One(b9) <= 1
           T2 == ~TwiceCmd(l'.handler)
           T4 == ~Twice(l'.peer)
           T6 == ~Twice(l'.wire)
           T8 == ~TwiceCmd(r'.handler)
<1> SUFFICES Sum /\ T2 /\ T4 /\ T6 /\ T8
  BY DEF SpawnOnce, Holds, Twice, HoldsCmd, TwiceCmd
<1>1. /\ One(a1) + One(a2) + One(a3) + One(a4) + One(a5) + One(a6) + One(a7) + One(a8)
         + One(a9) <= 1
      /\ ~TwiceCmd(l.handler) /\ ~Twice(l.peer) /\ ~Twice(l.wire) /\ ~TwiceCmd(r.handler)
  BY DEF Inv, SpawnOnce
<1>2. /\ NetOK /\ Traffic("Local") /\ Traffic("Remote")
      /\ l.handler \in Seq(Commands("Local")) /\ r.handler \in Seq(Commands("Remote"))
      /\ l.peer \in Seq(Frames("Local")) /\ l.wire \in Seq(Frames("Local"))
  BY Sides DEF Inv, TrafficInv, Traffic, TypeOK
<1>3. b1 => a1
  BY SpawnSteps
<1>4. None.t # "Spawn" /\ NoJob.to # "peer"
  BY DEF None, F, NoJob
<1>5. CASE RouterSpawn("Remote")
  <2>1. Popped("Remote") /\ r.handler # <<>> /\ Head(r.handler).f.t = "Spawn"
    BY <1>2, <1>5, PopEffect, Sides DEF RouterSpawn, TakesFrame, Takes, Cmd
  <2>2. /\ l'.handler = l.handler /\ l'.job = l.job /\ l'.peer = l.peer /\ l'.out = l.out
        /\ l'.wire = l.wire /\ r'.in = r.in /\ r'.handler = Tail(r.handler)
    BY <2>1, Sides DEF Popped, Still, Becomes
  <2>3. a8 /\ ~b8 /\ T8
    BY <1>1, <1>2, <2>1, <2>2, SpawnCommands
  <2>4. QED
    BY <1>1, <1>3, <2>2, <2>3 DEF One
<1>6. CASE ~RouterSpawn("Remote")
  <2>1. b9 => a9
    BY <1>6, SpawnSteps
  \* No place gets a Spawn.
  <2>2. ASSUME b2 => a2, b3 => a3, b4 => a4, b5 => a5, b6 => a6, b7 => a7, b8 => a8
        PROVE  Sum
    BY <1>1, <1>3, <2>1, <2>2 DEF One
  <2> DEFINE SameL == /\ l'.handler = l.handler /\ l'.job = l.job /\ l'.peer = l.peer
                      /\ l'.out = l.out /\ l'.wire = l.wire
             SameR == r'.in = r.in /\ r'.handler = r.handler
  <2>3. CASE SameL /\ SameR
    BY <1>1, <2>2, <2>3
  <2>4. CASE RouterMove("Remote")
    <3>1. SameL /\ r'.in = r.in /\ (\/ r'.handler \in {r.handler, <<>>}
                                    \/ r.handler # <<>> /\ r'.handler = Tail(r.handler))
      BY <2>4, Sides DEF RouterMove, Takes, Popped, PoppedFor, Delivered, Forwarded, Ended,
         Still, Becomes
    <3>2. (b8 => a8) /\ T8
      BY <1>1, <1>2, <3>1, SpawnCommands
    <3>3. QED
      BY <1>1, <2>2, <3>1, <3>2
  <2>5. CASE RouterMove("Local")
    <3>0. SameR /\ l'.out = l.out /\ l'.wire = l.wire
      BY <2>5, Sides DEF RouterMove, Popped, PoppedFor, Delivered, Forwarded, Ended, Still, Becomes
    <3>1. CASE Takes("Local") /\ (Popped("Local") \/ PoppedFor("Local", "chan"))
      <4>1. /\ l.handler # <<>> /\ l'.handler = Tail(l.handler) /\ l'.peer = l.peer
            /\ l'.job = l.job \/ l'.job.to = "chan"
        BY <3>1 DEF Takes, Popped, PoppedFor, Becomes
      <4>2. (b2 => a2) /\ T2
        BY <1>1, <1>2, <4>1, SpawnCommands
      <4>3. QED
        BY <1>1, <2>2, <3>0, <4>1, <4>2
    <3>2. CASE Takes("Local") /\ PoppedFor("Local", "peer")
      <4>1. /\ l.handler # <<>> /\ l'.handler = Tail(l.handler) /\ l'.peer = l.peer
            /\ l'.job.f = Head(l.handler).f
        BY <3>2 DEF Takes, PoppedFor, Becomes, Cmd
      <4>2. (b2 => a2) /\ T2 /\ (b3 => a2 /\ ~b2)
        BY <1>1, <1>2, <4>1, SpawnCommands
      <4>3. QED
        BY <1>1, <1>3, <2>1, <3>0, <4>1, <4>2 DEF One
    <3>3. CASE Delivered("Local")
      <4>1. l'.handler = l.handler /\ l'.peer = l.peer /\ l'.job = NoJob
        BY <3>3 DEF Delivered, Becomes
      <4>2. QED
        BY <1>1, <1>4, <2>2, <3>0, <4>1
    <3>4. CASE Forwarded("Local") /\ l.job.to = "peer"
      <4>1. l'.handler = l.handler /\ l'.peer = Append(l.peer, l.job.f) /\ l'.job = NoJob
        BY <3>4 DEF Forwarded, Becomes
      <4>2. (b4 <=> a4 \/ l.job.f.t = "Spawn") /\ (~T4 => a4 /\ l.job.f.t = "Spawn")
        BY <1>1, <1>2, <4>1, SpawnQueue
      <4>3. (b4 <=> a4 \/ a3) /\ (~T4 => a4 /\ a3) /\ ~b3
        BY <1>4, <3>4, <4>1, <4>2
      <4>4. QED
        BY <1>1, <1>3, <2>1, <3>0, <4>1, <4>3 DEF One
    <3>5. CASE \E how : Ended("Local", how)
      <4>1. l'.handler = <<>> /\ l'.peer = l.peer /\ l'.job = NoJob
        BY <3>5 DEF Ended, Becomes
      <4>2. ~b2 /\ T2
        BY <1>2, <4>1, SpawnCommands
      <4>3. QED
        BY <1>1, <1>4, <2>2, <3>0, <4>1, <4>2
    <3>6. QED
      BY <2>5, <3>1, <3>2, <3>3, <3>4, <3>5 DEF RouterMove
  <2>6. CASE SenderMove("Remote")
    <3>1. SameL /\ SameR
      BY <2>6, Sides DEF SenderMove, Taken, Written, SenderEnded, Still, Becomes
    <3>2. QED
      BY <2>3, <3>1
  <2>7. CASE SenderMove("Local")
    <3>0. SameR /\ l'.handler = l.handler /\ l'.job = l.job
      BY <2>7, Sides DEF SenderMove, Taken, Written, SenderEnded, Still, Becomes
    <3>1. CASE Taken("Local") /\ l.peer # <<>>
      <4>1. l'.peer = Tail(l.peer) /\ l'.out = Head(l.peer) /\ l'.wire = l.wire
        BY <3>1 DEF Taken, Becomes
      <4>2. (b4 => a4) /\ T4 /\ (b5 => a4 /\ ~b4)
        BY <1>1, <1>2, <3>1, <4>1, SpawnQueue
      <4>3. QED
        BY <1>1, <1>3, <2>1, <3>0, <4>1, <4>2 DEF One
    <3>2. CASE Written("Local")
      <4>1. l'.peer = l.peer /\ l'.out = None /\ l'.wire \in {l.wire, Append(l.wire, l.out)}
        BY <3>2 DEF Written, Becomes
      <4>2. (b6 => a6 \/ a5) /\ (~T6 => a6 /\ a5)
        <5>1. CASE l'.wire = l.wire
          BY <1>1, <5>1
        <5>2. CASE l'.wire = Append(l.wire, l.out)
          BY <1>1, <1>2, <5>2, SpawnQueue
        <5>3. QED
          BY <4>1, <5>1, <5>2
      <4>3. ~b5
        BY <1>4, <4>1
      <4>4. QED
        BY <1>1, <1>3, <2>1, <3>0, <4>1, <4>2, <4>3 DEF One
    <3>3. CASE \E how : SenderEnded("Local", how)
      <4>1. l'.peer = <<>> /\ l'.out = None /\ l'.wire = l.wire
        BY <3>3 DEF SenderEnded, Becomes
      <4>2. ~b4 /\ T4 /\ ~b5
        BY <1>2, <1>4, <4>1, SpawnQueue
      <4>3. QED
        BY <1>1, <2>2, <3>0, <4>1, <4>2
    <3>4. QED
      BY <2>7, <3>1, <3>2, <3>3 DEF SenderMove
  <2>8. CASE ReceiverMove("Remote")
    <3>0. l'.handler = l.handler /\ l'.job = l.job /\ l'.peer = l.peer /\ l'.out = l.out
      BY <2>8, Sides DEF ReceiverMove, Received, Pushed, Dropped, Still, Becomes
    <3>1. CASE Received("Remote", "Local") /\ l.wire # <<>>
      <4>1. l'.wire = Tail(l.wire) /\ r'.in = Head(l.wire) /\ r'.handler = r.handler
        BY <3>1 DEF Received, Becomes
      <4>2. (b6 => a6) /\ T6 /\ (b7 => a6 /\ ~b6)
        BY <1>1, <1>2, <3>1, <4>1, SpawnQueue
      <4>3. QED
        BY <1>1, <1>3, <2>1, <3>0, <4>1, <4>2 DEF One
    <3>2. CASE Pushed("Remote")
      <4>1. l'.wire = l.wire /\ r'.in = None /\ r'.handler = Append(r.handler, Recv(r.in))
        BY <3>2, Sides DEF Pushed, Still, Becomes
      <4>2. (b8 => a8 \/ a7) /\ (~T8 => a8 /\ a7) /\ ~b7
        BY <1>1, <1>2, <1>4, <4>1, SpawnCommands DEF Recv
      <4>3. QED
        BY <1>1, <1>3, <2>1, <3>0, <4>1, <4>2 DEF One
    <3>3. CASE Dropped("Remote")
      <4>1. l'.wire = l.wire /\ r'.in = None /\ r'.handler = r.handler
        BY <3>3, Sides DEF Dropped, Still, Becomes
      <4>2. QED
        BY <1>1, <1>4, <2>2, <3>0, <4>1
    <3>4. QED
      BY <2>8, <3>1, <3>2, <3>3, Sides DEF ReceiverMove
  <2>9. CASE ReceiverMove("Local")
    <3>1. CASE Received("Local", "Remote") \/ Dropped("Local")
      <4>1. SameL /\ SameR
        BY <3>1, Sides DEF Received, Dropped, Still, Becomes
      <4>2. QED
        BY <2>3, <4>1
    <3>2. CASE Pushed("Local") /\ l.in # None
      <4>1. /\ l'.handler = Append(l.handler, Recv(l.in)) /\ l'.job = l.job
            /\ l'.peer = l.peer /\ l'.out = l.out /\ l'.wire = l.wire /\ SameR
        BY <3>2, Sides DEF Pushed, Still, Becomes
      <4>2. Recv(l.in).f.t # "Spawn"
        BY <1>2, <3>2, Sides DEF Traffic, Frames, Kinds, Recv
      <4>3. (b2 <=> a2) /\ T2
        BY <1>1, <1>2, <4>1, <4>2, SpawnCommands
      <4>4. QED
        BY <1>1, <2>2, <4>1, <4>3
    <3>3. QED
      BY <2>9, <3>1, <3>2, Sides DEF ReceiverMove
  <2>10. ASSUME NEW s \in Side, NEW c, Sent(s, c), Enqueued(s, c) PROVE Sum /\ T2 /\ T4 /\ T6 /\ T8
    <3>1. CASE /\ s = "Local" /\ c = Send(F("Spawn", login.size))
               /\ login.at = "spawn" /\ login'.at = "source"
      <4>1. a1 /\ ~b1 /\ c.f.t = "Spawn"
        BY <3>1 DEF BeforeSpawn, Send, F
      <4>2. /\ SameR /\ l'.handler = Append(l.handler, c) /\ l'.job = l.job
            /\ l'.peer = l.peer /\ l'.out = l.out /\ l'.wire = l.wire
        BY <2>10, <3>1, Sides DEF Enqueued, Still, Becomes
      <4>3. b2 /\ (~T2 => a2)
        BY <1>1, <1>2, <4>1, <4>2, SpawnCommands
      <4>4. QED
        BY <1>1, <2>1, <4>1, <4>2, <4>3 DEF One
    <3>2. CASE c.f.t # "Spawn"
      <4>1. CASE s = "Local"
        <5>1. /\ SameR /\ l'.handler = Append(l.handler, c) /\ l'.job = l.job
              /\ l'.peer = l.peer /\ l'.out = l.out /\ l'.wire = l.wire
          BY <2>10, <4>1, Sides DEF Enqueued, Still, Becomes
        <5>2. (b2 <=> a2) /\ T2
          BY <1>1, <1>2, <3>2, <5>1, SpawnCommands
        <5>3. QED
          BY <1>1, <2>2, <5>1, <5>2
      <4>2. CASE s = "Remote"
        <5>1. SameL /\ r'.handler = Append(r.handler, c) /\ r'.in = r.in
          BY <2>10, <4>2, Sides DEF Enqueued, Still, Becomes
        <5>2. (b8 <=> a8) /\ T8
          BY <1>1, <1>2, <3>2, <5>1, SpawnCommands
        <5>3. QED
          BY <1>1, <2>2, <5>1, <5>2
      <4>3. QED
        BY <4>1, <4>2, Sides
    <3>3. Send(SetEnvFrame).f.t # "Spawn"
      BY DEF Send, SetEnvFrame, F
    <3>4. QED
      BY <2>10, <3>1, <3>2, <3>3 DEF Sent
  <2>11. CASE Cut("Local") /\ Cut("Remote")
    <3>1. /\ SameR /\ l'.handler = l.handler /\ l'.job = l.job
          /\ l'.peer = l.peer /\ l'.out = l.out /\ l'.wire \in {l.wire, <<>>}
      BY <2>11 DEF Cut, Becomes
    <3>2. (b6 => a6) /\ T6
      BY <1>1, <1>2, <3>1, SpawnQueue
    <3>3. QED
      BY <1>1, <2>2, <3>1, <3>2
  <2>12. CASE Quiet
    <3>1. SameL /\ SameR
      BY <2>12 DEF Quiet, Still, Becomes
    <3>2. QED
      BY <2>3, <3>1
  <2>13. QED
    BY <2>4, <2>5, <2>6, <2>7, <2>8, <2>9, <2>10, <2>11, <2>12, NetMoves, Sides DEF NetMove
<1>7. QED
  BY <1>5, <1>6

-----------------------------------------------------------------------------
(* The opening of the session.                                              *)

\* The main task leaves its first states in order, by sending SetEnv.
LEMMA StartSteps ==
  ASSUME TypeOK, Inv, Next
  PROVE  /\ login'.at \in Start => login.at \in Start
         /\ login'.at = "setenv" => login.at = "setenv"
         /\ login.at = "setenv" /\ login'.at # "setenv" => MainSetEnv
         /\ login'.at \in Start /\ login.notifier = "none" /\ ~Exited => login'.notifier = "none"
<1>1. LoginOK
  BY DEF TypeOK
<1>2. CASE Main
  BY <1>1, <1>2 DEF Start, Main, MainSends, MainAt, MainTo, MainSetEnv, MainRegister,
     MainEnterFail, MainSize, MainSizeFail, MainSink, MainSpawn, MainSource, MainStatus,
     MainExitPeer, MainExitSelf, MainDone, MainFail, Entered, Left, LoginOK
<1>3. ASSUME NEW s \in Side, RouterProcessExit(s) PROVE Exited /\ login'.at = login.at
  BY <1>1, <1>3, FrameTaken DEF RouterProcessExit, LoginOK
<1>4. CASE PanicHook("Local")
  BY <1>1, <1>4 DEF PanicHook, Left, LoginOK
<1>5. QED
  BY <1>2, <1>3, <1>4, LoginSteps

\* Before a command is chosen there is no child, and nothing comes back.
LEMMA OpeningFacts ==
  ASSUME TypeOK, Inv, Next, login'.at \in Start
  PROVE  /\ login.at \in Start
         /\ remote.proc = "none" /\ remote'.proc = "none" /\ ~Exited
         /\ net["Local"].in = None /\ net["Remote"].wire = <<>>
<1>1. login.at \in Start /\ BeforeSpawn
  BY StartSteps DEF Start, BeforeSpawn
<1>2. remote.proc = "none"
  BY <1>1 DEF Inv, SpawnOnce, One
<1>3. remote'.proc = "none"
  BY <1>1, <1>2, SpawnSteps, SpawnTaken, Sides
<1>4. QED
  BY <1>1, <1>2, <1>3 DEF Inv, Silent, Exited

\* SetEnv alone goes through the queues of the login process.
LEMMA OpeningQueues ==
  ASSUME TypeOK, Inv, Next, login'.at \in Start
  PROVE  LET l == net'["Local"] IN
         /\ l.handler \in {<<>>, <<Send(SetEnvFrame)>>}
         /\ l.job \in {NoJob, [to |-> "peer", f |-> SetEnvFrame]}
         /\ l.peer \in {<<>>, <<SetEnvFrame>>}
         /\ l.handler # <<>> => l.job = NoJob
         /\ l.handler # <<>> \/ l.job # NoJob => l.sender = "run" /\ l.peer = <<>> /\ l.out = None
         /\ l.peer # <<>> => l.out = None
         /\ login'.at = "setenv" =>
                /\ l.handler = <<>> /\ l.job = NoJob /\ l.peer = <<>> /\ l.out = None
                /\ l.sender = "run"
<1> DEFINE l == net["Local"]
           r == net["Remote"]
           E == <<Send(SetEnvFrame)>>
           J == [to |-> "peer", f |-> SetEnvFrame]
           P == <<SetEnvFrame>>
           Goal == /\ l'.handler \in {<<>>, E} /\ l'.job \in {NoJob, J} /\ l'.peer \in {<<>>, P}
                   /\ l'.handler # <<>> => l'.job = NoJob
                   /\ l'.handler # <<>> \/ l'.job # NoJob
                          => l'.sender = "run" /\ l'.peer = <<>> /\ l'.out = None
                   /\ l'.peer # <<>> => l'.out = None
                   /\ login'.at = "setenv" => /\ l'.handler = <<>> /\ l'.job = NoJob
                                              /\ l'.peer = <<>> /\ l'.out = None
                                              /\ l'.sender = "run"
<1> SUFFICES Goal
  OBVIOUS
<1>1. login.at \in Start /\ (login'.at = "setenv" => login.at = "setenv")
  BY StartSteps
<1>2. /\ l.router = "run"
      /\ l.handler \in {<<>>, E} /\ l.job \in {NoJob, J} /\ l.peer \in {<<>>, P}
      /\ l.handler # <<>> => l.job = NoJob
      /\ l.handler # <<>> \/ l.job # NoJob => l.sender = "run" /\ l.peer = <<>> /\ l.out = None
      /\ l.peer # <<>> => l.out = None
      /\ login.at = "setenv" =>
             l.handler = <<>> /\ l.job = NoJob /\ l.peer = <<>> /\ l.out = None /\ l.sender = "run"
  BY <1>1 DEF Inv, Opening, Start
<1>3. /\ Takes("Local") => l.handler = E /\ Cmd("Local") = Send(SetEnvFrame)
      /\ Send(SetEnvFrame).k = "Send" /\ Send(SetEnvFrame).f = SetEnvFrame
      /\ NoJob.to = "none" /\ J.to = "peer" /\ J.f = SetEnvFrame /\ J # NoJob
  BY <1>2 DEF Takes, Cmd, Send, NoJob
<1>4. /\ Tail(E) = <<>> /\ Append(<<>>, SetEnvFrame) = P /\ Append(<<>>, Send(SetEnvFrame)) = E
      /\ Tail(P) = <<>> /\ E # <<>> /\ P # <<>>
  OBVIOUS
<1>5. ASSUME l'.handler = l.handler, l'.job = l.job, l'.peer = l.peer, l'.out = l.out,
             l'.sender = l.sender
      PROVE  Goal
  BY <1>1, <1>2, <1>5
<1>6. CASE RouterMove("Local")
  <2>1. CASE Takes("Local") /\ PoppedFor("Local", "peer")
    <3>1. /\ l'.handler = <<>> /\ l'.job = J /\ l'.peer = l.peer /\ l'.out = l.out
          /\ l'.sender = l.sender
      BY <1>3, <1>4, <2>1 DEF PoppedFor, Becomes, SameTasks
    <3>2. QED
      BY <1>1, <1>2, <1>3, <1>4, <2>1, <3>1
  <2>2. CASE Forwarded("Local") /\ l.job.to = "peer"
    <3>1. l.job = J /\ l.handler = <<>> /\ l.peer = <<>>
      BY <1>2, <1>3, <2>2
    <3>2. /\ l'.handler = <<>> /\ l'.job = NoJob /\ l'.peer = P /\ l'.out = l.out
          /\ l'.sender = l.sender
      BY <1>3, <1>4, <2>2, <3>1 DEF Forwarded, Becomes, SameTasks
    <3>3. QED
      BY <1>1, <1>2, <1>3, <3>1, <3>2
  <2>3. l.job.to # "chan" /\ (l.job.to = "peer" => l.sender = "run")
    BY <1>2, <1>3
  <2>4. QED
    BY <1>3, <1>6, <2>1, <2>2, <2>3 DEF RouterMove, TakesFrame
<1>7. CASE SenderMove("Local")
  <2>1. CASE Taken("Local") /\ l.peer # <<>>
    <3>1. /\ l'.handler = l.handler /\ l'.job = l.job /\ l'.peer = <<>> /\ l'.sender = l.sender
      BY <1>2, <1>4, <2>1 DEF Taken, Becomes, SameTasks
    <3>2. QED
      BY <1>1, <1>2, <2>1, <3>1
  <2>2. CASE Written("Local")
    <3>1. /\ l'.handler = l.handler /\ l'.job = l.job /\ l'.peer = l.peer /\ l'.out = None
          /\ l'.sender = l.sender
      BY <2>2 DEF Written, Becomes, SameTasks
    <3>2. QED
      BY <1>1, <1>2, <3>1
  <2>3. CASE SenderEnded("Local", "failed") /\ l.out # None
    <3>1. /\ l'.handler = l.handler /\ l'.job = l.job /\ l'.peer = <<>> /\ l'.out = None
      BY <2>3 DEF SenderEnded, Becomes
    <3>2. QED
      BY <1>1, <1>2, <2>3, <3>1
  <2>4. QED
    BY <1>2, <1>7, <2>1, <2>2, <2>3 DEF SenderMove, Open
<1>8. ~ReceiverMove("Local")
  BY OpeningFacts, Sides DEF ReceiverMove
<1>9. CASE RouterMove("Remote") \/ SenderMove("Remote") \/ ReceiverMove("Remote")
  <2>1. /\ l'.handler = l.handler /\ l'.job = l.job /\ l'.peer = l.peer /\ l'.out = l.out
        /\ l'.sender = l.sender
    BY <1>9, Sides DEF RouterMove, Popped, PoppedFor, Delivered, Forwarded, Ended, SenderMove,
       Taken, Written, SenderEnded, ReceiverMove, Received, Pushed, Dropped, Still, Becomes,
       SameTasks
  <2>2. QED
    BY <1>5, <2>1
<1>10. ASSUME NEW s \in Side, NEW c, Sent(s, c), Enqueued(s, c) PROVE Goal
  <2>1. CASE s = "Local"
    <3>1. login.at = "setenv" /\ c = Send(SetEnvFrame) /\ login'.at # "setenv"
      BY <1>1, <1>10, <2>1 DEF Sent, Start
    <3>2. /\ l'.handler = E /\ l'.job = l.job /\ l'.peer = l.peer /\ l'.out = l.out
          /\ l'.sender = l.sender
      BY <1>2, <1>4, <1>10, <2>1, <3>1 DEF Enqueued, Becomes, SameTasks
    <3>3. QED
      BY <1>2, <3>1, <3>2
  <2>2. CASE s = "Remote"
    <3>1. /\ l'.handler = l.handler /\ l'.job = l.job /\ l'.peer = l.peer /\ l'.out = l.out
          /\ l'.sender = l.sender
      BY <1>10, <2>2, Sides DEF Enqueued, Still, Becomes, SameTasks
    <3>2. QED
      BY <1>5, <3>1
  <2>3. QED
    BY <2>1, <2>2, Sides
<1>11. CASE Quiet \/ Cut("Local")
  <2>1. /\ l'.handler = l.handler /\ l'.job = l.job /\ l'.peer = l.peer /\ l'.out = l.out
        /\ l'.sender = l.sender
    BY <1>11 DEF Quiet, Cut, Still, Becomes, SameTasks
  <2>2. QED
    BY <1>5, <2>1
<1>12. QED
  BY <1>6, <1>7, <1>8, <1>9, <1>10, <1>11, NetMoves, Sides DEF NetMove

\* Nothing but SetEnv happens until a command is chosen.
LEMMA OpeningStep ==
  ASSUME TypeOK, Inv, Next
  PROVE  Opening'
<1> DEFINE l == net["Local"]
<1> SUFFICES ASSUME login'.at \in Start
             PROVE  /\ l'.router = "run" /\ login'.notifier = "none"
                    /\ winch'.st = "none" /\ winch'.hold = None
                    /\ ends'["Local"].sink = "none" /\ ends'["Local"].source = "none"
                    /\ ends'["Local"].data = None
  BY OpeningQueues DEF Opening, Start
<1>1. login.at \in Start /\ ~Exited
  BY OpeningFacts
<1>2. /\ l.router = "run" /\ login.notifier = "none" /\ winch.st = "none" /\ winch.hold = None
      /\ ends["Local"].sink = "none" /\ ends["Local"].source = "none"
      /\ ends["Local"].data = None
      /\ l.handler \in {<<>>, <<Send(SetEnvFrame)>>}
      /\ l.job \in {NoJob, [to |-> "peer", f |-> SetEnvFrame]}
      /\ l.job # NoJob => l.sender = "run"
  BY <1>1 DEF Inv, Opening, Start
<1>3. l'.router = "run"
  <2>1. ~RouterExit("Local")
    BY <1>1, FrameTaken, Sides DEF RouterExit, Start
  <2>2. ~RouterFail("Local")
    BY <1>2 DEF RouterFail, NoJob
  <2>3. QED
    BY <1>2, <2>1, <2>2, RouterEnding, Sides
<1>4. login'.notifier = "none"
  BY <1>1, <1>2, StartSteps
<1>5. winch'.st = "none" /\ winch'.hold = None
  <2>1. ~MainRegister
    BY DEF MainRegister, TypeOK, LoginOK, Entered, Start
  <2>2. QED
    BY <1>2, <2>1, WinchSteps
<1>6. /\ ends'["Local"].sink = "none" /\ ends'["Local"].source = "none"
      /\ ends'["Local"].data = None
  <2>1. Takes("Local") => Cmd("Local").k = "Send"
    BY <1>2 DEF Takes, Cmd, Send
  <2>2. QED
    BY <1>2, <2>1, EndsSteps, Sides DEF SourceCmd, SinkCmd
<1>7. QED
  BY <1>3, <1>4, <1>5, <1>6

-----------------------------------------------------------------------------
(* SetEnv comes first.                                                      *)

\* A connection that broke and a process that exited stay that way.
LEMMA GoneStaysGone ==
  ASSUME TypeOK, Next
  PROVE  /\ ~up.link => ~up'.link
         /\ ReaderGone("Remote") => ReaderGone("Remote")'
<1> DEFINE G == /\ ~up.link => ~up'.link
                /\ ~Alive("Remote") => ~Alive("Remote")'
<1>1. UpOK
  BY DEF TypeOK
<1>2. ASSUME up' = up PROVE G
  BY <1>2 DEF Alive
<1>3. ASSUME LinkDown PROVE G
  BY <1>1, <1>3 DEF LinkDown, Alive, UpOK
<1>4. ASSUME NEW s \in Side, Exits(s) PROVE G
  BY <1>1, <1>4, Sides DEF Exits, Alive, UpOK
<1>5. ASSUME NEW s \in Side, Router(s) \/ Sender(s) \/ Receiver(s) \/ Source(s) \/ Sink(s)
      PROVE  up' = up
  BY <1>5 DEF Router, RouterSetEnv, RouterSpawn, RouterLookup, RouterProcessExit, RouterExit,
     RouterSend, RouterSource, RouterSink, RouterDeliver, RouterForward, RouterFail, Sender,
     SenderTake, SenderWrite, SenderFail, SenderDone, Receiver, ReceiverRead, ReceiverEof,
     ReceiverPush, ReceiverFail, Source, SourcePush, SourceFail, Sink, SinkFail, SinkResize,
     SinkShutdown, SinkTakes
<1>6. ASSUME Winch \/ Proc PROVE up' = up
  BY <1>6 DEF Winch, WinchStart, WinchTake, WinchPush, WinchFail, Proc, ProcSpawn,
     ProcSpawnFail, ProcSink, ProcSource, ProcReap, ProcExit, ProcFail
<1>7. ASSUME Env \/ ChildReader \/ Writer, ~LinkDown, ~Abort PROVE up' = up
  BY <1>7 DEF Env, ReadStdin, ReadEnd, Reads, Resize, ChildIO, ChildGoes, StderrFail,
     ChildReader, ReadChild, ReadFail, Writer, WriteStdout, WriteChild, SinkTakes
<1>8. Abort \/ Shutdown => \E s \in Side : Exits(s)
  BY Sides DEF Abort, Shutdown, RemoteShutdown, LocalShutdown
<1>9. Main => up' = up
  BY <1>1, LocalEnding
<1>10. G
  BY <1>2, <1>3, <1>4, <1>5, <1>6, <1>7, <1>8, <1>9 DEF Next
<1>11. QED
  BY <1>10 DEF ReaderGone, EndGone

\* On every queue it passes SetEnv stays ahead of all else.
LEMMA EnvNextStep ==
  ASSUME TypeOK, Inv, Next, ~remote'.env
  PROVE  EnvNext'
<1> DEFINE l == net["Local"]
           r == net["Remote"]
           gone == ReaderGone("Remote")
           E == Send(SetEnvFrame)
           In == r'.handler = <<>> /\ r'.in = None
           Wire == In /\ l'.wire = <<>> /\ ~gone'
           Peer == Wire /\ l'.out = None /\ l'.peer = <<>> /\ l'.sender = "run"
           Job == Peer /\ l'.job.to # "peer" /\ l'.router = "run"
           G1 == r'.handler # <<>> => Head(r'.handler).f.t = "SetEnv"
           G2 == r'.handler = <<>> /\ r'.in # None => r'.in.t = "SetEnv"
           G3 == In /\ l'.wire # <<>> => Head(l'.wire).t = "SetEnv"
           G4 == Wire /\ l'.out # None => l'.out.t = "SetEnv"
           G5 == Wire /\ l'.out = None /\ l'.peer # <<>> => Head(l'.peer).t = "SetEnv"
           G6 == Peer /\ l'.job.to = "peer" => l'.job.f.t = "SetEnv"
           G7 == Job /\ l'.handler # <<>> => Head(l'.handler) = E
           G8 == Job /\ l'.handler = <<>> => login'.at = "setenv"
           Goal == G1 /\ G2 /\ G3 /\ G4 /\ G5 /\ G6 /\ G7 /\ G8
<1> SUFFICES Goal
  BY DEF EnvNext, RouterClear, SenderClear, WireClear, InClear, Open
<1>1. ~remote.env /\ remote.proc = "none" /\ EnvNext
  BY Progress DEF Inv, EnvFirst
<1>2. /\ r.router = "run" /\ r.handler \in Seq(Downward("Remote")) /\ r.job = NoJob
      /\ r.wire = <<>> /\ l.in = None
  BY <1>1 DEF Inv, Silent
<1>3. /\ r.handler # <<>> => Head(r.handler).f.t = "SetEnv"
      /\ r.handler = <<>> /\ r.in # None => r.in.t = "SetEnv"
      /\ r.handler = <<>> /\ r.in = None /\ l.wire # <<>> => Head(l.wire).t = "SetEnv"
  BY <1>1 DEF EnvNext, InClear
<1> DEFINE WireU == r.handler = <<>> /\ r.in = None /\ l.wire = <<>> /\ ~gone
           PeerU == WireU /\ l.out = None /\ l.peer = <<>> /\ l.sender = "run"
           JobU == PeerU /\ l.job.to # "peer" /\ l.router = "run"
<1>4. /\ WireU /\ l.out # None => l.out.t = "SetEnv"
      /\ WireU /\ l.out = None /\ l.peer # <<>> => Head(l.peer).t = "SetEnv"
      /\ PeerU /\ l.job.to = "peer" => l.job.f.t = "SetEnv"
      /\ JobU /\ l.handler # <<>> => Head(l.handler) = E
      /\ JobU /\ l.handler = <<>> => login.at = "setenv"
  BY <1>1 DEF EnvNext, InClear, WireClear, SenderClear, RouterClear, Open
<1>5. gone => gone'
  BY GoneStaysGone
<1>6. /\ None.t = "None" /\ E.k = "Send" /\ E.f.t = "SetEnv" /\ E.f = SetEnvFrame
      /\ NoJob.to = "none"
  BY DEF None, F, Send, SetEnvFrame, NoJob
<1>7. \A q \in {r.handler, l.handler, l.peer, l.wire} : \A x :
          /\ Append(q, x) # <<>>
          /\ q # <<>> => Head(Append(q, x)) = Head(q)
          /\ q = <<>> => Head(Append(q, x)) = x
  <2>1. SUFFICES ASSUME NEW q \in {r.handler, l.handler, l.peer, l.wire}, NEW x
                 PROVE  /\ Append(q, x) # <<>>
                        /\ q # <<>> => Head(Append(q, x)) = Head(q)
                        /\ q = <<>> => Head(Append(q, x)) = x
    OBVIOUS
  <2>2. \E S : q \in Seq(S)
    BY Sides DEF Inv, TrafficInv, Traffic
  <2>3. PICK S : q \in Seq(S)
    BY <2>2
  <2>4. QED
    BY <2>3
<1>8. CASE MainSetEnv
  <2>1. Enqueued("Local", E)
    BY <1>8, SendsEffect, Sides DEF MainSetEnv, MainSends, TypeOK, SetEnvFrame
  <2>2. /\ l'.handler = Append(l.handler, E) /\ l'.job = l.job /\ l'.peer = l.peer
        /\ l'.out = l.out /\ l'.wire = l.wire /\ l'.sender = l.sender /\ l'.router = l.router
        /\ r'.handler = r.handler /\ r'.in = r.in
    BY <2>1, Sides DEF Enqueued, Still, Becomes, SameTasks
  <2>3. QED
    BY <1>3, <1>4, <1>5, <1>7, <2>2
<1>9. CASE ~MainSetEnv
  <2>0. login.at = "setenv" => login'.at = "setenv"
    BY <1>9, StartSteps
  \* Nothing on the way is touched.
  <2>1. ASSUME /\ l'.handler = l.handler /\ l'.job = l.job /\ l'.peer = l.peer
               /\ l'.out = l.out /\ l'.wire = l.wire /\ l'.sender = l.sender
               /\ l'.router = l.router
               /\ r'.handler = r.handler /\ r'.in = r.in
        PROVE  Goal
    BY <1>3, <1>4, <1>5, <2>0, <2>1
  <2>2. ~RouterMove("Remote")
    <3>1. Takes("Remote") => Cmd("Remote").f.t = "SetEnv" /\ Cmd("Remote").k = "Recv"
      <4>1. Takes("Remote") => Cmd("Remote") \in Downward("Remote")
        BY <1>2, QueueEnds DEF Takes, Cmd
      <4>2. QED
        BY <1>3, <4>1 DEF Takes, Cmd, Downward, Recv
    <3>2. QED
      BY <1>2, <1>6, <3>1 DEF RouterMove, TakesFrame, ChannelData
  <2>3. CASE RouterMove("Local")
    <3>0. /\ l'.out = l.out /\ l'.wire = l.wire /\ l'.sender = l.sender
          /\ r'.handler = r.handler /\ r'.in = r.in
      BY <2>3, Sides DEF RouterMove, Popped, PoppedFor, Delivered, Forwarded, Ended, Still,
         Becomes, SameTasks
    <3>1. Takes("Local") => /\ l.job = NoJob /\ l.router = "run" /\ l.handler # <<>>
                            /\ Cmd("Local") = Head(l.handler)
      BY DEF Takes, Open, Cmd
    <3>2. CASE /\ Takes("Local") /\ Cmd("Local").k # "Send"
               /\ Popped("Local") \/ PoppedFor("Local", "chan")
      <4>1. ~JobU
        BY <1>4, <1>6, <3>1, <3>2
      <4>2. /\ l'.peer = l.peer /\ l'.router = l.router
            /\ l'.job = l.job \/ l'.job.to = "chan"
        BY <3>2 DEF Popped, PoppedFor, Becomes, SameTasks
      <4>3. QED
        BY <1>3, <1>4, <1>5, <1>6, <3>0, <3>1, <3>2, <4>1, <4>2
    <3>3. CASE Takes("Local") /\ PoppedFor("Local", "peer")
      <4>1. /\ l'.peer = l.peer /\ l'.router = l.router
            /\ l'.job.to = "peer" /\ l'.job.f = Head(l.handler).f
        BY <3>1, <3>3 DEF PoppedFor, Becomes, SameTasks
      <4>2. PeerU => Head(l.handler) = E
        BY <1>4, <1>6, <3>1, <3>3
      <4>3. QED
        BY <1>3, <1>4, <1>5, <1>6, <3>0, <4>1, <4>2
    <3>4. CASE Delivered("Local") /\ l.job.to = "chan"
      <4>1. /\ l'.handler = l.handler /\ l'.peer = l.peer /\ l'.router = l.router
            /\ l'.job = NoJob
        BY <3>4 DEF Delivered, Becomes, SameTasks
      <4>2. QED
        BY <1>3, <1>4, <1>5, <1>6, <2>0, <3>0, <3>4, <4>1
    <3>5. CASE Forwarded("Local") /\ l.job.to = "peer" /\ l.sender = "run"
      <4>1. l'.peer = Append(l.peer, l.job.f) /\ l'.job = NoJob
        BY <3>5 DEF Forwarded, Becomes
      <4>2. QED
        BY <1>3, <1>4, <1>5, <1>6, <1>7, <3>0, <3>5, <4>1
    <3>6. ASSUME NEW how \in {"done", "failed"}, Ended("Local", how) PROVE Goal
      <4>1. l'.router # "run" /\ l'.job = NoJob /\ l'.peer = l.peer
        BY <3>6 DEF Ended, Becomes
      <4>2. QED
        BY <1>3, <1>4, <1>5, <1>6, <3>0, <4>1
    <3>7. QED
      BY <2>3, <3>2, <3>3, <3>4, <3>5, <3>6 DEF RouterMove
  <2>4. CASE SenderMove("Remote")
    <3>1. Still("Local") /\ r'.handler = r.handler /\ r'.in = r.in
      BY <2>4, Sides DEF SenderMove, Taken, Written, SenderEnded, Becomes
    <3>2. QED
      BY <2>1, <3>1 DEF Still, Becomes, SameTasks
  <2>5. CASE SenderMove("Local")
    <3>0. /\ l'.handler = l.handler /\ l'.job = l.job /\ l'.router = l.router
          /\ r'.handler = r.handler /\ r'.in = r.in
      BY <2>5, Sides DEF SenderMove, Taken, Written, SenderEnded, Still, Becomes, SameTasks
    <3>1. CASE Taken("Local") /\ l.out = None /\ l.peer # <<>>
      <4>1. l'.out = Head(l.peer) /\ l'.wire = l.wire
        BY <3>1 DEF Taken, Becomes
      <4>2. QED
        BY <1>3, <1>4, <1>5, <1>6, <3>0, <3>1, <4>1
    <3>2. CASE Written("Local") /\ l.out # None
      <4>1. l'.out = None /\ l'.wire = IF gone THEN l.wire ELSE Append(l.wire, l.out)
        BY <3>2, Sides DEF Written, Becomes
      <4>2. CASE gone
        BY <1>3, <1>5, <3>0, <4>1, <4>2
      <4>3. CASE ~gone
        BY <1>3, <1>4, <1>7, <3>0, <3>2, <4>1, <4>3
      <4>4. QED
        BY <4>2, <4>3
    <3>3. CASE SenderEnded("Local", "failed") /\ gone
      <4>1. l'.wire = l.wire
        BY <3>3 DEF SenderEnded, Becomes
      <4>2. QED
        BY <1>3, <1>5, <3>0, <3>3, <4>1
    <3>4. CASE SenderEnded("Local", "done")
      <4>1. l'.wire = l.wire /\ l'.out = None /\ l'.peer = <<>> /\ l'.sender = "done"
        BY <3>4 DEF SenderEnded, Becomes
      <4>2. QED
        BY <1>3, <3>0, <4>1
    <3>5. QED
      BY <2>5, <3>1, <3>2, <3>3, <3>4, Sides DEF SenderMove
  <2>6. CASE ReceiverMove("Remote")
    <3>1. CASE Received("Remote", "Local") /\ l.wire # <<>> /\ r.in = None
      <4>1. r'.in = Head(l.wire) /\ r'.handler = r.handler
        BY <3>1 DEF Received, Becomes
      <4>2. QED
        BY <1>3, <1>6, <3>1, <4>1
    <3>2. CASE Pushed("Remote") /\ r.in # None
      <4>1. r'.in = None /\ r'.handler = Append(r.handler, Recv(r.in))
        BY <3>2 DEF Pushed, Becomes
      <4>2. Recv(r.in).f = r.in
        BY DEF Recv
      <4>3. QED
        BY <1>3, <1>7, <3>2, <4>1, <4>2
    <3>3. QED
      BY <1>2, <2>6, <3>1, <3>2, Sides DEF ReceiverMove, Open
  <2>7. ~ReceiverMove("Local")
    BY <1>2, Sides DEF ReceiverMove
  <2>8. ASSUME NEW s \in Side, NEW c, Sent(s, c), Enqueued(s, c) PROVE Goal
    <3>1. s = "Local" /\ login.at # "setenv"
      BY <1>1, <2>0, <2>8, Sides DEF Sent, Start
    <3>2. /\ l'.handler = Append(l.handler, c) /\ l'.job = l.job /\ l'.peer = l.peer
          /\ l'.out = l.out /\ l'.wire = l.wire /\ l'.sender = l.sender /\ l'.router = l.router
          /\ r'.handler = r.handler /\ r'.in = r.in
      BY <2>8, <3>1, Sides DEF Enqueued, Still, Becomes, SameTasks
    <3>3. QED
      BY <1>3, <1>4, <1>5, <1>7, <3>1, <3>2
  <2>9. CASE Cut("Local") /\ Cut("Remote") /\ ~up'.link
    <3>1. gone' /\ r'.handler = r.handler /\ r'.in = r.in /\ l'.wire \in {l.wire, <<>>}
      BY <2>9 DEF Cut, Becomes, ReaderGone, EndGone
    <3>2. QED
      BY <1>3, <3>1
  <2>10. CASE Quiet
    BY <2>1, <2>10 DEF Quiet, Still, Becomes, SameTasks
  <2>11. QED
    BY <2>2, <2>3, <2>4, <2>5, <2>6, <2>7, <2>8, <2>9, <2>10, NetMoves, Sides DEF NetMove
<1>10. QED
  BY <1>8, <1>9

\* Spawn is not taken before SetEnv.
LEMMA EnvFirstStep ==
  ASSUME TypeOK, Inv, Next
  PROVE  EnvFirst'
<1> SUFFICES ASSUME ~remote'.env PROVE remote'.proc = "none"
  BY EnvNextStep DEF EnvFirst
<1>1. remote.proc = "none" /\ EnvNext
  BY Progress DEF Inv, EnvFirst
<1>2. ~RouterSpawn("Remote")
  BY <1>1 DEF EnvNext, RouterSpawn, TakesFrame, Takes, Cmd
<1>3. QED
  BY <1>1, <1>2, SpawnSteps

-----------------------------------------------------------------------------
(* The invariant holds.                                                     *)

\* It holds of the first state, where nothing has been sent.
LEMMA InitInv == Init => Inv
<1> SUFFICES ASSUME Init PROVE Inv
  OBVIOUS
<1> USE DEF Init
<1>1. /\ \A s \in Side : /\ net[s].handler = <<>> /\ net[s].peer = <<>> /\ net[s].wire = <<>>
                         /\ net[s].job = NoJob /\ net[s].out = None /\ net[s].in = None
                         /\ net[s].router = "run" /\ net[s].sender = "run"
      /\ \A s \in Side : /\ ends[s].sink = "none" /\ ends[s].source = "none"
                         /\ ends[s].data = None
  OBVIOUS
<1>2. /\ login.at = "setenv" /\ login.notifier = "none" /\ login.term = "ok"
      /\ ~login.raw /\ ~login.orig
      /\ remote.proc = "none" /\ remote.child = "none" /\ ~remote.env
      /\ winch.hold = None /\ winch.st = "none" /\ Alive("Local")
  BY DEF Alive, Side
<1>3. TrafficInv
  <2>1. Origins
    BY <1>1, <1>2 DEF Origins
  <2>2. ASSUME NEW s \in Side PROVE Traffic(s)
    <3>1. \A S : <<>> \in Seq(S)
      BY EmptySeq
    <3>2. NoJob \in Jobs(s)
      BY DEF Jobs
    <3>3. QED
      BY <1>1, <3>1, <3>2 DEF Traffic
  <2>3. QED
    BY <2>1, <2>2 DEF TrafficInv
<1>4. Silent
  <2>1. <<>> \in Seq(Downward("Remote")) /\ <<>> \in Seq(Upward("Local"))
    BY EmptySeq
  <2>2. QED
    BY <1>1, <1>2, <2>1, Sides DEF Silent
<1>5. ExitInv
  BY <1>1, <1>2, Sides DEF ExitInv, LogoutAfterChild
<1>6. SpawnOnce
  <2>1. /\ ~HoldsCmd(net["Local"].handler) /\ ~HoldsCmd(net["Remote"].handler)
        /\ ~Holds(net["Local"].peer) /\ ~Holds(net["Local"].wire)
        /\ ~TwiceCmd(net["Local"].handler) /\ ~TwiceCmd(net["Remote"].handler)
        /\ ~Twice(net["Local"].peer) /\ ~Twice(net["Local"].wire)
    BY <1>1, Sides DEF Holds, HoldsCmd, Twice, TwiceCmd
  <2>2. None.t # "Spawn" /\ NoJob.to # "peer"
    BY DEF None, F, NoJob
  <2>3. QED
    BY <1>1, <1>2, <2>1, <2>2, Sides DEF SpawnOnce, One
<1>7. Opening
  BY <1>1, <1>2, Sides DEF Opening
<1>8. RawInv
  BY <1>2 DEF RawInv, TerminalRestored
<1>9. EnvFirst
  BY <1>1, <1>2, Sides
  DEF EnvFirst, EnvNext, RouterClear, SenderClear, WireClear, InClear, NoJob
<1>10. QED
  BY <1>3, <1>4, <1>5, <1>6, <1>7, <1>8, <1>9 DEF Inv

\* A step that changes nothing.
LEMMA StutterInv == ASSUME Inv, UNCHANGED vars PROVE Inv'
<1> USE DEF vars
<1>1. Exited' = Exited /\ Leaving' = Leaving /\ \A s \in Side : Kinds(s)' = Kinds(s)
  BY DEF Exited, Leaving, Kinds
<1>2. \A s \in Side : Frames(s)' = Frames(s) /\ Frames(Other(s))' = Frames(Other(s))
  BY <1>1, Sides DEF Frames
<1>3. OwnExit' = OwnExit
  BY DEF OwnExit
<1>4. \A s \in Side : /\ Upward(s)' = Upward(s) /\ Downward(s)' = Downward(s)
                      /\ Commands(s)' = Commands(s) /\ Jobs(s)' = Jobs(s)
  BY <1>2, <1>3 DEF Upward, Downward, Commands, Jobs
<1>5. TrafficInv'
  BY <1>2, <1>4 DEF Inv, TrafficInv, Origins, Traffic
<1>6. Silent'
  BY <1>4, Sides DEF Inv, Silent
<1>7. ExitInv'
  BY DEF Inv, ExitInv, LogoutAfterChild, Exited, Leaving
<1>8. SpawnOnce'
  <2>1. /\ HoldsCmd(net["Local"].handler)' <=> HoldsCmd(net["Local"].handler)
        /\ HoldsCmd(net["Remote"].handler)' <=> HoldsCmd(net["Remote"].handler)
    BY DEF HoldsCmd
  <2>2. /\ Holds(net["Local"].peer)' <=> Holds(net["Local"].peer)
        /\ Holds(net["Local"].wire)' <=> Holds(net["Local"].wire)
    BY DEF Holds
  <2>3. /\ TwiceCmd(net["Local"].handler)' <=> TwiceCmd(net["Local"].handler)
        /\ TwiceCmd(net["Remote"].handler)' <=> TwiceCmd(net["Remote"].handler)
    BY DEF TwiceCmd
  <2>4. /\ Twice(net["Local"].peer)' <=> Twice(net["Local"].peer)
        /\ Twice(net["Local"].wire)' <=> Twice(net["Local"].wire)
    BY DEF Twice
  <2>5. QED
    BY <2>1, <2>2, <2>3, <2>4 DEF Inv, SpawnOnce, BeforeSpawn
<1>9. Opening'
  BY DEF Inv, Opening
<1>10. RawInv'
  BY DEF Inv, RawInv, TerminalRestored, Alive, Open
<1>11. EnvFirst'
  BY DEF Inv, EnvFirst, EnvNext, RouterClear, SenderClear, WireClear, InClear, ReaderGone,
     EndGone, Open, Alive
<1>12. QED
  BY <1>5, <1>6, <1>7, <1>8, <1>9, <1>10, <1>11 DEF Inv

\* Every reachable state of the session satisfies the invariant.
THEOREM SessionInvariant == Spec => []Inv
<1>1. ASSUME TypeOK, Inv, [Next]_vars PROVE Inv'
  <2>1. CASE Next
    BY <1>1, <2>1, TrafficStep, SilentStep, ExitStep, SpawnOnceStep, OpeningStep, RawStep,
       EnvFirstStep DEF Inv
  <2>2. CASE UNCHANGED vars
    BY <1>1, <2>2, StutterInv
  <2>3. QED
    BY <1>1, <2>1, <2>2
<1>2. QED
  BY <1>1, InitInv, SessionTypes, PTL DEF Spec

-----------------------------------------------------------------------------
(* What it shows.                                                           *)

\* The child runs only in a process that has applied the SetEnv of login::run:
\* whatever the capacities and the faults, the two commands keep their order across
\* six queues.
THEOREM SessionEnvBeforeSpawn == Spec => []EnvBeforeSpawn
<1>1. Inv => EnvBeforeSpawn
  BY DEF Inv, EnvFirst, Silent, EnvBeforeSpawn
<1>2. QED
  BY <1>1, SessionInvariant, PTL

\* Nobody logs out or is told to exit before the child has exited.
THEOREM SessionLogoutAfterChild == Spec => []LogoutAfterChild
<1>1. Inv => LogoutAfterChild
  BY DEF Inv, ExitInv
<1>2. QED
  BY <1>1, SessionInvariant, PTL

\* The terminal is out of raw mode once login::run has returned or its process is
\* gone, whichever task panicked and wherever run stood, unless writing the attributes
\* back failed or run returned for want of the window size (login.rs:206).
THEOREM SessionTerminalRestored == Spec => []TerminalRestored
<1>1. Inv => TerminalRestored
  BY DEF Inv, RawInv
<1>2. QED
  BY <1>1, SessionInvariant, PTL

\* `login -N` neither logs out nor fails: its router has nothing it could fail on.
THEOREM SessionStaysWithoutCommand == Spec => []StaysWithoutCommand
<1>1. Init => StaysWithoutCommand
  BY DEF Init, StaysWithoutCommand
<1>2. ASSUME TypeOK, Inv, StaysWithoutCommand, [Next]_vars PROVE StaysWithoutCommand'
  <2>1. CASE UNCHANGED vars
    BY <1>2, <2>1 DEF vars, StaysWithoutCommand
  <2> SUFFICES ASSUME Next, login'.scene.command = "none" PROVE login'.at \in {"setenv", "await"}
    BY <1>2, <2>1 DEF StaysWithoutCommand
  <2>2. /\ LoginOK /\ login.scene.command = "none" /\ login.at \in {"setenv", "await"}
        /\ Open("Local")
    <3>1. login.scene.command = "none"
      BY <1>2, Progress
    <3>2. login.at \in {"setenv", "await"}
      BY <1>2, <3>1 DEF StaysWithoutCommand
    <3>3. QED
      BY <1>2, <3>1, <3>2 DEF Inv, Opening, Open, TypeOK
  <2>3. CASE Main
    <3>1. MainSetEnv
      BY <2>2, <2>3 DEF Main, MainSends, MainAt, MainRegister, MainEnterFail, MainSize,
         MainSizeFail, MainSink, MainSpawn, MainSource, MainStatus, MainExitPeer, MainExitSelf,
         MainDone, MainFail, SendFails
    <3>2. QED
      BY <2>2, <3>1 DEF MainSetEnv, MainSends, MainTo, AfterSetEnv, LoginOK
  <2>4. CASE \E s \in Side : RouterProcessExit(s)
    BY <2>2, <2>4 DEF RouterProcessExit, LoginOK
  <2>5. CASE PanicHook("Local")
    BY <2>2, <2>5 DEF PanicHook, Left, LoginOK
  <2>6. QED
    BY <2>2, <2>3, <2>4, <2>5, LoginSteps
<1>3. QED
  BY <1>1, <1>2, SessionTypes, SessionInvariant, PTL DEF Spec

\* What has broken stays broken.
LEMMA StaysBroken ==
  ASSUME TypeOK, Inv, Next, Broken
  PROVE  Broken'
<1>1. LoginOK /\ UpOK /\ NetOK
  BY DEF TypeOK
<1>2. CASE ~up.link
  BY <1>1, <1>2, GoneStaysGone DEF Broken, Lost
<1>3. ASSUME NEW s \in Side, net[s].router = "failed" PROVE Broken'
  <2>1. ~RouterExit(s)
    BY <1>3 DEF RouterExit, TakesFrame, Takes, Open
  <2>2. net'[s].router = "failed"
    BY <1>3, <2>1, RouterEnding
  <2>3. QED
    BY <1>3, <2>2 DEF Broken, Lost
<1>4. ASSUME NEW s \in Side, net[s].sender = "failed" PROVE Broken'
  <2>1. net'[s].sender = "failed"
    <3>1. ASSUME NEW o \in Side, RouterMove(o) \/ SenderMove(o) \/ ReceiverMove(o)
          PROVE  net'[s].sender = "failed"
      <4>1. net'[o].sender = net[o].sender \/ net[o].sender = "run"
        BY <3>1 DEF RouterMove, Popped, PoppedFor, Delivered, Forwarded, Ended, SenderMove,
           ReceiverMove, Received, Pushed, Dropped, SameTasks
      <4>2. net'[Other(o)].sender = net[Other(o)].sender
        BY <3>1, Sides DEF RouterMove, Popped, PoppedFor, Delivered, Forwarded, Ended, SenderMove,
           Taken, Written, SenderEnded, ReceiverMove, Received, Pushed, Dropped, Still, SameTasks
      <4>3. QED
        BY <1>4, <4>1, <4>2, Sides
    <3>2. QED
      BY <1>4, <3>1, NetMoves, Sides DEF NetMove, Quiet, Enqueued, Cut, Still, SameTasks
  <2>2. QED
    BY <2>1 DEF Broken, Lost
<1>5. ASSUME login.term # "ok" PROVE Broken'
  <2>1. login'.term # "ok"
    <3>1. CASE Main
      BY <1>1, <1>5, <3>1 DEF Main, MainSends, MainTo, MainSetEnv, MainRegister,
         MainEnterFail, MainSize, MainSizeFail, MainSink, MainSpawn, MainSource, MainStatus,
         MainExitPeer, MainExitSelf, MainDone, MainFail, Entered, Left, LoginOK
    <3>2. CASE \E s \in Side : RouterProcessExit(s)
      BY <1>1, <1>5, <3>2 DEF RouterProcessExit, LoginOK
    <3>3. CASE PanicHook("Local")
      BY <1>1, <1>5, <3>3 DEF PanicHook, Left, LoginOK
    <3>4. QED
      BY <1>5, <3>1, <3>2, <3>3, LoginSteps
  <2>2. QED
    BY <2>1 DEF Broken, Lost
<1>6. QED
  BY <1>2, <1>3, <1>4, <1>5 DEF Broken, Lost

\* login::run returns an error only when a router or a sender panicked, the connection
\* is gone or a call on the terminal failed: its own router is there for both Exit commands.
THEOREM SessionCleanLogout == Spec => []CleanLogout
<1>1. Init => CleanLogout
  BY DEF Init, CleanLogout
<1>2. ASSUME TypeOK, Inv, CleanLogout, [Next]_vars PROVE CleanLogout'
  <2>1. CASE UNCHANGED vars
    BY <1>2, <2>1 DEF vars, CleanLogout, Broken, Lost
  <2> SUFFICES ASSUME Next, login'.at = "err" PROVE Broken'
    BY <1>2, <2>1 DEF CleanLogout
  <2>2. LoginOK /\ NetOK
    BY <1>2 DEF TypeOK
  <2>3. CASE login.at = "err"
    BY <1>2, <2>3, StaysBroken DEF CleanLogout
  <2>4. CASE login.at # "err"
    <3>1. MainEnterFail \/ MainSizeFail \/ MainStatus \/ MainFail
      <4>1. CASE Main
        BY <2>2, <2>4, <4>1 DEF Main, MainSends, MainTo, MainSetEnv, AfterSetEnv, MainRegister,
           MainSize, MainSink, MainSpawn, MainSource, MainExitPeer, MainExitSelf, MainDone,
           Entered, LoginOK
      <4>2. ~ \E s \in Side : RouterProcessExit(s)
        BY <2>2, <2>4 DEF RouterProcessExit, LoginOK
      <4>3. ~PanicHook("Local")
        BY <2>2, <2>4 DEF PanicHook, Left, LoginOK
      <4>4. QED
        BY <2>4, <4>1, <4>2, <4>3, LoginSteps
    <3>2. CASE MainEnterFail \/ MainSizeFail \/ MainStatus
      <4>1. login'.term # "ok"
        BY <2>2, <3>2 DEF MainEnterFail, MainSizeFail, MainStatus, Left, LoginOK
      <4>2. QED
        BY <4>1 DEF Broken, Lost
    <3>3. CASE MainFail
      <4>1. net["Local"].router \in TaskState \ {"run", "done"}
        BY <1>2, <2>2, <3>3, Sides
        DEF MainFail, SendFails, Open, Inv, ExitInv, NetOK, NetType, NetRecord
      <4>2. Broken
        BY <4>1, Sides DEF Broken, Lost, TaskState
      <4>3. QED
        BY <1>2, <4>2, StaysBroken
    <3>4. QED
      BY <3>1, <3>2, <3>3
  <2>5. QED
    BY <2>3, <2>4
<1>3. QED
  BY <1>1, <1>2, SessionTypes, SessionInvariant, PTL DEF Spec

-----------------------------------------------------------------------------
(* The session implements RemoteRun.                                        *)

\* What the promise sees of the command, of login::run and of what has failed.
CommandStays == remote'.env = remote.env /\ Child' = Child
LoginStays == Phase' = Phase /\ Reported' = Reported
ServerStays == up'.alive["Remote"] = up.alive["Remote"]

LEMMA RunTypes == /\ Broken \in BOOLEAN /\ Broken' \in BOOLEAN
<1> QED BY DEF Broken, Lost

\* What has failed depends on the connection, two tasks on each side and the terminal.
LEMMA BrokenStays ==
  ASSUME up'.link = up.link, login'.term = login.term,
         \A s \in Side : net'[s].router = net[s].router /\ net'[s].sender = net[s].sender
  PROVE  Broken' = Broken
<1>1. (\E s \in Side : "failed" \in {net[s].router, net[s].sender})'
      <=> \E s \in Side : "failed" \in {net[s].router, net[s].sender}
  OBVIOUS
<1> QED BY <1>1 DEF Broken, Lost

\* A step of which the promise sees nothing, but that something may have failed.
LEMMA RunBreaks ==
  ASSUME TypeOK, Inv, Next, CommandStays, LoginStays, ServerStays
  PROVE  Promise!Break \/ UNCHANGED Promise!vars
<1>1. UNCHANGED <<remote.env, Child, Reported, Phase, IF Alive("Remote") THEN "up" ELSE "gone">>
  BY DEF CommandStays, LoginStays, ServerStays, Alive
<1>2. CASE Broken
  BY <1>1, <1>2, StaysBroken, RunTypes DEF Promise!vars
<1>3. CASE ~Broken
  BY <1>1, <1>3, RunTypes DEF Promise!Break, Promise!vars
<1> QED BY <1>2, <1>3

\* The remote process applies the environment before it starts the command, and
\* starts it once.
LEMMA RunStarts == ASSUME TypeOK, Inv, ProcSpawn PROVE Promise!Start
<1>1. remote.child = "none" /\ remote.env /\ Alive("Remote")
  BY DEF Inv, ExitInv, EnvFirst, ProcSpawn, ProcAt
<1>2. remote.env = TRUE /\ remote'.env = remote.env /\ remote'.child = "run"
  BY <1>1 DEF ProcSpawn, TypeOK, RemoteOK
<1>3. Broken' = Broken
  BY BrokenStays DEF ProcSpawn
<1>4. Child = "none" /\ Child' = "run"
  BY <1>1, <1>2 DEF Child
<1>5. UNCHANGED <<Reported, Phase, IF Alive("Remote") THEN "up" ELSE "gone">>
  BY DEF ProcSpawn, Reported, Phase, Alive
<1> QED BY <1>1, <1>2, <1>3, <1>4, <1>5 DEF Promise!Start

LEMMA RunExits == ASSUME TypeOK, ChildGoes PROVE Promise!Exit \/ UNCHANGED Promise!vars
<1>1. Broken' = Broken
  BY BrokenStays DEF ChildGoes
<1>2. UNCHANGED <<Reported, Phase, IF Alive("Remote") THEN "up" ELSE "gone">>
  BY DEF ChildGoes, Reported, Phase, Alive
<1>3. Child = "run" /\ Child' \in {"run", "exited"} /\ remote'.env = remote.env
  BY DEF ChildGoes, Child, TypeOK, RemoteOK
<1> QED BY <1>1, <1>2, <1>3 DEF Promise!Exit, Promise!vars

LEMMA RunSetsEnv ==
  ASSUME TypeOK, Inv, NEW s \in Side, RouterSetEnv(s)
  PROVE  Promise!SetEnv \/ UNCHANGED Promise!vars
<1>1. s = "Remote" /\ Alive("Remote")
  BY FrameTaken DEF RouterSetEnv, TakesFrame, Takes
<1>2. UNCHANGED <<Reported, Phase, IF Alive("Remote") THEN "up" ELSE "gone">>
  BY DEF RouterSetEnv, Reported, Phase, Alive
<1>3. remote'.env = TRUE /\ Child' = Child
  BY DEF RouterSetEnv, Child, TypeOK, RemoteOK
<1>4. Broken' = Broken
  <2>1. \A o \in Side : net'[o].router = net[o].router /\ net'[o].sender = net[o].sender
    BY DEF RouterSetEnv, Pop, TypeOK, NetOK, NetType, NetRecord
  <2> QED BY <2>1, BrokenStays DEF RouterSetEnv
<1>5. CASE remote.env
  <2>1. remote.env = TRUE
    BY <1>5 DEF TypeOK, RemoteOK
  <2> QED BY <2>1, <1>2, <1>3, <1>4 DEF Promise!vars
<1>6. CASE ~remote.env
  <2>1. Child = "none"
    BY <1>6 DEF Inv, EnvFirst, Silent, Child
  <2> QED BY <2>1, <1>1, <1>2, <1>3, <1>4, <1>6 DEF Promise!SetEnv
<1> QED BY <1>5, <1>6

\* The exit status is reported once, and only a real one.
LEMMA RunTells ==
  ASSUME TypeOK, Inv, NEW s \in Side, RouterProcessExit(s)
  PROVE  Promise!Tell \/ UNCHANGED Promise!vars
<1>1. Exited
  BY FrameTaken DEF RouterProcessExit
<1>2. Child = "exited" /\ Child' = Child /\ remote'.env = remote.env
  BY <1>1 DEF RouterProcessExit, Child, Exited
<1>3. /\ login' = login \/ (login.notifier = "waiting" /\ login' = [login EXCEPT !.notifier = "sent"])
      /\ LoginOK
  BY DEF RouterProcessExit, TypeOK
<1>4. Phase' = Phase /\ login'.term = login.term /\ login'.scene = login.scene
  BY <1>3 DEF Phase, LoginOK
<1>5. Broken' = Broken
  <2>1. \A o \in Side : net'[o].router = net[o].router /\ net'[o].sender = net[o].sender
    BY DEF RouterProcessExit, Pop, TypeOK, NetOK, NetType, NetRecord
  <2> QED BY <2>1, <1>4, BrokenStays DEF RouterProcessExit
<1>6. UNCHANGED (IF Alive("Remote") THEN "up" ELSE "gone")
  BY DEF RouterProcessExit, Alive
<1>7. (Reported' = TRUE /\ ~Reported) \/ Reported' = Reported
  BY <1>3 DEF Reported, LoginOK
<1> QED BY <1>2, <1>4, <1>5, <1>6, <1>7 DEF Promise!Tell, Promise!vars

\* login::run logs out, or fails, only on the exit status, and returns after the
\* remote process; an error has a reason.
LEMMA RunFails ==
  ASSUME TypeOK, CleanLogout', MainEnterFail \/ MainSizeFail \/ MainFail
  PROVE  Promise!Fail
<1>1. LoginOK /\ login'.at = "err" /\ login.at \in {"await", "register", "size", "sink", "spawn",
                                                   "source", "exit peer", "exit self"}
  BY DEF MainEnterFail, MainSizeFail, MainFail, MainAt, MainTo, TypeOK, LoginOK
<1>2. Phase \in {"in", "out"} /\ Phase' = "err"
  BY <1>1 DEF Phase
<1>3. Broken'
  BY <1>1 DEF CleanLogout
<1>4. login'.notifier = login.notifier
  BY DEF MainEnterFail, MainSizeFail, MainFail, MainTo, TypeOK, LoginOK
<1>5. UNCHANGED <<remote.env, Child, Reported, IF Alive("Remote") THEN "up" ELSE "gone">>
  BY <1>4 DEF MainEnterFail, MainSizeFail, MainFail, Child, Reported, Alive
<1> QED BY <1>2, <1>3, <1>5, RunTypes DEF Promise!Fail

LEMMA RunLogsOut ==
  ASSUME TypeOK, CleanLogout', MainStatus
  PROVE  Promise!Logout \/ Promise!Fail
<1>1. UNCHANGED <<remote.env, Child, IF Alive("Remote") THEN "up" ELSE "gone">>
  BY DEF MainStatus, Child, Alive
<1>2. login.at = "wait" /\ login.notifier = "sent" /\ login'.notifier = "got" /\ LoginOK
  BY DEF MainStatus, MainAt, Left, TypeOK, LoginOK
<1>3. Phase = "in" /\ Reported = TRUE /\ Reported' = Reported
  BY <1>2 DEF Phase, Reported
<1>4. CASE login'.at = "err"
  <2>1. Phase' = "err" /\ Broken'
    BY <1>4 DEF Phase, CleanLogout
  <2> QED BY <2>1, <1>1, <1>3, RunTypes DEF Promise!Fail
<1>5. CASE login'.at # "err"
  <2>1. login' = Left([login EXCEPT !.at = "exit peer", !.notifier = "got"])
    BY <1>2, <1>5 DEF MainStatus, LoginOK
  <2>2. login'.at = "exit peer" /\ login'.term = login.term /\ login'.scene = login.scene
    BY <1>2, <2>1 DEF Left, LoginOK
  <2>3. Broken' = Broken
    BY <2>2, BrokenStays DEF MainStatus
  <2>4. Phase' = "out"
    BY <2>2 DEF Phase
  <2> QED BY <2>3, <2>4, <1>1, <1>3 DEF Promise!Logout
<1> QED BY <1>4, <1>5

LEMMA RunReturns == ASSUME TypeOK, MainDone PROVE Promise!Return
<1>1. login.at = "ssh" /\ login' = [login EXCEPT !.at = "done"] /\ LoginOK
  BY DEF MainDone, MainAt, MainTo, TypeOK
<1>2. /\ Phase = "out" /\ Phase' = "done" /\ Reported' = Reported
      /\ login'.term = login.term /\ login'.scene = login.scene
  BY <1>1 DEF Phase, Reported, LoginOK
<1>3. Broken' = Broken
  BY <1>2, BrokenStays DEF MainDone
<1>4. ~Alive("Remote") \/ Broken
  BY DEF MainDone, Broken, Lost
<1>5. UNCHANGED <<remote.env, Child, IF Alive("Remote") THEN "up" ELSE "gone">>
  BY DEF MainDone, Child, Alive
<1> QED BY <1>2, <1>3, <1>4, <1>5, RunTypes DEF Promise!Return

\* The remote process ends only when it was told to, or when its router has failed.
LEMMA RunEnds == ASSUME TypeOK, Inv, RemoteShutdown PROVE Promise!End
<1>1. Alive("Remote") /\ ~Alive("Remote")' /\ up'.link = up.link
  BY DEF RemoteShutdown, Exits, Alive, TypeOK, UpOK, Side
<1>2. UNCHANGED <<remote.env, Child, Reported, Phase>>
  BY DEF RemoteShutdown, Exits, Child, Reported, Phase
<1>3. Broken' = Broken
  BY <1>1, BrokenStays DEF RemoteShutdown, Exits
<1>4. Phase # "in" \/ Broken
  <2>1. net["Remote"].router \in {"done", "failed"}
    BY Sides DEF RemoteShutdown, Open, TypeOK, NetOK, NetType, NetRecord, TaskState
  <2>2. CASE net["Remote"].router = "done"
    BY <2>2 DEF Inv, ExitInv, Leaving, Phase
  <2>3. CASE net["Remote"].router = "failed"
    BY <2>3, Sides DEF Broken, Lost
  <2> QED BY <2>1, <2>2, <2>3
<1> QED BY <1>1, <1>2, <1>3, <1>4, RunTypes DEF Promise!End

\* The promise sees nothing of the other steps.
LEMMA RunUnseen ==
  ASSUME TypeOK, Inv, Next, ~ProcSpawn, ~ChildGoes, ~RemoteShutdown,
         \A s \in Side : ~RouterSetEnv(s) /\ ~RouterProcessExit(s),
         ~(MainEnterFail \/ MainSizeFail \/ MainFail \/ MainStatus \/ MainDone)
  PROVE  CommandStays /\ LoginStays /\ ServerStays
<1>1. LoginOK /\ RemoteOK /\ UpOK
  BY DEF TypeOK
<1>2. CommandStays
  <2>1. remote'.env = remote.env /\ remote'.child = remote.child
    BY <1>1, RemoteSteps DEF RouterSpawn, SinkResize, Proc, ProcSpawnFail, ProcSink, ProcSource,
       ProcReap, ProcExit, ProcFail, ProcTo, RemoteOK
  <2> QED BY <2>1 DEF CommandStays, Child
<1>3. LoginStays
  <2>1. CASE Main
    <3>1. CASE MainRegister
      <4>1. login.at = "register" /\ login.notifier = "none"
        BY <3>1 DEF MainRegister, MainAt, Inv, Opening
      <4>2. login'.at = "size" /\ login'.notifier = "waiting"
        BY <1>1, <3>1 DEF MainRegister, Entered, LoginOK
      <4> QED BY <4>1, <4>2 DEF LoginStays, Phase, Reported
    <3>2. CASE MainSetEnv \/ MainSize \/ MainSink \/ MainSpawn \/ MainSource \/ MainExitPeer
               \/ MainExitSelf
      <4>1. /\ login'.notifier = login.notifier
            /\ \/ /\ login.at \in {"setenv", "size", "sink", "spawn", "source"}
                  /\ login'.at \in {"await", "register", "sink", "spawn", "source", "wait"}
               \/ /\ login.at \in {"exit peer", "exit self"}
                  /\ login'.at \in {"exit self", "ssh"}
        BY <1>1, <3>2 DEF MainSetEnv, MainSize, MainSink, MainSpawn, MainSource, MainExitPeer,
           MainExitSelf, MainSends, MainAt, MainTo, AfterSetEnv, LoginOK
      <4> QED BY <4>1 DEF LoginStays, Phase, Reported
    <3> QED BY <2>1, <3>1, <3>2 DEF Main
  <2>2. CASE login' = login \/ PanicHook("Local")
    <3>1. login'.at = login.at /\ login'.notifier = login.notifier
      BY <1>1, <2>2 DEF PanicHook, Left, LoginOK
    <3> QED BY <3>1 DEF LoginStays, Phase, Reported
  <2> QED BY <2>1, <2>2, LoginSteps
<1>4. ServerStays
  BY <1>1, UpSteps DEF ServerStays, LinkDown, Abort, Shutdown, LocalShutdown, Exits, UpOK, Side
<1> QED BY <1>2, <1>3, <1>4

\* The command is started, exits and is reported once, in this order; the logout
\* follows the report, the end of the remote process the logout, and the return of
\* login::run that end, unless something broke: for any capacities and faults.
THEOREM SessionRuns == Spec => ImplementsRun
<1>1. Init => Promise!Init
  BY RunTypes DEF Init, Promise!Init, Child, Phase, Reported, Alive, Side
<1>2. ASSUME TypeOK, Inv, CleanLogout', [Next]_vars
      PROVE  Promise!Next \/ UNCHANGED Promise!vars
  <2>1. CASE UNCHANGED vars
    <3>1. Broken' = Broken
      BY <2>1, BrokenStays DEF vars
    <3> QED BY <2>1, <3>1 DEF vars, Promise!vars, Child, Phase, Reported, Alive
  <2>2. CASE ProcSpawn
    BY <1>2, <2>2, RunStarts DEF Promise!Next
  <2>3. CASE ChildGoes
    BY <1>2, <2>3, RunExits DEF Promise!Next
  <2>4. ASSUME NEW s \in Side, RouterSetEnv(s) \/ RouterProcessExit(s)
        PROVE  Promise!Next \/ UNCHANGED Promise!vars
    BY <1>2, <2>4, RunSetsEnv, RunTells DEF Promise!Next
  <2>5. CASE MainEnterFail \/ MainSizeFail \/ MainFail \/ MainStatus \/ MainDone
    BY <1>2, <2>5, RunFails, RunLogsOut, RunReturns DEF Promise!Next
  <2>6. CASE RemoteShutdown
    BY <1>2, <2>6, RunEnds DEF Promise!Next
  <2>7. CASE /\ Next /\ ~ProcSpawn /\ ~ChildGoes /\ ~RemoteShutdown
             /\ \A s \in Side : ~RouterSetEnv(s) /\ ~RouterProcessExit(s)
             /\ ~(MainEnterFail \/ MainSizeFail \/ MainFail \/ MainStatus \/ MainDone)
    <3>1. CommandStays /\ LoginStays /\ ServerStays
      BY <1>2, <2>7, RunUnseen
    <3> QED BY <1>2, <2>7, <3>1, RunBreaks DEF Promise!Next
  <2> QED BY <1>2, <2>1, <2>2, <2>3, <2>4, <2>5, <2>6, <2>7
<1> QED BY <1>1, <1>2, SessionTypes, SessionInvariant, SessionCleanLogout, PTL
        DEF Spec, ImplementsRun, Promise!Spec
=============================================================================
