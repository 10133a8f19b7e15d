------------------------------ MODULE Session -------------------------------
(***************************************************************************)
(* One remote command run by `rsrs login`: the login process and the       *)
(* `rsrs remote` process at the other end of its ssh connection.           *)
(*                                                                         *)
(* Each process runs three tasks (src/router.rs): the router, which alone  *)
(* takes commands from the handler queue; the sender, which writes the     *)
(* peer queue to the wire; the receiver, which feeds frames from the wire  *)
(* into the handler queue.  Source tasks read a stream into frames and     *)
(* sink tasks write frames to a stream (src/endpoint).  The login process  *)
(* adds its main task and the window-change task (src/command/login.rs),   *)
(* the remote process adds process::run for the child                      *)
(* (src/endpoint/process.rs).  Every queue is a bounded tokio mpsc channel:*)
(* a send waits for room and fails once the receiving half is dropped.     *)
(*                                                                         *)
(* A step is what a task does between two awaits, under the ROUTER mutex   *)
(* where the code takes it.  The session has one id (login makes one), so  *)
(* the Router's tables reduce to whether this id is registered: that is    *)
(* what module LeaseTable justifies.  Chunks of data are numbers.          *)
(***************************************************************************)
EXTENDS Naturals, Sequences

CONSTANTS HandlerCap,   \* capacity of the handler queue (64 in the code)
          PeerCap,      \* capacity of the peer queue (64 in the code)
          ChanCap,      \* capacity of a ChannelReceiver's queue (64 in the code)
          WireCap,      \* frames the ssh connection buffers in one direction
          PipeCap,      \* chunks the child's stdin or stdout buffers
          NIn,          \* bound: chunks typed at the login side
          NOut,         \* bound: chunks written by the child
          NResize,      \* bound: resizes of the local terminal
          Scenes        \* the sessions there may be

FaultKinds == {"link",      \* the ssh connection breaks
               "spawn",     \* process::run fails before the child runs
               "stdin",     \* reading local stdin fails, or it hangs up
               "stdout",    \* writing local stdout fails
               "stderr",    \* ssh writes to stderr what is no UTF-8
               "terminal",  \* tcsetattr or reading the window size fails
               "pty"}       \* setting the size of the child's terminal fails

\* A session: the Opts of login by what they lead to (what to run, -T, the number of
\* -t, which override each other); whether local stdin is a terminal; which faults
\* may happen; and bounds, of the chunks in both directions together and of resizes.
Scene == {x \in [command : {"none", "shell", "program"}, disable : BOOLEAN, force : Nat,
                 tty : BOOLEAN, faults : SUBSET FaultKinds, chunks : Nat, resizes : Nat] :
             x.disable => x.force = 0}

ASSUME SessionAssumption ==
    /\ {HandlerCap, PeerCap, ChanCap, WireCap, PipeCap} \subseteq Nat \ {0}
    /\ {NIn, NOut, NResize} \subseteq Nat
    /\ Scenes \subseteq Scene

Side == {"Local", "Remote"}
Other(s) == IF s = "Local" THEN "Remote" ELSE "Local"

\* RemoteCommand.  v is the chunk number of Output, the size in Spawn and in
\* WindowSizeChange, and 0 in the others.
ChannelData == {"Output", "WindowSizeChange", "Shutdown"}
FrameTypes == ChannelData \cup {"SetEnv", "Spawn", "ProcessExit", "Exit"}
F(t, v) == [t |-> t, v |-> v]
Frame == [t : FrameTypes, v : 0 .. NIn + NOut + NResize]
None == F("None", 0)

\* Command: what the router takes from the handler queue.
Recv(f) == [k |-> "Recv", f |-> f]
Send(f) == [k |-> "Send", f |-> f]
SourceCmd == [k |-> "Source", f |-> None]
SinkCmd == [k |-> "Sink", f |-> None]
Command == [k : {"Recv", "Send"}, f : Frame] \cup {SourceCmd, SinkCmd}

VARIABLES
    login,    \* scene (which session it is), at (where the main task stands), size (read
              \* for Spawn), notifier (the StatusReceiver: none, waiting, sent, got),
              \* raw (the terminal's mode), orig (RawMode holds what to go back to),
              \* term (ok, or which call on it failed: enter, size, leave, or the hook's)
    winch,    \* window-change task: st, pending signal, hold; win (the terminal's size:
              \* times resized), late (the last resize came after Spawn and was heard)
    up,       \* link, and alive[Side]: which processes have not exited
    net,      \* per side: the queues handler, peer and wire (frames written and
              \* not yet read by the other side), the tasks router, sender and
              \* receiver, and the frame each holds: job, out, in
    ends,     \* per side: the ChannelReceiver's queue chan, sink (where the
              \* ChannelReceiver lives), source and the frame data it holds
    remote,   \* env (SetEnv applied), proc and win (where process::run stands, the
              \* size it was given), child, ptyWin (size of its pseudo-terminal)
    io        \* typed (chunks read from local stdin), inGot (written to the child's
              \* stdin), inEof (it was shut down), inRead (read by the child);
              \* outMade, outRead, outGot, outEof: the same for stdout

vars == <<login, winch, up, net, ends, remote, io>>

NoJob == [to |-> "none", f |-> None]

Init ==
    /\ \E scene \in Scenes :
           login = [scene |-> scene, at |-> "setenv", size |-> 0, notifier |-> "none",
                    raw |-> FALSE, orig |-> FALSE, term |-> "ok"]
    /\ winch = [st |-> "none", pending |-> FALSE, hold |-> None, win |-> 0, late |-> FALSE]
    /\ up = [link |-> TRUE, alive |-> [s \in Side |-> TRUE]]
    /\ net = [s \in Side |->
                 [handler |-> <<>>, router |-> "run", job |-> NoJob,
                  peer |-> <<>>, sender |-> "run", out |-> None,
                  wire |-> <<>>, receiver |-> "run", in |-> None]]
    /\ ends = [s \in Side |-> [chan |-> <<>>, sink |-> "none",
                               source |-> "none", data |-> None]]
    /\ remote = [env |-> FALSE, proc |-> "none", win |-> 0, child |-> "none", ptyWin |-> 0]
    /\ io = [typed |-> 0, inGot |-> <<>>, inEof |-> FALSE, inRead |-> 0,
             outMade |-> 0, outRead |-> 0, outGot |-> <<>>, outEof |-> FALSE]

\* allocate_pty of login::run, which Spawn tells the other side.
UsePty == /\ \/ login.scene.force > 0
             \/ ~login.scene.disable /\ login.scene.command = "shell"
          /\ login.scene.force >= 2 \/ login.scene.tty

Alive(s) == up.alive[s]
Open(s) == net[s].router = "run"              \* handler_rx has not been dropped

\* A task sends a command to the router, or finds that it cannot any more.
Sends(s, c) == /\ Alive(s) /\ Open(s) /\ Len(net[s].handler) < HandlerCap
               /\ net' = [net EXCEPT ![s].handler = Append(@, c)]
SendFails(s) == Alive(s) /\ ~Open(s)

\* get_channel finds the id: the ChannelReceiver has been created and not dropped.
Registered(s) == ends[s].sink \in {"held", "queued", "run"}

\* Drop for ChannelReceiver: the id is unregistered, queued data is discarded.
DropReceiver(s) == ends' = [ends EXCEPT ![s].sink = "end", ![s].chan = <<>>]

\* RawMode::enter and leave (terminal.rs), on the record login.  leave takes the
\* saved attributes before it writes them back, and so tries only once.
Entered(l) == IF l.orig THEN l ELSE [l EXCEPT !.raw = TRUE, !.orig = TRUE]
Left(l) == [l EXCEPT !.raw = @ /\ ~l.orig, !.orig = FALSE]
LeaveFails(l) == l.orig /\ "terminal" \in l.scene.faults

\* Mutant: no panic hook is installed.
PanicHookMissing(s) == UNCHANGED login

\* A task of the login process panics: the panic hook leaves raw mode.  Its expect
\* on a failure is a panic inside the hook.
PanicHook(s) == IF s # "Local" THEN UNCHANGED login
                ELSE \/ login' = Left(login)
                     \/ LeaveFails(login) /\ login' = [login EXCEPT !.orig = FALSE,
                                                                   !.term = "hook"]

\* Who still holds the ends of the connection.  The login process drops its pipe
\* to ssh with the task that owns it; the remote process opened /dev/stdin and
\* /dev/stdout anew, so its descriptors 0 and 1 stay open until it exits.
EndGone(s, task) == ~up.link \/ ~Alive(s) \/ (s = "Local" /\ task # "run")
WriterGone(s) == EndGone(s, net[s].sender)
ReaderGone(s) == EndGone(s, net[s].receiver)

-----------------------------------------------------------------------------
(* router.rs: the router task.                                              *)

\* It takes the next command once it is done with the previous one.
Takes(s) == Alive(s) /\ Open(s) /\ net[s].job = NoJob /\ net[s].handler # <<>>
Cmd(s) == Head(net[s].handler)
TakesFrame(s, t) == Takes(s) /\ Cmd(s).k = "Recv" /\ Cmd(s).f.t = t
Pop(s) == net' = [net EXCEPT ![s].handler = Tail(@)]
PopFor(s, to) == net' = [net EXCEPT ![s].handler = Tail(@),
                                    ![s].job = [to |-> to, f |-> Cmd(s).f]]

\* The router function returns: handler_rx goes with every command in it, and a
\* queued Sink takes its ChannelReceiver along; peer_tx goes too.
RouterEnds(s, how) ==
    /\ net' = [net EXCEPT ![s].router = how, ![s].job = NoJob, ![s].handler = <<>>]
    /\ IF ends[s].sink = "queued" THEN DropReceiver(s) ELSE UNCHANGED ends

RouterSetEnv(s) == /\ TakesFrame(s, "SetEnv") /\ Pop(s)
                   /\ remote' = [remote EXCEPT !.env = TRUE]
                   /\ UNCHANGED <<login, winch, up, ends, io>>

\* insert_channel and tokio::spawn(process::run).  The expect("received id
\* already used") holds: a session sends one Spawn.
RouterSpawn(s) == /\ TakesFrame(s, "Spawn") /\ Pop(s)
                  /\ ends' = [ends EXCEPT ![s].sink = "held"]
                  /\ remote' = [remote EXCEPT !.proc = "spawn", !.win = Cmd(s).f.v]
                  /\ UNCHANGED <<login, winch, up, io>>

\* get_channel under the lock; the send to what it returned comes later.
RouterLookup(s) == /\ \E t \in ChannelData : TakesFrame(s, t)
                   /\ IF Registered(s) THEN PopFor(s, "chan") ELSE Pop(s)
                   /\ UNCHANGED <<login, winch, up, ends, remote, io>>

\* take_status and the oneshot send.
RouterProcessExit(s) ==
    /\ TakesFrame(s, "ProcessExit") /\ Pop(s)
    /\ login' = IF login.notifier = "waiting" THEN [login EXCEPT !.notifier = "sent"] ELSE login
    /\ UNCHANGED <<winch, up, ends, remote, io>>

RouterExit(s) == /\ TakesFrame(s, "Exit") /\ RouterEnds(s, "done")
                 /\ UNCHANGED <<login, winch, up, remote, io>>

RouterSend(s) == /\ Takes(s) /\ Cmd(s).k = "Send" /\ PopFor(s, "peer")
                 /\ UNCHANGED <<login, winch, up, ends, remote, io>>

RouterSource(s) == /\ Takes(s) /\ Cmd(s) = SourceCmd /\ Pop(s)
                   /\ ends' = [ends EXCEPT ![s].source = "read"]
                   /\ UNCHANGED <<login, winch, up, remote, io>>

RouterSink(s) == /\ Takes(s) /\ Cmd(s) = SinkCmd /\ Pop(s)
                 /\ ends' = [ends EXCEPT ![s].sink = "run"]
                 /\ UNCHANGED <<login, winch, up, remote, io>>

\* Mutant: try_send in place of send, what finds no room is dropped.
RouterDeliverTrySend(s) ==
    /\ Alive(s) /\ net[s].job.to = "chan" /\ Registered(s)
    /\ IF Len(ends[s].chan) < ChanCap
       THEN ends' = [ends EXCEPT ![s].chan = Append(@, net[s].job.f)] ELSE UNCHANGED ends
    /\ net' = [net EXCEPT ![s].job = NoJob]
    /\ UNCHANGED <<login, winch, up, remote, io>>

\* tx.send(data).await? and peer_tx.send(remote).await? of the command taken.
RouterDeliver(s) ==
    /\ Alive(s) /\ net[s].job.to = "chan"
    /\ Registered(s) /\ Len(ends[s].chan) < ChanCap
    /\ ends' = [ends EXCEPT ![s].chan = Append(@, net[s].job.f)]
    /\ net' = [net EXCEPT ![s].job = NoJob]
    /\ UNCHANGED <<login, winch, up, remote, io>>

RouterForward(s) ==
    /\ Alive(s) /\ net[s].job.to = "peer"
    /\ net[s].sender = "run" /\ Len(net[s].peer) < PeerCap
    /\ net' = [net EXCEPT ![s].peer = Append(@, net[s].job.f), ![s].job = NoJob]
    /\ UNCHANGED <<login, winch, up, ends, remote, io>>

\* The receiving half of the queue it sends to is gone: router() returns Err and
\* the unwrap of its task panics.
RouterFail(s) == /\ Alive(s)
                 /\ \/ net[s].job.to = "chan" /\ ~Registered(s)
                    \/ net[s].job.to = "peer" /\ net[s].sender # "run"
                 /\ RouterEnds(s, "failed") /\ PanicHook(s)
                 /\ UNCHANGED <<winch, up, remote, io>>

Router(s) == \/ RouterSetEnv(s) \/ RouterSpawn(s) \/ RouterLookup(s)
             \/ RouterProcessExit(s) \/ RouterExit(s) \/ RouterSend(s)
             \/ RouterSource(s) \/ RouterSink(s)
             \/ RouterDeliver(s) \/ RouterForward(s) \/ RouterFail(s)

-----------------------------------------------------------------------------
(* router.rs: the sender and the receiver task.                             *)

SenderRuns(s) == Alive(s) /\ net[s].sender = "run"

SenderTake(s) ==
    /\ SenderRuns(s) /\ net[s].out = None /\ net[s].peer # <<>>
    /\ net' = [net EXCEPT ![s].out = Head(net[s].peer), ![s].peer = Tail(@)]
    /\ UNCHANGED <<login, winch, up, ends, remote, io>>

\* The wire takes the frame; what is written to a reader that is gone is lost.
SenderWrite(s) ==
    /\ SenderRuns(s) /\ net[s].out # None
    /\ ReaderGone(Other(s)) \/ Len(net[s].wire) < WireCap
    /\ net' = [net EXCEPT ![s].out = None,
                          ![s].wire = IF ReaderGone(Other(s)) THEN @ ELSE Append(@, net[s].out)]
    /\ UNCHANGED <<login, winch, up, ends, remote, io>>

\* The write fails once the reader is gone: unwrap panics, peer_rx is dropped.
SenderFail(s) ==
    /\ SenderRuns(s) /\ net[s].out # None /\ ReaderGone(Other(s))
    /\ net' = [net EXCEPT ![s].sender = "failed", ![s].out = None, ![s].peer = <<>>]
    /\ PanicHook(s)
    /\ UNCHANGED <<winch, up, ends, remote, io>>

\* peer_rx is drained and the router, which owned peer_tx, has ended.
SenderDone(s) ==
    /\ SenderRuns(s) /\ net[s].out = None /\ net[s].peer = <<>> /\ ~Open(s)
    /\ net' = [net EXCEPT ![s].sender = "done"]
    /\ UNCHANGED <<login, winch, up, ends, remote, io>>

Sender(s) == SenderTake(s) \/ SenderWrite(s) \/ SenderFail(s) \/ SenderDone(s)

ReceiverRuns(s) == Alive(s) /\ net[s].receiver = "run"

ReceiverRead(s) ==
    /\ ReceiverRuns(s) /\ net[s].in = None /\ net[Other(s)].wire # <<>>
    /\ net' = [net EXCEPT ![s].in = Head(net[Other(s)].wire), ![Other(s)].wire = Tail(@)]
    /\ UNCHANGED <<login, winch, up, ends, remote, io>>

\* End of file: the receiver returns Ok and tells nobody.
ReceiverEof(s) ==
    /\ ReceiverRuns(s) /\ net[s].in = None
    /\ net[Other(s)].wire = <<>> /\ WriterGone(Other(s))
    /\ net' = [net EXCEPT ![s].receiver = "done"]
    /\ UNCHANGED <<login, winch, up, ends, remote, io>>

\* Mutant: an unbounded handler queue.
ReceiverPushUnbounded(s) ==
    /\ ReceiverRuns(s) /\ net[s].in # None /\ Open(s)
    /\ net' = [net EXCEPT ![s].handler = Append(@, Recv(net[s].in)), ![s].in = None]
    /\ UNCHANGED <<login, winch, up, ends, remote, io>>

ReceiverPush(s) ==
    /\ ReceiverRuns(s) /\ net[s].in # None
    /\ Open(s) /\ Len(net[s].handler) < HandlerCap
    /\ net' = [net EXCEPT ![s].handler = Append(@, Recv(net[s].in)), ![s].in = None]
    /\ UNCHANGED <<login, winch, up, ends, remote, io>>

\* handler_rx is gone: "send failed"; or what arrived last is a part of a frame, which
\* may be so once the connection broke.  The unwrap of the task panics.
Torn(s) == ~up.link /\ net[s].in = None /\ net[Other(s)].wire = <<>>
ReceiverFail(s) ==
    /\ ReceiverRuns(s) /\ (Torn(s) \/ (net[s].in # None /\ SendFails(s)))
    /\ net' = [net EXCEPT ![s].receiver = "failed", ![s].in = None]
    /\ PanicHook(s)
    /\ UNCHANGED <<winch, up, ends, remote, io>>

Receiver(s) == ReceiverRead(s) \/ ReceiverEof(s) \/ ReceiverPush(s) \/ ReceiverFail(s)

-----------------------------------------------------------------------------
(* endpoint/source.rs: a stream becomes Output frames and a final Shutdown.  *)

Reading(s) == Alive(s) /\ ends[s].source = "read" /\ ends[s].data = None
Reads(s, f) == /\ Reading(s)
               /\ ends' = [ends EXCEPT ![s].data = f]
               /\ UNCHANGED <<login, winch, up, net, remote>>

ReadStdin == /\ io.typed < NIn /\ io.typed + io.outMade < login.scene.chunks
             /\ Reads("Local", F("Output", io.typed + 1))
             /\ io' = [io EXCEPT !.typed = @ + 1]

ReadChild == /\ io.outRead < io.outMade
             /\ Reads("Remote", F("Output", io.outRead + 1))
             /\ io' = [io EXCEPT !.outRead = @ + 1]

\* The child has exited, and so has what it left in its stdout.
Drained == remote.child = "exited" /\ io.outRead = io.outMade

\* The read returns 0: at the end of a child's pipe, or at the user's will, but for a
\* terminal in raw mode (its VMIN is 1), which only ends when it hangs up.
ReadEnd(s) == /\ IF s = "Local" THEN login.raw => "stdin" \in login.scene.faults
                                ELSE Drained /\ ~UsePty
              /\ Reads(s, F("Shutdown", 0)) /\ UNCHANGED io

\* The read fails: no Shutdown is sent.  The master of a pseudo-terminal nobody has
\* open always does, with EIO.
ReadFail(s) == /\ Reading(s)
               /\ IF s = "Local" THEN "stdin" \in login.scene.faults ELSE Drained /\ UsePty
               /\ ends' = [ends EXCEPT ![s].source = "end"]
               /\ UNCHANGED <<login, winch, up, net, remote, io>>

SourceEnds(s) == ends' = [ends EXCEPT ![s].source = "end", ![s].data = None]

SourcePush(s) == /\ ends[s].data # None /\ Sends(s, Send(ends[s].data))
                 /\ IF ends[s].data.t = "Shutdown" THEN SourceEnds(s)
                                                   ELSE ends' = [ends EXCEPT ![s].data = None]
                 /\ UNCHANGED <<login, winch, up, remote, io>>

SourceFail(s) == /\ ends[s].data # None /\ SendFails(s) /\ SourceEnds(s)
                 /\ UNCHANGED <<login, winch, up, net, remote, io>>

Source(s) == SourcePush(s) \/ SourceFail(s)

-----------------------------------------------------------------------------
(* endpoint/sink.rs: data of the channel goes to a stream.                  *)

SinkTakes(s, t) == /\ Alive(s) /\ ends[s].sink = "run"
                   /\ ends[s].chan # <<>> /\ Head(ends[s].chan).t = t
                   /\ UNCHANGED <<login, winch, up, net>>
SinkValue(s) == Head(ends[s].chan).v
SinkNext(s) == ends' = [ends EXCEPT ![s].chan = Tail(@)]

\* Mutant: write in place of write_all, which may leave the chunk unwritten.
WriteStdoutShort == /\ SinkTakes("Local", "Output") /\ SinkNext("Local")
                    /\ \/ io' = [io EXCEPT !.outGot = Append(@, SinkValue("Local"))]
                       \/ UNCHANGED io
                    /\ UNCHANGED remote

\* The write waits for the reader of local stdout, which owes nothing (Fairness).
WriteStdout == /\ SinkTakes("Local", "Output") /\ SinkNext("Local")
               /\ io' = [io EXCEPT !.outGot = Append(@, SinkValue("Local"))]
               /\ UNCHANGED remote

\* Mutant: the same of write to the child.
WriteChildShort == /\ SinkTakes("Remote", "Output") /\ SinkNext("Remote")
                   /\ UsePty \/ remote.child = "run"
                   /\ \/ /\ Len(io.inGot) - io.inRead < PipeCap
                         /\ io' = [io EXCEPT !.inGot = Append(@, SinkValue("Remote"))]
                      \/ UNCHANGED io
                   /\ UNCHANGED remote

\* The write waits for room; a pseudo-terminal takes it even after its child.
WriteChild == /\ SinkTakes("Remote", "Output") /\ SinkNext("Remote")
              /\ UsePty \/ remote.child = "run"
              /\ Len(io.inGot) - io.inRead < PipeCap
              /\ io' = [io EXCEPT !.inGot = Append(@, SinkValue("Remote"))]
              /\ UNCHANGED remote

\* write_all fails, or the pseudo-terminal cannot be opened or resized: the task ends
\* and drops its ChannelReceiver.
WriteBreaks(s) == IF s = "Local" THEN "stdout" \in login.scene.faults
                                 ELSE ~UsePty /\ remote.child \in {"deaf", "exited"}
ResizeBreaks(s) == s = "Remote" /\ UsePty /\ "pty" \in login.scene.faults
SinkFail(s) == /\ \/ SinkTakes(s, "Output") /\ WriteBreaks(s)
                  \/ SinkTakes(s, "WindowSizeChange") /\ ResizeBreaks(s)
               /\ DropReceiver(s) /\ UNCHANGED <<remote, io>>

\* Only a sink with a pty_name applies it.
SinkResize(s) ==
    /\ SinkTakes(s, "WindowSizeChange") /\ SinkNext(s)
    /\ remote' = IF UsePty /\ s = "Remote" THEN [remote EXCEPT !.ptyWin = SinkValue(s)]
                                           ELSE remote
    /\ UNCHANGED io

SinkShutdown(s) ==
    /\ SinkTakes(s, "Shutdown") /\ DropReceiver(s)
    /\ io' = IF s = "Local" THEN [io EXCEPT !.outEof = TRUE] ELSE [io EXCEPT !.inEof = TRUE]
    /\ UNCHANGED remote

Sink(s) == SinkFail(s) \/ SinkResize(s) \/ SinkShutdown(s)

-----------------------------------------------------------------------------
(* endpoint/process.rs: process::run, and the child it runs.                *)

ProcAt(pc) == remote.proc = pc /\ Alive("Remote")
ProcTo(pc) == remote' = [remote EXCEPT !.proc = pc]

ProcSpawn == /\ ProcAt("spawn")
             /\ remote' = [remote EXCEPT !.proc = "sink", !.child = "run", !.ptyWin = remote.win]
             /\ UNCHANGED <<login, winch, up, net, ends, io>>

\* An early `?`: the router's task discards the error, and with it rx.
ProcSpawnFail == /\ ProcAt("spawn") /\ "spawn" \in login.scene.faults
                 /\ ProcTo("end") /\ DropReceiver("Remote")
                 /\ UNCHANGED <<login, winch, up, net, io>>

ProcSink == /\ ProcAt("sink") /\ Sends("Remote", SinkCmd) /\ ProcTo("source")
            /\ ends' = [ends EXCEPT !["Remote"].sink = "queued"]
            /\ UNCHANGED <<login, winch, up, io>>

\* Mutant: status.await is missing.
ProcSourceNoWait == /\ ProcAt("source") /\ Sends("Remote", SourceCmd) /\ ProcTo("exit")
                    /\ UNCHANGED <<login, winch, up, ends, io>>

ProcSource == /\ ProcAt("source") /\ Sends("Remote", SourceCmd) /\ ProcTo("wait")
              /\ UNCHANGED <<login, winch, up, ends, io>>

ProcReap == /\ ProcAt("wait") /\ remote.child = "exited" /\ ProcTo("exit")
            /\ UNCHANGED <<login, winch, up, net, ends, io>>

ProcExit == /\ ProcAt("exit") /\ Sends("Remote", Send(F("ProcessExit", 0))) /\ ProcTo("end")
            /\ UNCHANGED <<login, winch, up, ends, io>>

ProcFail == /\ remote.proc \in {"sink", "source", "exit"} /\ SendFails("Remote")
            /\ IF remote.proc = "sink" THEN DropReceiver("Remote") ELSE UNCHANGED ends
            /\ ProcTo("end")
            /\ UNCHANGED <<login, winch, up, net, io>>

Proc == ProcSpawn \/ ProcSpawnFail \/ ProcSink \/ ProcSource \/ ProcReap \/ ProcExit
        \/ ProcFail

\* The child writes and reads as it pleases, closes its stdin (deaf), exits.
ChildIO == /\ \/ /\ remote.child \in {"run", "deaf"}
                 /\ io.outMade < NOut /\ io.typed + io.outMade < login.scene.chunks
                 /\ io.outMade - io.outRead < PipeCap
                 /\ io' = [io EXCEPT !.outMade = @ + 1]
              \/ /\ remote.child = "run" /\ io.inRead < Len(io.inGot)
                 /\ io' = [io EXCEPT !.inRead = @ + 1]
           /\ UNCHANGED <<login, winch, up, net, ends, remote>>

ChildGoes == /\ \/ remote.child = "run" /\ remote' = [remote EXCEPT !.child = "deaf"]
                \/ /\ remote.child \in {"run", "deaf"}
                   /\ remote' = [remote EXCEPT !.child = "exited"]
             /\ UNCHANGED <<login, winch, up, net, ends, io>>

-----------------------------------------------------------------------------
(* command/login.rs: the main task.                                         *)

MainAt(pc) == login.at = pc /\ Alive("Local")
MainTo(pc) == login' = [login EXCEPT !.at = pc]

\* One of the handler_tx.send(..).await? of run, and where run goes next.
MainSends(pc, c, next) == MainAt(pc) /\ Sends("Local", c) /\ MainTo(next)

\* Where the `if let Some(command)` leads.
AfterSetEnv == IF login.scene.command = "none" THEN "await" ELSE "register"

\* Mutant: the await of the send is missing, so nothing is sent.
MainSetEnvNoAwait == /\ MainAt("setenv") /\ MainTo(AfterSetEnv)
                     /\ UNCHANGED <<winch, up, net, ends, remote, io>>

\* Mutant: `login -N` does not wait for the router.
MainSetEnvNoRouterAwait ==
    /\ MainSends("setenv", Send(F("SetEnv", 0)),
                 IF login.scene.command = "none" THEN "exit peer" ELSE "register")
    /\ UNCHANGED <<winch, up, ends, remote, io>>

MainSetEnv == /\ MainSends("setenv", Send(F("SetEnv", 0)), AfterSetEnv)
              /\ UNCHANGED <<winch, up, ends, remote, io>>

\* Raw mode, new_id, insert_status_notifier, insert_channel, the window-change task.
EntersRaw == login.scene.tty /\ UsePty
MainRegister ==
    /\ MainAt("register")
    /\ LET l == [login EXCEPT !.at = "size", !.notifier = "waiting"]
       IN  login' = IF EntersRaw THEN Entered(l) ELSE l
    /\ ends' = [ends EXCEPT !["Local"].sink = "held"]
    /\ winch' = [winch EXCEPT !.st = "spawned"]
    /\ UNCHANGED <<up, net, remote, io>>

\* raw.lock().enter()? fails.
MainEnterFail == /\ MainAt("register") /\ EntersRaw /\ "terminal" \in login.scene.faults
                 /\ login' = [login EXCEPT !.at = "err", !.term = "enter"]
                 /\ UNCHANGED <<winch, up, net, ends, remote, io>>

MainSize == /\ MainAt("size") /\ (UsePty => login.scene.tty)
            /\ login' = [login EXCEPT !.at = "sink", !.size = IF UsePty THEN winch.win ELSE 0]
            /\ UNCHANGED <<winch, up, net, ends, remote, io>>

\* get_window_size(STDIN)? fails: always when stdin is no terminal (`-tt`).  run returns
\* without leave, and nothing panics.
SizeFails == ~login.scene.tty \/ "terminal" \in login.scene.faults
MainSizeFail == /\ MainAt("size") /\ UsePty /\ SizeFails
                /\ login' = [login EXCEPT !.at = "err", !.term = "size"]
                /\ DropReceiver("Local")
                /\ UNCHANGED <<winch, up, net, remote, io>>

\* Mutant: the await of the send is missing.
MainSinkNoAwait == /\ MainAt("sink") /\ MainTo("spawn")
                   /\ UNCHANGED <<winch, up, net, ends, remote, io>>

MainSink == /\ MainSends("sink", SinkCmd, "spawn")
            /\ ends' = [ends EXCEPT !["Local"].sink = "queued"]
            /\ UNCHANGED <<winch, up, remote, io>>

MainSpawn == /\ MainSends("spawn", Send(F("Spawn", login.size)), "source")
             /\ UNCHANGED <<winch, up, ends, remote, io>>

MainSource == /\ MainSends("source", SourceCmd, "wait")
              /\ UNCHANGED <<winch, up, ends, remote, io>>

\* status_rx.await, then raw.lock().leave()?.
MainStatus ==
    /\ MainAt("wait") /\ login.notifier = "sent"
    /\ LET l == [login EXCEPT !.at = "exit peer", !.notifier = "got"]
       IN  \/ login' = Left(l)
           \/ LeaveFails(l) /\ login' = [l EXCEPT !.at = "err", !.orig = FALSE, !.term = "leave"]
    /\ UNCHANGED <<winch, up, net, ends, remote, io>>

\* Mutant: the own router is told to exit before the peer.
MainExitPeerSwapped == /\ MainSends("exit peer", Recv(F("Exit", 0)), "exit self")
                       /\ UNCHANGED <<winch, up, ends, remote, io>>

MainExitPeer == /\ MainSends("exit peer", Send(F("Exit", 0)), "exit self")
                /\ UNCHANGED <<winch, up, ends, remote, io>>

\* Mutant: the own router is not told to exit.
MainExitSelfMissing == /\ MainAt("exit self") /\ MainTo("ssh")
                       /\ UNCHANGED <<winch, up, net, ends, remote, io>>

MainExitSelf == /\ MainSends("exit self", Recv(F("Exit", 0)), "ssh")
                /\ UNCHANGED <<winch, up, ends, remote, io>>

\* Mutant: the await of ssh is missing.
MainDoneNoWait == /\ MainAt("ssh") /\ MainTo("done")
                  /\ UNCHANGED <<winch, up, net, ends, remote, io>>

\* ssh has exited.
MainDone == /\ MainAt("ssh") /\ (~up.link \/ ~Alive("Remote")) /\ MainTo("done")
            /\ UNCHANGED <<winch, up, net, ends, remote, io>>

\* A send fails because the router has ended; run returns the error.  `login -N`
\* awaits that end: a panic is its JoinError, and after an Ok the send of Exit fails.
MainFail ==
    /\ login.at \in {"await", "sink", "spawn", "source", "exit peer", "exit self"}
    /\ SendFails("Local") /\ MainTo("err")
    /\ IF login.at = "sink" THEN DropReceiver("Local") ELSE UNCHANGED ends
    /\ UNCHANGED <<winch, up, net, remote, io>>

Main == \/ MainSetEnv \/ MainRegister \/ MainSize \/ MainSink \/ MainSpawn
        \/ MainSource \/ MainStatus \/ MainExitPeer \/ MainExitSelf \/ MainDone
        \/ MainFail \/ MainEnterFail \/ MainSizeFail

-----------------------------------------------------------------------------
(* command/login.rs: the window-change task.                                *)

\* The user resizes the terminal: SIGWINCH, which is heard once the task has its signal
\* handler.  Before its first poll a signal is lost, although Spawn may be enqueued.
Resize == /\ Alive("Local") /\ winch.win < NResize
          /\ winch.win < login.scene.resizes
          /\ winch' = [winch EXCEPT
                 !.win = @ + 1, !.pending = (@ \/ winch.st = "on"),
                 !.late = winch.st = "on" /\ login.at \in {"source", "wait"}]
          /\ UNCHANGED <<login, up, net, ends, remote, io>>

\* The task's first poll installs the signal handler.
WinchStart == /\ Alive("Local") /\ winch.st = "spawned"
              /\ winch' = [winch EXCEPT !.st = "on"]
              /\ UNCHANGED <<login, up, net, ends, remote, io>>

WinchWakes == Alive("Local") /\ winch.pending /\ winch.hold = None /\ winch.st = "on"

WinchTake == /\ WinchWakes /\ login.scene.tty
             /\ winch' = [winch EXCEPT !.pending = FALSE,
                                       !.hold = F("WindowSizeChange", winch.win)]
             /\ UNCHANGED <<login, up, net, ends, remote, io>>

\* Mutant: signals that arrived during the send are taken as served.
WinchPushClears == /\ winch.hold # None /\ Sends("Local", Send(winch.hold))
                   /\ winch' = [winch EXCEPT !.hold = None, !.pending = FALSE]
                   /\ UNCHANGED <<login, up, ends, remote, io>>

WinchPush == /\ winch.hold # None /\ Sends("Local", Send(winch.hold))
             /\ winch' = [winch EXCEPT !.hold = None]
             /\ UNCHANGED <<login, up, ends, remote, io>>

\* The unwrap of its send panics once the router has ended, and the unwrap of
\* get_window_size when that fails: if stdin is no terminal, SIGWINCH came from another.
WinchFail == /\ \/ winch.hold # None /\ SendFails("Local")
                \/ WinchWakes /\ SizeFails
             /\ winch' = [winch EXCEPT !.st = "failed", !.pending = FALSE, !.hold = None]
             /\ PanicHook("Local")
             /\ UNCHANGED <<up, net, ends, remote, io>>

Winch == WinchStart \/ WinchTake \/ WinchPush \/ WinchFail

\* next_line().await.unwrap() in the task that copies the stderr of ssh.  Whether the
\* task runs need not be kept: only its panic in raw mode, of which there is one,
\* changes anything.
StderrFail == /\ Alive("Local") /\ "stderr" \in login.scene.faults
              /\ PanicHook("Local")
              /\ UNCHANGED <<winch, up, net, ends, remote, io>>

-----------------------------------------------------------------------------
(* Processes exit, the connection breaks.                                   *)

Exits(s) == /\ up' = [up EXCEPT !.alive[s] = FALSE]
            /\ UNCHANGED <<login, winch, net, ends, remote, io>>

\* remote::run returns with its router; the runtime waits for a blocking read of
\* stdin or write to stdout.  Its tasks may run until then.
RemoteShutdown ==
    /\ Alive("Remote") /\ ~Open("Remote")
    /\ ~ /\ ReceiverRuns("Remote") /\ net["Remote"].in = None
         /\ net["Local"].wire = <<>> /\ ~WriterGone("Local")
    /\ ~ /\ SenderRuns("Remote") /\ net["Remote"].out # None
         /\ Len(net["Remote"].wire) >= WireCap /\ ~ReaderGone("Local")
    /\ Exits("Remote")

\* login::run has returned: the runtime drops the tasks, and the pipes to ssh.
LocalShutdown == Alive("Local") /\ login.at \in {"done", "err"} /\ Exits("Local")

\* A panic inside the panic hook aborts the process.
Abort == Alive("Local") /\ login.term = "hook" /\ Exits("Local")

\* What was under way is lost or still arrives.
LinkDown ==
    /\ up.link /\ "link" \in login.scene.faults
    /\ up' = [up EXCEPT !.link = FALSE]
    /\ \E kept \in SUBSET Side :
         net' = [s \in Side |-> IF s \in kept THEN net[s] ELSE [net[s] EXCEPT !.wire = <<>>]]
    /\ UNCHANGED <<login, winch, ends, remote, io>>

-----------------------------------------------------------------------------
Env == \/ ReadStdin \/ ReadEnd("Local") \/ ReadFail("Local") \/ Resize \/ LinkDown
       \/ ChildIO \/ ChildGoes \/ StderrFail \/ Abort

ChildReader == ReadChild \/ ReadEnd("Remote") \/ ReadFail("Remote")
Writer == WriteStdout \/ WriteChild
Shutdown == RemoteShutdown \/ LocalShutdown

Next == \/ Env \/ Main \/ Winch \/ Proc \/ ChildReader \/ Writer \/ Shutdown
        \/ \E s \in Side : Router(s) \/ Sender(s) \/ Receiver(s) \/ Source(s) \/ Sink(s)

Spec == Init /\ [][Next]_vars

\* tokio polls every task that can go on; a semaphore serves its waiters in turn.
\* The user, the child, the reader of local stdout and the faults owe nothing: a write to
\* local stdout may wait for ever, one to the child as long as its stdin is full.
Fairness == /\ WF_vars(Main) /\ WF_vars(Winch) /\ WF_vars(Proc) /\ WF_vars(ChildReader)
            /\ WF_vars(WriteChild \/ SinkFail("Remote"))
            /\ WF_vars(RemoteShutdown) /\ WF_vars(LocalShutdown)
            /\ \A s \in Side : /\ WF_vars(Router(s)) /\ WF_vars(Sender(s))
                               /\ WF_vars(Receiver(s)) /\ WF_vars(Source(s))
                               /\ WF_vars(SinkResize(s) \/ SinkShutdown(s))

FairSpec == Spec /\ Fairness

-----------------------------------------------------------------------------
(* Properties.                                                              *)

\* Every variable has its type and every queue of router.rs keeps to its capacity.
TaskState == {"run", "done", "failed"}
NetRecord == [handler : Seq(Command), peer : Seq(Frame), wire : Seq(Frame),
              router : TaskState, sender : TaskState, receiver : TaskState,
              job : [to : {"chan", "peer"}, f : Frame] \cup {NoJob},
              out : Frame \cup {None}, in : Frame \cup {None}]
NetType == {n \in NetRecord : /\ Len(n.handler) <= HandlerCap
                             /\ Len(n.peer) <= PeerCap /\ Len(n.wire) <= WireCap}
EndsRecord == [chan : Seq(Frame), sink : {"none", "held", "queued", "run", "end"},
               source : {"none", "read", "end"}, data : Frame \cup {None}]
EndsType == {e \in EndsRecord : Len(e.chan) <= ChanCap}
LoginOK ==
    login \in [scene : Scenes,
               at : {"setenv", "await", "register", "size", "sink", "spawn", "source",
                     "wait", "exit peer", "exit self", "ssh", "done", "err"},
               size : 0 .. NResize, notifier : {"none", "waiting", "sent", "got"},
               raw : BOOLEAN, orig : BOOLEAN, term : {"ok", "enter", "size", "leave", "hook"}]
WinchOK == winch \in [st : {"none", "spawned", "on", "failed"}, pending : BOOLEAN,
                      hold : Frame \cup {None}, win : 0 .. NResize, late : BOOLEAN]
UpOK == up \in [link : BOOLEAN, alive : [Side -> BOOLEAN]]
NetOK == net \in [Side -> NetType]
EndsOK == ends \in [Side -> EndsType]
RemoteOK ==
    remote \in [env : BOOLEAN, proc : {"none", "spawn", "sink", "source", "wait", "exit", "end"},
                win : Nat, child : {"none", "run", "deaf", "exited"}, ptyWin : Nat]
IoOK == io \in [typed : 0 .. NIn, inGot : Seq(Nat), inEof : BOOLEAN, inRead : Nat,
                outMade : 0 .. NOut, outRead : 0 .. NOut, outGot : Seq(Nat), outEof : BOOLEAN]
TypeOK == LoginOK /\ WinchOK /\ UpOK /\ NetOK /\ EndsOK /\ RemoteOK /\ IoOK

\* What is typed at the login side reaches the child's stdin in order, without
\* gaps or repetitions, and its end only after all of it: across source, two
\* routers, sender, receiver and sink, whatever fails.
Numbered(n) == [i \in 1 .. n |-> i]
Closed(s) == ends[s].source = "end" \/ ends[s].data = F("Shutdown", 0)
InLink == INSTANCE FifoLink WITH Data <- 1 .. NIn, sent <- Numbered(io.typed),
              closed <- Closed("Local"), got <- io.inGot, eof <- io.inEof
StdinIsFifo == InLink!Spec

\* The same of the child's stdout and local stdout.
OutLink == INSTANCE FifoLink WITH Data <- 1 .. NOut, sent <- Numbered(io.outRead),
              closed <- Closed("Remote"), got <- io.outGot, eof <- io.outEof
StdoutIsFifo == OutLink!Spec

\* The child only ever runs in a process that has applied the SetEnv of login::run,
\* although the two commands pass six queues and a spawned task.
EnvBeforeSpawn == remote.child # "none" => remote.env

\* Somebody lost a queue it still needed: a router or a sender has panicked, or
\* the connection is gone.  Or a call on the local terminal has failed.
Lost == ~up.link \/ \E s \in Side : "failed" \in {net[s].router, net[s].sender}
Broken == Lost \/ login.term # "ok"

\* login::run logs out only on a real exit status, and the remote process is told
\* to exit only then: the child has exited when the notifier fires, when the main
\* task leaves its wait, and when the remote router has taken Exit.
LogoutAfterChild ==
    (\/ login.notifier \in {"sent", "got"}
     \/ login.at \in {"exit peer", "exit self", "ssh", "done"}
     \/ net["Remote"].router = "done")
    => remote.child = "exited"

\* No `?` of login::run returns an error unless something broke: its own router
\* is there for both Exit commands (Send(Exit) must come before Recv(Exit)).
CleanLogout == login.at = "err" => Broken

\* What a login promises, in order and once each: the environment, the start and the
\* exit of the command, its report, the logout, the end of the remote process, the return of
\* login::run; and what may fall out of this order only once something broke.
Phase == CASE login.at \in {"exit peer", "exit self", "ssh"} -> "out"
           [] login.at \in {"done", "err"} -> login.at
           [] OTHER -> "in"
Child == IF remote.child = "deaf" THEN "run" ELSE remote.child
Reported == login.notifier \in {"sent", "got"}
Promise == INSTANCE RemoteRun WITH
    env <- remote.env, child <- Child, login <- Phase, broken <- Broken,
    told <- Reported, server <- IF Alive("Remote") THEN "up" ELSE "gone"
ImplementsRun == Promise!Spec

\* When login::run has returned or its process is gone, and from the exit status on,
\* the terminal is out of raw mode, whichever tasks panic on the way and wherever
\* the main task stands then, unless writing its attributes back failed.  There is one
\* exception: run returns in raw mode, with no panic, if it cannot read the window size.
TerminalRestored ==
    ~Alive("Local") \/ login.at \in {"exit peer", "exit self", "ssh", "done", "err"}
    => ~login.raw \/ login.term \in {"leave", "hook", "size"}

\* `login -N` stays until it is killed: whatever happens to ssh, nothing makes its
\* router end, and so it never gets to log out nor to fail.
StaysWithoutCommand ==
    login.scene.command = "none" => login.at \in {"setenv", "await"}

\* The places of the data that side s sends, the one next to the sink first: the
\* ChannelReceiver, the router, the handler queue and the receiver of the other side;
\* the wire; the sender, the peer queue, the router, the handler queue and the source
\* of side s.  A command for somebody else stands in a handler queue as None.
Slot(f) == IF f = None THEN <<>> ELSE <<f>>
JobFor(s, to) == IF net[s].job.to = to THEN <<net[s].job.f>> ELSE <<>>
Told(c, k) == IF c.k = k THEN c.f ELSE None
Cmds(q, k) == [i \in 1 .. Len(q) |-> Told(q[i], k)]
Places(s) ==
    <<ends[Other(s)].chan, JobFor(Other(s), "chan"), Cmds(net[Other(s)].handler, "Recv"),
      Slot(net[Other(s)].in), net[s].wire, Slot(net[s].out), net[s].peer,
      JobFor(s, "peer"), Cmds(net[s].handler, "Send"), Slot(ends[s].data)>>

\* A resize that the window-change task heard (its signal handler was installed) once
\* Spawn was enqueued is not forgotten: as long as that task runs, the remote sink can
\* apply it and nothing broke, the pseudo-terminal has the new size or the size is on
\* its way, and the last size on its way is the newest.
SizesUnderWay == [Places("Local") EXCEPT ![10] = Slot(winch.hold)]
Sized(f) == f.t \in {"WindowSizeChange", "Spawn"}
NoSize(q) == \A i \in 1 .. Len(q) : ~Sized(q[i])
SizedLast(q, size) == \E i \in 1 .. Len(q) : /\ Sized(q[i]) /\ q[i].v = size
                                            /\ \A j \in i + 1 .. Len(q) : ~Sized(q[j])
LastSize(size) ==
    \E p \in 0 .. 10 : /\ \A i \in p + 1 .. 10 : NoSize(SizesUnderWay[i])
                       /\ IF p = 0 THEN remote.ptyWin = size
                                   ELSE SizedLast(SizesUnderWay[p], size)
LateResizeKept ==
    /\ UsePty /\ winch.late /\ winch.st = "on" /\ login.at \in {"source", "wait"}
    /\ ends["Remote"].sink # "end" /\ ~Broken
    => winch.pending \/ LastSize(winch.win)

-----------------------------------------------------------------------------
(* Ways in which bounded queues stop a session for good.                    *)

Blocked(s) == /\ net[s].job.to = "chan" /\ Registered(s)
              /\ Len(ends[s].chan) = ChanCap

\* The remote router waits for room in a channel whose Sink command, which would
\* start its reader, can only come after: input outran process::run.
SinkBehindData == Blocked("Remote") /\ ends["Remote"].sink \in {"held", "queued"}

\* The remote router waits for a sink that waits for the child to read its stdin:
\* that may be never, the child being gone if it has a pseudo-terminal.
Unread == /\ Blocked("Remote") /\ ends["Remote"].sink = "run"
          /\ UsePty \/ remote.child = "run"
          /\ Len(io.inGot) - io.inRead = PipeCap

\* Both routers wait for their peer queue; every queue between them is full.
Jam == \A s \in Side : /\ net[s].job.to = "peer" /\ Len(net[s].peer) = PeerCap
                       /\ net[s].out # None /\ Len(net[s].wire) = WireCap
                       /\ net[s].in # None /\ Len(net[s].handler) = HandlerCap

\* The local router waits for a sink that waits for the reader of local stdout: that may
\* be never (a pager, a stopped terminal), and ProcessExit is behind.
StdoutUnread == Blocked("Local") /\ ends["Local"].sink = "run"

Stuck == SinkBehindData \/ Unread \/ StdoutUnread \/ Jam

\* Once the child has exited login::run returns, unless something broke or the
\* queues are stuck for good.
LoginReturns ==
    \/ <>[]Stuck
    \/ remote.child = "exited" ~> login.at = "done" \/ Broken

\* If somebody reads local stdout, what the remote source has read comes out there, unless
\* the session ends first (ProcessExit does not wait for the output), breaks or is stuck
\* for good.
StdoutIsRead == WF_vars(WriteStdout)
OutputArrives ==
    StdoutIsRead =>
        \/ <>[]Stuck
        \/ \A n \in 1 .. NOut :
               io.outRead >= n ~> \/ Len(io.outGot) >= n \/ login.at = "done"
                                  \/ ends["Local"].sink = "end" \/ Broken

-----------------------------------------------------------------------------
(* What the unwraps of router::spawn say, and what is not so.               *)

\* router.rs:271, `router(handler_rx, peer_tx).await.unwrap()`: while the
\* connection holds, the router task does not fail.
RouterNeverFails == \A s \in Side : up.link => net[s].router # "failed"

\* router.rs:268, `receiver(source).await.unwrap()`: while the connection holds,
\* the receiver task does not fail.
ReceiverNeverFails == \A s \in Side : up.link => net[s].receiver # "failed"

\* login.rs:37, "Multiple `-t` options force tty allocation, even if `ssh` has no local
\* tty": with -tt, login::run does not fail for want of a local terminal.
ForcedTty == login.scene.force >= 2 /\ "terminal" \notin login.scene.faults /\ ~Lost
             => login.at # "err"
=============================================================================
