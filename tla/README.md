# Verification of rsrs

rsrs ("Rust remote shell") runs commands on hosts that are reached through ssh
or anything else that gives a byte stream. This directory holds TLA+ modules
that model its core logic, the TLC configurations that check them on small
instances, and proofs for TLAPS. Source paths are given relative to the
repository's root, so `src/router.rs` below is `src/src/router.rs` in
`PROJECT.json`, whose paths start one directory higher.

## 1. The system

### Processes

* **`rsrs login host cmd`** starts `ssh host rsrs remote`, talks to it over the
  pipes of ssh, and lets one remote command appear as if it ran locally: stdin,
  stdout, window size, exit status.
* **`rsrs remote`** is the other end. It runs the command on a pseudo-terminal or
  on pipes.
* **`rsrs daemon`** is one server per user, listening on a UNIX socket. It keeps
  the nodes of a network of hosts.
* **`rsrs open cmd`** connects to the daemon's socket, launches a leaf process
  through `cmd` (on pipes, in a session of its own), waits until the leaf prints
  a magic number, and hands the descriptors of its stdin, stdout and stderr over
  to the daemon, which then speaks the handshake.

### Components, their state, operations and what makes them correct

| Component | Source | State | Operations | Correct when |
|---|---|---|---|---|
| Router tables | `router.rs:20-171` | two tables, each a generational arena and a map from ids to its indices, in a global mutex; a receiver's destructor changes them | insert, get, take, drop | map and arena never disagree (the destructor panics otherwise); dropping one receiver never ends the registration of another |
| Router, sender, receiver task | `router.rs:173-273` | three bounded queues of 64 and the wire; what each task holds | ten commands of the router; write and read of frames; the end or panic of each task | streams are FIFO; SetEnv before Spawn; a logout follows the exit of the child; no task's unwrap fires; nothing waits for ever |
| Endpoints | `endpoint/process.rs`, `sink.rs`, `source.rs` | the child, its pseudo-terminal or pipes, the receiver of a channel | spawn, start of sink and source, wait, ProcessExit; write, resize, shutdown; read, end-of-file | output is complete and in order; the exit status is sent once and only after the exit |
| login command | `command/login.rs` | where the main task stands, raw mode, the pending SIGWINCH | the sequence of `run`; the window-change task; the panic hook | returns after the exit; the terminal is restored on the way out; a resize that is heard is not lost |
| Daemon socket | `daemon/command.rs:24-114` | the socket file | `setup_socket`, in six system calls | a running server is reachable, a stale file keeps nobody out |
| Daemon requests | `daemon/command.rs:36-68,116-190` | one task per connection | serve, receive three file descriptors, answer | framing and file descriptors stay in step |
| open command | `command/open.rs` | the leaf on its pipes, three forwarding tasks | forward stdout until the magic number, stdin and stderr until interrupted, hand over | every byte goes to exactly one of terminal and daemon; success means the leaf is connected |
| Daemon network | `daemon/network.rs`, `daemon/mod.rs` | NODE_STORE: name to Handshake or Connected | insert under a generated name, handshake, connect | one node per name; Connected only after the handshake |
| Name generator | `namegen/` | none | a random pair of words | matters only to the store's insert |
| Terminal, ioctl | `terminal.rs`, `ioctl.rs`, `tokio-pty-command/` | the terminal's attributes | raw mode on and off, window size, pty master | the first attributes come back |
| Framing, descriptors | `common/` | none of their own | length-delimited bincode, evented descriptors | left to the libraries |
| Command line | `main.rs`, `command/mod.rs`, `prelude.rs`, `protocol/cli.rs` | none | dispatch | - |

### How they interact

A command of the login side crosses: the handler queue of the login process, its
router task, the peer queue, the sender task, ssh, the receiver task of the
remote process, its handler queue, its router task and, for stream data, the
channel of a sink task. The way back is the mirror image. Tasks inside a process
share the `ROUTER` tables under a mutex; everything else goes by bounded tokio
channels, whose send waits for room and fails as soon as the receiving half is
dropped. Failure is signalled in no other way: each of the three tasks of
`router::spawn` unwraps its result, so that an error is a panic of that one task
which drops its half of the queues.

### What is hard here

* A sender obtained under the mutex is used after it was released.
* The one router of a process waits for the room in one sink's channel, and the
  command that starts that sink passes the same router.
* The handler queue carries received frames and frames to be sent
  (`router.rs:47` has a FIXME on back-pressure).
* Exit, ProcessExit and Shutdown come from different tasks, and only some of
  them order each other.
* Raw mode is left by the main task and by the panic hook, but by none of the error
  returns in between.
* A write to local stdout, or to the child's stdin, waits as long as nobody reads, and
  the one router of that process with it.
* The daemon's socket path is checked and changed by name in six system calls.
* The magic number arrives in pieces of any length after text that contains
  parts of it.
* Descriptors travel beside the framed requests on one socket.
* The leaf's stdin has two writers in turn, and the store of nodes is unlocked
  during the handshake with a leaf.

`PROJECT.json` lists each of these hazards at its line, with the properties that
watch it.

## 2. The modules

| Module | Models | Used by |
|---|---|---|
| `Leases` | what a table of the Router promises | `LeaseTable` (refinement) |
| `LeaseTable` | `Router`, its two-structure tables and the receivers | `LeaseTableProofs`, `MCLeaseTable` |
| `FifoLink` | what a session promises for one stream | `Session` (refinement, twice) |
| `RemoteRun` | what `login` promises about the command it runs | `Session` (refinement) |
| `Session` | `router`, `sender`, `receiver`, `process::run`, `sink::run`, `source::run`, `login::run`, in both processes of one login | `SessionProofs`, `SessionOrderProofs`, `SessionDataProofs`, `MCSession` |
| `Duplex` | the pipelines between the sources and the sinks, for any amount of data in both directions | `DuplexProofs`, `MCDuplex` |
| `SocketSetup` | `setup_socket` | `SocketSetupProofs`, `MCSocketSetup` |
| `MagicForward` | `forward_until_magic` | `MagicForwardProofs`, `MCMagicForward` |
| `Introduction` | what `open` and the daemon promise about a leaf | `OpenLeaf` (refinement) |
| `OpenLeaf` | `open::run` with its forwarding tasks and `delegate_fd`, the daemon's `serve`, `connect_to_leaf` and `NodeStore`, the leaf's `setup_leaf` | `OpenLeafProofs`, `MCOpenLeaf` |

### LeaseTable and Leases

`idMap` is the HashMap, `arena` the slots of the generational arena, `gen` its
generation, `live` the receivers not yet dropped. `Insert`, `Take` and `Drop` are
the methods, each one step since each runs under the mutex; `Drop` is what the
destructors of `ChannelReceiver` and `StatusReceiver` do. The arena is a library;
it is modelled from its contract: a slot is found only by its index and its
generation, and a removal advances the generation. `Leases` says it without the
two structures: a registration is for one receiver, and ends by that receiver or
by `Take`.

### Session

The two processes are `Local` and `Remote`; `net`, `ends` and `up` have one
record per side, `login` and `winch` belong to the login process, `remote` to
the other, and `io` holds what the user and the child have seen of the streams.

* **A step is what a task does between two awaits.** `RouterLookup` looks a sender
  up under the mutex and `RouterDeliver` sends later, so that the sink may end in
  between (`RouterFail`). `SenderTake`/`SenderWrite` and
  `ReceiverRead`/`ReceiverPush` are separated in the same way.
* **Queues.** `Sends` is a tokio send: it waits for room; `SendFails` is the same
  send once the receiver is gone. When the router ends, its queue goes with every
  command in it, and a `Sink` command takes its `ChannelReceiver` along
  (`RouterEnds`).
* **One id.** `login` makes one id, so the tables reduce to whether this id is
  registered (`Registered`); that lookup and drop behave that way for many ids
  is what `LeaseTable` shows.
* **Data.** A chunk read by a source is its number. A frame is a type and a number.
* **Streams.** With pipes, the child's stdin may be closed or the child may be gone
  (`SinkFail`), and its stdout ends when it has exited and was drained. With a
  pseudo-terminal the master takes data even after the child, until its buffer
  is full, and reading it fails with EIO at the end, so that no `Shutdown` comes
  (`ReadFail`). A write to local stdout (`WriteStdout`) is possible at any time, but nothing
  makes it happen.
* **Panics.** `PanicHook` is the login process's hook, which leaves raw mode and runs
  in whichever task panics.
* **Process ends.** The remote process ends after its router; tokio's runtime waits
  only for a blocking read of stdin or write of stdout, so other tasks may or may
  not have run (`RemoteShutdown`). `LocalShutdown` is the return of `login::run`:
  its tasks and the pipes to ssh are dropped.
* **Scenes.** `Init` picks one of `Scenes`: what `login` was asked to run (`-N`, a
  login shell, a program), `-T`, how many `-t`, whether local stdin is a terminal, and
  the faults that may happen in it. `UsePty` is the choice of a pseudo-terminal
  (`login.rs:76-95`), and `EntersRaw`, `MainSize`, `MainSizeFail`, `AfterSetEnv` and the
  streams follow from it.
* **RawMode.** `login.raw` is the mode of the terminal, `login.orig` whether `RawMode`
  holds attributes to go back to, `login.term` which call on the terminal failed: entering
  or leaving raw mode, in the main task or in the hook, or reading the window size. `Entered` and
  `Left` are the methods. Its destructor is no action: the panic hook owns a clone of
  the `Arc` for as long as the process lives. A failure inside the hook is a panic
  within a panic, and aborts the process (`Abort`).
* **Faults**, those of the scene: the connection breaks and loses or still
  delivers what was under way, the last frame perhaps in part (`Torn`); an early `?` of
  `process::run`; a failing read or, in raw mode, the end (a hang-up, since VMIN is 1) of local stdin, a failing write of local stdout; a line of ssh's stderr
  that is no UTF-8 (`StderrFail`); a failing `tcsetattr` or window size of the local terminal
  (`MainEnterFail`, `MainSizeFail`, `LeaveFails`); a failing window size of the child's terminal
  (`ResizeBreaks`).

`FifoLink` is the promise for a stream: it delivers a prefix of what went in, and
end-of-file only after everything. `RemoteRun` is the promise for the command: the environment is
set, the command started, it exits, the exit is reported, `login` logs out, the remote process ends,
and `login::run` returns, each once and in this order. Something may break at any point (`Broken`
below); then the remote process may end before, and `login::run` return without it or with an
error, but the rest of the order stays.

### Duplex

The part of `Session` between the sources and the sinks, without what starts and ends
it and without counting the data: every frame is like every other, a queue is the
number of its frames, and only the handler queue is a sequence, because it mixes what
was received with what is to be sent. `feeds` is chosen at the start: the sides whose
source has something to read, now and always. `pipe` is what was written on each side and not yet read: by the child, or by whoever reads
local stdout. Neither has to read (`PipeReads`), and a full pipe makes the sink wait. Every step of
a task has its guard as an operator of its own (`CanPush` to `CanSink`), so that `Halted`, no task
can go on, needs no ENABLED.

### SocketSetup

`pc` is where each daemon stands, one label per system call: `exists`,
`metadata`, `connect`, `remove_file`, `bind`, `listen`. A socket is named by the
daemon and the number of its start; `path` is the file, `listening` the sockets
that have a listener. The path may be taken from the start by a file that is no
socket (`Foreign`), at which the `ensure!` of `Metadata` gives up. `Crash` is a signal, at any label: the `SocketGuard` does not
run then, nor ever, since nothing returns from `command::run`. `overlapped` and
`killed` record the history the properties refer to and influence nothing.

### MagicForward

`input` is the whole stream, `pos` how much was read; the first `matched` bytes of
the magic number are held back in the buffer; `out` was written. `Read(n)` is
one pass of the loop in which the read returned `n` bytes; `StartIdx` is the search
for the next start position.

### OpenLeaf

Every member of `Opens` is one `rsrs open` with its forwarding tasks, the leaf it
launched, its socket and the daemon's task for that socket; `nodes` is the
daemon's `NODE_STORE`, which they share.

* **open.** `client` is the main task, one label per await; `fwd` the three forwarding
  tasks. `Chunk` is the read that the `select!` of `forward_until_interrupted` takes and
  `WriteIn` or `WriteErr` the write that follows, which the interrupt does not reach.
  `forward_until_magic` is one step here, `Magic`: `MagicForward` is its detail, and
  its `NoOverRead` is why the leaf's output is left exactly behind the magic number.
* **The socket.** `sock` holds framed requests and descriptors in one queue, as the kernel
  does. `NextRequest` is the framed reader and takes all there is; `RecvFd` takes one item.
* **The daemon.** `Insert` and `Mark` are the two critical sections of
  `connect_to_leaf`. `insert` draws until a name is free, so that it returns some
  free name, or none and spins with the lock held (`Spinning`), when `Mark` has to wait
  too; `Init` lets earlier, failed handshakes have left up to `NLeft` names in the store,
  so that the names can run out. When `connect_to_leaf` returns, it drops the leaf's stdin and stdout: what is to
  use them is not written yet. The leaf has left `setup_leaf`'s reads by then.
* **The leaf** is external until it runs `setup_leaf`: `LauncherReads` is what ssh or sudo
  read of the user's typing before. Typed bytes that come in front of the Handshake are
  taken as the length of a frame (`LeafGarbage`): the leaf fails, or waits for
  that many bytes.
* **Faults**: the open process may be killed, and the leaf may die, at any point
  (`Kill`, `LeafDies`). A daemon that is killed is the business of `SocketSetup`.

`Introduction` is what all that is for, without sockets, descriptors and tasks: a name is
given (`Give`), learnt (`Learn`), connected (`Join`) and reported (`Succeed`), once each and in
this order; an open may fail at any point (`Fail`), and nothing takes a name back.

## 3. The runs

| Run | Question | Instance |
|---|---|---|
| `lease_table` | can the expects of the destructors fire, can a lookup reach a stranger, do the tables implement `Leases`? | three ids over two slots, four removals: slots are reused while receivers of earlier leases live |
| `session_safety` | do both streams come out as they went in, is SetEnv applied first, is the logout after the exit, is the session a `RemoteRun`; can `login::run` fail without a cause, leave the terminal raw, leave `-N`, forget a resize it heard after `Spawn`? | queues of one; a shell at a terminal, a program in a script, `-tt` in a script, `-N`; at the terminal two chunks in any mixture of directions, one chunk with the faults on its way, or two resizes; no data with the other faults |
| `session_live` | does `login::run` return, does the output arrive, are both streams in order up to their ends? | pipes, one chunk, fairness of the tasks |
| `session_router_panics` | is `router(..).await.unwrap()` justified? (no) | pipes, one chunk of input |
| `session_receiver_panics` | is `receiver(..).await.unwrap()` justified? (no) | pipes, no data at all |
| `session_forced_tty` | does `-tt` without a local terminal work? (no) | `-tt` in a script, no data, no fault |
| `duplex` | how can the pipelines come to a halt, and is a jam for ever? | queues of one, no bound on the data |
| `socket_starts` | what does `setup_socket` guarantee? | three daemons, two starts each, every interleaving and kill, no file or one that is no socket at the start |
| `socket_race` | is a running server reachable when starts overlap? (no) | two daemons, two starts each |
| `magic` | is every byte in the right place, for every partition into reads? | all streams of three letters up to length 8 |
| `open_two` | does each task keep its node, do both ends agree on names, does success mean connected, is it an `Introduction`? | two opens, two names beside the daemon's, one of them perhaps used up, nothing typed, every kill; symmetric in the opens and in the free names |
| `open_one` | do requests and descriptors stay in step, does each stream have one owner, does `open` return? | one open, two typed chunks, one on stderr, fairness |

### What the properties say

* `NoCorruptStatus`, `LookupFindsOwner`, `TableInv`, `ImplementsLeases`: the two
  structures behind one id never disagree.
* `StdinIsFifo`, `StdoutIsFifo`: `Session` implements `FifoLink` for each stream, with
  any failure and any order of the tasks.
* `EnvBeforeSpawn`: the child never runs in a process that has not applied SetEnv.
* `LogoutAfterChild`: neither the notifier nor an Exit precedes the child's exit.
* `CleanLogout`: `login::run` returns an error only after something broke: a router or a
  sender panicked, the connection was lost, or a call on the local terminal failed (`Broken`). The
  order of its two Exit commands matters here.
* `ImplementsRun`: the order above as a whole. It adds what no invariant says: that nothing happens
  twice or is undone, that the remote process ends only when it was told to or its router panicked,
  and that `login::run` returns only after that process or a lost connection.
* `TerminalRestored`: after the exit status, whenever `login::run` has returned and
  when its process is gone, raw mode is off, with two exceptions. One is that writing the old
  attributes back failed. The other is the error return of `login.rs:206`: if the window size cannot
  be read, `run` returns in raw mode without `leave`, without a panic, and without a destructor. The
  other error returns between `enter` and `leave` have no `leave` of their own either; they are fine
  because each of them follows a panic, whose hook has left raw mode.
* `StaysWithoutCommand`: `login -N` waits for its router, and neither a lost
  connection nor a panic of another task ends that wait.
* `LateResizeKept`: a resize that the window-change task heard once Spawn was enqueued is, as long
  as this task runs, pending, in the pseudo-terminal or still under way as the newest size. Other
  resizes may be lost, and are so in the model: one before Spawn, because the size is read before
  Spawn is sent (`login.rs:200-231`); and one before the task's first poll, which installs the signal
  handler (`login.rs:183-184`), even if Spawn has been enqueued by then.
* `LoginReturns`: once the child has exited `login::run` returns, unless something broke or the
  queues are stuck for good. `Stuck` is one of four states bounded queues can reach: the channel of a
  sink full before its Sink command was taken (`SinkBehindData`); a child, or a pseudo-terminal after
  its child, that does not read its input (`Unread`); a local stdout that nobody reads, with
  ProcessExit behind the output (`StdoutUnread`); both pipelines full (`Jam`). A session whose
  connection is lost, or whose child could not be started, waits for ever: the property does not
  speak of these.
* `OutputArrives`: if somebody reads local stdout (`StdoutIsRead`, an assumption on the user, not on
  the code), what was read from the child comes out there. The exceptions are those of
  `LoginReturns`, the end of the local sink, and the logout: `ProcessExit` does not wait for the
  output that was read before it, which is lost then. So the property does not show that no output
  is lost at the end, which is not so; it shows that nothing else withholds it.
* `HaltsOnlyStuck`: of the ways to be stuck, `Duplex` can reach three, a child or a local stdout that
  is not read (`Unread` of either side) and `Jam`, and there is no other: otherwise the tasks go on
  until nothing is under way.
* `OneWayNeverJams`, `JamIsForever`: a jam takes data in both directions, as in
  `rsrs login cat < bigfile`; and nothing resolves it, neither a child that reads on nor a
  local stdout that takes everything.
* `EveryStepCounts`: every step of a task brings one frame one place further; none is
  lost, doubled or sent back. As the sum of the steps to go is a number, the tasks
  cannot go on for ever without reading: with `HaltsOnlyStuck`, what was read arrives
  unless the pipelines are stuck.
* `ReachableAlone`, `FailureHasReason`: while starts do not overlap, a running server
  owns the path, and a daemon refuses to start only because of another one that runs or of a
  file that is no socket.
* `SomeoneReachable`: while nobody is killed, the path ends up with a listener however
  starts overlap, if the file there was a socket or none.
* `NothingLost`, `NoOverRead`, `FindsFirst`: what is written, held back and left in
  the stream is exactly the stream; the loop stops right after the first magic
  number.
* `InStep`: the framed reader never meets a descriptor, `recv_fd` never a request, and
  the three descriptors are received in the order in which they are unpacked.
* `OneOwner`: before the daemon has any of the leaf's streams, the three forwarders are
  through, and nothing the user types comes after the Handshake.
* `NodeIsMine`: the node a task comes back to after the handshake is its own and still in
  Handshake, so that neither the `unwrap` nor the `unreachable!()` of `connect_to_leaf` fires.
* `NamesAgree`: the leaf has the names the daemon gave it, and they differ.
* `SuccessIsConnected`: `open` reports success only for a leaf that is Connected in the store, and
  only a leaf that took part in the handshake is. A failed handshake leaves its
  node in Handshake for good, and its name in use; the code has no other way.
* `ImplementsIntroduction`: the order of all this, for each open, and that none of it is
  done twice or undone: no step gives a used name, connects a node whose leaf has not learnt its
  name, or changes what was reported, whoever dies in between.
* `OpenReturns`: once the leaf is launched, `open` ends with success or failure, unless what was
  typed reached the leaf before the Handshake and is waited for, or the names
  have run out.

### Disagreements between the code and what it says of itself

Four runs end with a counterexample, and each is listed in `PROJECT.json` under
`findings`:

1. `session_router_panics`. `get_channel` returns a sender; the sink's task ends by a
   write error because the child closed its stdin; the send fails, `router` returns
   the error, and the `unwrap` at `router.rs:271` panics. With the remote router
   gone no exit status is ever sent.
2. `session_receiver_panics`. `ProcessExit` overtakes the child's end-of-file. The login
   side tells its router to exit, the `Shutdown` frame arrives, its send finds no
   queue, and the `unwrap` at `router.rs:268` panics in the middle of a normal
   logout.
3. `session_forced_tty`. `login.rs:37` says that several `-t` "force tty allocation, even if `ssh` has
   no local tty". The choice at `login.rs:76-95` is for a pseudo-terminal then, but `login.rs:206` asks
   stdin for its window size, which fails: `run` returns before Spawn is sent.
4. `socket_race`. Two daemons find a stale file or one that is bound but not yet
   listening; the second one removes, by name, the file of the first, which then runs
   unreachable.

### Bounds

Queues hold one element in place of 64 and the wire one frame: waiting for room,
the interesting case, then happens after one element. A larger queue only delays
it: the code never asks for the length. Two chunks suffice to see an exchange, a gap
or a repetition, since `FifoLink` compares each chunk with its place. Two
resizes are needed for one that comes while the previous one waits. Three ids
over two slots let an id find its slot taken by another one, and four removals let
a slot be reused twice. Three daemons let two interfere with a third; two starts let
a daemon meet its own old file. Eight bytes against a word of six hold every
overlap of the word with a shifted copy of itself; the word has the overlaps of
`protocol::MAGIC`, which begins and ends with a zero byte. The scenes of `session_safety` are a set because `Init` picks
one: two chunks of data without faults; each fault in a session in which it has something to
disturb, with a chunk under way or a resize where that makes a difference, since what a fault does
depends on where the tasks stand and not on how much went before; two resizes without a fault, one with
what may fail of them. A pseudo-terminal carries the two chunks there; pipes, whose ends are Shutdown frames
that follow the data, carry one in `session_live`, which checks both streams as well. That run has one chunk: with the end of its
stream behind it, it fills a channel and the router, so that `SinkBehindData` and `StdoutUnread`
occur. `Unread` and `Jam` need more chunks than that; they are named so that the statement is
true for every value of the constants. `Duplex` reaches them with queues of one; its proofs are for
all capacities.
Two opens are enough
for tasks that meet only in the store, and two free names let both succeed, or a
failed one use up a name; with one name left over from before, one of two opens finds none,
and with both left over the only one. `open_two` leaves the typing to `open_one`: a leaf it kills or
blocks is one that dies or takes its time there. Two typed chunks let one arrive before and one be in hand at the
interrupt; the leaf's stdin has room for two items, so that a third waits.

`CHECK_DEADLOCK` is off throughout: a session or an `open` ends, a daemon serves, and
the bounds stop insertions and starts. `open_two` uses symmetry, which is sound there:
it checks invariants and the steps and initial states of a refinement, no liveness, and these, `Init`
and `Next` treat all opens, and all names but the daemon's, alike.

### Fairness

`FairSpec` asks weak fairness of each task: tokio polls a task that was woken, and its
semaphore serves waiting senders in order, so a task that can go on does. A task
blocked in a write is not enabled. There is one write of which the model does not say whether it is
blocked: the one to local stdout waits for whoever reads it, which may be nobody for as long as a pager
or a stopped terminal pleases. So `WriteStdout` has no fairness; `OutputArrives` has it as the hypothesis
`StdoutIsRead`, and `LoginReturns` does without. The user, the child, the terminal, the link and
the faults owe nothing: the child may never exit or never read. `Shutdown` of a
process is fair since the runtime then only drops tasks. `MagicForward` assumes that
the loop goes on while the stream does. `OpenLeaf` asks it of the main task, each forwarder
and the daemon's task, and of the leaf: a launched command becomes a leaf or dies. That is an
assumption on the command; the user, the launcher's reading and every kill owe nothing.

## 4. The proofs

TLAPS proves the following for every value of the constants, from the `ASSUME`s of
the modules, which say no more than the types of the constants.

**`LeaseTableProofs`.** `TableInv` is inductive: the map and the arena are each
other's inverse (`MapMatchesArena`), an entry has its receiver alive
(`EntryHasReceiver`), and no index of the current generation is out without its
entry (`GenTellsReuse`). The last part is what makes a reused slot safe:
without it, an insertion could give a new entry the index an old receiver remembers.
`NoCorruptStatus` and `LookupFindsOwner` follow, and with them every step of the table
maps to a step of `Leases`.

**`SocketSetupProofs`.** `SetupInv` has two conditional parts. While starts have not
overlapped, `PathAsSeen` says that what the daemon learned about the path is still
so when it acts on it, and that nobody runs when it removes the file. While nobody
was killed, the file belongs to a daemon that listens or is about to
(`FileHasOwner`), and while there is no file somebody will still bind
(`FileIsComing`). The second part holds even when one daemon removes another's
file, because the one who removes goes on to bind. `ReachableAlone`,
`SomeoneReachable` and the action property `FailureHasReason` follow.

**`DuplexProofs`.** `HaltsOnlyStuck` needs no invariant but `TypeOK`: a side is either quiet or
backed up. `QuietSide` says that where no task of a side can go on and its router holds
nothing, the side has nothing under way; `FullSide` that a router that waits for its
peer queue has everything behind it full as far as the other side's handler queue.
Joined, that is `Idle`, `Unread` of a side or `Jam`. `JamIsForever` is a look at each step under `Jam`.
`OneWayNeverJams` needs that a side without a source never
has anything to send (`SilentSides`), which is inductive. `EveryStepCounts` is arithmetic with a
queue in it: the number of frames of a kind in the handler queue is that of its places which hold one
(`Queued`), a finite set, and an append adds a place to it (`QueuedAppend`) while taking the first
shifts it (`QueuedTail`). Each step of a task then takes one from the weighted sum, and a
read adds what a frame has to go.

**`MagicForwardProofs`.** The invariant has four parts: what is held back is a proper
beginning of the magic number, and it is the end of what was read (`Held`); what was
written is everything before it (`Written`); no magic number begins in what was written
(`NoneBefore`); and what the loop returned agrees with that
(`Ended`). The pass of the loop that does not find the magic number starts over at the
least position from which the buffer still agrees with it; that there is a least one is
well-foundedness of `<` on the naturals, and that no earlier start can lead to a match is
`NoneBefore` after the step. It holds for every non-empty magic number, so that `protocol::MAGIC`
is one case.

**`OpenLeafProofs`.** `OpenInv` says what the parties of one `open` know of each other, and
what the opens share. `Handover`: the daemon's task waits for the item that `open` sends next
or has sent, or it has taken it and answers; there is never more than one item on the
socket, because each waits for the other. `Owner`, `Output` and `Input`: once an item is on
its way the three forwarders are through, so that the leaf's stdout holds only the answer to the
Handshake and its stdin no chunk behind the Handshake. `Store`: a name belongs to one task,
the node behind it is in Handshake until that task marks it, and a Connected node has its leaf. None of
them is inductive alone: that the forwarders are through follows from the position of `open`, that
they stay so from the position of the daemon's task. Each action has a lemma; an action of one open leaves
the others' part alone (`OthersOK`), and unless it draws, learns or marks a name also the store
(`StoreQuiet`). `InStep`, `OneOwner`, `NodeIsMine`, `NamesAgree`, `SuccessIsConnected` and `TypeOK`
follow. So does the refinement of `Introduction` (`OpenIntroduces`): most steps are stutters, and for
the others the invariant gives the guard. The node is still in Handshake when the leaf reads its names, and
when `Mark` comes back to it; `open` hears of a success only when its node is Connected; and a leaf
learns both names or neither (`KnownTogether`).

**`SessionProofs`.** `TypeOK` of `Session` is inductive: every queue of `router.rs` keeps to
its capacity, for any capacities, any amount of data and any set of scenes. The proof goes
field by field (`NetFields`, `EndsFields`), operator by operator (`SendsType`,
`PopType`, `RouterEndsType`) and then task by task.

**`SessionOrderProofs`.** What matters about the order of a session, for any capacities, data
and faults. None of the properties is inductive: each depends on what is in the queues.
`Inv` says it in seven parts.

* `TrafficInv`: who may send what. Every queue and every task holds frames that its
  senders may have sent by now; `Exit` and `ProcessExit` are among them only once the child
  has exited, and `Exit` only once the main task is on its way out (`Leaving`).
* `ExitInv`: hence `LogoutAfterChild`, and that the own router ends only after
  `login::run` has sent its `Exit`.
* `SpawnOnce`: Spawn is in one place: yet to be sent, in one queue, in one task, or taken. So
  `process::run` is started once, and the expect of `insert_channel` holds.
* `Silent`: until then the remote process only receives. So its router cannot fail or end.
* `EnvFirst`: as long as SetEnv is not applied it is the next frame on the way to the remote
  router, or it was lost with the connection and nothing behind it gets through. Queue
  by queue this is `EnvNext`: whatever is ahead being empty, the first of this
  queue is SetEnv. With `Silent` this gives `EnvBeforeSpawn`.
* `Opening`: up to the choice of a command the login process has sent SetEnv alone, so
  that its router has nothing to fail on. `StaysWithoutCommand` rests on it, and so does raw
  mode: it is entered with the router running.
* `RawInv`: while `login::run` is between `enter` and `leave`, the terminal is raw only as
  long as the router runs, or because `tcsetattr` failed in the hook; a router that ends there has
  panicked, and the panic hook has left raw mode. That is why the error returns that follow a failed
  send need no `leave` of their own: `TerminalRestored`. The one that follows a failed window size
  does, and is its exception.

The proof first turns every step into one of a dozen moves of a frame (`NetMove`: a
command is enqueued, popped, forwarded, taken, written, received, pushed or
lost), so that the parts about queues look at the moves and not at the actions. `CleanLogout`
needs in addition that what has broken stays broken (`StaysBroken`). From the same
invariant each step maps to one of `RemoteRun` or to a stutter (`SessionRuns`): nine kinds of steps have
a lemma, and of the others the promise sees at most that something broke (`RunUnseen`, `RunBreaks`).

**`SessionDataProofs`.** First, that each stream implements `FifoLink`: what a session reads on one
side it writes on the other, in order, without gaps or repetitions, and the end of the
stream only after all of it. The invariant has two parts.

* `OnceInv`: each of the four tasks that read or write a stream starts once, its command is in
  the queue at most once, and only a source that reads holds a frame.
  Without it a second source would repeat the numbers of the first.
* `DataInv`: for each direction, `Carried`. A frame on its way stands in one of ten places
  (`Places`), counted from the sink: the `ChannelReceiver`, the router, the handler queue and the
  receiver of the other process, the wire, the sender, the peer queue, the router and the handler
  queue of the own process, the source. Each frame has its `Number`: Spawn is 0, chunk *n* is *n*, and
  `Shutdown` comes after all the chunks. `Carried` says that there are numbers
  *c*(0) <= ... <= *c*(10), from what the sink writes next to what the source has read, such that
  place *i* holds the frames after *c*(*i* - 1) up to *c*(*i*), each once and in order (`Linked`).
  Spawn has a number because a remote router that takes a chunk before it has taken Spawn would
  drop it: there is no `ChannelReceiver` yet.

A fault takes away whole places, and those behind it are not accounted for any more: `Live` are the
places whose frames can still reach the sink. A failing sender loses the peer queue, but then no
frame from there on is waited for; a router that ends loses the handler queue, and so on. Live
places only ever become fewer (`LiveShrinks`). That is why the theorems need no assumption about
faults: what was delivered stays a beginning of what was read.

The proof is in three layers. The lemmas about rows of ten places know nothing of the session: a frame
moves to the next place, leaves at the head, joins at the tail, and the row stays one
(`RowMoves`). `StepMoves` shows that every step of a session, with a lemma per task, is such a
move of each of the two rows; the steps that put a frame into a row or take it out have lemmas of
their own. `LinkSteps` and `FifoSteps` then map each step to a step of `FifoLink` or to a
stutter, which gives `SessionStdinIsFifo` and `SessionStdoutIsFifo`.

Second, `LateResizeKept`, from the same rows: the sizes on their way (`SizesUnderWay`) stand in the
places of the data, but for the last, which is what the window-change task holds. The property is about
sessions that still carry sizes (`Flowing`), and it is not inductive for three reasons, each
of which is a part of `SizeInv`.

* `GoneInv`: a process is there as long as its main task is in its midst, and the login process's
  sender as long as its router. Hence all ten places can reach the sink (`AllLive`): a size
  would otherwise be lost with a place and nothing broken.
* `SizeOrder`: a resize is counted as late only after Spawn was enqueued and the signal handler
  installed, so the size in Spawn is older than it. When the child starts, its pseudo-terminal takes that older size, and must not pass for having the new
  one.
* `SizeRow`: a size that reaches the remote router before Spawn is dropped, because there is no
  `ChannelReceiver` yet. Until Spawn was taken, it is therefore in the row (`HasSpawn`), and what is dropped
  in front of it is not the newest size: Spawn, which has one, is behind it.

What is left is the newest size itself: while the task that heard it runs (`HeardLate`), it is pending, or the last one in the row (`Latest`). Most steps
only move frames, and a row that moves keeps its last size (`SizeMoves`); the steps that take, send, drop or
apply a size have a lemma each (`SizeTaken`, `SizePushed`, `SizeUnheard`, `SizeSpawned`, `SizeApplied`).

With that every safety property that a run checks is proved. Only model-checked is liveness, for which
TLAPS lacks fairness and ENABLED, `FindsFirst` included: its safety half is `MagicResult`.

## 5. What is not modelled

* `new_id` counts up; ids are never reused by it.
* The process's own end: tokio waits for a blocking read of stdin (FIXME at
  `login.rs:232`), so a login process may linger until a key is pressed. What the
  model calls the end of the login process is the end of `run` and its tasks.
* An early `?` of `login::run` before its router is spawned, and the failure of a `signal` handler
  or a `flush` apart from the write before it.
* Logging, the parsing of options, and what ssh's stderr says: only that its reader may
  panic.
* `terminal.rs`, `ioctl.rs`: what the attributes are; the termios of the child's
  pseudo-terminal is left as the kernel makes it. What the standard library does when
  the panic hook panics is taken from its documentation: it aborts.
* Grandchildren that keep the child's pipes open.
* A blocking read of stdin under way in `open` when its forwarder is interrupted: tokio
  runs it on another thread, and it may take one more chunk that nobody writes.
* The copying of a leaf's stderr by the daemon, and the messages of
  `protocol/network.rs` other than the handshake, which nothing sends yet.
* Serialisation and framing: bincode and a length-delimited codec, taken as exact but for a frame
  that a broken connection cuts off.

## 6. Plan

Modelled and checked: the Router's tables, the session, the socket set-up, the handover of a
leaf, the pipelines in both directions. Proved: every invariant, action property and refinement
that a run checks. Left, in this order:

1. **The safety halves of the liveness properties**: what a session that can do nothing more looks
   like, as `HaltsOnlyStuck` says it for `Duplex`, so that `LoginReturns` is left with fairness only.
2. **The messages of `protocol/network.rs`** and the copying of a leaf's stderr, once the
   daemon uses the channels of its connected nodes.
