------------------------------ MODULE OpenLeaf -------------------------------
(***************************************************************************)
(* `rsrs open`: each open process launches a leaf, forwards its streams    *)
(* until the leaf prints the magic number, and hands the leaf's descriptors*)
(* to the daemon over a UNIX socket; the daemon's task for that socket     *)
(* greets the leaf and enters it in NODE_STORE (src/command/open.rs,       *)
(* src/daemon/command.rs, src/daemon/network.rs).                          *)
(*                                                                         *)
(* Descriptors travel beside the framed requests on the same socket, so    *)
(* that only the Oks in between keep the two apart.  The leaf is whatever  *)
(* the launched command becomes: it goes through setup_leaf or dies.       *)
(* MagicForward justifies that the stdout forwarder stops right after the  *)
(* magic number, which is one item of the leaf's output here.              *)
(***************************************************************************)
EXTENDS Naturals, Sequences, FiniteSets

CONSTANTS Opens,      \* the open processes, with their leaves and sockets
          Names,      \* what the name generator can return
          MyName,     \* the daemon's own name, from setup_root
          NoName,     \* no name yet
          PipeCap,    \* items the leaf's stdin buffers
          NTyped,     \* bound: chunks the user types to an open process
          NErr,       \* bound: chunks a leaf writes to stderr while forwarded
          NLeft       \* bound: names that earlier, failed handshakes left in the store

ASSUME OpenAssumption == /\ MyName \in Names /\ NoName \notin Names
                         /\ PipeCap \in Nat \ {0} /\ {NTyped, NErr, NLeft} \subseteq Nat

VARIABLES
    client,   \* per open process: at (where it stands), n (which item it sends)
    fwd,      \* its three forwarding tasks, and stop (what tx.broadcast has sent)
    read,     \* chunks forwarded so far, per stream
    leaf,     \* at, in (its stdin), out (its stdout), my and server (its names)
    sock,     \* the socket: req to the daemon, rsp to the open process
    serve,    \* the daemon's task: at, n, got (descriptors received), name
    nodes     \* NODE_STORE: [Names -> state of the node]

vars == <<client, fwd, read, leaf, sock, serve, nodes>>

\* What goes to the daemon: one framed request and three descriptors.
Items == <<"Open", "stdin", "stdout", "stderr">>
Streams == {"stdin", "stderr"}       \* forwarded by forward_until_interrupted
User == [t |-> "user", client |-> NoName, server |-> NoName]
Handshake(c, s) == [t |-> "Handshake", client |-> c, server |-> s]
Messages == {User} \cup {Handshake(m, s) : m, s \in Names}

Init ==
    /\ client = [c \in Opens |-> [at |-> "connect", n |-> 1]]
    /\ fwd = [c \in Opens |-> [stdin |-> "off", stderr |-> "off", stdout |-> "off", stop |-> FALSE]]
    /\ read = [c \in Opens |-> [stdin |-> 0, stderr |-> 0]]
    /\ leaf = [c \in Opens |-> [at |-> "none", in |-> <<>>, out |-> <<>>,
                                my |-> NoName, server |-> NoName]]
    /\ sock = [c \in Opens |-> [req |-> <<>>, rsp |-> <<>>]]
    /\ serve = [c \in Opens |-> [at |-> "none", n |-> 0, got |-> <<>>, name |-> NoName]]
    /\ \E left \in SUBSET (Names \ {MyName}) :
         /\ Cardinality(left) <= NLeft
         /\ nodes = [m \in Names |-> IF m = MyName THEN "MyNode"
                                    ELSE IF m \in left THEN "Handshake" ELSE "none"]

ClientUp(c) == client[c].at \notin {"done", "failed"}
ServeUp(c) == serve[c].at \notin {"end", "failed"}
LeafUp(c) == leaf[c].at # "dead"

-----------------------------------------------------------------------------
(* command/open.rs: the main task.                                          *)

ClientAt(c, at) == client[c].at = at
ClientTo(c, at) == client' = [client EXCEPT ![c].at = at]

Connect(c) == /\ ClientAt(c, "connect") /\ ClientTo(c, "spawn")
              /\ UNCHANGED <<fwd, read, leaf, sock, serve, nodes>>

\* The command is spawned, and the three forwarding tasks.
Spawn(c) == /\ ClientAt(c, "spawn") /\ ClientTo(c, "magic")
            /\ leaf' = [leaf EXCEPT ![c].at = "text"]
            /\ fwd' = [fwd EXCEPT ![c] = [stdin |-> "read", stderr |-> "read",
                                          stdout |-> "read", stop |-> FALSE]]
            /\ UNCHANGED <<read, sock, serve, nodes>>

\* Mutant: the other forwarders are not told.
BroadcastMissing(c) == /\ ClientAt(c, "magic") /\ fwd[c].stdout = "end" /\ ClientTo(c, "stdin")
                       /\ UNCHANGED <<fwd, read, leaf, sock, serve, nodes>>

\* stdout_handler has found the magic number; tx.broadcast(true).
Broadcast(c) == /\ ClientAt(c, "magic") /\ fwd[c].stdout = "end" /\ ClientTo(c, "stdin")
                /\ fwd' = [fwd EXCEPT ![c].stop = TRUE]
                /\ UNCHANGED <<read, leaf, sock, serve, nodes>>

\* Mutant: the stdin forwarder is not awaited.
JoinNoWait(c) == /\ \/ ClientAt(c, "stdin") /\ ClientTo(c, "stderr")
                    \/ ClientAt(c, "stderr") /\ fwd[c].stderr = "end" /\ ClientTo(c, "send")
                 /\ UNCHANGED <<fwd, read, leaf, sock, serve, nodes>>

\* stdin_handler.await?, stderr_handler.await?
Join(c) == /\ \/ ClientAt(c, "stdin") /\ fwd[c].stdin = "end" /\ ClientTo(c, "stderr")
              \/ ClientAt(c, "stderr") /\ fwd[c].stderr = "end" /\ ClientTo(c, "send")
           /\ UNCHANGED <<fwd, read, leaf, sock, serve, nodes>>

\* Mutant: the next item goes out before the Ok for this one.
SendItemNoWait(c) ==
    /\ ClientAt(c, "send") /\ ServeUp(c)
    /\ sock' = [sock EXCEPT ![c].req = Append(@, Items[client[c].n])]
    /\ client' = IF client[c].n < Len(Items) THEN [client EXCEPT ![c].n = @ + 1]
                 ELSE [client EXCEPT ![c].at = "await"]
    /\ UNCHANGED <<fwd, read, leaf, serve, nodes>>

\* The request, then the descriptors in turn.
SendItem(c) == /\ ClientAt(c, "send") /\ ServeUp(c) /\ ClientTo(c, "await")
               /\ sock' = [sock EXCEPT ![c].req = Append(@, Items[client[c].n])]
               /\ UNCHANGED <<fwd, read, leaf, serve, nodes>>

\* recv_ok: after the Ok for an item the next one, after the last Ok the end.
GotOk(c) ==
    /\ ClientAt(c, "await") /\ sock[c].rsp # <<>> /\ Head(sock[c].rsp) = "Ok"
    /\ sock' = [sock EXCEPT ![c].rsp = Tail(@)]
    /\ LET n == client[c].n
           at == CASE n < Len(Items) -> "send" [] n = Len(Items) -> "await" [] OTHER -> "done"
       IN  client' = [client EXCEPT ![c] = [at |-> at, n |-> n + 1]]
    /\ UNCHANGED <<fwd, read, leaf, serve, nodes>>

\* A `?`: a forwarder has panicked, the daemon sent Err or closed the socket.
ClientFails(c) ==
    /\ \/ ClientAt(c, "magic") /\ fwd[c].stdout = "failed"
       \/ ClientAt(c, "stdin") /\ fwd[c].stdin = "failed"
       \/ ClientAt(c, "send") /\ ~ServeUp(c)
       \/ /\ ClientAt(c, "await")
          /\ IF sock[c].rsp = <<>> THEN ~ServeUp(c) ELSE Head(sock[c].rsp) = "Err"
    /\ ClientTo(c, "failed")
    /\ UNCHANGED <<fwd, read, leaf, sock, serve, nodes>>

\* The user interrupts it.
Kill(c) == /\ ClientUp(c) /\ ClientTo(c, "failed")
           /\ UNCHANGED <<fwd, read, leaf, sock, serve, nodes>>

Client(c) == Connect(c) \/ Spawn(c) \/ Broadcast(c) \/ Join(c) \/ SendItem(c) \/ GotOk(c)
             \/ ClientFails(c)

-----------------------------------------------------------------------------
(* command/open.rs: the forwarding tasks.                                   *)

FwdAt(c, d, at) == ClientUp(c) /\ fwd[c][d] = at
FwdTo(c, d, at) == fwd' = [fwd EXCEPT ![c][d] = at]

\* The select of forward_until_interrupted takes the read: a chunk is in hand.
Chunk(c, d) == /\ FwdAt(c, d, "read") /\ FwdTo(c, d, "write")
               /\ IF d = "stdin" THEN read[c][d] < NTyped
                                 ELSE read[c][d] < NErr /\ LeafUp(c)
               /\ read' = [read EXCEPT ![c][d] = @ + 1]
               /\ UNCHANGED <<client, leaf, sock, serve, nodes>>

\* write_all, to the leaf's stdin or the local stderr.
WriteIn(c) == /\ FwdAt(c, "stdin", "write") /\ LeafUp(c) /\ Len(leaf[c].in) < PipeCap
              /\ FwdTo(c, "stdin", "read")
              /\ leaf' = [leaf EXCEPT ![c].in = Append(@, User)]
              /\ UNCHANGED <<client, read, sock, serve, nodes>>

WriteInFails(c) == /\ FwdAt(c, "stdin", "write") /\ ~LeafUp(c) /\ FwdTo(c, "stdin", "failed")
                   /\ UNCHANGED <<client, read, leaf, sock, serve, nodes>>

WriteErr(c) == /\ FwdAt(c, "stderr", "write") /\ FwdTo(c, "stderr", "read")
               /\ UNCHANGED <<client, read, leaf, sock, serve, nodes>>

\* The select takes the broadcast, or the stream has ended.
Interrupted(c, d) == /\ FwdAt(c, d, "read") /\ FwdTo(c, d, "end")
                     /\ fwd[c].stop \/ (d = "stderr" /\ ~LeafUp(c))
                     /\ UNCHANGED <<client, read, leaf, sock, serve, nodes>>
UserEof(c) == /\ FwdAt(c, "stdin", "read") /\ FwdTo(c, "stdin", "end")
              /\ UNCHANGED <<client, read, leaf, sock, serve, nodes>>

\* forward_until_magic: the magic number, or an end of file and the unwrap.
Magic(c) == /\ FwdAt(c, "stdout", "read") /\ leaf[c].out # <<>> /\ Head(leaf[c].out) = "magic"
            /\ FwdTo(c, "stdout", "end")
            /\ leaf' = [leaf EXCEPT ![c].out = Tail(@)]
            /\ UNCHANGED <<client, read, sock, serve, nodes>>
NoMagic(c) == /\ FwdAt(c, "stdout", "read") /\ leaf[c].out = <<>> /\ ~LeafUp(c)
              /\ FwdTo(c, "stdout", "failed")
              /\ UNCHANGED <<client, read, leaf, sock, serve, nodes>>

Forward(c) == \/ WriteIn(c) \/ WriteInFails(c) \/ WriteErr(c) \/ Magic(c) \/ NoMagic(c)
              \/ \E d \in Streams : Interrupted(c, d)

-----------------------------------------------------------------------------
(* daemon/command.rs: serve, open and recv_fd.                              *)

ServeAt(c, at) == serve[c].at = at
ServeTo(c, at) == serve' = [serve EXCEPT ![c].at = at]

Accept(c) == /\ ServeAt(c, "none") /\ client[c].at # "connect" /\ ServeTo(c, "next")
             /\ UNCHANGED <<client, fwd, read, leaf, sock, nodes>>

\* reader.next() reads all there is; a descriptor in it would be lost.
NextRequest(c) ==
    /\ ServeAt(c, "next") /\ sock[c].req # <<>> /\ Head(sock[c].req) = "Open"
    /\ serve' = [serve EXCEPT ![c].at = "ok", ![c].n = 1]
    /\ sock' = [sock EXCEPT ![c].req = <<>>]
    /\ UNCHANGED <<client, fwd, read, leaf, nodes>>
NextEof(c) == /\ ServeAt(c, "next") /\ sock[c].req = <<>> /\ ~ClientUp(c) /\ ServeTo(c, "end")
              /\ UNCHANGED <<client, fwd, read, leaf, sock, nodes>>

\* writer.send(Response::Ok): what serve does next depends on what it answers.
AfterOk(n) == CASE n < Len(Items) -> "fd" [] n = Len(Items) -> "insert" [] OTHER -> "next"
SendOk(c) ==
    /\ ServeAt(c, "ok") /\ ClientUp(c)
    /\ sock' = [sock EXCEPT ![c].rsp = Append(@, "Ok")]
    /\ serve' = [serve EXCEPT ![c].at = AfterOk(serve[c].n)]
    /\ UNCHANGED <<client, fwd, read, leaf, nodes>>

\* recv_fd: one byte and its descriptor.
RecvFd(c) ==
    /\ ServeAt(c, "fd") /\ sock[c].req # <<>>
    /\ sock' = [sock EXCEPT ![c].req = Tail(@)]
    /\ serve' = IF Head(sock[c].req) = "Open" THEN [serve EXCEPT ![c].at = "error"]
                ELSE [serve EXCEPT ![c].at = "ok", ![c].n = @ + 1,
                                   ![c].got = Append(@, Head(sock[c].req))]
    /\ UNCHANGED <<client, fwd, read, leaf, nodes>>
RecvEof(c) == /\ ServeAt(c, "fd") /\ sock[c].req = <<>> /\ ~ClientUp(c) /\ ServeTo(c, "error")
              /\ UNCHANGED <<client, fwd, read, leaf, sock, nodes>>

\* Response::Err and bail; or nobody is there to take an answer.
SendErr(c) ==
    /\ ServeAt(c, "error") /\ ServeTo(c, "failed")
    /\ sock' = IF ClientUp(c) THEN [sock EXCEPT ![c].rsp = Append(@, "Err")] ELSE sock
    /\ UNCHANGED <<client, fwd, read, leaf, nodes>>
SendFails(c) == /\ ServeAt(c, "ok") /\ ~ClientUp(c) /\ ServeTo(c, "failed")
                /\ UNCHANGED <<client, fwd, read, leaf, sock, nodes>>

-----------------------------------------------------------------------------
(* daemon/network.rs: connect_to_leaf and setup_leaf.                       *)

\* Every name is in use and insert draws names for ever, with the store locked.
Spinning == /\ \A m \in Names : nodes[m] # "none"
            /\ \E c \in Opens : ServeAt(c, "insert")

\* Mutant: a drawn name is not looked up.
InsertUnchecked(c) ==
    /\ ServeAt(c, "insert")
    /\ \E m \in Names \ {MyName} :
         /\ nodes' = [nodes EXCEPT ![m] = "Handshake"]
         /\ serve' = [serve EXCEPT ![c].at = "hello", ![c].name = m]
    /\ UNCHANGED <<client, fwd, read, leaf, sock>>

\* store.insert(Node::Handshake), under the lock.
Insert(c) ==
    /\ ServeAt(c, "insert")
    /\ \E m \in Names :
         /\ nodes[m] = "none"
         /\ nodes' = [nodes EXCEPT ![m] = "Handshake"]
         /\ serve' = [serve EXCEPT ![c].at = "hello", ![c].name = m]
    /\ UNCHANGED <<client, fwd, read, leaf, sock>>

\* Mutant: the two names are exchanged.
HelloSwapped(c) ==
    /\ ServeAt(c, "hello") /\ LeafUp(c) /\ Len(leaf[c].in) < PipeCap /\ ServeTo(c, "rsp")
    /\ leaf' = [leaf EXCEPT ![c].in = Append(@, Handshake(MyName, serve[c].name))]
    /\ UNCHANGED <<client, fwd, read, sock, nodes>>

Hello(c) ==
    /\ ServeAt(c, "hello") /\ LeafUp(c) /\ Len(leaf[c].in) < PipeCap /\ ServeTo(c, "rsp")
    /\ leaf' = [leaf EXCEPT ![c].in = Append(@, Handshake(serve[c].name, MyName))]
    /\ UNCHANGED <<client, fwd, read, sock, nodes>>
HelloFails(c) == /\ ServeAt(c, "hello") /\ ~LeafUp(c) /\ ServeTo(c, "error")
                 /\ UNCHANGED <<client, fwd, read, leaf, sock, nodes>>

HelloAnswered(c) == /\ ServeAt(c, "rsp") /\ leaf[c].out # <<>> /\ ServeTo(c, "mark")
                    /\ leaf' = [leaf EXCEPT ![c].out = Tail(@)]
                    /\ UNCHANGED <<client, fwd, read, sock, nodes>>
\* End of file: the unwrap of next() panics, and serve's task with it.
NoAnswer(c) == /\ ServeAt(c, "rsp") /\ leaf[c].out = <<>> /\ ~LeafUp(c) /\ ServeTo(c, "failed")
               /\ UNCHANGED <<client, fwd, read, leaf, sock, nodes>>

\* Mutant: the node is left as it is.
MarkMissing(c) == /\ ServeAt(c, "mark") /\ ~Spinning
                  /\ serve' = [serve EXCEPT ![c].at = "ok", ![c].n = @ + 1]
                  /\ UNCHANGED <<client, fwd, read, leaf, sock, nodes>>

\* The node becomes Connected; any other state than Handshake is unreachable!().
Mark(c) == /\ ServeAt(c, "mark") /\ ~Spinning
           /\ IF nodes[serve[c].name] = "Handshake"
              THEN /\ nodes' = [nodes EXCEPT ![serve[c].name] = "Connected"]
                   /\ serve' = [serve EXCEPT ![c].at = "ok", ![c].n = @ + 1]
              ELSE ServeTo(c, "failed") /\ UNCHANGED nodes
           /\ UNCHANGED <<client, fwd, read, leaf, sock>>

Serve(c) == \/ Accept(c) \/ NextRequest(c) \/ NextEof(c) \/ SendOk(c) \/ RecvFd(c) \/ RecvEof(c)
            \/ SendErr(c) \/ SendFails(c) \/ Insert(c) \/ Hello(c) \/ HelloFails(c)
            \/ HelloAnswered(c) \/ NoAnswer(c) \/ Mark(c)

LeafAt(c, at) == leaf[c].at = at
LeafSends(c, out, at) == leaf' = [leaf EXCEPT ![c].out = Append(@, out), ![c].at = at]

\* setup_leaf sends the magic number, if anybody reads it, and waits for the Handshake.
LeafMagic(c) == /\ LeafAt(c, "text")
                /\ IF ClientUp(c) THEN LeafSends(c, "magic", "wait")
                                  ELSE leaf' = [leaf EXCEPT ![c].at = "dead"]
                /\ UNCHANGED <<client, fwd, read, sock, serve, nodes>>

\* What is launched first may read what the user types: a password, a confirmation.
LauncherReads(c) == /\ LeafAt(c, "text") /\ leaf[c].in # <<>>
                    /\ leaf' = [leaf EXCEPT ![c].in = Tail(@)]
                    /\ UNCHANGED <<client, fwd, read, sock, serve, nodes>>

\* The first frame is the Handshake.
LeafRead(c) ==
    /\ LeafAt(c, "wait") /\ leaf[c].in # <<>> /\ Head(leaf[c].in).t = "Handshake"
    /\ leaf' = [leaf EXCEPT ![c].at = "answer", ![c].in = Tail(@),
                            ![c].my = Head(leaf[c].in).client,
                            ![c].server = Head(leaf[c].in).server]
    /\ UNCHANGED <<client, fwd, read, sock, serve, nodes>>

\* What the user typed is taken as the frame's length: too long, or it waits for
\* so many bytes.
LeafGarbage(c) ==
    /\ LeafAt(c, "wait") /\ leaf[c].in # <<>> /\ Head(leaf[c].in).t = "user"
    /\ \E at \in {"stuck", "dead"} : leaf' = [leaf EXCEPT ![c].at = at]
    /\ UNCHANGED <<client, fwd, read, sock, serve, nodes>>

\* Nobody has the other end of its stdin any more: next() is None, unwrap panics.
StdinOpen(c) == \/ ClientUp(c)
                \/ "stdin" \in {sock[c].req[i] : i \in 1 .. Len(sock[c].req)}
                \/ serve[c].got # <<>> /\ ServeUp(c) /\ serve[c].n <= Len(Items)
LeafEof(c) == /\ LeafAt(c, "wait") /\ leaf[c].in = <<>> /\ ~StdinOpen(c)
              /\ leaf' = [leaf EXCEPT ![c].at = "dead"]
              /\ UNCHANGED <<client, fwd, read, sock, serve, nodes>>

LeafAnswer(c) == /\ LeafAt(c, "answer") /\ LeafSends(c, "HandshakeRsp", "store")
                 /\ UNCHANGED <<client, fwd, read, sock, serve, nodes>>

\* insert_with_name of both names into its own store: the second fails if they agree.
LeafStore(c) ==
    /\ LeafAt(c, "store")
    /\ leaf' = [leaf EXCEPT ![c].at = IF leaf[c].my = leaf[c].server THEN "dead" ELSE "up"]
    /\ UNCHANGED <<client, fwd, read, sock, serve, nodes>>

LeafDies(c) == /\ leaf[c].at \notin {"none", "dead"}
               /\ leaf' = [leaf EXCEPT ![c].at = "dead"]
               /\ UNCHANGED <<client, fwd, read, sock, serve, nodes>>

Leaf(c) == LeafMagic(c) \/ LeafRead(c) \/ LeafGarbage(c) \/ LeafEof(c) \/ LeafAnswer(c)
           \/ LeafStore(c)

-----------------------------------------------------------------------------
Environment(c) == \/ \E d \in Streams : Chunk(c, d)
                  \/ UserEof(c) \/ Kill(c) \/ LauncherReads(c) \/ LeafDies(c)

Next == \E c \in Opens : Client(c) \/ Forward(c) \/ Serve(c) \/ Leaf(c) \/ Environment(c)

Spec == Init /\ [][Next]_vars

\* Every task that can go on does, and a launched command becomes a leaf or dies.
\* The user owes nothing.
FairSpec == /\ Spec
            /\ \A c \in Opens : /\ WF_vars(Client(c)) /\ WF_vars(Serve(c)) /\ WF_vars(Leaf(c))
                                /\ WF_vars(WriteIn(c) \/ WriteInFails(c) \/ Interrupted(c, "stdin"))
                                /\ WF_vars(WriteErr(c) \/ Interrupted(c, "stderr"))
                                /\ WF_vars(Magic(c) \/ NoMagic(c))

-----------------------------------------------------------------------------
\* Every variable has its type, and the daemon's side of a socket never holds more
\* than one message: the next one waits for the Ok.
TypeOK ==
    /\ client \in [Opens -> [at : {"connect", "spawn", "magic", "stdin", "stderr", "send",
                                   "await", "done", "failed"}, n : 1 .. Len(Items) + 2]]
    /\ fwd \in [Opens -> [stdin : {"off", "read", "write", "end", "failed"},
                          stderr : {"off", "read", "write", "end"},
                          stdout : {"off", "read", "end", "failed"}, stop : BOOLEAN]]
    /\ read \in [Opens -> [stdin : 0 .. NTyped, stderr : 0 .. NErr]]
    /\ leaf \in [Opens -> [at : {"none", "text", "wait", "stuck", "answer", "store", "up", "dead"},
                           in : Seq(Messages), out : Seq({"magic", "HandshakeRsp"}),
                           my : Names \cup {NoName}, server : Names \cup {NoName}]]
    /\ sock \in [Opens -> [req : Seq({Items[i] : i \in DOMAIN Items}), rsp : Seq({"Ok", "Err"})]]
    /\ serve \in [Opens -> [at : {"none", "next", "ok", "fd", "error", "insert", "hello", "rsp",
                                  "mark", "end", "failed"}, n : 0 .. Len(Items) + 1,
                            got : Seq({Items[i] : i \in DOMAIN Items}), name : Names \cup {NoName}]]
    /\ nodes \in [Names -> {"none", "MyNode", "Handshake", "Connected"}]
    /\ \A c \in Opens : Len(sock[c].req) <= 1

\* Framed requests and bare descriptors stay in step on the one socket: the framed
\* reader never sees a descriptor, recv_fd never a request, and the three arrive
\* in the order in which open unpacks them.
InStep ==
    \A c \in Opens :
        /\ ServeAt(c, "next") => \A i \in DOMAIN sock[c].req : sock[c].req[i] = "Open"
        /\ ServeAt(c, "fd") /\ sock[c].req # <<>> => Head(sock[c].req) = Items[serve[c].n + 1]
        /\ serve[c].got = SubSeq(Items, 2, Len(serve[c].got) + 1)

\* The leaf's streams have one owner: before the daemon's task has any of them, all
\* three forwarders are through, and what the user types never comes after the
\* Handshake.
OneOwner ==
    \A c \in Opens :
        /\ serve[c].got # <<>> /\ ClientUp(c) =>
              \A d \in Streams \cup {"stdout"} : fwd[c][d] = "end"
        /\ \A i, j \in DOMAIN leaf[c].in :
              leaf[c].in[i].t = "Handshake" /\ i < j => leaf[c].in[j] # User
        /\ leaf[c].my # NoName => \A i \in DOMAIN leaf[c].in : leaf[c].in[i] # User

\* The task that greets a leaf is the only one with its name, and the node it comes
\* back to after the answer is still in Handshake: the unwrap and the
\* unreachable!() of connect_to_leaf do not fire, however tasks interleave.
NodeIsMine ==
    \A c \in Opens : serve[c].at \in {"hello", "rsp", "mark"} =>
        /\ nodes[serve[c].name] = "Handshake"
        /\ \A d \in Opens \ {c} : serve[d].name # serve[c].name

\* Both ends agree: a leaf that has its names has the one the daemon entered for it
\* and the daemon's own, so that neither insert_with_name of setup_leaf fails.
NamesAgree ==
    \A c \in Opens : leaf[c].my # NoName =>
        /\ leaf[c].my = serve[c].name /\ leaf[c].server = MyName
        /\ leaf[c].my # leaf[c].server

\* open reports success only when the leaf has answered and is Connected in the
\* store, and a node is Connected only for a leaf that has answered.
SuccessIsConnected ==
    /\ \A c \in Opens : ClientAt(c, "done") => nodes[serve[c].name] = "Connected"
    /\ \A m \in Names : nodes[m] = "Connected" => \E c \in Opens : leaf[c].my = m

\* The name the daemon's task has, the names the leaf has and the end of the main task
\* keep the promise of module Introduction: a name is given, learnt, connected and
\* reported once each, in this order, and none of it is ever undone, whoever dies.
Outcome(at) == CASE at = "done" -> "success" [] at = "failed" -> "failure" [] OTHER -> "none"
Promise == INSTANCE Introduction WITH
    given <- [c \in Opens |-> serve[c].name],
    known <- [c \in Opens |-> [my |-> leaf[c].my, server |-> leaf[c].server]],
    outcome <- [c \in Opens |-> Outcome(client[c].at)]
ImplementsIntroduction == Promise!Spec

\* An open comes to an end, unless what the user typed reached the leaf before the
\* Handshake, or the names have run out.
OpenReturns ==
    \A c \in Opens : ClientAt(c, "magic") ~>
        client[c].at \in {"done", "failed"} \/ LeafAt(c, "stuck") \/ Spinning
=============================================================================
