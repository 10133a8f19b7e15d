--------------------------- MODULE OpenLeafProofs ----------------------------
(***************************************************************************)
(* Proofs about OpenLeaf, for any number of open processes and names and   *)
(* any amount of typing.                                                   *)
(*                                                                         *)
(* The invariant is what the parties know of each other.  Handover: how far*)
(* open and the daemon's task are with the request and the descriptors,    *)
(* which differ by no more than what is on the socket.  Owner, Output and  *)
(* Input: who still uses the leaf's streams, and so what is in them.       *)
(* Store: whose name is whose.                                             *)
(***************************************************************************)
EXTENDS OpenLeaf, TLAPS, SequenceTheorems

ItemSet == {"Open", "stdin", "stdout", "stderr"}
NameSet == Names \cup {NoName}
Message == [t : {"user", "Handshake"}, client : NameSet, server : NameSet]
NodeSet == {"none", "MyNode", "Handshake", "Connected"}

ClientPlaces == {"connect", "spawn", "magic", "stdin", "stderr", "send", "await", "done", "failed"}
LeafPlaces == {"none", "text", "wait", "stuck", "answer", "store", "up", "dead"}
ServePlaces == {"none", "next", "ok", "fd", "error", "insert", "hello", "rsp", "mark", "end",
                "failed"}

ClientRec == [at : ClientPlaces, n : Nat]
FwdRec == [stdin : {"off", "read", "write", "end", "failed"},
           stderr : {"off", "read", "write", "end"},
           stdout : {"off", "read", "end", "failed"}, stop : BOOLEAN]
ReadRec == [stdin : 0 .. NTyped, stderr : 0 .. NErr]
LeafRec == [at : LeafPlaces, in : Seq(Message), out : Seq({"magic", "HandshakeRsp"}),
            my : NameSet, server : NameSet]
SockRec == [req : Seq(ItemSet), rsp : Seq({"Ok", "Err"})]
ServeRec == [at : ServePlaces, n : Nat, got : Seq(ItemSet), name : NameSet]

ClientT == client \in [Opens -> ClientRec]
FwdT == fwd \in [Opens -> FwdRec]
ReadT == read \in [Opens -> ReadRec]
LeafT == leaf \in [Opens -> LeafRec]
SockT == sock \in [Opens -> SockRec]
ServeT == serve \in [Opens -> ServeRec]
NodesT == nodes \in [Names -> NodeSet]

\* Types, without the bounds that follow from the rest.
BaseType == ClientT /\ FwdT /\ ReadT /\ LeafT /\ SockT /\ ServeT /\ NodesT

LEMMA ItemFacts ==
  /\ Len(Items) = 4 /\ \A n \in 1 .. 4 : Items[n] \in ItemSet
  /\ Items[1] = "Open" /\ Items[2] = "stdin" /\ Items[3] = "stdout" /\ Items[4] = "stderr"
BY DEF Items, ItemSet

LEMMA Constants == /\ MyName \in Names /\ NoName \notin Names /\ PipeCap \in Nat
                   /\ NTyped \in Nat /\ NErr \in Nat
BY OpenAssumption

-----------------------------------------------------------------------------
(* The invariant.  cl, fw, lf, sk and sv are what the variables client, fwd,  *)
(* leaf, sock and serve hold for one open.                                    *)

\* The daemon's task waits for the item that open sends next or has sent.
Waiting(cl, sv) == \/ cl.n = 1 /\ sv.n = 0 /\ sv.at \in {"none", "next"}
                   \/ cl.n \in 2 .. 4 /\ sv.n = cl.n - 1 /\ sv.at = "fd"

\* The daemon's task has answered the last item and gone on; rest is what it has
\* answered to the request since.
Connecting(sv, rest) ==
    \/ sv.n = 4 /\ sv.at \in {"insert", "hello", "rsp", "mark", "error"} /\ rest = <<>>
    \/ sv.n = 4 /\ sv.at = "failed" /\ rest \in {<<>>, <<"Err">>}
    \/ sv.n = 5 /\ sv.at = "ok" /\ rest = <<>>
    \/ sv.n = 5 /\ sv.at = "next" /\ rest = <<"Ok">>

\* The item that open has sent is taken.
Answered(cl, sk, sv) ==
    \/ cl.n \in 1 .. 4 /\ sv.n = cl.n /\ sv.at = "ok" /\ sk.rsp = <<>>
    \/ cl.n \in 1 .. 3 /\ sv.n = cl.n /\ sv.at = "fd" /\ sk.rsp = <<"Ok">>
    \/ cl.n = 4 /\ sk.rsp = <<"Ok">> /\ Connecting(sv, <<>>)
    \/ cl.n = 4 /\ sk.rsp = <<"Ok", "Ok">> /\ Connecting(sv, <<"Ok">>)
    \/ cl.n = 4 /\ sk.rsp = <<"Ok", "Err">> /\ Connecting(sv, <<"Err">>)
    \/ cl.n = 5 /\ Connecting(sv, sk.rsp)

Early == {"connect", "spawn", "magic", "stdin", "stderr"}

\* How far the two are with the request and the descriptors.
Handover(cl, sk, sv) ==
    /\ cl.n \in 1 .. 6
    /\ cl.at \in Early => cl.n = 1
    /\ cl.at \in Early \cup {"send"} => sk.req = <<>> /\ sk.rsp = <<>> /\ Waiting(cl, sv)
    /\ sk.req # <<>> => /\ cl.at \in {"await", "failed"} /\ cl.n \in 1 .. 4
                        /\ sk.req = <<Items[cl.n]>> /\ sk.rsp = <<>> /\ Waiting(cl, sv)
    /\ cl.at = "await" /\ sk.req = <<>> => Answered(cl, sk, sv)
    /\ cl.at = "done" => sv.n = 5 /\ sk.req = <<>>

\* What the daemon's task has received when it is to send its n-th Ok.
Received(n) == CASE n \in {0, 1} -> <<>>
                 [] n = 2 -> <<"stdin">>
                 [] n = 3 -> <<"stdin", "stdout">>
                 [] n \in {4, 5} -> <<"stdin", "stdout", "stderr">>
Serving(sv) ==
    /\ sv.n \in 0 .. 5 /\ sv.got = Received(sv.n)
    /\ sv.at = "none" => sv.n = 0
    /\ sv.at = "next" => sv.n \in {0, 5}
    /\ sv.at = "ok" => sv.n \in 1 .. 5
    /\ sv.at = "fd" => sv.n \in 1 .. 3
    /\ sv.at \in {"insert", "hello", "rsp", "mark"} => sv.n = 4

\* Who still uses the leaf's streams.
Owner(cl, fw, lf, sk, sv) ==
    /\ cl.at \in {"connect", "spawn"} => lf.at = "none" /\ lf.in = <<>> /\ fw.stdin = "off"
    /\ cl.at \in {"stdin", "stderr", "send", "await", "done"} => fw.stdout = "end"
    /\ cl.at \in {"stderr", "send", "await", "done"} => fw.stdin = "end"
    /\ cl.at \in {"send", "await", "done"} => fw.stderr = "end"
    /\ sk.req # <<>> \/ sv.n > 0 => fw.stdin = "end" /\ fw.stdout = "end" /\ fw.stderr = "end"

\* What is in the leaf's stdout.
Output(fw, lf) ==
    /\ lf.at \in {"none", "text"} => lf.out = <<>> /\ fw.stdout # "end"
    /\ fw.stdout # "end" => lf.out \in {<<>>, <<"magic">>}
    /\ fw.stdout = "end" => lf.out \in {<<>>, <<"HandshakeRsp">>}
    /\ lf.out = <<"HandshakeRsp">> =>
          lf.my # NoName /\ lf.at \notin {"none", "text", "wait", "answer"}
    /\ lf.at = "answer" => lf.my # NoName

\* What is in the leaf's stdin, and whom the leaf has heard of.
Input(lf, sv) ==
    /\ \A i \in 1 .. Len(lf.in) :
          \/ lf.in[i] = User
          \/ /\ lf.in[i] = Handshake(sv.name, MyName) /\ i = Len(lf.in)
             /\ sv.name # NoName /\ sv.at # "hello" /\ lf.my = NoName
    /\ lf.my # NoName => /\ lf.my = sv.name /\ lf.server = MyName /\ lf.in = <<>>
                         /\ sv.at # "hello"
    /\ sv.at = "mark" => lf.my # NoName

\* A name and its node.
Named(sv) ==
    /\ sv.n < 4 \/ sv.at = "insert" \/ (sv.n = 4 /\ sv.at = "ok") => sv.name = NoName
    /\ sv.name # NoName => nodes[sv.name] \in {"Handshake", "Connected"}
    /\ sv.at \in {"hello", "rsp", "mark"} => sv.name # NoName /\ nodes[sv.name] = "Handshake"
    /\ sv.n = 5 => sv.name # NoName /\ nodes[sv.name] = "Connected"

OpenOK(c) == /\ Handover(client[c], sock[c], serve[c]) /\ Serving(serve[c])
              /\ Owner(client[c], fwd[c], leaf[c], sock[c], serve[c])
              /\ Output(fwd[c], leaf[c]) /\ Input(leaf[c], serve[c])
Store == /\ nodes[MyName] = "MyNode"
         /\ \A c \in Opens : Named(serve[c])
         /\ \A c, d \in Opens : c # d /\ serve[c].name # NoName => serve[c].name # serve[d].name
         /\ \A m \in Names : nodes[m] = "Connected" => \E c \in Opens : leaf[c].my = m

OpenInv == BaseType /\ (\A c \in Opens : OpenOK(c)) /\ Store

-----------------------------------------------------------------------------
(* Updates of one open's record.                                              *)

Others(c) == \A d \in Opens \ {c} :
    /\ client'[d] = client[d] /\ fwd'[d] = fwd[d] /\ leaf'[d] = leaf[d]
    /\ sock'[d] = sock[d] /\ serve'[d] = serve[d]

\* The names and their nodes stay as they are.
Quiet(c) == /\ nodes' = nodes /\ serve'[c].name = serve[c].name /\ leaf'[c].my = leaf[c].my
            /\ Named(serve[c])'

LEMMA ClientGoes ==
  ASSUME ClientT, NEW c \in Opens, NEW x \in ClientPlaces, ClientTo(c, x)
  PROVE  /\ ClientT' /\ client'[c].at = x /\ client'[c].n = client[c].n
         /\ \A d \in Opens \ {c} : client'[d] = client[d]
BY DEF ClientT, ClientRec, ClientTo

LEMMA ServeGoes ==
  ASSUME ServeT, NEW c \in Opens, NEW x \in ServePlaces, ServeTo(c, x)
  PROVE  /\ ServeT' /\ serve'[c].at = x /\ serve'[c].n = serve[c].n
         /\ serve'[c].got = serve[c].got /\ serve'[c].name = serve[c].name
         /\ \A d \in Opens \ {c} : serve'[d] = serve[d]
BY DEF ServeT, ServeRec, ServeTo

LEMMA LeafGoes ==
  ASSUME LeafT, NEW c \in Opens, NEW x \in LeafPlaces, leaf' = [leaf EXCEPT ![c].at = x]
  PROVE  /\ LeafT' /\ leaf'[c].at = x /\ leaf'[c].in = leaf[c].in
         /\ leaf'[c].out = leaf[c].out /\ leaf'[c].my = leaf[c].my
         /\ leaf'[c].server = leaf[c].server
         /\ \A d \in Opens \ {c} : leaf'[d] = leaf[d]
BY DEF LeafT, LeafRec

LEMMA StdinGoes ==
  ASSUME FwdT, NEW c \in Opens, NEW x \in {"off", "read", "write", "end", "failed"},
         FwdTo(c, "stdin", x)
  PROVE  /\ FwdT' /\ fwd'[c].stdin = x /\ fwd'[c].stderr = fwd[c].stderr
         /\ fwd'[c].stdout = fwd[c].stdout
         /\ \A d \in Opens \ {c} : fwd'[d] = fwd[d]
BY DEF FwdT, FwdRec, FwdTo

LEMMA StderrGoes ==
  ASSUME FwdT, NEW c \in Opens, NEW x \in {"off", "read", "write", "end"},
         FwdTo(c, "stderr", x)
  PROVE  /\ FwdT' /\ fwd'[c].stderr = x /\ fwd'[c].stdin = fwd[c].stdin
         /\ fwd'[c].stdout = fwd[c].stdout
         /\ \A d \in Opens \ {c} : fwd'[d] = fwd[d]
BY DEF FwdT, FwdRec, FwdTo

LEMMA StdoutGoes ==
  ASSUME FwdT, NEW c \in Opens, NEW x \in {"off", "read", "end", "failed"},
         FwdTo(c, "stdout", x)
  PROVE  /\ FwdT' /\ fwd'[c].stdout = x /\ fwd'[c].stdin = fwd[c].stdin
         /\ fwd'[c].stderr = fwd[c].stderr
         /\ \A d \in Opens \ {c} : fwd'[d] = fwd[d]
BY DEF FwdT, FwdRec, FwdTo

LEMMA StoreQuiet ==
  ASSUME BaseType, Store, NEW c \in Opens, Others(c), Quiet(c)
  PROVE  Store'
<1>1. \A d \in Opens : serve'[d].name = serve[d].name /\ leaf'[d].my = leaf[d].my
  BY DEF Others, Quiet
<1>2. ASSUME NEW d \in Opens PROVE Named(serve[d])'
  <2>1. CASE d = c BY <2>1 DEF Quiet
  <2>2. CASE d # c
    <3>1. serve'[d] = serve[d] /\ nodes' = nodes BY <2>2 DEF Others, Quiet
    <3> QED BY <3>1 DEF Store, Named
  <2> QED BY <2>1, <2>2
<1>3. nodes' = nodes BY DEF Quiet
<1>4. nodes'[MyName] = "MyNode" BY <1>3 DEF Store
<1>5. \A d, e \in Opens : d # e /\ serve'[d].name # NoName => serve'[d].name # serve'[e].name
  BY <1>1 DEF Store
<1>6. \A m \in Names : nodes'[m] = "Connected" => \E d \in Opens : leaf'[d].my = m
  BY <1>1, <1>3 DEF Store
<1> QED BY <1>2, <1>4, <1>5, <1>6 DEF Store

LEMMA OthersOK ==
  ASSUME OpenInv, NEW c \in Opens, Others(c), OpenOK(c)'
  PROVE  \A d \in Opens : OpenOK(d)'
<1> SUFFICES ASSUME NEW d \in Opens PROVE OpenOK(d)' OBVIOUS
<1>1. CASE d = c BY <1>1
<1>2. CASE d # c
  <2>1. /\ client'[d] = client[d] /\ fwd'[d] = fwd[d] /\ leaf'[d] = leaf[d]
        /\ sock'[d] = sock[d] /\ serve'[d] = serve[d]
    BY <1>2 DEF Others
  <2> QED BY <2>1 DEF OpenInv, OpenOK
<1> QED BY <1>1, <1>2

LEMMA QuietStep ==
  ASSUME OpenInv, NEW c \in Opens, BaseType', Others(c), Quiet(c), OpenOK(c)'
  PROVE  OpenInv'
BY OthersOK, StoreQuiet DEF OpenInv


-----------------------------------------------------------------------------
(* The steps of open.                                                         *)

\* What every step needs of the state before it.
LEMMA Before ==
  ASSUME OpenInv, NEW c \in Opens
  PROVE  /\ ClientT /\ FwdT /\ ReadT /\ LeafT /\ SockT /\ ServeT /\ NodesT
         /\ Handover(client[c], sock[c], serve[c]) /\ Serving(serve[c])
         /\ Owner(client[c], fwd[c], leaf[c], sock[c], serve[c])
         /\ Output(fwd[c], leaf[c]) /\ Input(leaf[c], serve[c]) /\ Named(serve[c])
BY DEF OpenInv, BaseType, OpenOK, Store

\* A step of open alone.
LEMMA ClientStep ==
  ASSUME OpenInv, NEW c \in Opens, NEW x \in ClientPlaces, ClientTo(c, x),
         UNCHANGED <<fwd, read, leaf, sock, serve, nodes>>,
         Handover(client[c], sock[c], serve[c])',
         Owner(client[c], fwd[c], leaf[c], sock[c], serve[c])'
  PROVE  OpenInv'
<1>1. /\ ClientT' /\ \A d \in Opens \ {c} : client'[d] = client[d]
  BY Before, ClientGoes
<1>2. BaseType' BY <1>1, Before DEF BaseType, FwdT, ReadT, LeafT, SockT, ServeT, NodesT
<1>3. Others(c) BY <1>1 DEF Others
<1>4. Quiet(c) BY Before DEF Quiet, Named
<1>5. OpenOK(c)' BY Before DEF OpenOK
<1> QED BY <1>2, <1>3, <1>4, <1>5, QuietStep

LEMMA StepConnect == ASSUME OpenInv, NEW c \in Opens, Connect(c) PROVE OpenInv'
<1>1. /\ client[c].at = "connect" /\ ClientTo(c, "spawn") /\ "spawn" \in ClientPlaces
      /\ UNCHANGED <<fwd, read, leaf, sock, serve, nodes>>
  BY DEF Connect, ClientAt, ClientPlaces
<1>2. client'[c].at = "spawn" /\ client'[c].n = client[c].n BY <1>1, Before, ClientGoes
<1>3. Handover(client[c], sock[c], serve[c])'
  BY <1>1, <1>2, Before DEF Handover, Early, Waiting
<1>4. Owner(client[c], fwd[c], leaf[c], sock[c], serve[c])' BY <1>1, <1>2, Before DEF Owner
<1> QED BY <1>1, <1>3, <1>4, ClientStep

LEMMA StepJoin == ASSUME OpenInv, NEW c \in Opens, Join(c) PROVE OpenInv'
<1>1. UNCHANGED <<fwd, read, leaf, sock, serve, nodes>> BY DEF Join
<1>2. PICK x \in {"stderr", "send"} :
         /\ ClientTo(c, x) /\ x \in ClientPlaces
         /\ x = "stderr" => client[c].at = "stdin" /\ fwd[c].stdin = "end"
         /\ x = "send" => client[c].at = "stderr" /\ fwd[c].stderr = "end"
  BY DEF Join, ClientAt, ClientPlaces
<1>3. client'[c].at = x /\ client'[c].n = client[c].n BY <1>2, Before, ClientGoes
<1>4. Handover(client[c], sock[c], serve[c])'
  BY <1>1, <1>2, <1>3, Before DEF Handover, Early, Waiting
<1>5. Owner(client[c], fwd[c], leaf[c], sock[c], serve[c])'
  BY <1>1, <1>2, <1>3, Before DEF Owner
<1> QED BY <1>1, <1>2, <1>4, <1>5, ClientStep

LEMMA StepStops ==
  ASSUME OpenInv, NEW c \in Opens, ClientFails(c) \/ Kill(c) PROVE OpenInv'
<1>1. /\ ClientTo(c, "failed") /\ "failed" \in ClientPlaces
      /\ UNCHANGED <<fwd, read, leaf, sock, serve, nodes>>
  BY DEF ClientFails, Kill, ClientPlaces
<1>2. client'[c].at = "failed" /\ client'[c].n = client[c].n BY <1>1, Before, ClientGoes
<1>3. Handover(client[c], sock[c], serve[c])'
  BY <1>1, <1>2, Before DEF Handover, Early, Waiting
<1>4. Owner(client[c], fwd[c], leaf[c], sock[c], serve[c])' BY <1>1, <1>2, Before DEF Owner
<1> QED BY <1>1, <1>3, <1>4, ClientStep

LEMMA StepBroadcast == ASSUME OpenInv, NEW c \in Opens, Broadcast(c) PROVE OpenInv'
<1>1. /\ client[c].at = "magic" /\ ClientTo(c, "stdin") /\ "stdin" \in ClientPlaces
      /\ fwd[c].stdout = "end"
      /\ UNCHANGED <<read, leaf, sock, serve, nodes>>
  BY DEF Broadcast, ClientAt, ClientPlaces
<1>2. /\ ClientT' /\ client'[c].at = "stdin" /\ client'[c].n = client[c].n
      /\ \A d \in Opens \ {c} : client'[d] = client[d]
  BY <1>1, Before, ClientGoes
<1>3. /\ FwdT' /\ fwd'[c].stdin = fwd[c].stdin /\ fwd'[c].stderr = fwd[c].stderr
      /\ fwd'[c].stdout = fwd[c].stdout /\ \A d \in Opens \ {c} : fwd'[d] = fwd[d]
  BY Before DEF Broadcast, FwdT, FwdRec
<1>4. BaseType'
  BY <1>1, <1>2, <1>3, Before DEF BaseType, ReadT, LeafT, SockT, ServeT, NodesT
<1>5. Others(c) BY <1>1, <1>2, <1>3 DEF Others
<1>6. Quiet(c) BY <1>1, Before DEF Quiet, Named
<1>7. OpenOK(c)'
  <2>1. Handover(client[c], sock[c], serve[c])'
    BY <1>1, <1>2, Before DEF Handover, Early, Waiting
  <2>2. Owner(client[c], fwd[c], leaf[c], sock[c], serve[c])'
    BY <1>1, <1>2, <1>3, Before DEF Owner
  <2>3. Output(fwd[c], leaf[c])' BY <1>1, <1>3, Before DEF Output
  <2>4. Serving(serve[c])' /\ Input(leaf[c], serve[c])' BY <1>1, Before DEF Serving, Input
  <2> QED BY <2>1, <2>2, <2>3, <2>4 DEF OpenOK
<1> QED BY <1>4, <1>5, <1>6, <1>7, QuietStep

LEMMA StepSpawn == ASSUME OpenInv, NEW c \in Opens, Spawn(c) PROVE OpenInv'
<1>1. /\ client[c].at = "spawn" /\ ClientTo(c, "magic") /\ "magic" \in ClientPlaces
      /\ leaf' = [leaf EXCEPT ![c].at = "text"] /\ "text" \in LeafPlaces
      /\ UNCHANGED <<read, sock, serve, nodes>>
  BY DEF Spawn, ClientAt, ClientPlaces, LeafPlaces
<1>2. /\ ClientT' /\ client'[c].at = "magic" /\ client'[c].n = client[c].n
      /\ \A d \in Opens \ {c} : client'[d] = client[d]
  BY <1>1, Before, ClientGoes
<1>3. /\ FwdT' /\ fwd'[c].stdin = "read" /\ fwd'[c].stderr = "read"
      /\ fwd'[c].stdout = "read" /\ \A d \in Opens \ {c} : fwd'[d] = fwd[d]
  BY Before DEF Spawn, FwdT, FwdRec
<1>4. /\ LeafT' /\ leaf'[c].at = "text" /\ leaf'[c].in = leaf[c].in
      /\ leaf'[c].out = leaf[c].out /\ leaf'[c].my = leaf[c].my
      /\ leaf'[c].server = leaf[c].server /\ \A d \in Opens \ {c} : leaf'[d] = leaf[d]
  BY <1>1, Before, LeafGoes
<1>5. leaf[c].at = "none" /\ leaf[c].in = <<>> BY <1>1, Before DEF Owner
<1>6. BaseType' BY <1>1, <1>2, <1>3, <1>4, Before DEF BaseType, ReadT, SockT, ServeT, NodesT
<1>7. Others(c) BY <1>1, <1>2, <1>3, <1>4 DEF Others
<1>8. Quiet(c) BY <1>1, <1>4, Before DEF Quiet, Named
<1>9. OpenOK(c)'
  <2>1. Handover(client[c], sock[c], serve[c])'
    BY <1>1, <1>2, Before DEF Handover, Early, Waiting
  <2>2. sock[c].req = <<>> /\ serve[c].n = 0 BY <1>1, Before DEF Handover, Waiting, Early
  <2>3. Owner(client[c], fwd[c], leaf[c], sock[c], serve[c])'
    BY <1>1, <1>2, <2>2 DEF Owner
  <2>4. Output(fwd[c], leaf[c])' BY <1>3, <1>4, <1>5, Before DEF Output
  <2>5. Serving(serve[c])' BY <1>1, Before DEF Serving
  <2>6. Input(leaf[c], serve[c])' BY <1>1, <1>4, Before DEF Input
  <2> QED BY <2>1, <2>3, <2>4, <2>5, <2>6 DEF OpenOK
<1> QED BY <1>6, <1>7, <1>8, <1>9, QuietStep


LEMMA Pops ==
  /\ \A x : Head(<<x>>) = x /\ Tail(<<x>>) = <<>> /\ <<x>> # <<>>
  /\ \A x, y : Head(<<x, y>>) = x /\ Tail(<<x, y>>) = <<y>> /\ <<x, y>> # <<>>
OBVIOUS

LEMMA Pushes ==
  /\ \A x : Append(<<>>, x) = <<x>>
  /\ \A x, y : Append(<<x>>, y) = <<x, y>>
  /\ \A x, y, z : Append(<<x, y>>, z) = <<x, y, z>>
<1>1. \A x : Append(<<>>, x) = <<x>> OBVIOUS
<1>2. ASSUME NEW x, NEW y PROVE Append(<<x>>, y) = <<x, y>>
  <2>1. <<x>> \in Seq({x, y}) /\ <<x, y>> \in Seq({x, y}) /\ Len(<<x>>) = 1
        /\ Len(<<x, y>>) = 2 /\ <<x>>[1] = x /\ <<x, y>>[1] = x /\ <<x, y>>[2] = y
    OBVIOUS
  <2>2. /\ Append(<<x>>, y) \in Seq({x, y}) /\ Len(Append(<<x>>, y)) = 2
        /\ Append(<<x>>, y)[1] = x /\ Append(<<x>>, y)[2] = y
    BY <2>1, AppendProperties
  <2>3. \A i \in 1 .. 2 : Append(<<x>>, y)[i] = <<x, y>>[i] BY <2>1, <2>2
  <2> QED BY <2>1, <2>2, <2>3, SeqEqual
<1>3. ASSUME NEW x, NEW y, NEW z PROVE Append(<<x, y>>, z) = <<x, y, z>>
  <2>1. /\ <<x, y>> \in Seq({x, y, z}) /\ Len(<<x, y>>) = 2
        /\ <<x, y>>[1] = x /\ <<x, y>>[2] = y
        /\ <<x, y, z>> \in Seq({x, y, z}) /\ Len(<<x, y, z>>) = 3
        /\ <<x, y, z>>[1] = x /\ <<x, y, z>>[2] = y /\ <<x, y, z>>[3] = z
    OBVIOUS
  <2>2. /\ Append(<<x, y>>, z) \in Seq({x, y, z}) /\ Len(Append(<<x, y>>, z)) = 3
        /\ Append(<<x, y>>, z)[1] = x /\ Append(<<x, y>>, z)[2] = y
        /\ Append(<<x, y>>, z)[3] = z
    BY <2>1, AppendProperties
  <2>3. \A i \in 1 .. 3 : Append(<<x, y>>, z)[i] = <<x, y, z>>[i] BY <2>1, <2>2
  <2> QED BY <2>1, <2>2, <2>3, SeqEqual
<1> QED BY <1>1, <1>2, <1>3

LEMMA StepSendItem == ASSUME OpenInv, NEW c \in Opens, SendItem(c) PROVE OpenInv'
<1>1. /\ client[c].at = "send" /\ ClientTo(c, "await") /\ "await" \in ClientPlaces
      /\ sock' = [sock EXCEPT ![c].req = Append(@, Items[client[c].n])]
      /\ UNCHANGED <<fwd, read, leaf, serve, nodes>>
  BY DEF SendItem, ClientAt, ClientPlaces
<1>2. /\ ClientT' /\ client'[c].at = "await" /\ client'[c].n = client[c].n
      /\ \A d \in Opens \ {c} : client'[d] = client[d]
  BY <1>1, Before, ClientGoes
<1>3. /\ sock[c].req = <<>> /\ sock[c].rsp = <<>> /\ Waiting(client[c], serve[c])
      /\ client[c].n \in 1 .. 4
  BY <1>1, Before DEF Handover, Early, Waiting
<1>4. Items[client[c].n] \in ItemSet BY <1>3, ItemFacts
<1>5. /\ SockT' /\ sock'[c].req = <<Items[client[c].n]>> /\ sock'[c].rsp = <<>>
      /\ \A d \in Opens \ {c} : sock'[d] = sock[d]
  <2>1. Append(sock[c].req, Items[client[c].n]) = <<Items[client[c].n]>> BY <1>3, Pushes
  <2>2. <<Items[client[c].n]>> \in Seq(ItemSet) BY <1>4
  <2> QED BY <1>1, <1>3, <2>1, <2>2, Before DEF SockT, SockRec
<1>6. BaseType' BY <1>1, <1>2, <1>5, Before DEF BaseType, FwdT, ReadT, LeafT, ServeT, NodesT
<1>7. Others(c) BY <1>1, <1>2, <1>5 DEF Others
<1>8. Quiet(c) BY <1>1, Before DEF Quiet, Named
<1>9. OpenOK(c)'
  <2>1. Handover(client[c], sock[c], serve[c])'
    <3>1. sock'[c].req # <<>> BY <1>5, Pops
    <3>2. Waiting(client[c], serve[c])' BY <1>1, <1>2, <1>3 DEF Waiting
    <3> QED BY <1>1, <1>2, <1>3, <1>5, <3>1, <3>2, Before DEF Handover, Early
  <2>2. Owner(client[c], fwd[c], leaf[c], sock[c], serve[c])'
    BY <1>1, <1>2, Before DEF Owner
  <2>3. Output(fwd[c], leaf[c])' /\ Serving(serve[c])' /\ Input(leaf[c], serve[c])'
    BY <1>1, Before DEF Output, Serving, Input
  <2> QED BY <2>1, <2>2, <2>3 DEF OpenOK
<1> QED BY <1>6, <1>7, <1>8, <1>9, QuietStep

\* What an Ok finds, and what it leaves.
LEMMA OkIsNext ==
  ASSUME NEW cl, NEW sk, NEW sv, NEW cl2, NEW sk2, cl.n \in Nat, sk.rsp # <<>>,
         Handover(cl, sk, sv), Head(sk.rsp) = "Ok", cl.at = "await",
         sk2.req = sk.req, sk2.rsp = Tail(sk.rsp), cl2.n = cl.n + 1,
         cl.n < 4 => cl2.at = "send", cl.n = 4 => cl2.at = "await",
         cl.n > 4 => cl2.at = "done"
  PROVE  Handover(cl2, sk2, sv)
<1>1. sk.req = <<>> /\ Answered(cl, sk, sv) BY DEF Handover
<1>2. CASE cl.n \in 1 .. 3 /\ sv.n = cl.n /\ sv.at = "fd" /\ sk.rsp = <<"Ok">>
  <2>1. sk2.rsp = <<>> BY <1>2, Pops
  <2>2. Waiting(cl2, sv) BY <1>2 DEF Waiting
  <2> QED BY <1>1, <1>2, <2>1, <2>2 DEF Handover, Early
<1>3. CASE cl.n = 4 /\ Connecting(sv, Tail(sk.rsp))
  <2>1. cl2.n = 5 BY <1>3
  <2>2. Answered(cl2, sk2, sv) BY <1>3, <2>1, Zenon DEF Answered
  <2> QED BY <1>1, <1>3, <2>2 DEF Handover, Early
<1>4. CASE cl.n = 5 /\ Connecting(sv, sk.rsp)
  <2>1. sk.rsp # <<"Err">> BY Pops
  <2>2. sv.n = 5 BY <1>4, <2>1 DEF Connecting
  <2> QED BY <1>1, <1>4, <2>2 DEF Handover, Early
<1>5. \/ cl.n \in 1 .. 3 /\ sv.n = cl.n /\ sv.at = "fd" /\ sk.rsp = <<"Ok">>
      \/ cl.n = 4 /\ Connecting(sv, Tail(sk.rsp))
      \/ cl.n = 5 /\ Connecting(sv, sk.rsp)
  <2>1. sk.rsp = <<"Ok">> => Tail(sk.rsp) = <<>> BY Pops
  <2>2. \A r : sk.rsp = <<"Ok", r>> => Tail(sk.rsp) = <<r>> BY Pops
  <2> QED BY <1>1, <2>1, <2>2, Zenon DEF Answered
<1> QED BY <1>2, <1>3, <1>4, <1>5

LEMMA StepGotOk == ASSUME OpenInv, NEW c \in Opens, GotOk(c) PROVE OpenInv'
<1>1. /\ client[c].at = "await" /\ sock[c].rsp # <<>> /\ Head(sock[c].rsp) = "Ok"
      /\ sock' = [sock EXCEPT ![c].rsp = Tail(@)]
      /\ UNCHANGED <<fwd, read, leaf, serve, nodes>>
  BY DEF GotOk, ClientAt
<1>2. /\ ClientT' /\ client'[c].n = client[c].n + 1
      /\ client[c].n < 4 => client'[c].at = "send"
      /\ client[c].n = 4 => client'[c].at = "await"
      /\ client[c].n > 4 => client'[c].at = "done"
      /\ \A d \in Opens \ {c} : client'[d] = client[d]
  BY Before, ItemFacts DEF GotOk, ClientT, ClientRec, ClientPlaces
<1>3. /\ SockT' /\ sock'[c].req = sock[c].req /\ sock'[c].rsp = Tail(sock[c].rsp)
      /\ \A d \in Opens \ {c} : sock'[d] = sock[d]
  <2>1. sock[c].rsp \in Seq({"Ok", "Err"}) BY Before DEF SockT, SockRec
  <2>2. Tail(sock[c].rsp) \in Seq({"Ok", "Err"}) BY <1>1, <2>1, HeadTailProperties
  <2> QED BY <1>1, <2>2, Before DEF SockT, SockRec
<1>4. BaseType' BY <1>1, <1>2, <1>3, Before DEF BaseType, FwdT, ReadT, LeafT, ServeT, NodesT
<1>5. Others(c) BY <1>1, <1>2, <1>3 DEF Others
<1>6. Quiet(c) BY <1>1, Before DEF Quiet, Named
<1>7. OpenOK(c)'
  <2>1. Handover(client[c], sock[c], serve[c])'
    <3>1. client[c].n \in Nat BY Before DEF ClientT, ClientRec
    <3> QED BY <1>1, <1>2, <1>3, <3>1, Before, OkIsNext, ZenonT(60)
  <2>2. Owner(client[c], fwd[c], leaf[c], sock[c], serve[c])'
    <3>1. client[c].n \in Nat BY Before DEF ClientT, ClientRec
    <3>2. client'[c].at \in {"send", "await", "done"} BY <1>2, <3>1
    <3> QED BY <1>1, <1>3, <3>2, Before DEF Owner
  <2>3. Output(fwd[c], leaf[c])' /\ Serving(serve[c])' /\ Input(leaf[c], serve[c])'
    BY <1>1, Before DEF Output, Serving, Input
  <2> QED BY <2>1, <2>2, <2>3 DEF OpenOK
<1> QED BY <1>4, <1>5, <1>6, <1>7, QuietStep


-----------------------------------------------------------------------------
(* The steps of the forwarding tasks.                                         *)

\* A step of one of them that leaves the leaf alone.
LEMMA FwdStep ==
  ASSUME OpenInv, NEW c \in Opens, FwdT', \A d \in Opens \ {c} : fwd'[d] = fwd[d],
         ReadT', UNCHANGED <<client, leaf, sock, serve, nodes>>,
         Owner(client[c], fwd[c], leaf[c], sock[c], serve[c])', Output(fwd[c], leaf[c])'
  PROVE  OpenInv'
<1>1. BaseType' BY Before DEF BaseType, ClientT, LeafT, SockT, ServeT, NodesT
<1>2. Others(c) BY DEF Others
<1>3. Quiet(c) BY Before DEF Quiet, Named
<1>4. OpenOK(c)' BY Before DEF OpenOK
<1> QED BY <1>1, <1>2, <1>3, <1>4, QuietStep

\* A forwarder that is not through moves on: what its end implies is not at stake.
LEMMA StdinMoves ==
  ASSUME OpenInv, NEW c \in Opens, NEW x \in {"read", "write", "end", "failed"},
         fwd[c].stdin \in {"read", "write"}, FwdTo(c, "stdin", x), ReadT',
         UNCHANGED <<client, leaf, sock, serve, nodes>>
  PROVE  OpenInv'
<1>1. /\ FwdT' /\ fwd'[c].stderr = fwd[c].stderr /\ fwd'[c].stdout = fwd[c].stdout
      /\ \A d \in Opens \ {c} : fwd'[d] = fwd[d]
  BY Before, StdinGoes
<1>2. Owner(client[c], fwd[c], leaf[c], sock[c], serve[c])' BY <1>1, Before DEF Owner
<1>3. Output(fwd[c], leaf[c])' BY <1>1, Before DEF Output
<1> QED BY <1>1, <1>2, <1>3, FwdStep

LEMMA StderrMoves ==
  ASSUME OpenInv, NEW c \in Opens, NEW x \in {"read", "write", "end"},
         fwd[c].stderr \in {"read", "write"}, FwdTo(c, "stderr", x), ReadT',
         UNCHANGED <<client, leaf, sock, serve, nodes>>
  PROVE  OpenInv'
<1>1. /\ FwdT' /\ fwd'[c].stdin = fwd[c].stdin /\ fwd'[c].stdout = fwd[c].stdout
      /\ \A d \in Opens \ {c} : fwd'[d] = fwd[d]
  BY Before, StderrGoes
<1>2. Owner(client[c], fwd[c], leaf[c], sock[c], serve[c])' BY <1>1, Before DEF Owner
<1>3. Output(fwd[c], leaf[c])' BY <1>1, Before DEF Output
<1> QED BY <1>1, <1>2, <1>3, FwdStep

LEMMA StepChunk ==
  ASSUME OpenInv, NEW c \in Opens, NEW d \in Streams, Chunk(c, d) PROVE OpenInv'
<1>1. d = "stdin" \/ d = "stderr" BY DEF Streams
<1>2. UNCHANGED <<client, leaf, sock, serve, nodes>> BY DEF Chunk
<1>3. CASE d = "stdin"
  <2>1. fwd[c].stdin = "read" /\ FwdTo(c, "stdin", "write") BY <1>3 DEF Chunk, FwdAt
  <2>2. ReadT'
    BY <1>3, Before, Constants DEF Chunk, ReadT, ReadRec
  <2> QED BY <1>2, <2>1, <2>2, StdinMoves
<1>4. CASE d = "stderr"
  <2>1. fwd[c].stderr = "read" /\ FwdTo(c, "stderr", "write") BY <1>4 DEF Chunk, FwdAt
  <2>2. ReadT'
    BY <1>4, Before, Constants DEF Chunk, ReadT, ReadRec
  <2> QED BY <1>2, <2>1, <2>2, StderrMoves
<1> QED BY <1>1, <1>3, <1>4

LEMMA StepInterrupted ==
  ASSUME OpenInv, NEW c \in Opens, NEW d \in Streams, Interrupted(c, d) PROVE OpenInv'
<1>1. d = "stdin" \/ d = "stderr" BY DEF Streams
<1>2. UNCHANGED <<client, leaf, sock, serve, nodes>> /\ ReadT'
  BY Before DEF Interrupted, ReadT
<1>3. CASE d = "stdin"
  BY <1>2, <1>3, StdinMoves DEF Interrupted, FwdAt
<1>4. CASE d = "stderr"
  BY <1>2, <1>4, StderrMoves DEF Interrupted, FwdAt
<1> QED BY <1>1, <1>3, <1>4

LEMMA StepUserEof == ASSUME OpenInv, NEW c \in Opens, UserEof(c) PROVE OpenInv'
<1>1. ReadT' BY Before DEF UserEof, ReadT
<1> QED BY <1>1, StdinMoves DEF UserEof, FwdAt

LEMMA StepWriteInFails == ASSUME OpenInv, NEW c \in Opens, WriteInFails(c) PROVE OpenInv'
<1>1. ReadT' BY Before DEF WriteInFails, ReadT
<1> QED BY <1>1, StdinMoves DEF WriteInFails, FwdAt

LEMMA StepWriteErr == ASSUME OpenInv, NEW c \in Opens, WriteErr(c) PROVE OpenInv'
<1>1. ReadT' BY Before DEF WriteErr, ReadT
<1> QED BY <1>1, StderrMoves DEF WriteErr, FwdAt

LEMMA StepNoMagic == ASSUME OpenInv, NEW c \in Opens, NoMagic(c) PROVE OpenInv'
<1>1. /\ fwd[c].stdout = "read" /\ FwdTo(c, "stdout", "failed")
      /\ leaf[c].out = <<>> /\ leaf[c].at = "dead"
      /\ UNCHANGED <<client, read, leaf, sock, serve, nodes>>
  BY DEF NoMagic, FwdAt, LeafUp
<1>2. /\ FwdT' /\ fwd'[c].stdout = "failed" /\ fwd'[c].stdin = fwd[c].stdin
      /\ fwd'[c].stderr = fwd[c].stderr /\ \A d \in Opens \ {c} : fwd'[d] = fwd[d]
  BY <1>1, Before, StdoutGoes
<1>3. Owner(client[c], fwd[c], leaf[c], sock[c], serve[c])' BY <1>1, <1>2, Before DEF Owner
<1>4. Output(fwd[c], leaf[c])' BY <1>1, <1>2, Before DEF Output
<1>5. ReadT' BY <1>1, Before DEF ReadT
<1> QED BY <1>1, <1>2, <1>3, <1>4, <1>5, FwdStep

LEMMA StepMagic == ASSUME OpenInv, NEW c \in Opens, Magic(c) PROVE OpenInv'
<1>1. /\ fwd[c].stdout = "read" /\ FwdTo(c, "stdout", "end") /\ leaf[c].out # <<>>
      /\ leaf' = [leaf EXCEPT ![c].out = Tail(@)]
      /\ UNCHANGED <<client, read, sock, serve, nodes>>
  BY DEF Magic, FwdAt
<1>2. /\ FwdT' /\ fwd'[c].stdout = "end" /\ fwd'[c].stdin = fwd[c].stdin
      /\ fwd'[c].stderr = fwd[c].stderr /\ \A d \in Opens \ {c} : fwd'[d] = fwd[d]
  BY <1>1, Before, StdoutGoes
<1>3. Tail(leaf[c].out) = <<>> BY <1>1, Before, Pops DEF Output
<1>4. /\ LeafT' /\ leaf'[c].at = leaf[c].at /\ leaf'[c].in = leaf[c].in
      /\ leaf'[c].out = <<>> /\ leaf'[c].my = leaf[c].my /\ leaf'[c].server = leaf[c].server
      /\ \A d \in Opens \ {c} : leaf'[d] = leaf[d]
  <2>1. <<>> \in Seq({"magic", "HandshakeRsp"}) OBVIOUS
  <2> QED BY <1>1, <1>3, <2>1, Before DEF LeafT, LeafRec
<1>5. leaf[c].at \notin {"none", "text"} BY <1>1, Before DEF Output
<1>6. BaseType' BY <1>1, <1>2, <1>4, Before DEF BaseType, ClientT, ReadT, SockT, ServeT, NodesT
<1>7. Others(c) BY <1>1, <1>2, <1>4 DEF Others
<1>8. Quiet(c) BY <1>1, <1>4, Before DEF Quiet, Named
<1>9. OpenOK(c)'
  <2>1. Handover(client[c], sock[c], serve[c])' /\ Serving(serve[c])'
    BY <1>1, Before DEF Handover, Serving
  <2>2. Owner(client[c], fwd[c], leaf[c], sock[c], serve[c])'
    BY <1>1, <1>2, <1>4, Before DEF Owner
  <2>3. Output(fwd[c], leaf[c])' BY <1>2, <1>4, <1>5, Before, Pops DEF Output
  <2>4. Input(leaf[c], serve[c])' BY <1>1, <1>4, Before DEF Input
  <2> QED BY <2>1, <2>2, <2>3, <2>4 DEF OpenOK
<1> QED BY <1>6, <1>7, <1>8, <1>9, QuietStep

LEMMA UserIsMessage == User \in Message
BY DEF User, Message, NameSet

LEMMA StepWriteIn == ASSUME OpenInv, NEW c \in Opens, WriteIn(c) PROVE OpenInv'
<1>1. /\ fwd[c].stdin = "write" /\ FwdTo(c, "stdin", "read")
      /\ leaf' = [leaf EXCEPT ![c].in = Append(@, User)]
      /\ UNCHANGED <<client, read, sock, serve, nodes>>
  BY DEF WriteIn, FwdAt
<1>2. /\ FwdT' /\ fwd'[c].stdin = "read" /\ fwd'[c].stderr = fwd[c].stderr
      /\ fwd'[c].stdout = fwd[c].stdout /\ \A d \in Opens \ {c} : fwd'[d] = fwd[d]
  BY <1>1, Before, StdinGoes
<1>3. leaf[c].in \in Seq(Message) BY Before DEF LeafT, LeafRec
<1>4. /\ Append(leaf[c].in, User) \in Seq(Message)
      /\ Len(Append(leaf[c].in, User)) = Len(leaf[c].in) + 1
      /\ \A i \in 1 .. Len(leaf[c].in) : Append(leaf[c].in, User)[i] = leaf[c].in[i]
      /\ Append(leaf[c].in, User)[Len(leaf[c].in) + 1] = User
  BY <1>3, UserIsMessage, AppendProperties
<1>5. /\ LeafT' /\ leaf'[c].at = leaf[c].at /\ leaf'[c].in = Append(leaf[c].in, User)
      /\ leaf'[c].out = leaf[c].out /\ leaf'[c].my = leaf[c].my
      /\ leaf'[c].server = leaf[c].server /\ \A d \in Opens \ {c} : leaf'[d] = leaf[d]
  BY <1>1, <1>4, Before DEF LeafT, LeafRec
\* The daemon has not begun, and nobody has named the leaf.
<1>6. serve[c].n = 0 BY <1>1, Before DEF Owner, Serving
<1>7. serve[c].name = NoName BY <1>6, Before DEF Named
<1>8. BaseType' BY <1>1, <1>2, <1>5, Before DEF BaseType, ClientT, ReadT, SockT, ServeT, NodesT
<1>9. Others(c) BY <1>1, <1>2, <1>5 DEF Others
<1>10. Quiet(c) BY <1>1, <1>5, Before DEF Quiet, Named
<1>11. OpenOK(c)'
  <2>1. Handover(client[c], sock[c], serve[c])' /\ Serving(serve[c])'
    BY <1>1, Before DEF Handover, Serving
  <2>2. Owner(client[c], fwd[c], leaf[c], sock[c], serve[c])'
    BY <1>1, <1>2, <1>5, Before DEF Owner
  <2>3. Output(fwd[c], leaf[c])' BY <1>2, <1>5, Before DEF Output
  <2>4. Input(leaf[c], serve[c])'
    <3>1. \A i \in 1 .. Len(leaf[c].in) : leaf[c].in[i] = User BY <1>7, Before DEF Input
    <3>2. \A i \in 1 .. Len(leaf'[c].in) : leaf'[c].in[i] = User
      <4>1. \A i \in 1 .. Len(leaf[c].in) + 1 :
               i \in 1 .. Len(leaf[c].in) \/ i = Len(leaf[c].in) + 1
        BY <1>3
      <4> QED BY <1>4, <1>5, <3>1, <4>1
    <3>3. leaf[c].my = NoName BY <1>7, Before DEF Input
    <3>4. serve[c].at # "mark" BY <1>6, Before DEF Serving
    <3> QED BY <1>1, <1>5, <3>2, <3>3, <3>4 DEF Input
  <2> QED BY <2>1, <2>2, <2>3, <2>4 DEF OpenOK
<1> QED BY <1>8, <1>9, <1>10, <1>11, QuietStep


-----------------------------------------------------------------------------
(* The steps of the daemon's task.                                            *)

\* A step of it that leaves the leaf and the names alone.
LEMMA ServeStep ==
  ASSUME OpenInv, NEW c \in Opens, ServeT', \A d \in Opens \ {c} : serve'[d] = serve[d],
         SockT', \A d \in Opens \ {c} : sock'[d] = sock[d],
         UNCHANGED <<client, fwd, read, leaf, nodes>>, serve'[c].name = serve[c].name,
         Handover(client[c], sock[c], serve[c])', Serving(serve[c])',
         Owner(client[c], fwd[c], leaf[c], sock[c], serve[c])', Named(serve[c])',
         serve'[c].at \notin {"hello", "mark"}
  PROVE  OpenInv'
<1>1. BaseType' BY Before DEF BaseType, ClientT, FwdT, ReadT, LeafT, NodesT
<1>2. Others(c) BY DEF Others
<1>3. Quiet(c) BY DEF Quiet
<1>4. Output(fwd[c], leaf[c])' BY Before DEF Output
<1>5. Input(leaf[c], serve[c])' BY Before DEF Input
<1>6. OpenOK(c)' BY <1>4, <1>5 DEF OpenOK
<1> QED BY <1>1, <1>2, <1>3, <1>6, QuietStep

\* A step that only moves it on.
LEMMA ServeMoves ==
  ASSUME OpenInv, NEW c \in Opens, NEW x \in ServePlaces, ServeTo(c, x),
         UNCHANGED <<client, fwd, read, leaf, sock, nodes>>,
         x \in {"next", "end", "error", "failed"}, serve[c].at # "ok" \/ x = "failed",
         x = "next" => serve[c].n = 0,
         Handover(client[c], sock[c], serve[c])'
  PROVE  OpenInv'
<1>1. /\ ServeT' /\ serve'[c].at = x /\ serve'[c].n = serve[c].n
      /\ serve'[c].got = serve[c].got /\ serve'[c].name = serve[c].name
      /\ \A d \in Opens \ {c} : serve'[d] = serve[d]
  BY Before, ServeGoes
<1>2. Serving(serve[c])' BY <1>1, Before DEF Serving
<1>3. Owner(client[c], fwd[c], leaf[c], sock[c], serve[c])' BY <1>1, Before DEF Owner
<1>4. Named(serve[c])' BY <1>1, Before DEF Named
<1>5. SockT' BY Before DEF SockT
<1> QED BY <1>1, <1>2, <1>3, <1>4, <1>5, ServeStep

LEMMA StepAccept == ASSUME OpenInv, NEW c \in Opens, Accept(c) PROVE OpenInv'
<1>1. /\ serve[c].at = "none" /\ ServeTo(c, "next") /\ "next" \in ServePlaces
      /\ UNCHANGED <<client, fwd, read, leaf, sock, nodes>>
  BY DEF Accept, ServeAt, ServePlaces
<1>2. serve[c].n = 0 BY <1>1, Before DEF Serving
<1>3. serve'[c].at = "next" /\ serve'[c].n = 0 BY <1>1, <1>2, Before, ServeGoes
<1>4. ~Answered(client[c], sock[c], serve[c])
  BY <1>1, <1>2, Zenon DEF Answered, Connecting
<1>5. Waiting(client[c], serve[c]) => Waiting(client[c], serve[c])'
  BY <1>1, <1>2, <1>3 DEF Waiting
<1>6. Handover(client[c], sock[c], serve[c])'
  BY <1>1, <1>2, <1>3, <1>4, <1>5, Before DEF Handover
<1> QED BY <1>1, <1>2, <1>6, ServeMoves

\* Nobody is there any more: the task ends, and nothing is on the socket.
LEMMA Alone ==
  ASSUME NEW cl, NEW sk, NEW sv, NEW sv2, Handover(cl, sk, sv), sv2.n = sv.n,
         cl.at \in {"done", "failed"}, sk.req = <<>> \/ sv.at = "ok"
  PROVE  Handover(cl, sk, sv2)
<1>1. sk.req = <<>> BY DEF Handover, Waiting
<1> QED BY <1>1 DEF Handover, Early

LEMMA StepAlone ==
  ASSUME OpenInv, NEW c \in Opens, NextEof(c) \/ RecvEof(c) \/ SendFails(c) PROVE OpenInv'
<1>1. PICK x \in {"end", "error", "failed"} :
        /\ ServeTo(c, x)
        /\ sock[c].req = <<>> \/ serve[c].at = "ok"
        /\ serve[c].at # "ok" \/ x = "failed"
  BY DEF NextEof, RecvEof, SendFails, ServeAt
<1>2. /\ ~ClientUp(c) /\ x \in ServePlaces
      /\ UNCHANGED <<client, fwd, read, leaf, sock, nodes>>
  BY DEF NextEof, RecvEof, SendFails, ServePlaces
<1>3. serve'[c].n = serve[c].n BY <1>1, <1>2, Before, ServeGoes
<1>4. client[c].at \in {"done", "failed"} BY <1>2, Before DEF ClientUp
<1>5. Handover(client[c], sock[c], serve[c])' BY <1>1, <1>2, <1>3, <1>4, Before, Alone
<1> QED BY <1>1, <1>2, <1>5, ServeMoves

\* Between the last Ok to an item and the answer to the request.
LEMMA WhileConnecting ==
  ASSUME NEW cl, NEW sk, NEW sv, NEW sv2, Handover(cl, sk, sv), Connecting(sv2, <<>>),
         sv.n = 4, sv.at \in {"insert", "hello", "rsp", "mark"}
  PROVE  Handover(cl, sk, sv2)
<1>1. ~Waiting(cl, sv) BY DEF Waiting
<1>2. cl.at \notin Early \cup {"send", "done"} /\ sk.req = <<>> BY <1>1 DEF Handover
<1>3. CASE cl.at = "await"
  <2>1. Answered(cl, sk, sv) BY <1>2, <1>3 DEF Handover
  <2>2. ~Connecting(sv, <<"Ok">>) /\ ~Connecting(sv, <<"Err">>)
        /\ (Connecting(sv, sk.rsp) => sk.rsp = <<>>)
    BY Zenon DEF Connecting
  <2>3. \/ cl.n = 4 /\ sk.rsp = <<"Ok">>
        \/ cl.n = 5 /\ sk.rsp = <<>>
    BY <2>1, <2>2, Zenon DEF Answered
  <2>4. Answered(cl, sk, sv2) BY <2>3, Zenon DEF Answered
  <2> QED BY <1>2, <1>3, <2>4 DEF Handover
<1> QED BY <1>2, <1>3 DEF Handover

LEMMA StepLeafGone ==
  ASSUME OpenInv, NEW c \in Opens, HelloFails(c) \/ NoAnswer(c) PROVE OpenInv'
<1>1. /\ serve[c].at \in {"hello", "rsp"}
      /\ UNCHANGED <<client, fwd, read, leaf, sock, nodes>>
  BY DEF HelloFails, NoAnswer, ServeAt
<1>2. PICK x \in {"error", "failed"} : ServeTo(c, x)
  BY DEF HelloFails, NoAnswer
<1>3. x \in ServePlaces BY DEF ServePlaces
<1>4. serve[c].n = 4 BY <1>1, Before DEF Serving
<1>5. serve'[c].at = x /\ serve'[c].n = 4 BY <1>2, <1>3, <1>4, Before, ServeGoes
<1>6. Connecting(serve'[c], <<>>) BY <1>5 DEF Connecting
<1>7. Handover(client[c], sock[c], serve[c])'
  BY <1>1, <1>4, <1>6, Before, WhileConnecting
<1> QED BY <1>1, <1>2, <1>3, <1>7, ServeMoves


\* The request is taken: nothing is lost with it.
LEMMA StepNextRequest == ASSUME OpenInv, NEW c \in Opens, NextRequest(c) PROVE OpenInv'
<1>1. /\ serve[c].at = "next" /\ sock[c].req # <<>>
      /\ UNCHANGED <<client, fwd, read, leaf, nodes>>
  BY DEF NextRequest, ServeAt
<1>2. /\ client[c].at \in {"await", "failed"} /\ client[c].n = 1 /\ serve[c].n = 0
      /\ sock[c].rsp = <<>> /\ sock[c].req = <<Items[1]>>
  BY <1>1, Before DEF Handover, Waiting
<1>3. /\ ServeT' /\ serve'[c].at = "ok" /\ serve'[c].n = 1
      /\ serve'[c].got = serve[c].got /\ serve'[c].name = serve[c].name
      /\ \A d \in Opens \ {c} : serve'[d] = serve[d]
  BY Before DEF NextRequest, ServeT, ServeRec, ServePlaces
<1>4. /\ SockT' /\ sock'[c].req = <<>> /\ sock'[c].rsp = <<>>
      /\ \A d \in Opens \ {c} : sock'[d] = sock[d]
  <2>1. <<>> \in Seq(ItemSet) OBVIOUS
  <2> QED BY <1>2, <2>1, Before DEF NextRequest, SockT, SockRec
<1>5. Handover(client[c], sock[c], serve[c])'
  <2>1. client'[c].n \in 1 .. 4 /\ serve'[c].n = client'[c].n BY <1>1, <1>2, <1>3
  <2>2. Answered(client[c], sock[c], serve[c])' BY <1>3, <1>4, <2>1, Zenon DEF Answered
  <2> QED BY <1>1, <1>2, <1>4, <2>2 DEF Handover, Early
<1>6. Serving(serve[c])' BY <1>2, <1>3, Before DEF Serving, Received
<1>7. Owner(client[c], fwd[c], leaf[c], sock[c], serve[c])'
  BY <1>1, <1>2, <1>3, <1>4, Before DEF Owner
<1>8. Named(serve[c])' BY <1>1, <1>2, <1>3, Before DEF Named
<1> QED BY <1>1, <1>3, <1>4, <1>5, <1>6, <1>7, <1>8, ServeStep

LEMMA StepRecvFd == ASSUME OpenInv, NEW c \in Opens, RecvFd(c) PROVE OpenInv'
<1>1. /\ serve[c].at = "fd" /\ sock[c].req # <<>>
      /\ sock' = [sock EXCEPT ![c].req = Tail(@)]
      /\ UNCHANGED <<client, fwd, read, leaf, nodes>>
  BY DEF RecvFd, ServeAt
<1>2. /\ client[c].at \in {"await", "failed"} /\ client[c].n \in 2 .. 4
      /\ serve[c].n = client[c].n - 1
      /\ sock[c].rsp = <<>> /\ sock[c].req = <<Items[client[c].n]>>
  BY <1>1, Before DEF Handover, Waiting
<1>3. Head(sock[c].req) = Items[client[c].n] /\ Tail(sock[c].req) = <<>> BY <1>2, Pops
<1>4. Items[client[c].n] # "Open" /\ Items[client[c].n] \in ItemSet BY <1>2, ItemFacts
<1>5. serve' = [serve EXCEPT ![c].at = "ok", ![c].n = @ + 1,
                             ![c].got = Append(@, Items[client[c].n])]
  BY <1>3, <1>4 DEF RecvFd
<1>6. /\ ServeT' /\ serve'[c].at = "ok" /\ serve'[c].n = client[c].n
      /\ serve'[c].got = Append(serve[c].got, Items[client[c].n])
      /\ serve'[c].name = serve[c].name
      /\ \A d \in Opens \ {c} : serve'[d] = serve[d]
  <2>1. serve[c].got \in Seq(ItemSet) BY Before DEF ServeT, ServeRec
  <2>2. Append(serve[c].got, Items[client[c].n]) \in Seq(ItemSet)
    BY <1>4, <2>1, AppendProperties
  <2>3. serve[c].n + 1 = client[c].n /\ serve[c].n + 1 \in Nat BY <1>2
  <2> QED BY <1>5, <2>2, <2>3, Before DEF ServeT, ServeRec, ServePlaces
<1>7. /\ SockT' /\ sock'[c].req = <<>> /\ sock'[c].rsp = <<>>
      /\ \A d \in Opens \ {c} : sock'[d] = sock[d]
  <2>1. <<>> \in Seq(ItemSet) OBVIOUS
  <2> QED BY <1>1, <1>2, <1>3, <2>1, Before DEF SockT, SockRec
<1>8. Handover(client[c], sock[c], serve[c])'
  <2>1. client[c].n \in 1 .. 4 BY <1>2
  <2>2. Answered(client[c], sock[c], serve[c])'
    BY <1>1, <1>6, <1>7, <2>1, Zenon DEF Answered
  <2> QED BY <1>1, <1>2, <1>7, <2>2 DEF Handover, Early
<1>9. Serving(serve[c])'
  <2>1. serve[c].got = Received(serve[c].n) BY Before DEF Serving
  <2>2. CASE client[c].n = 2
    BY <1>2, <1>6, <2>1, <2>2, ItemFacts, Pushes DEF Serving, Received
  <2>3. CASE client[c].n = 3
    BY <1>2, <1>6, <2>1, <2>3, ItemFacts, Pushes DEF Serving, Received
  <2>4. CASE client[c].n = 4
    BY <1>2, <1>6, <2>1, <2>4, ItemFacts, Pushes DEF Serving, Received
  <2> QED BY <1>2, <2>2, <2>3, <2>4
<1>10. Owner(client[c], fwd[c], leaf[c], sock[c], serve[c])'
  BY <1>1, <1>2, <1>6, <1>7, Before DEF Owner
<1>11. Named(serve[c])' BY <1>1, <1>2, <1>6, Before DEF Named
<1> QED BY <1>1, <1>6, <1>7, <1>8, <1>9, <1>10, <1>11, ServeStep

\* What the daemon's task finds when it answers, and what it leaves.
LEMMA AnswerIsNext ==
  ASSUME NEW cl, NEW sk, NEW sv, NEW sk2, NEW sv2, cl.n \in Nat,
         Handover(cl, sk, sv), cl.at \notin {"done", "failed"}, cl.at \in ClientPlaces,
         sk2.req = sk.req, sv2.n = sv.n,
         \/ /\ sv.at = "ok" /\ sk2.rsp = Append(sk.rsp, "Ok") /\ sv2.at = AfterOk(sv.n)
            /\ sv.n \in 1 .. 5
         \/ sv.at = "error" /\ sk2.rsp = Append(sk.rsp, "Err") /\ sv2.at = "failed"
  PROVE  Handover(cl, sk2, sv2)
<1>1. ~Waiting(cl, sv) BY DEF Waiting
<1>2. cl.at \notin Early \cup {"send"} /\ sk.req = <<>> BY <1>1 DEF Handover
<1>3. cl.at = "await" BY <1>2 DEF ClientPlaces, Early
<1>4. Answered(cl, sk, sv) BY <1>2, <1>3 DEF Handover
<1>5. Answered(cl, sk2, sv2)
  <2>1. CASE sv.at = "ok" /\ cl.n \in 1 .. 4 /\ sv.n = cl.n /\ sk.rsp = <<>>
    <3>1. sk2.rsp = <<"Ok">> BY <2>1, Pushes
    <3>2. cl.n \in 1 .. 3 => sv2.at = "fd" BY <2>1, ItemFacts DEF AfterOk
    <3>3. cl.n = 4 => sv2.at = "insert" BY <2>1, ItemFacts DEF AfterOk
    <3>4. CASE cl.n \in 1 .. 3 BY <2>1, <3>1, <3>2, <3>4, Zenon DEF Answered
    <3>5. CASE cl.n = 4
      <4>1. Connecting(sv2, <<>>) BY <2>1, <3>3, <3>5 DEF Connecting
      <4> QED BY <3>1, <3>5, <4>1, Zenon DEF Answered
    <3> QED BY <2>1, <3>4, <3>5
  <2>2. CASE /\ sv.at = "ok" /\ sv.n = 5
             /\ ((cl.n = 4 /\ sk.rsp = <<"Ok">>) \/ (cl.n = 5 /\ sk.rsp = <<>>))
    <3>1. sv2.at = "next" BY <2>2, ItemFacts DEF AfterOk
    <3>2. Connecting(sv2, <<"Ok">>) BY <2>2, <3>1 DEF Connecting
    <3>3. \/ cl.n = 4 /\ sk2.rsp = <<"Ok", "Ok">>
          \/ cl.n = 5 /\ sk2.rsp = <<"Ok">>
      BY <2>2, Pushes
    <3> QED BY <3>2, <3>3, Zenon DEF Answered
  <2>3. CASE /\ sv.at = "error" /\ sv.n = 4
             /\ ((cl.n = 4 /\ sk.rsp = <<"Ok">>) \/ (cl.n = 5 /\ sk.rsp = <<>>))
    <3>1. Connecting(sv2, <<"Err">>) BY <2>3 DEF Connecting
    <3>2. \/ cl.n = 4 /\ sk2.rsp = <<"Ok", "Err">>
          \/ cl.n = 5 /\ sk2.rsp = <<"Err">>
      BY <2>3, Pushes
    <3> QED BY <3>1, <3>2, Zenon DEF Answered
  <2>4. /\ \A r : Connecting(sv, r) /\ sv.at = "ok" => sv.n = 5 /\ r = <<>>
        /\ \A r : Connecting(sv, r) /\ sv.at = "error" => sv.n = 4 /\ r = <<>>
    BY Zenon DEF Connecting
  <2>5. <<"Ok">> # <<>> /\ <<"Err">> # <<>> BY Pops
  <2>6. \/ sv.at = "ok" /\ cl.n \in 1 .. 4 /\ sv.n = cl.n /\ sk.rsp = <<>>
        \/ cl.n = 4 /\ sk.rsp = <<"Ok">> /\ Connecting(sv, <<>>)
        \/ cl.n = 5 /\ sk.rsp = <<>> /\ Connecting(sv, <<>>)
    <3>1. sv.at # "fd" OBVIOUS
    <3>2. sv.at = "ok" \/ sv.at = "error" OBVIOUS
    <3>3. ~Connecting(sv, <<"Ok">>) /\ ~Connecting(sv, <<"Err">>) BY <2>4, <2>5, <3>2, Zenon
    <3>4. Connecting(sv, sk.rsp) => sk.rsp = <<>> BY <2>4, <3>2, Zenon
    <3> QED BY <1>4, <3>1, <3>3, <3>4, Zenon DEF Answered
  <2>7. sv.at = "ok" \/ sv.at = "error" OBVIOUS
  <2> QED BY <2>1, <2>2, <2>3, <2>4, <2>6, <2>7, Zenon
<1> QED BY <1>2, <1>3, <1>5 DEF Handover, Early


LEMMA StepSendOk == ASSUME OpenInv, NEW c \in Opens, SendOk(c) PROVE OpenInv'
<1>1. /\ serve[c].at = "ok" /\ client[c].at \notin {"done", "failed"}
      /\ sock' = [sock EXCEPT ![c].rsp = Append(@, "Ok")]
      /\ serve' = [serve EXCEPT ![c].at = AfterOk(serve[c].n)]
      /\ UNCHANGED <<client, fwd, read, leaf, nodes>>
  BY DEF SendOk, ServeAt, ClientUp
<1>2. serve[c].n \in 1 .. 5 BY <1>1, Before DEF Serving
<1>3. /\ AfterOk(serve[c].n) \in {"fd", "insert", "next"}
      /\ AfterOk(serve[c].n) = "fd" => serve[c].n \in 1 .. 3
      /\ AfterOk(serve[c].n) = "insert" => serve[c].n = 4
      /\ AfterOk(serve[c].n) = "next" => serve[c].n = 5
  BY <1>2, ItemFacts DEF AfterOk
<1>4. /\ ServeT' /\ serve'[c].at = AfterOk(serve[c].n) /\ serve'[c].n = serve[c].n
      /\ serve'[c].got = serve[c].got /\ serve'[c].name = serve[c].name
      /\ \A d \in Opens \ {c} : serve'[d] = serve[d]
  BY <1>1, <1>3, Before DEF ServeT, ServeRec, ServePlaces
<1>5. /\ SockT' /\ sock'[c].req = sock[c].req /\ sock'[c].rsp = Append(sock[c].rsp, "Ok")
      /\ \A d \in Opens \ {c} : sock'[d] = sock[d]
  <2>1. sock[c].rsp \in Seq({"Ok", "Err"}) BY Before DEF SockT, SockRec
  <2>2. Append(sock[c].rsp, "Ok") \in Seq({"Ok", "Err"}) BY <2>1, AppendProperties
  <2> QED BY <1>1, <2>2, Before DEF SockT, SockRec
<1>6. Handover(client[c], sock[c], serve[c])'
  <2>1. client[c].n \in Nat /\ client[c].at \in ClientPlaces BY Before DEF ClientT, ClientRec
  <2>2. client' = client BY <1>1
  <2> QED BY <1>1, <1>2, <1>4, <1>5, <2>1, <2>2, Before, AnswerIsNext
<1>7. Serving(serve[c])' BY <1>3, <1>4, Before DEF Serving
<1>8. Owner(client[c], fwd[c], leaf[c], sock[c], serve[c])'
  BY <1>1, <1>4, <1>5, Before DEF Owner
<1>9. Named(serve[c])' BY <1>1, <1>2, <1>3, <1>4, Before DEF Named
<1> QED BY <1>1, <1>3, <1>4, <1>5, <1>6, <1>7, <1>8, <1>9, ServeStep

LEMMA StepSendErr == ASSUME OpenInv, NEW c \in Opens, SendErr(c) PROVE OpenInv'
<1>1. /\ serve[c].at = "error" /\ ServeTo(c, "failed") /\ "failed" \in ServePlaces
      /\ UNCHANGED <<client, fwd, read, leaf, nodes>>
  BY DEF SendErr, ServeAt, ServePlaces
<1>2. /\ ServeT' /\ serve'[c].at = "failed" /\ serve'[c].n = serve[c].n
      /\ serve'[c].got = serve[c].got /\ serve'[c].name = serve[c].name
      /\ \A d \in Opens \ {c} : serve'[d] = serve[d]
  BY <1>1, Before, ServeGoes
<1>3. CASE ~ClientUp(c)
  <2>1. sock' = sock BY <1>3 DEF SendErr
  <2>2. client[c].at \in {"done", "failed"} BY <1>3, Before DEF ClientUp
  <2>3. sock[c].req = <<>> BY <1>1, Before DEF Handover, Waiting
  <2>4. Handover(client[c], sock[c], serve[c])' BY <1>1, <1>2, <2>1, <2>2, <2>3, Before, Alone
  <2> QED BY <1>1, <2>1, <2>4, ServeMoves
<1>4. CASE ClientUp(c)
  <2>1. /\ sock' = [sock EXCEPT ![c].rsp = Append(@, "Err")]
        /\ client[c].at \notin {"done", "failed"}
    BY <1>4 DEF SendErr, ClientUp
  <2>2. /\ SockT' /\ sock'[c].req = sock[c].req /\ sock'[c].rsp = Append(sock[c].rsp, "Err")
        /\ \A d \in Opens \ {c} : sock'[d] = sock[d]
    <3>1. sock[c].rsp \in Seq({"Ok", "Err"}) BY Before DEF SockT, SockRec
    <3>2. Append(sock[c].rsp, "Err") \in Seq({"Ok", "Err"}) BY <3>1, AppendProperties
    <3> QED BY <2>1, <3>2, Before DEF SockT, SockRec
  <2>3. Handover(client[c], sock[c], serve[c])'
    <3>1. client[c].n \in Nat /\ client[c].at \in ClientPlaces BY Before DEF ClientT, ClientRec
    <3>2. client' = client BY <1>1
    <3> QED BY <1>1, <1>2, <2>1, <2>2, <3>1, <3>2, Before, AnswerIsNext
  <2>4. Serving(serve[c])' BY <1>2, Before DEF Serving
  <2>5. Owner(client[c], fwd[c], leaf[c], sock[c], serve[c])'
    BY <1>1, <1>2, <2>2, Before DEF Owner
  <2>6. Named(serve[c])' BY <1>1, <1>2, Before DEF Named
  <2> QED BY <1>1, <1>2, <2>2, <2>3, <2>4, <2>5, <2>6, ServeStep
<1> QED BY <1>3, <1>4

-----------------------------------------------------------------------------
(* The handshake.                                                             *)

LEMMA StepInsert == ASSUME OpenInv, NEW c \in Opens, Insert(c) PROVE OpenInv'
<1>1. /\ serve[c].at = "insert" /\ UNCHANGED <<client, fwd, read, leaf, sock>>
  BY DEF Insert, ServeAt
<1>2. PICK m \in Names : /\ nodes[m] = "none"
                         /\ nodes' = [nodes EXCEPT ![m] = "Handshake"]
                         /\ serve' = [serve EXCEPT ![c].at = "hello", ![c].name = m]
  BY DEF Insert
<1>3. m # NoName /\ NoName \notin Names BY Constants
<1>4. /\ ServeT' /\ serve'[c].at = "hello" /\ serve'[c].n = serve[c].n
      /\ serve'[c].got = serve[c].got /\ serve'[c].name = m
      /\ \A d \in Opens \ {c} : serve'[d] = serve[d]
  BY <1>2, Before DEF ServeT, ServeRec, ServePlaces, NameSet
<1>5. NodesT' /\ nodes'[m] = "Handshake" /\ \A k \in Names \ {m} : nodes'[k] = nodes[k]
  BY <1>2, Before DEF NodesT, NodeSet
<1>6. serve[c].n = 4 /\ serve[c].name = NoName BY <1>1, Before DEF Serving, Named
<1>7. BaseType'
  BY <1>1, <1>4, <1>5, Before DEF BaseType, ClientT, FwdT, ReadT, LeafT, SockT
<1>8. Others(c) BY <1>1, <1>4 DEF Others
<1>9. OpenOK(c)'
  <2>1. Connecting(serve'[c], <<>>) BY <1>4, <1>6 DEF Connecting
  <2>2. Handover(client[c], sock[c], serve[c])'
    BY <1>1, <1>6, <2>1, Before, WhileConnecting
  <2>3. Serving(serve[c])' BY <1>4, <1>6, Before DEF Serving
  <2>4. Owner(client[c], fwd[c], leaf[c], sock[c], serve[c])' BY <1>1, <1>4, Before DEF Owner
  <2>5. Output(fwd[c], leaf[c])' BY <1>1, Before DEF Output
  \* Nobody has written a Handshake to the leaf yet.
  <2>6. leaf[c].my = NoName /\ \A i \in 1 .. Len(leaf[c].in) : leaf[c].in[i] = User
    BY <1>6, Before DEF Input
  <2>7. Input(leaf[c], serve[c])' BY <1>1, <1>4, <2>6 DEF Input
  <2> QED BY <2>2, <2>3, <2>4, <2>5, <2>7 DEF OpenOK
<1>10. Store'
  <2>1. \A d \in Opens : Named(serve[d]) BY DEF OpenInv, Store
  <2>2. \A d \in Opens : serve[d].name \in Names \cup {NoName}
    BY Before DEF ServeT, ServeRec, NameSet
  <2>3. \A d \in Opens : serve[d].name # NoName => serve[d].name # m
    BY <1>2, <2>1 DEF Named
  <2>4. nodes'[MyName] = "MyNode"
    BY <1>2, <1>5, Constants DEF OpenInv, Store
  <2>5. ASSUME NEW d \in Opens PROVE Named(serve[d])'
    <3>1. CASE d = c BY <1>3, <1>4, <1>5, <1>6, <3>1 DEF Named
    <3>2. CASE d # c
      <4>1. serve'[d] = serve[d] BY <1>4, <3>2
      <4>2. serve[d].name # NoName => nodes'[serve[d].name] = nodes[serve[d].name]
        BY <1>5, <2>2, <2>3
      <4> QED BY <2>1, <4>1, <4>2 DEF Named
    <3> QED BY <3>1, <3>2
  <2>6. ASSUME NEW d \in Opens, NEW e \in Opens, d # e, serve'[d].name # NoName
        PROVE  serve'[d].name # serve'[e].name
    <3>1. CASE d # c /\ e # c BY <1>4, <2>6, <3>1 DEF OpenInv, Store
    <3>2. CASE d = c BY <1>3, <1>4, <2>3, <2>6, <3>2
    <3>3. CASE e = c BY <1>3, <1>4, <2>3, <2>6, <3>3
    <3> QED BY <3>1, <3>2, <3>3
  <2>7. \A k \in Names : nodes'[k] = "Connected" => \E d \in Opens : leaf'[d].my = k
    BY <1>1, <1>5 DEF OpenInv, Store
  <2> QED BY <2>4, <2>5, <2>6, <2>7 DEF Store
<1> QED BY <1>7, <1>8, <1>9, <1>10, OthersOK DEF OpenInv


LEMMA StepHello == ASSUME OpenInv, NEW c \in Opens, Hello(c) PROVE OpenInv'
<1> DEFINE h == Handshake(serve[c].name, MyName)
<1>1. /\ serve[c].at = "hello" /\ leaf[c].at # "dead"
      /\ ServeTo(c, "rsp") /\ "rsp" \in ServePlaces
      /\ leaf' = [leaf EXCEPT ![c].in = Append(@, h)]
      /\ UNCHANGED <<client, fwd, read, sock, nodes>>
  BY DEF Hello, ServeAt, LeafUp, ServePlaces
<1>2. /\ ServeT' /\ serve'[c].at = "rsp" /\ serve'[c].n = serve[c].n
      /\ serve'[c].got = serve[c].got /\ serve'[c].name = serve[c].name
      /\ \A d \in Opens \ {c} : serve'[d] = serve[d]
  BY <1>1, Before, ServeGoes
<1>3. serve[c].n = 4 /\ serve[c].name # NoName BY <1>1, Before DEF Serving, Named
<1>4. h \in Message
  <2>1. serve[c].name \in NameSet /\ MyName \in NameSet
    BY Before, Constants DEF ServeT, ServeRec, NameSet
  <2> QED BY <2>1 DEF Handshake, Message
<1> HIDE DEF h
<1>5. leaf[c].in \in Seq(Message) BY Before DEF LeafT, LeafRec
<1>6. /\ Append(leaf[c].in, h) \in Seq(Message)
      /\ Len(Append(leaf[c].in, h)) = Len(leaf[c].in) + 1
      /\ \A i \in 1 .. Len(leaf[c].in) : Append(leaf[c].in, h)[i] = leaf[c].in[i]
      /\ Append(leaf[c].in, h)[Len(leaf[c].in) + 1] = h
  BY <1>4, <1>5, AppendProperties
<1>7. /\ LeafT' /\ leaf'[c].at = leaf[c].at /\ leaf'[c].in = Append(leaf[c].in, h)
      /\ leaf'[c].out = leaf[c].out /\ leaf'[c].my = leaf[c].my
      /\ leaf'[c].server = leaf[c].server /\ \A d \in Opens \ {c} : leaf'[d] = leaf[d]
  BY <1>1, <1>6, Before DEF LeafT, LeafRec
<1>8. BaseType' BY <1>1, <1>2, <1>7, Before DEF BaseType, ClientT, FwdT, ReadT, SockT, NodesT
<1>9. Others(c) BY <1>1, <1>2, <1>7 DEF Others
<1>10. Quiet(c) BY <1>1, <1>2, <1>3, <1>7, Before DEF Quiet, Named
<1>11. OpenOK(c)'
  <2>1. Connecting(serve'[c], <<>>) BY <1>2, <1>3 DEF Connecting
  <2>2. Handover(client[c], sock[c], serve[c])'
    BY <1>1, <1>3, <2>1, Before, WhileConnecting
  <2>3. Serving(serve[c])' BY <1>2, <1>3, Before DEF Serving
  <2>4. client[c].at \notin {"connect", "spawn"}
    BY <1>3, Before DEF Owner, Handover, Early, Waiting
  <2>5. Owner(client[c], fwd[c], leaf[c], sock[c], serve[c])'
    BY <1>1, <1>2, <2>4, Before DEF Owner
  <2>6. Output(fwd[c], leaf[c])' BY <1>1, <1>7, Before DEF Output
  <2>7. Input(leaf[c], serve[c])'
    <3>1. leaf[c].my = NoName /\ \A i \in 1 .. Len(leaf[c].in) : leaf[c].in[i] = User
      BY <1>1, Before DEF Input
    <3>2. Len(leaf[c].in) \in Nat BY <1>5
    <3>3. \A i \in 1 .. Len(leaf'[c].in) :
             leaf'[c].in[i] = User \/ (leaf'[c].in[i] = h /\ i = Len(leaf'[c].in))
      <4>1. \A i \in 1 .. Len(leaf[c].in) + 1 :
               i \in 1 .. Len(leaf[c].in) \/ i = Len(leaf[c].in) + 1
        BY <3>2
      <4> QED BY <1>6, <1>7, <3>1, <4>1
    <3>4. h = Handshake(serve'[c].name, MyName) BY <1>2 DEF h
    <3> QED BY <1>2, <1>3, <1>7, <3>1, <3>3, <3>4 DEF Input
  <2> QED BY <2>2, <2>3, <2>5, <2>6, <2>7 DEF OpenOK
<1> QED BY <1>8, <1>9, <1>10, <1>11, QuietStep

LEMMA StepHelloAnswered == ASSUME OpenInv, NEW c \in Opens, HelloAnswered(c) PROVE OpenInv'
<1>1. /\ serve[c].at = "rsp" /\ leaf[c].out # <<>>
      /\ ServeTo(c, "mark") /\ "mark" \in ServePlaces
      /\ leaf' = [leaf EXCEPT ![c].out = Tail(@)]
      /\ UNCHANGED <<client, fwd, read, sock, nodes>>
  BY DEF HelloAnswered, ServeAt, ServePlaces
<1>2. /\ ServeT' /\ serve'[c].at = "mark" /\ serve'[c].n = serve[c].n
      /\ serve'[c].got = serve[c].got /\ serve'[c].name = serve[c].name
      /\ \A d \in Opens \ {c} : serve'[d] = serve[d]
  BY <1>1, Before, ServeGoes
<1>3. serve[c].n = 4 /\ fwd[c].stdout = "end" BY <1>1, Before DEF Serving, Owner
\* What is there is the answer of a leaf that has its names.
<1>4. leaf[c].out = <<"HandshakeRsp">> /\ leaf[c].my # NoName
  BY <1>1, <1>3, Before DEF Output
<1>5. Tail(leaf[c].out) = <<>> /\ <<>> \in Seq({"magic", "HandshakeRsp"}) BY <1>4, Pops
<1>6. /\ LeafT' /\ leaf'[c].at = leaf[c].at /\ leaf'[c].in = leaf[c].in
      /\ leaf'[c].out = <<>> /\ leaf'[c].my = leaf[c].my /\ leaf'[c].server = leaf[c].server
      /\ \A d \in Opens \ {c} : leaf'[d] = leaf[d]
  BY <1>1, <1>5, Before DEF LeafT, LeafRec
<1>7. BaseType' BY <1>1, <1>2, <1>6, Before DEF BaseType, ClientT, FwdT, ReadT, SockT, NodesT
<1>8. Others(c) BY <1>1, <1>2, <1>6 DEF Others
<1>9. Quiet(c) BY <1>1, <1>2, <1>3, <1>6, Before DEF Quiet, Named
<1>10. OpenOK(c)'
  <2>1. Connecting(serve'[c], <<>>) BY <1>2, <1>3 DEF Connecting
  <2>2. Handover(client[c], sock[c], serve[c])'
    BY <1>1, <1>3, <2>1, Before, WhileConnecting
  <2>3. Serving(serve[c])' BY <1>2, <1>3, Before DEF Serving
  <2>4. Owner(client[c], fwd[c], leaf[c], sock[c], serve[c])'
    BY <1>1, <1>2, <1>6, Before DEF Owner
  <2>5. <<"HandshakeRsp">> # <<>> BY Pops
  <2>6. Output(fwd[c], leaf[c])' BY <1>1, <1>3, <1>4, <1>6, <2>5, Before DEF Output
  <2>7. Input(leaf[c], serve[c])' BY <1>1, <1>2, <1>4, <1>6, Before DEF Input
  <2> QED BY <2>2, <2>3, <2>4, <2>6, <2>7 DEF OpenOK
<1> QED BY <1>7, <1>8, <1>9, <1>10, QuietStep

LEMMA StepMark == ASSUME OpenInv, NEW c \in Opens, Mark(c) PROVE OpenInv'
<1> DEFINE m == serve[c].name
<1>1. serve[c].at = "mark" /\ UNCHANGED <<client, fwd, read, leaf, sock>>
  BY DEF Mark, ServeAt
<1>2. serve[c].n = 4 /\ m # NoName /\ nodes[m] = "Handshake" /\ leaf[c].my = m
  BY <1>1, Before DEF Serving, Named, Input
<1>3. /\ nodes' = [nodes EXCEPT ![m] = "Connected"]
      /\ serve' = [serve EXCEPT ![c].at = "ok", ![c].n = @ + 1]
  BY <1>2 DEF Mark
<1>4. m \in Names BY <1>2, Before DEF ServeT, ServeRec, NameSet
<1> HIDE DEF m
<1>5. /\ ServeT' /\ serve'[c].at = "ok" /\ serve'[c].n = 5
      /\ serve'[c].got = serve[c].got /\ serve'[c].name = m
      /\ \A d \in Opens \ {c} : serve'[d] = serve[d]
  BY <1>2, <1>3, Before DEF ServeT, ServeRec, ServePlaces, m
<1>6. NodesT' /\ nodes'[m] = "Connected" /\ \A k \in Names \ {m} : nodes'[k] = nodes[k]
  BY <1>3, <1>4, Before DEF NodesT, NodeSet
<1>7. BaseType'
  BY <1>1, <1>5, <1>6, Before DEF BaseType, ClientT, FwdT, ReadT, LeafT, SockT
<1>8. Others(c) BY <1>1, <1>5 DEF Others
<1>9. OpenOK(c)'
  <2>1. Connecting(serve'[c], <<>>) BY <1>5 DEF Connecting
  <2>2. Handover(client[c], sock[c], serve[c])'
    BY <1>1, <1>2, <2>1, Before, WhileConnecting
  <2>3. Serving(serve[c])' BY <1>2, <1>5, Before DEF Serving, Received
  <2>4. Owner(client[c], fwd[c], leaf[c], sock[c], serve[c])'
    BY <1>1, <1>2, <1>5, Before DEF Owner
  <2>5. Output(fwd[c], leaf[c])' BY <1>1, Before DEF Output
  <2>6. Input(leaf[c], serve[c])' BY <1>1, <1>2, <1>5, Before DEF Input, m
  <2> QED BY <2>2, <2>3, <2>4, <2>5, <2>6 DEF OpenOK
<1>10. Store'
  <2>1. \A d \in Opens : Named(serve[d]) BY DEF OpenInv, Store
  <2>2. \A d \in Opens : serve[d].name \in Names \cup {NoName}
    BY Before DEF ServeT, ServeRec, NameSet
  <2>3. \A d \in Opens \ {c} : serve[d].name # m BY <1>2 DEF OpenInv, Store, m
  <2>4. nodes'[MyName] = "MyNode" BY <1>2, <1>6, Constants DEF OpenInv, Store
  <2>5. ASSUME NEW d \in Opens PROVE Named(serve[d])'
    <3>1. CASE d = c BY <1>2, <1>5, <1>6, <3>1 DEF Named
    <3>2. CASE d # c
      <4>1. serve'[d] = serve[d] BY <1>5, <3>2
      <4>2. serve[d].name # NoName => nodes'[serve[d].name] = nodes[serve[d].name]
        BY <1>6, <2>2, <2>3, <3>2
      <4> QED BY <2>1, <4>1, <4>2 DEF Named
    <3> QED BY <3>1, <3>2
  <2>6. \A d, e \in Opens : d # e /\ serve'[d].name # NoName => serve'[d].name # serve'[e].name
    <3>1. \A d \in Opens : serve'[d].name = serve[d].name BY <1>5 DEF m
    <3> QED BY <3>1 DEF OpenInv, Store
  <2>7. \A k \in Names : nodes'[k] = "Connected" => \E d \in Opens : leaf'[d].my = k
    <3>1. leaf'[c].my = m BY <1>1, <1>2
    <3> QED BY <1>1, <1>6, <3>1 DEF OpenInv, Store
  <2> QED BY <2>4, <2>5, <2>6, <2>7 DEF Store
<1> QED BY <1>7, <1>8, <1>9, <1>10, OthersOK DEF OpenInv


-----------------------------------------------------------------------------
(* The steps of the leaf.                                                     *)

\* A step of the leaf that leaves its names alone.
LEMMA LeafStep ==
  ASSUME OpenInv, NEW c \in Opens, LeafT', \A d \in Opens \ {c} : leaf'[d] = leaf[d],
         UNCHANGED <<client, fwd, read, sock, serve, nodes>>, leaf'[c].my = leaf[c].my,
         leaf[c].at # "none",
         Output(fwd[c], leaf[c])', Input(leaf[c], serve[c])'
  PROVE  OpenInv'
<1>1. BaseType' BY Before DEF BaseType, ClientT, FwdT, ReadT, SockT, ServeT, NodesT
<1>2. Others(c) BY DEF Others
<1>3. Quiet(c) BY Before DEF Quiet, Named
<1>4. Owner(client[c], fwd[c], leaf[c], sock[c], serve[c])' BY Before DEF Owner
<1>5. Handover(client[c], sock[c], serve[c])' /\ Serving(serve[c])'
  BY Before DEF Handover, Serving
<1>6. OpenOK(c)' BY <1>4, <1>5 DEF OpenOK
<1> QED BY <1>1, <1>2, <1>3, <1>6, QuietStep

\* A step of it that touches no stream.
LEMMA LeafMoves ==
  ASSUME OpenInv, NEW c \in Opens, NEW x \in {"dead", "stuck", "up"},
         leaf' = [leaf EXCEPT ![c].at = x], leaf[c].at # "none",
         fwd[c].stdout = "end" => leaf[c].at # "text",
         UNCHANGED <<client, fwd, read, sock, serve, nodes>>
  PROVE  OpenInv'
<1>1. x \in LeafPlaces BY DEF LeafPlaces
<1>2. /\ LeafT' /\ leaf'[c].at = x /\ leaf'[c].in = leaf[c].in
      /\ leaf'[c].out = leaf[c].out /\ leaf'[c].my = leaf[c].my
      /\ leaf'[c].server = leaf[c].server
      /\ \A d \in Opens \ {c} : leaf'[d] = leaf[d]
  BY <1>1, Before, LeafGoes
<1>3. Output(fwd[c], leaf[c])' BY <1>2, Before DEF Output
<1>4. Input(leaf[c], serve[c])' BY <1>2, Before DEF Input
<1> QED BY <1>2, <1>3, <1>4, LeafStep

LEMMA StepLeafMoves ==
  ASSUME OpenInv, NEW c \in Opens,
         LeafGarbage(c) \/ LeafEof(c) \/ LeafStore(c) \/ LeafDies(c)
  PROVE  OpenInv'
<1>1. UNCHANGED <<client, fwd, read, sock, serve, nodes>>
  BY DEF LeafGarbage, LeafEof, LeafStore, LeafDies
<1>2. leaf[c].at # "none" BY DEF LeafGarbage, LeafEof, LeafStore, LeafDies, LeafAt
<1>3. PICK x \in {"dead", "stuck", "up"} : leaf' = [leaf EXCEPT ![c].at = x]
  BY DEF LeafGarbage, LeafEof, LeafStore, LeafDies
<1>4. fwd[c].stdout = "end" => leaf[c].at # "text" BY Before DEF Output
<1> QED BY <1>1, <1>2, <1>3, <1>4, LeafMoves

LEMMA StepLeafMagic == ASSUME OpenInv, NEW c \in Opens, LeafMagic(c) PROVE OpenInv'
<1>1. leaf[c].at = "text" /\ UNCHANGED <<client, fwd, read, sock, serve, nodes>>
  BY DEF LeafMagic, LeafAt
<1>2. leaf[c].out = <<>> /\ fwd[c].stdout # "end" BY <1>1, Before DEF Output
<1>3. CASE ~ClientUp(c)
  <2>1. leaf' = [leaf EXCEPT ![c].at = "dead"] BY <1>3 DEF LeafMagic
  <2> QED BY <1>1, <1>2, <2>1, LeafMoves
<1>4. CASE ClientUp(c)
  <2>1. leaf' = [leaf EXCEPT ![c].out = Append(@, "magic"), ![c].at = "wait"]
    BY <1>4 DEF LeafMagic, LeafSends
  <2>2. Append(leaf[c].out, "magic") = <<"magic">> BY <1>2, Pushes
  <2>3. <<"magic">> \in Seq({"magic", "HandshakeRsp"}) OBVIOUS
  <2>4. /\ LeafT' /\ leaf'[c].at = "wait" /\ leaf'[c].in = leaf[c].in
        /\ leaf'[c].out = <<"magic">> /\ leaf'[c].my = leaf[c].my
        /\ leaf'[c].server = leaf[c].server
        /\ \A d \in Opens \ {c} : leaf'[d] = leaf[d]
    BY <2>1, <2>2, <2>3, Before DEF LeafT, LeafRec, LeafPlaces
  <2>5. <<"magic">> # <<"HandshakeRsp">> BY Pops
  <2>6. Output(fwd[c], leaf[c])' BY <1>1, <1>2, <2>4, <2>5 DEF Output
  <2>7. Input(leaf[c], serve[c])' BY <1>1, <2>4, Before DEF Input
  <2> QED BY <1>1, <2>4, <2>6, <2>7, LeafStep
<1> QED BY <1>3, <1>4

LEMMA TailFacts ==
  ASSUME NEW S, NEW s \in Seq(S), s # <<>>
  PROVE  /\ Len(s) \in Nat \ {0} /\ Head(s) = s[1] /\ Tail(s) \in Seq(S)
         /\ Len(Tail(s)) = Len(s) - 1
         /\ \A i \in 1 .. Len(s) - 1 : Tail(s)[i] = s[i + 1]
BY HeadTailProperties

LEMMA StepLauncherReads == ASSUME OpenInv, NEW c \in Opens, LauncherReads(c) PROVE OpenInv'
<1>1. /\ leaf[c].at = "text" /\ leaf[c].in # <<>>
      /\ leaf' = [leaf EXCEPT ![c].in = Tail(@)]
      /\ UNCHANGED <<client, fwd, read, sock, serve, nodes>>
  BY DEF LauncherReads, LeafAt
<1>2. leaf[c].in \in Seq(Message) BY Before DEF LeafT, LeafRec
<1>3. /\ Len(leaf[c].in) \in Nat \ {0} /\ Tail(leaf[c].in) \in Seq(Message)
      /\ Len(Tail(leaf[c].in)) = Len(leaf[c].in) - 1
      /\ \A i \in 1 .. Len(leaf[c].in) - 1 : Tail(leaf[c].in)[i] = leaf[c].in[i + 1]
  BY <1>1, <1>2, TailFacts
<1>4. /\ LeafT' /\ leaf'[c].at = "text" /\ leaf'[c].in = Tail(leaf[c].in)
      /\ leaf'[c].out = leaf[c].out /\ leaf'[c].my = leaf[c].my
      /\ leaf'[c].server = leaf[c].server
      /\ \A d \in Opens \ {c} : leaf'[d] = leaf[d]
  BY <1>1, <1>3, Before DEF LeafT, LeafRec
<1>5. Output(fwd[c], leaf[c])' BY <1>1, <1>4, Before DEF Output
<1>6. Input(leaf[c], serve[c])'
  \* The daemon has no stream of a leaf that has not printed the magic number.
  <2>1. serve[c].n = 0 BY <1>1, Before DEF Output, Owner, Serving
  <2>2. serve[c].name = NoName /\ serve[c].at # "mark" BY <2>1, Before DEF Named, Serving
  <2>3. leaf[c].my = NoName /\ \A i \in 1 .. Len(leaf[c].in) : leaf[c].in[i] = User
    BY <2>2, Before DEF Input
  <2>4. \A i \in 1 .. Len(leaf'[c].in) : leaf'[c].in[i] = User
    <3>1. \A i \in 1 .. Len(leaf[c].in) - 1 : i + 1 \in 1 .. Len(leaf[c].in) BY <1>3
    <3> QED BY <1>3, <1>4, <2>3, <3>1
  <2> QED BY <1>1, <1>4, <2>2, <2>3, <2>4 DEF Input
<1> QED BY <1>1, <1>4, <1>5, <1>6, LeafStep

LEMMA StepLeafRead == ASSUME OpenInv, NEW c \in Opens, LeafRead(c) PROVE OpenInv'
<1>1. /\ leaf[c].at = "wait" /\ leaf[c].in # <<>> /\ Head(leaf[c].in).t = "Handshake"
      /\ UNCHANGED <<client, fwd, read, sock, serve, nodes>>
  BY DEF LeafRead, LeafAt
<1>2. leaf[c].in \in Seq(Message) BY Before DEF LeafT, LeafRec
<1>3. /\ Len(leaf[c].in) \in Nat \ {0} /\ Head(leaf[c].in) = leaf[c].in[1]
      /\ Tail(leaf[c].in) \in Seq(Message) /\ Len(Tail(leaf[c].in)) = Len(leaf[c].in) - 1
  BY <1>1, <1>2, TailFacts
<1>4. User.t = "user" BY DEF User
<1>5. /\ leaf[c].in[1] = Handshake(serve[c].name, MyName) /\ 1 = Len(leaf[c].in)
      /\ serve[c].name # NoName /\ serve[c].at # "hello" /\ leaf[c].my = NoName
  <2>1. 1 \in 1 .. Len(leaf[c].in) BY <1>3
  <2>2. leaf[c].in[1] # User BY <1>1, <1>3, <1>4
  <2> QED BY <2>1, <2>2, Before DEF Input
<1>6. /\ Head(leaf[c].in).client = serve[c].name /\ Head(leaf[c].in).server = MyName
  BY <1>3, <1>5 DEF Handshake
<1>7. Tail(leaf[c].in) = <<>>
  <2>1. Len(Tail(leaf[c].in)) = 0 BY <1>3, <1>5
  <2> QED BY <1>3, <2>1, EmptySeq
<1>8. leaf' = [leaf EXCEPT ![c].at = "answer", ![c].in = <<>>, ![c].my = serve[c].name,
                           ![c].server = MyName]
  BY <1>6, <1>7 DEF LeafRead
<1>9. /\ LeafT' /\ leaf'[c].at = "answer" /\ leaf'[c].in = <<>>
      /\ leaf'[c].out = leaf[c].out /\ leaf'[c].my = serve[c].name
      /\ leaf'[c].server = MyName
      /\ \A d \in Opens \ {c} : leaf'[d] = leaf[d]
  <2>1. serve[c].name \in NameSet /\ MyName \in NameSet
    BY Before, Constants DEF ServeT, ServeRec, NameSet
  <2>2. <<>> \in Seq(Message) OBVIOUS
  <2> QED BY <1>8, <2>1, <2>2, Before, ZenonT(60) DEF LeafT, LeafRec, LeafPlaces
<1>10. BaseType'
  BY <1>1, <1>9, Before DEF BaseType, ClientT, FwdT, ReadT, SockT, ServeT, NodesT
<1>11. Others(c) BY <1>1, <1>9 DEF Others
<1>12. OpenOK(c)'
  <2>1. Owner(client[c], fwd[c], leaf[c], sock[c], serve[c])' BY <1>1, <1>9, Before DEF Owner
  <2>2. Handover(client[c], sock[c], serve[c])' /\ Serving(serve[c])'
    BY <1>1, Before DEF Handover, Serving
  <2>3. Output(fwd[c], leaf[c])' BY <1>1, <1>5, <1>9, Before DEF Output
  <2>4. Input(leaf[c], serve[c])'
    <3>1. Len(leaf'[c].in) = 0 BY <1>9
    <3>2. \A i \in 1 .. Len(leaf'[c].in) : FALSE BY <3>1
    <3> QED BY <1>1, <1>5, <1>9, <3>2 DEF Input
  <2> QED BY <2>1, <2>2, <2>3, <2>4 DEF OpenOK
<1>13. Store'
  <2>1. \A d \in Opens : Named(serve[d])' BY <1>1 DEF OpenInv, Store, Named
  <2>2. ASSUME NEW m \in Names, nodes'[m] = "Connected"
        PROVE  \E d \in Opens : leaf'[d].my = m
    <3>1. PICK d \in Opens : leaf[d].my = m BY <1>1, <2>2 DEF OpenInv, Store
    <3>2. d # c BY <1>5, <3>1, Constants
    <3> QED BY <1>9, <3>1, <3>2
  <2> QED BY <1>1, <2>1, <2>2 DEF OpenInv, Store
<1> QED BY <1>10, <1>11, <1>12, <1>13, OthersOK DEF OpenInv

LEMMA StepLeafAnswer == ASSUME OpenInv, NEW c \in Opens, LeafAnswer(c) PROVE OpenInv'
<1>1. /\ leaf[c].at = "answer"
      /\ leaf' = [leaf EXCEPT ![c].out = Append(@, "HandshakeRsp"), ![c].at = "store"]
      /\ UNCHANGED <<client, fwd, read, sock, serve, nodes>>
  BY DEF LeafAnswer, LeafAt, LeafSends
<1>2. leaf[c].my # NoName /\ leaf[c].out # <<"HandshakeRsp">> BY <1>1, Before DEF Output
<1>3. serve[c].n \in 4 .. 5 BY <1>2, Before DEF Input, Named, Serving
<1>4. fwd[c].stdout = "end" /\ leaf[c].out = <<>> BY <1>2, <1>3, Before DEF Owner, Output
<1>5. /\ Append(leaf[c].out, "HandshakeRsp") = <<"HandshakeRsp">>
      /\ <<"HandshakeRsp">> \in Seq({"magic", "HandshakeRsp"})
  BY <1>4, Pushes
<1>6. /\ LeafT' /\ leaf'[c].at = "store" /\ leaf'[c].in = leaf[c].in
      /\ leaf'[c].out = <<"HandshakeRsp">> /\ leaf'[c].my = leaf[c].my
      /\ leaf'[c].server = leaf[c].server
      /\ \A d \in Opens \ {c} : leaf'[d] = leaf[d]
  BY <1>1, <1>5, Before DEF LeafT, LeafRec, LeafPlaces
<1>7. Output(fwd[c], leaf[c])' BY <1>1, <1>2, <1>4, <1>6 DEF Output
<1>8. Input(leaf[c], serve[c])' BY <1>1, <1>6, Before DEF Input
<1> QED BY <1>1, <1>6, <1>7, <1>8, LeafStep


-----------------------------------------------------------------------------
LEMMA OpenInvInit == Init => OpenInv
<1> SUFFICES ASSUME Init PROVE OpenInv OBVIOUS
<1>1. ASSUME NEW c \in Opens
      PROVE  /\ client[c] = [at |-> "connect", n |-> 1]
             /\ fwd[c] = [stdin |-> "off", stderr |-> "off", stdout |-> "off", stop |-> FALSE]
             /\ read[c] = [stdin |-> 0, stderr |-> 0]
             /\ leaf[c] = [at |-> "none", in |-> <<>>, out |-> <<>>, my |-> NoName,
                           server |-> NoName]
             /\ sock[c] = [req |-> <<>>, rsp |-> <<>>]
             /\ serve[c] = [at |-> "none", n |-> 0, got |-> <<>>, name |-> NoName]
  BY DEF Init
<1>2. \A m \in Names : /\ nodes[m] \in {"none", "MyNode", "Handshake"}
                       /\ m = MyName => nodes[m] = "MyNode"
  BY DEF Init
<1>3. BaseType
  <2>1. ClientT /\ FwdT BY DEF Init, ClientT, ClientRec, ClientPlaces, FwdT, FwdRec
  <2>2. ReadT BY Constants DEF Init, ReadT, ReadRec
  <2>3. LeafT
    <3>1. <<>> \in Seq(Message) /\ <<>> \in Seq({"magic", "HandshakeRsp"}) OBVIOUS
    <3> QED BY <3>1 DEF Init, LeafT, LeafRec, LeafPlaces, NameSet
  <2>4. SockT
    <3>1. <<>> \in Seq(ItemSet) /\ <<>> \in Seq({"Ok", "Err"}) OBVIOUS
    <3> QED BY <3>1 DEF Init, SockT, SockRec
  <2>5. ServeT
    <3>1. <<>> \in Seq(ItemSet) OBVIOUS
    <3> QED BY <3>1 DEF Init, ServeT, ServeRec, ServePlaces, NameSet
  <2>6. NodesT BY DEF Init, NodesT, NodeSet
  <2> QED BY <2>1, <2>2, <2>3, <2>4, <2>5, <2>6 DEF BaseType
<1>4. ASSUME NEW c \in Opens PROVE OpenOK(c)
  <2>1. Handover(client[c], sock[c], serve[c]) BY <1>1 DEF Handover, Early, Waiting
  <2>2. Serving(serve[c]) BY <1>1 DEF Serving, Received
  <2>3. Owner(client[c], fwd[c], leaf[c], sock[c], serve[c]) BY <1>1 DEF Owner
  <2>4. Output(fwd[c], leaf[c])
    <3>1. <<"HandshakeRsp">> # <<>> BY Pops
    <3> QED BY <1>1, <3>1 DEF Output
  <2>5. Input(leaf[c], serve[c])
    <3>1. \A i \in 1 .. Len(leaf[c].in) : FALSE BY <1>1
    <3> QED BY <1>1, <3>1 DEF Input
  <2> QED BY <2>1, <2>2, <2>3, <2>4, <2>5 DEF OpenOK
<1>5. Store
  <2>1. \A c \in Opens : Named(serve[c]) BY <1>1 DEF Named
  <2> QED BY <1>1, <1>2, <2>1, Constants DEF Store
<1> QED BY <1>3, <1>4, <1>5 DEF OpenInv

LEMMA OpenInvNext == OpenInv /\ [Next]_vars => OpenInv'
<1> SUFFICES ASSUME OpenInv, [Next]_vars PROVE OpenInv' OBVIOUS
<1>1. CASE UNCHANGED vars
  <2>1. UNCHANGED <<client, fwd, read, leaf, sock, serve, nodes>> BY <1>1 DEF vars
  <2>2. BaseType'
    BY <2>1 DEF OpenInv, BaseType, ClientT, FwdT, ReadT, LeafT, SockT, ServeT, NodesT
  <2>3. \A c \in Opens : OpenOK(c)' BY <2>1 DEF OpenInv, OpenOK
  <2>4. Store' BY <2>1 DEF OpenInv, Store, Named
  <2> QED BY <2>2, <2>3, <2>4 DEF OpenInv
<1>2. ASSUME NEW c \in Opens, Client(c) PROVE OpenInv'
  BY <1>2, StepConnect, StepSpawn, StepBroadcast, StepJoin, StepSendItem, StepGotOk, StepStops
     DEF Client
<1>3. ASSUME NEW c \in Opens, Forward(c) PROVE OpenInv'
  BY <1>3, StepWriteIn, StepWriteInFails, StepWriteErr, StepMagic, StepNoMagic,
     StepInterrupted DEF Forward
<1>4. ASSUME NEW c \in Opens, Serve(c) PROVE OpenInv'
  BY <1>4, StepAccept, StepNextRequest, StepAlone, StepSendOk, StepRecvFd, StepSendErr,
     StepInsert, StepHello, StepLeafGone, StepHelloAnswered, StepMark DEF Serve
<1>5. ASSUME NEW c \in Opens, Leaf(c) PROVE OpenInv'
  BY <1>5, StepLeafMagic, StepLeafRead, StepLeafMoves, StepLeafAnswer DEF Leaf
<1>6. ASSUME NEW c \in Opens, Environment(c) PROVE OpenInv'
  BY <1>6, StepChunk, StepUserEof, StepStops, StepLauncherReads, StepLeafMoves
     DEF Environment
<1> QED BY <1>1, <1>2, <1>3, <1>4, <1>5, <1>6 DEF Next

\* The invariant that carries the theorems below.
THEOREM OpenInvariant == Spec => []OpenInv
BY OpenInvInit, OpenInvNext, PTL DEF Spec

\* Framed requests and descriptors stay in step on the one socket, whatever fails.
THEOREM OpenInStep == Spec => []InStep
<1>1. OpenInv => InStep
  <2> SUFFICES ASSUME OpenInv, NEW c \in Opens
               PROVE  /\ ServeAt(c, "next") => \A i \in DOMAIN sock[c].req : sock[c].req[i] = "Open"
                      /\ ServeAt(c, "fd") /\ sock[c].req # <<>> =>
                            Head(sock[c].req) = Items[serve[c].n + 1]
                      /\ serve[c].got = SubSeq(Items, 2, Len(serve[c].got) + 1)
    BY DEF InStep
  <2>1. ASSUME ServeAt(c, "next"), NEW i \in DOMAIN sock[c].req PROVE sock[c].req[i] = "Open"
    <3>1. sock[c].req \in Seq(ItemSet) BY Before DEF SockT, SockRec
    <3>2. sock[c].req # <<>> BY <2>1, <3>1
    <3>3. sock[c].req = <<"Open">>
      BY <2>1, <3>2, Before, ItemFacts DEF ServeAt, Handover, Waiting
    <3> QED BY <2>1, <3>3
  <2>2. ASSUME ServeAt(c, "fd"), sock[c].req # <<>>
        PROVE  Head(sock[c].req) = Items[serve[c].n + 1]
    <3>1. sock[c].req = <<Items[client[c].n]>> /\ client[c].n \in 2 .. 4
          /\ serve[c].n = client[c].n - 1
      BY <2>2, Before DEF ServeAt, Handover, Waiting
    <3>2. serve[c].n + 1 = client[c].n BY <3>1
    <3> QED BY <3>1, <3>2, Pops
  <2>3. serve[c].got = SubSeq(Items, 2, Len(serve[c].got) + 1)
    <3>1. serve[c].got \in {<<>>, <<"stdin">>, <<"stdin", "stdout">>,
                            <<"stdin", "stdout", "stderr">>}
      BY Before DEF Serving, Received
    <3>2. Items \in Seq(ItemSet) BY DEF Items, ItemSet
    <3>3. \A k \in 0 .. 3 : /\ SubSeq(Items, 2, k + 1) \in Seq(ItemSet)
                            /\ Len(SubSeq(Items, 2, k + 1)) = k
                            /\ \A i \in 1 .. k : SubSeq(Items, 2, k + 1)[i] = Items[i + 1]
      BY <3>2, ItemFacts, SubSeqProperties
    <3>4. CASE serve[c].got = <<>>
      BY <3>3, <3>4
    <3>5. CASE serve[c].got = <<"stdin">>
      BY <3>3, <3>5, ItemFacts, SeqEqual
    <3>6. CASE serve[c].got = <<"stdin", "stdout">>
      BY <3>3, <3>6, ItemFacts, SeqEqual
    <3>7. CASE serve[c].got = <<"stdin", "stdout", "stderr">>
      BY <3>3, <3>7, ItemFacts, SeqEqual
    <3> QED BY <3>1, <3>4, <3>5, <3>6, <3>7
  <2> QED BY <2>1, <2>2, <2>3
<1> QED BY <1>1, OpenInvariant, PTL

\* The leaf's streams have one owner, and no typed byte follows the Handshake.
THEOREM OpenOneOwner == Spec => []OneOwner
<1>1. OpenInv => OneOwner
  <2> SUFFICES ASSUME OpenInv, NEW c \in Opens
               PROVE  /\ serve[c].got # <<>> => \A d \in Streams \cup {"stdout"} : fwd[c][d] = "end"
                      /\ \A i, j \in DOMAIN leaf[c].in :
                            leaf[c].in[i].t = "Handshake" /\ i < j => leaf[c].in[j] # User
                      /\ leaf[c].my # NoName => \A i \in DOMAIN leaf[c].in : leaf[c].in[i] # User
    BY DEF OneOwner
  <2>1. serve[c].got # <<>> => \A d \in Streams \cup {"stdout"} : fwd[c][d] = "end"
    BY Before DEF Serving, Received, Owner, Streams
  <2>2. leaf[c].in \in Seq(Message) BY Before DEF LeafT, LeafRec
  <2>3. ASSUME NEW i \in DOMAIN leaf[c].in, NEW j \in DOMAIN leaf[c].in,
               leaf[c].in[i].t = "Handshake", i < j
        PROVE  FALSE
    <3>1. i \in 1 .. Len(leaf[c].in) /\ j \in 1 .. Len(leaf[c].in) BY <2>2
    <3>2. User.t = "user" BY DEF User
    <3>3. i = Len(leaf[c].in) BY <2>3, <3>1, <3>2, Before DEF Input
    <3> QED BY <2>2, <2>3, <3>1, <3>3
  <2>4. leaf[c].my # NoName => leaf[c].in = <<>> BY Before DEF Input
  <2> QED BY <2>1, <2>3, <2>4
<1> QED BY <1>1, OpenInvariant, PTL

\* The node a task comes back to is its own, and still in Handshake.
THEOREM OpenNodeIsMine == Spec => []NodeIsMine
<1>1. OpenInv => NodeIsMine
  BY Before DEF OpenInv, Store, Named, NodeIsMine
<1> QED BY <1>1, OpenInvariant, PTL

\* A leaf's names are the ones the daemon has for it.
THEOREM OpenNamesAgree == Spec => []NamesAgree
<1>1. OpenInv => NamesAgree
  <2> SUFFICES ASSUME OpenInv, NEW c \in Opens, leaf[c].my # NoName
               PROVE  /\ leaf[c].my = serve[c].name /\ leaf[c].server = MyName
                      /\ leaf[c].my # leaf[c].server
    BY DEF NamesAgree
  <2>1. leaf[c].my = serve[c].name /\ leaf[c].server = MyName BY Before DEF Input
  <2>2. nodes[serve[c].name] # "MyNode" BY <2>1, Before DEF Named
  <2> QED BY <2>1, <2>2 DEF OpenInv, Store
<1> QED BY <1>1, OpenInvariant, PTL

\* open reports success only for a leaf that has answered and is Connected.
THEOREM OpenSuccess == Spec => []SuccessIsConnected
<1>1. OpenInv => SuccessIsConnected
  BY Before DEF OpenInv, Store, Named, Handover, SuccessIsConnected, ClientAt
<1> QED BY <1>1, OpenInvariant, PTL


\* Types, and at most one message to the daemon on a socket.
THEOREM OpenTypeCorrect == Spec => []TypeOK
<1>1. OpenInv => TypeOK
  <2> SUFFICES ASSUME OpenInv PROVE TypeOK OBVIOUS
  <2>1. BaseType BY DEF OpenInv
  <2>2. Len(Items) = 4 /\ {Items[i] : i \in DOMAIN Items} = ItemSet
    <3>1. DOMAIN Items = 1 .. 4 /\ 1 .. 4 = {1, 2, 3, 4} BY DEF Items
    <3>2. {Items[i] : i \in {1, 2, 3, 4}} = {Items[1], Items[2], Items[3], Items[4]} OBVIOUS
    <3> QED BY <3>1, <3>2, ItemFacts DEF ItemSet
  <2>3. client \in [Opens -> [at : ClientPlaces, n : 1 .. Len(Items) + 2]]
    <3>1. \A c \in Opens : client[c].n \in 1 .. Len(Items) + 2
      BY <2>2, Before DEF Handover
    <3> QED BY <2>1, <3>1 DEF BaseType, ClientT, ClientRec
  <2>4. leaf \in [Opens -> [at : LeafPlaces,
                            in : Seq(Messages), out : Seq({"magic", "HandshakeRsp"}),
                            my : NameSet, server : NameSet]]
    <3>1. ASSUME NEW c \in Opens
          PROVE  leaf[c].in \in Seq(Messages)
      <4>1. leaf[c].in \in Seq(Message) /\ serve[c].name \in Names \cup {NoName}
        BY Before DEF LeafT, LeafRec, ServeT, ServeRec, NameSet
      <4>2. \A i \in 1 .. Len(leaf[c].in) :
               leaf[c].in[i] \in Messages
        BY <4>1, Before, Constants DEF Input, Messages
      <4> QED BY <4>1, <4>2
    <3> QED BY <2>1, <3>1 DEF BaseType, LeafT, LeafRec
  <2>5. serve \in [Opens -> [at : ServePlaces, n : 0 .. Len(Items) + 1,
                             got : Seq({Items[i] : i \in DOMAIN Items}), name : NameSet]]
    <3>1. \A c \in Opens : serve[c].n \in 0 .. Len(Items) + 1 BY <2>2, Before DEF Serving
    <3> QED BY <2>1, <2>2, <3>1 DEF BaseType, ServeT, ServeRec
  <2>6. ASSUME NEW c \in Opens PROVE Len(sock[c].req) <= 1
    <3>1. sock[c].req = <<>> \/ sock[c].req = <<Items[client[c].n]>> BY Before DEF Handover
    <3>2. Len(<<>>) = 0 /\ Len(<<Items[client[c].n]>>) = 1 OBVIOUS
    <3>3. Len(sock[c].req) \in {0, 1} BY <3>1, <3>2, Zenon
    <3>4. \A x \in {0, 1} : x <= 1 OBVIOUS
    <3> QED BY <3>3, <3>4, Zenon
  <2>7. fwd \in [Opens -> [stdin : {"off", "read", "write", "end", "failed"},
                           stderr : {"off", "read", "write", "end"},
                           stdout : {"off", "read", "end", "failed"}, stop : BOOLEAN]]
        /\ read \in [Opens -> [stdin : 0 .. NTyped, stderr : 0 .. NErr]]
    BY <2>1 DEF BaseType, FwdT, FwdRec, ReadT, ReadRec
  <2>8. sock \in [Opens -> [req : Seq({Items[i] : i \in DOMAIN Items}),
                            rsp : Seq({"Ok", "Err"})]]
    BY <2>1, <2>2 DEF BaseType, SockT, SockRec
  <2>9. nodes \in [Names -> {"none", "MyNode", "Handshake", "Connected"}]
    BY <2>1 DEF BaseType, NodesT, NodeSet
  <2> QED BY <2>3, <2>4, <2>5, <2>6, <2>7, <2>8, <2>9, Zenon
          DEF TypeOK, ClientPlaces, LeafPlaces, ServePlaces, NameSet
<1> QED BY <1>1, OpenInvariant, PTL
-----------------------------------------------------------------------------
(* The promise of Introduction.                                               *)

\* What the promise sees of the opens stays as it is.
GivenStays == \A d \in Opens : serve'[d].name = serve[d].name
KnownStays == \A d \in Opens : leaf'[d].my = leaf[d].my /\ leaf'[d].server = leaf[d].server
OutcomeStays == \A d \in Opens : Outcome(client'[d].at) = Outcome(client[d].at)

Given == [d \in Opens |-> serve[d].name]
Known == [d \in Opens |-> [my |-> leaf[d].my, server |-> leaf[d].server]]
Outcomes == [d \in Opens |-> Outcome(client[d].at)]

LEMMA Unseen ==
  /\ GivenStays => Given' = Given
  /\ KnownStays => Known' = Known
  /\ OutcomeStays => Outcomes' = Outcomes
<1>1. ASSUME GivenStays PROVE Given' = Given
  BY <1>1 DEF GivenStays, Given
<1>2. ASSUME KnownStays PROVE Known' = Known
  BY <1>2 DEF KnownStays, Known
<1>3. ASSUME OutcomeStays PROVE Outcomes' = Outcomes
  BY <1>3 DEF OutcomeStays, Outcomes
<1> QED BY <1>1, <1>2, <1>3

\* A step of which the promise sees nothing.
LEMMA Stutters ==
  ASSUME nodes' = nodes, GivenStays, KnownStays, OutcomeStays
  PROVE  UNCHANGED Promise!vars
BY Unseen DEF Promise!vars, Given, Known, Outcomes

\* What the steps of each task leave alone.
LEMMA MarkKeepsName == ASSUME ServeT, NEW c \in Opens, Mark(c) PROVE GivenStays
<1>1. CASE nodes[serve[c].name] = "Handshake"
  <2>1. serve' = [serve EXCEPT ![c].at = "ok", ![c].n = @ + 1]
    BY <1>1 DEF Mark
  <2>2. serve'[c].name = serve[c].name /\ \A d \in Opens \ {c} : serve'[d] = serve[d]
    BY <2>1 DEF ServeT, ServeRec
  <2> QED BY <2>2 DEF GivenStays
<1>2. CASE nodes[serve[c].name] # "Handshake"
  <2>1. ServeTo(c, "failed") /\ "failed" \in ServePlaces
    BY <1>2 DEF Mark, ServePlaces
  <2> QED BY <2>1, ServeGoes DEF GivenStays
<1> QED BY <1>1, <1>2

\* What a leaf reads and writes does not change what it knows.
LEMMA LeafTurns ==
  ASSUME LeafT, NEW c \in Opens,
         \/ \E q : leaf' = [leaf EXCEPT ![c].in = q]
         \/ \E q : leaf' = [leaf EXCEPT ![c].out = q]
         \/ \E q, x : leaf' = [leaf EXCEPT ![c].out = q, ![c].at = x]
  PROVE  KnownStays
<1>1. /\ leaf'[c].my = leaf[c].my /\ leaf'[c].server = leaf[c].server
      /\ \A d \in Opens \ {c} : leaf'[d] = leaf[d]
  BY DEF LeafT, LeafRec
<1> QED BY <1>1 DEF KnownStays

LEMMA ServeKeepsName ==
  ASSUME ServeT, NEW c \in Opens, Serve(c), ~Insert(c) PROVE GivenStays
<1>1. ASSUME NEW x \in ServePlaces, ServeTo(c, x) PROVE GivenStays
  BY <1>1, ServeGoes DEF GivenStays
<1>2. CASE \/ Accept(c) \/ NextEof(c) \/ RecvEof(c) \/ SendErr(c) \/ SendFails(c) \/ Hello(c)
           \/ HelloFails(c) \/ HelloAnswered(c) \/ NoAnswer(c)
  <2>1. \E x \in ServePlaces : ServeTo(c, x)
    BY <1>2 DEF Accept, NextEof, RecvEof, SendErr, SendFails, Hello, HelloFails,
                HelloAnswered, NoAnswer, ServePlaces
  <2> QED BY <1>1, <2>1
<1>3. CASE NextRequest(c)
  BY <1>3 DEF NextRequest, ServeT, ServeRec, GivenStays
<1>4. CASE SendOk(c)
  BY <1>4 DEF SendOk, ServeT, ServeRec, GivenStays
<1>5. CASE RecvFd(c)
  BY <1>5 DEF RecvFd, ServeT, ServeRec, GivenStays
<1>6. CASE Mark(c)
  BY <1>6, MarkKeepsName
<1> QED BY <1>2, <1>3, <1>4, <1>5, <1>6 DEF Serve

\* The daemon's task changes neither what a leaf knows nor what open reports.
LEMMA ServeKeepsRest ==
  ASSUME LeafT, NEW c \in Opens, Serve(c) PROVE KnownStays /\ OutcomeStays
<1>1. client' = client
  BY DEF Serve, Accept, NextRequest, NextEof, SendOk, RecvFd, RecvEof, SendErr, SendFails, Insert,
         Hello, HelloFails, HelloAnswered, NoAnswer, Mark
<1>2. OutcomeStays
  BY <1>1 DEF OutcomeStays
<1>3. CASE Hello(c) \/ HelloAnswered(c)
  <2>1. KnownStays
    BY <1>3, LeafTurns DEF Hello, HelloAnswered
  <2> QED BY <1>2, <2>1
<1>4. CASE ~Hello(c) /\ ~HelloAnswered(c)
  <2>1. leaf' = leaf
    BY <1>4 DEF Serve, Accept, NextRequest, NextEof, SendOk, RecvFd, RecvEof, SendErr, SendFails,
                Insert, HelloFails, NoAnswer, Mark
  <2> QED BY <1>2, <2>1 DEF KnownStays
<1> QED BY <1>3, <1>4

\* The two critical sections alone change the store.
LEMMA ServeKeepsNodes ==
  ASSUME NEW c \in Opens, Serve(c), ~Insert(c), ~Mark(c) PROVE nodes' = nodes
BY DEF Serve, Accept, NextRequest, NextEof, SendOk, RecvFd, RecvEof, SendErr, SendFails,
       Hello, HelloFails, HelloAnswered, NoAnswer

\* A leaf learns its names in LeafRead alone.
LEMMA LeafKeepsNames ==
  ASSUME LeafT, NEW c \in Opens, ~LeafRead(c),
         Leaf(c) \/ LauncherReads(c) \/ LeafDies(c)
  PROVE  UNCHANGED <<client, serve, nodes>> /\ KnownStays
<1>1. UNCHANGED <<client, serve, nodes>>
  BY DEF Leaf, LeafMagic, LeafGarbage, LeafEof, LeafAnswer, LeafStore, LauncherReads, LeafDies
<1>2. ASSUME NEW x \in LeafPlaces, leaf' = [leaf EXCEPT ![c].at = x] PROVE KnownStays
  BY <1>2, LeafGoes DEF KnownStays
<1>3. CASE LeafGarbage(c) \/ LeafEof(c) \/ LeafStore(c) \/ LeafDies(c)
  <2>1. \E x \in LeafPlaces : leaf' = [leaf EXCEPT ![c].at = x]
    BY <1>3 DEF LeafGarbage, LeafEof, LeafStore, LeafDies, LeafPlaces
  <2> QED BY <1>1, <1>2, <2>1
<1>4. CASE LeafMagic(c)
  <2>1. CASE LeafSends(c, "magic", "wait")
    BY <1>1, <2>1, LeafTurns DEF LeafSends
  <2>2. CASE leaf' = [leaf EXCEPT ![c].at = "dead"]
    BY <1>1, <1>2, <2>2 DEF LeafPlaces
  <2> QED BY <1>4, <2>1, <2>2 DEF LeafMagic
<1>5. CASE LeafAnswer(c)
  <2>1. KnownStays
    BY <1>5, LeafTurns DEF LeafAnswer, LeafSends
  <2> QED BY <1>1, <2>1
<1>6. CASE LauncherReads(c)
  <2>1. KnownStays
    BY <1>6, LeafTurns DEF LauncherReads
  <2> QED BY <1>1, <2>1
<1> QED BY <1>3, <1>4, <1>5, <1>6 DEF Leaf

\* The forwarders touch no name and report nothing.
LEMMA ForwardUnseen ==
  ASSUME LeafT, NEW c \in Opens,
         Forward(c) \/ UserEof(c) \/ \E d \in Streams : Chunk(c, d)
  PROVE  UNCHANGED <<client, serve, nodes>> /\ KnownStays
<1>1. UNCHANGED <<client, serve, nodes>>
  BY DEF Forward, WriteIn, WriteInFails, WriteErr, Magic, NoMagic, Interrupted, UserEof, Chunk
<1>2. CASE WriteIn(c) \/ Magic(c)
  <2>1. KnownStays
    BY <1>2, LeafTurns DEF WriteIn, Magic
  <2> QED BY <1>1, <2>1
<1>3. CASE ~WriteIn(c) /\ ~Magic(c)
  <2>1. leaf' = leaf
    BY <1>3 DEF Forward, WriteInFails, WriteErr, NoMagic, Interrupted, UserEof, Chunk
  <2> QED BY <1>1, <2>1 DEF KnownStays
<1> QED BY <1>2, <1>3

\* A name is given.
LEMMA InsertGives ==
  ASSUME OpenInv, NEW c \in Opens, Insert(c) PROVE \E m \in Names : Promise!Give(c, m)
<1>1. PICK m \in Names : /\ nodes[m] = "none" /\ nodes' = [nodes EXCEPT ![m] = "Handshake"]
                         /\ serve' = [serve EXCEPT ![c].at = "hello", ![c].name = m]
  BY DEF Insert
<1>2. serve[c].name = NoName
  BY Before DEF Insert, ServeAt, Named
<1>3. Given' = [Given EXCEPT ![c] = m]
  BY <1>1, Before DEF Given, ServeT, ServeRec
<1>4. Known' = Known /\ Outcomes' = Outcomes
  BY DEF Insert, Known, Outcomes
<1>5. Promise!Give(c, m)
  BY <1>1, <1>2, <1>3, <1>4 DEF Promise!Give, Given, Known, Outcomes
<1> QED BY <1>5

\* The leaf learns the names: it had none, and its node is in Handshake.
LEMMA LeafReadLearns ==
  ASSUME OpenInv, NEW c \in Opens, LeafRead(c), leaf[c].server = NoName PROVE Promise!Learn(c)
<1>1. /\ leaf[c].in # <<>> /\ Head(leaf[c].in).t = "Handshake" /\ leaf[c].in \in Seq(Message)
      /\ UNCHANGED <<client, serve, nodes>>
  BY Before DEF LeafRead, LeafT, LeafRec
<1>2. Head(leaf[c].in) = leaf[c].in[1] /\ 1 \in 1 .. Len(leaf[c].in)
  BY <1>1
<1>3. leaf[c].in[1] # User
  BY <1>1, <1>2 DEF User
<1>4. /\ Head(leaf[c].in) = Handshake(serve[c].name, MyName)
      /\ serve[c].name # NoName /\ serve[c].at # "hello" /\ leaf[c].my = NoName
  BY <1>2, <1>3, Before DEF Input
<1>5. nodes[serve[c].name] = "Handshake"
  <2>1. serve[c].name \in Names /\ nodes[serve[c].name] \in {"Handshake", "Connected"}
    BY <1>4, Before DEF Named, ServeT, ServeRec, NameSet
  <2>2. nodes[serve[c].name] # "Connected"
    <3>1. SUFFICES ASSUME nodes[serve[c].name] = "Connected" PROVE FALSE
      OBVIOUS
    <3>2. PICK d \in Opens : leaf[d].my = serve[c].name
      BY <2>1, <3>1 DEF OpenInv, Store
    <3>3. serve[d].name = serve[c].name
      BY <1>4, <3>2, Before DEF Input
    <3>4. d = c
      BY <1>4, <3>3 DEF OpenInv, Store
    <3> QED BY <1>4, <3>2, <3>4
  <2> QED BY <2>1, <2>2
<1>6. Known' = [Known EXCEPT ![c] = [my |-> Given[c], server |-> MyName]]
  <2>1. Head(leaf[c].in).client = serve[c].name /\ Head(leaf[c].in).server = MyName
    BY <1>4 DEF Handshake
  <2>2. leaf' = [leaf EXCEPT ![c].at = "answer", ![c].in = Tail(@),
                             ![c].my = serve[c].name, ![c].server = MyName]
    BY <2>1 DEF LeafRead
  <2> QED BY <2>2, Before DEF Known, Given, LeafT, LeafRec
<1>7. Given' = Given /\ Outcomes' = Outcomes
  BY <1>1 DEF Given, Outcomes
<1>8. Known[c] = [my |-> NoName, server |-> NoName] /\ Given[c] = serve[c].name
  BY <1>4 DEF Known, Given
<1> QED BY <1>1, <1>4, <1>5, <1>6, <1>7, <1>8
        DEF Promise!Learn, Promise!Nobody, Given, Known, Outcomes

\* The node becomes Connected: the unreachable!() is not reached.
LEMMA MarkJoins ==
  ASSUME OpenInv, NEW c \in Opens, Mark(c) PROVE Promise!Join(c)
<1>1. /\ nodes[serve[c].name] = "Handshake" /\ leaf[c].my # NoName
      /\ nodes' = [nodes EXCEPT ![serve[c].name] = "Connected"]
  BY Before DEF Mark, ServeAt, Named, Input
<1>2. GivenStays
  BY Before, MarkKeepsName
<1>3. Given' = Given /\ Known' = Known /\ Outcomes' = Outcomes
  BY <1>2, Unseen DEF Mark, Known, Outcomes
<1>4. Known[c] # [my |-> NoName, server |-> NoName] /\ Given[c] = serve[c].name
  BY <1>1 DEF Known, Given
<1> QED BY <1>1, <1>3, <1>4 DEF Promise!Join, Promise!Nobody, Given, Known, Outcomes

\* An answer moves open on, or is the last.
LEMMA GotOkSucceeds ==
  ASSUME OpenInv, NEW c \in Opens, GotOk(c) PROVE Promise!Succeed(c) \/ OutcomeStays
<1>1. /\ client[c].at = "await" /\ UNCHANGED <<fwd, read, leaf, serve, nodes>>
      /\ \A d \in Opens \ {c} : client'[d] = client[d]
      /\ client'[c].at \in {"send", "await", "done"}
  BY Before DEF GotOk, ClientAt, ClientT, ClientRec
<1>2. CASE client'[c].at # "done"
  BY <1>1, <1>2 DEF OutcomeStays, Outcome
<1>3. CASE client'[c].at = "done"
  <2>1. OpenInv'
    BY StepGotOk
  <2>2. serve'[c].n = 5 /\ serve'[c].name # NoName /\ nodes'[serve'[c].name] = "Connected"
    BY <1>3, <2>1 DEF OpenInv, OpenOK, Handover, Store, Named
  <2>3. serve[c].name # NoName /\ nodes[serve[c].name] = "Connected"
    BY <1>1, <2>2
  <2>4. Outcome(client[c].at) = "none" /\ Outcome(client'[c].at) = "success"
    BY <1>1, <1>3 DEF Outcome
  <2>5. Outcomes' = [Outcomes EXCEPT ![c] = "success"]
    BY <1>1, <2>4 DEF Outcomes
  <2>6. Given' = Given /\ Known' = Known /\ Given[c] = serve[c].name
    BY <1>1 DEF Given, Known
  <2>7. Outcomes[c] = "none"
    BY <2>4 DEF Outcomes
  <2>8. Promise!Succeed(c)
    BY <1>1, <2>3, <2>5, <2>6, <2>7 DEF Promise!Succeed, Given, Known, Outcomes
  <2> QED BY <2>8
<1> QED BY <1>2, <1>3

\* open fails, or is killed.
LEMMA StopFails ==
  ASSUME OpenInv, NEW c \in Opens, ClientFails(c) \/ Kill(c) PROVE Promise!Fail(c)
<1>1. /\ ClientTo(c, "failed") /\ "failed" \in ClientPlaces
      /\ UNCHANGED <<fwd, read, leaf, sock, serve, nodes>>
      /\ client[c].at \notin {"done", "failed"}
  BY DEF ClientFails, Kill, ClientAt, ClientUp, ClientPlaces
<1>2. client'[c].at = "failed" /\ \A d \in Opens \ {c} : client'[d] = client[d]
  BY <1>1, Before, ClientGoes
<1>3. Outcome(client[c].at) = "none" /\ Outcome(client'[c].at) = "failure"
  BY <1>1, <1>2 DEF Outcome
<1>4. Outcomes' = [Outcomes EXCEPT ![c] = "failure"] /\ Outcomes[c] = "none"
  BY <1>2, <1>3 DEF Outcomes
<1>5. Given' = Given /\ Known' = Known
  BY <1>1 DEF Given, Known
<1> QED BY <1>1, <1>4, <1>5 DEF Promise!Fail, Given, Known, Outcomes

\* The other steps of open's main task.
LEMMA ClientUnseen ==
  ASSUME OpenInv, NEW c \in Opens,
         Connect(c) \/ Spawn(c) \/ Broadcast(c) \/ Join(c) \/ SendItem(c)
  PROVE  UNCHANGED Promise!vars
<1>1. PICK x \in {"spawn", "magic", "stdin", "stderr", "send", "await"} : ClientTo(c, x)
  BY DEF Connect, Spawn, Broadcast, Join, SendItem
<1>2. client[c].at \notin {"done", "failed"} /\ serve' = serve /\ nodes' = nodes
  BY DEF Connect, Spawn, Broadcast, Join, SendItem, ClientAt
<1>3. client'[c].at = x /\ \A d \in Opens \ {c} : client'[d] = client[d]
  BY <1>1, Before, ClientGoes DEF ClientPlaces
<1>4. OutcomeStays
  BY <1>2, <1>3 DEF OutcomeStays, Outcome
<1>5. KnownStays
  <2>1. CASE Spawn(c)
    <3>1. leaf' = [leaf EXCEPT ![c].at = "text"] /\ "text" \in LeafPlaces
      BY <2>1 DEF Spawn, LeafPlaces
    <3> QED BY <3>1, Before, LeafGoes DEF KnownStays
  <2>2. CASE ~Spawn(c)
    <3>1. leaf' = leaf
      BY <2>2 DEF Connect, Broadcast, Join, SendItem
    <3> QED BY <3>1 DEF KnownStays
  <2> QED BY <2>1, <2>2
<1>6. GivenStays
  BY <1>2 DEF GivenStays
<1> QED BY <1>2, <1>4, <1>5, <1>6, Stutters

\* A leaf without a name of its own has none of the daemon either.
KnownTogether == \A c \in Opens : leaf[c].my = NoName => leaf[c].server = NoName

\* It learns both in one step.
LEMMA KnownTogetherNext == OpenInv /\ KnownTogether /\ [Next]_vars => KnownTogether'
<1> SUFFICES ASSUME OpenInv, KnownTogether, [Next]_vars PROVE KnownTogether'
  OBVIOUS
<1>1. ASSUME KnownStays PROVE KnownTogether'
  BY <1>1 DEF KnownStays, KnownTogether
<1>2. ASSUME NEW c \in Opens, LeafRead(c) PROVE KnownTogether'
  <2>1. OpenInv'
    BY <1>2, StepLeafRead
  <2>2. \A d \in Opens \ {c} : leaf'[d] = leaf[d]
    BY <1>2, Before DEF LeafRead, LeafT
  <2>3. leaf'[c].at = "answer"
    BY <1>2, Before DEF LeafRead, LeafT, LeafRec
  <2>4. leaf'[c].my # NoName
    BY <2>1, <2>3 DEF OpenInv, OpenOK, Output
  <2> QED BY <2>2, <2>4 DEF KnownTogether
<1>3. ASSUME NEW c \in Opens, Client(c) \/ Kill(c) PROVE KnownStays
  <2>1. CASE Spawn(c)
    <3>1. leaf' = [leaf EXCEPT ![c].at = "text"] /\ "text" \in LeafPlaces
      BY <2>1 DEF Spawn, LeafPlaces
    <3> QED BY <3>1, Before, LeafGoes DEF KnownStays
  <2>2. CASE ~Spawn(c)
    <3>1. leaf' = leaf
      BY <1>3, <2>2 DEF Client, Connect, Broadcast, Join, SendItem, GotOk, ClientFails, Kill
    <3> QED BY <3>1 DEF KnownStays
  <2> QED BY <2>1, <2>2
<1>4. ASSUME NEW c \in Opens, Serve(c) PROVE KnownStays
  BY <1>4, Before, ServeKeepsRest
<1>5. ASSUME NEW c \in Opens,
             Forward(c) \/ UserEof(c) \/ \E d \in Streams : Chunk(c, d)
      PROVE  KnownStays
  BY <1>5, Before, ForwardUnseen
<1>6. ASSUME NEW c \in Opens, Leaf(c) \/ LauncherReads(c) \/ LeafDies(c), ~LeafRead(c)
      PROVE  KnownStays
  BY <1>6, Before, LeafKeepsNames
<1>7. CASE UNCHANGED vars
  BY <1>1, <1>7 DEF vars, KnownStays
<1> QED BY <1>1, <1>2, <1>3, <1>4, <1>5, <1>6, <1>7 DEF Next, Environment

\* A start is one of the promise's.
LEMMA PromiseInit == Init => Promise!Init
<1> SUFFICES ASSUME Init PROVE Promise!Init
  OBVIOUS
<1>1. /\ nodes \in [Names -> {"none", "MyNode", "Handshake"}]
      /\ \A m \in Names : nodes[m] = "MyNode" <=> m = MyName
  BY DEF Init
<1>2. \A c \in Opens : serve[c].name = NoName /\ leaf[c].my = NoName /\ leaf[c].server = NoName
                       /\ client[c].at = "connect"
  BY DEF Init
<1>3. \A c \in Opens : Outcome(client[c].at) = "none"
  BY <1>2 DEF Outcome
<1> QED BY <1>1, <1>2, <1>3 DEF Promise!Init, Promise!Nobody

\* Every step is one of the promise's, or one of which it sees nothing.
LEMMA PromiseNext == OpenInv /\ KnownTogether /\ [Next]_vars => [Promise!Next]_(Promise!vars)
<1> SUFFICES ASSUME OpenInv, KnownTogether, [Next]_vars
             PROVE  Promise!Next \/ UNCHANGED Promise!vars
  OBVIOUS
<1>1. ASSUME NEW c \in Opens, Client(c) \/ Kill(c)
      PROVE  Promise!Next \/ UNCHANGED Promise!vars
  <2>1. CASE GotOk(c)
    <3>1. Promise!Succeed(c) \/ OutcomeStays
      BY <2>1, GotOkSucceeds
    <3>2. UNCHANGED <<leaf, serve, nodes>>
      BY <2>1 DEF GotOk
    <3>3. GivenStays /\ KnownStays
      BY <3>2 DEF GivenStays, KnownStays
    <3>4. OutcomeStays => UNCHANGED Promise!vars
      BY <3>2, <3>3, Stutters
    <3> QED BY <3>1, <3>4 DEF Promise!Next
  <2>2. CASE ClientFails(c) \/ Kill(c)
    <3>1. Promise!Fail(c)
      BY <2>2, StopFails
    <3> QED BY <3>1 DEF Promise!Next
  <2>3. CASE Connect(c) \/ Spawn(c) \/ Broadcast(c) \/ Join(c) \/ SendItem(c)
    BY <2>3, ClientUnseen
  <2> QED BY <1>1, <2>1, <2>2, <2>3 DEF Client
<1>2. ASSUME NEW c \in Opens, Serve(c) PROVE Promise!Next \/ UNCHANGED Promise!vars
  <2>1. CASE Insert(c)
    <3>1. \E m \in Names : Promise!Give(c, m)
      BY <2>1, InsertGives
    <3> QED BY <3>1 DEF Promise!Next
  <2>2. CASE Mark(c)
    <3>1. Promise!Join(c)
      BY <2>2, MarkJoins
    <3> QED BY <3>1 DEF Promise!Next
  <2>3. CASE ~Insert(c) /\ ~Mark(c)
    <3>1. GivenStays
      BY <1>2, <2>3, Before, ServeKeepsName
    <3>2. KnownStays /\ OutcomeStays
      BY <1>2, Before, ServeKeepsRest
    <3>3. nodes' = nodes
      BY <1>2, <2>3, ServeKeepsNodes
    <3> QED BY <3>1, <3>2, <3>3, Stutters
  <2> QED BY <2>1, <2>2, <2>3
<1>3. ASSUME NEW c \in Opens,
             Forward(c) \/ UserEof(c) \/ \E d \in Streams : Chunk(c, d)
      PROVE  UNCHANGED Promise!vars
  <2>1. UNCHANGED <<client, serve, nodes>> /\ KnownStays
    BY <1>3, Before, ForwardUnseen
  <2>2. GivenStays /\ OutcomeStays
    BY <2>1 DEF GivenStays, OutcomeStays
  <2> QED BY <2>1, <2>2, Stutters
<1>4. ASSUME NEW c \in Opens, Leaf(c) \/ LauncherReads(c) \/ LeafDies(c)
      PROVE  Promise!Next \/ UNCHANGED Promise!vars
  <2>1. CASE LeafRead(c)
    <3>1. leaf[c].my = NoName
      BY <2>1, Before DEF LeafRead, Input
    <3>2. Promise!Learn(c)
      BY <2>1, <3>1, LeafReadLearns DEF KnownTogether
    <3> QED BY <3>2 DEF Promise!Next
  <2>2. CASE ~LeafRead(c)
    <3>1. UNCHANGED <<client, serve, nodes>> /\ KnownStays
      BY <1>4, <2>2, Before, LeafKeepsNames
    <3>2. GivenStays /\ OutcomeStays
      BY <3>1 DEF GivenStays, OutcomeStays
    <3> QED BY <3>1, <3>2, Stutters
  <2> QED BY <2>1, <2>2
<1>5. CASE UNCHANGED vars
  BY <1>5, Stutters DEF vars, GivenStays, KnownStays, OutcomeStays
<1> QED BY <1>1, <1>2, <1>3, <1>4, <1>5 DEF Next, Environment

\* A leaf's name is given, learnt, connected and reported once each and in this order,
\* for any number of opens and names and whoever dies.
THEOREM OpenIntroduces == Spec => ImplementsIntroduction
<1>1. Init => KnownTogether
  BY DEF Init, KnownTogether
<1>2. Spec => []KnownTogether
  BY <1>1, KnownTogetherNext, OpenInvariant, PTL DEF Spec
<1> QED BY <1>2, PromiseInit, PromiseNext, OpenInvariant, PTL
        DEF Spec, ImplementsIntroduction, Promise!Spec
=============================================================================
