----------------------------- MODULE SocketSetup -----------------------------
(***************************************************************************)
(* setup_socket of src/daemon/command.rs: daemons of one user that start   *)
(* and die around one socket path.  Every system call is a step, so other  *)
(* processes may act between any two of them.                              *)
(***************************************************************************)
EXTENDS Naturals

CONSTANTS Procs,       \* daemon processes
          NoFile,      \* nothing at the path
          Foreign,     \* a file at the path that is no socket, put there by somebody else
          MaxStarts    \* bound: times each process is started

ASSUME SetupAssumption == /\ NoFile \notin Procs \X Nat
                          /\ Foreign \notin (Procs \X Nat) \cup {NoFile}
                          /\ MaxStarts \in Nat

VARIABLES pc,          \* [Procs -> where setup_socket stands]
          starts,      \* [Procs -> how often it was started]
          path,        \* the socket file at the path, Foreign or NoFile
          listening,   \* the sockets somebody listens on
          overlapped,  \* history: a daemon started while another was in setup_socket
          killed       \* history: a daemon was killed

history == <<overlapped, killed>>
vars == <<pc, starts, path, listening, history>>

Socket(p) == <<p, starts[p]>>            \* the socket this start of p may create
InSetup == {"exists", "metadata", "connect", "remove", "bind", "listen"}
Down == {"off", "failed"}

Init == /\ pc = [p \in Procs |-> "off"]
        /\ starts = [p \in Procs |-> 0]
        /\ path \in {NoFile, Foreign}
        /\ listening = {}
        /\ overlapped = FALSE /\ killed = FALSE

Goto(p, l) == pc' = [pc EXCEPT ![p] = l]
At(p, l) == pc[p] = l

Start(p) == /\ pc[p] \in Down /\ starts[p] < MaxStarts
            /\ overlapped' = (overlapped \/ \E q \in Procs : pc[q] \in InSetup)
            /\ starts' = [starts EXCEPT ![p] = @ + 1] /\ Goto(p, "exists")
            /\ UNCHANGED <<path, listening, killed>>

\* if sock_path.exists()
Exists(p) == /\ At(p, "exists")
             /\ Goto(p, IF path = NoFile THEN "bind" ELSE "metadata")
             /\ UNCHANGED <<starts, path, listening, history>>

\* sock_path.metadata()?, and the ensure! that the file is a socket.
Metadata(p) == /\ At(p, "metadata")
               /\ Goto(p, IF path \in {NoFile, Foreign} THEN "failed" ELSE "connect")
               /\ UNCHANGED <<starts, path, listening, history>>

\* Mutant: the file is taken as stale whatever connect returns.
ConnectIgnored(p) == /\ At(p, "connect")
                     /\ Goto(p, IF path # NoFile THEN "remove" ELSE "failed")
                     /\ UNCHANGED <<starts, path, listening, history>>

\* UnixStream::connect: only ConnectionRefused goes on.
Connect(p) == /\ At(p, "connect")
              /\ Goto(p, IF path # NoFile /\ path \notin listening THEN "remove"
                                                                   ELSE "failed")
              /\ UNCHANGED <<starts, path, listening, history>>

\* Mutant: the stale file is not removed.
RemoveMissing(p) == At(p, "remove") /\ Goto(p, "bind") /\ UNCHANGED <<starts, path, listening, history>>

\* fs::remove_file(&sock_path)?: by name, whatever is there by now.
Remove(p) == /\ At(p, "remove")
             /\ path' = NoFile
             /\ Goto(p, IF path = NoFile THEN "failed" ELSE "bind")
             /\ UNCHANGED <<starts, listening, history>>

\* Mutant: the guard is created before bind, so a failing bind removes the file.
BindGuardFirst(p) == /\ At(p, "bind")
                     /\ path' = IF path = NoFile THEN Socket(p) ELSE NoFile
                     /\ Goto(p, IF path = NoFile THEN "listen" ELSE "failed")
                     /\ UNCHANGED <<starts, listening, history>>

\* UnixListener::bind is bind(2), which fails on an existing file, and listen(2).
Bind(p) == /\ At(p, "bind")
           /\ path' = IF path = NoFile THEN Socket(p) ELSE path
           /\ Goto(p, IF path = NoFile THEN "listen" ELSE "failed")
           /\ UNCHANGED <<starts, listening, history>>

Listen(p) == /\ At(p, "listen")
             /\ listening' = listening \cup {Socket(p)} /\ Goto(p, "run")
             /\ UNCHANGED <<starts, path, history>>

\* A signal: the SocketGuard is not dropped, the file stays.
Crash(p) == /\ pc[p] \notin Down
            /\ listening' = listening \ {Socket(p)} /\ Goto(p, "off") /\ killed' = TRUE
            /\ UNCHANGED <<starts, path, overlapped>>

Next == \E p \in Procs : \/ Start(p) \/ Exists(p) \/ Metadata(p) \/ Connect(p)
                         \/ Remove(p) \/ Bind(p) \/ Listen(p) \/ Crash(p)

Spec == Init /\ [][Next]_vars

-----------------------------------------------------------------------------
\* Every variable has its type.
TypeOK == /\ pc \in [Procs -> InSetup \cup Down \cup {"run"}]
          /\ starts \in [Procs -> 0 .. MaxStarts]
          /\ path \in (Procs \X Nat) \cup {NoFile, Foreign}
          /\ listening \subseteq Procs \X Nat
          /\ overlapped \in BOOLEAN /\ killed \in BOOLEAN

\* A server that runs is the one clients reach: the file at the path is its
\* socket, as the connect of setup_socket ("determine if another server process
\* is listening") and its bail are there to ensure.
RunningIsReachable == \A p \in Procs : pc[p] = "run" => path = Socket(p)

\* That holds as long as no two daemons were in setup_socket at once, whichever
\* were killed where and whatever files they left.
ReachableAlone == ~overlapped => RunningIsReachable

\* A daemon that starts by itself refuses to run only because another one does, or
\* because the file is no socket: one left by a dead server never keeps it out.
FailureHasReason ==
    [][\A p \in Procs : ~overlapped /\ pc[p] # "failed" /\ pc'[p] = "failed" =>
           path = Foreign \/ \E q \in Procs \ {p} : pc[q] = "run"]_vars

\* However starts overlap, as long as nobody is killed: once all are through
\* setup_socket, the file at the path belongs to a server that listens, if any
\* daemon was started at all and no foreign file is there.
SomeoneReachable ==
    /\ ~killed /\ path # Foreign
    /\ \A p \in Procs : pc[p] \notin InSetup
    /\ \E p \in Procs : starts[p] > 0
    => path \in listening

-----------------------------------------------------------------------------
\* Why starts that do not overlap are safe: what setup_socket learned about the
\* path stays true until it acts on it, and a server that runs owns the file.
OneStarter == \A p, q \in Procs : pc[p] \in InSetup /\ pc[q] \in InSetup => p = q

PathAsSeen ==
    \A p \in Procs :
        /\ pc[p] = "bind" => path = NoFile
        /\ pc[p] \in {"metadata", "connect", "remove"} => path # NoFile
        /\ pc[p] \in {"connect", "remove"} => path # Foreign
        /\ pc[p] = "listen" => path = Socket(p)
        /\ pc[p] \in {"remove", "listen"} => \A q \in Procs : pc[q] # "run"

ListenersServe == \A sock \in listening : \E q \in Procs : pc[q] = "run" /\ sock = Socket(q)

AloneInv == OneStarter /\ PathAsSeen /\ RunningIsReachable /\ ListenersServe

\* Why overlapping starts leave a server behind when nobody is killed: the file
\* belongs to a daemon that listens or is about to, and while there is none some
\* daemon has still to create it.
FileHasOwner ==
    path \notin {NoFile, Foreign} => \E p \in Procs : path = Socket(p) /\ pc[p] \in {"listen", "run"}
FileIsComing ==
    path = NoFile /\ (\E p \in Procs : starts[p] > 0)
    => \E p \in Procs : pc[p] \in {"exists", "bind"}

ServersListen == \A p \in Procs : pc[p] = "run" => Socket(p) \in listening

\* The inductive invariant of setup_socket.
SetupInv == /\ TypeOK /\ ServersListen
            /\ ~overlapped => AloneInv
            /\ ~killed => FileHasOwner /\ FileIsComing
=============================================================================
