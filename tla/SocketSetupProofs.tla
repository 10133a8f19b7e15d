--------------------------- MODULE SocketSetupProofs ---------------------------
(***************************************************************************)
(* Proofs about SocketSetup, for any set of daemons, any number of starts  *)
(* and any interleaving of their system calls.                             *)
(***************************************************************************)
EXTENDS SocketSetup, TLAPS

USE DEF Socket, InSetup, Down, At, Goto, history

\* A socket is neither "no file" nor a foreign one.
LEMMA SocketIsFile == ASSUME TypeOK, NEW p \in Procs PROVE Socket(p) \notin {NoFile, Foreign}
  BY SetupAssumption DEF TypeOK

\* A directory without a socket, with nobody started, satisfies the invariant.
LEMMA SetupInit == Init => SetupInv
<1> SUFFICES ASSUME Init PROVE SetupInv
  OBVIOUS
<1>1. overlapped = FALSE /\ killed = FALSE
  BY DEF Init
<1>2. TypeOK
  <2>1. /\ pc \in [Procs -> InSetup \cup Down \cup {"run"}]
        /\ starts \in [Procs -> 0 .. MaxStarts]
        /\ path \in (Procs \X Nat) \cup {NoFile, Foreign}
        /\ listening \subseteq Procs \X Nat
    BY SetupAssumption DEF Init
  <2>2. QED
    BY <1>1, <2>1 DEF TypeOK
<1>3. ServersListen
  BY DEF Init, ServersListen
<1>4. AloneInv
  BY DEF Init, AloneInv, OneStarter, PathAsSeen, RunningIsReachable, ListenersServe
<1>5. FileHasOwner /\ FileIsComing
  BY DEF Init, FileHasOwner, FileIsComing
<1>6. QED
  BY <1>2, <1>3, <1>4, <1>5 DEF SetupInv

-----------------------------------------------------------------------------
(* What every step preserves, whoever overlaps or dies.                     *)

\* Types, and that a server which runs is listening.
LEMMA BaseStep ==
  ASSUME TypeOK, ServersListen, [Next]_vars
  PROVE  (TypeOK /\ ServersListen)'
<1> USE SetupAssumption DEF TypeOK, ServersListen
<1>1. ASSUME NEW p \in Procs, Start(p) PROVE (TypeOK /\ ServersListen)'
  BY <1>1 DEF Start
<1>2. ASSUME NEW p \in Procs, Exists(p) \/ Metadata(p) \/ Connect(p) \/ Remove(p)
      PROVE  (TypeOK /\ ServersListen)'
  BY <1>2 DEF Exists, Metadata, Connect, Remove
<1>3. ASSUME NEW p \in Procs, Bind(p) PROVE (TypeOK /\ ServersListen)'
  BY <1>3 DEF Bind
<1>4. ASSUME NEW p \in Procs, Listen(p) PROVE (TypeOK /\ ServersListen)'
  BY <1>4 DEF Listen
<1>5. ASSUME NEW p \in Procs, Crash(p) PROVE (TypeOK /\ ServersListen)'
  BY <1>5 DEF Crash
<1>6. CASE UNCHANGED vars
  BY <1>6 DEF vars
<1>7. QED
  BY <1>1, <1>2, <1>3, <1>4, <1>5, <1>6 DEF Next

-----------------------------------------------------------------------------
(* Starts that do not overlap.                                              *)

\* Overlap is history: no step takes it back.
LEMMA OverlapStays == ASSUME [Next]_vars, TypeOK, overlapped PROVE overlapped'
  BY DEF Next, vars, TypeOK, Start, Exists, Metadata, Connect, Remove, Bind, Listen, Crash

\* Every system call preserves what setup_socket relies on, unless a daemon starts
\* while another is at it.
LEMMA AloneStep ==
  ASSUME TypeOK, ServersListen, AloneInv, ~overlapped', [Next]_vars
  PROVE  AloneInv'
<1> USE SetupAssumption DEF AloneInv, TypeOK, OneStarter, PathAsSeen,
                            RunningIsReachable, ServersListen, ListenersServe
<1>1. ASSUME NEW p \in Procs, Start(p) PROVE AloneInv'
  <2>1. \A q \in Procs : pc[q] \notin InSetup
    BY <1>1 DEF Start
  <2>2. QED
    BY <1>1, <2>1 DEF Start
<1>2. ASSUME NEW p \in Procs, Exists(p) PROVE AloneInv'
  BY <1>2 DEF Exists
<1>3. ASSUME NEW p \in Procs, Metadata(p) PROVE AloneInv'
  BY <1>3 DEF Metadata
<1>4. ASSUME NEW p \in Procs, Connect(p) PROVE AloneInv'
  BY <1>4 DEF Connect
<1>5. ASSUME NEW p \in Procs, Remove(p) PROVE AloneInv'
  BY <1>5 DEF Remove
<1>6. ASSUME NEW p \in Procs, Bind(p) PROVE AloneInv'
  <2>1. /\ path = NoFile /\ path' = Socket(p)
        /\ pc' = [pc EXCEPT ![p] = "listen"] /\ UNCHANGED <<starts, listening>>
    BY <1>6 DEF Bind
  <2>2. \A q \in Procs : pc[q] # "run"
    BY <2>1, SocketIsFile
  <2>3. PathAsSeen'
    BY <1>6, <2>1, <2>2, SocketIsFile DEF Bind
  <2>4. (RunningIsReachable /\ ListenersServe)'
    BY <2>1, <2>2
  <2>5. OneStarter'
    BY <1>6, <2>1 DEF Bind
  <2>6. QED
    BY <2>3, <2>4, <2>5
<1>7. ASSUME NEW p \in Procs, Listen(p) PROVE AloneInv'
  BY <1>7 DEF Listen
<1>8. ASSUME NEW p \in Procs, Crash(p) PROVE AloneInv'
  BY <1>8 DEF Crash
<1>9. CASE UNCHANGED vars
  BY <1>9 DEF vars
<1>10. QED
  BY <1>1, <1>2, <1>3, <1>4, <1>5, <1>6, <1>7, <1>8, <1>9 DEF Next

-----------------------------------------------------------------------------
(* Starts that overlap, when nobody is killed.                              *)

\* Every system call preserves, in any interleaving, that the file has an owner or
\* is about to be created.
LEMMA OwnerStep ==
  ASSUME TypeOK, FileHasOwner, FileIsComing, ~killed', [Next]_vars
  PROVE  (FileHasOwner /\ FileIsComing)' /\ ~killed
<1> USE SetupAssumption DEF TypeOK, FileHasOwner, FileIsComing
<1> DEFINE Goal == (FileHasOwner /\ FileIsComing)' /\ ~killed
<1>1. ASSUME NEW p \in Procs, Start(p) PROVE Goal
  BY <1>1 DEF Start
<1>2. ASSUME NEW p \in Procs, Exists(p) PROVE Goal
  BY <1>2 DEF Exists
<1>3. ASSUME NEW p \in Procs, Metadata(p) PROVE Goal
  BY <1>3 DEF Metadata
<1>4. ASSUME NEW p \in Procs, Connect(p) PROVE Goal
  BY <1>4 DEF Connect
<1>5. ASSUME NEW p \in Procs, Remove(p) PROVE Goal
  BY <1>5 DEF Remove
<1>6. ASSUME NEW p \in Procs, Bind(p) PROVE Goal
  BY <1>6, SocketIsFile DEF Bind
<1>7. ASSUME NEW p \in Procs, Listen(p) PROVE Goal
  BY <1>7 DEF Listen
<1>8. CASE UNCHANGED vars
  BY <1>8 DEF vars
<1>9. QED
  BY <1>1, <1>2, <1>3, <1>4, <1>5, <1>6, <1>7, <1>8 DEF Next, Crash

-----------------------------------------------------------------------------
(* The theorems.                                                            *)

\* What setup_socket learned about the path stays true while it acts on it, unless
\* starts overlap; and the file has an owner unless somebody is killed.
THEOREM SetupInvariant == Spec => []SetupInv
<1>1. ASSUME SetupInv, [Next]_vars PROVE SetupInv'
  <2>1. TypeOK /\ ServersListen
    BY <1>1 DEF SetupInv
  <2>2. (TypeOK /\ ServersListen)'
    BY <1>1, <2>1, BaseStep
  <2>3. ~overlapped' => AloneInv'
    BY <1>1, <2>1, OverlapStays, AloneStep DEF SetupInv
  <2>4. ~killed' => ~killed
    BY <1>1, <2>1 DEF Next, vars, TypeOK, Start, Exists, Metadata, Connect, Remove,
                      Bind, Listen, Crash
  <2>5. ~killed' => (FileHasOwner /\ FileIsComing)'
    BY <1>1, <2>1, <2>4, OwnerStep DEF SetupInv
  <2>6. QED
    BY <2>2, <2>3, <2>5 DEF SetupInv
<1>2. QED
  BY <1>1, SetupInit, PTL DEF Spec

\* Every variable keeps its type.
THEOREM SetupTypes == Spec => []TypeOK
<1>1. SetupInv => TypeOK
  BY DEF SetupInv
<1>2. QED
  BY <1>1, SetupInvariant, PTL

\* As long as no two daemons were in setup_socket at once, a running server is the
\* one clients reach, whichever daemons were killed and whatever files they left.
THEOREM AloneReachable == Spec => []ReachableAlone
<1>1. SetupInv => ReachableAlone
  BY DEF SetupInv, AloneInv, ReachableAlone
<1>2. QED
  BY <1>1, SetupInvariant, PTL

\* A daemon that starts by itself refuses to run only because another one runs or a
\* foreign file is in its place.
THEOREM AloneFailure == Spec => FailureHasReason
<1> DEFINE Reason == \A p \in Procs : ~overlapped /\ pc[p] # "failed" /\ pc'[p] = "failed" =>
                         path = Foreign \/ \E q \in Procs \ {p} : pc[q] = "run"
<1>1. ASSUME SetupInv, [Next]_vars PROVE [Reason]_vars
  <2> USE SetupAssumption DEF TypeOK, PathAsSeen, ListenersServe
  <2> SUFFICES ASSUME Next, NEW p \in Procs, ~overlapped,
                      pc[p] # "failed", pc'[p] = "failed", path # Foreign
               PROVE  \E q \in Procs \ {p} : pc[q] = "run"
    BY <1>1
  <2>1. TypeOK /\ PathAsSeen /\ ListenersServe
    BY <1>1 DEF SetupInv, AloneInv
  <2>2. Connect(p) /\ path \in listening
    BY <2>1 DEF Next, Start, Exists, Metadata, Connect, Remove, Bind, Listen, Crash
  <2>3. PICK q \in Procs : pc[q] = "run" /\ path = Socket(q)
    BY <2>1, <2>2
  <2>4. QED
    BY <2>2, <2>3 DEF Connect
<1>2. Spec => [][Reason]_vars
  BY <1>1, SetupInvariant, PTL DEF Spec
<1>3. QED
  BY <1>2 DEF FailureHasReason

\* However starts overlap, if nobody was killed and all are through, the path leads
\* to a server that listens.
THEOREM OverlapReachable == Spec => []SomeoneReachable
<1>1. SetupInv => SomeoneReachable
  BY DEF SetupInv, TypeOK, FileHasOwner, FileIsComing, ServersListen, SomeoneReachable
<1>2. QED
  BY <1>1, SetupInvariant, PTL
=============================================================================
