------------------------------- MODULE Leases -------------------------------
(***************************************************************************)
(* What one table of the Router (src/router.rs) promises its users.        *)
(*                                                                         *)
(* A receiver is handed out for an id and stays alive until its owner      *)
(* drops it.  While it is registered, a lookup of the id reaches exactly   *)
(* that receiver.  A registration ends when the receiver is dropped or     *)
(* when the notifier is taken, and it never ends because somebody else's   *)
(* receiver, of the same id or of another, is dropped.                     *)
(***************************************************************************)
CONSTANTS Ids,      \* the protocol ids
          Tokens,   \* what identifies a receiver
          NoToken   \* the id has no registration

VARIABLES registered,   \* id -> the token a lookup of the id reaches, or NoToken
          live          \* the receivers that have not been dropped

vars == <<registered, live>>

Receivers == [index : Tokens, id : Ids]

Init == /\ registered = [id \in Ids |-> NoToken]
        /\ live = {}

\* A vacant id is leased to a receiver nobody else can be mistaken for.
Register(id, t) ==
    /\ registered[id] = NoToken
    /\ \A r \in live : r.index # t
    /\ registered' = [registered EXCEPT ![id] = t]
    /\ live' = live \cup {[index |-> t, id |-> id]}

\* The owner drops the receiver: its own registration ends, if it still has one.
Release(r) ==
    /\ r \in live
    /\ live' = live \ {r}
    /\ registered' = [id \in Ids |-> IF registered[id] = r.index THEN NoToken
                                                              ELSE registered[id]]

\* The registration is consumed; the receiver itself lives on.
Consume(id) ==
    /\ registered[id] # NoToken
    /\ registered' = [registered EXCEPT ![id] = NoToken]
    /\ UNCHANGED live

Next == \/ \E id \in Ids, t \in Tokens : Register(id, t)
        \/ \E r \in live : Release(r)
        \/ \E id \in Ids : Consume(id)

Spec == Init /\ [][Next]_vars
=============================================================================
