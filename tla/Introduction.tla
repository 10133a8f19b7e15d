---------------------------- MODULE Introduction -----------------------------
(***************************************************************************)
(* What `rsrs open` and the daemon promise about a leaf (src/daemon/       *)
(* network.rs, src/command/open.rs).                                       *)
(*                                                                         *)
(* The daemon gives the leaf of an open a name nobody has, the leaf learns *)
(* that name and the daemon's, its node becomes Connected, and only then   *)
(* open reports success; each of them once, in this order, and for good.   *)
(* It may end at any point: a name that was given stays in use.            *)
(***************************************************************************)
CONSTANTS Opens,    \* the open processes, with one leaf each
          Names,    \* what the name generator can return
          MyName,   \* the daemon's own name
          NoName    \* no name yet

VARIABLES nodes,     \* the daemon's store: [Names -> state of the node]
          given,     \* the name the daemon has entered for the leaf of an open
          known,     \* the names the leaf has learnt: its own and the daemon's
          outcome    \* what open has reported: "none", "success" or "failure"

vars == <<nodes, given, known, outcome>>

Nobody == [my |-> NoName, server |-> NoName]

\* Names of earlier, failed introductions may be in use.
Init == /\ nodes \in [Names -> {"none", "MyNode", "Handshake"}]
        /\ \A m \in Names : nodes[m] = "MyNode" <=> m = MyName
        /\ given = [c \in Opens |-> NoName]
        /\ known = [c \in Opens |-> Nobody]
        /\ outcome = [c \in Opens |-> "none"]

Give(c, m) == /\ given[c] = NoName /\ nodes[m] = "none"
              /\ given' = [given EXCEPT ![c] = m]
              /\ nodes' = [nodes EXCEPT ![m] = "Handshake"]
              /\ UNCHANGED <<known, outcome>>

Learn(c) == /\ known[c] = Nobody /\ given[c] # NoName /\ nodes[given[c]] = "Handshake"
            /\ known' = [known EXCEPT ![c] = [my |-> given[c], server |-> MyName]]
            /\ UNCHANGED <<nodes, given, outcome>>

Join(c) == /\ known[c] # Nobody /\ nodes[given[c]] = "Handshake"
           /\ nodes' = [nodes EXCEPT ![given[c]] = "Connected"]
           /\ UNCHANGED <<given, known, outcome>>

Succeed(c) == /\ outcome[c] = "none" /\ given[c] # NoName /\ nodes[given[c]] = "Connected"
              /\ outcome' = [outcome EXCEPT ![c] = "success"]
              /\ UNCHANGED <<nodes, given, known>>

Fail(c) == /\ outcome[c] = "none"
           /\ outcome' = [outcome EXCEPT ![c] = "failure"]
           /\ UNCHANGED <<nodes, given, known>>

Next == \E c \in Opens : \/ \E m \in Names : Give(c, m)
                         \/ Learn(c) \/ Join(c) \/ Succeed(c) \/ Fail(c)

Spec == Init /\ [][Next]_vars
=============================================================================
