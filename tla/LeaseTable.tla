----------------------------- MODULE LeaseTable -----------------------------
(***************************************************************************)
(* One table of the Router of src/router.rs: a HashMap from protocol ids   *)
(* to arena indices beside the generational arena the indices point into.  *)
(* The Router owns two of them, channel_id_map/channels and                *)
(* status_id_map/status_notifiers, which share nothing: this module is     *)
(* either of them.  Every operation runs under the ROUTER mutex and is one *)
(* step.                                                                   *)
(***************************************************************************)
EXTENDS Naturals

CONSTANTS Ids,       \* protocol::Id values
          Slots,     \* positions of the arena's vector
          MaxGen,    \* bound: no insertion once this many entries were removed
          NoIndex,   \* the id is not in the HashMap
          Free       \* the slot is on the arena's free list

Gens == 0 .. (MaxGen - 1)                 \* the generations handed out under the bound
Index == [slot : Slots, gen : Gens]       \* generational_arena::Index
Entry == [gen : Gens, id : Ids]           \* an occupied slot; the sender is its index
Receiver == [index : Index, id : Ids]     \* a ChannelReceiver or a StatusReceiver

ASSUME TableAssumption == /\ MaxGen \in Nat
                          /\ NoIndex \notin Index
                          /\ Free \notin Entry

VARIABLES idMap,   \* [Ids -> Index or NoIndex]
          arena,   \* [Slots -> Entry or Free]
          gen,     \* the arena's generation: counts removals
          live     \* the receivers that have not been dropped

vars == <<idMap, arena, gen, live>>

Init == /\ idMap = [id \in Ids |-> NoIndex]
        /\ arena = [s \in Slots |-> Free]
        /\ gen = 0
        /\ live = {}

-----------------------------------------------------------------------------
\* Mutant: the generation is not compared.
HoldsAnyGeneration(i) == arena[i.slot] # Free

\* Arena::remove finds an entry only when slot and generation both match.
Holds(i) == arena[i.slot] # Free /\ arena[i.slot].gen = i.gen

\* Mutant: the generation is not advanced.
ArenaRemoveSameGen(i) == arena' = [arena EXCEPT ![i.slot] = Free] /\ UNCHANGED gen

\* Arena::remove of an index that holds an entry.
ArenaRemove(i) == /\ arena' = [arena EXCEPT ![i.slot] = Free]
                  /\ gen' = gen + 1

\* insert_channel, insert_status_notifier: the vacant branch.  The occupied
\* branch returns None and changes nothing.
Insert(id) ==
    /\ idMap[id] = NoIndex
    /\ gen < MaxGen
    /\ \E s \in Slots :
         LET i == [slot |-> s, gen |-> gen] IN
         /\ arena[s] = Free
         /\ arena' = [arena EXCEPT ![s] = [gen |-> gen, id |-> id]]
         /\ idMap' = [idMap EXCEPT ![id] = i]
         /\ live' = live \cup {[index |-> i, id |-> id]}
    /\ UNCHANGED gen

\* Mutant: the id stays in the map.
DropKeepsId(r) ==
    /\ live' = live \ {r} /\ UNCHANGED idMap
    /\ \/ Holds(r.index) /\ ArenaRemove(r.index)
       \/ ~Holds(r.index) /\ UNCHANGED <<arena, gen>>

\* Drop of a receiver: remove_channel / remove_status by its index.  An index
\* whose entry is gone (taken before) removes nothing.
Drop(r) ==
    /\ live' = live \ {r}
    /\ \/ /\ Holds(r.index)
          /\ idMap' = [idMap EXCEPT ![arena[r.index.slot].id] = NoIndex]
          /\ ArenaRemove(r.index)
       \/ /\ ~Holds(r.index)
          /\ UNCHANGED <<idMap, arena, gen>>

\* Mutant: the arena entry stays.
TakeKeepsEntry(id) ==
    /\ idMap[id] # NoIndex
    /\ idMap' = [idMap EXCEPT ![id] = NoIndex]
    /\ UNCHANGED <<arena, gen, live>>

\* take_status: the map entry goes first, then the arena entry it named.
Take(id) ==
    /\ idMap[id] # NoIndex
    /\ idMap' = [idMap EXCEPT ![id] = NoIndex]
    /\ \/ Holds(idMap[id]) /\ ArenaRemove(idMap[id])
       \/ ~Holds(idMap[id]) /\ UNCHANGED <<arena, gen>>
    /\ UNCHANGED live

Next == \/ \E id \in Ids : Insert(id) \/ Take(id)
        \/ \E r \in live : Drop(r)

Spec == Init /\ [][Next]_vars

-----------------------------------------------------------------------------
\* Every variable has its type: the HashMap, the arena, its generation counter
\* and the receivers alive of src/router.rs's Router.
TypeOK == /\ idMap \in [Ids -> Index \cup {NoIndex}]
          /\ arena \in [Slots -> Entry \cup {Free}]
          /\ gen \in Nat
          /\ live \subseteq Receiver

\* The expect("corrupt internal status") of remove_channel and remove_status
\* cannot fire: whenever dropping a live receiver would find an arena entry,
\* the HashMap still has the id that entry names.
NoCorruptStatus ==
    \A r \in live : Holds(r.index) => idMap[arena[r.index.slot].id] # NoIndex

\* get_channel and take_status never see a dangling or a stranger's index: a
\* registered id leads to an arena entry whose receiver is alive and was handed
\* out for that very id.
LookupFindsOwner ==
    \A id \in Ids : idMap[id] # NoIndex =>
        /\ Holds(idMap[id])
        /\ [index |-> idMap[id], id |-> id] \in live

\* The inductive strengthening: map and arena are each other's inverse, every
\* entry has its receiver, and the generation tells a reused slot from the slot
\* a stale receiver remembers.
EntryIndex(s) == [slot |-> s, gen |-> arena[s].gen]

MapMatchesArena ==
    /\ \A id \in Ids : idMap[id] # NoIndex =>
           arena[idMap[id].slot] = [gen |-> idMap[id].gen, id |-> id]
    /\ \A s \in Slots : arena[s] # Free => idMap[arena[s].id] = EntryIndex(s)

EntryHasReceiver ==
    \A s \in Slots : arena[s] # Free =>
        [index |-> EntryIndex(s), id |-> arena[s].id] \in live

GenTellsReuse ==
    /\ \A s \in Slots : arena[s] # Free => arena[s].gen <= gen
    /\ \A r \in live : /\ r.index.gen <= gen
                       /\ r.index.gen = gen => Holds(r.index)

TableInv == TypeOK /\ MapMatchesArena /\ EntryHasReceiver /\ GenTellsReuse

\* The table implements the promise of module Leases, with the arena index as
\* the receiver's token: in particular a dropped receiver never ends the
\* registration of another one (Drop for ChannelReceiver and StatusReceiver).
Promise == INSTANCE Leases WITH Tokens <- Index, NoToken <- NoIndex,
                                registered <- idMap

ImplementsLeases == Promise!Spec
=============================================================================
