-------------------------- MODULE LeaseTableProofs --------------------------
(***************************************************************************)
(* Proofs about LeaseTable for any set of ids, any arena and any bound on  *)
(* the generations: the invariants hold, and the table implements Leases.  *)
(***************************************************************************)
EXTENDS LeaseTable, TLAPS

\* An index that holds an entry is the index of that entry.
LEMMA HeldIndex ==
    ASSUME TypeOK, NEW i \in Index, Holds(i)
    PROVE  i = EntryIndex(i.slot)
BY DEF TypeOK, Holds, EntryIndex, Index

\* A fresh index (a free slot at the current generation) belongs to no receiver
\* alive, so the receiver handed out cannot be mistaken for a stale one.
LEMMA FreshIndex ==
    ASSUME TypeOK, GenTellsReuse, NEW s \in Slots, arena[s] = Free, NEW r \in live
    PROVE  r.index # [slot |-> s, gen |-> gen]
BY DEF GenTellsReuse, Holds

-----------------------------------------------------------------------------
\* The initial table satisfies the inductive invariant: nothing is registered.
LEMMA InitInv == Init => TableInv
BY TableAssumption DEF Init, TableInv, TypeOK, MapMatchesArena, EntryHasReceiver,
                       GenTellsReuse, Receiver

\* insert_channel / insert_status_notifier keep the inductive invariant.
LEMMA InsertInv ==
    ASSUME TableInv, NEW id \in Ids, Insert(id)
    PROVE  TableInv'
<1> USE DEF TableInv
<1>1. PICK s \in Slots :
        /\ arena[s] = Free
        /\ arena' = [arena EXCEPT ![s] = [gen |-> gen, id |-> id]]
        /\ idMap' = [idMap EXCEPT ![id] = [slot |-> s, gen |-> gen]]
        /\ live' = live \cup {[index |-> [slot |-> s, gen |-> gen], id |-> id]}
  BY DEF Insert
<1>2. gen \in Gens /\ gen' = gen /\ idMap[id] = NoIndex
  BY TableAssumption DEF Insert, Gens, TypeOK
<1>3. TypeOK'
  BY <1>1, <1>2 DEF TypeOK, Index, Entry, Receiver
<1>4. MapMatchesArena'
  BY <1>1, <1>2, TableAssumption
     DEF MapMatchesArena, EntryIndex, TypeOK, Index, Entry
<1>5. EntryHasReceiver'
  BY <1>1, <1>2 DEF EntryHasReceiver, EntryIndex, TypeOK
<1>6. GenTellsReuse'
  <2>1. [gen |-> gen, id |-> id] # Free
    BY <1>2, TableAssumption DEF Entry
  <2>2. \A q \in Slots : arena'[q] # Free => arena'[q].gen <= gen'
    BY <1>1, <1>2 DEF GenTellsReuse, TypeOK
  <2>3. ASSUME NEW r \in live'
        PROVE  /\ r.index.gen <= gen'
               /\ r.index.gen = gen' => Holds(r.index)'
    <3>1. CASE r \in live
      BY <1>1, <1>2, <3>1 DEF GenTellsReuse, Holds, TypeOK, Receiver, Index
    <3>2. CASE r = [index |-> [slot |-> s, gen |-> gen], id |-> id]
      BY <1>1, <1>2, <2>1, <3>2 DEF Holds, TypeOK
    <3>3. QED BY <1>1, <3>1, <3>2
  <2>4. QED BY <2>2, <2>3 DEF GenTellsReuse
<1>7. QED BY <1>3, <1>4, <1>5, <1>6

\* Dropping a receiver, registered or stale, keeps the inductive invariant.
LEMMA DropInv ==
    ASSUME TableInv, NEW r \in live, Drop(r)
    PROVE  TableInv'
<1> USE DEF TableInv
<1>1. r.index \in Index /\ r.index.slot \in Slots /\ live' = live \ {r}
  BY DEF Drop, TypeOK, Receiver, Index
<1>2. CASE Holds(r.index)
  <2> DEFINE s == r.index.slot
             e == arena[s].id
  <2>1. /\ idMap' = [idMap EXCEPT ![e] = NoIndex]
        /\ arena' = [arena EXCEPT ![s] = Free]
        /\ gen' = gen + 1
    BY <1>2 DEF Drop, ArenaRemove
  <2>2. e \in Ids /\ arena[s] # Free /\ r.index = EntryIndex(s) /\ idMap[e] = EntryIndex(s)
    BY <1>1, <1>2, HeldIndex DEF Holds, TypeOK, Entry, MapMatchesArena
  <2>3. TypeOK'
    BY <1>1, <2>1, <2>2 DEF TypeOK
  <2>4. MapMatchesArena'
    BY <2>1, <2>2, <1>1, TableAssumption, SMTT(30)
    DEF MapMatchesArena, EntryIndex, TypeOK, Entry, Index
  <2>5. EntryHasReceiver'
    BY <1>1, <2>1, <2>2 DEF EntryHasReceiver, EntryIndex, TypeOK
  <2>6. GenTellsReuse'
    BY <1>1, <2>1, <2>2 DEF GenTellsReuse, TypeOK, Entry, Gens, Receiver, Index
  <2>7. QED BY <2>3, <2>4, <2>5, <2>6
<1>3. CASE ~Holds(r.index)
  <2>1. UNCHANGED <<idMap, arena, gen>>
    BY <1>3 DEF Drop
  <2>2. TypeOK' /\ MapMatchesArena'
    BY <1>1, <2>1 DEF TypeOK, MapMatchesArena, EntryIndex
  <2>3. EntryHasReceiver'
    BY <1>1, <1>3, <2>1 DEF EntryHasReceiver, EntryIndex, Holds
  <2>4. GenTellsReuse'
    BY <1>1, <2>1 DEF GenTellsReuse, Holds
  <2>5. QED BY <2>2, <2>3, <2>4
<1>4. QED BY <1>2, <1>3

\* take_status keeps the inductive invariant; its arena entry is always there.
LEMMA TakeInv ==
    ASSUME TableInv, NEW id \in Ids, Take(id)
    PROVE  TableInv'
<1> USE DEF TableInv
<1> DEFINE s == idMap[id].slot
<1>1. /\ idMap[id] \in Index
      /\ s \in Slots
      /\ arena[s] = [gen |-> idMap[id].gen, id |-> id]
  BY DEF Take, TypeOK, Index, MapMatchesArena
<1>2. idMap[id].gen \in Gens /\ arena[s] # Free
  BY <1>1, TableAssumption DEF Index, Entry
<1>3. Holds(idMap[id])
  BY <1>1, <1>2 DEF Holds
<1>4. /\ idMap' = [idMap EXCEPT ![id] = NoIndex]
      /\ arena' = [arena EXCEPT ![s] = Free]
      /\ gen' = gen + 1
      /\ live' = live
  BY <1>3 DEF Take, ArenaRemove
<1>5. TypeOK'
  BY <1>1, <1>4 DEF TypeOK
<1>6. MapMatchesArena'
  BY <1>1, <1>2, <1>4, TableAssumption DEF MapMatchesArena, EntryIndex, TypeOK, Index, Entry
<1>7. EntryHasReceiver'
  BY <1>4 DEF EntryHasReceiver, EntryIndex, TypeOK
<1>8. GenTellsReuse'
  BY <1>1, <1>4 DEF GenTellsReuse, TypeOK, Entry, Gens, Receiver, Index
<1>9. QED BY <1>5, <1>6, <1>7, <1>8

\* Every step of the table keeps the inductive invariant.
LEMMA StepInv == TableInv /\ [Next]_vars => TableInv'
<1> SUFFICES ASSUME TableInv, [Next]_vars PROVE TableInv'
  OBVIOUS
<1>1. ASSUME NEW id \in Ids, Insert(id) PROVE TableInv'
  BY <1>1, InsertInv
<1>2. ASSUME NEW id \in Ids, Take(id) PROVE TableInv'
  BY <1>2, TakeInv
<1>3. ASSUME NEW r \in live, Drop(r) PROVE TableInv'
  BY <1>3, DropInv
<1>4. CASE UNCHANGED vars
  BY <1>4 DEF vars, TableInv, TypeOK, MapMatchesArena, EntryHasReceiver,
              GenTellsReuse, EntryIndex, Holds
<1>5. QED BY <1>1, <1>2, <1>3, <1>4 DEF Next

\* The map, the arena and the receivers alive agree in every reachable state of
\* a Router table, whatever the ids and the size of the arena.
THEOREM TableInvariant == Spec => []TableInv
BY InitInv, StepInv, PTL DEF Spec

\* Type correctness of the Router table.
THEOREM TypeCorrect == Spec => []TypeOK
<1>1. TableInv => TypeOK
  BY DEF TableInv
<1>2. QED BY <1>1, TableInvariant, PTL

\* remove_channel and remove_status never panic with "corrupt internal status".
THEOREM ExpectNeverFires == Spec => []NoCorruptStatus
<1>1. TableInv => NoCorruptStatus
  <2> SUFFICES ASSUME TableInv, NEW r \in live, Holds(r.index)
               PROVE  idMap[arena[r.index.slot].id] # NoIndex
    BY DEF NoCorruptStatus
  <2>1. r.index.slot \in Slots /\ arena[r.index.slot] # Free
    BY DEF TableInv, TypeOK, Receiver, Index, Holds
  <2>2. EntryIndex(r.index.slot) \in Index
    BY <2>1 DEF TableInv, TypeOK, Entry, EntryIndex, Index
  <2>3. QED BY <2>1, <2>2, TableAssumption DEF TableInv, MapMatchesArena
<1>2. QED BY <1>1, TableInvariant, PTL

\* A lookup by id (get_channel, take_status) reaches a receiver that is alive and
\* was handed out for that id.
THEOREM LookupIsSound == Spec => []LookupFindsOwner
<1>1. TableInv => LookupFindsOwner
  <2> SUFFICES ASSUME TableInv, NEW id \in Ids, idMap[id] # NoIndex
               PROVE  /\ Holds(idMap[id])
                      /\ [index |-> idMap[id], id |-> id] \in live
    BY DEF LookupFindsOwner
  <2>1. /\ idMap[id] \in Index
        /\ arena[idMap[id].slot] = [gen |-> idMap[id].gen, id |-> id]
    BY DEF TableInv, TypeOK, MapMatchesArena
  <2>2. idMap[id].slot \in Slots /\ arena[idMap[id].slot] # Free
    BY <2>1, TableAssumption DEF Index, Entry
  <2>3. EntryIndex(idMap[id].slot) = idMap[id]
    BY <2>1 DEF EntryIndex, Index
  <2>4. QED BY <2>1, <2>2, <2>3 DEF TableInv, EntryHasReceiver, Holds
<1>2. QED BY <1>1, TableInvariant, PTL

-----------------------------------------------------------------------------
\* A step of the table is a step of the promise.
LEMMA StepRefines == TableInv /\ [Next]_vars => [Promise!Next]_(Promise!vars)
<1> SUFFICES ASSUME TableInv, [Next]_vars PROVE [Promise!Next]_(Promise!vars)
  OBVIOUS
<1> USE DEF TableInv
<1>1. ASSUME NEW id \in Ids, Insert(id) PROVE Promise!Next
  <2>1. PICK s \in Slots :
          /\ arena[s] = Free
          /\ idMap' = [idMap EXCEPT ![id] = [slot |-> s, gen |-> gen]]
          /\ live' = live \cup {[index |-> [slot |-> s, gen |-> gen], id |-> id]}
    BY <1>1 DEF Insert
  <2>2. [slot |-> s, gen |-> gen] \in Index
    BY <1>1, TableAssumption DEF Insert, Index, Gens, TypeOK
  <2>3. \A r \in live : r.index # [slot |-> s, gen |-> gen]
    BY <2>1, FreshIndex
  <2>4. Promise!Register(id, [slot |-> s, gen |-> gen])
    BY <1>1, <2>1, <2>3 DEF Insert, Promise!Register
  <2>5. QED BY <2>2, <2>4 DEF Promise!Next
<1>2. ASSUME NEW id \in Ids, Take(id) PROVE Promise!Next
  <2>1. Promise!Consume(id)
    BY <1>2 DEF Take, Promise!Consume
  <2>2. QED BY <2>1 DEF Promise!Next
<1>3. ASSUME NEW r \in live, Drop(r) PROVE Promise!Next
  <2>1. r.index \in Index /\ r.index.slot \in Slots /\ r.index # NoIndex
    BY TableAssumption DEF TypeOK, Receiver, Index
  <2>2. CASE Holds(r.index)
    <3> DEFINE e == arena[r.index.slot].id
    <3>1. e \in Ids /\ idMap[e] = r.index /\ idMap' = [idMap EXCEPT ![e] = NoIndex]
      BY <1>3, <2>1, <2>2, HeldIndex
         DEF Drop, Holds, TypeOK, Entry, MapMatchesArena
    <3>2. \A id \in Ids : idMap[id] = r.index => id = e
      <4> SUFFICES ASSUME NEW id \in Ids, idMap[id] = r.index PROVE id = e
        OBVIOUS
      <4>1. arena[r.index.slot] = [gen |-> r.index.gen, id |-> id]
        BY <2>1 DEF MapMatchesArena
      <4>2. QED BY <4>1
    <3>3. idMap' = [id \in Ids |-> IF idMap[id] = r.index THEN NoIndex ELSE idMap[id]]
      BY <3>1, <3>2 DEF TypeOK
    <3>4. QED BY <1>3, <3>3 DEF Drop, Promise!Release, Promise!Next
  <2>3. CASE ~Holds(r.index)
    <3>1. \A id \in Ids : idMap[id] # r.index
      <4> SUFFICES ASSUME NEW id \in Ids, idMap[id] = r.index PROVE FALSE
        OBVIOUS
      <4>1. arena[r.index.slot] = [gen |-> r.index.gen, id |-> id]
        BY <2>1 DEF MapMatchesArena
      <4>2. arena[r.index.slot] # Free
        BY <2>1, <4>1, TableAssumption DEF Index, Entry
      <4>3. QED BY <2>3, <4>1, <4>2 DEF Holds
    <3>2. idMap' = [id \in Ids |-> IF idMap[id] = r.index THEN NoIndex ELSE idMap[id]]
      BY <1>3, <2>3, <3>1 DEF Drop, TypeOK
    <3>3. QED BY <1>3, <3>2 DEF Drop, Promise!Release, Promise!Next
  <2>4. QED BY <2>2, <2>3
<1>4. CASE UNCHANGED vars
  BY <1>4 DEF vars, Promise!vars
<1>5. QED BY <1>1, <1>2, <1>3, <1>4 DEF Next

\* The id map and arena of src/router.rs implement the promise of Leases: a
\* receiver ends its own registration when dropped and never anybody else's.
THEOREM Refinement == Spec => ImplementsLeases
<1>1. Init => Promise!Init
  BY DEF Init, Promise!Init
<1>2. QED
  BY <1>1, StepRefines, TableInvariant, PTL DEF Spec, ImplementsLeases, Promise!Spec
=============================================================================
