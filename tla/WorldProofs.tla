---------------------------- MODULE WorldProofs ----------------------------
(***************************************************************************)
(* The table of entities is sound, and a tick reaches the entity it tells  *)
(* of, for any entities and any length of the slice that is enough for     *)
(* them: TableSound and TicksReach of World are invariants.                *)
(*                                                                         *)
(* The inductive invariant has three layers, as the code keeps fewer       *)
(* promises the more its threads got in each other's way.  Types hold      *)
(* always: whatever overlaps, nothing is added twice, so that the slice    *)
(* has room (Room).  Table holds until two changes of the table overlap:   *)
(* what is being written lies behind the last item (Written), the items,   *)
(* with the one that is being removed, are those that should be there,     *)
(* each once (Once, Complete, Right), and the indices that map.update      *)
(* marked are those of finished items, in order (Marked), which is why     *)
(* removing them from the last to the first removes the right ones.        *)
(* Ticks hold until an item was moved or removed under a tick as well.     *)
(***************************************************************************)
EXTENDS World, FiniteSetTheorems, SequenceTheorems, WellFoundedInduction, TLAPS

AddLabel == {"write", "load", "store"}
NetLabel == {"idle", "dispose", "tick lock", "tick place", "tick stats"} \cup AddLabel
WinLabel == {"idle", "dispose", "update", "step", "store remove", "move"} \cup AddLabel

\* How many additions are under way, and how many items there are with the
\* one that is being removed.
Pending == (IF Adding("net") THEN 1 ELSE 0) + (IF Adding("win") THEN 1 ELSE 0)
Count == IF pc["win"] = "move" THEN capacity + 1 ELSE capacity

\* The labels of the two threads, and what they entail.
Labels ==
  /\ pc["net"] \in NetLabel /\ pc["win"] \in WinLabel
  /\ locked = "no" <=> pc["win"] \in {"idle", "dispose"}
  /\ pc["win"] \in {"update", "step", "store remove", "move"} => locked = "update"
  /\ \A t \in Thread : Adding(t) => entity[t] \in Entity
  /\ Ticking => ref # 0 /\ entity["net"] \in Objects
  /\ (locked = "update" /\ Adding("win")) \/ pc["win"] = "step" => cursor <= bound
  /\ locked # "update" => doomed = <<>>
  /\ pc["win"] \in {"store remove", "move"} => doomed # <<>> /\ cursor > bound

\* The slice has room for whatever is added: nothing is added twice.
Room ==
  /\ capacity + Pending <= Cardinality(added)
  /\ \A t \in Thread : loaded[t] + Pending <= Cardinality(added)

Types == TypeOK /\ Labels /\ Room

\* What an addition has written, behind the last item.
Written ==
  \A t \in Thread :
    /\ Adding(t) => entity[t] \in Present
    /\ pc[t] \in {"load", "store"} => slot[capacity + 1] = entity[t]
    /\ pc[t] = "store" => loaded[t] = capacity

\* The items are those that should be there, each once.
Disposing == pc["net"] = "dispose" \/ pc["win"] = "dispose"
Added(e) == \E t \in Thread : Adding(t) /\ entity[t] = e
Once == \A i, j \in 1..Count : slot[i] = slot[j] => i = j
Complete == ~Disposing => \A e \in Entity : e \in Present /\ ~Added(e) => \E i \in 1..Count : slot[i] = e
Right == ~Disposing => \A i \in 1..Count : slot[i] \in Present /\ ~Added(slot[i])
Emptied == Disposing => Present = {} /\ \A i \in 1..Count : slot[i] \in Entity

\* What was disposed of or dropped had been added.
Disposed ==
  /\ gone \subseteq added
  /\ \A e \in Entity : freed[e] <= 1 /\ (freed[e] = 1 => e \in added /\ e \in gone \cup finished)

\* The indices that are marked are those of finished items, in order.
Marked ==
  /\ \A k \in 1..Len(doomed) :
       doomed[k] \in 1..Count /\ doomed[k] < cursor /\ slot[doomed[k]] \in finished
  /\ \A j, k \in 1..Len(doomed) : j < k => doomed[j] < doomed[k]
  /\ locked = "update" /\ cursor <= bound => bound <= capacity
  /\ pc["win"] = "store remove" => loaded["win"] = capacity

Table == ~Overlap /\ Written /\ Once /\ Complete /\ Right /\ Emptied /\ Disposed /\ Marked

\* The tick and the locks.
Ticks ==
  /\ Ticking => ref <= capacity /\ slot[ref] = entity["net"]
  /\ \A i \in 1..Count : latch[i] <=> pc["net"] = "tick place" /\ i = ref
  /\ \A t \in Thread : pc[t] \in {"load", "store"} => ~latch[capacity + 1]

IInv ==
  /\ Types
  /\ ~overlapped => Table
  /\ ~overlapped /\ ~shifted => Ticks
  /\ UnderflowNeedsOverlap

-----------------------------------------------------------------------------
(* Numbers, indices and items. *)

\* A set of numbers that is not empty has a least one.
LEMMA LeastNat ==
  ASSUME NEW T, T \subseteq Nat, T # {}
  PROVE  \E m \in T : \A n \in T : m <= n
<1>1. PICK m \in T : \A n \in T : ~(<<n, m>> \in OpToRel(<, Nat))
  BY NatLessThanWellFounded, WFMin
<1>2. ASSUME NEW n \in T PROVE m <= n
  <2>1. m \in Nat /\ n \in Nat
    OBVIOUS
  <2>2. ~(<<n, m>> \in OpToRel(<, Nat))
    BY <1>1
  <2>3. ~(n < m)
    BY <2>1, <2>2 DEF OpToRel
  <2> QED
    BY <2>1, <2>3
<1> QED
  BY <1>2

\* The counters are numbers, and within the slice.
LEMMA Numbers ==
  ASSUME TypeOK
  PROVE  /\ Slots \in Nat /\ capacity \in Nat /\ capacity <= Slots /\ ref \in Nat /\ ref <= Slots
         /\ cursor \in Nat /\ 1 <= cursor /\ bound \in Nat /\ bound <= Slots
         /\ \A t \in Thread : loaded[t] \in Nat /\ loaded[t] <= Slots
         /\ \A e \in Entity : freed[e] \in Nat
<1>1. /\ capacity \in 0..Slots /\ ref \in 0..Slots /\ cursor \in 1 .. Slots + 1 /\ bound \in 0..Slots
      /\ loaded \in [Thread -> 0..Slots]
  BY DEF TypeOK
<1>2. Slots \in Nat
  BY WorldAssumption
<1>3. \A e \in Entity : freed[e] \in Nat
  BY DEF TypeOK
<1> QED
  BY <1>1, <1>2, <1>3

\* DynSlice.items: the items are what is in the slots up to capacity.
LEMMA ItemsAre ==
  ASSUME TypeOK
  PROVE  Range(Items) = {slot[i] : i \in 1..capacity}
<1>1. slot \in Seq(Entity \cup {Nothing}) /\ Len(slot) = Slots
  <2>1. slot \in [1..Slots -> Entity \cup {Nothing}] /\ Slots \in Nat
    BY Numbers DEF TypeOK
  <2> QED
    BY <2>1
<1>2. capacity \in Nat /\ capacity <= Slots
  BY Numbers
<1>3. /\ Items \in Seq(Entity \cup {Nothing})
      /\ Len(Items) = IF 1 <= capacity THEN capacity - 1 + 1 ELSE 0
      /\ \A i \in 1 .. capacity - 1 + 1 : Items[i] = slot[1 + i - 1]
  BY <1>1, <1>2, SubSeqProperties DEF Items
<1>4. DOMAIN Items = 1..capacity /\ \A i \in 1..capacity : Items[i] = slot[i]
  BY <1>2, <1>3
<1> QED
  BY <1>4 DEF Range

\* Present, with the count of disposals at 0.
LEMMA PresentAre ==
  ASSUME TypeOK
  PROVE  \A e : e \in Present <=> e \in added /\ e \notin gone /\ freed[e] = 0
<1>1. \A e \in Entity : freed[e] \in Nat /\ (freed[e] > 0 <=> freed[e] # 0)
  BY Numbers
<1>2. added \subseteq Entity
  BY DEF TypeOK
<1> QED
  BY <1>1, <1>2 DEF Present

\* What removeEntity and findEntityRef find.
LEMMA FirstFound ==
  ASSUME TypeOK, NEW e \in Range(Items)
  PROVE  LET i == CHOOSE i \in 1..capacity : slot[i] = e /\ \A j \in 1 .. i - 1 : slot[j] # e
         IN  i \in 1..capacity /\ slot[i] = e
<1> DEFINE T == {i \in 1..capacity : slot[i] = e}
<1>1. capacity \in Nat
  BY Numbers
<1>2. T \subseteq Nat /\ T # {}
  BY <1>1, ItemsAre
<1>3. PICK m \in T : \A n \in T : m <= n
  BY <1>2, LeastNat
<1>4. m \in 1..capacity /\ slot[m] = e
  OBVIOUS
<1>5. \A j \in 1 .. m - 1 : slot[j] # e
  <2> SUFFICES ASSUME NEW j \in 1 .. m - 1, slot[j] = e
               PROVE  FALSE
    OBVIOUS
  <2>1. j \in T
    BY <1>1, <1>4
  <2>2. m <= j
    BY <1>3, <2>1
  <2> QED
    BY <1>1, <1>4, <2>2
<1>6. \E i \in 1..capacity : slot[i] = e /\ \A j \in 1 .. i - 1 : slot[j] # e
  BY <1>4, <1>5
<1> QED
  BY <1>6

\* The slice never fills: there are fewer entities than slots.
LEMMA RoomLeft ==
  ASSUME TypeOK, Room
  PROVE  /\ Cardinality(added) \in Nat /\ Cardinality(added) < Slots /\ Slots \in Nat
         /\ Pending \in Nat /\ capacity \in Nat /\ \A t \in Thread : loaded[t] \in Nat
         /\ \A t \in Thread : Adding(t) => 1 <= Pending
         /\ capacity < Slots /\ \A t \in Thread : loaded[t] < Slots
<1>1. Slots \in Nat
  BY WorldAssumption
<1>2. Cardinality(added) \in Nat /\ Cardinality(added) < Slots
  <2>1. IsFiniteSet(Entity) /\ added \in SUBSET Entity /\ Cardinality(Entity) < Slots
    BY WorldAssumption DEF TypeOK
  <2>2. IsFiniteSet(added) /\ Cardinality(added) <= Cardinality(Entity)
    BY <2>1, FS_Subset
  <2>3. Cardinality(added) \in Nat /\ Cardinality(Entity) \in Nat
    BY <2>1, <2>2, FS_CardinalityType
  <2> QED
    BY <1>1, <2>1, <2>2, <2>3
<1>3. Pending \in Nat /\ \A t \in Thread : Adding(t) => 1 <= Pending
  BY DEF Pending, Thread
<1>4. capacity \in Nat /\ \A t \in Thread : loaded[t] \in Nat
  BY Numbers
<1>5. capacity < Slots
  BY <1>1, <1>2, <1>3, <1>4 DEF Room
<1>6. ASSUME NEW t \in Thread PROVE loaded[t] < Slots
  BY <1>1, <1>2, <1>3, <1>4 DEF Room
<1> QED
  BY <1>1, <1>2, <1>3, <1>4, <1>5, <1>6

\* One entity more has been added.
LEMMA RoomForOne ==
  ASSUME TypeOK, Room, NEW e \in Entity, e \notin added
  PROVE  Cardinality(added \cup {e}) = Cardinality(added) + 1
<1>1. IsFiniteSet(added)
  BY WorldAssumption, FS_Subset DEF TypeOK
<1> QED
  BY <1>1, FS_AddElement

\* The last of the marked indices, and what is left of them.
LEMMA LastFront ==
  ASSUME NEW S, NEW s \in Seq(S), s # <<>>
  PROVE  /\ Len(s) \in Nat /\ Len(s) # 0 /\ Last(s) = s[Len(s)] /\ Last(s) \in S
         /\ Front(s) \in Seq(S) /\ Len(Front(s)) = Len(s) - 1
         /\ \A i \in 1 .. Len(s) - 1 : Front(s)[i] = s[i]
<1>1. Len(s) \in Nat /\ Len(s) # 0 /\ s[Len(s)] \in S
  OBVIOUS
<1>2. 1 \in 1 .. Len(s) + 1 /\ Len(s) - 1 \in 1 - 1 .. Len(s)
  BY <1>1
<1>3. /\ SubSeq(s, 1, Len(s) - 1) \in Seq(S)
      /\ Len(SubSeq(s, 1, Len(s) - 1)) = IF 1 <= Len(s) - 1 THEN Len(s) - 1 - 1 + 1 ELSE 0
      /\ \A i \in 1 .. Len(s) - 1 - 1 + 1 : SubSeq(s, 1, Len(s) - 1)[i] = s[1 + i - 1]
  BY <1>1, <1>2, SubSeqProperties
<1>4. ASSUME NEW i \in 1 .. Len(s) - 1
      PROVE  SubSeq(s, 1, Len(s) - 1)[i] = s[i]
  <2>1. i \in 1 .. Len(s) - 1 - 1 + 1 /\ 1 + i - 1 = i
    BY <1>1
  <2> QED
    BY <1>3, <2>1
<1>5. Len(SubSeq(s, 1, Len(s) - 1)) = Len(s) - 1
  <2>1. \A n \in Nat : n # 0 => (IF 1 <= n - 1 THEN n - 1 - 1 + 1 ELSE 0) = n - 1
    OBVIOUS
  <2> QED
    BY <1>1, <1>3, <2>1
<1> QED
  BY <1>1, <1>3, <1>4, <1>5 DEF Last, Front

\* disposeEntity counts.
LEMMA FreeEffect ==
  ASSUME TypeOK, NEW S, Free(S)
  PROVE  /\ freed' \in [Entity -> Nat]
         /\ \A e \in Entity : freed'[e] = IF e \in S THEN freed[e] + 1 ELSE freed[e]
<1>1. \A e \in Entity : freed[e] \in Nat
  BY Numbers
<1> QED
  BY <1>1 DEF Free

-----------------------------------------------------------------------------
(* Every action keeps the types, the labels and the room. *)

LEMMA WriteTypes ==
  ASSUME Types, NEW t \in Thread, Write(t), overlapped' \in BOOLEAN
  PROVE  Types'
<1>1. TypeOK'
  BY WorldAssumption DEF Write, Types, TypeOK, history, table, tick, loop, Goto, Shifts, Entity, Thread
<1>2. Labels'
  BY WorldAssumption DEF Write, Types, Labels, TypeOK, history, table, tick, loop, Goto, Thread, Adding, Ticking, Shifts, AddLabel, NetLabel, WinLabel
<1>3. Room'
  BY WorldAssumption DEF Write, Types, Room, Pending, Adding, Goto, Thread, TypeOK, Labels, history, table, tick, loop, Free, Shifts
<1> QED
  BY <1>1, <1>2, <1>3 DEF Types

LEMMA LoadTypes ==
  ASSUME Types, NEW t \in Thread, Load(t), overlapped' \in BOOLEAN
  PROVE  Types'
<1>1. TypeOK'
  BY WorldAssumption DEF Load, Types, TypeOK, history, table, tick, loop, Goto, Shifts, Entity, Thread
<1>2. Labels'
  BY WorldAssumption DEF Load, Types, Labels, TypeOK, history, table, tick, loop, Goto, Thread, Adding, Ticking, Shifts, AddLabel, NetLabel, WinLabel
<1>3. Room'
  BY WorldAssumption DEF Load, Types, Room, Pending, Adding, Goto, Thread, TypeOK, Labels, history, table, tick, loop, Free, Shifts
<1> QED
  BY <1>1, <1>2, <1>3 DEF Types

LEMMA StoreTypes ==
  ASSUME Types, NEW t \in Thread, Store(t), overlapped' \in BOOLEAN
  PROVE  Types'
<1>1. TypeOK'
  <2>1. loaded[t] + 1 \in 0..Slots /\ 0 \in 0..Slots
    BY Numbers, RoomLeft DEF Types
  <2> QED
    BY <2>1 DEF Store, Types, TypeOK, history, table, tick, loop, Goto, Shifts, Entity, Thread
<1>2. Labels'
  BY WorldAssumption, ZenonT(60) DEF Store, Types, Labels, TypeOK, history, table, tick, loop, Goto, Thread, Adding, Ticking, Shifts, AddLabel, NetLabel, WinLabel
<1>3. Room'
  <2>1. loaded[t] \in Nat /\ Pending \in Nat /\ Pending' = Pending - 1
    <3>1. pc[t] = "store" /\ pc'[t] \in {"update", "idle"} /\ \A u \in Thread \ {t} : pc'[u] = pc[u]
      BY DEF Store, Goto, Types, TypeOK
    <3>2. Pending' = Pending - 1
      BY <3>1 DEF Pending, Adding, Thread
    <3> QED
      BY <3>2, RoomLeft DEF Types
  <2>2. Cardinality(added) \in Nat /\ \A u \in Thread : loaded[u] \in Nat
    BY RoomLeft DEF Types
  <2>3. added' = added /\ capacity' = loaded[t] + 1 /\ \A u \in Thread : loaded'[u] = IF u = t THEN 0 ELSE loaded[u]
    BY DEF Store, history, Types, TypeOK
  <2> QED
    BY <2>1, <2>2, <2>3 DEF Room, Types
<1> QED
  BY <1>1, <1>2, <1>3 DEF Types

LEMMA DisposeTypes ==
  ASSUME Types, NEW t \in Thread, Dispose(t), overlapped' \in BOOLEAN
  PROVE  Types'
<1>1. TypeOK'
  <2>1. freed' \in [Entity -> Nat]
    BY FreeEffect DEF Types, Dispose
  <2>2. gone' \subseteq Entity \cup {Nothing}
    <3>1. Range(Items) \subseteq Entity \cup {Nothing}
      <4>1. \A i \in 1..capacity : i \in 1..Slots
        BY Numbers DEF Types
      <4>2. slot \in [1..Slots -> Entity \cup {Nothing}]
        BY DEF Types, TypeOK
      <4> QED
        BY <4>1, <4>2, ItemsAre DEF Types
    <3> QED
      BY <3>1 DEF Types, TypeOK, Dispose
  <2> QED
    BY <2>1, <2>2 DEF Dispose, Types, TypeOK, history, table, tick, loop, Goto, Shifts, Entity, Thread
<1>2. Labels'
  BY WorldAssumption DEF Dispose, Types, Labels, TypeOK, history, table, tick, loop, Goto, Thread, Adding, Ticking, Shifts, AddLabel, NetLabel, WinLabel
<1>3. Room'
  BY WorldAssumption DEF Dispose, Types, Room, Pending, Adding, Goto, Thread, TypeOK, Labels, history, table, tick, loop, Free, Shifts
<1> QED
  BY <1>1, <1>2, <1>3 DEF Types

LEMMA ClearTypes ==
  ASSUME Types, NEW t \in Thread, Clear(t), overlapped' \in BOOLEAN
  PROVE  Types'
<1>1. TypeOK'
  <2>1. 0 \in 0..Slots
    BY Numbers DEF Types
  <2> QED
    BY <2>1 DEF Clear, Types, TypeOK, history, table, tick, loop, Goto, Shifts, Entity, Thread
<1>2. Labels'
  BY WorldAssumption DEF Clear, Types, Labels, TypeOK, history, table, tick, loop, Goto, Thread, Adding, Ticking, Shifts, AddLabel, NetLabel, WinLabel
<1>3. Room'
  <2>1. Pending' = Pending /\ added' = added /\ capacity' = 0 /\ loaded' = loaded
    BY DEF Clear, history, Types, TypeOK, Pending, Adding, Goto, Thread
  <2>2. capacity \in Nat /\ Pending \in Nat /\ Cardinality(added) \in Nat
    BY RoomLeft DEF Types
  <2> QED
    BY <2>1, <2>2 DEF Room, Types
<1> QED
  BY <1>1, <1>2, <1>3 DEF Types

LEMMA NewEntityTypes ==
  ASSUME Types, NEW e \in Entity, NewEntity(e), overlapped' \in BOOLEAN
  PROVE  Types'
<1>1. TypeOK'
  BY WorldAssumption DEF NewEntity, AddToMap, Types, TypeOK, history, table, tick, loop, Goto, Shifts, Entity, Thread
<1>2. Labels'
  BY WorldAssumption DEF NewEntity, AddToMap, Types, Labels, TypeOK, history, table, tick, loop, Goto, Thread, Adding, Ticking, Shifts, AddLabel, NetLabel, WinLabel
<1>3. Room'
  <2>1. e \notin added /\ added' = added \cup {e} /\ capacity' = capacity /\ loaded' = loaded
    BY DEF NewEntity, AddToMap, table
  <2>2. Cardinality(added') = Cardinality(added) + 1
    BY <2>1, RoomForOne DEF Types
  <2>3. Pending' = Pending + 1
    <3>1. pc["net"] = "idle" /\ pc'["net"] = "write" /\ pc'["win"] = pc["win"]
      BY DEF NewEntity, AddToMap, Goto, Types, TypeOK, Thread
    <3> QED
      BY <3>1 DEF Pending, Adding, Thread
  <2>4. /\ capacity \in Nat /\ Pending \in Nat /\ Cardinality(added) \in Nat
        /\ \A u \in Thread : loaded[u] \in Nat
    BY RoomLeft DEF Types
  <2>5. Room
    BY DEF Types
  <2>6. ASSUME NEW u \in Thread PROVE loaded'[u] + Pending' <= Cardinality(added')
    BY <2>1, <2>2, <2>3, <2>4, <2>5 DEF Room
  <2>7. capacity' + Pending' <= Cardinality(added')
    BY <2>1, <2>2, <2>3, <2>4, <2>5 DEF Room
  <2> QED
    BY <2>6, <2>7 DEF Room
<1> QED
  BY <1>1, <1>2, <1>3 DEF Types

LEMMA FindEntityTypes ==
  ASSUME Types, NEW e \in Entity, FindEntity(e), overlapped' \in BOOLEAN
  PROVE  Types'
<1>1. TypeOK'
  <2>1. ref' \in 0..Slots
    <3>1. /\ e \in Range(Items)
          /\ ref' = CHOOSE i \in 1..capacity : slot[i] = e /\ \A j \in 1 .. i - 1 : slot[j] # e
      BY DEF FindEntity
    <3>2. ref' \in 1..capacity
      BY <3>1, FirstFound DEF Types
    <3> QED
      BY <3>2, Numbers DEF Types
  <2> QED
    BY <2>1 DEF FindEntity, Types, TypeOK, history, table, tick, loop, Goto, Shifts, Entity, Thread
<1>2. Labels'
  <2>1. /\ e \in Range(Items) /\ e \in Objects
        /\ ref' = CHOOSE i \in 1..capacity : slot[i] = e /\ \A j \in 1 .. i - 1 : slot[j] # e
    BY DEF FindEntity
  <2>2. ref' # 0
    <3>1. ref' \in 1..capacity
      BY <2>1, FirstFound DEF Types
    <3> QED
      BY <3>1, Numbers DEF Types
  <2>3. entity'["net"] = e /\ \A t \in Thread \ {"net"} : entity'[t] = entity[t]
    BY DEF FindEntity, Types, TypeOK, Thread
  <2>4. /\ pc'["net"] \in {"tick lock", "tick stats"} /\ pc'["win"] = pc["win"]
        /\ UNCHANGED <<locked, cursor, bound, doomed>>
    BY DEF FindEntity, Types, TypeOK, Goto, Thread, loop
  <2> QED
    BY <2>1, <2>2, <2>3, <2>4 DEF Labels, Types, Adding, Ticking, AddLabel, NetLabel, WinLabel, Thread
<1>3. Room'
  BY WorldAssumption DEF FindEntity, Types, Room, Pending, Adding, Goto, Thread, TypeOK, Labels, history, table, tick, loop, Free, Shifts
<1> QED
  BY <1>1, <1>2, <1>3 DEF Types

LEMMA ShootTypes ==
  ASSUME Types, NEW e \in Entity, Shoot(e), overlapped' \in BOOLEAN
  PROVE  Types'
<1>1. TypeOK'
  BY WorldAssumption DEF Shoot, AddToMap, Types, TypeOK, history, table, tick, loop, Goto, Shifts, Entity, Thread
<1>2. Labels'
  BY WorldAssumption DEF Shoot, AddToMap, Types, Labels, TypeOK, history, table, tick, loop, Goto, Thread, Adding, Ticking, Shifts, AddLabel, NetLabel, WinLabel
<1>3. Room'
  <2>1. e \notin added /\ added' = added \cup {e} /\ capacity' = capacity /\ loaded' = loaded
    BY DEF Shoot, AddToMap, table
  <2>2. Cardinality(added') = Cardinality(added) + 1
    BY <2>1, RoomForOne DEF Types
  <2>3. Pending' = Pending + 1
    <3>1. pc["win"] = "idle" /\ pc'["win"] = "write" /\ pc'["net"] = pc["net"]
      BY DEF Shoot, AddToMap, Goto, Types, TypeOK, Thread
    <3> QED
      BY <3>1 DEF Pending, Adding, Thread
  <2>4. /\ capacity \in Nat /\ Pending \in Nat /\ Cardinality(added) \in Nat
        /\ \A u \in Thread : loaded[u] \in Nat
    BY RoomLeft DEF Types
  <2>5. Room
    BY DEF Types
  <2>6. ASSUME NEW u \in Thread PROVE loaded'[u] + Pending' <= Cardinality(added')
    BY <2>1, <2>2, <2>3, <2>4, <2>5 DEF Room
  <2>7. capacity' + Pending' <= Cardinality(added')
    BY <2>1, <2>2, <2>3, <2>4, <2>5 DEF Room
  <2> QED
    BY <2>6, <2>7 DEF Room
<1> QED
  BY <1>1, <1>2, <1>3 DEF Types

LEMMA SpawnsTypes ==
  ASSUME Types, NEW e \in Entity, Spawns(e), overlapped' \in BOOLEAN
  PROVE  Types'
<1>1. TypeOK'
  BY WorldAssumption DEF Spawns, AddToMap, Types, TypeOK, history, table, tick, loop, Goto, Shifts, Entity, Thread
<1>2. Labels'
  BY WorldAssumption DEF Spawns, AddToMap, Types, Labels, TypeOK, history, table, tick, loop, Goto, Thread, Adding, Ticking, Shifts, AddLabel, NetLabel, WinLabel
<1>3. Room'
  <2>1. e \notin added /\ added' = added \cup {e} /\ capacity' = capacity /\ loaded' = loaded
    BY DEF Spawns, AddToMap, table
  <2>2. Cardinality(added') = Cardinality(added) + 1
    BY <2>1, RoomForOne DEF Types
  <2>3. Pending' = Pending + 1
    <3>1. pc["win"] = "update" /\ pc'["win"] = "write" /\ pc'["net"] = pc["net"]
      BY DEF Spawns, AddToMap, Goto, Types, TypeOK, Thread
    <3> QED
      BY <3>1 DEF Pending, Adding, Thread
  <2>4. /\ capacity \in Nat /\ Pending \in Nat /\ Cardinality(added) \in Nat
        /\ \A u \in Thread : loaded[u] \in Nat
    BY RoomLeft DEF Types
  <2>5. Room
    BY DEF Types
  <2>6. ASSUME NEW u \in Thread PROVE loaded'[u] + Pending' <= Cardinality(added')
    BY <2>1, <2>2, <2>3, <2>4, <2>5 DEF Room
  <2>7. capacity' + Pending' <= Cardinality(added')
    BY <2>1, <2>2, <2>3, <2>4, <2>5 DEF Room
  <2> QED
    BY <2>6, <2>7 DEF Room
<1> QED
  BY <1>1, <1>2, <1>3 DEF Types

LEMMA DropTypes ==
  ASSUME Types, NEW e \in Entity, Drop(e), overlapped' \in BOOLEAN
  PROVE  Types'
<1>1. TypeOK'
  <2>1. freed' \in [Entity -> Nat]
    <3>1. Free({e}) \/ UNCHANGED freed
      BY DEF Drop
    <3> QED
      BY <3>1, FreeEffect DEF Types, TypeOK
  <2>2. PICK i \in 1..capacity : /\ slot' = [slot EXCEPT ![i] = slot[capacity]]
                                 /\ latch' = [latch EXCEPT ![i] = latch[capacity]]
    BY FirstFound DEF Drop, Types
  <2>3. capacity - 1 \in 0..Slots /\ capacity \in 1..Slots
    BY <2>2, Numbers DEF Types
  <2>4. slot' \in [1..Slots -> Entity \cup {Nothing}] /\ latch' \in [1..Slots -> BOOLEAN]
    BY <2>2, <2>3 DEF Types, TypeOK
  <2> QED
    BY <2>1, <2>2, <2>3, <2>4 DEF Drop, Types, TypeOK, history, table, tick, loop, Goto, Shifts, Entity, Thread
<1>2. Labels'
  BY WorldAssumption DEF Drop, Types, Labels, TypeOK, history, table, tick, loop, Goto, Thread, Adding, Ticking, Shifts, AddLabel, NetLabel, WinLabel
<1>3. Room'
  <2>1. Pending' = Pending /\ added' = added /\ capacity' = capacity - 1 /\ loaded' = loaded
    BY DEF Drop, Pending, Adding
  <2>2. capacity \in Nat /\ Pending \in Nat /\ Cardinality(added) \in Nat
    BY RoomLeft DEF Types
  <2> QED
    BY <2>1, <2>2 DEF Room, Types
<1> QED
  BY <1>1, <1>2, <1>3 DEF Types

LEMMA TickLockTypes ==
  ASSUME Types, TickLock, overlapped' \in BOOLEAN
  PROVE  Types'
<1>1. TypeOK'
  BY WorldAssumption DEF TickLock, Types, TypeOK, history, table, tick, loop, Goto, Shifts, Entity, Thread
<1>2. Labels'
  BY WorldAssumption DEF TickLock, Types, Labels, TypeOK, history, table, tick, loop, Goto, Thread, Adding, Ticking, Shifts, AddLabel, NetLabel, WinLabel
<1>3. Room'
  BY WorldAssumption DEF TickLock, Types, Room, Pending, Adding, Goto, Thread, TypeOK, Labels, history, table, tick, loop, Free, Shifts
<1> QED
  BY <1>1, <1>2, <1>3 DEF Types

LEMMA TickUnlockTypes ==
  ASSUME Types, TickUnlock, overlapped' \in BOOLEAN
  PROVE  Types'
<1>1. TypeOK'
  BY WorldAssumption DEF TickUnlock, Types, TypeOK, history, table, tick, loop, Goto, Shifts, Entity, Thread
<1>2. Labels'
  BY WorldAssumption DEF TickUnlock, Types, Labels, TypeOK, history, table, tick, loop, Goto, Thread, Adding, Ticking, Shifts, AddLabel, NetLabel, WinLabel
<1>3. Room'
  BY WorldAssumption DEF TickUnlock, Types, Room, Pending, Adding, Goto, Thread, TypeOK, Labels, history, table, tick, loop, Free, Shifts
<1> QED
  BY <1>1, <1>2, <1>3 DEF Types

LEMMA TickStatsTypes ==
  ASSUME Types, TickStats, overlapped' \in BOOLEAN
  PROVE  Types'
<1>1. TypeOK'
  <2>1. 0 \in 0..Slots
    BY Numbers DEF Types
  <2> QED
    BY <2>1 DEF TickStats, Types, TypeOK, history, table, tick, loop, Goto, Shifts, Entity, Thread
<1>2. Labels'
  BY WorldAssumption DEF TickStats, Types, Labels, TypeOK, history, table, tick, loop, Goto, Thread, Adding, Ticking, Shifts, AddLabel, NetLabel, WinLabel
<1>3. Room'
  BY WorldAssumption DEF TickStats, Types, Room, Pending, Adding, Goto, Thread, TypeOK, Labels, history, table, tick, loop, Free, Shifts
<1> QED
  BY <1>1, <1>2, <1>3 DEF Types

LEMMA UpdateTypes ==
  ASSUME Types, Update, overlapped' \in BOOLEAN
  PROVE  Types'
<1>1. TypeOK'
  <2>1. 1 \in 1 .. Slots + 1
    BY Numbers DEF Types
  <2> QED
    BY <2>1 DEF Update, Types, TypeOK, history, table, tick, loop, Goto, Shifts, Entity, Thread
<1>2. Labels'
  BY WorldAssumption DEF Update, Types, Labels, TypeOK, history, table, tick, loop, Goto, Thread, Adding, Ticking, Shifts, AddLabel, NetLabel, WinLabel
<1>3. Room'
  BY WorldAssumption DEF Update, Types, Room, Pending, Adding, Goto, Thread, TypeOK, Labels, history, table, tick, loop, Free, Shifts
<1> QED
  BY <1>1, <1>2, <1>3 DEF Types

LEMMA LivesTypes ==
  ASSUME Types, Lives, overlapped' \in BOOLEAN
  PROVE  Types'
<1>1. TypeOK'
  <2>1. cursor + 1 \in 1 .. Slots + 1
    BY Numbers DEF Types, Lives
  <2> QED
    BY <2>1 DEF Lives, Types, TypeOK, history, table, tick, loop, Goto, Shifts, Entity, Thread
<1>2. Labels'
  BY WorldAssumption DEF Lives, Types, Labels, TypeOK, history, table, tick, loop, Goto, Thread, Adding, Ticking, Shifts, AddLabel, NetLabel, WinLabel
<1>3. Room'
  BY WorldAssumption DEF Lives, Types, Room, Pending, Adding, Goto, Thread, TypeOK, Labels, history, table, tick, loop, Free, Shifts
<1> QED
  BY <1>1, <1>2, <1>3 DEF Types

LEMMA WantsLockTypes ==
  ASSUME Types, WantsLock, overlapped' \in BOOLEAN
  PROVE  Types'
<1>1. TypeOK'
  BY WorldAssumption DEF WantsLock, Types, TypeOK, history, table, tick, loop, Goto, Shifts, Entity, Thread
<1>2. Labels'
  BY WorldAssumption DEF WantsLock, Types, Labels, TypeOK, history, table, tick, loop, Goto, Thread, Adding, Ticking, Shifts, AddLabel, NetLabel, WinLabel
<1>3. Room'
  BY WorldAssumption DEF WantsLock, Types, Room, Pending, Adding, Goto, Thread, TypeOK, Labels, history, table, tick, loop, Free, Shifts
<1> QED
  BY <1>1, <1>2, <1>3 DEF Types

LEMMA MovesTypes ==
  ASSUME Types, Moves, overlapped' \in BOOLEAN
  PROVE  Types'
<1>1. TypeOK'
  <2>1. cursor + 1 \in 1 .. Slots + 1
    BY Numbers DEF Types, Moves, Labels
  <2> QED
    BY <2>1 DEF Moves, Types, TypeOK, history, table, tick, loop, Goto, Shifts, Entity, Thread
<1>2. Labels'
  BY WorldAssumption DEF Moves, Types, Labels, TypeOK, history, table, tick, loop, Goto, Thread, Adding, Ticking, Shifts, AddLabel, NetLabel, WinLabel
<1>3. Room'
  BY WorldAssumption DEF Moves, Types, Room, Pending, Adding, Goto, Thread, TypeOK, Labels, history, table, tick, loop, Free, Shifts
<1> QED
  BY <1>1, <1>2, <1>3 DEF Types

LEMMA FinishesTypes ==
  ASSUME Types, Finishes, overlapped' \in BOOLEAN
  PROVE  Types'
<1>1. TypeOK'
  <2>1. cursor + 1 \in 1 .. Slots + 1 /\ cursor \in 1..Slots /\ slot[cursor] \in Shots
    BY Numbers DEF Types, Finishes
  <2>2. Append(doomed, cursor) \in Seq(1..Slots) /\ finished \cup {slot[cursor]} \subseteq Shots
    <3>1. doomed \in Seq(1..Slots) /\ finished \subseteq Shots
      BY DEF Types, TypeOK
    <3>2. Append(doomed, cursor) \in Seq(1..Slots)
      BY <2>1, <3>1
    <3> QED
      BY <2>1, <3>1, <3>2
  <2> QED
    BY <2>1, <2>2 DEF Finishes, Types, TypeOK, history, table, tick, loop, Goto, Shifts, Entity, Thread
<1>2. Labels'
  BY WorldAssumption DEF Finishes, Types, Labels, TypeOK, history, table, tick, loop, Goto, Thread, Adding, Ticking, Shifts, AddLabel, NetLabel, WinLabel
<1>3. Room'
  BY WorldAssumption DEF Finishes, Types, Room, Pending, Adding, Goto, Thread, TypeOK, Labels, history, table, tick, loop, Free, Shifts
<1> QED
  BY <1>1, <1>2, <1>3 DEF Types

LEMMA LoadRemoveTypes ==
  ASSUME Types, LoadRemove, overlapped' \in BOOLEAN
  PROVE  Types'
<1>1. TypeOK'
  BY WorldAssumption DEF LoadRemove, Types, TypeOK, history, table, tick, loop, Goto, Shifts, Entity, Thread
<1>2. Labels'
  BY WorldAssumption DEF LoadRemove, Types, Labels, TypeOK, history, table, tick, loop, Goto, Thread, Adding, Ticking, Shifts, AddLabel, NetLabel, WinLabel
<1>3. Room'
  BY WorldAssumption DEF LoadRemove, Types, Room, Pending, Adding, Goto, Thread, TypeOK, Labels, history, table, tick, loop, Free, Shifts
<1> QED
  BY <1>1, <1>2, <1>3 DEF Types

LEMMA StoreRemoveTypes ==
  ASSUME Types, StoreRemove, overlapped' \in BOOLEAN
  PROVE  Types'
<1>1. TypeOK'
  <2>1. loaded["win"] # 0 => loaded["win"] - 1 \in 0..Slots
    BY Numbers DEF Types, Thread
  <2>2. 0 \in 0..Slots
    BY Numbers DEF Types
  <2> QED
    BY <2>1, <2>2 DEF StoreRemove, Types, TypeOK, history, table, tick, loop, Goto, Shifts, Entity, Thread
<1>2. Labels'
  BY WorldAssumption DEF StoreRemove, Types, Labels, TypeOK, history, table, tick, loop, Goto, Thread, Adding, Ticking, Shifts, AddLabel, NetLabel, WinLabel
<1>3. Room'
  <2>1. Pending' = Pending /\ added' = added
    BY DEF StoreRemove, Types, TypeOK, Pending, Adding, Goto, Thread
  <2>2. capacity' = capacity \/ capacity' = loaded["win"] - 1
    BY DEF StoreRemove
  <2>3. \A u \in Thread : loaded'[u] = IF u = "win" THEN 0 ELSE loaded[u]
    BY DEF StoreRemove, Types, TypeOK
  <2>4. /\ capacity \in Nat /\ Pending \in Nat /\ Cardinality(added) \in Nat
        /\ \A u \in Thread : loaded[u] \in Nat
    BY RoomLeft DEF Types
  <2>5. capacity' + Pending <= Cardinality(added)
    BY <2>2, <2>4 DEF Room, Types, Thread
  <2> QED
    BY <2>1, <2>3, <2>4, <2>5 DEF Room, Types
<1> QED
  BY <1>1, <1>2, <1>3 DEF Types

LEMMA MoveTypes ==
  ASSUME Types, Move, overlapped' \in BOOLEAN
  PROVE  Types'
<1>1. TypeOK'
  <2>1. doomed # <<>> /\ doomed \in Seq(1..Slots)
    BY DEF Types, TypeOK, Labels, Move
  <2>2. Last(doomed) \in 1..Slots /\ Front(doomed) \in Seq(1..Slots)
    BY <2>1, LastFront
  <2>3. capacity + 1 \in 1..Slots
    BY Numbers, RoomLeft DEF Types
  <2>4. slot' \in [1..Slots -> Entity \cup {Nothing}] /\ latch' \in [1..Slots -> BOOLEAN]
    BY <2>2, <2>3 DEF Types, TypeOK, Move
  <2>5. freed' \in [Entity -> Nat]
    <3>1. \E S : Free(S)
      BY DEF Move
    <3> QED
      BY <3>1, FreeEffect DEF Types
  <2> QED
    BY <2>1, <2>2, <2>3, <2>4, <2>5 DEF Move, Types, TypeOK, history, table, tick, loop, Goto, Shifts, Entity, Thread
<1>2. Labels'
  BY WorldAssumption DEF Move, Types, Labels, TypeOK, history, table, tick, loop, Goto, Thread, Adding, Ticking, Shifts, AddLabel, NetLabel, WinLabel
<1>3. Room'
  BY WorldAssumption DEF Move, Types, Room, Pending, Adding, Goto, Thread, TypeOK, Labels, history, table, tick, loop, Free, Shifts
<1> QED
  BY <1>1, <1>2, <1>3 DEF Types

LEMMA SortTypes ==
  ASSUME Types, Sort, overlapped' \in BOOLEAN
  PROVE  Types'
<1>1. TypeOK'
  <2>1. PICK order \in {f \in [1..capacity -> 1..capacity] : IsInjective(f)} :
           /\ slot' = [i \in 1..Slots |-> IF i <= capacity THEN slot[order[i]] ELSE slot[i]]
           /\ latch' = [i \in 1..Slots |-> IF i <= capacity THEN latch[order[i]] ELSE latch[i]]
    BY DEF Sort
  <2>2. \A i \in 1..Slots : i <= capacity => order[i] \in 1..Slots
    BY <2>1, Numbers DEF Types
  <2>3. slot' \in [1..Slots -> Entity \cup {Nothing}] /\ latch' \in [1..Slots -> BOOLEAN]
    BY <2>1, <2>2 DEF Types, TypeOK
  <2>4. 1 \in 1 .. Slots + 1 /\ 0 \in 0..Slots
    BY Numbers DEF Types
  <2> QED
    BY <2>1, <2>2, <2>3, <2>4 DEF Sort, Types, TypeOK, history, table, tick, loop, Goto, Shifts, Entity, Thread
<1>2. Labels'
  BY WorldAssumption DEF Sort, Types, Labels, TypeOK, history, table, tick, loop, Goto, Thread, Adding, Ticking, Shifts, AddLabel, NetLabel, WinLabel
<1>3. Room'
  BY WorldAssumption DEF Sort, Types, Room, Pending, Adding, Goto, Thread, TypeOK, Labels, history, table, tick, loop, Free, Shifts
<1> QED
  BY <1>1, <1>2, <1>3 DEF Types

-----------------------------------------------------------------------------
(* Every action keeps the table right, unless two changes overlap in it. *)

\* The marked indices are slots.
LEMMA DoomedIn ==
  ASSUME TypeOK
  PROVE  /\ doomed \in Seq(1..Slots) /\ Len(doomed) \in Nat
         /\ \A k \in 1..Len(doomed) : doomed[k] \in Nat /\ doomed[k] \in 1..Slots
<1>1. \A S : \A s \in Seq(S) : Len(s) \in Nat /\ \A k \in 1..Len(s) : s[k] \in S
  OBVIOUS
<1>2. doomed \in Seq(1..Slots)
  BY DEF TypeOK
<1>3. \A k \in 1..Len(doomed) : doomed[k] \in 1..Slots
  BY <1>1, <1>2
<1> QED
  BY <1>1, <1>2, <1>3, WorldAssumption

\* What changes neither the items nor what should be there keeps the table.
LEMMA TableKept ==
  ASSUME TypeOK, TypeOK', Table, UNCHANGED <<added, gone, freed>>, Count' = Count,
         Disposing' <=> Disposing, \A i \in 1..Count : slot'[i] = slot[i],
         \A t \in Thread : (Adding(t)' <=> Adding(t)) /\ (Adding(t) => entity'[t] = entity[t])
  PROVE  Once' /\ Complete' /\ Right' /\ Emptied' /\ \A e : e \in Present' <=> e \in Present
<1>1. \A e : e \in Present' <=> e \in Present
  BY DEF Present
<1>2. \A e : Added(e)' <=> Added(e)
  BY DEF Added
<1>3. Once /\ Complete /\ Right /\ Emptied
  BY DEF Table
<1>4. Once'
  BY <1>3 DEF Once
<1>5. Complete'
  BY <1>1, <1>2, <1>3 DEF Complete
<1>6. Right'
  BY <1>1, <1>2, <1>3 DEF Right
<1>7. Emptied'
  BY <1>1, <1>3 DEF Emptied
<1> QED
  BY <1>1, <1>4, <1>5, <1>6, <1>7

LEMMA WriteTable ==
  ASSUME Types, Types', Table, NEW t \in Thread, Write(t), ~Overlap'
  PROVE  Table'
<1>1. pc[t] = "write" /\ pc'[t] = "load" /\ \A u \in Thread \ {t} : pc'[u] = pc[u]
  BY DEF Write, Goto, Types, TypeOK, Thread
<1>2. UNCHANGED <<capacity, locked, entity, loaded, cursor, bound, doomed, added, finished, gone, freed>>
  BY DEF Write, table, tick, loop, history
<1>3. Count = capacity /\ capacity \in Nat
  BY <1>1, Numbers DEF Table, Overlap, Adding, Removing, Count, Types, Thread
<1>4. slot'[capacity + 1] = entity[t] /\ \A i \in 1..capacity : slot'[i] = slot[i]
  <2>1. slot' = [slot EXCEPT ![capacity + 1] = entity[t]]
    BY DEF Write
  <2>2. slot \in [1..Slots -> Entity \cup {Nothing}] /\ capacity + 1 \in 1..Slots
    <3>1. slot \in [1..Slots -> Entity \cup {Nothing}]
      BY DEF Types, TypeOK
    <3> QED
      BY <1>3, <3>1, RoomLeft DEF Types
  <2>3. \A i \in 1..capacity : i # capacity + 1
    BY <1>3
  <2> QED
    BY <2>1, <2>2, <2>3
<1>5. /\ Count' = Count /\ (Disposing' <=> Disposing)
      /\ \A u \in Thread : (Adding(u)' <=> Adding(u)) /\ (Adding(u) => entity'[u] = entity[u])
  BY <1>1, <1>2, <1>3, <1>4 DEF Count, Disposing, Adding, Thread
<1>6. Once' /\ Complete' /\ Right' /\ Emptied' /\ \A d : d \in Present' <=> d \in Present
  <2>1. \A i \in 1..Count : slot'[i] = slot[i]
    BY <1>1, <1>2, <1>3, <1>4
  <2> QED
    BY <1>2, <1>5, <2>1, TableKept DEF Types
<1>7. Written'
  BY <1>1, <1>2, <1>3, <1>4, <1>5, <1>6 DEF Table, Written, Adding, Thread, Overlap
<1>8. Disposed'
  BY <1>2 DEF Table, Disposed
<1>9. Marked'
  BY <1>1, <1>2, <1>3, <1>4, <1>5 DEF Table, Marked, Thread
<1> QED
  BY <1>6, <1>7, <1>8, <1>9 DEF Table

LEMMA LoadTable ==
  ASSUME Types, Types', Table, NEW t \in Thread, Load(t), ~Overlap'
  PROVE  Table'
<1>1. pc[t] = "load" /\ pc'[t] = "store" /\ \A u \in Thread \ {t} : pc'[u] = pc[u]
  BY DEF Load, Goto, Types, TypeOK, Thread
<1>2. UNCHANGED <<slot, capacity, locked, entity, cursor, bound, doomed, added, finished, gone, freed>>
  BY DEF Load, table, tick, loop, history
<1>3. loaded'[t] = capacity /\ \A u \in Thread \ {t} : loaded'[u] = loaded[u]
  BY DEF Load, Types, TypeOK
<1>4. /\ Count' = Count /\ (Disposing' <=> Disposing)
      /\ \A u \in Thread : (Adding(u)' <=> Adding(u)) /\ (Adding(u) => entity'[u] = entity[u])
  BY <1>1, <1>2, <1>3 DEF Count, Disposing, Adding, Thread
<1>5. Once' /\ Complete' /\ Right' /\ Emptied' /\ \A d : d \in Present' <=> d \in Present
  <2>1. \A i \in 1..Count : slot'[i] = slot[i]
    BY <1>1, <1>2, <1>3
  <2> QED
    BY <1>2, <1>4, <2>1, TableKept DEF Types
<1>6. Written'
  BY <1>1, <1>2, <1>3, <1>4, <1>5 DEF Table, Written, Adding, Thread
<1>7. Disposed'
  BY <1>2 DEF Table, Disposed
<1>8. Marked'
  BY <1>1, <1>2, <1>3, <1>4 DEF Table, Marked, Thread
<1> QED
  BY <1>5, <1>6, <1>7, <1>8 DEF Table

LEMMA FindEntityTable ==
  ASSUME Types, Types', Table, NEW e \in Entity, FindEntity(e), ~Overlap'
  PROVE  Table'
<1>1. pc["net"] = "idle" /\ pc'["net"] \in {"tick lock", "tick stats"} /\ pc'["win"] = pc["win"]
  BY DEF FindEntity, Goto, Types, TypeOK, Thread
<1>2. UNCHANGED <<slot, capacity, locked, loaded, cursor, bound, doomed, added, finished, gone, freed>>
  BY DEF FindEntity, table, tick, loop, history
<1>3. entity'["win"] = entity["win"]
  BY DEF FindEntity, Types, TypeOK, Thread
<1>4. /\ Count' = Count /\ (Disposing' <=> Disposing)
      /\ \A u \in Thread : (Adding(u)' <=> Adding(u)) /\ (Adding(u) => entity'[u] = entity[u])
  BY <1>1, <1>2, <1>3 DEF Count, Disposing, Adding, Thread
<1>5. Once' /\ Complete' /\ Right' /\ Emptied' /\ \A d : d \in Present' <=> d \in Present
  <2>1. \A i \in 1..Count : slot'[i] = slot[i]
    BY <1>1, <1>2, <1>3
  <2> QED
    BY <1>2, <1>4, <2>1, TableKept DEF Types
<1>6. Written'
  BY <1>1, <1>2, <1>3, <1>4, <1>5 DEF Table, Written, Adding, Thread
<1>7. Disposed'
  BY <1>2 DEF Table, Disposed
<1>8. Marked'
  BY <1>1, <1>2, <1>3, <1>4 DEF Table, Marked, Thread
<1> QED
  BY <1>5, <1>6, <1>7, <1>8 DEF Table

LEMMA TickLockTable ==
  ASSUME Types, Types', Table, TickLock, ~Overlap'
  PROVE  Table'
<1>1. pc["net"] = "tick lock" /\ pc'["net"] = "tick place" /\ pc'["win"] = pc["win"]
  BY DEF TickLock, Goto, Types, TypeOK, Thread
<1>2. UNCHANGED <<slot, capacity, locked, entity, loaded, cursor, bound, doomed, added, finished, gone, freed>>
  BY DEF TickLock, table, tick, loop, history
<1>3. /\ Count' = Count /\ (Disposing' <=> Disposing)
      /\ \A u \in Thread : (Adding(u)' <=> Adding(u)) /\ (Adding(u) => entity'[u] = entity[u])
  BY <1>1, <1>2 DEF Count, Disposing, Adding, Thread
<1>4. Once' /\ Complete' /\ Right' /\ Emptied' /\ \A d : d \in Present' <=> d \in Present
  <2>1. \A i \in 1..Count : slot'[i] = slot[i]
    BY <1>1, <1>2
  <2> QED
    BY <1>2, <1>3, <2>1, TableKept DEF Types
<1>5. Written'
  BY <1>1, <1>2, <1>3, <1>4 DEF Table, Written, Adding, Thread
<1>6. Disposed'
  BY <1>2 DEF Table, Disposed
<1>7. Marked'
  BY <1>1, <1>2, <1>3 DEF Table, Marked, Thread
<1> QED
  BY <1>4, <1>5, <1>6, <1>7 DEF Table

LEMMA TickUnlockTable ==
  ASSUME Types, Types', Table, TickUnlock, ~Overlap'
  PROVE  Table'
<1>1. pc["net"] = "tick place" /\ pc'["net"] = "tick stats" /\ pc'["win"] = pc["win"]
  BY DEF TickUnlock, Goto, Types, TypeOK, Thread
<1>2. UNCHANGED <<slot, capacity, locked, entity, loaded, cursor, bound, doomed, added, finished, gone, freed>>
  BY DEF TickUnlock, table, tick, loop, history
<1>3. /\ Count' = Count /\ (Disposing' <=> Disposing)
      /\ \A u \in Thread : (Adding(u)' <=> Adding(u)) /\ (Adding(u) => entity'[u] = entity[u])
  BY <1>1, <1>2 DEF Count, Disposing, Adding, Thread
<1>4. Once' /\ Complete' /\ Right' /\ Emptied' /\ \A d : d \in Present' <=> d \in Present
  <2>1. \A i \in 1..Count : slot'[i] = slot[i]
    BY <1>1, <1>2
  <2> QED
    BY <1>2, <1>3, <2>1, TableKept DEF Types
<1>5. Written'
  BY <1>1, <1>2, <1>3, <1>4 DEF Table, Written, Adding, Thread
<1>6. Disposed'
  BY <1>2 DEF Table, Disposed
<1>7. Marked'
  BY <1>1, <1>2, <1>3 DEF Table, Marked, Thread
<1> QED
  BY <1>4, <1>5, <1>6, <1>7 DEF Table

LEMMA TickStatsTable ==
  ASSUME Types, Types', Table, TickStats, ~Overlap'
  PROVE  Table'
<1>1. pc["net"] = "tick stats" /\ pc'["net"] = "idle" /\ pc'["win"] = pc["win"]
  BY DEF TickStats, Goto, Types, TypeOK, Thread
<1>2. UNCHANGED <<slot, capacity, locked, loaded, cursor, bound, doomed, added, finished, gone, freed>>
  BY DEF TickStats, table, tick, loop, history
<1>3. entity'["win"] = entity["win"]
  BY DEF TickStats, Types, TypeOK, Thread
<1>4. /\ Count' = Count /\ (Disposing' <=> Disposing)
      /\ \A u \in Thread : (Adding(u)' <=> Adding(u)) /\ (Adding(u) => entity'[u] = entity[u])
  BY <1>1, <1>2, <1>3 DEF Count, Disposing, Adding, Thread
<1>5. Once' /\ Complete' /\ Right' /\ Emptied' /\ \A d : d \in Present' <=> d \in Present
  <2>1. \A i \in 1..Count : slot'[i] = slot[i]
    BY <1>1, <1>2, <1>3
  <2> QED
    BY <1>2, <1>4, <2>1, TableKept DEF Types
<1>6. Written'
  BY <1>1, <1>2, <1>3, <1>4, <1>5 DEF Table, Written, Adding, Thread
<1>7. Disposed'
  BY <1>2 DEF Table, Disposed
<1>8. Marked'
  BY <1>1, <1>2, <1>3, <1>4 DEF Table, Marked, Thread
<1> QED
  BY <1>5, <1>6, <1>7, <1>8 DEF Table

LEMMA UpdateTable ==
  ASSUME Types, Types', Table, Update, ~Overlap'
  PROVE  Table'
<1>1. pc["win"] = "idle" /\ pc'["win"] = "update" /\ pc'["net"] = pc["net"]
  BY DEF Update, Goto, Types, TypeOK, Thread
<1>2. UNCHANGED <<slot, capacity, entity, loaded, doomed, added, finished, gone, freed>>
  BY DEF Update, table, tick, loop, history
<1>3. locked' = "update" /\ cursor' = 1 /\ bound' = capacity
  BY DEF Update
<1>4. doomed = <<>> /\ Len(doomed) = 0 /\ capacity \in Nat
  BY <1>1, Numbers DEF Types, Labels
<1>5. /\ Count' = Count /\ (Disposing' <=> Disposing)
      /\ \A u \in Thread : (Adding(u)' <=> Adding(u)) /\ (Adding(u) => entity'[u] = entity[u])
  BY <1>1, <1>2, <1>3, <1>4 DEF Count, Disposing, Adding, Thread
<1>6. Once' /\ Complete' /\ Right' /\ Emptied' /\ \A d : d \in Present' <=> d \in Present
  <2>1. \A i \in 1..Count : slot'[i] = slot[i]
    BY <1>1, <1>2, <1>3, <1>4
  <2> QED
    BY <1>2, <1>5, <2>1, TableKept DEF Types
<1>7. Written'
  BY <1>1, <1>2, <1>3, <1>4, <1>5, <1>6 DEF Table, Written, Adding, Thread
<1>8. Disposed'
  BY <1>2 DEF Table, Disposed
<1>9. Marked'
  BY <1>1, <1>2, <1>3, <1>4, <1>5 DEF Table, Marked, Thread
<1> QED
  BY <1>6, <1>7, <1>8, <1>9 DEF Table

LEMMA LivesTable ==
  ASSUME Types, Types', Table, Lives, ~Overlap'
  PROVE  Table'
<1>1. pc["win"] = "update" /\ pc'["win"] = "update" /\ pc'["net"] = pc["net"]
  BY DEF Lives, Goto, Types, TypeOK, Thread, loop, table, history, tick
<1>2. UNCHANGED <<slot, capacity, locked, entity, loaded, bound, doomed, added, finished, gone, freed>>
  BY DEF Lives, table, tick, loop, history
<1>3. cursor' = cursor + 1 /\ cursor <= bound
  BY DEF Lives
<1>4. cursor \in Nat /\ \A k \in 1..Len(doomed) : doomed[k] \in Nat
  BY Numbers, DoomedIn DEF Types
<1>5. locked = "update" /\ bound \in Nat
  BY <1>1, Numbers DEF Types, Labels
<1>6. /\ Count' = Count /\ (Disposing' <=> Disposing)
      /\ \A u \in Thread : (Adding(u)' <=> Adding(u)) /\ (Adding(u) => entity'[u] = entity[u])
  BY <1>1, <1>2, <1>3, <1>4, <1>5 DEF Count, Disposing, Adding, Thread
<1>7. Once' /\ Complete' /\ Right' /\ Emptied' /\ \A d : d \in Present' <=> d \in Present
  <2>1. \A i \in 1..Count : slot'[i] = slot[i]
    BY <1>1, <1>2, <1>3, <1>4, <1>5
  <2> QED
    BY <1>2, <1>6, <2>1, TableKept DEF Types
<1>8. Written'
  BY <1>1, <1>2, <1>3, <1>4, <1>5, <1>6, <1>7 DEF Table, Written, Adding, Thread
<1>9. Disposed'
  BY <1>2 DEF Table, Disposed
<1>10. Marked'
  BY <1>1, <1>2, <1>3, <1>4, <1>5, <1>6 DEF Table, Marked, Thread
<1> QED
  BY <1>7, <1>8, <1>9, <1>10 DEF Table

LEMMA WantsLockTable ==
  ASSUME Types, Types', Table, WantsLock, ~Overlap'
  PROVE  Table'
<1>1. pc["win"] = "update" /\ pc'["win"] = "step" /\ pc'["net"] = pc["net"]
  BY DEF WantsLock, Goto, Types, TypeOK, Thread
<1>2. UNCHANGED <<slot, capacity, locked, entity, loaded, bound, doomed, added, finished, gone, freed, cursor>>
  BY DEF WantsLock, table, tick, loop, history
<1>3. /\ Count' = Count /\ (Disposing' <=> Disposing)
      /\ \A u \in Thread : (Adding(u)' <=> Adding(u)) /\ (Adding(u) => entity'[u] = entity[u])
  BY <1>1, <1>2 DEF Count, Disposing, Adding, Thread
<1>4. Once' /\ Complete' /\ Right' /\ Emptied' /\ \A d : d \in Present' <=> d \in Present
  <2>1. \A i \in 1..Count : slot'[i] = slot[i]
    BY <1>1, <1>2
  <2> QED
    BY <1>2, <1>3, <2>1, TableKept DEF Types
<1>5. Written'
  BY <1>1, <1>2, <1>3, <1>4 DEF Table, Written, Adding, Thread
<1>6. Disposed'
  BY <1>2 DEF Table, Disposed
<1>7. Marked'
  BY <1>1, <1>2, <1>3 DEF Table, Marked, Thread
<1> QED
  BY <1>4, <1>5, <1>6, <1>7 DEF Table

LEMMA MovesTable ==
  ASSUME Types, Types', Table, Moves, ~Overlap'
  PROVE  Table'
<1>1. pc["win"] = "step" /\ pc'["win"] = "update" /\ pc'["net"] = pc["net"]
  BY DEF Moves, Goto, Types, TypeOK, Thread
<1>2. UNCHANGED <<slot, capacity, locked, entity, loaded, bound, doomed, added, finished, gone, freed>>
  BY DEF Moves, table, tick, loop, history
<1>3. cursor' = cursor + 1
  BY DEF Moves
<1>4. cursor \in Nat /\ \A k \in 1..Len(doomed) : doomed[k] \in Nat
  BY Numbers, DoomedIn DEF Types
<1>5. locked = "update" /\ bound \in Nat
  BY <1>1, Numbers DEF Types, Labels
<1>6. cursor <= bound
  BY <1>1 DEF Types, Labels
<1>7. /\ Count' = Count /\ (Disposing' <=> Disposing)
      /\ \A u \in Thread : (Adding(u)' <=> Adding(u)) /\ (Adding(u) => entity'[u] = entity[u])
  BY <1>1, <1>2, <1>3, <1>4, <1>5, <1>6 DEF Count, Disposing, Adding, Thread
<1>8. Once' /\ Complete' /\ Right' /\ Emptied' /\ \A d : d \in Present' <=> d \in Present
  <2>1. \A i \in 1..Count : slot'[i] = slot[i]
    BY <1>1, <1>2, <1>3, <1>4, <1>5, <1>6
  <2> QED
    BY <1>2, <1>7, <2>1, TableKept DEF Types
<1>9. Written'
  BY <1>1, <1>2, <1>3, <1>4, <1>5, <1>6, <1>7, <1>8 DEF Table, Written, Adding, Thread
<1>10. Disposed'
  BY <1>2 DEF Table, Disposed
<1>11. Marked'
  BY <1>1, <1>2, <1>3, <1>4, <1>5, <1>6, <1>7 DEF Table, Marked, Thread
<1> QED
  BY <1>8, <1>9, <1>10, <1>11 DEF Table

LEMMA LoadRemoveTable ==
  ASSUME Types, Types', Table, LoadRemove, ~Overlap'
  PROVE  Table'
<1>1. pc["win"] = "update" /\ pc'["win"] = "store remove" /\ pc'["net"] = pc["net"]
  BY DEF LoadRemove, Goto, Types, TypeOK, Thread
<1>2. UNCHANGED <<slot, capacity, locked, entity, cursor, bound, doomed, added, finished, gone, freed>>
  BY DEF LoadRemove, table, tick, loop, history
<1>3. loaded'["win"] = capacity /\ loaded'["net"] = loaded["net"]
  BY DEF LoadRemove, Types, TypeOK, Thread
<1>4. cursor > bound
  BY DEF LoadRemove
<1>5. /\ Count' = Count /\ (Disposing' <=> Disposing)
      /\ \A u \in Thread : (Adding(u)' <=> Adding(u)) /\ (Adding(u) => entity'[u] = entity[u])
  BY <1>1, <1>2, <1>3, <1>4 DEF Count, Disposing, Adding, Thread
<1>6. Once' /\ Complete' /\ Right' /\ Emptied' /\ \A d : d \in Present' <=> d \in Present
  <2>1. \A i \in 1..Count : slot'[i] = slot[i]
    BY <1>1, <1>2, <1>3, <1>4
  <2> QED
    BY <1>2, <1>5, <2>1, TableKept DEF Types
<1>7. Written'
  BY <1>1, <1>2, <1>3, <1>4, <1>5, <1>6 DEF Table, Written, Adding, Thread
<1>8. Disposed'
  BY <1>2 DEF Table, Disposed
<1>9. Marked'
  BY <1>1, <1>2, <1>3, <1>4, <1>5 DEF Table, Marked, Thread
<1> QED
  BY <1>6, <1>7, <1>8, <1>9 DEF Table

LEMMA StoreTable ==
  ASSUME Types, Types', Table, NEW t \in Thread, Store(t), ~Overlap'
  PROVE  Table'
<1>1. pc[t] = "store" /\ pc'[t] \in {"idle", "update"} /\ \A u \in Thread \ {t} : pc'[u] = pc[u]
  BY DEF Store, Goto, Types, TypeOK, Thread
<1>2. UNCHANGED <<slot, cursor, bound, doomed, added, finished, gone, freed>>
  BY DEF Store, table, tick, loop, history
<1>3. /\ \A u \in Thread \ {t} : ~Adding(u) /\ ~Adding(u)' /\ pc[u] # "dispose"
      /\ pc["win"] # "move"
  <2>1. ~Overlap
    BY DEF Table
  <2>2. pc["win"] \in {"write", "load", "store"} => locked # "no"
    BY DEF Types, Labels
  <2> QED
    BY <1>1, <2>1, <2>2 DEF Overlap, Adding, Removing, Thread
<1>4. capacity' = capacity + 1 /\ capacity \in Nat /\ bound \in Nat /\ cursor \in Nat
  BY <1>1, Numbers DEF Store, Table, Written, Types
<1>5. slot[capacity + 1] = entity[t] /\ entity[t] \in Present /\ entity[t] \in Entity
  BY <1>1 DEF Table, Written, Types, Labels, Adding
<1>6. Count = capacity /\ Count' = capacity + 1 /\ ~Disposing /\ ~Disposing'
  BY <1>1, <1>3, <1>4 DEF Count, Disposing, Thread
<1>7. (\A d : Added(d) <=> d = entity[t]) /\ (\A d : ~Added(d)') /\ (\A u \in Thread : ~Adding(u)')
  BY <1>1, <1>3 DEF Added, Adding
<1>8. \A d : d \in Present' <=> d \in Present
  BY <1>2 DEF Present
<1>9. Once /\ Complete /\ Right
  BY DEF Table
<1>10. \A i \in 1..capacity : slot[i] # entity[t]
  BY <1>6, <1>7, <1>9 DEF Right
<1>11. \A i \in 1 .. capacity + 1 : i \in 1..capacity \/ i = capacity + 1
  BY <1>4
<1>12. capacity + 1 \in 1 .. capacity + 1 /\ \A i \in 1..capacity : i \in 1 .. capacity + 1
  BY <1>4
<1>13. Once'
  BY <1>2, <1>5, <1>6, <1>9, <1>10, <1>11 DEF Once
<1>14. Complete'
  BY <1>2, <1>5, <1>6, <1>7, <1>8, <1>9, <1>12 DEF Complete
<1>15. Right'
  BY <1>2, <1>5, <1>6, <1>7, <1>8, <1>9, <1>11 DEF Right
<1>16. Emptied'
  BY <1>6 DEF Emptied
<1>17. Written'
  BY <1>7 DEF Written, Adding
<1>18. Disposed'
  BY <1>2 DEF Table, Disposed
<1>19. Marked'
  <2>1. locked' = "update" => locked = "update"
    BY DEF Store
  <2>2. pc'["win"] # "store remove"
    BY <1>1, <1>3, <2>1 DEF Types, Labels, Thread, Table, Overlap, Removing, Adding
  <2>3. Marked
    BY DEF Table
  <2>4. \A k \in 1..Len(doomed) : doomed[k] \in 1..Count' /\ doomed[k] < cursor /\ slot[doomed[k]] \in finished
    BY <1>6, <1>12, <2>3 DEF Marked
  <2>5. ASSUME locked' = "update", cursor <= bound PROVE bound <= capacity'
    <3>1. bound <= capacity
      BY <2>1, <2>3, <2>5 DEF Marked
    <3> QED
      BY <1>4, <3>1
  <2> QED
    BY <1>2, <2>2, <2>3, <2>4, <2>5 DEF Marked
<1> QED
  BY <1>13, <1>14, <1>15, <1>16, <1>17, <1>18, <1>19 DEF Table

LEMMA FinishesTable ==
  ASSUME Types, Types', Table, Finishes, ~Overlap'
  PROVE  Table'
<1>1. pc["win"] = "update" /\ UNCHANGED pc
  BY DEF Finishes
<1>2. UNCHANGED <<slot, capacity, locked, entity, loaded, bound, added, gone, freed>>
  BY DEF Finishes, table, tick, loop, history
<1>3. /\ cursor' = cursor + 1 /\ cursor <= bound /\ doomed' = Append(doomed, cursor)
      /\ finished' = finished \cup {slot[cursor]}
  BY DEF Finishes
<1>4. /\ cursor \in Nat /\ 1 <= cursor /\ bound \in Nat /\ capacity \in Nat /\ Len(doomed) \in Nat
      /\ \A k \in 1..Len(doomed) : doomed[k] \in Nat
  BY Numbers, DoomedIn DEF Types
<1>5. locked = "update" /\ bound <= capacity /\ Count = capacity /\ cursor \in 1..Count
  <2>1. locked = "update" /\ Count = capacity
    BY <1>1 DEF Types, Labels, Count
  <2>2. bound <= capacity
    BY <1>3, <2>1 DEF Table, Marked
  <2> QED
    BY <1>3, <1>4, <2>1, <2>2
<1>6. /\ Count' = Count /\ (Disposing' <=> Disposing)
      /\ \A u \in Thread : (Adding(u)' <=> Adding(u)) /\ (Adding(u) => entity'[u] = entity[u])
  BY <1>1, <1>2 DEF Count, Disposing, Adding, Thread
<1>7. Once' /\ Complete' /\ Right' /\ Emptied' /\ \A d : d \in Present' <=> d \in Present
  <2>1. \A i \in 1..Count : slot'[i] = slot[i]
    BY <1>2
  <2> QED
    BY <1>2, <1>6, <2>1, TableKept DEF Types
<1>8. Written'
  BY <1>1, <1>2, <1>7 DEF Table, Written, Adding
<1>9. Disposed'
  BY <1>2, <1>3 DEF Table, Disposed
<1>10. Marked'
  <2>1. Marked
    BY DEF Table
  <2>2. /\ Len(doomed') = Len(doomed) + 1 /\ doomed'[Len(doomed) + 1] = cursor
        /\ \A k \in 1..Len(doomed) : doomed'[k] = doomed[k]
    <3>1. doomed \in Seq(1..Slots)
      BY DoomedIn DEF Types
    <3> QED
      BY <1>3, <3>1
  <2>3. \A k \in 1..Len(doomed') : k \in 1..Len(doomed) \/ k = Len(doomed) + 1
    BY <1>4, <2>2
  <2>4. \A k \in 1..Len(doomed) : /\ doomed'[k] \in 1..Count /\ doomed'[k] < cursor
                                  /\ slot[doomed'[k]] \in finished
    BY <2>1, <2>2 DEF Marked
  <2>5. ASSUME NEW k \in 1..Len(doomed')
        PROVE  doomed'[k] \in 1..Count' /\ doomed'[k] < cursor' /\ slot'[doomed'[k]] \in finished'
    <3>1. CASE k \in 1..Len(doomed)
      <4>1. doomed'[k] \in Nat
        BY <1>4, <2>2, <3>1
      <4> QED
        BY <1>2, <1>3, <1>4, <1>6, <2>4, <3>1, <4>1
    <3>2. CASE k = Len(doomed) + 1
      BY <1>2, <1>3, <1>4, <1>5, <1>6, <2>2, <3>2
    <3> QED
      BY <2>3, <3>1, <3>2
  <2>6. ASSUME NEW j \in 1..Len(doomed'), NEW k \in 1..Len(doomed'), j < k
        PROVE  doomed'[j] < doomed'[k]
    <3>1. CASE k \in 1..Len(doomed)
      <4>1. j \in 1..Len(doomed)
        BY <1>4, <2>3, <2>6, <3>1
      <4> QED
        BY <2>1, <2>2, <2>6, <3>1, <4>1 DEF Marked
    <3>2. CASE k = Len(doomed) + 1
      <4>1. j \in 1..Len(doomed)
        BY <1>4, <2>3, <2>6, <3>2
      <4> QED
        BY <2>2, <2>4, <3>2, <4>1
    <3> QED
      BY <2>3, <3>1, <3>2
  <2> QED
    BY <1>1, <1>2, <1>5, <2>5, <2>6 DEF Marked
<1> QED
  BY <1>7, <1>8, <1>9, <1>10 DEF Table

\* There is something to remove, so that capacity is not 0.
LEMMA SomethingMarked ==
  ASSUME Types, Table, Removing
  PROVE  /\ Len(doomed) \in Nat /\ 1 <= Len(doomed) /\ doomed[Len(doomed)] \in 1..Count
         /\ Count \in Nat /\ 1 <= Count /\ loaded["win"] \in Nat
         /\ pc["win"] = "store remove" => Count = capacity /\ loaded["win"] = capacity
<1>1. doomed # <<>> /\ doomed \in Seq(1..Slots) /\ Len(doomed) \in Nat
  BY DoomedIn DEF Types, Labels, Removing
<1>2. 1 <= Len(doomed) /\ Len(doomed) \in 1..Len(doomed)
  <2>1. Len(doomed) # 0
    BY <1>1, LastFront
  <2> QED
    BY <1>1, <2>1
<1>3. doomed[Len(doomed)] \in 1..Count
  BY <1>2 DEF Table, Marked
<1>4. Count \in Nat /\ loaded["win"] \in Nat
  <2>1. capacity \in Nat /\ loaded["win"] \in Nat
    BY Numbers DEF Types, Thread
  <2> QED
    BY <2>1 DEF Count
<1>5. pc["win"] = "store remove" => Count = capacity /\ loaded["win"] = capacity
  BY DEF Count, Table, Marked
<1>6. 1 <= Count
  BY <1>3, <1>4
<1> QED
  BY <1>1, <1>2, <1>3, <1>4, <1>5, <1>6

LEMMA StoreRemoveTable ==
  ASSUME Types, Types', Table, StoreRemove, ~Overlap'
  PROVE  Table'
<1>1. pc["win"] = "store remove"
  BY DEF StoreRemove
<1>2. UNCHANGED <<slot, locked, entity, cursor, bound, doomed, added, finished, gone, freed>>
  BY DEF StoreRemove, table, tick, loop, history
<1>3. Count = capacity /\ loaded["win"] = capacity /\ capacity \in Nat /\ capacity # 0
  <2>1. Removing
    BY <1>1 DEF Removing
  <2>2. Count = capacity /\ loaded["win"] = capacity
    BY <1>1, <2>1, SomethingMarked
  <2>3. Count \in Nat /\ 1 <= Count
    BY <2>1, SomethingMarked
  <2> QED
    BY <2>2, <2>3
<1>4. capacity' = capacity - 1 /\ pc'["win"] = "move" /\ pc'["net"] = pc["net"]
  BY <1>3 DEF StoreRemove, Goto, Types, TypeOK, Thread
<1>5. ~Adding("net") /\ cursor > bound /\ cursor \in Nat /\ bound \in Nat
  BY <1>1, Numbers DEF Table, Overlap, Removing, Types, Labels
<1>6. /\ Count' = Count /\ (Disposing' <=> Disposing)
      /\ \A u \in Thread : ~Adding(u)' /\ ~Adding(u)
  <2>1. Count' = Count
    BY <1>3, <1>4 DEF Count
  <2> QED
    BY <1>1, <1>4, <1>5, <2>1 DEF Disposing, Adding, Thread
<1>7. Once' /\ Complete' /\ Right' /\ Emptied' /\ \A d : d \in Present' <=> d \in Present
  <2>1. \A i \in 1..Count : slot'[i] = slot[i]
    BY <1>2
  <2> QED
    BY <1>2, <1>6, <2>1, TableKept DEF Types
<1>8. Written'
  BY <1>6 DEF Written, Adding
<1>9. Disposed'
  BY <1>2 DEF Table, Disposed
<1>10. Marked'
  <2>1. ~(locked' = "update" /\ cursor' <= bound')
    BY <1>2, <1>5
  <2> QED
    BY <1>2, <1>4, <1>6, <2>1 DEF Table, Marked
<1> QED
  BY <1>7, <1>8, <1>9, <1>10 DEF Table

\* addToMap: only this thread adds, and nobody disposes.
LEMMA AddedTable ==
  ASSUME Types, Types', Table, ~Overlap', NEW t \in Thread, NEW e \in Entity,
         AddToMap(t, e), pc[t] \in {"idle", "update"}, locked' = "update" => locked = "update",
         UNCHANGED <<slot, capacity, loaded, cursor, bound, doomed, finished, gone, freed>>
  PROVE  Table'
<1>1. pc[t] \in {"idle", "update"} /\ pc'[t] = "write" /\ \A u \in Thread \ {t} : pc'[u] = pc[u]
  BY DEF AddToMap, Goto, Types, TypeOK, Thread
<1>2. /\ entity'[t] = e /\ \A u \in Thread \ {t} : entity'[u] = entity[u]
      /\ e \notin added /\ added' = added \cup {e}
  BY DEF AddToMap, Types, TypeOK
<1>3. /\ \A u \in Thread \ {t} : ~Adding(u) /\ ~Adding(u)' /\ pc[u] # "dispose"
      /\ pc["win"] # "move" /\ pc'["win"] # "move" /\ pc'["win"] # "store remove"
  <2>1. pc'["win"] = "write" => locked' # "no"
    BY DEF Types, Labels
  <2> QED
    BY <1>1, <2>1 DEF Overlap, Adding, Removing, Thread
<1>4. ~Disposing /\ ~Disposing' /\ Count = capacity /\ Count' = capacity /\ ~Adding(t)
  BY <1>1, <1>3 DEF Disposing, Count, Adding, Thread
<1>5. (\A d : ~Added(d)) /\ (\A d : Added(d)' <=> d = e) /\ e \notin Present
  <2>1. e \notin Present
    BY <1>2 DEF Present
  <2> QED
    BY <1>1, <1>2, <1>3, <1>4, <2>1 DEF Added, Adding
<1>6. \A d : d \in Present' <=> d \in Present \/ d = e
  <2>1. e \notin gone /\ freed[e] = 0
    <3>1. e \notin gone /\ freed[e] \in Nat /\ freed[e] <= 1 /\ freed[e] # 1
      BY <1>2, Numbers DEF Table, Disposed, Types
    <3> QED
      BY <3>1
  <2>2. (\A d : d \in Present <=> d \in added /\ d \notin gone /\ freed[d] = 0)
    BY PresentAre DEF Types
  <2>3. \A d : d \in Present' <=> d \in added' /\ d \notin gone' /\ ~(d \in Entity /\ freed'[d] > 0)
    BY DEF Present
  <2>4. (\A d \in Entity : freed[d] \in Nat) /\ added \subseteq Entity
    BY Numbers DEF Types, TypeOK
  <2> QED
    BY <1>2, <2>1, <2>2, <2>3, <2>4
<1>7. Once /\ Complete /\ Right
  BY DEF Table
<1>8. Once'
  BY <1>4, <1>7 DEF Once
<1>9. Complete'
  BY <1>4, <1>5, <1>6, <1>7 DEF Complete
<1>10. Right'
  BY <1>4, <1>5, <1>6, <1>7 DEF Right
<1>11. Emptied'
  BY <1>4 DEF Emptied
<1>12. Written'
  BY <1>1, <1>2, <1>3, <1>6 DEF Written, Adding
<1>13. Disposed'
  BY <1>2 DEF Table, Disposed
<1>14. Marked'
  BY <1>1, <1>3, <1>4 DEF Table, Marked
<1> QED
  BY <1>8, <1>9, <1>10, <1>11, <1>12, <1>13, <1>14 DEF Table

LEMMA NewEntityTable ==
  ASSUME Types, Types', Table, NEW e \in Entity, NewEntity(e), ~Overlap'
  PROVE  Table'
<1>1. AddToMap("net", e) /\ pc["net"] \in {"idle", "update"} /\ locked' = locked /\ "net" \in Thread
  BY DEF NewEntity, Thread
<1>2. UNCHANGED <<slot, capacity, loaded, cursor, bound, doomed, finished, gone, freed>>
  BY DEF NewEntity, table, loop
<1> QED
  BY <1>1, <1>2, AddedTable

LEMMA ShootTable ==
  ASSUME Types, Types', Table, NEW e \in Entity, Shoot(e), ~Overlap'
  PROVE  Table'
<1>1. AddToMap("win", e) /\ pc["win"] \in {"idle", "update"} /\ locked' # "update" /\ "win" \in Thread
  BY DEF Shoot, Thread
<1>2. UNCHANGED <<slot, capacity, loaded, cursor, bound, doomed, finished, gone, freed>>
  BY DEF Shoot, table, loop
<1> QED
  BY <1>1, <1>2, AddedTable

LEMMA SpawnsTable ==
  ASSUME Types, Types', Table, NEW e \in Entity, Spawns(e), ~Overlap'
  PROVE  Table'
<1>1. AddToMap("win", e) /\ pc["win"] \in {"idle", "update"} /\ locked' = locked /\ "win" \in Thread
  BY DEF Spawns, Thread
<1>2. UNCHANGED <<slot, capacity, loaded, cursor, bound, doomed, finished, gone, freed>>
  BY DEF Spawns, table, loop
<1> QED
  BY <1>1, <1>2, AddedTable

\* Removing an item by putting the last one in its place.
LEMMA LastInPlace ==
  ASSUME NEW c \in Nat, NEW D, 1..c \subseteq D, NEW s, DOMAIN s = D, NEW i \in 1..c,
         \A j, k \in 1..c : s[j] = s[k] => j = k,
         NEW r, r = [s EXCEPT ![i] = s[c]]
  PROVE  /\ \A j, k \in 1 .. c - 1 : r[j] = r[k] => j = k
         /\ \A j \in 1 .. c - 1 : \E k \in 1..c : k # i /\ r[j] = s[k]
         /\ \A k \in 1..c : k # i => \E j \in 1 .. c - 1 : r[j] = s[k]
         /\ \A k \in 1..c : k # i => r[k] = s[k]
<1>1. r[i] = s[c] /\ \A k \in 1..c : k # i => r[k] = s[k]
  OBVIOUS
<1>2. c \in 1..c /\ \A j \in 1 .. c - 1 : j \in 1..c /\ j # c
  OBVIOUS
<1>3. \A k \in 1..c : k # c => k \in 1 .. c - 1
  OBVIOUS
<1>4. ASSUME NEW j \in 1 .. c - 1, NEW k \in 1 .. c - 1, r[j] = r[k]
      PROVE  j = k
  BY <1>1, <1>2, <1>4
<1>5. ASSUME NEW j \in 1 .. c - 1
      PROVE  \E k \in 1..c : k # i /\ r[j] = s[k]
  <2>1. CASE j = i
    BY <1>1, <1>2, <2>1
  <2>2. CASE j # i
    BY <1>1, <1>2, <2>2
  <2> QED
    BY <2>1, <2>2
<1>6. ASSUME NEW k \in 1..c, k # i
      PROVE  \E j \in 1 .. c - 1 : r[j] = s[k]
  <2>1. CASE k = c
    BY <1>1, <1>3, <1>6, <2>1
  <2>2. CASE k # c
    BY <1>1, <1>3, <1>6, <2>2
  <2> QED
    BY <2>1, <2>2
<1> QED
  BY <1>1, <1>4, <1>5, <1>6

\* An item is removed, and is no longer among those that should be there.
LEMMA RemovedTable ==
  ASSUME Types, Types', Table, NEW i \in 1..Count, slot' = [slot EXCEPT ![i] = slot[Count]],
         Count' = Count - 1, \A t \in Thread : ~Adding(t) /\ ~Adding(t)', ~Disposing, ~Disposing',
         \A d : d \in Present' <=> d \in Present /\ d # slot[i]
  PROVE  Once' /\ Complete' /\ Right' /\ Emptied' /\ Written'
<1>1. Count \in Nat /\ Count <= Slots /\ DOMAIN slot = 1..Slots /\ Slots \in Nat
  <2>1. capacity \in Nat /\ capacity < Slots /\ Slots \in Nat
    BY RoomLeft DEF Types
  <2>2. DOMAIN slot = 1..Slots
    BY DEF Types, TypeOK
  <2> QED
    BY <2>1, <2>2 DEF Count
<1>2. Once /\ Complete /\ Right
  BY DEF Table
<1>3. 1..Count \subseteq DOMAIN slot /\ \A j, k \in 1..Count : slot[j] = slot[k] => j = k
  BY <1>1, <1>2 DEF Once
<1>4. /\ \A j, k \in 1 .. Count - 1 : slot'[j] = slot'[k] => j = k
      /\ \A j \in 1 .. Count - 1 : \E k \in 1..Count : k # i /\ slot'[j] = slot[k]
      /\ \A k \in 1..Count : k # i => \E j \in 1 .. Count - 1 : slot'[j] = slot[k]
  BY <1>1, <1>3, LastInPlace
<1>5. \A d : ~Added(d) /\ ~Added(d)'
  BY DEF Added
<1>6. Once'
  BY <1>4 DEF Once
<1>7. Complete'
  <2> SUFFICES ASSUME NEW d \in Entity, d \in Present'
               PROVE  \E j \in 1..Count' : slot'[j] = d
    BY DEF Complete
  <2>1. d \in Present /\ d # slot[i]
    OBVIOUS
  <2>2. PICK k \in 1..Count : slot[k] = d
    BY <1>2, <1>5, <2>1 DEF Complete
  <2> QED
    BY <1>4, <2>1, <2>2
<1>8. Right'
  <2> SUFFICES ASSUME NEW j \in 1..Count'
               PROVE  slot'[j] \in Present'
    BY <1>5 DEF Right
  <2>1. PICK k \in 1..Count : k # i /\ slot'[j] = slot[k]
    BY <1>4
  <2>2. slot[k] \in Present /\ slot[k] # slot[i]
    BY <1>2, <1>3, <2>1 DEF Right
  <2> QED
    BY <2>1, <2>2
<1> QED
  BY <1>6, <1>7, <1>8 DEF Emptied, Written, Adding

LEMMA DropTable ==
  ASSUME Types, Types', Table, NEW e \in Entity, Drop(e), ~Overlap', ~DropsFreed
  PROVE  Table'
<1>1. /\ pc["net"] = "idle" /\ locked = "no" /\ locked' = "no" /\ UNCHANGED pc
      /\ UNCHANGED <<entity, loaded, cursor, bound, doomed, added, finished>>
      /\ capacity' = capacity - 1 /\ gone' = gone \cup {e} /\ e \in added
  BY DEF Drop, loop
<1>2. capacity \in Nat /\ capacity' < capacity
  BY <1>1, Numbers DEF Types
<1>3. pc["win"] = "idle"
  <2>1. pc["win"] \in {"idle", "dispose"}
    BY <1>1 DEF Types, Labels
  <2>2. pc["win"] # "dispose"
    BY <1>1, <1>2 DEF DropsFreed
  <2> QED
    BY <2>1, <2>2
<1>4. /\ Count = capacity /\ Count' = capacity - 1 /\ ~Disposing /\ ~Disposing'
      /\ \A t \in Thread : ~Adding(t) /\ ~Adding(t)'
  BY <1>1, <1>3 DEF Count, Disposing, Adding, Thread
<1>5. PICK i \in 1..capacity : slot[i] = e /\ slot' = [slot EXCEPT ![i] = slot[capacity]]
  BY FirstFound DEF Drop, Types
<1>6. freed[e] = 0
  <2>1. slot[i] \in Present
    BY <1>4 DEF Table, Right
  <2> QED
    BY <1>5, <2>1, PresentAre DEF Types
<1>7. (\A d \in Entity \ {e} : freed'[d] = freed[d]) /\ freed'[e] \in {0, 1}
  <2>1. (\A d \in Entity : freed'[d] = freed[d] + (IF d \in {e} THEN 1 ELSE 0)) \/ UNCHANGED freed
    BY DEF Drop, Free
  <2>2. \A d \in Entity : freed[d] \in Nat
    BY Numbers DEF Types
  <2>3. CASE UNCHANGED freed
    BY <1>6, <2>3
  <2>4. CASE \A d \in Entity : freed'[d] = freed[d] + (IF d \in {e} THEN 1 ELSE 0)
    BY <1>6, <2>2, <2>4
  <2> QED
    BY <2>1, <2>3, <2>4
<1>8. \A d : d \in Present' <=> d \in Present /\ d # slot[i]
  <2>1. \A d : d \in Present' <=> d \in added' /\ d \notin gone' /\ ~(d \in Entity /\ freed'[d] > 0)
    BY DEF Present
  <2>2. \A d : d \in Present <=> d \in added /\ d \notin gone /\ ~(d \in Entity /\ freed[d] > 0)
    BY DEF Present
  <2> QED
    BY <1>1, <1>5, <1>7, <2>1, <2>2
<1>9. Once' /\ Complete' /\ Right' /\ Emptied' /\ Written'
  BY <1>4, <1>5, <1>8, RemovedTable
<1>10. Disposed'
  BY <1>1, <1>7 DEF Table, Disposed
<1>11. Marked'
  <2>1. doomed' = <<>> /\ Len(doomed') = 0
    BY <1>1 DEF Types, Labels
  <2> QED
    BY <1>1, <1>3, <2>1 DEF Marked
<1> QED
  BY <1>9, <1>10, <1>11 DEF Table

LEMMA DisposeTable ==
  ASSUME Types, Types', Table, NEW t \in Thread, Dispose(t), ~Overlap'
  PROVE  Table'
<1>1. pc[t] = "idle" /\ pc'[t] = "dispose" /\ \A u \in Thread \ {t} : pc'[u] = pc[u]
  BY DEF Dispose, Goto, Types, TypeOK, Thread
<1>2. UNCHANGED <<slot, capacity, locked, entity, loaded, cursor, bound, doomed, added, finished>>
  BY DEF Dispose, table, tick, loop
<1>3. /\ \A u \in Thread \ {t} : ~Adding(u) /\ pc[u] # "dispose"
      /\ pc["win"] # "move"
  <2>1. locked' = "no" <=> pc'["win"] \in {"idle", "dispose"}
    BY DEF Types, Labels
  <2> QED
    BY <1>1, <1>2, <2>1 DEF Overlap, Adding, Removing, Thread
<1>4. /\ Count = capacity /\ Count' = capacity /\ ~Disposing /\ Disposing'
      /\ \A u \in Thread : ~Adding(u) /\ ~Adding(u)'
  BY <1>1, <1>2, <1>3 DEF Count, Disposing, Adding, Thread
<1>5. Right /\ Complete /\ Once
  BY DEF Table
<1>6. (\A i \in 1..capacity : slot[i] \in Present) /\ \A d \in Present : \E i \in 1..capacity : slot[i] = d
  <2>1. \A d \in Present : d \in Entity
    BY DEF Present, Types, TypeOK
  <2> QED
    BY <1>4, <1>5, <2>1 DEF Right, Complete, Added
<1>7. (\A d \in Range(Items) : d \in Present) /\ \A d \in Present : d \in Range(Items)
  BY <1>6, ItemsAre DEF Types
<1>8. \A d \in Present : d \in Entity /\ d \in added /\ d \notin gone /\ freed[d] = 0
  <2>1. added \subseteq Entity
    BY DEF Types, TypeOK
  <2> QED
    BY <2>1, PresentAre DEF Types
<1>9. gone' = gone \cup Range(Items)
  BY DEF Dispose
<1>10. \A d : d \notin Present'
  <2>1. \A d \in Entity : d \in Range(Items) \ {Nothing} => d \in gone'
    BY <1>9
  <2>2. \A d \in Entity : d \notin Range(Items) \ {Nothing} => freed'[d] = freed[d]
    <3>1. \A d \in Entity : freed'[d] = freed[d] + (IF d \in Range(Items) \ {Nothing} THEN 1 ELSE 0)
      BY DEF Dispose, Free
    <3>2. \A d \in Entity : freed[d] \in Nat
      BY Numbers DEF Types
    <3> QED
      BY <3>1, <3>2
  <2>3. \A d : d \in Present' => d \in added /\ d \in Entity /\ d \notin gone' /\ ~(freed'[d] > 0)
    BY <1>2 DEF Present, Types, TypeOK
  <2>4. \A d : d \in Present <=> d \in added /\ d \notin gone /\ ~(d \in Entity /\ freed[d] > 0)
    BY DEF Present
  <2> QED
    BY <1>7, <1>9, <2>1, <2>2, <2>3, <2>4
<1>11. Once'
  BY <1>2, <1>4, <1>5 DEF Once
<1>12. Complete' /\ Right'
  BY <1>4 DEF Complete, Right
<1>13. Emptied'
  BY <1>2, <1>4, <1>6, <1>8, <1>10 DEF Emptied
<1>14. Written'
  BY <1>4 DEF Written, Adding
<1>15. Disposed'
  <2>1. gone' \subseteq added'
    BY <1>2, <1>7, <1>8, <1>9 DEF Table, Disposed
  <2>2. ASSUME NEW d \in Entity
        PROVE  freed'[d] <= 1 /\ (freed'[d] = 1 => d \in added' /\ d \in gone' \cup finished')
    <3>1. freed[d] \in Nat /\ freed[d] <= 1 /\ (freed[d] = 1 => d \in added /\ d \in gone \cup finished)
      BY Numbers DEF Types, Table, Disposed
    <3>2. freed'[d] = freed[d] + (IF d \in Range(Items) \ {Nothing} THEN 1 ELSE 0)
      BY DEF Dispose, Free
    <3>3. CASE d \in Range(Items) \ {Nothing}
      <4>1. freed[d] = 0 /\ d \in added /\ d \in gone'
        BY <1>7, <1>8, <1>9, <3>3
      <4>2. freed'[d] = 1
        BY <3>2, <3>3, <4>1
      <4> QED
        BY <1>2, <4>1, <4>2
    <3>4. CASE d \notin Range(Items) \ {Nothing}
      <4>1. freed'[d] = freed[d]
        BY <3>1, <3>2, <3>4
      <4> QED
        BY <1>2, <1>9, <3>1, <4>1
    <3> QED
      BY <3>3, <3>4
  <2> QED
    BY <2>1, <2>2 DEF Disposed
<1>16. Marked'
  BY <1>1, <1>2, <1>4 DEF Table, Marked, Thread
<1> QED
  BY <1>11, <1>12, <1>13, <1>14, <1>15, <1>16 DEF Table

LEMMA ClearTable ==
  ASSUME Types, Types', Table, NEW t \in Thread, Clear(t), ~Overlap'
  PROVE  Table'
<1>1. pc[t] = "dispose" /\ pc'[t] = "idle" /\ \A u \in Thread \ {t} : pc'[u] = pc[u]
  BY DEF Clear, Goto, Types, TypeOK, Thread
<1>2. UNCHANGED <<slot, locked, entity, loaded, cursor, bound, doomed, added, finished, gone, freed>>
  BY DEF Clear, table, tick, loop, history
<1>3. capacity' = 0
  BY DEF Clear
<1>4. locked = "no" <=> pc["win"] \in {"idle", "dispose"}
  BY DEF Types, Labels
<1>5. /\ \A u \in Thread \ {t} : ~Adding(u) /\ pc[u] # "dispose"
      /\ pc["win"] \in {"idle", "dispose"} \/ pc["win"] \in {"update", "step", "store remove"}
  <2>1. ~Overlap /\ pc["win"] \in WinLabel
    BY DEF Table, Types, Labels
  <2> QED
    BY <1>1, <1>4, <2>1 DEF Overlap, Adding, Removing, Thread, WinLabel, AddLabel
<1>6. locked = "no" /\ doomed = <<>> /\ Len(doomed) = 0
  <2>1. locked = "no"
    <3>1. ~Overlap
      BY DEF Table
    <3> QED
      BY <1>1, <1>4, <3>1 DEF Overlap, Thread
  <2> QED
    BY <2>1 DEF Types, Labels
<1>7. /\ Count' = 0 /\ Disposing /\ ~Disposing' /\ \A u \in Thread : ~Adding(u)'
  BY <1>1, <1>3, <1>4, <1>5, <1>6 DEF Count, Disposing, Adding, Thread
<1>8. \A d : d \notin Present'
  <2>1. Present = {}
    BY <1>7 DEF Table, Emptied
  <2> QED
    BY <1>2, <2>1 DEF Present
<1>9. \A i : i \notin 1..Count'
  BY <1>7
<1>10. Once' /\ Complete' /\ Right' /\ Emptied'
  BY <1>7, <1>8, <1>9 DEF Once, Complete, Right, Emptied
<1>11. Written'
  BY <1>7 DEF Written, Adding
<1>12. Disposed'
  BY <1>2 DEF Table, Disposed
<1>13. Marked'
  <2>1. pc'["win"] \in {"idle", "dispose"} /\ locked' = "no"
    BY <1>1, <1>2, <1>4, <1>6 DEF Thread
  <2>2. \A k : k \notin 1..Len(doomed')
    BY <1>2, <1>6
  <2> QED
    BY <2>1, <2>2 DEF Marked
<1> QED
  BY <1>10, <1>11, <1>12, <1>13 DEF Table

LEMMA MoveTable ==
  ASSUME Types, Types', Table, Move, ~Overlap'
  PROVE  Table'
<1>1. pc["win"] = "move" /\ pc'["win"] = "update" /\ pc'["net"] = pc["net"]
  BY DEF Move, Goto, Types, TypeOK, Thread
<1>2. UNCHANGED <<capacity, locked, entity, loaded, cursor, bound, added, finished, gone>>
  BY DEF Move
<1>3. locked = "update" /\ cursor > bound /\ cursor \in Nat /\ bound \in Nat
  BY <1>1, Numbers DEF Types, Labels
<1>4. /\ Count = capacity + 1 /\ Count' = capacity /\ capacity \in Nat /\ capacity + 1 - 1 = capacity
      /\ \A t \in Thread : ~Adding(t) /\ ~Adding(t)'
      /\ ~Disposing /\ ~Disposing'
  <2>1. capacity \in Nat /\ ~Overlap
    BY Numbers DEF Types, Table
  <2>2. capacity + 1 - 1 = capacity
    BY <2>1
  <2> QED
    BY <1>1, <1>2, <1>3, <2>1, <2>2 DEF Count, Adding, Removing, Thread, Disposing, Overlap
<1> DEFINE n == Len(doomed)
<1>5. n \in Nat /\ 1 <= n /\ doomed[n] \in 1..Count /\ Last(doomed) = doomed[n]
  <2>1. Removing
    BY <1>1 DEF Removing
  <2>2. doomed # <<>> /\ doomed \in Seq(1..Slots)
    BY <1>1, DoomedIn DEF Types, Labels
  <2> QED
    BY <2>1, <2>2, SomethingMarked, LastFront
<1>6. PICK i \in 1..Count : i = doomed[n]
  BY <1>5
<1>7. /\ slot' = [slot EXCEPT ![i] = slot[Count]] /\ Free({slot[i]} \ {Nothing})
      /\ doomed' = Front(doomed)
  BY <1>4, <1>5, <1>6 DEF Move
<1>8. slot[i] \in Present /\ slot[i] \in Entity /\ freed[slot[i]] = 0 /\ slot[i] \in added /\ slot[i] \in finished
  <2>1. slot[i] \in Present
    BY <1>4 DEF Table, Right
  <2>2. slot[i] \in finished
    <3>1. n \in 1..n
      BY <1>5
    <3> QED
      BY <1>6, <3>1 DEF Table, Marked
  <2>3. added \subseteq Entity
    BY DEF Types, TypeOK
  <2> QED
    BY <2>1, <2>2, <2>3, PresentAre DEF Types
<1>9. freed'[slot[i]] = 1 /\ \A d \in Entity \ {slot[i]} : freed'[d] = freed[d]
  <2>1. \A d \in Entity : freed'[d] = freed[d] + (IF d \in {slot[i]} \ {Nothing} THEN 1 ELSE 0)
    BY <1>7 DEF Free
  <2>2. \A d \in Entity : freed[d] \in Nat
    BY Numbers DEF Types
  <2>3. Nothing \notin Entity
    BY WorldAssumption
  <2>4. slot[i] \in {slot[i]} \ {Nothing} /\ \A d \in Entity \ {slot[i]} : d \notin {slot[i]} \ {Nothing}
    BY <1>8, <2>3
  <2>5. freed'[slot[i]] = 1
    BY <1>8, <2>1, <2>4
  <2>6. ASSUME NEW d \in Entity \ {slot[i]} PROVE freed'[d] = freed[d]
    BY <2>1, <2>2, <2>4
  <2> QED
    BY <2>5, <2>6
<1>10. \A d : d \in Present' <=> d \in Present /\ d # slot[i]
  <2>1. \A d : d \in Present' <=> d \in added' /\ d \notin gone' /\ ~(d \in Entity /\ freed'[d] > 0)
    BY DEF Present
  <2>2. \A d : d \in Present <=> d \in added /\ d \notin gone /\ ~(d \in Entity /\ freed[d] > 0)
    BY DEF Present
  <2>3. freed'[slot[i]] > 0
    BY <1>9
  <2> QED
    BY <1>2, <1>8, <1>9, <2>1, <2>2, <2>3
<1>11. Count' = Count - 1
  BY <1>4
<1>12. Once' /\ Complete' /\ Right' /\ Emptied' /\ Written'
  BY <1>4, <1>7, <1>10, <1>11, RemovedTable
<1>13. Disposed'
  BY <1>2, <1>8, <1>9 DEF Table, Disposed
<1>14. Marked'
  <2>1. Marked
    BY DEF Table
  <2>2. Len(doomed') = n - 1 /\ \A k \in 1 .. n - 1 : doomed'[k] = doomed[k]
    <3>1. doomed # <<>> /\ doomed \in Seq(1..Slots)
      BY <1>1, DoomedIn DEF Types, Labels
    <3> QED
      BY <1>7, <3>1, LastFront
  <2>3. \A k \in 1 .. n - 1 : k \in 1..n /\ k < n
    BY <1>5
  <2>4. n \in 1..n
    BY <1>5
  <2>5. ASSUME NEW k \in 1..Len(doomed')
        PROVE  doomed'[k] \in 1..Count' /\ doomed'[k] < cursor' /\ slot'[doomed'[k]] \in finished'
    <3>1. k \in 1..n /\ k < n /\ doomed'[k] = doomed[k]
      BY <2>2, <2>3
    <3>2. doomed[k] \in 1..Count /\ doomed[k] < cursor /\ slot[doomed[k]] \in finished /\ doomed[k] < i
      BY <1>6, <2>1, <2>4, <3>1 DEF Marked
    <3>3. doomed[k] \in Nat /\ doomed[k] # i /\ doomed[k] \in 1..capacity
      BY <1>4, <3>2
    <3>4. slot'[doomed[k]] = slot[doomed[k]]
      <4>1. slot \in [1..Slots -> Entity \cup {Nothing}] /\ doomed[k] \in 1..Slots
        BY <3>1, DoomedIn DEF Types, TypeOK
      <4> QED
        BY <1>7, <3>3, <4>1
    <3> QED
      BY <1>2, <1>4, <3>1, <3>2, <3>3, <3>4
  <2>6. \A j, k \in 1..Len(doomed') : j < k => doomed'[j] < doomed'[k]
    BY <2>1, <2>2, <2>3 DEF Marked
  <2>7. ~(cursor' <= bound') /\ pc'["win"] # "store remove"
    BY <1>1, <1>2, <1>3
  <2> QED
    BY <2>5, <2>6, <2>7 DEF Marked
<1> QED
  BY <1>12, <1>13, <1>14 DEF Table

\* A permutation of an interval reaches every index.
LEMMA PermutationReaches ==
  ASSUME NEW c \in Nat, NEW f \in [1..c -> 1..c], IsInjective(f)
  PROVE  /\ \A i \in 1..c : \E j \in 1..c : f[j] = i
         /\ \A i, j \in 1..c : f[i] = f[j] => i = j
<1>1. \A i, j \in 1..c : f[i] = f[j] => i = j
  BY DEF IsInjective
<1>2. f \in Injection(1..c, 1..c)
  BY DEF Injection
<1>3. IsFiniteSet(1..c)
  BY FS_Interval
<1>4. f \in Surjection(1..c, 1..c)
  BY <1>2, <1>3, FS_Injection
<1> QED
  BY <1>1, <1>4 DEF Surjection

LEMMA SortTable ==
  ASSUME Types, Types', Table, Sort, ~Overlap'
  PROVE  Table'
<1>1. pc["win"] = "update" /\ pc'["win"] = "idle" /\ pc'["net"] = pc["net"]
  BY DEF Sort, Goto, Types, TypeOK, Thread
<1>2. UNCHANGED <<capacity, entity, loaded, doomed, added, finished, gone, freed>>
  BY DEF Sort, history
<1>3. locked' = "no" /\ doomed = <<>> /\ Len(doomed) = 0
  BY DEF Sort
<1>4. locked = "update"
  BY <1>1 DEF Types, Labels
<1>5. /\ Count = capacity /\ Count' = capacity /\ ~Disposing /\ ~Disposing'
      /\ \A t \in Thread : Adding(t)' <=> Adding(t)
      /\ ~Adding("win")
  <2>1. ~Overlap
    BY DEF Table
  <2> QED
    BY <1>1, <1>2, <1>4, <2>1 DEF Count, Disposing, Adding, Thread, Overlap
<1>6. capacity \in Nat /\ capacity < Slots /\ Slots \in Nat
  BY RoomLeft DEF Types
<1>7. PICK order \in [1..capacity -> 1..capacity] :
        /\ IsInjective(order)
        /\ slot' = [i \in 1..Slots |-> IF i <= capacity THEN slot[order[i]] ELSE slot[i]]
  BY DEF Sort
<1>8. /\ \A i \in 1..capacity : \E j \in 1..capacity : order[j] = i
      /\ \A i, j \in 1..capacity : order[i] = order[j] => i = j
  BY <1>6, <1>7, PermutationReaches
<1>9. slot'[capacity + 1] = slot[capacity + 1] /\ \A i \in 1..capacity : slot'[i] = slot[order[i]] /\ order[i] \in 1..capacity
  <2>1. \A i \in 1..capacity : i \in 1..Slots /\ i <= capacity /\ order[i] \in 1..capacity
    BY <1>6
  <2>2. capacity + 1 \in 1..Slots /\ ~(capacity + 1 <= capacity)
    BY <1>6
  <2> QED
    BY <1>7, <2>1, <2>2
<1>10. \A d : d \in Present' <=> d \in Present
  BY <1>2 DEF Present
<1>11. \A d : Added(d)' <=> Added(d)
  BY <1>2, <1>5 DEF Added
<1>12. Once /\ Complete /\ Right
  BY DEF Table
<1>13. Once'
  <2> SUFFICES ASSUME NEW i \in 1..capacity, NEW j \in 1..capacity, slot'[i] = slot'[j]
               PROVE  i = j
    BY <1>5 DEF Once
  <2>1. order[i] \in 1..capacity /\ order[j] \in 1..capacity /\ slot[order[i]] = slot[order[j]]
    BY <1>9
  <2>2. order[i] = order[j]
    BY <1>5, <1>12, <2>1 DEF Once
  <2> QED
    BY <1>8, <2>2
<1>14. Complete'
  <2> SUFFICES ASSUME NEW d \in Entity, d \in Present', ~Added(d)'
               PROVE  \E j \in 1..Count' : slot'[j] = d
    BY DEF Complete
  <2>1. PICK i \in 1..capacity : slot[i] = d
    BY <1>5, <1>10, <1>11, <1>12 DEF Complete
  <2>2. PICK j \in 1..capacity : order[j] = i
    BY <1>8
  <2> QED
    BY <1>5, <1>9, <2>1, <2>2
<1>15. Right'
  BY <1>5, <1>9, <1>10, <1>11, <1>12 DEF Right
<1>16. Emptied'
  BY <1>5 DEF Emptied
<1>17. Written'
  BY <1>1, <1>2, <1>5, <1>9, <1>10 DEF Table, Written, Adding, Thread
<1>18. Disposed'
  BY <1>2 DEF Table, Disposed
<1>19. Marked'
  <2>1. \A k : k \notin 1..Len(doomed')
    BY <1>2, <1>3
  <2> QED
    BY <1>1, <1>3, <2>1 DEF Marked
<1> QED
  BY <1>13, <1>14, <1>15, <1>16, <1>17, <1>18, <1>19 DEF Table

-----------------------------------------------------------------------------
(* Every action keeps the reference of the tick right, and of the locks only
   the one the tick holds, unless it moves or removes items under the tick. *)

\* What changes neither the items nor the reference keeps what the tick has.
LEMMA TicksKept ==
  ASSUME Ticks, UNCHANGED <<slot, latch, ref, capacity>>, Count' = Count,
         Ticking' => Ticking, Ticking => entity'["net"] = entity["net"],
         pc'["net"] = "tick place" <=> pc["net"] = "tick place",
         \A t \in Thread : pc'[t] \in {"load", "store"} => pc[t] \in {"load", "store"}
  PROVE  Ticks'
<1>1. Ticking' => ref' <= capacity' /\ slot'[ref'] = entity'["net"]
  BY DEF Ticks
<1>2. \A i \in 1..Count' : latch'[i] <=> pc'["net"] = "tick place" /\ i = ref'
  BY DEF Ticks
<1>3. \A t \in Thread : pc'[t] \in {"load", "store"} => ~latch'[capacity' + 1]
  BY DEF Ticks
<1> QED
  BY <1>1, <1>2, <1>3 DEF Ticks

\* While no tick is under way and nothing is being written, no lock is held.
LEMMA TicksIdle ==
  ASSUME ~Ticking', \A i \in 1..Count' : ~latch'[i],
         \A t \in Thread : pc'[t] \in {"load", "store"} => ~latch'[capacity' + 1]
  PROVE  Ticks'
  BY DEF Ticks, Ticking

\* While no tick is under way no lock is held.
LEMMA LatchesFree ==
  ASSUME Ticks, ~Ticking
  PROVE  \A i \in 1..Count : ~latch[i]
  BY DEF Ticks, Ticking

LEMMA WriteTicks ==
  ASSUME Types, Types', Table, Ticks, NEW t \in Thread, Write(t)
  PROVE  Ticks'
<1>1. pc[t] = "write" /\ pc'[t] = "load" /\ \A u \in Thread \ {t} : pc'[u] = pc[u]
  BY DEF Write, Goto, Types, TypeOK, Thread
<1>2. UNCHANGED <<capacity, entity, ref>>
  BY DEF Write, tick
<1>3. capacity \in Nat /\ Slots \in Nat /\ ref \in Nat /\ capacity + 1 \in 1..Slots /\ capacity < Slots
  <2>1. capacity \in Nat /\ Slots \in Nat /\ ref \in Nat /\ capacity < Slots
    BY Numbers, RoomLeft DEF Types
  <2> QED
    BY <2>1
<1>4. Count = capacity /\ Count' = capacity
  BY <1>1, <1>2 DEF Table, Overlap, Adding, Removing, Count, Thread
<1>5. /\ \A i \in 1..Slots : i # capacity + 1 => slot'[i] = slot[i] /\ latch'[i] = latch[i]
      /\ latch'[capacity + 1] = FALSE
  <2>1. slot \in [1..Slots -> Entity \cup {Nothing}] /\ latch \in [1..Slots -> BOOLEAN]
    BY DEF Types, TypeOK
  <2> QED
    BY <1>3, <2>1 DEF Write
<1>6. \A i \in 1..capacity : i \in 1..Slots /\ i # capacity + 1
  BY <1>3
<1>7. /\ Ticking' => Ticking
      /\ pc'["net"] = "tick place" <=> pc["net"] = "tick place"
  BY <1>1 DEF Ticking, Thread
<1>8. ASSUME Ticking' PROVE ref' <= capacity' /\ slot'[ref'] = entity'["net"]
  <2>1. ref <= capacity /\ slot[ref] = entity["net"] /\ ref # 0
    BY <1>7, <1>8 DEF Ticks, Types, Labels
  <2>2. ref \in 1..capacity
    BY <1>3, <2>1
  <2> QED
    BY <1>2, <1>5, <1>6, <2>1, <2>2
<1>9. \A i \in 1..Count' : latch'[i] <=> pc'["net"] = "tick place" /\ i = ref'
  BY <1>2, <1>4, <1>5, <1>6, <1>7 DEF Ticks
<1>10. ~latch'[capacity' + 1]
  BY <1>2, <1>5
<1> QED
  BY <1>8, <1>9, <1>10 DEF Ticks

LEMMA LoadTicks ==
  ASSUME Types, Types', Table, Ticks, NEW t \in Thread, Load(t)
  PROVE  Ticks'
<1>1. pc[t] = "load" /\ pc'[t] = "store" /\ \A u \in Thread \ {t} : pc'[u] = pc[u]
  BY DEF Load, Goto, Types, TypeOK, Thread
<1>2. UNCHANGED <<slot, latch, ref, capacity>> /\ UNCHANGED entity
  BY DEF Load, tick, table
<1>3. Count' = Count /\ (Ticking' <=> Ticking) /\ (pc'["net"] = "tick place" <=> pc["net"] = "tick place")
  BY <1>1, <1>2 DEF Count, Ticking, Thread
<1>4. \A u \in Thread : pc'[u] \in {"load", "store"} => pc[u] \in {"load", "store"}
  BY <1>1
<1> QED
  BY <1>2, <1>3, <1>4, TicksKept

LEMMA StoreTicks ==
  ASSUME Types, Types', Table, Ticks, NEW t \in Thread, Store(t)
  PROVE  Ticks'
<1>1. pc[t] = "store" /\ pc'[t] \in {"idle", "update"} /\ \A u \in Thread \ {t} : pc'[u] = pc[u]
  BY DEF Store, Goto, Types, TypeOK, Thread
<1>2. UNCHANGED <<slot, latch, ref>> /\ entity' = [entity EXCEPT ![t] = Nothing]
  BY DEF Store, tick
<1>3. \A u \in Thread \ {t} : ~Adding(u)
  BY <1>1 DEF Table, Overlap, Adding, Thread
<1>4. capacity' = capacity + 1 /\ capacity \in Nat /\ ref \in Nat
  BY <1>1, Numbers DEF Store, Table, Written, Types
<1>5. Count = capacity /\ Count' = capacity + 1
  BY <1>1, <1>4 DEF Table, Overlap, Adding, Removing, Count, Thread
<1>6. /\ Ticking' => Ticking /\ entity'["net"] = entity["net"]
      /\ pc'["net"] = "tick place" <=> pc["net"] = "tick place"
  <2>1. t = "win" => entity'["net"] = entity["net"]
    BY <1>2 DEF Types, TypeOK, Thread
  <2> QED
    BY <1>1, <2>1 DEF Ticking, Thread
<1>7. Ticking => ref <= capacity /\ slot[ref] = entity["net"]
  BY DEF Ticks
<1>8. Ticking' => ref' <= capacity' /\ slot'[ref'] = entity'["net"]
  <2>1. ref <= capacity => ref <= capacity + 1
    BY <1>4
  <2> QED
    BY <1>2, <1>4, <1>6, <1>7, <2>1
<1>9. ~latch[capacity + 1]
  BY <1>1 DEF Ticks
<1>10. ASSUME NEW i \in 1..Count' PROVE latch'[i] <=> pc'["net"] = "tick place" /\ i = ref'
  <2>1. CASE i \in 1..capacity
    BY <1>2, <1>5, <1>6, <2>1 DEF Ticks
  <2>2. CASE i = capacity + 1
    <3>1. pc["net"] = "tick place" => i # ref
      <4>1. ref <= capacity => ref # capacity + 1
        BY <1>4
      <4> QED
        BY <1>7, <2>2, <4>1 DEF Ticking
    <3> QED
      BY <1>2, <1>6, <1>9, <2>2, <3>1
  <2>3. i \in 1..capacity \/ i = capacity + 1
    BY <1>4, <1>5
  <2> QED
    BY <2>1, <2>2, <2>3
<1>11. \A u \in Thread : pc'[u] \notin {"load", "store"}
  BY <1>1, <1>3 DEF Adding
<1> QED
  BY <1>8, <1>10, <1>11 DEF Ticks

LEMMA NewEntityTicks ==
  ASSUME Types, Types', Table, Ticks, NEW e \in Entity, NewEntity(e)
  PROVE  Ticks'
<1>1. pc["net"] = "idle" /\ pc'["net"] = "write" /\ pc'["win"] = pc["win"]
  BY DEF NewEntity, AddToMap, Goto, Types, TypeOK, Thread
<1>2. UNCHANGED <<slot, latch, ref, capacity>>
  BY DEF NewEntity, tick, table
<1>3. Count' = Count /\ ~Ticking' /\ ~Ticking /\ pc'["net"] # "tick place" /\ pc["net"] # "tick place"
  BY <1>1, <1>2 DEF Count, Ticking
<1>4. \A u \in Thread : pc'[u] \in {"load", "store"} => pc[u] \in {"load", "store"}
  BY <1>1 DEF Thread
<1> QED
  BY <1>2, <1>3, <1>4, TicksKept

LEMMA ShootTicks ==
  ASSUME Types, Types', Table, Ticks, NEW e \in Entity, Shoot(e) \/ Spawns(e)
  PROVE  Ticks'
<1>1. pc["win"] \in {"idle", "update"} /\ pc'["win"] = "write" /\ pc'["net"] = pc["net"]
  BY DEF Shoot, Spawns, AddToMap, Goto, Types, TypeOK, Thread
<1>2. UNCHANGED <<slot, latch, ref, capacity>>
  BY DEF Shoot, Spawns, tick, table
<1>3. entity'["net"] = entity["net"]
  BY DEF Shoot, Spawns, AddToMap, Types, TypeOK, Thread
<1>4. Count' = Count /\ (Ticking' <=> Ticking)
  BY <1>1, <1>2 DEF Count, Ticking
<1>5. \A u \in Thread : pc'[u] \in {"load", "store"} => pc[u] \in {"load", "store"}
  BY <1>1 DEF Thread
<1> QED
  BY <1>1, <1>2, <1>3, <1>4, <1>5, TicksKept

LEMMA DisposeTicks ==
  ASSUME Types, Types', Table, Ticks, NEW t \in Thread, Dispose(t)
  PROVE  Ticks'
<1>1. pc[t] = "idle" /\ pc'[t] = "dispose" /\ \A u \in Thread \ {t} : pc'[u] = pc[u]
  BY DEF Dispose, Goto, Types, TypeOK, Thread
<1>2. UNCHANGED <<slot, latch, ref, capacity>> /\ UNCHANGED entity
  BY DEF Dispose, tick, table
<1>3. Count' = Count /\ (Ticking' => Ticking) /\ (pc'["net"] = "tick place" <=> pc["net"] = "tick place")
  BY <1>1, <1>2 DEF Count, Ticking, Thread
<1>4. \A u \in Thread : pc'[u] \in {"load", "store"} => pc[u] \in {"load", "store"}
  BY <1>1
<1> QED
  BY <1>2, <1>3, <1>4, TicksKept

LEMMA ClearTicks ==
  ASSUME Types, Types', Table, Ticks, NEW t \in Thread, Clear(t), ~shifted'
  PROVE  Ticks'
<1>1. pc[t] = "dispose" /\ pc'[t] = "idle" /\ \A u \in Thread \ {t} : pc'[u] = pc[u]
  BY DEF Clear, Goto, Types, TypeOK, Thread
<1>2. ~Ticking'
  BY <1>1 DEF Clear, Shifts, Ticking, Thread
<1>3. \A u \in Thread \ {t} : ~Adding(u) /\ pc[u] # "move"
  <2>1. /\ ~Overlap /\ pc["net"] # "move"
        /\ locked = "no" <=> pc["win"] \in {"idle", "dispose"}
    BY DEF Table, Types, Labels, NetLabel, AddLabel
  <2> QED
    BY <1>1, <2>1 DEF Overlap, Adding, Thread
<1>4. \A u \in Thread : pc'[u] \notin {"load", "store"}
  BY <1>1, <1>3 DEF Adding
<1>5. \A i : i \notin 1..Count'
  <2>1. pc'["win"] # "move" /\ capacity' = 0
    BY <1>1, <1>3 DEF Clear, Thread, Types, Labels, NetLabel, AddLabel
  <2>2. Count' = 0
    BY <2>1 DEF Count
  <2> QED
    BY <2>2
<1> QED
  BY <1>2, <1>4, <1>5, TicksIdle

LEMMA DropTicks ==
  ASSUME Types, Types', Table, Ticks, NEW e \in Entity, Drop(e)
  PROVE  Ticks'
<1>1. pc["net"] = "idle" /\ locked = "no" /\ UNCHANGED pc /\ capacity' = capacity - 1
  BY DEF Drop
<1>2. pc["win"] \in {"idle", "dispose"}
  BY <1>1 DEF Types, Labels
<1>3. ~Ticking /\ ~Ticking' /\ \A u \in Thread : pc'[u] \notin {"load", "store"}
  BY <1>1, <1>2 DEF Ticking, Thread
<1>4. Count = capacity /\ Count' = capacity - 1 /\ capacity \in Nat /\ Slots \in Nat /\ capacity <= Slots
  BY <1>1, <1>2, Numbers DEF Count, Types
<1>5. PICK i \in 1..capacity : latch' = [latch EXCEPT ![i] = latch[capacity]]
  BY FirstFound DEF Drop, Types
<1>6. \A j \in 1..capacity : ~latch[j]
  BY <1>3, <1>4, LatchesFree
<1>7. \A j \in 1..Count' : ~latch'[j]
  <2>1. capacity \in 1..capacity /\ \A j \in 1..Count' : j \in 1..capacity /\ j \in 1..Slots
    BY <1>4, <1>5
  <2>2. latch \in [1..Slots -> BOOLEAN]
    BY DEF Types, TypeOK
  <2> QED
    BY <1>5, <1>6, <2>1, <2>2
<1> QED
  BY <1>3, <1>7, TicksIdle

LEMMA MoveTicks ==
  ASSUME Types, Types', Table, Ticks, Move, ~shifted'
  PROVE  Ticks'
<1>1. pc["win"] = "move" /\ pc'["win"] = "update" /\ pc'["net"] = pc["net"] /\ UNCHANGED capacity
  BY DEF Move, Goto, Types, TypeOK, Thread
<1>2. ~Ticking /\ ~Ticking'
  BY <1>1 DEF Move, Shifts, Ticking
<1>3. \A u \in Thread : pc'[u] \notin {"load", "store"}
  BY <1>1 DEF Table, Overlap, Removing, Adding, Thread
<1>4. Count = capacity + 1 /\ Count' = capacity /\ capacity \in Nat /\ Slots \in Nat /\ capacity < Slots
  <2>1. capacity \in Nat /\ Slots \in Nat /\ capacity < Slots
    BY RoomLeft DEF Types
  <2> QED
    BY <1>1, <2>1 DEF Count
<1>5. \A j \in 1 .. capacity + 1 : ~latch[j]
  BY <1>2, <1>4, LatchesFree
<1>6. \A j \in 1..Count' : ~latch'[j]
  <2>1. latch' = [latch EXCEPT ![Last(doomed)] = latch[capacity + 1]]
    BY DEF Move
  <2>2. capacity + 1 \in 1 .. capacity + 1 /\ \A j \in 1..Count' : j \in 1 .. capacity + 1 /\ j \in 1..Slots
    BY <1>4
  <2>3. latch \in [1..Slots -> BOOLEAN]
    BY DEF Types, TypeOK
  <2> QED
    BY <1>5, <2>1, <2>2, <2>3
<1> QED
  BY <1>2, <1>3, <1>6, TicksIdle

LEMMA SortTicks ==
  ASSUME Types, Types', Table, Ticks, Sort, ~shifted'
  PROVE  Ticks'
<1>1. pc["win"] = "update" /\ pc'["win"] = "idle" /\ pc'["net"] = pc["net"] /\ UNCHANGED capacity
  BY DEF Sort, Goto, Types, TypeOK, Thread
<1>2. ~Ticking /\ ~Ticking'
  BY <1>1 DEF Sort, Shifts, Ticking
<1>3. Count = capacity /\ Count' = capacity /\ capacity \in Nat /\ Slots \in Nat /\ capacity < Slots
  BY <1>1, RoomLeft DEF Count, Types
<1>4. \A j \in 1..capacity : ~latch[j]
  BY <1>2, <1>3, LatchesFree
<1>5. PICK order \in [1..capacity -> 1..capacity] :
        latch' = [i \in 1..Slots |-> IF i <= capacity THEN latch[order[i]] ELSE latch[i]]
  BY DEF Sort
<1>6. \A j \in 1..Count' : ~latch'[j]
  <2>1. \A j \in 1..Count' : j \in 1..Slots /\ j <= capacity /\ order[j] \in 1..capacity
    BY <1>3
  <2> QED
    BY <1>4, <1>5, <2>1
<1>7. latch'[capacity' + 1] = latch[capacity + 1]
  <2>1. capacity + 1 \in 1..Slots /\ ~(capacity + 1 <= capacity)
    BY <1>3
  <2> QED
    BY <1>1, <1>5, <2>1
<1>8. \A u \in Thread : pc'[u] \in {"load", "store"} => ~latch'[capacity' + 1]
  BY <1>1, <1>7 DEF Ticks, Thread
<1> QED
  BY <1>2, <1>6, <1>8, TicksIdle

LEMMA StoreRemoveTicks ==
  ASSUME Types, Types', Table, Ticks, StoreRemove, ~shifted'
  PROVE  Ticks'
<1>1. pc["win"] = "store remove"
  BY DEF StoreRemove
<1>2. Count = capacity /\ loaded["win"] = capacity /\ capacity \in Nat /\ capacity # 0
  <2>1. Removing
    BY <1>1 DEF Removing
  <2>2. Count = capacity /\ loaded["win"] = capacity
    BY <1>1, <2>1, SomethingMarked
  <2>3. Count \in Nat /\ 1 <= Count
    BY <2>1, SomethingMarked
  <2> QED
    BY <2>2, <2>3
<1>3. capacity' = capacity - 1 /\ pc'["win"] = "move" /\ pc'["net"] = pc["net"] /\ UNCHANGED latch
  BY <1>2 DEF StoreRemove, Goto, Types, TypeOK, Thread
<1>4. ~Ticking /\ ~Ticking'
  BY <1>3 DEF StoreRemove, Shifts, Ticking
<1>5. \A u \in Thread : pc'[u] \notin {"load", "store"}
  BY <1>1, <1>3 DEF Table, Overlap, Removing, Adding, Thread
<1>6. Count' = Count
  BY <1>2, <1>3 DEF Count
<1>7. \A j \in 1..Count' : ~latch'[j]
  BY <1>3, <1>4, <1>6, LatchesFree
<1> QED
  BY <1>4, <1>5, <1>7, TicksIdle

LEMMA FindEntityTicks ==
  ASSUME Types, Types', Table, Ticks, NEW e \in Entity, FindEntity(e)
  PROVE  Ticks'
<1>1. pc["net"] = "idle" /\ pc'["net"] \in {"tick lock", "tick stats"} /\ pc'["win"] = pc["win"]
  BY DEF FindEntity, Goto, Types, TypeOK, Thread
<1>2. UNCHANGED <<slot, latch, capacity>> /\ entity' = [entity EXCEPT !["net"] = e]
  BY DEF FindEntity, table
<1>3. Count' = Count /\ ~Ticking /\ pc'["net"] # "tick place"
  BY <1>1, <1>2 DEF Count, Ticking
<1>4. ref' \in 1..capacity /\ slot[ref'] = e
  BY FirstFound DEF FindEntity, Types
<1>5. ref' <= capacity' /\ slot'[ref'] = entity'["net"]
  <2>1. entity'["net"] = e
    BY <1>2 DEF Types, TypeOK, Thread
  <2>2. ref' <= capacity
    BY <1>4
  <2> QED
    BY <1>2, <1>4, <2>1, <2>2
<1>6. \A i \in 1..Count' : ~latch'[i]
  BY <1>2, <1>3, LatchesFree
<1>7. \A u \in Thread : pc'[u] \in {"load", "store"} => pc[u] \in {"load", "store"}
  BY <1>1 DEF Thread
<1>8. \A u \in Thread : pc'[u] \in {"load", "store"} => ~latch'[capacity' + 1]
  BY <1>2, <1>7 DEF Ticks
<1> QED
  BY <1>3, <1>5, <1>6, <1>8 DEF Ticks

LEMMA TickLockTicks ==
  ASSUME Types, Types', Table, Ticks, TickLock
  PROVE  Ticks'
<1>1. pc["net"] = "tick lock" /\ pc'["net"] = "tick place" /\ pc'["win"] = pc["win"]
  BY DEF TickLock, Goto, Types, TypeOK, Thread
<1>2. UNCHANGED <<slot, capacity, entity, ref>> /\ latch' = [latch EXCEPT ![ref] = TRUE]
  BY DEF TickLock, tick
<1>3. Count' = Count /\ Ticking
  BY <1>1, <1>2 DEF Count, Ticking
<1>4. ref <= capacity /\ slot[ref] = entity["net"] /\ ref # 0
  BY <1>3 DEF Ticks, Types, Labels
<1>5. capacity \in Nat /\ ref \in Nat /\ Slots \in Nat /\ capacity < Slots
  BY Numbers, RoomLeft DEF Types
<1>6. ref \in 1..Slots /\ capacity + 1 # ref /\ capacity + 1 \in 1..Slots
  BY <1>4, <1>5
<1>7. latch'[ref] /\ \A i \in 1..Slots : i # ref => latch'[i] = latch[i]
  BY <1>2, <1>6 DEF Types, TypeOK
<1>8. \A i \in 1..Count : i \in 1..Slots
  BY <1>5 DEF Count
<1>9. \A i \in 1..Count : i # ref => ~latch[i]
  BY DEF Ticks
<1>10. \A i \in 1..Count' : latch'[i] <=> pc'["net"] = "tick place" /\ i = ref'
  BY <1>1, <1>2, <1>3, <1>7, <1>8, <1>9
<1>11. \A u \in Thread : pc'[u] \in {"load", "store"} => pc[u] \in {"load", "store"}
  BY <1>1 DEF Thread
<1>12. \A u \in Thread : pc'[u] \in {"load", "store"} => ~latch'[capacity' + 1]
  BY <1>2, <1>6, <1>7, <1>11 DEF Ticks
<1> QED
  BY <1>2, <1>4, <1>10, <1>12 DEF Ticks

LEMMA TickUnlockTicks ==
  ASSUME Types, Types', Table, Ticks, TickUnlock
  PROVE  Ticks' /\ ~panicked'
<1>1. pc["net"] = "tick place" /\ pc'["net"] = "tick stats" /\ pc'["win"] = pc["win"]
  BY DEF TickUnlock, Goto, Types, TypeOK, Thread
<1>2. UNCHANGED <<slot, capacity, entity, ref>> /\ latch' = [latch EXCEPT ![ref] = FALSE]
  BY DEF TickUnlock, tick
<1>3. Count' = Count /\ Ticking
  BY <1>1, <1>2 DEF Count, Ticking
<1>4. ref <= capacity /\ slot[ref] = entity["net"] /\ ref # 0
  BY <1>3 DEF Ticks, Types, Labels
<1>5. capacity \in Nat /\ ref \in Nat /\ Slots \in Nat /\ capacity < Slots
  BY Numbers, RoomLeft DEF Types
<1>6. ref \in 1..Slots /\ capacity + 1 # ref /\ capacity + 1 \in 1..Slots /\ ref \in 1..Count
  <2>1. ref \in 1..Slots /\ capacity + 1 # ref /\ capacity + 1 \in 1..Slots
    BY <1>4, <1>5
  <2>2. ref \in 1..Count
    BY <1>4, <1>5 DEF Count
  <2> QED
    BY <2>1, <2>2
<1>7. ~latch'[ref] /\ \A i \in 1..Slots : i # ref => latch'[i] = latch[i]
  BY <1>2, <1>6 DEF Types, TypeOK
<1>8. \A i \in 1..Count : i \in 1..Slots
  BY <1>5 DEF Count
<1>9. latch[ref] /\ \A i \in 1..Count : i # ref => ~latch[i]
  BY <1>1, <1>6 DEF Ticks
<1>10. \A i \in 1..Count' : ~latch'[i]
  BY <1>3, <1>7, <1>8, <1>9
<1>11. \A u \in Thread : pc'[u] \in {"load", "store"} => pc[u] \in {"load", "store"}
  BY <1>1 DEF Thread
<1>12. \A u \in Thread : pc'[u] \in {"load", "store"} => ~latch'[capacity' + 1]
  BY <1>2, <1>6, <1>7, <1>11 DEF Ticks
<1>13. Ticks'
  BY <1>1, <1>2, <1>4, <1>10, <1>12 DEF Ticks
<1>14. ~panicked'
  BY <1>9 DEF TickUnlock
<1> QED
  BY <1>13, <1>14

LEMMA TickStatsTicks ==
  ASSUME Types, Types', Table, Ticks, TickStats
  PROVE  Ticks'
<1>1. pc["net"] = "tick stats" /\ pc'["net"] = "idle" /\ pc'["win"] = pc["win"]
  BY DEF TickStats, Goto, Types, TypeOK, Thread
<1>2. UNCHANGED <<slot, latch, capacity>>
  BY DEF TickStats, table
<1>3. Count' = Count /\ ~Ticking'
  BY <1>1, <1>2 DEF Count, Ticking
<1>4. \A i \in 1..Count' : ~latch'[i]
  BY <1>1, <1>2, <1>3 DEF Ticks
<1>5. \A u \in Thread : pc'[u] \in {"load", "store"} => pc[u] \in {"load", "store"}
  BY <1>1 DEF Thread
<1>6. \A u \in Thread : pc'[u] \in {"load", "store"} => ~latch'[capacity' + 1]
  BY <1>2, <1>5 DEF Ticks
<1> QED
  BY <1>3, <1>4, <1>6, TicksIdle

\* The steps of map.update that change neither an item nor a reference.
LEMMA LoopTicks ==
  ASSUME Types, Types', Ticks,
         Update \/ Lives \/ WantsLock \/ Moves \/ Finishes \/ LoadRemove
  PROVE  Ticks'
<1>1. pc'["net"] = pc["net"] /\ pc["win"] # "move" /\ pc'["win"] \notin {"move", "load", "store"}
  BY DEF Update, Lives, WantsLock, Moves, Finishes, LoadRemove, Goto, Types, TypeOK, Thread
<1>2. UNCHANGED <<slot, latch, ref, capacity>> /\ UNCHANGED entity
  BY DEF Update, Lives, WantsLock, Moves, Finishes, LoadRemove, table, tick
<1>3. Count' = Count /\ (Ticking' <=> Ticking)
  BY <1>1, <1>2 DEF Count, Ticking
<1>4. \A u \in Thread : pc'[u] \in {"load", "store"} => pc[u] \in {"load", "store"}
  BY <1>1 DEF Thread
<1> QED
  BY <1>1, <1>2, <1>3, <1>4, TicksKept

-----------------------------------------------------------------------------
(* The inductive invariant, and what it says. *)

\* Every step keeps the types.
LEMMA NextTypes ==
  ASSUME Types, Next
  PROVE  Types'
<1>1. overlapped' \in BOOLEAN
  BY DEF Next
<1>2. ASSUME NEW t \in Thread, Write(t) PROVE Types'
  BY <1>1, <1>2, WriteTypes
<1>3. ASSUME NEW t \in Thread, Load(t) PROVE Types'
  BY <1>1, <1>3, LoadTypes
<1>4. ASSUME NEW t \in Thread, Store(t) PROVE Types'
  BY <1>1, <1>4, StoreTypes
<1>5. ASSUME NEW t \in Thread, Dispose(t) PROVE Types'
  BY <1>1, <1>5, DisposeTypes
<1>6. ASSUME NEW t \in Thread, Clear(t) PROVE Types'
  BY <1>1, <1>6, ClearTypes
<1>7. ASSUME NEW e \in Entity, NewEntity(e) PROVE Types'
  BY <1>1, <1>7, NewEntityTypes
<1>8. ASSUME NEW e \in Entity, FindEntity(e) PROVE Types'
  BY <1>1, <1>8, FindEntityTypes
<1>9. ASSUME NEW e \in Entity, Shoot(e) PROVE Types'
  BY <1>1, <1>9, ShootTypes
<1>10. ASSUME NEW e \in Entity, Spawns(e) PROVE Types'
  BY <1>1, <1>10, SpawnsTypes
<1>11. ASSUME NEW e \in Entity, Drop(e) PROVE Types'
  BY <1>1, <1>11, DropTypes
<1>12. CASE TickLock
  BY <1>1, <1>12, TickLockTypes
<1>13. CASE TickUnlock
  BY <1>1, <1>13, TickUnlockTypes
<1>14. CASE TickStats
  BY <1>1, <1>14, TickStatsTypes
<1>15. CASE Update
  BY <1>1, <1>15, UpdateTypes
<1>16. CASE Lives
  BY <1>1, <1>16, LivesTypes
<1>17. CASE WantsLock
  BY <1>1, <1>17, WantsLockTypes
<1>18. CASE Moves
  BY <1>1, <1>18, MovesTypes
<1>19. CASE Finishes
  BY <1>1, <1>19, FinishesTypes
<1>20. CASE LoadRemove
  BY <1>1, <1>20, LoadRemoveTypes
<1>21. CASE StoreRemove
  BY <1>1, <1>21, StoreRemoveTypes
<1>22. CASE Move
  BY <1>1, <1>22, MoveTypes
<1>23. CASE Sort
  BY <1>1, <1>23, SortTypes
<1> QED
  BY <1>2, <1>3, <1>4, <1>5, <1>6, <1>7, <1>8, <1>9, <1>10, <1>11, <1>12, <1>13, <1>14, <1>15,
     <1>16, <1>17, <1>18, <1>19, <1>20, <1>21, <1>22, <1>23 DEF Next, Add

\* Every step keeps the table right, unless two changes overlap in it.
LEMMA NextTable ==
  ASSUME Types, Types', Table, Next, ~overlapped'
  PROVE  Table'
<1>1. ~Overlap' /\ ~DropsFreed
  BY DEF Next
<1>2. ASSUME NEW t \in Thread, Write(t) PROVE Table'
  BY <1>1, <1>2, WriteTable
<1>3. ASSUME NEW t \in Thread, Load(t) PROVE Table'
  BY <1>1, <1>3, LoadTable
<1>4. ASSUME NEW t \in Thread, Store(t) PROVE Table'
  BY <1>1, <1>4, StoreTable
<1>5. ASSUME NEW t \in Thread, Dispose(t) PROVE Table'
  BY <1>1, <1>5, DisposeTable
<1>6. ASSUME NEW t \in Thread, Clear(t) PROVE Table'
  BY <1>1, <1>6, ClearTable
<1>7. ASSUME NEW e \in Entity, NewEntity(e) PROVE Table'
  BY <1>1, <1>7, NewEntityTable
<1>8. ASSUME NEW e \in Entity, FindEntity(e) PROVE Table'
  BY <1>1, <1>8, FindEntityTable
<1>9. ASSUME NEW e \in Entity, Shoot(e) PROVE Table'
  BY <1>1, <1>9, ShootTable
<1>10. ASSUME NEW e \in Entity, Spawns(e) PROVE Table'
  BY <1>1, <1>10, SpawnsTable
<1>11. ASSUME NEW e \in Entity, Drop(e) PROVE Table'
  BY <1>1, <1>11, DropTable
<1>12. CASE TickLock
  BY <1>1, <1>12, TickLockTable
<1>13. CASE TickUnlock
  BY <1>1, <1>13, TickUnlockTable
<1>14. CASE TickStats
  BY <1>1, <1>14, TickStatsTable
<1>15. CASE Update
  BY <1>1, <1>15, UpdateTable
<1>16. CASE Lives
  BY <1>1, <1>16, LivesTable
<1>17. CASE WantsLock
  BY <1>1, <1>17, WantsLockTable
<1>18. CASE Moves
  BY <1>1, <1>18, MovesTable
<1>19. CASE Finishes
  BY <1>1, <1>19, FinishesTable
<1>20. CASE LoadRemove
  BY <1>1, <1>20, LoadRemoveTable
<1>21. CASE StoreRemove
  BY <1>1, <1>21, StoreRemoveTable
<1>22. CASE Move
  BY <1>1, <1>22, MoveTable
<1>23. CASE Sort
  BY <1>1, <1>23, SortTable
<1> QED
  BY <1>2, <1>3, <1>4, <1>5, <1>6, <1>7, <1>8, <1>9, <1>10, <1>11, <1>12, <1>13, <1>14, <1>15,
     <1>16, <1>17, <1>18, <1>19, <1>20, <1>21, <1>22, <1>23 DEF Next, Add

\* Every step keeps the reference of a tick right, unless the window thread
\* moves or removes items under it.
LEMMA NextTicks ==
  ASSUME Types, Types', Table, Ticks, Next, ~shifted'
  PROVE  Ticks'
<1>1. ASSUME NEW t \in Thread, Write(t) PROVE Ticks'
  BY <1>1, WriteTicks
<1>2. ASSUME NEW t \in Thread, Load(t) PROVE Ticks'
  BY <1>2, LoadTicks
<1>3. ASSUME NEW t \in Thread, Store(t) PROVE Ticks'
  BY <1>3, StoreTicks
<1>4. ASSUME NEW t \in Thread, Dispose(t) PROVE Ticks'
  BY <1>4, DisposeTicks
<1>5. ASSUME NEW t \in Thread, Clear(t) PROVE Ticks'
  BY <1>5, ClearTicks
<1>6. ASSUME NEW e \in Entity, NewEntity(e) PROVE Ticks'
  BY <1>6, NewEntityTicks
<1>7. ASSUME NEW e \in Entity, FindEntity(e) PROVE Ticks'
  BY <1>7, FindEntityTicks
<1>8. ASSUME NEW e \in Entity, Shoot(e) PROVE Ticks'
  BY <1>8, ShootTicks
<1>9. ASSUME NEW e \in Entity, Spawns(e) PROVE Ticks'
  BY <1>9, ShootTicks
<1>10. ASSUME NEW e \in Entity, Drop(e) PROVE Ticks'
  BY <1>10, DropTicks
<1>11. CASE TickLock
  BY <1>11, TickLockTicks
<1>12. CASE TickUnlock
  BY <1>12, TickUnlockTicks
<1>13. CASE TickStats
  BY <1>13, TickStatsTicks
<1>14. CASE Update
  BY <1>14, LoopTicks
<1>15. CASE Lives
  BY <1>15, LoopTicks
<1>16. CASE WantsLock
  BY <1>16, LoopTicks
<1>17. CASE Moves
  BY <1>17, LoopTicks
<1>18. CASE Finishes
  BY <1>18, LoopTicks
<1>19. CASE LoadRemove
  BY <1>19, LoopTicks
<1>20. CASE StoreRemove
  BY <1>20, StoreRemoveTicks
<1>21. CASE Move
  BY <1>21, MoveTicks
<1>22. CASE Sort
  BY <1>22, SortTicks
<1> QED
  BY <1>1, <1>2, <1>3, <1>4, <1>5, <1>6, <1>7, <1>8, <1>9, <1>10, <1>11, <1>12, <1>13, <1>14,
     <1>15, <1>16, <1>17, <1>18, <1>19, <1>20, <1>21, <1>22 DEF Next, Add

\* capacity is not decremented at 0 and no free lock is released, unless two
\* changes overlapped or items were moved under a tick.
LEMMA NextPanics ==
  ASSUME Types, Types', ~panicked, Next, ~overlapped => Table, ~overlapped /\ ~shifted => Ticks
  PROVE  UnderflowNeedsOverlap'
<1>1. ASSUME NEW t \in Thread, Write(t) PROVE UnderflowNeedsOverlap'
  BY <1>1 DEF UnderflowNeedsOverlap, Write
<1>2. ASSUME NEW t \in Thread, Load(t) PROVE UnderflowNeedsOverlap'
  BY <1>2 DEF UnderflowNeedsOverlap, Load
<1>3. ASSUME NEW t \in Thread, Store(t) PROVE UnderflowNeedsOverlap'
  BY <1>3 DEF UnderflowNeedsOverlap, Store
<1>4. ASSUME NEW t \in Thread, Dispose(t) PROVE UnderflowNeedsOverlap'
  BY <1>4 DEF UnderflowNeedsOverlap, Dispose
<1>5. ASSUME NEW t \in Thread, Clear(t) PROVE UnderflowNeedsOverlap'
  BY <1>5 DEF UnderflowNeedsOverlap, Clear
<1>6. ASSUME NEW e \in Entity, NewEntity(e) PROVE UnderflowNeedsOverlap'
  BY <1>6 DEF UnderflowNeedsOverlap, NewEntity
<1>7. ASSUME NEW e \in Entity, FindEntity(e) PROVE UnderflowNeedsOverlap'
  BY <1>7 DEF UnderflowNeedsOverlap, FindEntity
<1>8. ASSUME NEW e \in Entity, Shoot(e) PROVE UnderflowNeedsOverlap'
  BY <1>8 DEF UnderflowNeedsOverlap, Shoot
<1>9. ASSUME NEW e \in Entity, Spawns(e) PROVE UnderflowNeedsOverlap'
  BY <1>9 DEF UnderflowNeedsOverlap, Spawns
<1>10. ASSUME NEW e \in Entity, Drop(e) PROVE UnderflowNeedsOverlap'
  BY <1>10 DEF UnderflowNeedsOverlap, Drop
<1>11. CASE TickLock
  BY <1>11 DEF UnderflowNeedsOverlap, TickLock
<1>12. CASE TickUnlock
  <2>1. ASSUME ~overlapped', ~shifted' PROVE ~panicked'
    <3>1. ~overlapped /\ ~shifted
      BY <2>1, <1>12 DEF Next, TickUnlock, tick
    <3> QED
      BY <3>1, <1>12, TickUnlockTicks
  <2> QED
    BY <2>1 DEF UnderflowNeedsOverlap
<1>13. CASE TickStats
  BY <1>13 DEF UnderflowNeedsOverlap, TickStats
<1>14. CASE Update
  BY <1>14 DEF UnderflowNeedsOverlap, Update
<1>15. CASE Lives
  BY <1>15 DEF UnderflowNeedsOverlap, Lives
<1>16. CASE WantsLock
  BY <1>16 DEF UnderflowNeedsOverlap, WantsLock
<1>17. CASE Moves
  BY <1>17 DEF UnderflowNeedsOverlap, Moves
<1>18. CASE Finishes
  BY <1>18 DEF UnderflowNeedsOverlap, Finishes
<1>19. CASE LoadRemove
  BY <1>19 DEF UnderflowNeedsOverlap, LoadRemove
<1>20. CASE StoreRemove
  <2>1. ASSUME ~overlapped' PROVE panicked' = panicked
    <3>1. Table /\ Removing
      BY <2>1, <1>20 DEF Next, StoreRemove, Removing
    <3>2. loaded["win"] = Count /\ Count \in Nat /\ 1 <= Count
      <4>1. pc["win"] = "store remove"
        BY <1>20 DEF StoreRemove
      <4>2. Count = capacity /\ loaded["win"] = capacity
        BY <3>1, <4>1, SomethingMarked
      <4> QED
        BY <3>1, <4>2, SomethingMarked
    <3>3. loaded["win"] # 0
      BY <3>2
    <3> QED
      BY <3>3, <1>20 DEF StoreRemove
  <2> QED
    BY <2>1 DEF UnderflowNeedsOverlap
<1>21. CASE Move
  BY <1>21 DEF UnderflowNeedsOverlap, Move
<1>22. CASE Sort
  BY <1>22 DEF UnderflowNeedsOverlap, Sort
<1> QED
  BY <1>1, <1>2, <1>3, <1>4, <1>5, <1>6, <1>7, <1>8, <1>9, <1>10, <1>11, <1>12, <1>13, <1>14,
     <1>15, <1>16, <1>17, <1>18, <1>19, <1>20, <1>21, <1>22 DEF Next, Add

\* What was moved under a tick stays so.
LEMMA NeverUnshifted ==
  ASSUME Next, ~shifted'
  PROVE  ~shifted
  BY DEF Next, Add, Write, Load, Store, Dispose, Clear, NewEntity, FindEntity, Shoot, Spawns, Drop,
     TickLock, TickUnlock, TickStats, Update, Lives, WantsLock, Moves, Finishes, LoadRemove,
     StoreRemove, Move, Sort, tick, Shifts

\* The empty table of map.init.
LEMMA InitIInv ==
  ASSUME Init
  PROVE  IInv
<1>1. TypeOK
  <2>1. Slots \in Nat /\ 0 \in 0..Slots /\ 1 \in 1 .. Slots + 1
    BY WorldAssumption
  <2>2. <<>> \in Seq(1..Slots)
    OBVIOUS
  <2> QED
    BY <2>1, <2>2 DEF Init, TypeOK, Thread
<1>2. Labels
  BY DEF Init, Labels, Thread, Adding, Ticking, NetLabel, WinLabel, AddLabel
<1>3. Room
  <2>1. Cardinality(added) = 0 /\ Pending = 0
    BY FS_EmptySet DEF Init, Pending, Adding, Thread
  <2> QED
    BY <2>1 DEF Init, Room
<1>4. Count = 0 /\ \A i : i \notin 1..Count
  <2>1. Count = 0
    BY DEF Init, Count, Thread
  <2> QED
    BY <2>1
<1>5. Present = {}
  BY DEF Init, Present
<1>6. ~Overlap /\ Written /\ Disposed
  BY DEF Init, Overlap, Written, Disposed, Adding, Thread
<1>7. Once /\ Complete /\ Right /\ Emptied
  BY <1>4, <1>5 DEF Once, Complete, Right, Emptied
<1>8. Marked
  BY <1>4 DEF Init, Marked, Thread
<1>9. Ticks
  BY <1>4 DEF Init, Ticks, Ticking, Thread
<1>10. UnderflowNeedsOverlap
  BY DEF Init, UnderflowNeedsOverlap
<1> QED
  BY <1>1, <1>2, <1>3, <1>6, <1>7, <1>8, <1>9, <1>10 DEF IInv, Types, Table

\* Every step keeps the inductive invariant.
LEMMA StepIInv ==
  ASSUME IInv, ~panicked /\ Next
  PROVE  IInv'
<1>1. Types'
  BY NextTypes DEF IInv
<1>2. ~overlapped' => ~overlapped
  BY DEF Next
<1>3. ~overlapped' => Table'
  BY <1>1, <1>2, NextTable DEF IInv
<1>4. ~overlapped' /\ ~shifted' => Ticks'
  BY <1>1, <1>2, NextTicks, NeverUnshifted DEF IInv
<1>5. UnderflowNeedsOverlap'
  BY <1>1, NextPanics DEF IInv
<1> QED
  BY <1>1, <1>3, <1>4, <1>5 DEF IInv

\* So does a step of something else.
LEMMA StutterIInv ==
  ASSUME IInv, UNCHANGED vars
  PROVE  IInv'
<1>1. UNCHANGED <<slot, latch, capacity, locked, pc, entity, ref, shifted, loaded, cursor, bound, doomed,
                  added, finished, gone, freed, overlapped, panicked>>
  BY DEF vars, table, tick, loop, history
<1>2. Types'
  BY <1>1 DEF IInv, Types, TypeOK, Labels, Room, Pending, Adding, Ticking
<1>3. Present' = Present /\ Count' = Count /\ (Disposing' <=> Disposing)
  BY <1>1 DEF Present, Count, Disposing
<1>4. \A t : (Adding(t)' <=> Adding(t)) /\ (Overlap' <=> Overlap)
  BY <1>1 DEF Adding, Overlap, Removing
<1>5. \A e : Added(e)' <=> Added(e)
  BY <1>1, <1>4 DEF Added
<1>6. Table => Table'
  BY <1>1, <1>3, <1>4, <1>5
     DEF Table, Written, Once, Complete, Right, Emptied, Disposed, Marked
<1>7. Ticks => Ticks'
  BY <1>1, <1>3 DEF Ticks, Ticking
<1> QED
  BY <1>1, <1>2, <1>6, <1>7 DEF IInv, UnderflowNeedsOverlap

\* The inductive invariant holds of both threads at every moment.
\* (map.zig 2276-2383, 2058-2100, utils.zig 34-58, network.zig 656-708, 1055-1121)
THEOREM Invariance == Spec => []IInv
<1>1. Init => IInv
  BY InitIInv
<1>2. IInv /\ [~panicked /\ Next]_vars => IInv'
  BY StepIInv, StutterIInv
<1> QED
  BY <1>1, <1>2, PTL DEF Spec

\* With nothing under way, the items are the entities that should be there.
LEMMA ItemsArePresent ==
  ASSUME Types, Table, pc["net"] = "idle" \/ Ticking, pc["win"] \in {"idle", "update", "step"}
  PROVE  Range(Items) = Present /\ Cardinality(Present) = capacity
<1>1. Count = capacity /\ ~Disposing /\ (\A e : ~Added(e)) /\ capacity \in Nat
  BY Numbers DEF Types, Count, Disposing, Added, Adding, Ticking, Thread
<1>2. Present \subseteq Entity
  BY DEF Present, Types, TypeOK
<1>3. (\A i \in 1..capacity : slot[i] \in Present) /\ \A e \in Present : \E i \in 1..capacity : slot[i] = e
  BY <1>1, <1>2 DEF Table, Complete, Right
<1>4. Range(Items) = Present
  BY <1>3, ItemsAre DEF Types
<1> DEFINE f == [i \in 1..capacity |-> slot[i]]
<1>5. f \in Bijection(1..capacity, Present)
  <2>1. \A i, j \in 1..capacity : slot[i] = slot[j] => i = j
    BY <1>1 DEF Table, Once
  <2>2. f \in Injection(1..capacity, Present)
    BY <1>3, <2>1 DEF Injection, IsInjective
  <2>3. f \in Surjection(1..capacity, Present)
    BY <1>3 DEF Surjection
  <2> QED
    BY <2>2, <2>3 DEF Bijection
<1>6. IsFiniteSet(1..capacity) /\ Cardinality(1..capacity) = capacity
  BY <1>1, FS_Interval
<1>7. Cardinality(Present) = capacity
  BY <1>5, <1>6, FS_Bijection DEF ExistsBijection
<1> QED
  BY <1>4, <1>7

\* Whatever the window thread updates, removes and sorts and the network thread
\* adds and drops, every entity that was added and not removed is in the table
\* exactly once, each removed one is disposed of once, and capacity never
\* underflows, unless two changes of the table overlapped.
\* (utils.zig 34-58, map.zig 2058-2100, 2276-2383)
THEOREM TableIsSound == Spec => []TableSound
<1>1. IInv => TableSound
  <2> SUFFICES ASSUME IInv
               PROVE  TableSound
    OBVIOUS
  <2>1. TypeOK /\ UnderflowNeedsOverlap
    BY DEF IInv, Types
  <2>2. TableIntact
    BY ItemsArePresent DEF IInv, TableIntact
  <2>3. DisposedRight
    BY DEF IInv, Table, Disposed, DisposedRight
  <2> QED
    BY <2>1, <2>2, <2>3 DEF TableSound
<1> QED
  BY <1>1, Invariance, PTL

\* handleNewTick writes to the entity it tells of, and no move_lock is held
\* but the one it took, as long as no item was moved, removed or disposed of
\* while it referred to one and no two changes of the table overlapped.
\* (network.zig 656-708, map.zig 604, 1322, 2374-2382)
THEOREM TicksReachTheirEntity == Spec => []TicksReach
<1>1. IInv => TicksReach
  <2> SUFFICES ASSUME IInv, ~overlapped, ~shifted
               PROVE  /\ Ticking => ref <= capacity /\ slot[ref] = entity["net"]
                      /\ \A i \in 1..capacity : latch[i] => pc["net"] = "tick place" /\ i = ref
    BY DEF TicksReach
  <2>1. Ticks
    BY DEF IInv
  <2>2. \A i \in 1..capacity : i \in 1..Count
    <3>1. capacity \in Nat
      BY Numbers DEF IInv, Types
    <3> QED
      BY <3>1 DEF Count
  <2> QED
    BY <2>1, <2>2 DEF Ticks
<1> QED
  BY <1>1, Invariance, PTL
=============================================================================
