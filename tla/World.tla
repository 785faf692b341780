------------------------------- MODULE World -------------------------------
(***************************************************************************)
(* The table of entities of src/src/map.zig, a DynSlice of                 *)
(* src/src/utils.zig, and the two threads that change it.                  *)
(*                                                                         *)
(* The window thread "win" holds object_lock while map.update runs every   *)
(* entity, adds what they shoot, removes those that are done and sorts the *)
(* rest.  The network thread "net" holds it while handleUpdate drops       *)
(* entities, but not while it adds the new ones (addToMap locks only when  *)
(* the table is full), nor while handleNewTick writes to the entities it   *)
(* tells of; and neither thread holds it in map.dispose.  Where the lock   *)
(* is not held by both, a step is one access to the table; a change that   *)
(* the lock protects is one step, and so is the search for an id.          *)
(*                                                                         *)
(* An entity is a model value.  Its memory (names, hit list) is freed by   *)
(* disposeEntity.  Its move_lock is part of it, and moves with it from     *)
(* slot to slot; a reference to it is to a slot and does not.              *)
(***************************************************************************)
EXTENDS Naturals, FiniteSets, Sequences, SequencesExt

CONSTANTS
  Objects,  \* entities the server announces; they stay until it drops them
  Shots,    \* projectiles and particles: they finish by themselves
  Slots,    \* length of the slice; the model never fills it
  Nothing   \* the content of a slot that was never written

Entity == Objects \cup Shots

ASSUME WorldAssumption ==
  /\ Slots \in Nat /\ Objects \cap Shots = {} /\ Nothing \notin Entity
  /\ IsFiniteSet(Entity) /\ Cardinality(Entity) < Slots

Thread == {"win", "net"}

VARIABLES
  slot,      \* DynSlice._items
  latch,     \* the move_lock of what is in each slot
  capacity,  \* DynSlice.capacity, the number of items
  locked,    \* for what the window thread holds object_lock: "no", "update",
             \* or, shared, "ability"
  pc,
  entity,    \* what each thread is adding, or the tick told of
  ref,       \* the slot handleNewTick refers to, or 0
  loaded,    \* the value of capacity each thread has loaded
  cursor,    \* where map.update is in the table
  bound,     \* and how many items there were when it started
  doomed,    \* entity_indices_to_remove
  added,     \* history: the entities added so far
  finished,  \* history: those whose update has returned false
  gone,      \* history: those the server dropped, and those of old maps
  freed,     \* history: how often each was disposed of
  overlapped,\* history: two changes of the table overlapped
  shifted,   \* history: the window thread moved or removed items while
             \* handleNewTick referred to one
  panicked   \* capacity was decremented at 0, or a lock released that is free

table == <<slot, latch, capacity>>
tick == <<ref, shifted>>
loop == <<cursor, bound, doomed>>
history == <<added, finished, gone, freed>>
vars == <<table, locked, pc, entity, tick, loaded, loop, history, overlapped, panicked>>

Goto(t, label) == pc' = [pc EXCEPT ![t] = label]

Items == SubSeq(slot, 1, capacity)

Adding(t) == pc[t] \in {"write", "load", "store"}
Removing == pc["win"] \in {"store remove", "move"}
Ticking == pc["net"] \in {"tick lock", "tick place", "tick stats"}

\* Both threads are at the table, or one empties it while the other goes
\* through it.
Overlap ==
  \/ Adding("net") /\ (Adding("win") \/ Removing \/ pc["win"] = "dispose")
  \/ pc["net"] = "dispose" /\ (locked # "no" \/ pc["win"] = "dispose")

\* An item goes after one thread freed it and before it forgets it.
DropsFreed == pc["win"] = "dispose" /\ pc'["win"] = "dispose" /\ capacity' < capacity
Shifts == shifted' = (shifted \/ Ticking)
Free(es) == freed' = [e \in Entity |-> freed[e] + (IF e \in es THEN 1 ELSE 0)]

-----------------------------------------------------------------------------
\* DynSlice.add: write the item behind the last, then increment capacity,
\* which is a load and a store.
Write(t) ==
  /\ pc[t] = "write" /\ capacity < Slots
  /\ slot' = [slot EXCEPT ![capacity + 1] = entity[t]]
  /\ latch' = [latch EXCEPT ![capacity + 1] = FALSE]
  /\ Goto(t, "load")
  /\ UNCHANGED <<tick, capacity, locked, entity, loaded, loop, history, panicked>>

Load(t) ==
  /\ pc[t] = "load"
  /\ loaded' = [loaded EXCEPT ![t] = capacity]
  /\ Goto(t, "store")
  /\ UNCHANGED <<tick, table, locked, entity, loop, history, panicked>>

Store(t) ==
  /\ pc[t] = "store"
  /\ capacity' = loaded[t] + 1
  /\ IF t = "win" /\ locked = "update"
     THEN Goto(t, "update") /\ UNCHANGED locked
     ELSE Goto(t, "idle") /\ locked' = IF t = "win" THEN "no" ELSE locked
  /\ entity' = [entity EXCEPT ![t] = Nothing] /\ loaded' = [loaded EXCEPT ![t] = 0]
  /\ UNCHANGED <<slot, latch, tick, loop, history, panicked>>

Add(t) == Write(t) \/ Load(t) \/ Store(t)

\* addToMap, without the lock.
AddToMap(t, e) ==
  /\ e \notin added
  /\ added' = added \cup {e}
  /\ entity' = [entity EXCEPT ![t] = e]
  /\ Goto(t, "write")

-----------------------------------------------------------------------------
\* A new object of handleUpdate, or a shot of one of the other handlers.
NewEntity(e) ==
  /\ pc["net"] = "idle"
  /\ AddToMap("net", e)
  /\ UNCHANGED <<tick, table, locked, loaded, loop, finished, gone, freed, panicked>>

\* A drop of handleUpdate, which holds the lock: removeEntity moves the last
\* item into the place of the first one with that id.  The pointer it
\* returns is to a local of its own frame: disposeEntity finds the entity
\* there, or, its frame being gone, something else, and frees nothing of it.
Drop(e) ==
  /\ pc["net"] = "idle" /\ locked = "no" /\ e \in added \cap Objects
  /\ e \in Range(Items)
  /\ LET i == CHOOSE i \in 1..capacity :
                slot[i] = e /\ \A j \in 1 .. i - 1 : slot[j] # e
     IN /\ slot' = [slot EXCEPT ![i] = slot[capacity]]
        /\ latch' = [latch EXCEPT ![i] = latch[capacity]]
  /\ capacity' = capacity - 1
  /\ gone' = gone \cup {e}
  /\ Free({e}) \/ UNCHANGED freed
  /\ UNCHANGED <<tick, locked, pc, entity, loaded, loop, added, finished, panicked>>

\* map.dispose, when the map changes or a thread disconnects: dispose of
\* every item, then forget them.
Dispose(t) ==
  /\ pc[t] = "idle" /\ capacity > 0
  /\ Free(Range(Items) \ {Nothing})
  /\ gone' = gone \cup Range(Items)
  /\ Goto(t, "dispose")
  /\ UNCHANGED <<tick, table, locked, entity, loaded, loop, added, finished, panicked>>

Clear(t) ==
  /\ pc[t] = "dispose"
  /\ capacity' = 0
  /\ Goto(t, "idle")
  /\ Shifts
  /\ UNCHANGED <<slot, latch, ref, locked, entity, loaded, loop, history, panicked>>

-----------------------------------------------------------------------------
\* handleNewTick tells of an entity: findEntityRef returns a reference to its
\* slot.  Where it is put is written under its move_lock, if it is not the
\* own player; its stats are not.
FindEntity(e) ==
  /\ pc["net"] = "idle" /\ e \in Range(Items) \cap Objects
  /\ ref' = CHOOSE i \in 1..capacity : slot[i] = e /\ \A j \in 1 .. i - 1 : slot[j] # e
  /\ entity' = [entity EXCEPT !["net"] = e]
  /\ Goto("net", "tick lock") \/ Goto("net", "tick stats")
  /\ UNCHANGED <<table, locked, loaded, loop, history, shifted, panicked>>

TickLock ==
  /\ pc["net"] = "tick lock" /\ ~latch[ref]
  /\ latch' = [latch EXCEPT ![ref] = TRUE]
  /\ Goto("net", "tick place")
  /\ UNCHANGED <<tick, slot, capacity, locked, entity, loaded, loop, history, panicked>>

\* Mutant of TickUnlock: the lock is kept.
TickUnlockForgotten ==
  /\ pc["net"] = "tick place"
  /\ Goto("net", "tick stats")
  /\ UNCHANGED <<tick, table, locked, entity, loaded, loop, history, panicked>>

\* A lock that is not held is not released: Mutex.unlock asserts that it is.
TickUnlock ==
  /\ pc["net"] = "tick place"
  /\ panicked' = ~latch[ref]
  /\ latch' = [latch EXCEPT ![ref] = FALSE]
  /\ Goto("net", "tick stats")
  /\ UNCHANGED <<tick, slot, capacity, locked, entity, loaded, loop, history>>

TickStats ==
  /\ pc["net"] = "tick stats"
  /\ ref' = 0
  /\ entity' = [entity EXCEPT !["net"] = Nothing]
  /\ Goto("net", "idle")
  /\ UNCHANGED <<table, locked, loaded, loop, history, shifted, panicked>>

-----------------------------------------------------------------------------
\* An ability used between two updates, under a shared object_lock.
Shoot(e) ==
  /\ pc["win"] = "idle" /\ e \in Shots
  /\ AddToMap("win", e)
  /\ locked' = "ability"
  /\ UNCHANGED <<tick, table, loaded, loop, finished, gone, freed, panicked>>

\* map.update takes the lock; the loop is over the items there are now.
Update ==
  /\ pc["win"] = "idle" /\ capacity > 0
  /\ locked' = "update"
  /\ cursor' = 1 /\ bound' = capacity
  /\ Goto("win", "update")
  /\ UNCHANGED <<tick, table, entity, loaded, doomed, history, panicked>>

\* An entity's update returns true; it does not move, or needs no lock for it.
Lives ==
  /\ pc["win"] = "update" /\ cursor <= bound
  /\ cursor' = cursor + 1
  /\ UNCHANGED <<tick, table, locked, pc, entity, loaded, bound, doomed, history, panicked>>

\* It moves: it waits for the lock, however long, and gives it back.
WantsLock ==
  /\ pc["win"] = "update" /\ cursor <= bound /\ slot[cursor] \in Objects
  /\ Goto("win", "step")
  /\ UNCHANGED <<tick, table, locked, entity, loaded, loop, history, panicked>>

Moves ==
  /\ pc["win"] = "step" /\ ~latch[cursor]
  /\ cursor' = cursor + 1
  /\ Goto("win", "update")
  /\ UNCHANGED <<tick, table, locked, entity, loaded, bound, doomed, history, panicked>>

\* It shoots, or leaves a particle: the table grows under the loop.
Spawns(e) ==
  /\ pc["win"] = "update" /\ cursor <= bound
  /\ e \in Shots
  /\ AddToMap("win", e)
  /\ UNCHANGED <<tick, table, locked, loaded, loop, finished, gone, freed, panicked>>

\* A projectile, particle or effect returns false.
Finishes ==
  /\ pc["win"] = "update" /\ cursor <= bound
  /\ slot[cursor] \in Shots
  /\ finished' = finished \cup {slot[cursor]}
  /\ doomed' = Append(doomed, cursor)
  /\ cursor' = cursor + 1
  /\ UNCHANGED <<tick, table, locked, pc, entity, loaded, bound, added, gone, freed, panicked>>

\* The marked indices are removed from the last to the first.  removePtr:
\* decrement capacity, keep the item, put the last one in its place.
LoadRemove ==
  /\ pc["win"] = "update" /\ cursor > bound /\ doomed # <<>>
  /\ loaded' = [loaded EXCEPT !["win"] = capacity]
  /\ Goto("win", "store remove")
  /\ UNCHANGED <<tick, table, locked, entity, loop, history, panicked>>

StoreRemove ==
  /\ pc["win"] = "store remove"
  /\ IF loaded["win"] = 0
     THEN panicked' = TRUE /\ UNCHANGED <<capacity, pc>>
     ELSE capacity' = loaded["win"] - 1 /\ Goto("win", "move") /\ UNCHANGED panicked
  /\ loaded' = [loaded EXCEPT !["win"] = 0]
  /\ Shifts
  /\ UNCHANGED <<slot, latch, ref, locked, entity, loop, added, finished, gone, freed>>

\* Mutant of Move: the indices are taken from the first to the last.
MoveFirst ==
  LET i == Head(doomed) IN
  /\ pc["win"] = "move"
  /\ slot' = [slot EXCEPT ![i] = slot[capacity + 1]]
  /\ latch' = [latch EXCEPT ![i] = latch[capacity + 1]]
  /\ Shifts
  /\ Free({slot[i]} \ {Nothing})
  /\ doomed' = Tail(doomed)
  /\ Goto("win", "update")
  /\ UNCHANGED <<ref, capacity, locked, entity, loaded, cursor, bound, added, finished, gone, panicked>>

Move ==
  LET i == Last(doomed) IN
  /\ pc["win"] = "move"
  /\ slot' = [slot EXCEPT ![i] = slot[capacity + 1]]
  /\ latch' = [latch EXCEPT ![i] = latch[capacity + 1]]
  /\ Shifts
  /\ Free({slot[i]} \ {Nothing})
  /\ doomed' = Front(doomed)
  /\ Goto("win", "update")
  /\ UNCHANGED <<ref, capacity, locked, entity, loaded, cursor, bound, added, finished, gone, panicked>>

\* What is left is sorted by depth, and the lock released.
Sort ==
  /\ pc["win"] = "update" /\ cursor > bound /\ doomed = <<>>
  /\ \E order \in {f \in [1..capacity -> 1..capacity] : IsInjective(f)} :
       /\ slot' = [i \in 1..Slots |-> IF i <= capacity THEN slot[order[i]] ELSE slot[i]]
       /\ latch' = [i \in 1..Slots |-> IF i <= capacity THEN latch[order[i]] ELSE latch[i]]
  /\ Shifts
  /\ locked' = "no"
  /\ Goto("win", "idle")
  /\ cursor' = 1 /\ bound' = 0
  /\ UNCHANGED <<ref, capacity, entity, loaded, doomed, history, panicked>>

-----------------------------------------------------------------------------
Init ==
  /\ slot = [i \in 1..Slots |-> Nothing] /\ capacity = 0
  /\ latch = [i \in 1..Slots |-> FALSE]
  /\ ref = 0 /\ shifted = FALSE
  /\ locked = "no"
  /\ pc = [t \in Thread |-> "idle"]
  /\ entity = [t \in Thread |-> Nothing]
  /\ loaded = [t \in Thread |-> 0]
  /\ cursor = 1 /\ bound = 0 /\ doomed = <<>>
  /\ added = {} /\ finished = {} /\ gone = {}
  /\ freed = [e \in Entity |-> 0]
  /\ overlapped = FALSE /\ panicked = FALSE

Next ==
  /\ \/ \E t \in Thread : Add(t) \/ Dispose(t) \/ Clear(t)
     \/ \E e \in Entity : NewEntity(e) \/ FindEntity(e) \/ Shoot(e) \/ Spawns(e)
     \/ \E e \in Entity : Drop(e)
     \/ TickLock \/ TickUnlock \/ TickStats
     \/ Update \/ Lives \/ WantsLock \/ Moves
     \/ Finishes \/ LoadRemove \/ StoreRemove \/ Move \/ Sort
  /\ overlapped' = (overlapped \/ Overlap' \/ DropsFreed)

Spec == Init /\ [][~panicked /\ Next]_vars

-----------------------------------------------------------------------------
\* capacity stays within the slice, and cursors within the table.
TypeOK ==
  /\ slot \in [1..Slots -> Entity \cup {Nothing}] /\ capacity \in 0..Slots
  /\ locked \in {"no", "update", "ability"} /\ overlapped \in BOOLEAN /\ panicked \in BOOLEAN
  /\ latch \in [1..Slots -> BOOLEAN] /\ ref \in 0..Slots /\ shifted \in BOOLEAN
  /\ pc \in [Thread -> {"idle", "write", "load", "store", "dispose", "update", "step",
                        "store remove", "move", "tick lock", "tick place", "tick stats"}]
  /\ entity \in [Thread -> Entity \cup {Nothing}] /\ loaded \in [Thread -> 0..Slots]
  /\ cursor \in 1 .. Slots + 1 /\ bound \in 0..Slots /\ doomed \in Seq(1..Slots)
  /\ added \subseteq Entity /\ finished \subseteq Shots
  /\ gone \subseteq Entity \cup {Nothing}
  /\ freed \in [Entity -> Nat]

\* The entities that should be in the table.
Present == (added \ gone) \ {e \in Entity : freed[e] > 0}

\* Whatever one thread appended while the other went through the table,
\* sorted it or removed from it, every entity that was added and not removed
\* is there exactly once, as long as no two changes overlapped.
TableIntact ==
  (~overlapped /\ (pc["net"] = "idle" \/ Ticking) /\ pc["win"] \in {"idle", "update", "step"}) =>
    Range(Items) = Present /\ Cardinality(Present) = capacity

\* map.update disposes of exactly the entities whose update returned false,
\* and nothing is disposed of twice, as long as no two changes overlapped.
DisposedRight ==
  ~overlapped => \A e \in Entity :
    freed[e] <= 1 /\ (freed[e] = 1 => e \in gone \cup finished)

\* capacity underflows only when map.dispose overlaps with map.update, and no
\* lock is released that is free unless it moved away under the tick.
UnderflowNeedsOverlap == panicked => overlapped \/ shifted

\* What a tick writes to is the entity it tells of, and of the locks only the
\* one the tick took is held, so that the window thread never waits for one
\* that nobody releases: as long as nothing was moved, removed or disposed of
\* while the tick referred to a slot, and no two changes overlapped.
\* (network.zig 656-708, map.zig 604, 1322, 2374-2382)
TicksReach ==
  (~overlapped /\ ~shifted) =>
    /\ Ticking => ref <= capacity /\ slot[ref] = entity["net"]
    /\ \A i \in 1..capacity : latch[i] => pc["net"] = "tick place" /\ i = ref

\* The table of entities is sound: in range, complete and without doubles,
\* each removed one disposed of once, and its length never underflows, unless
\* two changes overlapped.
\* (utils.zig 34-58, map.zig 2276-2383)
TableSound == TypeOK /\ TableIntact /\ DisposedRight /\ UnderflowNeedsOverlap
=============================================================================
