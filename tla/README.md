# Specifications of zig-client

This directory holds a TLA+ description of the game client in `src/`: modules
that model its parts, configurations that check them with TLC, and proofs that
TLAPS checks. Paths below are those of the repository, line numbers those of the
commit beside it.

## 1. The system

The client is one process with three threads (`main.zig`):

| thread | loop | what it does |
|---|---|---|
| window | `main`, 431-446, every 6.5 ms | polls events (keys, mouse, callbacks of UI elements), `map.update`, `screen_controller.update` |
| network | `networkTick`, 126-153, every 10 ms | connects when a server is selected, pushes `hello`, calls `network.accept`: drains the packet queue into the socket, reads, frames and handles packets |
| render | `renderTick`, 155-277 | draws; uploads the changed part of the minimap |

They share the entity table (`object_lock`), the UI elements (`ui_lock`), the
packet queue (lock-free), the buffer allocator `network_stack_allocator` and the
flags of `main.zig` 88-107 (no lock). The build uses the standard optimise
option, Debug by default: an index out of bounds, an integer overflow and
`unreachable` stop the program, and the modules call that a panic. A failed
memory allocation is not modelled anywhere.

### Inventory of components

**Packet queue** (`spsc.zig`). State: a linked list with four pointers, of which
consumed nodes are reused. Operations `init`, `push`, `pop`, `deinit`. Called by
`queuePacket` (window thread, and the network thread for `hello`), and popped by
`accept`. Hard: publication order, reuse of nodes, and users that do not keep to
one producer and one consumer. Correct if: first in first out, nothing lost or
repeated, no node reused too early, none leaked.

**Packet framing** (`network.accept`, `utils.PacketReader`). State: a buffer,
`buffer_idx`, `reader.index`, `message_len`, the buffer allocator. Hard: TCP cuts the stream
anywhere, a packet id may be unknown, handlers may read less than the packet,
the connection may be replaced. Correct if: every packet is handled once, in
order, as soon as it is there, and `catch unreachable` is.

**Session** (`networkTick`, `network.init/deinit/onError/sendPacket/queuePacket`,
`main.disconnect/clear`, `input.tryEscape`). State: `connected`,
`selected_server`, `sent_hello`, `tick_frame`, the queue, the socket, the
writer's buffer. Hard: two threads disconnect, flags are read and written
without a lock, writes fail, packets are handled after the disconnect. Correct
if: one `hello` per connection and before anything else, no socket left open,
the queue used only while it exists, nothing sent to the wrong server.

**Entity table** (`map.zig` 2026-2383, `utils.DynSlice`). State: the slice, its
count, `object_lock`, each entity's `move_lock`. Operations: `addToMap` of every kind of entity,
`handleUpdate`'s drops, `update` (run, remove, sort), `dispose`, the references of
`handleNewTick`. Hard: additions lock only when the slice is full, `update` adds while it
iterates, a tick writes through a reference to a slot whose content the window thread moves,
the lock included. Correct if: every entity is there once until it is removed, and disposed
of once; a tick writes to the entity it tells of and releases the lock it took.

**Player movement** (`map.zig` 1349-1505). State: position, squares. Hard: cases
of crossing borders, corners, rounding. Correct if: a player that fits stays
fitting, never jumps, glides along walls.

**Interpolation of other entities** (`network.zig` 525-540, 656-708, `map.zig` 603-627,
1321-1346). State: place, angle, step, target, `move_lock`. Hard: the question whether an entity
moves is asked before the lock; a teleport leaves the old target. Correct if: an entity stays
between its last place and the told one and gets there.

**Map editor** (`ui/screens/map_editor_screen.zig`). State: tiles, history with
position, brush with preview, ids, sizes. Hard: long sequences of edits, undo,
new maps. Correct if: undo restores, each object is one entity, no index is out
of range.

**Inventory and container view** (`game_screen.zig` 17-91, 520-832,
`map.update`, `parseObjStatData`). State: items on screen, items of entities,
`interactive_id`, `container_id`. Hard: two threads write the slots, the client moves
items before the server agrees. Correct if: in the end the screen shows what the
server has, and requests name what the player saw.

**Shots and the random generator** (`map.zig` 860-1043, 1291-1315,
`utils.Random`). State: seed, bullet ids, cooldowns. Hard: client and server
draw from the same generator; draws and announcements are apart, maps change
between. Correct if: both generators agree, no draw uses another map's seed, no
overflow.

**Projectiles and damage** (`map.zig` 423-546, 1045-1172, 1604-1945; `handleDamage`,
`handleEnemyShoot`, `handleAllyShoot`, hp and condition of the stats). State: shots with the
targets they have hit, hp, `dead`, conditions. Hard: the client reckons kills from an hp it was
told and never lowers, both threads kill. Correct if: a shot hits a target once, a claim to have
killed is right, what dies dies once.

**Stat parsing** (`network.zig` 646-744, 1071-1295). State: `reader.index` within a packet.
Hard: a stat does not tell its length, so an unknown one ends its object, but not the loop.
Correct if: every object gets its own stats and the reader stays in the packet.

**Minimap** (`map.setSquare`, `handleUpdate`, `main.renderTick` 196-276, `main.clear`). State: the
image, the rectangle to upload, `need_minimap_update`, `need_force_update`. Hard: three threads and
no lock. Correct if: what was painted is shown in the end.

**Screens, panels, input** (`screen_controller.zig`, `panel_controller.zig`, `options_panel.zig`,
`input.zig`). State: `current_screen`, visible panels, `disable_input`, the selected field and key mapper, held keys,
`ui_lock`. Hard: presses and releases reach different owners, the network thread switches screens
under an event, `deinit` locks what it holds. Correct if: the player walks while the key is held,
input is off only for a reason, no destroyed screen is used, the window closes.

**Not modelled**, and why:

- account screens and HTTP requests: sequential forms and pure I/O (switching between the screens
  is in `Controls`, selecting a character in `Session`);
- particles: arithmetic on their own position; as entities they are in `World`;
- rendering, camera, shaders: floating point geometry and GPU calls;
- assets and audio: file I/O at start-up; `playSfx`'s use of the network thread's allocator is a
  listed hazard without a property;
- game data and XML: parsed once into tables that are read only afterwards;
- settings: independent values read and written to a file;
- `libs/`: vendored code.

How they interact: input and UI callbacks call `queuePacket` (Session) and the
player's shots; these push to the queue (Spsc); `accept` sends, frames
(PacketStream) and calls the handlers, which read objects and stats (Stats), write the entity
table (World), places (Interpolation), hp (Hits), the inventory, the minimap and the generator's
seed, or switch screens (Controls). `map.update` runs shots, movement and the view
of containers; the render thread reads the minimap. Each module keeps what its neighbours promise and abstracts the
rest: Session has a queue that is a sequence because QueueProofs shows that one
consumer makes it one; Shooting has packets in order because StreamProofs
shows they come in order.

## 2. Modules

`PROJECT.json` maps every definition to its lines. In short:

| module | models | state | a step is |
|---|---|---|---|
| `Fifo` | what users of `spsc.zig` rely on | items, what was popped | push, pop, reopen |
| `Spsc` (`MCSpsc`) | `UnboundedQueue` | the four pointers, the nodes' fields, a program counter per thread | one access to shared memory, sequentially consistent |
| `PacketStream` | `accept` | the reader's cursors, the allocator's, packets as the server framed them | a read, a header, a packet handled, a return |
| `Session` | the life of connections | flags, queue, writer, one record per connection with both ends | one access to what the threads share |
| `Stats` (`MCStream`) | the loops over objects and stats inside a packet | the packet, the reader's place in it | a header, a stat |
| `World` | the entity table and the references of ticks | slots, move locks, count, lock, a program counter per thread | one access where the lock is not held by both, otherwise a locked change |
| `Movement` (`MCMotion`) | `modifyMove` and below as functions | position, squares | a frame's displacement |
| `Interpolation` (`MCMotion`) | how any other entity moves | place, angle, step, target, history of the tick | what is done under `move_lock`, or asked outside it |
| `Editor` (`MCEditor`) | the map editor | as above | one key, click or frame |
| `Inventory` (`MCInventory`) | slots of the game screen | as above, the server's items, packets under way | one access of `map.update`, of a callback or of the stat handler |
| `Random` | `utils.Random` | none: operators | - |
| `Shooting` (extends `Random`) | shots, abilities, burns, leaving and entering maps | seed, player, volley under way, queue, wire, both generators | taking an id, drawing, announcing; one packet |
| `Hits` (`MCHits`) | what shots hit, damage and death | shots, hp, dead, condition, the server's view, wires | one access to an entity |
| `Minimap` | uploads of the minimap | image, texture, rectangle and flags, a program counter per thread | one access to a flag or side, one pixel or row |
| `Controls` | keys, mouse, panels, screens | screen, panels, input, held keys, `ui_lock` | one event callback up to a switch, one write of `disconnect`/`switchScreen` |
| `QueueProofs`, `StreamProofs`, `SessionProofs`, `WorldProofs`, `ShownProofs`, `PlayerProofs`, `HitsProofs`, `MinimapProofs` | the proofs (`QueueProofs`: of Spsc and Editor; `StreamProofs`: of PacketStream and Stats; `PlayerProofs`: of Random, Shooting and Controls; `ShownProofs`: of Interpolation, Movement and Inventory; hence the names `InventorySpec`, `ControlsSpec` and `EditorSpec`) | | |

Conventions. Operators named `...Unchecked`, `...Forgotten` and so on, commented
"Mutant of", are deliberate faults used to see that a property can fail; no
specification uses them. Variables commented "history" record what happened and
influence nothing. External parts (server, TCP, other players) are actions that
do anything the code in `src/` must expect of them.

What the models leave out, on purpose:

- `Spsc`: weak memory. The code uses ordinary loads and stores; the model has them in
  program order.
- `PacketStream`: the content of packets. `MCStream` puts it beside `Stats`, which says when a handler
  stays inside its packet: a behaviour is that of one of the two levels, because `accept` moves
  `reader.index` to the packet's end wherever the handler left it. The arrays a packet holds take no more memory
  than the packet has bytes without its id: elements are packed as they are sent, and
  what aligning an `[]i32` or `[]TileData` costs is less than the other fields of the
  packets that have one.
- `Stats`: what a stat sets, and how many bytes it takes; a packet's lengths are right.
- `World`: the depth order of the sort (any order), what entities compute,
  growing the slice (the model never fills it), particles added by the network thread; the search for an id is one step.
- `Movement`: rounding of floats; speed, slide and push (the displacement is any of `Strides`).
- `Interpolation`: floats are rounded down; `MCMotion` puts it beside `Movement` (an entity is the own
  player or it is not, the branch of `Player.update`).
- `Hits`: where shots fly (a shot meets anything it could, in any frame), damage multipliers, visual effects
  and sounds; conditions that matter to no property, `armor_broken` and `stasis_immune`; several effects of
  one shot at once.
- `Minimap`: the image is bigger than the map; colours, the camera's view.
- `Controls`: one direction stands for all four and for shooting; the list of elements
  (`elements_to_remove`, attached texts, dragging), a screen whose `init` fails; the text of a field.
- `Editor`: regions (they are not in the history), the file dialogs (which write
  nothing yet), where previews are drawn.
- `Inventory`: unknown items, textures and tooltips, the vault panel.
- `Shooting`: where shots fly, damage multipliers, weapons whose minimum damage is their
  maximum (neither side draws).

## 3. Runs

| run | configuration | asks |
|---|---|---|
| `spsc` | one producer, one consumer, 3 nodes, 4 pushes | `PoppedIsPrefix`, `NoOverwrite`, `IInv`, refinement `ImplementsFifo`, `EventuallyPopped` |
| `spsc_main_drains` | a second consumer | violated: the window thread's `while (queue.pop())` (`network.zig:1300`) breaks the order |
| `stream` | buffer of 6, packets of 1-2 bytes, 3 packets; inside a packet, 2 objects with 3 stats in all | `InOrder`, `NothingLeftBehind`, `OnlySplitHeaderPanics`, `IInv`, `StatsReach`, `EventuallyHandled` |
| `session` | 2 connections, 2 served packets each, 1 thing the player does | `Greetings`, `LeftoversFailed`, `OneSocket`, `TouchesWhenGone`, `EventuallyGreeted` |
| `world` | 1 object, 2 shots, slice of 4 | `TableSound`, `TicksReach` |
| `movement` | own player: every map of 3x2 squares with two obstacles, every place in eighths of a tile, displacements of none, of one step and of two sub-steps; another entity: 4 ticks of 4 units, up to 3 frames of 1 or 2 in each, a teleport | `StepSound`, `StaysFitting`, `Follows`, `NowhereOnlyIfRaced` |
| `editor` | sizes 1 and 2, one ground, two objects, history of 2, 2 maps, brush 1 | `UndoRestores`, `EntitiesTracked`, `StopsOnlyIfStale` |
| `inventory` | 3 slots, 2 containers of 1 slot, 2 items, 2 clicks, 1 change by others | `SettledShowsServer`, `NamesTheShown`, `SlotsSound` |
| `shooting` | words of 6 bits, 2 seeds, volleys of 2, bullet ids modulo 2, 3 attacks, 3 map changes | `InStep`, `DrawsFromMap` |
| `hits` | one enemy, one cover, the player; 2 shots of 3 kinds, two of which give a condition, 3 frames, 2 packets or changes of the server's | `EachHitOnce`, `KilledIsRight`, `DeathsRight` |
| `minimap` | an image of 2x1, 2 updates with 2 pixels in all, 1 clear by either thread | `OnlyOverlapsLost`, `StopsOnlyIfRaced`, `EventuallyUploaded` |
| `screens` | 6 presses, 5 screens, 1 thing that happens to the player | `WalksByKey`, `DisabledForReason`, `ScreensLive`, `ClosesOrHangs` |

Some properties are a conjunction of named parts that belong together: `TableSound` (the table
and the frees), `StepSound` (`NeverJumps`, `Glides`), `Follows` (`StaysBetween`, `EndsNear`),
`Greetings` (`HelloOnce`, `HelloFirst`), `EntitiesTracked` (`TracksUntilIdsMeet`,
`PreviewTracked`), `SlotsSound` (`ClosedSlotsStayEmpty`, `PanicsOnlyWhenClosed`), `DeathsRight`
(`DiesOnce`, `DeadIsLow`), `EventuallyUploaded` (`EventuallyShown`, `EventuallyCleared`). Each
module's type invariant is a part of one of its properties; in `Spsc` and `PacketStream` that is
`IInv`, and proved. Every property of a
passing run is broken by a mutant of the code listed in `PROJECT.json`.

### What the properties say of the code

Several hold only under a condition, and the condition is the point: it was found
by weakening the property until it held, and every part of it is needed.

- *Queue.* With one thread at each end the list is a FIFO queue (proved). The
  client has two threads at one end: `queuePacket` drains for `use_portal` and `escape`.
- *Framing.* Handlers see the packets in order wherever the stream is cut. Two flaws are
  delimited: a read of a single byte returns before looking whether it completed a
  packet (`if (size < 2) return`), and a header of which one byte arrived panics.
  Once an unknown id was seen (`lost`) nothing is promised.
- *Stats.* An unknown stat costs the rest of its own object, in spite of the loop that goes on at
  the next object's start, unless it was not the last of its object and the first byte of what follows
  (an id's or a type's low byte) happens to be the id of a stat. That byte is then taken for one,
  the entity gets a value that is not its own, and from there on the reader may leave the packet.
- *Session.* If only the network thread disconnects, `hello` is sent at most once,
  and first, unless packets of the same read were still handled after the disconnect
  (they fill the cleared map again) or the player escaped (which may drop
  `hello` from the queue). A queue that is not there is touched in three ways only,
  named by `TouchesWhenGone`. A server gets a packet of an earlier connection only from the writer's
  buffer, after a failed write. With the disconnect button that does not hold: pressed before
  `network.init` has connected, it leaves the player on the character screen, and the map the next
  connection brings runs behind it. Two more things the model shows and no property forbids: the disconnect button
  lets both threads into `network.deinit` (`onError` asks `connected`, 229-230, which `deinit` unsets
  last), and a packet logged as not sent (1313-1314) goes to the next server with its first write.
- *World.* All is well until two changes of the table overlap (`overlapped`), which
  `addToMap` without the lock allows, and `map.dispose`, of either thread. `DisposedRight` holds for the slice although
  `removePtr` returns a pointer to a copy. A tick reaches the entity it tells of as long as the
  window thread neither sorts nor removes meanwhile (`shifted`). If it does, the tick writes to
  another entity, `unlock` may stop the program at a lock that is free, and the lock that was taken may be carried
  away and stay held for ever: `map.update` then waits for it with `object_lock`.
- *Movement.* From a place where the player fits, all three hold. From another, the
  last resort of `modifyStep` assigns border variables that may still be 0.
- *Interpolation.* An object stays on its way and arrives but for less than one frame's way, or a unit of rounding a frame. A player
  does unless its step is old (`drifts`): one that walked up and left, or was teleported, has
  no angle and keeps the step and target of an earlier way. A place becomes NaN, for ever, when a tick puts the
  entity to rest between the question and the lock, and in no other way.
- *Editor.* All hold until commands outlive their map (`stale`), which Create allows, and until
  an object's id reaches the simulated player's 0xFFFC (`map_editor_screen.zig` 29, 1319).
- *Hits.* A shot that meets an immune or already hit entity does not note the time and meets it again
  in every frame, yet reports it once. Claims to have killed are right unless the server healed or
  changed the target since it told the conditions the client keeps, although the client reckons with an hp it never
  lowers. Those conditions may be older than the last status: a shot's own effect is one bit, but the word that
  holds all of them is loaded and stored, so that a shot that gives one while a status is stored puts the old
  ones back. An entity dies twice only if both threads had asked `dead` and neither had set it.
- *Minimap.* A change is lost only if it overlapped an upload: the comment in `renderTick`
  ("chunks of minimap can be lost") is exact. The render thread stops on an empty rectangle if a change
  overlapped (`overlapped`) or an update whose tiles have no colour asked for an upload (`blank`).
  Uploads happen in the end, but not if an update without tiles took the request back (`dropped`) or if a
  widening met the reset and left a rectangle that ends where it begins (`Stuck`): then
  `renderTick` gives up at it in every frame, and no full upload is made either.
- *Controls.* The player walks without a key when the release went unseen: it came while the options were open,
  in another screen, after rebinding, or while the player could not walk. Input stays disabled after a press of
  `open` of a panel (`basicPanelCallback` shows a panel, which disables input, and hides all). Of destroyed screens only the selected chat
  field is used, after the network thread disconnected while it was selected. The chat key in
  the editor reads the wrong field of `current_screen`. Closing the window hangs on every screen but the
  editor's: `screen_controller.deinit` holds `ui_lock`, which the screen's `deinit` takes.
- *Inventory.* The view can stay wrong for four reasons, `causes`: a stat that came while
  `interactive_id` did not name the container on view, a stat shown after the view had
  changed, a stat overwritten by a callback or by a view being filled, a refusal by the
  server. Without them the screen settles on the server's items.
- *Shooting.* Client and server draw the same damage if the player leaves a map only once
  it is in it. `queuePacket` does not ask: a player that leaves again before it has arrived
  (`hasty`) arrives in the first map while the server already draws for the second.

## 4. Bounds

Each bound is a CONSTANT named in its module and enforced by a guard.

- `Spsc`: 3 nodes and 4 pushes make every pointer pass every node and nodes be reused
  twice; the proofs lift both bounds.
- `PacketStream`: two packets and a part of a third fit the buffer, so that a call handles
  several, is cut in each header and body, and fills up; the proofs lift them.
- `Session`: the second connection is where leftovers of the first appear; nothing in the
  code counts further. Two packets served: one in the middle of whose batch the
  disconnect happens, one after.
- `World`: an object and two shots, so that `update` removes while another is added by each thread.
- `Movement`: three squares by two have a corner, a corridor and a border in every
  arrangement; displacements are shorter than the threshold, and long enough for two sub-steps.
- `Stats`: two objects are one that is spoilt and the one it spoils; three stats let a loop go astray and come
  back by a second unknown stat.
- `Interpolation`: four ticks are a way, a rest, a way and one more to jump from; three frames
  end before, at or after the tick's time, and the longest is half of it, so that `EndsNear` asks for
  half of the way.
- `Editor`: a history of two commands covers undo in the middle and cutting;
  a second map covers stale history. `MaxId` is the greatest id below the player's.
- `Inventory`: a container to open and one to change to; two clicks make a swap race another.
- `Shooting`: 3 map changes cover leaving, arriving and leaving again before the first is answered.
- `Hits`: two shots kill the same target in either order; a lifetime of three frames lets a shot meet
  it again after it has hit; two packets let one revive what another kills.
- `Minimap`: two pixels side by side make two rectangles that can be mixed; a second update
  finds the rectangle the first left.
- `Controls`: five screens are the menu, the characters, a game or editor and both again; six presses let a key be held while
  a panel is opened, closed and opened again. Releases are not bounded.

Symmetry is used for nodes (`spsc_main_drains`) and object types (`editor`), which are
only compared; no run with a liveness property uses symmetry.

## 5. Fairness

`Spsc`: weak fairness of what a thread has begun and of the consumer: `networkTick` calls
`accept` every 10 ms, which pops until the queue is empty. Pushes are not fair.
`PacketStream`: weak fairness of `accept` for the same reason; a connected socket's `read`
returns what has arrived. `Session`: weak fairness of the network thread only; nobody has to
press a key and no server has to answer. `Minimap`: weak fairness of the render thread, which runs
every frame, and of an update or clear that has begun. `Controls`: weak fairness of the window
thread once it is in an event and of a switch of the network thread; the user, the server and
the map are not fair. `World`, `MCMotion`, `Editor`, `Inventory`, `Shooting` and `Hits` state safety only. Where a bound stops a module's counters, or the
program is gone, there is nothing to do, and the runs say `CHECK_DEADLOCK FALSE`;
`spsc` checks deadlock.

## 6. Proofs

`tlapm` proves everything below, for all values of the constants that satisfy the named
assumptions (`SpscAssumption`, `SessionAssumption`, `WorldAssumption`, `RandomAssumption`, `StatsAssumption`,
`InterpolationAssumption`, `MotionAssumption`, `InventoryAssumption`, `ShootingAssumption`, `HitsAssumption`, `MinimapAssumption`, `ControlsAssumption`, `EditorAssumption`, and those in `PacketStream`).

**`QueueProofs`**, of `Spsc`, given `SingleEnds` (one producer, one consumer).
`ListInvariance`: `Spec => []IInv`. `PoppedIsPrefix` alone is not inductive: it says
nothing of the memory the next pop reads. `IInv` adds a history `chain` of the nodes
in the order they were linked, and says that the four pointers stand on it in
the order first, tail_copy, tail, head (`PointersOrdered`), that the `next` fields from
first spell it and unread nodes hold what was pushed (`ListSpellsChain`), what a push
and a pop in the middle hold in their locals (`PushUnderway`, `PopUnderway`), and that
every allocated node is in the list or in a push's hands (`NothingLost`). From it follow
`TypeCorrectness`, `FirstInFirstOut`, `ReuseIsSafe`, `NothingLeaks`, and
`QueueRefinement`: linking a node is the abstract push, storing tail the abstract pop,
every other step stutters.

**`QueueProofs`**, of `Editor`, for maps of any size, any types of tiles and any bound on its history: `UndoAlwaysRestores`
(`UndoRestores`), `EntitiesAlwaysTracked` (`EntitiesTracked`, the type invariant with it) and `EditorStopsIfStale`
(`StopsOnlyIfStale`). `UndoRestores` says that the map is what it was when the history was at this position. It is not
inductive: it says nothing of what an undo will do. The invariant (`EditorIInv`) adds
- `Recorded`: each command leads from one past content of the map to the next, and its `old` is what its tile had before
  it. Undo then goes back along it (`PaintedBack`) and redo forward, and cutting the list leaves the
  commands up to here as they were. It holds while no command is `stale`, for a command speaks of a place on the map it was made for.
- `Sound`, as long as ids are below the player's: no two entities but the simulated players have an id in common
  (`Distinct`, since what is added gets a greater id than any before it, `Numbered`), so removing by id removes the one entity that
  was meant; each object of a tile is the only entity drawn for it (`Tracks`), those of
  an earlier map stay behind with an earlier number; and the brush knows each of its previews unless it was
  reset with one shown (`Shows`).

**`StreamProofs`**, of `PacketStream`. `FramingInvariance`: `Spec => []IInv`. The idea: unless framing
was lost, the packets tile the stream (`PacketsTile`), and the cursor is at the end of
the last packet handled, or just behind the next one's header (`CursorAtBoundary`); an idle
reader has a reason to be idle (`ReturnedForReason`). From it follow
`StreamTypeCorrectness`, `PacketsInOrder`, `AcceptDrains` and `ArenaSuffices`.

**`SessionProofs`**, for any number of connections, packets and things the player does:
`SocketsClosed` (`OneSocket`), `QueueTouched` (`TouchesWhenGone`), `GreetedFirst` (`Greetings`) and
`NothingLeftOver` (`LeftoversFailed`). They speak of what servers have received; the invariant
(`Invariance`) says where the packets are before that. Its parts hold under as
many conditions as they need:
- always, `Sockets`: the open socket is the last one and its queue is live, and a thread that has
  closed it unsets `connected` before anyone connects again. That is all `OneSocket` needs, and it holds
  when both threads disconnect.
- while only the network thread disconnects, `Queues`: which labels find the queue live, and that
  a loop of `accept` that goes on after the teardown had a failed write. And `Hellos`: the
  hello of a connection is in one place only, about to be pushed, in the queue, about to be sent, or received;
  a failed write may leave it in the writer's buffer as well.
- while, besides, no packet was handled after the disconnect, `Players`: the map runs only
  while its connection or its teardown lasts; so what is queued or sent is of this
  connection and what the writer keeps is not, or is about to be torn down (`Leftovers`).
- while, besides, the player has not escaped, `Leads`: with `sent_hello` set the hello is first in
  the queue, being sent or received, unless a write just failed; without it nothing is queued.

There is a lemma per action for the types (`TickTypes`, ...) and one for the rest (`TickKeeps`, ...).
When the queue is touched after it is gone (`Breaks`) the model stops, so only the properties
themselves have to survive that step.

**`WorldProofs`**, for any entities and any slice that has more slots than there are entities.
`TableIsSound` (`TableSound`) and `TicksReachTheirEntity` (`TicksReach`). The invariant (`Invariance`)
has three layers, as the code promises less the more its threads got in each other's way:
- always, `Types`: the labels of both threads, and `Room`. Each addition under way is of an entity
  that has been added, so that capacity, or what a thread has loaded of it, and the additions under way are
  never more than the entities added: the slice has room even when additions overlap and lose items.
- until two changes overlap, `Table`: what is being written is behind the last item (`Written`); the items,
  with the one `removePtr` has counted out and not yet overwritten, are those added and not removed, each
  once (`Once`, `Complete`, `Right`); and the indices `map.update` marked are those of finished items, in
  order (`Marked`). Removing takes the last marked index, so the others stay below `capacity` and keep their items.
- until an item was moved, removed or disposed of under a tick as well, `Ticks`: the reference is to the
  entity, and of the locks in the table only that of the reference is held, and only between lock and unlock.

Sorting keeps the table because a permutation of an interval reaches every index
(`PermutationReaches`, from the library's facts about injections of finite sets).

**`PlayerProofs`**, of `Random`. `NeverOverflows`: no intermediate result of `Random.gen` leaves a word,
which in a Debug build means it never traps, for all 2^32 seeds. `GenIsMultiplication`:
it is multiplication by 16807 modulo 2^31 - 1. `RollInRange`: a roll is in its range and,
unless the range is a point, below its upper end. They hold for any even half word and
multiplier of at most half of it; the code's 65536 and 16807 are one case.

`Spsc`'s `TypeOK` and `NoLeak` are conjuncts of `IInv` or follow from it; no run repeats them.

**`StreamProofs`**, of `Stats`. `StatsReachEach`: the run's `StatsReach` for packets of any number of
objects and stats. It speaks of what objects were given; the invariant says where the
reader stands while it gives it. Between objects the place is where the next one begins, unless it
went astray; inside one it is at the stat the counters name, or it jumped and reads what is no
longer this object's (`Positions`). An object passed that is not `Spoilt` has exactly the stats
it should (`Gives`); one that got a stat of another is `Spoilt`, or the one in hand is
(`Excused`). `Spoilt` is a fact about the packet, fixed before it is read: that is what
makes the excuse stable.

**`ShownProofs`**, of `Interpolation`, for any positions, angles and lengths of frames.
`EntitiesFollow` is the run's `Follows`; `AlwaysBetween` its first half, where an entity is shown lies
between where it was and where the server said. `NaNOnlyIfRaced`: it becomes no number only by the race that
`NowhereOnlyIfRaced` names. The invariant says that an entity under way is, in either axis,
between the ends and heads for the server's (`Ahead`); that one without a step is where the server
said (`Ways`); and that update holds the lock of an entity without an angle only if a tick took the
angle away after the question (`Races`).
That it gets there in time (`EndsNear`) needs an account of the frames (`Late`): TickTime times what is left, with
the time that went by times the whole way, is at most TickTime times the whole way, and what rounding took of each
frame; or else a frame was dropped whose way is longer than what is left, which can only shrink. No root is
involved: without drift the step is that of the tick's difference, and its parts are the difference's own (`MovedIs`).
The attempt showed that the bound the property stated before held for the run's bound on frames only, and that its
longest frame, longer than a tick, excused everything; it now speaks of the frames there were, and the run's frames are shorter.
Players that drift (a step and target of an earlier way) are excepted. `InterpolationAssumption`
includes that NaN is not a pair of numbers. Rounding is that of the model (down), not that of floats.

**`ShownProofs`**, of `Movement`, for maps of any size with anything on them, from any place and for
displacements of any length: `PlayerStepsSound` (`StepSound`) and `PlayerStaysFitting` (`StaysFitting`). The state
that matters is only where the player is (`OnMap`); the work is in what one step does.
- The geometry of `Fits` says the same as the quarters that isValidPosition looks at (`FitsIsValid`): in either axis
  `Side` names the neighbours that the half of the tile it stands in reaches into.
- A place is `Inner` to another if it is in the same tile and reaches into no other neighbour: what is valid
  there is valid here (`InnerValid`), in each axis for itself. A border a short step is cut off at is `Inner` to where
  the step began (`Axis`), and so is a step that crosses none. Therefore the last resort, which modifyStep does not look at, is
  valid when the beginning is (`StepFits`).
- A border that was not set is 0, and no place at 0 in an axis is valid (`ZeroInvalid`), because it would reach off the map:
  no attempt along one axis is taken by mistake. Where only one border is set, the attempt that keeps to it succeeds; so the last
  resort is taken with both.
- Sub-steps add up to no more than the displacement (`PartIs`), and the nudge, which may take a place back, does not
  add up (`Near`): it is measured from a border, not from where the player was.

`MovementAssumption` puts the threshold below half a tile, as the code's 0.4 is: at half a tile the last resort need not fit.
The attempt corrected the model in two places: the assumption, and the length of a sub-step, which was rounded
down also where it is negative, so that many sub-steps went further than the displacement; it is now rounded towards zero.
Floats and their rounding are left out, so the theorem says nothing of a border missed by the last bit.

**`ShownProofs`**, of `Inventory`, for any slots, containers, items, clicks and changes by others:
`InventorySettles` (`SettledShowsServer`), `InventoryNames` (`NamesTheShown`) and `InventorySlots` (`SlotsSound`,
the type invariant with it). `SettledShowsServer` speaks of rest; the invariant (`InventoryInv`) says what is right
in flight:
- of the stats about a place, on the wire or in the network thread's hands, the newest has the server's item
  (`Newest`), so an object of the map has what the server has or a stat that says so is on its way (`HeldRight`).
- a slot on screen shows the server's item, or a stat will set it, or a request that touches it is on its way, or the callback that
  will send one has written it (`Right`). Each of the four hands over to the next: the callback to the
  request, the request to the stats it is answered with, the stat on the wire to the one in hand. A refusal breaks that, and a
  stat over which `swapSlots` or `map.update` writes what they had read before, and for the view a stat that is
  not shown or shown too late: the four `causes`. The player's slots suffer from two of them only (`InvRight`).
- what `map.update` has read of a container stays right until it fills the view, or a stat came between
  (`LoadRight`); that is why filling the view takes back the causes *missed* and *late*, and no other.
- `interactive_id` is the container on view, or a portal, outside `map.update` (`Synced`). `swapSlots` names it instead of
  `container_id`, so `NamesTheShown` follows, and that an index is out of range only with the view closed.
- nothing gets into a backpack that is not there, by whatever slot a search or the mouse finds (`ClosedEmpty`):
  requests are the only way, and a swap is refused before one is sent.

`InventoryAssumption` says that the named objects differ and that the server does not start with an item in a closed backpack.

**`PlayerProofs`**, of `Shooting`. `AlwaysInStep` and `AlwaysDrawsFromMap`: `InStep` and `DrawsFromMap`
for any seeds, volleys, delays and bounds. The invariant has two cases. With the player in
the map (`InMap`), the client's seed is what the server's becomes once it has handled the
wire and then the queue. Otherwise (`Between`) no volley is under way, and exactly one leave is
somewhere: queued alone, last on the wire, refused, or answered by what is left of MapInfo,
CreateSuccess and Update, in that order.
What the server draws is a recursion over a sequence; the lemmas `TraceExists`,
`DrawnAppend` and `DrawnHead` are inductions on its length, each done as the absence of a
least counterexample (`LeastNat`, from the library's well-founded induction over sets).

**`PlayerProofs`**, of `Controls`, for any numbers of presses and screens: `WalksOnlyByKey` (`WalksByKey`),
`InputDisabledForReason` (`DisabledForReason`) and `ScreensAreLive` (`ScreensLive`, which includes the type invariant). The first
two speak of the time between two events; the invariant (`ControlsInvariance`) says what holds inside one, and most of it only
until the network thread has disconnected in the middle of an event (`history.raced`):
- `move_up` is set only while the key is held, its release is being handled or went unseen (`WhyWalking`). A release that
  finds input disabled goes unseen, so `WhyDisabled` says that with input disabled and the options closed
  nothing is set: `showPanel` resets the keys, opening the options does not.
- until both threads switch, the current screen is a destroyed one only between `deinit` and `init` (`OnceEach`). A key mapper is
  dropped before that; a field is dropped by the click that switches but not by `disconnect`, so it alone
  outlives its screen (`Selected`, `history.kept`).
- a callback runs on the screen it was meant for, unless the network thread switched after the press (`Meant`).
- every switch that has begun or will begin has a number left (`RoomLeft`): the bound on screens is never what stops one.

**`HitsProofs`**, for any entities, kinds of shots, damage, defence and numbers of packets: `HitOnce`
(`EachHitOnce`), `ClaimsHold` (`KilledIsRight`) and `DeathsHold` (`DeathsRight`). Each part of the invariant
(`Invariance`) follows one thing on its way:
- a shot: one that ended is not looked at again before it is removed (`Flight`), one that flies has noted as hit
  whatever it reported (`Noted`), and what it is about to report it has not noted (`Fresh`).
- what is known of an entity: statuses come in order and none is older than what the client keeps (`Order`); what the
  client keeps, and what a thread has loaded to store again, is either of an old version or has the server's
  conditions and no less than its hp (`Kept`, `Current`). Of such a version a claim stays deadly on its way through
  takeDamage and the wire (`Claims`, `Deadly`), for the server only lowers the hp of a version, and more conditions
  never mean more damage (`DamageAntitone`). An effect the client gives itself may be one the server does not
  know of: that errs to the safe side.
- a death: without an overlap, who is about to set dead finds it unset (`Once`); the dead have little hp, except
  between the two writes of a status (`Low`).

The attempt corrected the model twice. An entity has a set of conditions, one bit each, where the model kept one: the
claim would have been wrong for an armoured target that a shot slows. And to give one is a load and a store, which the model took
for one step.

**`MinimapProofs`**, for any image and any number of tiles, updates and clears.
`NothingElseLost` (`OnlyOverlapsLost`) and `StopsForReason` (`StopsOnlyIfRaced`). The first speaks of the time
between frames; the invariant (`Invariance`) follows a pixel that differs from the texture through an
upload:
- before the texture is written, it is in the rectangle, about to be put there by the update that painted it,
  or was lost before (`Remembered`). Nothing is said while a clear is under way or has asked for everything
  (`Asked`): the image is wiped without the rectangle, and the full upload makes up for it.
- a partial upload has read sides that let it in, has copied it, and has written it, unless it was painted
  during the upload (`Partial`: `history.late`); a full one copies whatever was painted before its row was
  copied, and what is painted later waits (`Full`).
- the value an update has loaded of a side lets in at least what the side does (`Widens`), because only the network
  thread widens sides: storing what it compared narrows nothing.
- while no update overlapped an upload and none was announced without painting, the rectangle that a frame finds
  is not empty (`Tidy`), which is why the subtraction does not underflow.

It is proved of the specification's safety part; `EventuallyUploaded` needs fairness and stays with TLC.
The attempt also showed that two arms of `Measure`'s CASE overlapped: an area that underflows
and is full could have been taken as either. The code subtracts first, and so does the module now.

Only model-checked: all liveness (TLAPS does not do fairness here), `EventuallyPopped`, `EventuallyHandled`, `EventuallyGreeted`,
`EventuallyUploaded` and `ClosesOrHangs` among it, and the refutation of `spsc_main_drains`. Every invariant
and every action property that a passing run checks is a theorem.

## 7. Plan

Done so far: Fifo, Spsc, PacketStream, Stats, Session, World, Movement, Interpolation, Editor,
Inventory, Random, Shooting, Hits, Minimap, Controls.

What could still be modelled:

1. *The list of elements* of `screen_controller.zig`: `elements_to_remove`, `removeAttachedUi`, dragging; the
   vault panel as a second instance of Inventory's slots.
2. *The buffer allocator* as the window thread's `playSfx` uses it (`assets.zig` 639), beside PacketStream: two
   threads that bump one counter.
3. *Composition*: Session over the abstract queue with two consumers; Session and
   PacketStream sharing the reader across connections.

Smaller hazards met while reading, for the modules they belong to, beside those listed in
`PROJECT.json`: `elements_to_remove` keeps pointers into a slice whose last element moves when
one is destroyed (`screen_controller.zig` 541), and `removeAttachedUi` destroys while it iterates
(139); `StatusText.destroy` and `SpeechBalloon.destroy` compare the address of a copy with their own
(`ui.zig` 767-777, 854-866); `removePtr` returns a pointer to a dead local (`utils.zig` 58); an
entity added while `map.update` iterates may move the slice under its pointer (`map.zig` 2288);
projectile ids wrap to ids in use (`map.zig` 1593); the loop over a condition's bits reaches padding
bits that are no `ConditionEnum` (`map.zig` 479); a bullet id read as `i8` is cast to `u8`
(`network.zig` 340); a roll with `min > max` underflows (`utils.zig` 423); `handleMapInfo` frees
`map.name` while others read it (`network.zig` 577); `main` deinits the network before it joins the
thread (`main.zig` 456); `modifyMove` leaves its loop without the last sub-step (`map.zig` 1371); the
editor's `deinit` frees the command list twice (1093).

Abstract specifications to state: `Fifo` for the queue (done); a reliable
sequence of handled packets for PacketStream; a set with atomic changes for World
without overlap.

Proofs to add: the floats' own rounding is outside all of them; a bound on it would have to come before anything
that Movement and Interpolation say of whole numbers is said of the code's.
