------------------------------- MODULE Editor -------------------------------
(***************************************************************************)
(* The map editor of src/src/ui/screens/map_editor_screen.zig: the tiles   *)
(* of the map being drawn, the entities that stand for its objects, the    *)
(* preview of the brush, and the history of commands behind undo and redo. *)
(*                                                                         *)
(* Everything runs on the window thread.  What the player holds when a     *)
(* frame is drawn (pointer, layer, type, key) is an input of the frame.    *)
(* Regions are left out: they never enter the history.                     *)
(***************************************************************************)
EXTENDS Integers, FiniteSets, Sequences

CONSTANTS
  Sizes,        \* sides of a map to choose from; 64, 128, 256 in the code
  DefaultSize,
  Grounds, Void,      \* types of ground; Void is 0xFFFC
  Objects, NoObject,  \* types of objects; NoObject is 0xFFFF
  PlayerId,     \* the entity that simulates a player, 0xFFFC
  ErasedId,     \* what an erased tile has for object_id, 0xFFFF
  MaxId, MaxCommands, MaxMaps, MaxBrush, Pointed  \* bounds of the model; the
                \* player points at no tiles but the Pointed

ASSUME EditorAssumption ==
  /\ Sizes \subseteq Nat \ {0} /\ DefaultSize \in Sizes
  /\ Void \notin Grounds /\ NoObject \notin Objects
  /\ PlayerId \in Nat /\ ErasedId \in Nat /\ PlayerId < ErasedId
  /\ MaxId \in Nat /\ MaxCommands \in Nat /\ MaxMaps \in Nat /\ MaxBrush \in Nat
  /\ Pointed \subseteq Nat \X Nat

VARIABLES
  size,      \* map_size
  side,      \* the side of the map that was created, 0 before
  tiles,     \* map_tile_data
  commands, position,  \* CommandQueue
  world,     \* entities of the map
  lastId,    \* simulated_object_id_next
  visual,    \* _visual_objects of the brush
  asking,    \* new_container is visible
  editing,   \* main.editing_map
  past,      \* history: the contents of the map at each position
  maps,      \* history: maps created on this screen
  stale,     \* history: commands outlived their map
  stray,     \* history: the brush forgot a preview
  panicked   \* "no", or what stopped the program

drawing == <<tiles, world, lastId>>
queue == <<commands, position>>
flags == <<asking, editing>>
record == <<past, maps, stale, stray>>
editorVars == <<size, side, drawing, queue, visual, flags, record, panicked>>

Layer == {"ground", "object"}
TypeOf(layer) == IF layer = "ground" THEN Grounds \cup {Void} ELSE Objects \cup {NoObject}
Empty == [ground |-> Void, object |-> NoObject, id |-> -1]
At(s) == Pointed \cap ((0 .. s - 1) \X (0 .. s - 1))
Index(at) == at[2] * size + at[1]

\* What undo is to restore.
Contents(ts) == [i \in DOMAIN ts |-> <<ts[i].ground, ts[i].object>>]

\* The program is gone; the last three are kept to see why.
Panic(why) ==
  /\ panicked' = why
  /\ tiles' = [i \in {} |-> Empty] /\ world' = {} /\ lastId' = -1
  /\ commands' = <<>> /\ position' = 0 /\ visual' = {}
  /\ asking' = FALSE /\ editing' = FALSE
  /\ past' = <<>> /\ maps' = 0 /\ stray' = FALSE
  /\ UNCHANGED <<size, side, stale>>

-----------------------------------------------------------------------------
\* Of two entities with the same id the first in the table is removed.
RemoveEntity(es, id) ==
  IF \E e \in es : e.id = id THEN {es \ {e} : e \in {x \in es : x.id = id}} ELSE {es}

AddObject(d, i, type) ==
  [tiles |-> [d.tiles EXCEPT ![i].object = type, ![i].id = d.lastId + 1],
   world |-> d.world \cup {[id |-> d.lastId + 1, kind |-> "object", tile |-> i, map |-> maps]},
   lastId |-> d.lastId + 1]

\* The outcomes of setObject.
SetObject(d, i, type) ==
  IF d.tiles[i].object = type THEN {d}
  ELSE LET left == IF type = NoObject \/ d.tiles[i].id # -1
                   THEN RemoveEntity(d.world, d.tiles[i].id) ELSE {d.world}
           erased(es) == [d EXCEPT !.world = es, !.tiles[i].object = NoObject,
                                   !.tiles[i].id = ErasedId]
       IN {IF type = NoObject THEN erased(es)
           ELSE AddObject([d EXCEPT !.world = es], i, type) : es \in left}

SetTile(d, i, type) == [d EXCEPT !.tiles[i].ground = type]

\* execute and unexecute of the four commands: erasing sets Void or NoObject.
Set(d, i, layer, type) ==
  IF layer = "ground" THEN {SetTile(d, i, type)} ELSE SetObject(d, i, type)

-----------------------------------------------------------------------------
\* EditorBrush.updateVisual, when a key has asked for it, replaces the
\* preview by n entities; else it moves the one there is with the pointer.
\* Where a preview is drawn is left out, except that it may have left the map.
Ghosts(n) == [id : lastId + 1 .. lastId + n, kind : {"ghost"}, tile : {-1}, map : {maps}]

\* The old preview is removed by its ids, one entity for each.
Previews(es) ==
  {old \in SUBSET {e \in es : e.id \in visual} :
     /\ {e.id : e \in old} = {e.id : e \in es} \cap visual
     /\ \A e, f \in old : e.id = f.id => e = f}

\* Mutant of Rebuilt: the old preview stays.
RebuiltOver(d, n) ==
  {[tiles |-> d.tiles, world |-> d.world \cup Ghosts(n), lastId |-> d.lastId + n]}

Rebuilt(d, n) ==
  {[tiles |-> d.tiles, world |-> (d.world \ old) \cup Ghosts(n), lastId |-> d.lastId + n] :
     old \in Previews(d.world)}

Drawing == [tiles |-> tiles, world |-> world, lastId |-> lastId]

\* The drawings that the frame goes on with.
UpdateVisual ==
  \/ UNCHANGED visual
  \/ \E n \in 1..MaxBrush :
       /\ n <= size * size
       /\ lastId + n < MaxId
       /\ visual' = lastId + 1 .. lastId + n

Updated == IF visual' = visual THEN {Drawing}
           ELSE Rebuilt(Drawing, Cardinality(visual'))

Becomes(d) == tiles' = d.tiles /\ world' = d.world /\ lastId' = d.lastId

\* Part of every frame, before the action is looked at.
Frame(at) ==
  /\ editing
  /\ Index(at) \in DOMAIN tiles
  /\ UpdateVisual
  /\ UNCHANGED <<size, side, flags, maps, stray, panicked>>

Look(at) ==
  /\ Frame(at)
  /\ \E d \in Updated : Becomes(d)
  /\ UNCHANGED <<queue, past, stale>>

\* Mutant of Cut: what was undone can still be redone.
CutNothing == commands

\* addCommand drops what was undone.
Cut == SubSeq(commands, 1, IF position < Len(commands) THEN position ELSE Len(commands))

\* The action is place or erase: addCommand executes the command.
Edit(at, layer, type) ==
  LET i == Index(at)
      old == tiles[i][layer]
  IN /\ Frame(at)
     /\ old # type
     /\ position < MaxCommands /\ lastId + 1 < MaxId
     /\ \E d \in Updated : \E e \in Set(d, i, layer, type) : Becomes(e)
     /\ commands' = Append(Cut, [at |-> at, layer |-> layer, new |-> type, old |-> old])
     /\ position' = position + 1
     /\ stale' = (stale \/ size # side)
     /\ past' = IF stale' THEN <<>> ELSE Append(SubSeq(past, 1, position + 1), Contents(tiles'))

Undo(at) ==
  /\ Frame(at)
  /\ position > 0 /\ position <= Len(commands)
  /\ LET c == commands[position] IN
     /\ Index(c.at) \in DOMAIN tiles
     /\ lastId + 1 < MaxId
     /\ \E d \in Updated : \E e \in Set(d, Index(c.at), c.layer, c.old) : Becomes(e)
  /\ position' = position - 1
  /\ stale' = (stale \/ size # side)
  /\ past' = IF stale' THEN <<>> ELSE past
  /\ UNCHANGED commands

Redo(at) ==
  /\ Frame(at)
  /\ position < Len(commands)
  /\ LET c == commands[position + 1] IN
     /\ Index(c.at) \in DOMAIN tiles
     /\ lastId + 1 < MaxId
     /\ \E d \in Updated : \E e \in Set(d, Index(c.at), c.layer, c.new) : Becomes(e)
  /\ position' = position + 1
  /\ stale' = (stale \/ size # side)
  /\ past' = IF stale' THEN <<>> ELSE past
  /\ UNCHANGED commands

-----------------------------------------------------------------------------
\* The ways a frame stops the program: an index out of the tiles, an undo or
\* redo out of the list, and a preview disposed of after the pointer moved it
\* off the map, where there is no square.
\* The first needs no map: the sample button looks at the tiles as well, and
\* so does a frame when tick_frame is left over from a game.
Outside(at) ==
  /\ Index(at) \notin DOMAIN tiles
  /\ Panic("tiles")

\* Mutant of OutOfList: undo and redo look at an empty list.
OutOfListAny ==
  /\ editing
  /\ commands = <<>>
  /\ Panic("list")

OutOfList ==
  /\ editing
  /\ position > Len(commands)
  /\ Panic("list")

WrongPlace ==
  /\ editing
  /\ \E k \in {position, position + 1} \cap 1..Len(commands) :
       Index(commands[k].at) \notin DOMAIN tiles
  /\ Panic("tiles")

OffTheMap ==
  /\ editing
  /\ visual # {}
  /\ Panic("preview")

-----------------------------------------------------------------------------
\* EditorBrush.reset forgets the preview, which stays in the map.
ResetBrush ==
  /\ visual' = {}
  /\ stray' = (stray \/ visual # {})

New ==
  /\ ~asking /\ asking' = TRUE
  /\ ResetBrush
  /\ UNCHANGED <<size, side, drawing, queue, editing, past, maps, stale, panicked>>

MapSizeChanged(s) ==
  /\ asking /\ size' = s
  /\ UNCHANGED <<side, drawing, queue, visual, flags, record, panicked>>

Player(n) == [id |-> PlayerId, kind |-> "player", tile |-> -1, map |-> n]

\* newCreateCallback: new tiles and one more player; the commands, and the
\* entities of the map before, stay.
Create ==
  /\ asking /\ asking' = FALSE /\ maps < MaxMaps
  /\ side' = size
  /\ tiles' = [i \in 0 .. size * size - 1 |-> Empty]
  /\ world' = world \cup {Player(maps + 1)}
  /\ editing' = TRUE
  /\ maps' = maps + 1
  /\ stale' = (commands # <<>> \/ position # 0)
  /\ past' = IF stale' THEN <<>> ELSE <<Contents(tiles')>>
  /\ UNCHANGED <<size, lastId, queue, visual, stray, panicked>>

\* newCloseCallback: position stays.
CloseDialog ==
  /\ asking /\ asking' = FALSE
  /\ commands' = <<>>
  /\ ResetBrush
  /\ size' = DefaultSize
  /\ stale' = (stale \/ position # 0)
  /\ past' = IF stale' THEN <<>> ELSE SubSeq(past, 1, 1)
  /\ UNCHANGED <<side, drawing, position, editing, maps, panicked>>

\* A new screen.
Fresh ==
  /\ size' = DefaultSize /\ side' = 0
  /\ tiles' = [i \in {} |-> Empty] /\ world' = {} /\ lastId' = -1
  /\ commands' = <<>> /\ position' = 0
  /\ visual' = {}
  /\ asking' = FALSE /\ editing' = FALSE
  /\ past' = << <<>> >> /\ maps' = 0 /\ stale' = FALSE /\ stray' = FALSE

\* deinit of the screen frees the list, and reset frees it again.  When the
\* allocator lets it pass, the player may open another editor.
Exit ==
  \/ commands # <<>> /\ Panic("freed")
  \/ Fresh /\ UNCHANGED panicked

-----------------------------------------------------------------------------
EditorInit ==
  /\ size = DefaultSize /\ side = 0
  /\ tiles = [i \in {} |-> Empty] /\ world = {} /\ lastId = -1
  /\ commands = <<>> /\ position = 0
  /\ visual = {}
  /\ asking = FALSE /\ editing = FALSE
  /\ past = << <<>> >> /\ maps = 0 /\ stale = FALSE /\ stray = FALSE
  /\ panicked = "no"

EditorNext ==
  /\ panicked = "no"
  /\ \/ \E at \in At(size) : Look(at) \/ Undo(at) \/ Redo(at) \/ Outside(at)
     \/ \E at \in At(size), layer \in Layer :
          \E type \in TypeOf(layer) : Edit(at, layer, type)
     \/ OutOfList \/ WrongPlace \/ OffTheMap
     \/ New \/ Create \/ CloseDialog \/ Exit
     \/ \E s \in Sizes : MapSizeChanged(s)

EditorSpec == EditorInit /\ [][EditorNext]_editorVars

-----------------------------------------------------------------------------
Id == -1..MaxId
Tile == [ground : Grounds \cup {Void}, object : Objects \cup {NoObject}, id : Id \cup {ErasedId}]
Entity == [id : Id \cup {PlayerId}, kind : {"player", "object", "ghost"}, tile : Int, map : 0..MaxMaps]
Command == [at : Nat \X Nat, layer : Layer,
            new : Grounds \cup Objects \cup {Void, NoObject},
            old : Grounds \cup Objects \cup {Void, NoObject}]

\* The tiles are those of the map that was created, whatever size is chosen.
EditorTypeOK ==
  /\ size \in Sizes /\ side \in Sizes \cup {0}
  /\ panicked = "no" => DOMAIN tiles = 0 .. side * side - 1
  /\ \A i \in DOMAIN tiles : tiles[i] \in Tile
  /\ world \subseteq Entity /\ lastId \in Id
  /\ commands \in Seq(Command) /\ position \in 0..MaxCommands
  /\ visual \subseteq Id
  /\ asking \in BOOLEAN /\ editing \in BOOLEAN
  /\ maps \in 0..MaxMaps /\ stale \in BOOLEAN /\ stray \in BOOLEAN
  /\ panicked \in {"no", "tiles", "list", "preview", "freed"}

\* However the player edits, undoes and redoes, the map is what it was when
\* the history was at this position, and there is always something to undo:
\* as long as the commands are of this map.
UndoRestores ==
  (panicked = "no" /\ ~stale) =>
    /\ Contents(tiles) = past[position + 1]
    /\ Len(past) = Len(commands) + 1
    /\ \A k \in 1 .. Len(past) - 1 : past[k] # past[k + 1]

\* A tile's object_id is "used to keep track of what entity exists on this
\* tile" (map_editor_screen.zig:29): every object on the map that is open is
\* one entity, the one with that id, and no tile without object has one.  It
\* fails once previews and objects have counted the ids up to the player's.
ObjectsOf(i) == {e \in world : e.kind = "object" /\ e.tile = i /\ e.map = maps}
TracksEntities ==
  \A i \in DOMAIN tiles :
    IF tiles[i].object = NoObject THEN ObjectsOf(i) = {}
    ELSE \E e \in world : ObjectsOf(i) = {e} /\ e.id = tiles[i].id

\* It does as long as the ids, which previews use up as well, have not
\* reached those with a meaning of their own; whatever command outlived its
\* map, and whatever size was chosen meanwhile.
TracksUntilIdsMeet == lastId < PlayerId => TracksEntities

\* The brush knows every entity of its preview, so that it can remove them,
\* unless the dialog made it forget one.
PreviewTracked ==
  (~stray /\ lastId < PlayerId) => {e.id : e \in {x \in world : x.kind = "ghost"}} = visual

\* What is drawn is what is edited: tiles, objects and preview have their
\* entities and no others.  (map_editor_screen.zig 261-335, 1287-1340)
EntitiesTracked == EditorTypeOK /\ TracksUntilIdsMeet /\ PreviewTracked

\* Nothing the player does stops the editor with an index out of bounds, but
\* choosing a size without creating the map and reusing old commands.
StopsOnlyIfStale ==
  /\ panicked = "tiles" => stale \/ size # side
  /\ panicked = "list" => stale
=============================================================================
