------------------------------ MODULE Minimap ------------------------------
(***************************************************************************)
(* The minimap: the network thread paints tiles and objects into an image  *)
(* and widens a rectangle around what it painted (setSquare, addToMap,     *)
(* handleUpdate), the render thread copies that rectangle to the texture   *)
(* and makes it empty again (renderTick), and main.clear, run by the       *)
(* network or the window thread, wipes the image and asks for a full copy. *)
(*                                                                         *)
(* Nothing locks the image, the rectangle or the two flags.  A step is one *)
(* access to a flag or a side of the rectangle, one pixel painted, or one  *)
(* row wiped or copied.  A side is widened by a load and a store.          *)
(*                                                                         *)
(* The comment in renderTick says "chunks of minimap can be lost": the     *)
(* history variable lost says which, and the properties that nothing else  *)
(* is.                                                                     *)
(***************************************************************************)
EXTENDS Naturals, FiniteSets

CONSTANTS
  Width, Height,  \* the image's sides; both are 4096 in the code
  Colors,         \* the colours of tiles and objects
  NoColor,        \* an image wiped
  MaxPaints,      \* bound on the tiles and objects of all updates
  MaxUpdates,     \* bound on the updates
  MaxClears       \* bound on the maps entered or left

ASSUME MinimapAssumption ==
  /\ Width \in Nat \ {0} /\ Height \in Nat \ {0}
  /\ MaxPaints \in Nat /\ MaxUpdates \in Nat /\ MaxClears \in Nat
  /\ NoColor \notin Colors

Cell == [x : 0..Width-1, y : 0..Height-1]
Origin == [x |-> 0, y |-> 0]
Image == [Cell -> Colors \cup {NoColor}]

\* The sides of the rectangle in the order they are widened, read and reset.
Sides == <<"min_x", "max_x", "min_y", "max_y">>
Empty == [min_x |-> Width, max_x |-> 0, min_y |-> Height, max_y |-> 0]
Whole == [min_x |-> 0, max_x |-> Width, min_y |-> 0, max_y |-> Height]

VARIABLES
  data,     \* map.minimap.data
  texture,  \* render.minimap_texture
  flags,    \* need_minimap_update and need_force_update
  rect,     \* minimap_update_min_x and so on
  pc,       \* where each thread is
  net,      \* handleUpdate's locals: tiles left and in all, the cell being
            \* painted, the side it widens, the value it loaded for it
  row,      \* the next row each thread wipes or copies
  upload,   \* renderTick's locals: the area and its copy
  done,     \* how many updates, clears, tiles and objects there were
  history   \* touched: cells the update under way painted, not yet announced
            \* late: cells whose change overlaps the upload under way
            \* lost: cells whose change an upload forgot
            \* overlapped, blank, dropped: a change overlapped an upload, an
            \* update painted nothing and asked for an upload, an update
            \* without tiles took back a request

vars == <<data, texture, flags, rect, pc, net, row, upload, done, history>>

Goto(t, label) == pc' = [pc EXCEPT ![t] = label]

Uploading == pc["render"] \notin {"frame", "force?"}
Partly == Uploading /\ upload.of = "need"
Fully == Uploading /\ upload.of = "force"
Clearing(t) == pc[t] \in {"wipe", "ask"}

Covers(r, c) == r.min_x <= c.x /\ c.x <= r.max_x /\ r.min_y <= c.y /\ c.y <= r.max_y

Init ==
  /\ data = [c \in Cell |-> NoColor]
  /\ texture = data
  /\ flags = [need |-> FALSE, force |-> FALSE]
  /\ rect = Empty
  /\ pc = [net |-> "idle", win |-> "idle", render |-> "frame"]
  /\ net = [left |-> 0, tiles |-> 0, cell |-> Origin, side |-> 1, seen |-> 0, phase |-> "idle"]
  /\ row = [net |-> 0, win |-> 0, render |-> 0]
  /\ upload = [of |-> "need", area |-> Empty, copy |-> data, side |-> 1]
  /\ done = [updates |-> 0, clears |-> 0, paints |-> 0]
  /\ history = [touched |-> {}, late |-> {}, lost |-> {},
                overlapped |-> FALSE, blank |-> FALSE, dropped |-> FALSE]

-----------------------------------------------------------------------------
(* The network thread: handleUpdate.                                       *)

UpdateBegin ==
  /\ pc["net"] = "idle"
  /\ done.updates < MaxUpdates
  /\ \E n \in 0..MaxPaints - done.paints :
       /\ net' = [net EXCEPT !.left = n, !.tiles = n, !.phase = "tiles"]
       /\ done' = [done EXCEPT !.updates = @ + 1, !.paints = @ + n]
  /\ Goto("net", "tiles")
  /\ UNCHANGED <<data, texture, flags, rect, row, upload, history>>

\* The pixel of a tile or a static object, and what it says for history.
Paint(c) ==
  /\ \E color \in Colors : data' = [data EXCEPT ![c] = color]
  /\ net' = [net EXCEPT !.cell = c, !.left = @ - 1]
  /\ history' = [history EXCEPT !.touched = @ \cup {c},
                                !.late = IF Partly THEN @ \cup {c} ELSE @,
                                !.overlapped = @ \/ Partly]
  /\ Goto("net", "load")
  /\ UNCHANGED <<texture, flags, rect, row, upload, done>>

\* setSquare of a tile whose texture has a dominant colour.
SetSquare ==
  /\ pc["net"] = "tiles" /\ net.left > 0
  /\ \E c \in Cell : Paint(c)

\* setSquare of a tile without: the map changes, the minimap does not.
SetSquareUnknown ==
  /\ pc["net"] = "tiles" /\ net.left > 0
  /\ net' = [net EXCEPT !.left = @ - 1]
  /\ UNCHANGED <<data, texture, flags, rect, pc, row, upload, done, history>>

\* GameObject.addToMap of a static object, after the tiles.
AddStatic ==
  /\ pc["net"] = "objects" /\ net.left > 0
  /\ \E c \in Cell : Paint(c)

Load ==
  /\ pc["net"] = "load"
  /\ net' = [net EXCEPT !.seen = rect[Sides[net.side]]]
  /\ Goto("net", "store")
  /\ UNCHANGED <<data, texture, flags, rect, row, upload, done, history>>

Least(a, b) == IF a < b THEN a ELSE b
Most(a, b) == IF a < b THEN b ELSE a

\* Mutant of Widened: the larger x is not kept.
WidenedNarrow(side, old, c) ==
  CASE side = "min_x" -> Least(old, c.x)
    [] side = "max_x" -> c.x
    [] side = "min_y" -> Least(old, c.y)
    [] side = "max_y" -> Most(old, c.y)

Widened(side, old, c) ==
  CASE side = "min_x" -> Least(old, c.x)
    [] side = "max_x" -> Most(old, c.x)
    [] side = "min_y" -> Least(old, c.y)
    [] side = "max_y" -> Most(old, c.y)

\* An object that is painted was announced before; nothing will again.
Store ==
  LET last == net.side = 4 IN
  /\ pc["net"] = "store"
  /\ rect' = [rect EXCEPT ![Sides[net.side]] = Widened(Sides[net.side], net.seen, net.cell)]
  /\ net' = IF last THEN [net EXCEPT !.side = 1, !.seen = 0, !.cell = Origin] ELSE [net EXCEPT !.side = @ + 1]
  /\ Goto("net", IF last THEN net.phase ELSE "load")
  /\ history' = [history EXCEPT !.touched = IF last /\ net.phase = "objects" THEN {} ELSE @]
  /\ UNCHANGED <<data, texture, flags, row, upload, done>>

\* need_minimap_update = tiles.len > 0: it also takes back a request.
Announce ==
  /\ pc["net"] = "tiles" /\ net.left = 0
  /\ flags' = [flags EXCEPT !.need = net.tiles > 0]
  /\ history' = [history EXCEPT !.touched = {},
                                !.blank = @ \/ (net.tiles > 0 /\ history.touched = {}),
                                !.dropped = @ \/ (net.tiles = 0 /\ flags.need)]
  /\ \E n \in 0..MaxPaints - done.paints :
       /\ net' = [net EXCEPT !.left = n, !.tiles = 0, !.phase = "objects"]
       /\ done' = [done EXCEPT !.paints = @ + n]
  /\ Goto("net", "objects")
  /\ UNCHANGED <<data, texture, rect, row, upload>>

UpdateEnd ==
  /\ pc["net"] = "objects" /\ net.left = 0
  /\ net' = [net EXCEPT !.phase = "idle"]
  /\ Goto("net", "idle")
  /\ UNCHANGED <<data, texture, flags, rect, row, upload, done, history>>

-----------------------------------------------------------------------------
(* main.clear, by handleMapInfo or by disconnect and queuePacket.          *)

ClearBegin(t) ==
  /\ pc[t] = "idle"
  /\ done.clears < MaxClears
  /\ done' = [done EXCEPT !.clears = @ + 1]
  /\ Goto(t, "wipe")
  /\ UNCHANGED <<data, texture, flags, rect, net, row, upload, history>>

\* What is wiped while a full upload is under way is wiped for good.
Wiped(r) ==
  /\ data' = [c \in Cell |-> IF c.y = r THEN NoColor ELSE data[c]]
  /\ history' = [history EXCEPT !.late = IF Fully THEN Cell ELSE @,
                                !.overlapped = @ \/ Fully]

\* dispose: @memset(minimap.data, 0), row by row.
Wipe(t) ==
  LET last == row[t] = Height - 1 IN
  /\ pc[t] = "wipe"
  /\ Wiped(row[t])
  /\ row' = [row EXCEPT ![t] = IF last THEN 0 ELSE @ + 1]
  /\ Goto(t, IF last THEN "ask" ELSE "wipe")
  /\ UNCHANGED <<texture, flags, rect, net, upload, done>>

Ask(t) ==
  /\ pc[t] = "ask"
  /\ flags' = [flags EXCEPT !.force = TRUE]
  /\ Goto(t, IF t = "net" THEN "wipe again" ELSE "idle")
  /\ UNCHANGED <<data, texture, rect, net, row, upload, done, history>>

\* setWH wipes once more; only this thread could have painted meanwhile.
WipeAgain ==
  LET last == row["net"] = Height - 1 IN
  /\ pc["net"] = "wipe again"
  /\ data' = [c \in Cell |-> IF c.y = row["net"] THEN NoColor ELSE data[c]]
  /\ row' = [row EXCEPT !["net"] = IF last THEN 0 ELSE @ + 1]
  /\ Goto("net", IF last THEN "idle" ELSE "wipe again")
  /\ UNCHANGED <<texture, flags, rect, net, upload, done, history>>

-----------------------------------------------------------------------------
(* The render thread: the end of renderTick.                               *)

\* A change under way when an upload begins may be forgotten by it.
Begin(of, area, under_way) ==
  /\ upload' = [upload EXCEPT !.of = of, !.area = area, !.side = 1]
  /\ row' = [row EXCEPT !["render"] = 0]
  /\ history' = [history EXCEPT !.late = under_way, !.overlapped = @ \/ under_way # {}]

FrameNeed ==
  /\ pc["render"] = "frame" /\ flags.need
  /\ Begin("need", Empty, history.touched)
  /\ Goto("render", "read")
  /\ UNCHANGED <<data, texture, flags, rect, net, done>>

FrameNoNeed ==
  /\ pc["render"] = "frame" /\ ~flags.need
  /\ Goto("render", "force?")
  /\ UNCHANGED <<data, texture, flags, rect, net, row, upload, done, history>>

FrameForce ==
  /\ pc["render"] = "force?" /\ flags.force
  /\ Begin("force", Whole, IF \E t \in {"net", "win"} : Clearing(t) THEN Cell ELSE {})
  /\ Goto("render", "copy")
  /\ UNCHANGED <<data, texture, flags, rect, net, done>>

FrameNothing ==
  /\ pc["render"] = "force?" /\ ~flags.force
  /\ Goto("render", "frame")
  /\ UNCHANGED <<data, texture, flags, rect, net, row, upload, done, history>>

\* max_x and max_y are copied with one added.
ReadSide ==
  LET side == Sides[upload.side] IN
  /\ pc["render"] = "read"
  /\ upload' = [upload EXCEPT !.area[side] = IF side \in {"max_x", "max_y"} THEN rect[side] + 1 ELSE rect[side],
                              !.side = IF @ = 4 THEN 1 ELSE @ + 1]
  /\ Goto("render", IF upload.side = 4 THEN "measure" ELSE "read")
  /\ UNCHANGED <<data, texture, flags, rect, net, row, done, history>>

\* w and h are unsigned: a side that ends before it begins stops the
\* program, and the test for w <= 0 or h <= 0 finds zero only.
Underflows(a) == a.max_x < a.min_x \/ a.max_y < a.min_y

Measure ==
  LET a == upload.area IN
  /\ pc["render"] = "measure"
  /\ Goto("render", IF Underflows(a) THEN "panic"
                    ELSE IF a.max_x = a.min_x \/ a.max_y = a.min_y THEN "frame" ELSE "copy")
  /\ row' = [row EXCEPT !["render"] = a.min_y]
  /\ UNCHANGED <<data, texture, flags, rect, net, upload, done, history>>

CopyRow ==
  LET a == upload.area
      r == row["render"]
      In(c) == c.y = r /\ a.min_x <= c.x /\ c.x < a.max_x IN
  /\ pc["render"] = "copy" /\ r < a.max_y
  /\ upload' = [upload EXCEPT !.copy = [c \in Cell |-> IF In(c) THEN data[c] ELSE @[c]]]
  /\ row' = [row EXCEPT !["render"] = @ + 1]
  /\ UNCHANGED <<data, texture, flags, rect, pc, net, done, history>>

Written == {c \in Cell : LET a == upload.area IN
              a.min_x <= c.x /\ c.x < a.max_x /\ a.min_y <= c.y /\ c.y < a.max_y}

WriteTexture ==
  /\ pc["render"] = "copy" /\ row["render"] = upload.area.max_y
  /\ texture' = [c \in Cell |-> IF c \in Written THEN upload.copy[c] ELSE texture[c]]
  /\ Goto("render", IF upload.of = "need" THEN "unset need" ELSE "unset force")
  /\ UNCHANGED <<data, flags, rect, net, row, upload, done, history>>

\* What was late stays lost; the rest of what was written no longer is.
Forget ==
  /\ history' = [history EXCEPT !.lost = (@ \ Written) \cup history.late, !.late = {}]
  /\ upload' = [upload EXCEPT !.area = Empty, !.copy = [c \in Cell |-> NoColor]]
  /\ row' = [row EXCEPT !["render"] = 0]
  /\ Goto("render", "frame")

\* Mutant of UnsetNeed: the request stays.
UnsetNeedForgotten ==
  /\ pc["render"] = "unset need"
  /\ Goto("render", "reset")
  /\ UNCHANGED <<data, texture, flags, rect, net, row, upload, done, history>>

UnsetNeed ==
  /\ pc["render"] = "unset need"
  /\ flags' = [flags EXCEPT !.need = FALSE]
  /\ Goto("render", "reset")
  /\ UNCHANGED <<data, texture, rect, net, row, upload, done, history>>

ResetSide ==
  LET side == Sides[upload.side] IN
  /\ pc["render"] = "reset"
  /\ rect' = [rect EXCEPT ![side] = Empty[side]]
  /\ IF upload.side = 4
     THEN Forget
     ELSE /\ upload' = [upload EXCEPT !.side = @ + 1]
          /\ UNCHANGED <<pc, row, history>>
  /\ UNCHANGED <<data, texture, flags, net, done>>

\* Mutant of UnsetForce: the request stays.
UnsetForceForgotten ==
  /\ pc["render"] = "unset force"
  /\ Forget
  /\ UNCHANGED <<data, texture, flags, rect, net, done>>

UnsetForce ==
  /\ pc["render"] = "unset force"
  /\ flags' = [flags EXCEPT !.force = FALSE]
  /\ Forget
  /\ UNCHANGED <<data, texture, rect, net, done>>

-----------------------------------------------------------------------------
Update ==
  \/ UpdateBegin \/ SetSquare \/ SetSquareUnknown \/ AddStatic
  \/ Load \/ Store \/ Announce \/ UpdateEnd

Clear(t) == ClearBegin(t) \/ Wipe(t) \/ Ask(t)

Render ==
  \/ FrameNeed \/ FrameNoNeed \/ FrameForce \/ FrameNothing
  \/ ReadSide \/ Measure \/ CopyRow \/ WriteTexture
  \/ UnsetNeed \/ ResetSide \/ UnsetForce

Live == pc["render"] # "panic"

Next ==
  /\ Live
  /\ \/ Update
     \/ \E t \in {"net", "win"} : Clear(t)
     \/ WipeAgain
     \/ Render

\* renderTick runs every frame; a packet that is begun is handled to its end.
Fairness ==
  /\ WF_vars(Live /\ Render)
  /\ WF_vars(Live /\ pc["net"] # "idle" /\ (Update \/ Clear("net") \/ WipeAgain))
  /\ WF_vars(Live /\ pc["win"] # "idle" /\ Clear("win"))

Spec == Init /\ [][Next]_vars /\ Fairness

-----------------------------------------------------------------------------
(* Properties.                                                             *)

\* The rectangle's sides stay within the image, one more where they end; a
\* thread is at a side it has not come past, and in a row of the image.
TypeOK ==
  LET Rectangle == [min_x : 0..Width, max_x : 0..Width, min_y : 0..Height, max_y : 0..Height] IN
  /\ data \in Image /\ texture \in Image /\ upload.copy \in Image
  /\ flags \in [need : BOOLEAN, force : BOOLEAN]
  /\ rect \in Rectangle /\ upload.area \in Rectangle
  /\ upload.of \in {"need", "force"} /\ upload.side \in 1..4
  /\ pc["net"] \in {"idle", "tiles", "objects", "load", "store", "wipe", "ask", "wipe again"}
  /\ pc["win"] \in {"idle", "wipe", "ask"}
  /\ pc["render"] \in {"frame", "force?", "read", "measure", "copy", "unset need", "reset",
                      "unset force", "panic"}
  /\ net.cell \in Cell /\ net.side \in 1..4 /\ net.left \in 0..MaxPaints
  /\ \A t \in {"net", "win", "render"} : row[t] \in 0..Height
  /\ history.touched \cup history.late \cup history.lost \subseteq Cell

\* Between frames, with no clear under way or asked for, the texture shows
\* the image, except for pixels an overlapping upload forgot, pixels of the
\* update under way, and pixels the rectangle still covers: they wait for
\* the next upload.  (renderTick 197-274, setSquare, handleUpdate)
OnlyOverlapsLost ==
  (/\ pc["render"] \in {"frame", "force?"}
   /\ ~flags.force
   /\ \A t \in {"net", "win"} : ~Clearing(t))
    => \A c \in Cell : texture[c] # data[c] =>
         c \in history.lost \cup history.touched \/ Covers(rect, c)

\* The rectangle is one of the image, and the render thread stops on an empty
\* one only if a change overlapped
\* an upload, or an update asked for one without having painted anything:
\* need_minimap_update counts tiles, the rectangle counts pixels.
\* (main.zig 200-206, network.zig 1054)
StopsOnlyIfRaced ==
  TypeOK /\ (pc["render"] = "panic" => history.overlapped \/ history.blank)

\* The rectangle ends where it begins although an upload is asked for:
\* sides of two rectangles were mixed, and every frame gives up at once.
Stuck == flags.need /\ (rect.min_x = rect.max_x + 1 \/ rect.min_y = rect.max_y + 1)

\* What a frame finds to upload is uploaded: a pixel that is announced and
\* covered is shown in the end, or forgotten by an overlapping upload, or its
\* announcement is taken back by an update without tiles.
\* (renderTick 196-257)
EventuallyShown == \A c \in Cell :
  (flags.need /\ Covers(rect, c) /\ c \notin history.touched) ~>
    \/ texture[c] = data[c] \/ c \in history.lost
    \/ history.dropped \/ Stuck \/ ~Live

\* A map that was cleared disappears from the texture: the full upload is not
\* put off for ever by partial ones, unless sides of two rectangles are mixed.
\* (renderTick 257-274)
EventuallyCleared == flags.force ~> (~flags.force \/ Stuck \/ ~Live)

\* What was asked of the render thread happens, partial uploads and full.
\* (renderTick 196-276)
EventuallyUploaded == EventuallyShown /\ EventuallyCleared
=============================================================================
