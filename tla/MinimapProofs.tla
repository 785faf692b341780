--------------------------- MODULE MinimapProofs ---------------------------
(***************************************************************************)
(* What the texture of the minimap shows, for an image of any size and any *)
(* number of updates and clears: a pixel that differs from the image is    *)
(* remembered.  It is in the rectangle; or its cell is being painted, and  *)
(* the sides widened so far let it in; or an upload that overlapped its    *)
(* change has it among what is late; or such an upload has forgotten it.   *)
(*                                                                         *)
(* All of it is said of states in which nothing is asked of the next full  *)
(* upload: once a clear is under way or asked for, that one copies all.    *)
(***************************************************************************)
EXTENDS Minimap, TLAPS

Rectangle == [min_x : 0..Width, max_x : 0..Width - 1, min_y : 0..Height, max_y : 0..Height - 1]
Area == [min_x : 0..Width, max_x : 0..Width, min_y : 0..Height, max_y : 0..Height]

Widening == pc["net"] \in {"load", "store"}
Asked == flags.force \/ Clearing("net") \/ Clearing("win")

\* The types, tighter than TypeOK: a side of the rectangle is a pixel of the
\* image, or the end of an empty one.
Thread == {"net", "win", "render"}
NetLabel == {"idle", "tiles", "objects", "load", "store", "wipe", "ask", "wipe again"}
WinLabel == {"idle", "wipe", "ask"}
RenderLabel == {"frame", "force?", "read", "measure", "copy", "unset need", "reset", "unset force", "panic"}

PcOK ==
  /\ pc \in [Thread -> NetLabel \cup RenderLabel]
  /\ pc["net"] \in NetLabel /\ pc["win"] \in WinLabel /\ pc["render"] \in RenderLabel
NetOK == net \in [left : 0..MaxPaints, tiles : Nat, cell : Cell, side : 1..4, seen : Nat,
                  phase : {"idle", "tiles", "objects"}]
UploadOK == upload \in [of : {"need", "force"}, area : Area, copy : Image, side : 1..4]
HistoryOK ==
  history \in [touched : SUBSET Cell, late : SUBSET Cell, lost : SUBSET Cell,
               overlapped : BOOLEAN, blank : BOOLEAN, dropped : BOOLEAN]
DoneOK == done \in [updates : Nat, clears : Nat, paints : 0..MaxPaints]

Types ==
  /\ data \in Image /\ texture \in Image
  /\ flags \in [need : BOOLEAN, force : BOOLEAN]
  /\ rect \in Rectangle
  /\ row \in [Thread -> 0..Height]
  /\ PcOK /\ NetOK /\ UploadOK /\ HistoryOK /\ DoneOK

\* Where each thread is in its loops.
Rows ==
  /\ row["net"] < Height /\ row["win"] < Height
  /\ pc["net"] \notin {"wipe", "wipe again"} => row["net"] = 0

Painting ==
  /\ pc["net"] \in {"tiles", "objects"} => net.phase = pc["net"]
  /\ Widening => net.phase \in {"tiles", "objects"}
  /\ ~Widening => net.side = 1

Uploads ==
  /\ pc["render"] \in {"measure", "copy", "unset need", "unset force"} => upload.side = 1
  /\ pc["render"] \in {"read", "measure", "unset need", "reset"} => upload.of = "need"
  /\ pc["render"] = "unset force" => upload.of = "force"
  /\ Fully /\ Live => upload.area = Whole /\ flags.force
  /\ pc["render"] = "copy" => row["render"] \in upload.area.min_y..upload.area.max_y

Places == Rows /\ Painting /\ Uploads

\* What is wiped twice is blank the second time.
Blank ==
  /\ pc["net"] = "wipe" => \A c \in Cell : c.y < row["net"] => data[c] = NoColor
  /\ pc["net"] \in {"ask", "wipe again"} => \A c \in Cell : data[c] = NoColor

\* The cell being painted, and how far the rectangle was widened for it.
Pending(c) ==
  /\ Widening /\ net.cell = c
  /\ net.side > 1 => rect.min_x <= c.x
  /\ net.side > 2 => c.x <= rect.max_x
  /\ net.side > 3 => rect.min_y <= c.y

\* The value loaded for a side lets in what the side does: only this thread
\* widens it.
Widens ==
  /\ Widening => net.cell \in history.touched
  /\ pc["net"] = "store" =>
       CASE net.side = 1 -> net.seen \in 0..rect.min_x
         [] net.side = 2 -> net.seen \in rect.max_x..Width - 1
         [] net.side = 3 -> net.seen \in 0..rect.min_y
         [] net.side = 4 -> net.seen \in rect.max_y..Height - 1

Waits(c) == Covers(rect, c) \/ Pending(c)
Stale(c) == texture[c] # data[c]

\* The sides of the area that were read let the cell in.
Read(c) ==
  LET a == upload.area
      k == IF pc["render"] = "read" THEN upload.side ELSE 5 IN
  /\ k > 1 => a.min_x <= c.x
  /\ k > 2 => c.x < a.max_x
  /\ k > 3 => a.min_y <= c.y
  /\ k > 4 => c.y < a.max_y

BeforeWrite ==
  pc["render"] \in {"frame", "force?", "read", "measure"} \/ (pc["render"] = "copy" /\ Partly)

\* A pixel that differs waits in the rectangle, or was lost.
Remembered == BeforeWrite /\ ~Asked => \A c \in Cell : Stale(c) => c \in history.lost \/ Waits(c)

\* A partial upload: unless an update overlapped it, it reads, copies and
\* writes what differs, and what it leaves out was lost before.
Partial ==
  Partly /\ Live =>
    /\ history.touched \subseteq history.late
    /\ ~Asked => \A c \in Cell \ history.late :
         /\ pc["render"] \in {"read", "measure", "copy"} /\ Stale(c) => c \in history.lost \/ Read(c)
         /\ pc["render"] = "copy" /\ c \in Written /\ c.y < row["render"] => upload.copy[c] = data[c]
         /\ pc["render"] \in {"unset need", "reset"} /\ Stale(c) => c \in history.lost \ Written

\* A full upload copies everything but what changes later, which waits or is late.
Full ==
  Fully /\ Live => \A c \in Cell \ history.late :
    /\ pc["render"] = "copy" /\ c.y < row["render"] /\ upload.copy[c] # data[c] => Waits(c)
    /\ pc["render"] = "unset force" /\ Stale(c) => Waits(c)

\* Without overlaps and blank announcements the rectangle covers what was
\* announced, an upload is of that rectangle, and nothing else happens to it.
Tidy ==
  ~history.overlapped /\ ~history.blank =>
    /\ pc["render"] # "panic"
    /\ Partly => history.touched = {}
    /\ \A c \in history.touched : Waits(c)
    /\ pc["render"] \in {"frame", "force?", "read", "measure", "copy", "unset need", "unset force"} /\ flags.need
         => \E c \in Cell : Covers(rect, c)
    /\ pc["render"] \in {"read", "measure"} => \E c \in Cell : Covers(rect, c) /\ Read(c)
    /\ pc["render"] = "reset" => ~flags.need

IInv == Types /\ Places /\ Blank /\ Widens /\ Remembered /\ Partial /\ Full /\ Tidy

-----------------------------------------------------------------------------
(* Operators. *)

LEMMA NetGoes ==
  ASSUME PcOK, NEW label \in NetLabel, Goto("net", label)
  PROVE  PcOK' /\ pc'["net"] = label /\ pc'["win"] = pc["win"] /\ pc'["render"] = pc["render"]
BY DEF PcOK, Goto, Thread

LEMMA WinGoes ==
  ASSUME PcOK, NEW label \in WinLabel, Goto("win", label)
  PROVE  PcOK' /\ pc'["net"] = pc["net"] /\ pc'["win"] = label /\ pc'["render"] = pc["render"]
BY DEF PcOK, Goto, Thread, WinLabel, NetLabel

LEMMA RenderGoes ==
  ASSUME PcOK, NEW label \in RenderLabel, Goto("render", label)
  PROVE  PcOK' /\ pc'["net"] = pc["net"] /\ pc'["win"] = pc["win"] /\ pc'["render"] = label
BY DEF PcOK, Goto, Thread

LEMMA PaintPc ==
  ASSUME PcOK, NEW c \in Cell, Paint(c)
  PROVE  PcOK' /\ pc'["net"] = "load" /\ pc'["win"] = pc["win"] /\ pc'["render"] = pc["render"]
BY NetGoes DEF Paint, NetLabel

LEMMA StorePc ==
  ASSUME PcOK, NetOK, Places, Store
  PROVE  /\ PcOK' /\ pc'["win"] = pc["win"] /\ pc'["render"] = pc["render"]
         /\ net.side = 4 => pc'["net"] = net.phase /\ net.phase \in {"tiles", "objects"}
         /\ net.side # 4 => pc'["net"] = "load"
<1> DEFINE label == IF net.side = 4 THEN net.phase ELSE "load"
<1>1. net.phase \in {"tiles", "objects"}
  BY DEF Store, Places, Painting, Widening
<1>2. label \in NetLabel
  BY <1>1 DEF NetLabel
<1>3. Goto("net", label)
  BY DEF Store
<1> HIDE DEF label
<1>4. PcOK' /\ pc'["net"] = label /\ pc'["win"] = pc["win"] /\ pc'["render"] = pc["render"]
  BY <1>2, <1>3, NetGoes
<1> QED
  BY <1>1, <1>4 DEF label

LEMMA ReadSidePc ==
  ASSUME PcOK, ReadSide
  PROVE  /\ PcOK' /\ pc'["win"] = pc["win"] /\ pc'["net"] = pc["net"]
         /\ pc'["render"] = IF upload.side = 4 THEN "measure" ELSE "read"
<1> DEFINE label == IF upload.side = 4 THEN "measure" ELSE "read"
<1>1. label \in RenderLabel
  BY DEF RenderLabel
<1>2. Goto("render", label)
  BY DEF ReadSide
<1> HIDE DEF label
<1>3. PcOK' /\ pc'["net"] = pc["net"] /\ pc'["win"] = pc["win"] /\ pc'["render"] = label
  BY <1>1, <1>2, RenderGoes
<1> QED
  BY <1>3 DEF label

LEMMA MeasurePc ==
  ASSUME PcOK, UploadOK, MinimapAssumption, Measure
  PROVE  /\ PcOK' /\ pc'["win"] = pc["win"] /\ pc'["net"] = pc["net"]
         /\ LET a == upload.area IN
            \/ Underflows(a) /\ pc'["render"] = "panic"
            \/ (a.max_x <= a.min_x \/ a.max_y <= a.min_y) /\ pc'["render"] = "frame"
            \/ a.min_x < a.max_x /\ a.min_y < a.max_y /\ pc'["render"] = "copy"
<1> DEFINE a == upload.area
           label == IF Underflows(a) THEN "panic"
                    ELSE IF a.max_x = a.min_x \/ a.max_y = a.min_y THEN "frame" ELSE "copy"
<1>1. a \in Area
  BY DEF UploadOK
<1>2. /\ label \in RenderLabel
      /\ \/ Underflows(a) /\ label = "panic"
         \/ (a.max_x <= a.min_x \/ a.max_y <= a.min_y) /\ label = "frame"
         \/ a.min_x < a.max_x /\ a.min_y < a.max_y /\ label = "copy"
  <2>1. CASE Underflows(a)
    <3>1. label = "panic"
      BY <2>1
    <3> QED
      BY <2>1, <3>1 DEF RenderLabel
  <2>2. CASE ~Underflows(a) /\ (a.max_x = a.min_x \/ a.max_y = a.min_y)
    <3>1. label = "frame"
      BY <2>2 DEF Underflows
    <3> QED
      BY <1>1, <2>2, <3>1, MinimapAssumption DEF RenderLabel, Area
  <2>3. CASE ~Underflows(a) /\ ~(a.max_x = a.min_x \/ a.max_y = a.min_y)
    <3>1. label = "copy"
      BY <2>3
    <3> QED
      BY <1>1, <2>3, <3>1, MinimapAssumption DEF RenderLabel, Area, Underflows
  <2> QED
    BY <2>1, <2>2, <2>3
<1>3. Goto("render", label)
  BY DEF Measure
<1> HIDE DEF label
<1>4. PcOK' /\ pc'["net"] = pc["net"] /\ pc'["win"] = pc["win"] /\ pc'["render"] = label
  BY <1>2, <1>3, RenderGoes
<1> QED
  BY <1>2, <1>4

LEMMA WriteTexturePc ==
  ASSUME PcOK, WriteTexture
  PROVE  /\ PcOK' /\ pc'["win"] = pc["win"] /\ pc'["net"] = pc["net"]
         /\ pc'["render"] = IF upload.of = "need" THEN "unset need" ELSE "unset force"
<1> DEFINE label == IF upload.of = "need" THEN "unset need" ELSE "unset force"
<1>1. label \in RenderLabel
  BY DEF RenderLabel
<1>2. Goto("render", label)
  BY DEF WriteTexture
<1> HIDE DEF label
<1>3. PcOK' /\ pc'["net"] = pc["net"] /\ pc'["win"] = pc["win"] /\ pc'["render"] = label
  BY <1>1, <1>2, RenderGoes
<1> QED
  BY <1>3 DEF label

LEMMA WipeAgainPc ==
  ASSUME PcOK, WipeAgain
  PROVE  /\ PcOK' /\ pc'["win"] = pc["win"] /\ pc'["render"] = pc["render"]
         /\ pc'["net"] = IF row["net"] = Height - 1 THEN "idle" ELSE "wipe again"
<1> DEFINE label == IF row["net"] = Height - 1 THEN "idle" ELSE "wipe again"
<1>1. label \in NetLabel
  BY DEF NetLabel
<1>2. Goto("net", label)
  BY DEF WipeAgain
<1> HIDE DEF label
<1>3. PcOK' /\ pc'["net"] = label /\ pc'["win"] = pc["win"] /\ pc'["render"] = pc["render"]
  BY <1>1, <1>2, NetGoes
<1> QED
  BY <1>3 DEF label

LEMMA ClearBeginPc ==
  ASSUME PcOK, NEW t \in {"net", "win"}, ClearBegin(t)
  PROVE  /\ PcOK' /\ pc[t] = "idle" /\ pc'[t] = "wipe" /\ pc'["render"] = pc["render"]
         /\ \A u \in {"net", "win"} : u # t => pc'[u] = pc[u]
<1>1. CASE t = "net"
  BY <1>1, NetGoes DEF ClearBegin, NetLabel
<1>2. CASE t = "win"
  BY <1>2, WinGoes DEF ClearBegin, WinLabel
<1> QED
  BY <1>1, <1>2

LEMMA WipePc ==
  ASSUME PcOK, NEW t \in {"net", "win"}, Wipe(t)
  PROVE  /\ PcOK' /\ pc[t] = "wipe" /\ pc'[t] = (IF row[t] = Height - 1 THEN "ask" ELSE "wipe")
         /\ pc'["render"] = pc["render"] /\ \A u \in {"net", "win"} : u # t => pc'[u] = pc[u]
<1> DEFINE label == IF row[t] = Height - 1 THEN "ask" ELSE "wipe"
<1>1. label \in NetLabel /\ label \in WinLabel
  BY DEF NetLabel, WinLabel
<1>2. Goto(t, label) /\ pc[t] = "wipe"
  BY DEF Wipe
<1> HIDE DEF label
<1>3. CASE t = "net"
  <2>1. PcOK' /\ pc'["net"] = label /\ pc'["win"] = pc["win"] /\ pc'["render"] = pc["render"]
    BY <1>1, <1>2, <1>3, NetGoes
  <2> QED
    BY <1>2, <1>3, <2>1 DEF label
<1>4. CASE t = "win"
  <2>1. PcOK' /\ pc'["win"] = label /\ pc'["net"] = pc["net"] /\ pc'["render"] = pc["render"]
    BY <1>1, <1>2, <1>4, WinGoes
  <2> QED
    BY <1>2, <1>4, <2>1 DEF label
<1> QED
  BY <1>3, <1>4

LEMMA AskPc ==
  ASSUME PcOK, NEW t \in {"net", "win"}, Ask(t)
  PROVE  /\ PcOK' /\ pc[t] = "ask" /\ pc'[t] = (IF t = "net" THEN "wipe again" ELSE "idle")
         /\ pc'["render"] = pc["render"] /\ \A u \in {"net", "win"} : u # t => pc'[u] = pc[u]
<1>1. CASE t = "net"
  BY <1>1, NetGoes DEF Ask, NetLabel
<1>2. CASE t = "win"
  BY <1>2, WinGoes DEF Ask, WinLabel
<1> QED
  BY <1>1, <1>2

\* What Store and ResetSide make of the rectangle, side by side.
LEMMA SideNames == Sides[1] = "min_x" /\ Sides[2] = "max_x" /\ Sides[3] = "min_y" /\ Sides[4] = "max_y"
BY DEF Sides

LEMMA StoreRect ==
  ASSUME MinimapAssumption, Types, Widens, Store
  PROVE  /\ rect' \in Rectangle
         /\ rect'.min_x <= rect.min_x /\ rect.max_x <= rect'.max_x
         /\ rect'.min_y <= rect.min_y /\ rect.max_y <= rect'.max_y
         /\ net.side = 1 => rect'.min_x <= net.cell.x
         /\ net.side = 2 => net.cell.x <= rect'.max_x
         /\ net.side = 3 => rect'.min_y <= net.cell.y
         /\ net.side = 4 => net.cell.y <= rect'.max_y
         /\ net.side # 1 => rect'.min_x = rect.min_x
         /\ net.side # 2 => rect'.max_x = rect.max_x
         /\ net.side # 3 => rect'.min_y = rect.min_y
         /\ net.side # 4 => rect'.max_y = rect.max_y
<1>1. net.cell.x \in 0..Width-1 /\ net.cell.y \in 0..Height-1 /\ net.side \in 1..4
  BY DEF Types, NetOK, Cell
<1>2. rect.min_x \in 0..Width /\ rect.max_x \in 0..Width-1 /\ rect.min_y \in 0..Height /\ rect.max_y \in 0..Height-1
  BY DEF Types, Rectangle
<1>3. Width \in Nat /\ Height \in Nat
  BY MinimapAssumption
<1>4. pc["net"] = "store"
  BY DEF Store
<1>5. CASE net.side = 1
  <2> DEFINE v == Widened("min_x", net.seen, net.cell)
  <2>1. net.seen \in 0..rect.min_x
    BY <1>4, <1>5 DEF Widens
  <2>2. v = IF net.seen < net.cell.x THEN net.seen ELSE net.cell.x
    BY DEF Widened, Least
  <2>3. v \in 0..Width /\ v <= rect.min_x /\ v <= net.cell.x
    <3> HIDE DEF v
    <3> QED
      BY <1>1, <1>2, <1>3, <2>1, <2>2
  <2>4. rect' = [rect EXCEPT !.min_x = v]
    BY <1>5, SideNames DEF Store
  <2> HIDE DEF v
  <2> QED
    BY <1>1, <1>2, <1>3, <1>5, <2>3, <2>4 DEF Types, Rectangle
<1>6. CASE net.side = 2
  <2> DEFINE v == Widened("max_x", net.seen, net.cell)
  <2>1. net.seen \in rect.max_x..Width - 1
    BY <1>4, <1>6 DEF Widens
  <2>2. v = IF net.seen < net.cell.x THEN net.cell.x ELSE net.seen
    BY DEF Widened, Most
  <2>3. v \in 0..Width-1 /\ v >= rect.max_x /\ v >= net.cell.x
    <3> HIDE DEF v
    <3> QED
      BY <1>1, <1>2, <1>3, <2>1, <2>2
  <2>4. rect' = [rect EXCEPT !.max_x = v]
    BY <1>6, SideNames DEF Store
  <2> HIDE DEF v
  <2> QED
    BY <1>1, <1>2, <1>3, <1>6, <2>3, <2>4 DEF Types, Rectangle
<1>7. CASE net.side = 3
  <2> DEFINE v == Widened("min_y", net.seen, net.cell)
  <2>1. net.seen \in 0..rect.min_y
    BY <1>4, <1>7 DEF Widens
  <2>2. v = IF net.seen < net.cell.y THEN net.seen ELSE net.cell.y
    BY DEF Widened, Least
  <2>3. v \in 0..Height /\ v <= rect.min_y /\ v <= net.cell.y
    <3> HIDE DEF v
    <3> QED
      BY <1>1, <1>2, <1>3, <2>1, <2>2
  <2>4. rect' = [rect EXCEPT !.min_y = v]
    BY <1>7, SideNames DEF Store
  <2> HIDE DEF v
  <2> QED
    BY <1>1, <1>2, <1>3, <1>7, <2>3, <2>4 DEF Types, Rectangle
<1>8. CASE net.side = 4
  <2> DEFINE v == Widened("max_y", net.seen, net.cell)
  <2>1. net.seen \in rect.max_y..Height - 1
    BY <1>4, <1>8 DEF Widens
  <2>2. v = IF net.seen < net.cell.y THEN net.cell.y ELSE net.seen
    BY DEF Widened, Most
  <2>3. v \in 0..Height-1 /\ v >= rect.max_y /\ v >= net.cell.y
    <3> HIDE DEF v
    <3> QED
      BY <1>1, <1>2, <1>3, <2>1, <2>2
  <2>4. rect' = [rect EXCEPT !.max_y = v]
    BY <1>8, SideNames DEF Store
  <2> HIDE DEF v
  <2> QED
    BY <1>1, <1>2, <1>3, <1>8, <2>3, <2>4 DEF Types, Rectangle
<1> QED
  BY <1>1, <1>5, <1>6, <1>7, <1>8

LEMMA ResetRect ==
  ASSUME MinimapAssumption, Types, ResetSide
  PROVE  /\ rect' \in Rectangle
         /\ rect'.min_x >= rect.min_x /\ rect.max_x >= rect'.max_x
         /\ rect'.min_y >= rect.min_y /\ rect.max_y >= rect'.max_y
<1>1. upload.side \in 1..4
  BY DEF Types, UploadOK
<1>2. rect.min_x \in 0..Width /\ rect.max_x \in 0..Width-1 /\ rect.min_y \in 0..Height /\ rect.max_y \in 0..Height-1
  BY DEF Types, Rectangle
<1>3. Width \in Nat \ {0} /\ Height \in Nat \ {0}
  BY MinimapAssumption
<1>4. rect' = [rect EXCEPT ![Sides[upload.side]] = Empty[Sides[upload.side]]]
  BY DEF ResetSide
<1>5. CASE upload.side = 1
  <2>1. rect' = [rect EXCEPT !.min_x = Width]
    <3>1. Empty["min_x"] = Width
      BY DEF Empty
    <3> QED
      BY <1>4, <1>5, <3>1, SideNames
  <2> QED
    BY <1>2, <1>3, <2>1 DEF Types, Rectangle
<1>6. CASE upload.side = 2
  <2>1. rect' = [rect EXCEPT !.max_x = 0]
    <3>1. Empty["max_x"] = 0
      BY DEF Empty
    <3> QED
      BY <1>4, <1>6, <3>1, SideNames
  <2> QED
    BY <1>2, <1>3, <2>1 DEF Types, Rectangle
<1>7. CASE upload.side = 3
  <2>1. rect' = [rect EXCEPT !.min_y = Height]
    <3>1. Empty["min_y"] = Height
      BY DEF Empty
    <3> QED
      BY <1>4, <1>7, <3>1, SideNames
  <2> QED
    BY <1>2, <1>3, <2>1 DEF Types, Rectangle
<1>8. CASE upload.side = 4
  <2>1. rect' = [rect EXCEPT !.max_y = 0]
    <3>1. Empty["max_y"] = 0
      BY DEF Empty
    <3> QED
      BY <1>4, <1>8, <3>1, SideNames
  <2> QED
    BY <1>2, <1>3, <2>1 DEF Types, Rectangle
<1> QED
  BY <1>1, <1>5, <1>6, <1>7, <1>8

\* ReadSide takes one side of the rectangle, the far ones with one added.
LEMMA ReadArea ==
  ASSUME MinimapAssumption, Types, ReadSide
  PROVE  /\ upload' \in [of : {"need", "force"}, area : Area, copy : Image, side : 1..4]
         /\ upload'.of = upload.of /\ upload'.copy = upload.copy
         /\ upload'.side = IF upload.side = 4 THEN 1 ELSE upload.side + 1
         /\ upload'.area.min_x = IF upload.side = 1 THEN rect.min_x ELSE upload.area.min_x
         /\ upload'.area.max_x = IF upload.side = 2 THEN rect.max_x + 1 ELSE upload.area.max_x
         /\ upload'.area.min_y = IF upload.side = 3 THEN rect.min_y ELSE upload.area.min_y
         /\ upload'.area.max_y = IF upload.side = 4 THEN rect.max_y + 1 ELSE upload.area.max_y
<1>1. upload.side \in 1..4 /\ upload.area \in Area
  BY DEF Types, UploadOK
<1>2. rect.min_x \in 0..Width /\ rect.max_x \in 0..Width-1 /\ rect.min_y \in 0..Height /\ rect.max_y \in 0..Height-1
  BY DEF Types, Rectangle
<1>3. Width \in Nat \ {0} /\ Height \in Nat \ {0}
  BY MinimapAssumption
<1>4. rect.max_x + 1 \in 0..Width /\ rect.max_y + 1 \in 0..Height
  BY <1>2, <1>3
<1> DEFINE side == Sides[upload.side]
           v == IF side \in {"max_x", "max_y"} THEN rect[side] + 1 ELSE rect[side]
           area == [upload.area EXCEPT ![side] = v]
<1>5. upload' = [upload EXCEPT !.area = area, !.side = IF @ = 4 THEN 1 ELSE @ + 1]
  BY <1>1 DEF ReadSide, Types, UploadOK
<1>6. /\ area \in Area
      /\ area.min_x = IF upload.side = 1 THEN rect.min_x ELSE upload.area.min_x
      /\ area.max_x = IF upload.side = 2 THEN rect.max_x + 1 ELSE upload.area.max_x
      /\ area.min_y = IF upload.side = 3 THEN rect.min_y ELSE upload.area.min_y
      /\ area.max_y = IF upload.side = 4 THEN rect.max_y + 1 ELSE upload.area.max_y
  <2>1. CASE upload.side = 1
    <3>1. side = "min_x"
      BY <2>1, SideNames
    <3>2. v = rect.min_x
      BY <3>1
    <3> HIDE DEF side, v
    <3>3. area = [upload.area EXCEPT !.min_x = rect.min_x]
      BY <3>1, <3>2
    <3> HIDE DEF area
    <3> QED
      BY <1>1, <1>2, <1>4, <2>1, <3>3 DEF Area
  <2>2. CASE upload.side = 2
    <3>1. side = "max_x"
      BY <2>2, SideNames
    <3>2. v = rect.max_x + 1
      BY <3>1
    <3> HIDE DEF side, v
    <3>3. area = [upload.area EXCEPT !.max_x = rect.max_x + 1]
      BY <3>1, <3>2
    <3> HIDE DEF area
    <3> QED
      BY <1>1, <1>2, <1>4, <2>2, <3>3 DEF Area
  <2>3. CASE upload.side = 3
    <3>1. side = "min_y"
      BY <2>3, SideNames
    <3>2. v = rect.min_y
      BY <3>1
    <3> HIDE DEF side, v
    <3>3. area = [upload.area EXCEPT !.min_y = rect.min_y]
      BY <3>1, <3>2
    <3> HIDE DEF area
    <3> QED
      BY <1>1, <1>2, <1>4, <2>3, <3>3 DEF Area
  <2>4. CASE upload.side = 4
    <3>1. side = "max_y"
      BY <2>4, SideNames
    <3>2. v = rect.max_y + 1
      BY <3>1
    <3> HIDE DEF side, v
    <3>3. area = [upload.area EXCEPT !.max_y = rect.max_y + 1]
      BY <3>1, <3>2
    <3> HIDE DEF area
    <3> QED
      BY <1>1, <1>2, <1>4, <2>4, <3>3 DEF Area
  <2> QED
    BY <1>1, <2>1, <2>2, <2>3, <2>4
<1>7. (IF upload.side = 4 THEN 1 ELSE upload.side + 1) \in 1..4
  BY <1>1
<1> HIDE DEF area
<1> QED
  BY <1>5, <1>6, <1>7 DEF Types, UploadOK

LEMMA Bounds ==
  ASSUME MinimapAssumption
  PROVE  /\ Width \in Nat /\ Width > 0 /\ Height \in Nat /\ Height > 0 /\ MaxPaints \in Nat
         /\ Empty \in Rectangle /\ Empty \in Area /\ Whole \in Area /\ Origin \in Cell
         /\ \A k \in 0..Height - 1 : k + 1 \in 0..Height
<1>1. Width \in Nat \ {0} /\ Height \in Nat \ {0} /\ MaxPaints \in Nat
  BY MinimapAssumption
<1> QED
  BY <1>1 DEF Empty, Whole, Rectangle, Area, Origin, Cell

\* A pixel painted.
LEMMA PaintTypes ==
  ASSUME Types, NEW c \in Cell, net.left > 0, Paint(c)
  PROVE  Types'
<1>1. data' \in Image /\ texture' \in Image
  BY DEF Paint, Types, Image
<1>2. NetOK'
  <2>1. net.left \in 0..MaxPaints /\ MaxPaints \in Nat
    BY MinimapAssumption DEF Types, NetOK
  <2>2. net.left - 1 \in 0..MaxPaints
    BY <2>1
  <2>3. net' = [net EXCEPT !.cell = c, !.left = @ - 1]
    BY DEF Paint
  <2> QED
    BY <2>2, <2>3 DEF Types, NetOK
<1>3. HistoryOK'
  <2>1. history.touched \cup {c} \in SUBSET Cell /\ history.late \cup {c} \in SUBSET Cell
    BY DEF Types, HistoryOK
  <2>2. (history.overlapped \/ Partly) \in BOOLEAN
    OBVIOUS
  <2>3. (IF Partly THEN history.late \cup {c} ELSE history.late) \in SUBSET Cell
    BY <2>1 DEF Types, HistoryOK
  <2>4. history' = [history EXCEPT !.touched = history.touched \cup {c},
                       !.late = IF Partly THEN history.late \cup {c} ELSE history.late,
                       !.overlapped = history.overlapped \/ Partly]
    BY DEF Paint, Types, HistoryOK
  <2> HIDE DEF Partly
  <2> QED
    BY <2>1, <2>2, <2>3, <2>4 DEF Types, HistoryOK
<1>4. PcOK'
  BY PaintPc DEF Types
<1>5. UNCHANGED <<texture, flags, rect, row, upload, done>>
  BY DEF Paint
<1> QED
  BY <1>1, <1>2, <1>3, <1>4, <1>5 DEF Types, UploadOK, DoneOK

LEMMA CellFacts ==
  ASSUME MinimapAssumption, NEW c \in Cell
  PROVE  c.x \in Nat /\ c.y \in Nat /\ c.x < Width /\ c.y < Height
<1>1. Width \in Nat /\ Height \in Nat
  BY Bounds
<1>2. c.x \in 0..Width-1 /\ c.y \in 0..Height-1
  BY DEF Cell
<1> QED
  BY <1>1, <1>2

-----------------------------------------------------------------------------
(* The types. *)

LEMMA UpdateBeginTypes ==
  ASSUME MinimapAssumption, Types, Places, Widens, UpdateBegin
  PROVE  Types'
<1>1. PICK n \in 0..MaxPaints - done.paints :
        /\ net' = [net EXCEPT !.left = n, !.tiles = n, !.phase = "tiles"]
        /\ done' = [done EXCEPT !.updates = @ + 1, !.paints = @ + n]
  BY DEF UpdateBegin
<1>2. done.paints \in 0..MaxPaints /\ done.updates \in Nat
  BY DEF Types, DoneOK
<1>3. n \in 0..MaxPaints /\ n \in Nat /\ done.paints + n \in 0..MaxPaints
  BY <1>2, Bounds
<1>4. NetOK'
  BY <1>1, <1>3 DEF Types, NetOK
<1>5. DoneOK'
  <2>1. done.updates + 1 \in Nat
    BY <1>2
  <2>2. done' = [done EXCEPT !.updates = done.updates + 1, !.paints = done.paints + n]
    BY <1>1
  <2> QED
    BY <1>3, <2>1, <2>2 DEF Types, DoneOK
<1>6. PcOK'
  BY NetGoes DEF UpdateBegin, Types, NetLabel
<1>7. UNCHANGED <<data, texture, flags, rect, row, upload, history>>
  BY DEF UpdateBegin
<1> QED
  BY <1>4, <1>5, <1>6, <1>7 DEF Types, UploadOK, HistoryOK

LEMMA SetSquareTypes ==
  ASSUME MinimapAssumption, Types, Places, Widens, SetSquare
  PROVE  Types'
BY PaintTypes DEF SetSquare

LEMMA AddStaticTypes ==
  ASSUME MinimapAssumption, Types, Places, Widens, AddStatic
  PROVE  Types'
BY PaintTypes DEF AddStatic

LEMMA SetSquareUnknownTypes ==
  ASSUME MinimapAssumption, Types, Places, Widens, SetSquareUnknown
  PROVE  Types'
<1>1. NetOK'
  <2>1. net.left \in 0..MaxPaints /\ net.left > 0 /\ MaxPaints \in Nat
    BY Bounds DEF Types, NetOK, SetSquareUnknown
  <2>2. net.left - 1 \in 0..MaxPaints
    BY <2>1
  <2> QED
    BY <2>2 DEF SetSquareUnknown, Types, NetOK
<1>2. UNCHANGED <<data, texture, flags, rect, row, pc, upload, history, done>>
  BY DEF SetSquareUnknown
<1> QED
  BY <1>1, <1>2 DEF Types, PcOK, UploadOK, HistoryOK, DoneOK

LEMMA LoadTypes ==
  ASSUME MinimapAssumption, Types, Places, Widens, Load
  PROVE  Types'
<1>1. PcOK'
  BY NetGoes DEF Load, Types, NetLabel
<1>2. NetOK'
  <2>1. rect.min_x \in Nat /\ rect.max_x \in Nat /\ rect.min_y \in Nat /\ rect.max_y \in Nat
    BY Bounds DEF Types, Rectangle
  <2>2. net.side \in 1..4
    BY DEF Types, NetOK
  <2>3. rect[Sides[net.side]] \in Nat
    <3>1. CASE net.side = 1
      BY <2>1, <3>1, SideNames
    <3>2. CASE net.side = 2
      BY <2>1, <3>2, SideNames
    <3>3. CASE net.side = 3
      BY <2>1, <3>3, SideNames
    <3>4. CASE net.side = 4
      BY <2>1, <3>4, SideNames
    <3> QED
      BY <2>2, <3>1, <3>2, <3>3, <3>4
  <2> QED
    BY <2>3 DEF Load, Types, NetOK
<1>3. UNCHANGED <<data, texture, flags, rect, row, upload, history, done>>
  BY DEF Load
<1> QED
  BY <1>1, <1>2, <1>3 DEF Types, UploadOK, HistoryOK, DoneOK

LEMMA StoreTypes ==
  ASSUME MinimapAssumption, Types, Places, Widens, Store
  PROVE  Types'
<1>1. rect' \in Rectangle
  BY StoreRect
<1>2. PcOK'
  BY StorePc DEF Types
<1>3. NetOK'
  <2>1. net.side \in 1..4 /\ (net.side # 4 => net.side + 1 \in 1..4)
    BY DEF Types, NetOK
  <2>2. CASE net.side = 4
    <3>1. net' = [net EXCEPT !.side = 1, !.seen = 0, !.cell = Origin]
      BY <2>2 DEF Store
    <3>2. Origin \in Cell
      BY Bounds
    <3>3. net' = [left |-> net.left, tiles |-> net.tiles, cell |-> Origin, side |-> 1, seen |-> 0, phase |-> net.phase]
      BY <3>1 DEF Types, NetOK
    <3>4. net.left \in 0..MaxPaints /\ net.tiles \in Nat /\ net.phase \in {"idle", "tiles", "objects"}
      BY DEF Types, NetOK
    <3> QED
      BY <3>2, <3>3, <3>4 DEF NetOK
  <2>3. CASE net.side # 4
    <3>1. net' = [net EXCEPT !.side = net.side + 1]
      BY <2>3 DEF Store
    <3> QED
      BY <2>1, <2>3, <3>1 DEF Types, NetOK
  <2> QED
    BY <2>2, <2>3
<1>4. HistoryOK'
  <2>1. (IF net.side = 4 /\ net.phase = "objects" THEN {} ELSE history.touched) \in SUBSET Cell
    BY DEF Types, HistoryOK
  <2> QED
    BY <2>1 DEF Store, Types, HistoryOK
<1>5. UNCHANGED <<data, texture, flags, row, upload, done>>
  BY DEF Store
<1> QED
  BY <1>1, <1>2, <1>3, <1>4, <1>5 DEF Types, UploadOK, DoneOK

LEMMA AnnounceTypes ==
  ASSUME MinimapAssumption, Types, Places, Widens, Announce
  PROVE  Types'
<1>1. PICK n \in 0..MaxPaints - done.paints :
        /\ net' = [net EXCEPT !.left = n, !.tiles = 0, !.phase = "objects"]
        /\ done' = [done EXCEPT !.paints = @ + n]
  BY DEF Announce
<1>2. done.paints \in 0..MaxPaints
  BY DEF Types, DoneOK
<1>3. n \in 0..MaxPaints /\ n \in Nat /\ done.paints + n \in 0..MaxPaints
  BY <1>2, Bounds
<1>4. NetOK'
  BY <1>1, <1>3 DEF Types, NetOK
<1>5. DoneOK'
  BY <1>1, <1>3 DEF Types, DoneOK
<1>6. PcOK'
  BY NetGoes DEF Announce, Types, NetLabel
<1>7. flags' \in [need : BOOLEAN, force : BOOLEAN]
  <2>1. (net.tiles > 0) \in BOOLEAN
    OBVIOUS
  <2>2. flags' = [flags EXCEPT !.need = net.tiles > 0]
    BY DEF Announce
  <2> QED
    BY <2>2, Zenon, <2>1 DEF Types
<1>8. HistoryOK'
  <2> DEFINE blank == history.blank \/ (net.tiles > 0 /\ history.touched = {})
             dropped == history.dropped \/ (net.tiles = 0 /\ flags.need)
  <2>1. blank \in BOOLEAN /\ dropped \in BOOLEAN
    OBVIOUS
  <2>2. history' = [history EXCEPT !.touched = {}, !.blank = blank, !.dropped = dropped]
    BY DEF Announce, Types, HistoryOK
  <2> HIDE DEF blank, dropped
  <2> QED
    BY <2>1, <2>2 DEF Types, HistoryOK
<1>9. UNCHANGED <<data, texture, rect, row, upload>>
  BY DEF Announce
<1> QED
  BY <1>4, <1>5, <1>6, <1>7, <1>8, <1>9 DEF Types, UploadOK

LEMMA UpdateEndTypes ==
  ASSUME MinimapAssumption, Types, Places, Widens, UpdateEnd
  PROVE  Types'
<1>1. PcOK'
  BY NetGoes DEF UpdateEnd, Types, NetLabel
<1>2. NetOK'
  BY Bounds DEF UpdateEnd, Types, NetOK
<1>3. UNCHANGED <<data, texture, flags, rect, row, upload, history, done>>
  BY DEF UpdateEnd
<1> QED
  BY <1>1, <1>2, <1>3 DEF Types, UploadOK, HistoryOK, DoneOK

LEMMA FrameNeedTypes ==
  ASSUME MinimapAssumption, Types, Places, Widens, FrameNeed
  PROVE  Types'
<1>1. row' \in [Thread -> 0..Height]
  BY Bounds DEF FrameNeed, Begin, Types, Thread
<1>2. PcOK'
  BY RenderGoes DEF FrameNeed, Types, RenderLabel
<1>3. UploadOK'
  <2>1. Empty \in Area
    BY Bounds
  <2>2. upload' = [upload EXCEPT !.of = "need", !.area = Empty, !.side = 1]
    BY DEF FrameNeed, Begin
  <2>3. upload' = [of |-> "need", area |-> Empty, copy |-> upload.copy, side |-> 1]
    BY <2>2 DEF Types, UploadOK
  <2>4. upload.copy \in Image
    BY DEF Types, UploadOK
  <2> QED
    BY <2>1, <2>3, <2>4 DEF UploadOK
<1>4. HistoryOK'
  <2> DEFINE way == history.touched
  <2>1. way \in SUBSET Cell /\ (history.overlapped \/ way # {}) \in BOOLEAN
    BY DEF Types, HistoryOK
  <2>2. history' = [history EXCEPT !.late = way, !.overlapped = history.overlapped \/ way # {}]
    BY DEF FrameNeed, Begin, Types, HistoryOK
  <2> HIDE DEF way
  <2> QED
    BY <2>1, <2>2 DEF Types, HistoryOK
<1>5. UNCHANGED <<data, texture, flags, rect, net, done>>
  BY DEF FrameNeed
<1> QED
  BY <1>1, <1>2, <1>3, <1>4, <1>5 DEF Types, NetOK, DoneOK

LEMMA FrameNoNeedTypes ==
  ASSUME MinimapAssumption, Types, Places, Widens, FrameNoNeed
  PROVE  Types'
<1>1. PcOK'
  BY RenderGoes DEF FrameNoNeed, Types, RenderLabel
<1>2. UNCHANGED <<data, texture, flags, rect, row, net, upload, history, done>>
  BY DEF FrameNoNeed
<1> QED
  BY <1>1, <1>2 DEF Types, NetOK, UploadOK, HistoryOK, DoneOK

LEMMA FrameForceTypes ==
  ASSUME MinimapAssumption, Types, Places, Widens, FrameForce
  PROVE  Types'
<1>1. row' \in [Thread -> 0..Height]
  BY Bounds DEF FrameForce, Begin, Types, Thread
<1>2. PcOK'
  BY RenderGoes DEF FrameForce, Types, RenderLabel
<1>3. UploadOK'
  <2>1. Whole \in Area
    BY Bounds
  <2>2. upload' = [upload EXCEPT !.of = "force", !.area = Whole, !.side = 1]
    BY DEF FrameForce, Begin
  <2>3. upload' = [of |-> "force", area |-> Whole, copy |-> upload.copy, side |-> 1]
    BY <2>2 DEF Types, UploadOK
  <2>4. upload.copy \in Image
    BY DEF Types, UploadOK
  <2> QED
    BY <2>1, <2>3, <2>4 DEF UploadOK
<1>4. HistoryOK'
  <2> DEFINE way == IF \E t \in {"net", "win"} : Clearing(t) THEN Cell ELSE {}
  <2>1. way \in SUBSET Cell /\ (history.overlapped \/ way # {}) \in BOOLEAN
    BY DEF Types, HistoryOK
  <2>2. history' = [history EXCEPT !.late = way, !.overlapped = history.overlapped \/ way # {}]
    BY DEF FrameForce, Begin, Types, HistoryOK
  <2> HIDE DEF way
  <2> QED
    BY <2>1, <2>2 DEF Types, HistoryOK
<1>5. UNCHANGED <<data, texture, flags, rect, net, done>>
  BY DEF FrameForce
<1> QED
  BY <1>1, <1>2, <1>3, <1>4, <1>5 DEF Types, NetOK, DoneOK

LEMMA FrameNothingTypes ==
  ASSUME MinimapAssumption, Types, Places, Widens, FrameNothing
  PROVE  Types'
<1>1. PcOK'
  BY RenderGoes DEF FrameNothing, Types, RenderLabel
<1>2. UNCHANGED <<data, texture, flags, rect, row, net, upload, history, done>>
  BY DEF FrameNothing
<1> QED
  BY <1>1, <1>2 DEF Types, NetOK, UploadOK, HistoryOK, DoneOK

LEMMA ReadSideTypes ==
  ASSUME MinimapAssumption, Types, Places, Widens, ReadSide
  PROVE  Types'
<1>1. PcOK'
  BY ReadSidePc DEF Types
<1>2. UploadOK'
  BY ReadArea DEF UploadOK
<1>3. UNCHANGED <<data, texture, flags, rect, row, net, history, done>>
  BY DEF ReadSide
<1> QED
  BY <1>1, <1>2, <1>3 DEF Types, NetOK, HistoryOK, DoneOK

LEMMA MeasureTypes ==
  ASSUME MinimapAssumption, Types, Places, Widens, Measure
  PROVE  Types'
<1>1. row' \in [Thread -> 0..Height]
  <2>1. upload.area.min_y \in 0..Height
    BY DEF Types, UploadOK, Area
  <2> QED
    BY <2>1 DEF Measure, Types, Thread
<1>2. PcOK'
  BY MeasurePc DEF Types
<1>3. UNCHANGED <<data, texture, flags, rect, net, upload, history, done>>
  BY DEF Measure
<1> QED
  BY <1>1, <1>2, <1>3 DEF Types, NetOK, UploadOK, HistoryOK, DoneOK

LEMMA CopyRowTypes ==
  ASSUME MinimapAssumption, Types, Places, Widens, CopyRow
  PROVE  Types'
<1>1. row' \in [Thread -> 0..Height]
  <2>1. row["render"] \in 0..Height /\ upload.area.max_y \in 0..Height /\ row["render"] < upload.area.max_y
    BY DEF CopyRow, Types, Thread, UploadOK, Area
  <2>2. row["render"] + 1 \in 0..Height
    BY <2>1, Bounds
  <2> QED
    BY <2>2 DEF CopyRow, Types, Thread
<1>2. UploadOK'
  <2> DEFINE In(c) == c.y = row["render"] /\ upload.area.min_x <= c.x /\ c.x < upload.area.max_x
             copy == [c \in Cell |-> IF In(c) THEN data[c] ELSE upload.copy[c]]
  <2>1. upload.copy \in Image /\ data \in Image
    BY DEF Types, UploadOK
  <2>2. copy \in Image
    <3> HIDE DEF In
    <3> QED
      BY <2>1 DEF Image
  <2>3. upload' = [upload EXCEPT !.copy = copy]
    BY DEF CopyRow, Types, UploadOK
  <2> HIDE DEF copy
  <2> QED
    BY <2>2, <2>3 DEF Types, UploadOK
<1>3. UNCHANGED <<data, texture, flags, rect, pc, net, history, done>>
  BY DEF CopyRow
<1> QED
  BY <1>1, <1>2, <1>3 DEF Types, PcOK, NetOK, HistoryOK, DoneOK

LEMMA WriteTextureTypes ==
  ASSUME MinimapAssumption, Types, Places, Widens, WriteTexture
  PROVE  Types'
<1>1. texture' \in Image
  <2>1. upload.copy \in Image
    BY DEF Types, UploadOK
  <2>2. texture' = [c \in Cell |-> IF c \in Written THEN upload.copy[c] ELSE texture[c]]
    BY DEF WriteTexture
  <2> QED
    BY <2>1, <2>2 DEF Types, Image
<1>2. PcOK'
  BY WriteTexturePc DEF Types
<1>3. UNCHANGED <<data, flags, rect, row, net, upload, history, done>>
  BY DEF WriteTexture
<1> QED
  BY <1>1, <1>2, <1>3 DEF Types, NetOK, UploadOK, HistoryOK, DoneOK

LEMMA UnsetNeedTypes ==
  ASSUME MinimapAssumption, Types, Places, Widens, UnsetNeed
  PROVE  Types'
<1>1. flags' \in [need : BOOLEAN, force : BOOLEAN]
  BY Bounds DEF UnsetNeed, Types
<1>2. PcOK'
  BY RenderGoes DEF UnsetNeed, Types, RenderLabel
<1>3. UNCHANGED <<data, texture, rect, row, net, upload, history, done>>
  BY DEF UnsetNeed
<1> QED
  BY <1>1, <1>2, <1>3 DEF Types, NetOK, UploadOK, HistoryOK, DoneOK

\* The end of an upload.
LEMMA ForgetTypes ==
  ASSUME MinimapAssumption, Types, Forget
  PROVE  /\ row' \in [Thread -> 0..Height] /\ PcOK' /\ UploadOK' /\ HistoryOK'
         /\ pc'["net"] = pc["net"] /\ pc'["win"] = pc["win"] /\ pc'["render"] = "frame"
         /\ row' = [row EXCEPT !["render"] = 0]
         /\ history'.lost = (history.lost \ Written) \cup history.late
         /\ history'.touched = history.touched /\ history'.overlapped = history.overlapped
         /\ history'.blank = history.blank
<1>1. row' = [row EXCEPT !["render"] = 0] /\ row' \in [Thread -> 0..Height]
  BY Bounds DEF Forget, Types, Thread
<1>2. PcOK' /\ pc'["net"] = pc["net"] /\ pc'["win"] = pc["win"] /\ pc'["render"] = "frame"
  BY RenderGoes DEF Forget, Types, RenderLabel
<1>3. UploadOK'
  <2> DEFINE copy == [c \in Cell |-> NoColor]
  <2>1. copy \in Image
    BY DEF Image
  <2>2. upload' = [upload EXCEPT !.area = Empty, !.copy = copy]
    BY DEF Forget
  <2> HIDE DEF copy
  <2> QED
    BY <2>1, <2>2, Bounds DEF Types, UploadOK
<1>4. /\ HistoryOK' /\ history'.lost = (history.lost \ Written) \cup history.late
      /\ history'.touched = history.touched /\ history'.overlapped = history.overlapped
      /\ history'.blank = history.blank
  <2> DEFINE lost == (history.lost \ Written) \cup history.late
  <2>1. lost \in SUBSET Cell
    BY DEF Types, HistoryOK
  <2>2. history' = [history EXCEPT !.lost = lost, !.late = {}]
    BY DEF Forget, Types, HistoryOK
  <2> HIDE DEF lost
  <2>3. history'.lost = lost
    BY <2>2 DEF Types, HistoryOK
  <2> QED
    BY <2>1, <2>2, <2>3 DEF Types, HistoryOK, lost
<1> QED
  BY <1>1, <1>2, <1>3, <1>4

LEMMA ResetSideTypes ==
  ASSUME MinimapAssumption, Types, Places, Widens, ResetSide
  PROVE  Types'
<1>1. rect' \in Rectangle
  BY ResetRect
<1>2. UNCHANGED <<data, texture, flags, net, done>>
  BY DEF ResetSide
<1>3. CASE upload.side = 4
  <2>1. Forget
    BY <1>3 DEF ResetSide
  <2> QED
    BY <1>1, <1>2, <2>1, ForgetTypes DEF Types, NetOK, DoneOK
<1>4. CASE upload.side # 4
  <2>1. upload' = [upload EXCEPT !.side = upload.side + 1] /\ UNCHANGED <<pc, row, history>>
    BY <1>4 DEF ResetSide
  <2>2. upload.side \in 1..4 /\ upload.side + 1 \in 1..4
    BY <1>4 DEF Types, UploadOK
  <2>3. UploadOK'
    BY <2>1, <2>2 DEF Types, UploadOK
  <2> QED
    BY <1>1, <1>2, <2>1, <2>3 DEF Types, NetOK, DoneOK, PcOK, HistoryOK
<1> QED
  BY <1>3, <1>4

LEMMA UnsetForceTypes ==
  ASSUME MinimapAssumption, Types, Places, Widens, UnsetForce
  PROVE  Types'
<1>1. flags' \in [need : BOOLEAN, force : BOOLEAN]
  BY DEF UnsetForce, Types
<1>2. Forget /\ UNCHANGED <<data, texture, rect, net, done>>
  BY DEF UnsetForce
<1> QED
  BY <1>1, <1>2, ForgetTypes DEF Types, NetOK, DoneOK

LEMMA WipeAgainTypes ==
  ASSUME MinimapAssumption, Types, Places, Widens, WipeAgain
  PROVE  Types'
<1>1. data' \in Image
  BY Bounds DEF WipeAgain, Types, Image
<1>2. row' \in [Thread -> 0..Height]
  <2>1. row["net"] \in 0..Height - 1
    <3>1. row["net"] \in 0..Height
      BY DEF Types, Thread
    <3>2. row["net"] < Height
      BY DEF Places, Rows
    <3> QED
      BY <3>1, <3>2, Bounds
  <2>2. row["net"] # Height - 1 => row["net"] + 1 \in 0..Height
    BY <2>1, Bounds
  <2> DEFINE next == IF row["net"] = Height - 1 THEN 0 ELSE row["net"] + 1
  <2>3. next \in 0..Height
    BY <2>1, <2>2, Bounds
  <2>4. row' = [row EXCEPT !["net"] = next]
    BY DEF WipeAgain, Types, Thread
  <2> HIDE DEF next
  <2> QED
    BY <2>3, <2>4 DEF Types, Thread
<1>3. PcOK'
  BY WipeAgainPc DEF Types
<1>4. UNCHANGED <<texture, flags, rect, net, upload, history, done>>
  BY DEF WipeAgain
<1> QED
  BY <1>1, <1>2, <1>3, <1>4 DEF Types, NetOK, UploadOK, HistoryOK, DoneOK

LEMMA ClearBeginTypes ==
  ASSUME MinimapAssumption, Types, Places, Widens, NEW t \in {"net", "win"}, ClearBegin(t)
  PROVE  Types'
<1>1. PcOK'
  BY ClearBeginPc DEF Types
<1>2. DoneOK'
  BY Bounds DEF ClearBegin, Types, DoneOK
<1>3. UNCHANGED <<data, texture, flags, rect, row, net, upload, history>>
  BY DEF ClearBegin
<1> QED
  BY <1>1, <1>2, <1>3 DEF Types, NetOK, UploadOK, HistoryOK

LEMMA WipeTypes ==
  ASSUME MinimapAssumption, Types, Places, Widens, NEW t \in {"net", "win"}, Wipe(t)
  PROVE  Types'
<1>1. data' \in Image
  BY Bounds DEF Wipe, Types, Image, Wiped
<1>2. row' \in [Thread -> 0..Height]
  <2>1. row[t] \in 0..Height - 1
    <3>1. row[t] \in 0..Height
      BY DEF Types, Thread
    <3>2. row[t] < Height
      BY DEF Places, Rows
    <3> QED
      BY <3>1, <3>2, Bounds
  <2>2. row[t] # Height - 1 => row[t] + 1 \in 0..Height
    BY <2>1, Bounds
  <2> DEFINE next == IF row[t] = Height - 1 THEN 0 ELSE row[t] + 1
  <2>3. next \in 0..Height
    BY <2>1, <2>2, Bounds
  <2>4. row' = [row EXCEPT ![t] = next]
    BY DEF Wipe, Types, Thread
  <2> HIDE DEF next
  <2> QED
    BY <2>3, <2>4 DEF Types, Thread
<1>3. PcOK'
  BY WipePc DEF Types
<1>4. HistoryOK'
  <2> DEFINE late == IF Fully THEN Cell ELSE history.late
  <2>1. late \in SUBSET Cell /\ (history.overlapped \/ Fully) \in BOOLEAN
    BY DEF Types, HistoryOK
  <2>2. history' = [history EXCEPT !.late = late, !.overlapped = history.overlapped \/ Fully]
    BY DEF Wipe, Wiped, Types, HistoryOK
  <2> HIDE DEF late, Fully
  <2> QED
    BY <2>1, <2>2 DEF Types, HistoryOK
<1>5. UNCHANGED <<texture, flags, rect, net, upload, done>>
  BY DEF Wipe
<1> QED
  BY <1>1, <1>2, <1>3, <1>4, <1>5 DEF Types, NetOK, UploadOK, DoneOK

LEMMA AskTypes ==
  ASSUME MinimapAssumption, Types, Places, Widens, NEW t \in {"net", "win"}, Ask(t)
  PROVE  Types'
<1>1. flags' \in [need : BOOLEAN, force : BOOLEAN]
  BY Bounds DEF Ask, Types
<1>2. PcOK'
  BY AskPc DEF Types
<1>3. UNCHANGED <<data, texture, rect, row, net, upload, history, done>>
  BY DEF Ask
<1> QED
  BY <1>1, <1>2, <1>3 DEF Types, NetOK, UploadOK, HistoryOK, DoneOK

-----------------------------------------------------------------------------
(* What steps have in common. *)

\* The render thread, to which nothing happens but that more waits for it.
LEMMA QuietKeeps ==
  ASSUME Types, Types', Uploads, Remembered, Partial, Full,
         UNCHANGED <<data, texture, upload>>, row'["render"] = row["render"],
         pc'["render"] = pc["render"], Asked => Asked', flags.force => flags'.force,
         history'.late = history.late, history'.lost = history.lost,
         history'.touched \subseteq history.touched,
         \A c \in Cell : Waits(c) => Waits(c)'
  PROVE  Uploads' /\ Remembered' /\ Partial' /\ Full'
<1>1. /\ Partly' <=> Partly
      /\ Fully' <=> Fully
      /\ Live' <=> Live
      /\ BeforeWrite' <=> BeforeWrite
  BY DEF Partly, Fully, Uploading, Live, BeforeWrite
<1>2. \A c \in Cell : (Stale(c)' <=> Stale(c)) /\ (Read(c)' <=> Read(c))
  BY DEF Stale, Read
<1>3. Written' = Written
  BY DEF Written
<1>4. Uploads'
  BY <1>1 DEF Uploads
<1>5. Remembered'
  BY <1>1, <1>2 DEF Remembered
<1>6. Partial'
  BY <1>1, <1>2, <1>3 DEF Partial
<1>7. Full'
  BY <1>1, <1>2 DEF Full
<1> QED
  BY <1>4, <1>5, <1>6, <1>7

LEMMA QuietTidy ==
  ASSUME Tidy, UNCHANGED upload,
         pc'["render"] = pc["render"], flags'.need = flags.need,
         history.overlapped => history'.overlapped, history.blank => history'.blank,
         history'.touched \subseteq history.touched, history.touched \subseteq Cell,
         \A c \in Cell : Waits(c) => Waits(c)',
         \A c \in Cell : Covers(rect, c) => Covers(rect', c)
  PROVE  Tidy'
<1>1. Partly' <=> Partly
  BY DEF Partly, Uploading
<1>2. \A c \in Cell : Read(c)' <=> Read(c)
  BY DEF Read
<1> SUFFICES ASSUME ~history'.overlapped, ~history'.blank
             PROVE  /\ pc'["render"] # "panic"
                    /\ Partly' => history'.touched = {}
                    /\ \A c \in history'.touched : Waits(c)'
                    /\ pc'["render"] \in {"frame", "force?", "read", "measure", "copy", "unset need", "unset force"} /\ flags'.need
                         => \E c \in Cell : Covers(rect', c)
                    /\ pc'["render"] \in {"read", "measure"} => \E c \in Cell : Covers(rect', c) /\ Read(c)'
                    /\ pc'["render"] = "reset" => ~flags'.need
  BY DEF Tidy
<1>3. /\ pc["render"] # "panic"
      /\ Partly => history.touched = {}
      /\ \A c \in history.touched : Waits(c)
      /\ pc["render"] \in {"frame", "force?", "read", "measure", "copy", "unset need", "unset force"} /\ flags.need
           => \E c \in Cell : Covers(rect, c)
      /\ pc["render"] \in {"read", "measure"} => \E c \in Cell : Covers(rect, c) /\ Read(c)
      /\ pc["render"] = "reset" => ~flags.need
  BY DEF Tidy
<1>4. \A c \in history'.touched : Waits(c)'
  BY <1>3
<1>5. pc'["render"] \in {"read", "measure"} => \E c \in Cell : Covers(rect', c) /\ Read(c)'
  <2> SUFFICES ASSUME pc'["render"] \in {"read", "measure"}
               PROVE  \E c \in Cell : Covers(rect', c) /\ Read(c)'
    OBVIOUS
  <2>1. PICK c \in Cell : Covers(rect, c) /\ Read(c)
    BY <1>3
  <2> QED
    BY <1>2, <2>1
<1>6. pc'["render"] \in {"frame", "force?", "read", "measure", "copy", "unset need", "unset force"} /\ flags'.need
        => \E c \in Cell : Covers(rect', c)
  BY <1>3
<1> QED
  BY <1>1, <1>3, <1>4, <1>5, <1>6

\* The network and the window thread, to which nothing happens but that the
\* rectangle gets narrower.
LEMMA RenderKeeps ==
  ASSUME MinimapAssumption, Types, Types', Rows, Painting, Blank, Widens,
         UNCHANGED <<data, net>>, row'["net"] = row["net"], row'["win"] = row["win"],
         pc'["net"] = pc["net"], pc'["win"] = pc["win"], history'.touched = history.touched,
         rect'.min_x >= rect.min_x, rect'.max_x <= rect.max_x,
         rect'.min_y >= rect.min_y, rect'.max_y <= rect.max_y
  PROVE  Rows' /\ Painting' /\ Blank' /\ Widens'
<1>1. Widening' <=> Widening
  BY DEF Widening
<1>2. Rows' /\ Painting'
  BY <1>1 DEF Rows, Painting
<1>3. Blank'
  BY DEF Blank
<1>4. Widens'
  <2>1. /\ rect.min_x \in 0..Width /\ rect.max_x \in 0..Width-1
        /\ rect.min_y \in 0..Height /\ rect.max_y \in 0..Height-1
        /\ rect'.min_x \in 0..Width /\ rect'.max_x \in 0..Width-1
        /\ rect'.min_y \in 0..Height /\ rect'.max_y \in 0..Height-1
        /\ net.seen \in Nat /\ net.side \in 1..4
    BY DEF Types, Rectangle, NetOK
  <2> SUFFICES ASSUME pc["net"] = "store"
               PROVE  CASE net.side = 1 -> net.seen \in 0..rect'.min_x
                        [] net.side = 2 -> net.seen \in rect'.max_x..Width - 1
                        [] net.side = 3 -> net.seen \in 0..rect'.min_y
                        [] net.side = 4 -> net.seen \in rect'.max_y..Height - 1
    BY <1>1 DEF Widens
  <2>2. CASE net.side = 1
    <3>1. net.seen \in 0..rect.min_x
      BY <2>2 DEF Widens
    <3> QED
      BY <2>1, <2>2, <3>1
  <2>3. CASE net.side = 2
    <3>1. net.seen \in rect.max_x..Width - 1
      BY <2>3 DEF Widens
    <3> QED
      BY <2>1, <2>3, <3>1, Bounds
  <2>4. CASE net.side = 3
    <3>1. net.seen \in 0..rect.min_y
      BY <2>4 DEF Widens
    <3> QED
      BY <2>1, <2>4, <3>1
  <2>5. CASE net.side = 4
    <3>1. net.seen \in rect.max_y..Height - 1
      BY <2>5 DEF Widens
    <3> QED
      BY <2>1, <2>5, <3>1, Bounds
  <2>6. net.side = 1 \/ net.side = 2 \/ net.side = 3 \/ net.side = 4
    BY <2>1
  <2> QED
    BY <2>2, <2>3, <2>4, <2>5, <2>6, Zenon
<1> QED
  BY <1>2, <1>3, <1>4

LEMMA RenderRests ==
  ASSUME MinimapAssumption, Types, Types', Rows, Painting, Blank, Widens,
         UNCHANGED <<data, net, rect>>, row'["net"] = row["net"], row'["win"] = row["win"],
         pc'["net"] = pc["net"], pc'["win"] = pc["win"], history'.touched = history.touched
  PROVE  Rows' /\ Painting' /\ Blank' /\ Widens'
<1>1. rect.min_x \in Nat /\ rect.max_x \in Nat /\ rect.min_y \in Nat /\ rect.max_y \in Nat
  BY Bounds DEF Types, Rectangle
<1>2. /\ rect'.min_x >= rect.min_x /\ rect'.max_x <= rect.max_x
      /\ rect'.min_y >= rect.min_y /\ rect'.max_y <= rect.max_y
  BY <1>1
<1> QED
  BY <1>2, RenderKeeps

-----------------------------------------------------------------------------
(* The network and the window thread. *)

LEMMA UpdateBeginKeeps ==
  ASSUME MinimapAssumption, IInv, UpdateBegin
  PROVE  IInv'
<1>1. Types /\ Places /\ Rows /\ Painting /\ Uploads /\ Blank /\ Widens /\ Remembered /\ Partial /\ Full /\ Tidy
  BY DEF IInv, Places
<1>2. Types'
  BY <1>1, UpdateBeginTypes
<1>3. pc["net"] = "idle" /\ pc'["net"] = "tiles" /\ pc'["win"] = pc["win"] /\ pc'["render"] = pc["render"] /\ net'.phase = "tiles" /\ net'.side = net.side
  BY <1>1, NetGoes DEF UpdateBegin, Types, NetLabel, NetOK
<1>4. UNCHANGED <<data, texture, rect, row, upload, history>>
  BY DEF UpdateBegin
<1>5. Rows'
  BY <1>1, <1>3, <1>4 DEF Rows
<1>6. Painting'
  BY <1>1, <1>3 DEF Painting, Widening
<1>7. Blank'
  BY <1>1, <1>3 DEF Blank
<1>8. Widens'
  BY <1>3 DEF Widens, Widening
<1>9. \A c \in Cell : Waits(c) => Waits(c)'
  BY <1>3, <1>4 DEF Waits, Pending, Widening
<1>10. (Asked => Asked') /\ (flags.force => flags'.force) /\ flags'.need = flags.need
  BY <1>3 DEF Asked, Clearing, UpdateBegin
<1>11. Uploads' /\ Remembered' /\ Partial' /\ Full'
  <2>1. history'.touched \subseteq history.touched /\ history'.late = history.late /\ history'.lost = history.lost
    BY <1>4
  <2> QED
    BY <1>1, <1>2, <1>3, <1>9, <1>10, <1>4, <2>1, QuietKeeps
<1>12. Tidy'
  <2>1. \A c \in Cell : Covers(rect, c) => Covers(rect', c)
    BY <1>4
  <2>2. history.touched \subseteq Cell
    BY <1>1 DEF Types, HistoryOK
  <2> QED
    BY <1>1, <1>3, <1>9, <1>10, <1>4, <2>1, <2>2, QuietTidy
<1> QED
  BY <1>2, <1>5, <1>6, <1>7, <1>8, <1>11, <1>12 DEF IInv, Places

LEMMA UpdateEndKeeps ==
  ASSUME MinimapAssumption, IInv, UpdateEnd
  PROVE  IInv'
<1>1. Types /\ Places /\ Rows /\ Painting /\ Uploads /\ Blank /\ Widens /\ Remembered /\ Partial /\ Full /\ Tidy
  BY DEF IInv, Places
<1>2. Types'
  BY <1>1, UpdateEndTypes
<1>3. pc["net"] = "objects" /\ pc'["net"] = "idle" /\ pc'["win"] = pc["win"] /\ pc'["render"] = pc["render"] /\ net'.side = net.side
  BY <1>1, NetGoes DEF UpdateEnd, Types, NetLabel, NetOK
<1>4. UNCHANGED <<data, texture, rect, row, upload, history>>
  BY DEF UpdateEnd
<1>5. Rows'
  BY <1>1, <1>3, <1>4 DEF Rows
<1>6. Painting'
  BY <1>1, <1>3 DEF Painting, Widening
<1>7. Blank'
  BY <1>1, <1>3 DEF Blank
<1>8. Widens'
  BY <1>3 DEF Widens, Widening
<1>9. \A c \in Cell : Waits(c) => Waits(c)'
  BY <1>3, <1>4 DEF Waits, Pending, Widening
<1>10. (Asked => Asked') /\ (flags.force => flags'.force) /\ flags'.need = flags.need
  BY <1>3 DEF Asked, Clearing, UpdateEnd
<1>11. Uploads' /\ Remembered' /\ Partial' /\ Full'
  <2>1. history'.touched \subseteq history.touched /\ history'.late = history.late /\ history'.lost = history.lost
    BY <1>4
  <2> QED
    BY <1>1, <1>2, <1>3, <1>9, <1>10, <1>4, <2>1, QuietKeeps
<1>12. Tidy'
  <2>1. \A c \in Cell : Covers(rect, c) => Covers(rect', c)
    BY <1>4
  <2>2. history.touched \subseteq Cell
    BY <1>1 DEF Types, HistoryOK
  <2> QED
    BY <1>1, <1>3, <1>9, <1>10, <1>4, <2>1, <2>2, QuietTidy
<1> QED
  BY <1>2, <1>5, <1>6, <1>7, <1>8, <1>11, <1>12 DEF IInv, Places

LEMMA SetSquareUnknownKeeps ==
  ASSUME MinimapAssumption, IInv, SetSquareUnknown
  PROVE  IInv'
<1>1. Types /\ Places /\ Rows /\ Painting /\ Uploads /\ Blank /\ Widens /\ Remembered /\ Partial /\ Full /\ Tidy
  BY DEF IInv, Places
<1>2. Types'
  BY <1>1, SetSquareUnknownTypes
<1>3. pc["net"] = "tiles" /\ pc'["net"] = "tiles" /\ pc'["win"] = pc["win"] /\ pc'["render"] = pc["render"] /\ net'.side = net.side /\ net'.phase = net.phase
  BY <1>1 DEF SetSquareUnknown, Types, NetLabel, NetOK
<1>4. UNCHANGED <<data, texture, rect, row, upload, history>>
  BY DEF SetSquareUnknown
<1>5. Rows'
  BY <1>1, <1>3, <1>4 DEF Rows
<1>6. Painting'
  BY <1>1, <1>3 DEF Painting, Widening
<1>7. Blank'
  BY <1>1, <1>3 DEF Blank
<1>8. Widens'
  BY <1>3 DEF Widens, Widening
<1>9. \A c \in Cell : Waits(c) => Waits(c)'
  BY <1>3, <1>4 DEF Waits, Pending, Widening
<1>10. (Asked => Asked') /\ (flags.force => flags'.force) /\ flags'.need = flags.need
  BY <1>3 DEF Asked, Clearing, SetSquareUnknown
<1>11. Uploads' /\ Remembered' /\ Partial' /\ Full'
  <2>1. history'.touched \subseteq history.touched /\ history'.late = history.late /\ history'.lost = history.lost
    BY <1>4
  <2> QED
    BY <1>1, <1>2, <1>3, <1>9, <1>10, <1>4, <2>1, QuietKeeps
<1>12. Tidy'
  <2>1. \A c \in Cell : Covers(rect, c) => Covers(rect', c)
    BY <1>4
  <2>2. history.touched \subseteq Cell
    BY <1>1 DEF Types, HistoryOK
  <2> QED
    BY <1>1, <1>3, <1>9, <1>10, <1>4, <2>1, <2>2, QuietTidy
<1> QED
  BY <1>2, <1>5, <1>6, <1>7, <1>8, <1>11, <1>12 DEF IInv, Places

LEMMA LoadKeeps ==
  ASSUME MinimapAssumption, IInv, Load
  PROVE  IInv'
<1>1. Types /\ Places /\ Rows /\ Painting /\ Uploads /\ Blank /\ Widens /\ Remembered /\ Partial /\ Full /\ Tidy
  BY DEF IInv, Places
<1>2. Types'
  BY <1>1, LoadTypes
<1>3. pc["net"] = "load" /\ pc'["net"] = "store" /\ pc'["win"] = pc["win"] /\ pc'["render"] = pc["render"]
      /\ net'.side = net.side /\ net'.phase = net.phase /\ net'.cell = net.cell /\ net'.seen = rect[Sides[net.side]]
  BY <1>1, NetGoes DEF Load, Types, NetLabel, NetOK
<1>4. UNCHANGED <<data, texture, rect, row, upload, history>>
  BY DEF Load
<1>5. Rows'
  BY <1>1, <1>3, <1>4 DEF Rows
<1>6. Painting'
  BY <1>1, <1>3 DEF Painting, Widening
<1>7. Blank'
  BY <1>1, <1>3 DEF Blank
<1>8. Widens'
  <2>1. net'.cell \in history'.touched
    BY <1>1, <1>3, <1>4 DEF Widens, Widening
  <2>2. /\ rect.min_x \in 0..Width /\ rect.max_x \in 0..Width-1 /\ rect.min_y \in 0..Height /\ rect.max_y \in 0..Height-1
        /\ net.side \in 1..4 /\ Width \in Nat /\ Height \in Nat
    BY <1>1, Bounds DEF Types, Rectangle, NetOK
  <2>3. CASE net.side = 1
    BY <1>3, <1>4, <2>1, <2>2, <2>3, SideNames DEF Widens
  <2>4. CASE net.side = 2
    BY <1>3, <1>4, <2>1, <2>2, <2>4, SideNames DEF Widens
  <2>5. CASE net.side = 3
    BY <1>3, <1>4, <2>1, <2>2, <2>5, SideNames DEF Widens
  <2>6. CASE net.side = 4
    BY <1>3, <1>4, <2>1, <2>2, <2>6, SideNames DEF Widens
  <2> QED
    BY <2>2, <2>3, <2>4, <2>5, <2>6
<1>9. \A c \in Cell : Waits(c) => Waits(c)'
  BY <1>3, <1>4 DEF Waits, Pending, Widening
<1>10. (Asked => Asked') /\ (flags.force => flags'.force) /\ flags'.need = flags.need
  BY <1>3 DEF Asked, Clearing, Load
<1>11. Uploads' /\ Remembered' /\ Partial' /\ Full'
  <2>1. history'.touched \subseteq history.touched /\ history'.late = history.late /\ history'.lost = history.lost
    BY <1>4
  <2> QED
    BY <1>1, <1>2, <1>3, <1>9, <1>10, <1>4, <2>1, QuietKeeps
<1>12. Tidy'
  <2>1. \A c \in Cell : Covers(rect, c) => Covers(rect', c)
    BY <1>4
  <2>2. history.touched \subseteq Cell
    BY <1>1 DEF Types, HistoryOK
  <2> QED
    BY <1>1, <1>3, <1>9, <1>10, <1>4, <2>1, <2>2, QuietTidy
<1> QED
  BY <1>2, <1>5, <1>6, <1>7, <1>8, <1>11, <1>12 DEF IInv, Places

LEMMA ClearBeginKeeps ==
  ASSUME MinimapAssumption, IInv, NEW t \in {"net", "win"}, ClearBegin(t)
  PROVE  IInv'
<1>1. Types /\ Places /\ Rows /\ Painting /\ Uploads /\ Blank /\ Widens /\ Remembered /\ Partial /\ Full /\ Tidy
  BY DEF IInv, Places
<1>2. Types'
  BY <1>1, ClearBeginTypes
<1>3. pc[t] = "idle" /\ pc'[t] = "wipe" /\ pc'["render"] = pc["render"] /\ \A u \in {"net", "win"} : u # t => pc'[u] = pc[u]
  BY <1>1, ClearBeginPc DEF Types
<1>4. UNCHANGED <<data, texture, flags, rect, net, row, upload, history>>
  BY DEF ClearBegin
<1>5. Rows'
  BY <1>1, <1>3, <1>4 DEF Rows
<1>6. Painting'
  BY <1>1, <1>3, <1>4 DEF Painting, Widening
<1>7. Blank'
  <2>1. \A c \in Cell : c.y \in Nat
    BY CellFacts
  <2>2. CASE t = "net"
    <3>1. row'["net"] = 0 /\ pc'["net"] = "wipe"
      BY <1>1, <1>3, <1>4, <2>2 DEF Rows
    <3>2. \A c \in Cell : ~(c.y < row'["net"])
      BY <2>1, <3>1
    <3> QED
      BY <3>1, <3>2 DEF Blank
  <2>3. CASE t = "win"
    BY <1>1, <1>3, <1>4, <2>3 DEF Blank
  <2> QED
    BY <2>2, <2>3
<1>8. Widens'
  BY <1>1, <1>3, <1>4 DEF Widens, Widening
<1>9. \A c \in Cell : Waits(c) => Waits(c)'
  BY <1>3, <1>4 DEF Waits, Pending, Widening
<1>10. (Asked => Asked') /\ (flags.force => flags'.force) /\ flags'.need = flags.need
  BY <1>3 DEF Asked, Clearing, ClearBegin
<1>11. Uploads' /\ Remembered' /\ Partial' /\ Full'
  <2>1. history'.touched \subseteq history.touched /\ history'.late = history.late /\ history'.lost = history.lost
    BY <1>4
  <2> QED
    BY <1>1, <1>2, <1>3, <1>9, <1>10, <1>4, <2>1, QuietKeeps
<1>12. Tidy'
  <2>1. \A c \in Cell : Covers(rect, c) => Covers(rect', c)
    BY <1>4
  <2>2. history.touched \subseteq Cell
    BY <1>1 DEF Types, HistoryOK
  <2> QED
    BY <1>1, <1>3, <1>9, <1>10, <1>4, <2>1, <2>2, QuietTidy
<1> QED
  BY <1>2, <1>5, <1>6, <1>7, <1>8, <1>11, <1>12 DEF IInv, Places

LEMMA AskKeeps ==
  ASSUME MinimapAssumption, IInv, NEW t \in {"net", "win"}, Ask(t)
  PROVE  IInv'
<1>1. Types /\ Places /\ Rows /\ Painting /\ Uploads /\ Blank /\ Widens /\ Remembered /\ Partial /\ Full /\ Tidy
  BY DEF IInv, Places
<1>2. Types'
  BY <1>1, AskTypes
<1>3. pc[t] = "ask" /\ pc'[t] = (IF t = "net" THEN "wipe again" ELSE "idle") /\ pc'["render"] = pc["render"] /\ \A u \in {"net", "win"} : u # t => pc'[u] = pc[u]
  BY <1>1, AskPc DEF Types
<1>4. UNCHANGED <<data, texture, rect, net, row, upload, history>>
  BY DEF Ask
<1>5. Rows'
  BY <1>1, <1>3, <1>4 DEF Rows
<1>6. Painting'
  BY <1>1, <1>3, <1>4 DEF Painting, Widening
<1>7. Blank'
  BY <1>1, <1>3, <1>4 DEF Blank
<1>8. Widens'
  BY <1>1, <1>3, <1>4 DEF Widens, Widening
<1>9. \A c \in Cell : Waits(c) => Waits(c)'
  BY <1>3, <1>4 DEF Waits, Pending, Widening
<1>10. (Asked => Asked') /\ (flags.force => flags'.force) /\ flags'.need = flags.need
  BY <1>1 DEF Asked, Ask, Types
<1>11. Uploads' /\ Remembered' /\ Partial' /\ Full'
  <2>1. history'.touched \subseteq history.touched /\ history'.late = history.late /\ history'.lost = history.lost
    BY <1>4
  <2> QED
    BY <1>1, <1>2, <1>3, <1>9, <1>10, <1>4, <2>1, QuietKeeps
<1>12. Tidy'
  <2>1. \A c \in Cell : Covers(rect, c) => Covers(rect', c)
    BY <1>4
  <2>2. history.touched \subseteq Cell
    BY <1>1 DEF Types, HistoryOK
  <2> QED
    BY <1>1, <1>3, <1>9, <1>10, <1>4, <2>1, <2>2, QuietTidy
<1> QED
  BY <1>2, <1>5, <1>6, <1>7, <1>8, <1>11, <1>12 DEF IInv, Places

LEMMA WipeAgainKeeps ==
  ASSUME MinimapAssumption, IInv, WipeAgain
  PROVE  IInv'
<1>1. Types /\ Places /\ Rows /\ Painting /\ Uploads /\ Blank /\ Widens /\ Remembered /\ Partial /\ Full /\ Tidy
  BY DEF IInv, Places
<1>2. Types'
  BY <1>1, WipeAgainTypes
<1>3. pc["net"] = "wipe again" /\ pc'["win"] = pc["win"] /\ pc'["render"] = pc["render"]
      /\ pc'["net"] = (IF row["net"] = Height - 1 THEN "idle" ELSE "wipe again")
  BY <1>1, WipeAgainPc DEF WipeAgain, Types
<1>4. UNCHANGED <<data, texture, flags, rect, net, upload, history>> /\ row'["render"] = row["render"]
  <2>1. \A c \in Cell : data[c] = NoColor
    BY <1>1, <1>3 DEF Blank
  <2>2. data \in Image
    BY <1>1 DEF Types
  <2>3. data' = [c \in Cell |-> IF c.y = row["net"] THEN NoColor ELSE data[c]]
    BY DEF WipeAgain
  <2>4. data' = data
    BY <2>1, <2>2, <2>3 DEF Image
  <2> QED
    BY <1>1, <2>4 DEF WipeAgain, Types, Thread
<1>5. Rows'
  <2>1. row["net"] \in 0..Height /\ row["net"] < Height
    BY <1>1 DEF Types, Rows, Thread
  <2>2. row["net"] # Height - 1 => row["net"] + 1 < Height
    BY <2>1, Bounds
  <2>3. row'["net"] = (IF row["net"] = Height - 1 THEN 0 ELSE row["net"] + 1) /\ row'["win"] = row["win"]
    BY <1>1 DEF WipeAgain, Types, Thread
  <2> QED
    BY <1>1, <1>3, <2>1, <2>2, <2>3, Bounds DEF Rows
<1>6. Painting'
  BY <1>1, <1>3, <1>4 DEF Painting, Widening
<1>7. Blank'
  BY <1>1, <1>3, <1>4 DEF Blank
<1>8. Widens'
  BY <1>1, <1>3, <1>4 DEF Widens, Widening
<1>9. \A c \in Cell : Waits(c) => Waits(c)'
  BY <1>3, <1>4 DEF Waits, Pending, Widening
<1>10. (Asked => Asked') /\ (flags.force => flags'.force) /\ flags'.need = flags.need
  BY <1>3, <1>4 DEF Asked, Clearing, WipeAgain
<1>11. Uploads' /\ Remembered' /\ Partial' /\ Full'
  <2>1. history'.touched \subseteq history.touched /\ history'.late = history.late /\ history'.lost = history.lost
    BY <1>4
  <2> QED
    BY <1>1, <1>2, <1>3, <1>9, <1>10, <1>4, <2>1, QuietKeeps
<1>12. Tidy'
  <2>1. \A c \in Cell : Covers(rect, c) => Covers(rect', c)
    BY <1>4
  <2>2. history.touched \subseteq Cell
    BY <1>1 DEF Types, HistoryOK
  <2> QED
    BY <1>1, <1>3, <1>9, <1>10, <1>4, <2>1, <2>2, QuietTidy
<1> QED
  BY <1>2, <1>5, <1>6, <1>7, <1>8, <1>11, <1>12 DEF IInv, Places

LEMMA StoreKeeps ==
  ASSUME MinimapAssumption, IInv, Store
  PROVE  IInv'
<1>1. Types /\ Places /\ Rows /\ Painting /\ Uploads /\ Blank /\ Widens /\ Remembered /\ Partial /\ Full /\ Tidy
  BY DEF IInv, Places
<1>2. Types'
  BY <1>1, StoreTypes
<1>3. /\ pc["net"] = "store" /\ pc'["win"] = pc["win"] /\ pc'["render"] = pc["render"]
      /\ net.side = 4 => pc'["net"] = net.phase /\ net.phase \in {"tiles", "objects"} /\ net'.side = 1
      /\ net.side # 4 => pc'["net"] = "load" /\ net'.side = net.side + 1 /\ net'.cell = net.cell
      /\ net'.phase = net.phase /\ net.side \in 1..4
  <2>1. NetOK /\ PcOK
    BY <1>1 DEF Types
  <2>2. net'.phase = net.phase /\ net.side \in 1..4 /\ (net.side = 4 => net'.side = 1) /\ (net.side # 4 => net'.side = net.side + 1 /\ net'.cell = net.cell)
    BY <2>1 DEF Store, NetOK
  <2>3. pc["net"] = "store"
    BY DEF Store
  <2> QED
    BY <1>1, <2>1, <2>2, <2>3, StorePc
<1>4. /\ UNCHANGED <<data, texture, flags, row, upload>>
      /\ history'.touched \in {{}, history.touched} /\ history'.late = history.late /\ history'.lost = history.lost
      /\ history'.overlapped = history.overlapped /\ history'.blank = history.blank
      /\ net.side # 4 => history' = history
  BY <1>1 DEF Store, Types, HistoryOK
<1>5. Rows'
  BY <1>1, <1>3, <1>4 DEF Rows
<1>6. Painting'
  <2>1. Widening' <=> net.side # 4
    BY <1>3 DEF Widening
  <2>2. net.phase \in {"tiles", "objects"}
    BY <1>1, <1>3 DEF Painting, Widening
  <2> QED
    BY <1>3, <2>1, <2>2 DEF Painting
<1>7. Blank'
  <2>1. pc'["net"] \notin {"wipe", "ask", "wipe again"}
    BY <1>3
  <2> QED
    BY <2>1 DEF Blank
<1>8. Widens'
  <2>1. pc'["net"] # "store"
    BY <1>3
  <2>2. Widening' => net.side # 4
    BY <1>3 DEF Widening
  <2>3. Widening' => net'.cell \in history'.touched
    BY <1>1, <1>3, <1>4, <2>2 DEF Widens, Widening
  <2> QED
    BY <2>1, <2>3 DEF Widens
<1>9. \A c \in Cell : Waits(c) => Waits(c)'
  <2> SUFFICES ASSUME NEW c \in Cell, Waits(c) PROVE Waits(c)'
    OBVIOUS
  <2>0. c.x \in Nat /\ c.y \in Nat
    BY CellFacts
  <2>1. /\ rect.min_x \in Nat /\ rect.max_x \in Nat /\ rect.min_y \in Nat /\ rect.max_y \in Nat
        /\ rect'.min_x \in Nat /\ rect'.max_x \in Nat /\ rect'.min_y \in Nat /\ rect'.max_y \in Nat
    BY <1>1, <1>2, Bounds DEF Types, Rectangle
  <2>2. /\ rect'.min_x <= rect.min_x /\ rect.max_x <= rect'.max_x
        /\ rect'.min_y <= rect.min_y /\ rect.max_y <= rect'.max_y
        /\ net.side = 1 => rect'.min_x <= net.cell.x
        /\ net.side = 2 => net.cell.x <= rect'.max_x
        /\ net.side = 3 => rect'.min_y <= net.cell.y
        /\ net.side = 4 => net.cell.y <= rect'.max_y
    BY <1>1, StoreRect
  <2>3. CASE Covers(rect, c)
    <3>1. Covers(rect', c)
      BY <2>0, <2>1, <2>2, <2>3 DEF Covers
    <3> QED
      BY <3>1 DEF Waits
  <2>4. CASE Pending(c)
    <3>1. /\ net.cell = c
          /\ net.side > 1 => rect.min_x <= c.x
          /\ net.side > 2 => c.x <= rect.max_x
          /\ net.side > 3 => rect.min_y <= c.y
      BY <2>4 DEF Pending
    <3>2. /\ net.side >= 1 => rect'.min_x <= c.x
          /\ net.side >= 2 => c.x <= rect'.max_x
          /\ net.side >= 3 => rect'.min_y <= c.y
          /\ net.side >= 4 => c.y <= rect'.max_y
      BY <1>3, <2>0, <2>1, <2>2, <3>1
    <3>3. CASE net.side = 4
      <4>1. Covers(rect', c)
        BY <3>2, <3>3 DEF Covers
      <4> QED
        BY <4>1 DEF Waits
    <3>4. CASE net.side # 4
      <4>1. Widening' /\ net'.cell = c /\ net'.side = net.side + 1
        BY <1>3, <3>1, <3>4 DEF Widening
      <4>2. Pending(c)'
        BY <1>3, <3>2, <4>1 DEF Pending
      <4> QED
        BY <4>2 DEF Waits
    <3> QED
      BY <3>3, <3>4
  <2> QED
    BY <2>3, <2>4 DEF Waits
<1>10. (Asked => Asked') /\ (flags.force => flags'.force) /\ flags'.need = flags.need
  BY <1>3, <1>4 DEF Asked, Clearing
<1>11. Uploads' /\ Remembered' /\ Partial' /\ Full'
  <2>1. history'.touched \subseteq history.touched /\ history'.late = history.late /\ history'.lost = history.lost
    BY <1>4
  <2> QED
    BY <1>1, <1>2, <1>3, <1>9, <1>10, <1>4, <2>1, QuietKeeps
<1>12. Tidy'
  <2>1. \A c \in Cell : Covers(rect, c) => Covers(rect', c)
    <3>1. /\ rect.min_x \in Nat /\ rect.max_x \in Nat /\ rect.min_y \in Nat /\ rect.max_y \in Nat
          /\ rect'.min_x \in Nat /\ rect'.max_x \in Nat /\ rect'.min_y \in Nat /\ rect'.max_y \in Nat
      BY <1>1, <1>2, Bounds DEF Types, Rectangle
    <3>2. /\ rect'.min_x <= rect.min_x /\ rect.max_x <= rect'.max_x
          /\ rect'.min_y <= rect.min_y /\ rect.max_y <= rect'.max_y
      BY <1>1, StoreRect
    <3>3. \A c \in Cell : c.x \in Nat /\ c.y \in Nat
      BY CellFacts
    <3> QED
      BY <3>1, <3>2, <3>3 DEF Covers
  <2>2. history.touched \subseteq Cell
    BY <1>1 DEF Types, HistoryOK
  <2> QED
    BY <1>1, <1>3, <1>9, <1>10, <1>4, <2>1, <2>2, QuietTidy
<1> QED
  BY <1>2, <1>5, <1>6, <1>7, <1>8, <1>11, <1>12 DEF IInv, Places

LEMMA WipeKeeps ==
  ASSUME MinimapAssumption, IInv, NEW t \in {"net", "win"}, Wipe(t)
  PROVE  IInv'
<1>1. Types /\ Places /\ Rows /\ Painting /\ Uploads /\ Blank /\ Widens /\ Remembered /\ Partial /\ Full /\ Tidy
  BY DEF IInv, Places
<1>2. Types'
  BY <1>1, WipeTypes
<1>3. /\ pc[t] = "wipe" /\ pc'[t] = (IF row[t] = Height - 1 THEN "ask" ELSE "wipe")
      /\ pc'["render"] = pc["render"] /\ \A u \in {"net", "win"} : u # t => pc'[u] = pc[u]
  BY <1>1, WipePc DEF Types
<1>4. /\ UNCHANGED <<texture, flags, rect, net, upload, done>>
      /\ data' = [c \in Cell |-> IF c.y = row[t] THEN NoColor ELSE data[c]]
  BY DEF Wipe, Wiped
<1>5. /\ row'[t] = (IF row[t] = Height - 1 THEN 0 ELSE row[t] + 1)
      /\ \A u \in Thread : u # t => row'[u] = row[u]
  BY <1>1 DEF Wipe, Types, Thread
<1>6. /\ history'.touched = history.touched /\ history'.lost = history.lost
      /\ history'.late = (IF Fully THEN Cell ELSE history.late)
      /\ (history.overlapped \/ Fully => history'.overlapped) /\ history'.blank = history.blank
  BY <1>1 DEF Wipe, Wiped, Types, HistoryOK
<1>7. row[t] \in Nat /\ row[t] < Height /\ Height \in Nat
  <2>1. row[t] \in 0..Height
    BY <1>1 DEF Types, Thread
  <2>2. row[t] < Height
    BY <1>1 DEF Rows
  <2> QED
    BY <2>1, <2>2, Bounds
<1>8. Asked'
  BY <1>3 DEF Asked, Clearing
<1>9. /\ Partly' <=> Partly
      /\ Fully' <=> Fully
      /\ Live' <=> Live
  BY <1>3, <1>4 DEF Partly, Fully, Uploading, Live
<1>10. Rows'
  <2>1. row'[t] < Height
    BY <1>5, <1>7
  <2> QED
    BY <1>1, <1>3, <1>5, <2>1 DEF Rows, Thread
<1>11. Painting'
  BY <1>1, <1>3, <1>4 DEF Painting, Widening
<1>12. Blank'
  <2>1. CASE t = "net"
    <3>1. \A c \in Cell : c.y < row[t] => data[c] = NoColor
      BY <1>1, <1>3, <2>1 DEF Blank
    <3>2. \A c \in Cell : c.y \in Nat /\ c.y < Height
      BY CellFacts
    <3>3. \A c \in Cell : c.y <= row[t] => data'[c] = NoColor
      BY <1>4, <1>7, <3>1, <3>2
    <3>4. CASE row[t] = Height - 1
      <4>1. \A c \in Cell : data'[c] = NoColor
        BY <1>7, <3>2, <3>3, <3>4
      <4> QED
        BY <1>3, <2>1, <3>4, <4>1 DEF Blank
    <3>5. CASE row[t] # Height - 1
      <4>1. \A c \in Cell : c.y < row'[t] => data'[c] = NoColor
        BY <1>5, <1>7, <3>2, <3>3, <3>5
      <4> QED
        BY <1>3, <2>1, <3>5, <4>1 DEF Blank
    <3> QED
      BY <3>4, <3>5
  <2>2. CASE t = "win"
    <3>1. pc'["net"] = pc["net"] /\ row'["net"] = row["net"]
      BY <1>3, <1>5, <2>2 DEF Thread
    <3>2. \A c \in Cell : data[c] = NoColor => data'[c] = NoColor
      BY <1>4
    <3> QED
      BY <1>1, <3>1, <3>2 DEF Blank
  <2> QED
    BY <2>1, <2>2
<1>13. Widens'
  BY <1>1, <1>3, <1>4, <1>6 DEF Widens, Widening
<1>14. Uploads'
  <2>1. row'["render"] = row["render"]
    BY <1>5 DEF Thread
  <2> QED
    BY <1>1, <1>3, <1>4, <1>9, <2>1 DEF Uploads
<1>15. Remembered'
  BY <1>8 DEF Remembered
<1>16. Partial'
  <2>1. Partly => ~Fully
    BY DEF Partly, Fully
  <2> QED
    BY <1>1, <1>6, <1>8, <1>9, <2>1 DEF Partial
<1>17. Full'
  BY <1>6, <1>9 DEF Full
<1>18. Tidy'
  <2>1. \A c \in Cell : Waits(c) => Waits(c)'
    BY <1>3, <1>4 DEF Waits, Pending, Widening
  <2>2. history.touched \subseteq Cell
    BY <1>1 DEF Types, HistoryOK
  <2> QED
    BY <1>1, <1>3, <1>4, <1>6, <2>1, <2>2, QuietTidy
<1> QED
  BY <1>2, <1>10, <1>11, <1>12, <1>13, <1>14, <1>15, <1>16, <1>17, <1>18 DEF IInv, Places

LEMMA AnnounceKeeps ==
  ASSUME MinimapAssumption, IInv, Announce
  PROVE  IInv'
<1>1. Types /\ Places /\ Rows /\ Painting /\ Uploads /\ Blank /\ Widens /\ Remembered /\ Partial /\ Full /\ Tidy
  BY DEF IInv, Places
<1>2. Types'
  BY <1>1, AnnounceTypes
<1>3. /\ pc["net"] = "tiles" /\ pc'["net"] = "objects" /\ pc'["win"] = pc["win"] /\ pc'["render"] = pc["render"]
      /\ net'.phase = "objects" /\ net'.side = net.side
  <2>1. pc["net"] = "tiles" /\ pc'["net"] = "objects" /\ pc'["win"] = pc["win"] /\ pc'["render"] = pc["render"]
    BY <1>1, NetGoes DEF Announce, Types, NetLabel
  <2>2. net'.phase = "objects" /\ net'.side = net.side
    BY <1>1 DEF Announce, Types, NetOK
  <2> QED
    BY <2>1, <2>2
<1>4. /\ UNCHANGED <<data, texture, rect, row, upload>>
      /\ history'.touched = {} /\ history'.late = history.late /\ history'.lost = history.lost
      /\ history'.overlapped = history.overlapped /\ (history.blank => history'.blank)
      /\ net.tiles > 0 /\ history.touched = {} => history'.blank
  BY <1>1 DEF Announce, Types, HistoryOK
<1>5. flags'.force = flags.force /\ (flags'.need <=> net.tiles > 0)
  BY <1>1 DEF Announce, Types
<1>6. Rows'
  BY <1>1, <1>3, <1>4 DEF Rows
<1>7. Painting'
  BY <1>1, <1>3 DEF Painting, Widening
<1>8. Blank'
  BY <1>3 DEF Blank
<1>9. Widens'
  BY <1>3 DEF Widens, Widening
<1>10. \A c \in Cell : Waits(c) => Covers(rect, c)
  BY <1>3 DEF Waits, Pending, Widening
<1>11. Uploads' /\ Remembered' /\ Partial' /\ Full'
  <2>1. \A c \in Cell : Waits(c) => Waits(c)'
    BY <1>4, <1>10 DEF Waits
  <2>2. Asked => Asked'
    BY <1>3, <1>5 DEF Asked, Clearing
  <2>3. history'.touched \subseteq history.touched
    BY <1>4
  <2> QED
    BY <1>1, <1>2, <1>3, <1>4, <1>5, <2>1, <2>2, <2>3, QuietKeeps
<1>12. Tidy'
  <2> SUFFICES ASSUME ~history'.overlapped, ~history'.blank
               PROVE  /\ pc'["render"] # "panic"
                      /\ Partly' => history'.touched = {}
                      /\ \A c \in history'.touched : Waits(c)'
                      /\ pc'["render"] \in {"frame", "force?", "read", "measure", "copy", "unset need", "unset force"} /\ flags'.need
                           => \E c \in Cell : Covers(rect', c)
                      /\ pc'["render"] \in {"read", "measure"} => \E c \in Cell : Covers(rect', c) /\ Read(c)'
                      /\ pc'["render"] = "reset" => ~flags'.need
    BY DEF Tidy
  <2>1. /\ pc["render"] # "panic"
        /\ Partly => history.touched = {}
        /\ \A c \in history.touched : Waits(c)
        /\ pc["render"] \in {"read", "measure"} => \E c \in Cell : Covers(rect, c) /\ Read(c)
    BY <1>1, <1>4 DEF Tidy
  <2>2. flags'.need => history.touched # {}
    BY <1>4, <1>5
  <2>3. flags'.need => \E c \in Cell : Covers(rect', c)
    <3>1. history.touched \subseteq Cell
      BY <1>1 DEF Types, HistoryOK
    <3> QED
      BY <1>4, <1>10, <2>1, <2>2, <3>1
  <2>4. pc'["render"] \in {"read", "measure"} => \E c \in Cell : Covers(rect', c) /\ Read(c)'
    <3>1. \A c \in Cell : Read(c)' <=> Read(c)
      BY <1>3, <1>4 DEF Read
    <3> QED
      BY <1>3, <1>4, <2>1, <3>1
  <2>5. pc'["render"] = "reset" => ~flags'.need
    <3>1. pc["render"] = "reset" => Partly
      BY <1>1 DEF Uploads, Partly, Uploading
    <3> QED
      BY <1>3, <2>1, <2>2, <3>1
  <2> QED
    BY <1>3, <1>4, <2>1, <2>3, <2>4, <2>5
<1> QED
  BY <1>2, <1>6, <1>7, <1>8, <1>9, <1>11, <1>12 DEF IInv, Places

LEMMA PaintKeeps ==
  ASSUME MinimapAssumption, IInv, NEW c \in Cell, net.left > 0, pc["net"] \in {"tiles", "objects"}, Paint(c)
  PROVE  IInv'
<1>1. Types /\ Places /\ Rows /\ Painting /\ Uploads /\ Blank /\ Widens /\ Remembered /\ Partial /\ Full /\ Tidy
  BY DEF IInv, Places
<1>2. Types'
  BY <1>1, PaintTypes
<1>3. /\ pc'["net"] = "load" /\ pc'["win"] = pc["win"] /\ pc'["render"] = pc["render"]
      /\ net'.phase = net.phase /\ net'.side = net.side /\ net'.cell = c
  <2>1. pc'["net"] = "load" /\ pc'["win"] = pc["win"] /\ pc'["render"] = pc["render"]
    BY <1>1, PaintPc DEF Types
  <2>2. net'.phase = net.phase /\ net'.side = net.side /\ net'.cell = c
    BY <1>1 DEF Paint, Types, NetOK
  <2> QED
    BY <2>1, <2>2
<1>4. /\ UNCHANGED <<texture, flags, rect, row, upload, done>>
      /\ history'.touched = history.touched \cup {c} /\ history'.lost = history.lost
      /\ history'.late = (IF Partly THEN history.late \cup {c} ELSE history.late)
      /\ (history.overlapped \/ Partly => history'.overlapped) /\ history'.blank = history.blank
  BY <1>1 DEF Paint, Types, HistoryOK
<1>5. \A b \in Cell : b # c => data'[b] = data[b]
  BY <1>1 DEF Paint, Types, Image
<1>6. /\ Partly' <=> Partly
      /\ Fully' <=> Fully
      /\ Live' <=> Live
      /\ BeforeWrite' <=> BeforeWrite
  BY <1>3, <1>4 DEF Partly, Fully, Uploading, Live, BeforeWrite
<1>7. Asked' <=> Asked
  BY <1>3, <1>4 DEF Asked, Clearing
<1>8. net.side = 1
  BY <1>1 DEF Painting, Widening
<1>9. Waits(c)'
  <2>1. Pending(c)'
    BY <1>3, <1>8 DEF Pending, Widening
  <2> QED
    BY <2>1 DEF Waits
<1>10. \A b \in Cell : (Waits(b) => Covers(rect, b)) /\ (Waits(b) => Waits(b)')
  BY <1>4 DEF Waits, Pending, Widening
<1>11. Rows'
  BY <1>1, <1>3, <1>4 DEF Rows
<1>12. Painting'
  BY <1>1, <1>3 DEF Painting, Widening
<1>13. Blank'
  BY <1>3 DEF Blank
<1>14. Widens'
  BY <1>3, <1>4 DEF Widens, Widening
<1>15. Uploads'
  BY <1>1, <1>3, <1>4, <1>6 DEF Uploads
<1>16. \A b \in Cell : (b # c => (Stale(b)' <=> Stale(b))) /\ (Read(b)' <=> Read(b))
  BY <1>3, <1>4, <1>5 DEF Stale, Read
<1>17. Remembered'
  BY <1>1, <1>4, <1>6, <1>7, <1>9, <1>10, <1>16 DEF Remembered
<1>18. Partial'
  <2> SUFFICES ASSUME Partly, Live
               PROVE  /\ history'.touched \subseteq history'.late
                      /\ ~Asked' => \A b \in Cell \ history'.late :
                           /\ pc'["render"] \in {"read", "measure", "copy"} /\ Stale(b)' => b \in history'.lost \/ Read(b)'
                           /\ pc'["render"] = "copy" /\ b \in Written' /\ b.y < row'["render"] => upload'.copy[b] = data'[b]
                           /\ pc'["render"] \in {"unset need", "reset"} /\ Stale(b)' => b \in history'.lost \ Written'
    BY <1>6 DEF Partial
  <2>1. Written' = Written
    BY <1>4 DEF Written
  <2>2. \A b \in Cell \ history'.late : b # c /\ b \in Cell \ history.late
    BY <1>4
  <2>3. history'.touched \subseteq history'.late
    BY <1>1, <1>4 DEF Partial
  <2>4. ~Asked => \A b \in Cell \ history.late :
                           /\ pc["render"] \in {"read", "measure", "copy"} /\ Stale(b) => b \in history.lost \/ Read(b)
                           /\ pc["render"] = "copy" /\ b \in Written /\ b.y < row["render"] => upload.copy[b] = data[b]
                           /\ pc["render"] \in {"unset need", "reset"} /\ Stale(b) => b \in history.lost \ Written
    BY <1>1 DEF Partial
  <2> QED
    BY <1>3, <1>4, <1>5, <1>7, <1>16, <2>1, <2>2, <2>3, <2>4
<1>19. Full'
  <2>1. history'.late = history.late \/ ~Fully
    BY <1>4 DEF Partly, Fully
  <2> QED
    BY <1>1, <1>3, <1>4, <1>5, <1>6, <1>9, <1>10, <1>16, <2>1 DEF Full
<1>20. Tidy'
  <2> SUFFICES ASSUME ~history'.overlapped, ~history'.blank
               PROVE  /\ pc'["render"] # "panic"
                      /\ Partly' => history'.touched = {}
                      /\ \A b \in history'.touched : Waits(b)'
                      /\ pc'["render"] \in {"frame", "force?", "read", "measure", "copy", "unset need", "unset force"} /\ flags'.need
                           => \E b \in Cell : Covers(rect', b)
                      /\ pc'["render"] \in {"read", "measure"} => \E b \in Cell : Covers(rect', b) /\ Read(b)'
                      /\ pc'["render"] = "reset" => ~flags'.need
    BY DEF Tidy
  <2>1. /\ pc["render"] # "panic"
        /\ \A b \in history.touched : Waits(b)
        /\ pc["render"] \in {"frame", "force?", "read", "measure", "copy", "unset need", "unset force"} /\ flags.need
             => \E b \in Cell : Covers(rect, b)
        /\ pc["render"] \in {"read", "measure"} => \E b \in Cell : Covers(rect, b) /\ Read(b)
        /\ pc["render"] = "reset" => ~flags.need
    BY <1>1, <1>4 DEF Tidy
  <2>2. ~Partly
    BY <1>4
  <2>3. \A b \in history'.touched : Waits(b)'
    <3>1. history.touched \subseteq Cell
      BY <1>1 DEF Types, HistoryOK
    <3> QED
      BY <1>4, <1>9, <1>10, <2>1, <3>1
  <2>4. pc'["render"] \in {"read", "measure"} => \E b \in Cell : Covers(rect', b) /\ Read(b)'
    BY <1>3, <1>4, <1>16, <2>1
  <2> QED
    BY <1>3, <1>4, <1>6, <2>1, <2>2, <2>3, <2>4
<1> QED
  BY <1>2, <1>11, <1>12, <1>13, <1>14, <1>15, <1>17, <1>18, <1>19, <1>20 DEF IInv, Places

-----------------------------------------------------------------------------
(* The render thread. *)

LEMMA FrameNoNeedKeeps ==
  ASSUME MinimapAssumption, IInv, FrameNoNeed
  PROVE  IInv'
<1>1. Types /\ Places /\ Rows /\ Painting /\ Uploads /\ Blank /\ Widens /\ Remembered /\ Partial /\ Full /\ Tidy
  BY DEF IInv, Places
<1>2. Types'
  BY <1>1, FrameNoNeedTypes
<1>3. pc["render"] = "frame" /\ pc'["render"] = "force?" /\ pc'["net"] = pc["net"] /\ pc'["win"] = pc["win"]
  BY <1>1, RenderGoes DEF FrameNoNeed, Types, RenderLabel
<1>4. UNCHANGED <<data, texture, flags, rect, net, row, upload, history>>
  BY DEF FrameNoNeed
<1>5. Rows' /\ Painting' /\ Blank' /\ Widens'
  BY <1>1, <1>2, <1>3, <1>4, RenderRests
<1>6. Asked' <=> Asked
  BY <1>3, <1>4 DEF Asked, Clearing
<1>7. \A c \in Cell : (Waits(c)' <=> Waits(c)) /\ (Pending(c)' <=> Pending(c))
  BY <1>3, <1>4 DEF Waits, Pending, Widening
<1>8. Uploads'
  BY <1>3 DEF Uploads, Fully, Uploading
<1>9. Remembered'
  <2>1. \A c \in Cell : Stale(c)' <=> Stale(c)
    BY <1>4 DEF Stale
  <2> QED
    BY <1>1, <1>3, <1>4, <1>6, <1>7, <2>1 DEF Remembered, BeforeWrite
<1>10. Partial'
  BY <1>3 DEF Partial, Partly, Uploading
<1>11. Full'
  BY <1>3 DEF Full, Fully, Uploading
<1>12. Tidy'
  <2> SUFFICES ASSUME ~history'.overlapped, ~history'.blank
               PROVE  /\ pc'["render"] # "panic"
                      /\ Partly' => history'.touched = {}
                      /\ \A c \in history'.touched : Waits(c)'
                      /\ pc'["render"] \in {"frame", "force?", "read", "measure", "copy", "unset need", "unset force"} /\ flags'.need
                           => \E c \in Cell : Covers(rect', c)
                      /\ pc'["render"] \in {"read", "measure"} => \E c \in Cell : Covers(rect', c) /\ Read(c)'
                      /\ pc'["render"] = "reset" => ~flags'.need
    BY DEF Tidy
  <2>1. /\ pc["render"] # "panic"
        /\ Partly => history.touched = {}
        /\ \A c \in history.touched : Waits(c)
        /\ pc["render"] \in {"frame", "force?", "read", "measure", "copy", "unset need", "unset force"} /\ flags.need
             => \E c \in Cell : Covers(rect, c)
        /\ pc["render"] \in {"read", "measure"} => \E c \in Cell : Covers(rect, c) /\ Read(c)
        /\ pc["render"] = "reset" => ~flags.need
    BY <1>1, <1>4 DEF Tidy
  <2>2. history.touched \subseteq Cell
    BY <1>1 DEF Types, HistoryOK
  <2> QED
    BY <1>3, <1>4, <1>7, <2>1, <2>2 DEF Partly, Uploading
<1> QED
  BY <1>2, <1>5, <1>8, <1>9, <1>10, <1>11, <1>12 DEF IInv, Places

LEMMA FrameNothingKeeps ==
  ASSUME MinimapAssumption, IInv, FrameNothing
  PROVE  IInv'
<1>1. Types /\ Places /\ Rows /\ Painting /\ Uploads /\ Blank /\ Widens /\ Remembered /\ Partial /\ Full /\ Tidy
  BY DEF IInv, Places
<1>2. Types'
  BY <1>1, FrameNothingTypes
<1>3. pc["render"] = "force?" /\ pc'["render"] = "frame" /\ pc'["net"] = pc["net"] /\ pc'["win"] = pc["win"]
  BY <1>1, RenderGoes DEF FrameNothing, Types, RenderLabel
<1>4. UNCHANGED <<data, texture, flags, rect, net, row, upload, history>>
  BY DEF FrameNothing
<1>5. Rows' /\ Painting' /\ Blank' /\ Widens'
  BY <1>1, <1>2, <1>3, <1>4, RenderRests
<1>6. Asked' <=> Asked
  BY <1>3, <1>4 DEF Asked, Clearing
<1>7. \A c \in Cell : (Waits(c)' <=> Waits(c)) /\ (Pending(c)' <=> Pending(c))
  BY <1>3, <1>4 DEF Waits, Pending, Widening
<1>8. Uploads'
  BY <1>3 DEF Uploads, Fully, Uploading
<1>9. Remembered'
  <2>1. \A c \in Cell : Stale(c)' <=> Stale(c)
    BY <1>4 DEF Stale
  <2> QED
    BY <1>1, <1>3, <1>4, <1>6, <1>7, <2>1 DEF Remembered, BeforeWrite
<1>10. Partial'
  BY <1>3 DEF Partial, Partly, Uploading
<1>11. Full'
  BY <1>3 DEF Full, Fully, Uploading
<1>12. Tidy'
  <2> SUFFICES ASSUME ~history'.overlapped, ~history'.blank
               PROVE  /\ pc'["render"] # "panic"
                      /\ Partly' => history'.touched = {}
                      /\ \A c \in history'.touched : Waits(c)'
                      /\ pc'["render"] \in {"frame", "force?", "read", "measure", "copy", "unset need", "unset force"} /\ flags'.need
                           => \E c \in Cell : Covers(rect', c)
                      /\ pc'["render"] \in {"read", "measure"} => \E c \in Cell : Covers(rect', c) /\ Read(c)'
                      /\ pc'["render"] = "reset" => ~flags'.need
    BY DEF Tidy
  <2>1. /\ pc["render"] # "panic"
        /\ Partly => history.touched = {}
        /\ \A c \in history.touched : Waits(c)
        /\ pc["render"] \in {"frame", "force?", "read", "measure", "copy", "unset need", "unset force"} /\ flags.need
             => \E c \in Cell : Covers(rect, c)
        /\ pc["render"] \in {"read", "measure"} => \E c \in Cell : Covers(rect, c) /\ Read(c)
        /\ pc["render"] = "reset" => ~flags.need
    BY <1>1, <1>4 DEF Tidy
  <2>2. history.touched \subseteq Cell
    BY <1>1 DEF Types, HistoryOK
  <2> QED
    BY <1>3, <1>4, <1>7, <2>1, <2>2 DEF Partly, Uploading
<1> QED
  BY <1>2, <1>5, <1>8, <1>9, <1>10, <1>11, <1>12 DEF IInv, Places

LEMMA FrameNeedKeeps ==
  ASSUME MinimapAssumption, IInv, FrameNeed
  PROVE  IInv'
<1>1. Types /\ Places /\ Rows /\ Painting /\ Uploads /\ Blank /\ Widens /\ Remembered /\ Partial /\ Full /\ Tidy
  BY DEF IInv, Places
<1>2. Types'
  BY <1>1, FrameNeedTypes
<1>3. pc["render"] = "frame" /\ pc'["render"] = "read" /\ pc'["net"] = pc["net"] /\ pc'["win"] = pc["win"] /\ flags.need
  BY <1>1, RenderGoes DEF FrameNeed, Types, RenderLabel
<1>4. /\ UNCHANGED <<data, texture, flags, rect, net, done>>
      /\ row' = [row EXCEPT !["render"] = 0] /\ row'["net"] = row["net"] /\ row'["win"] = row["win"]
      /\ upload' = [upload EXCEPT !.of = "need", !.area = Empty, !.side = 1]
      /\ upload'.of = "need" /\ upload'.side = 1
      /\ history'.touched = history.touched /\ history'.lost = history.lost /\ history'.late = history.touched
      /\ history'.blank = history.blank
      /\ (history.overlapped \/ history.touched # {} => history'.overlapped)
  <2>1. /\ UNCHANGED <<data, texture, flags, rect, net, done>>
        /\ row' = [row EXCEPT !["render"] = 0]
        /\ upload' = [upload EXCEPT !.of = "need", !.area = Empty, !.side = 1]
        /\ history' = [history EXCEPT !.late = history.touched, !.overlapped = history.overlapped \/ history.touched # {}]
    BY <1>1 DEF FrameNeed, Begin, Types, HistoryOK
  <2>2. row'["net"] = row["net"] /\ row'["win"] = row["win"]
    BY <1>1, <2>1 DEF Types, Thread
  <2>3. upload'.of = "need" /\ upload'.side = 1
    BY <1>1, <2>1 DEF Types, UploadOK
  <2>4. /\ history'.touched = history.touched /\ history'.lost = history.lost /\ history'.late = history.touched
        /\ history'.blank = history.blank
        /\ (history.overlapped \/ history.touched # {} => history'.overlapped)
    BY <1>1, <2>1 DEF Types, HistoryOK
  <2> QED
    BY <2>1, <2>2, <2>3, <2>4
<1>5. Rows' /\ Painting' /\ Blank' /\ Widens'
  BY <1>1, <1>2, <1>3, <1>4, RenderRests
<1>6. Asked' <=> Asked
  BY <1>3, <1>4 DEF Asked, Clearing
<1>7. \A c \in Cell : (Waits(c)' <=> Waits(c)) /\ (Pending(c)' <=> Pending(c))
  BY <1>3, <1>4 DEF Waits, Pending, Widening
<1>8. Uploads'
  BY <1>3, <1>4 DEF Uploads, Fully, Uploading
<1>9. Remembered'
  <2>1. \A c \in Cell : Stale(c)' <=> Stale(c)
    BY <1>4 DEF Stale
  <2> QED
    BY <1>1, <1>3, <1>4, <1>6, <1>7, <2>1 DEF Remembered, BeforeWrite
<1>10. Partial'
  <2>1. history'.touched \subseteq history'.late
    BY <1>4
  <2>2. \A c \in Cell : Read(c)'
    BY <1>3, <1>4 DEF Read
  <2> QED
    BY <1>3, <2>1, <2>2 DEF Partial
<1>11. Full'
  BY <1>4 DEF Full, Fully
<1>12. Tidy'
  <2> SUFFICES ASSUME ~history'.overlapped, ~history'.blank
               PROVE  /\ pc'["render"] # "panic"
                      /\ Partly' => history'.touched = {}
                      /\ \A c \in history'.touched : Waits(c)'
                      /\ pc'["render"] \in {"frame", "force?", "read", "measure", "copy", "unset need", "unset force"} /\ flags'.need
                           => \E c \in Cell : Covers(rect', c)
                      /\ pc'["render"] \in {"read", "measure"} => \E c \in Cell : Covers(rect', c) /\ Read(c)'
                      /\ pc'["render"] = "reset" => ~flags'.need
    BY DEF Tidy
  <2>1. /\ pc["render"] # "panic"
        /\ Partly => history.touched = {}
        /\ \A c \in history.touched : Waits(c)
        /\ pc["render"] \in {"frame", "force?", "read", "measure", "copy", "unset need", "unset force"} /\ flags.need
             => \E c \in Cell : Covers(rect, c)
        /\ pc["render"] \in {"read", "measure"} => \E c \in Cell : Covers(rect, c) /\ Read(c)
        /\ pc["render"] = "reset" => ~flags.need
    BY <1>1, <1>4 DEF Tidy
  <2>2. \A c \in Cell : Read(c)'
    BY <1>3, <1>4 DEF Read
  <2> QED
    BY <1>3, <1>4, <1>7, <2>1, <2>2
<1> QED
  BY <1>2, <1>5, <1>8, <1>9, <1>10, <1>11, <1>12 DEF IInv, Places

LEMMA FrameForceKeeps ==
  ASSUME MinimapAssumption, IInv, FrameForce
  PROVE  IInv'
<1>1. Types /\ Places /\ Rows /\ Painting /\ Uploads /\ Blank /\ Widens /\ Remembered /\ Partial /\ Full /\ Tidy
  BY DEF IInv, Places
<1>2. Types'
  BY <1>1, FrameForceTypes
<1>3. pc["render"] = "force?" /\ pc'["render"] = "copy" /\ pc'["net"] = pc["net"] /\ pc'["win"] = pc["win"] /\ flags.force
  BY <1>1, RenderGoes DEF FrameForce, Types, RenderLabel
<1>4. /\ UNCHANGED <<data, texture, flags, rect, net, done>>
      /\ row'["net"] = row["net"] /\ row'["win"] = row["win"] /\ row'["render"] = 0
      /\ upload'.of = "force" /\ upload'.side = 1 /\ upload'.area = Whole
      /\ history'.touched = history.touched /\ history'.lost = history.lost
      /\ history'.blank = history.blank /\ (history.overlapped => history'.overlapped)
  <2> DEFINE way == IF \E t \in {"net", "win"} : Clearing(t) THEN Cell ELSE {}
  <2>1. /\ UNCHANGED <<data, texture, flags, rect, net, done>>
        /\ row' = [row EXCEPT !["render"] = 0]
        /\ upload' = [upload EXCEPT !.of = "force", !.area = Whole, !.side = 1]
        /\ history' = [history EXCEPT !.late = way, !.overlapped = history.overlapped \/ way # {}]
    BY <1>1 DEF FrameForce, Begin, Types, HistoryOK
  <2> HIDE DEF way
  <2>2. row'["net"] = row["net"] /\ row'["win"] = row["win"] /\ row'["render"] = 0
    BY <1>1, <2>1 DEF Types, Thread
  <2>3. upload'.of = "force" /\ upload'.side = 1 /\ upload'.area = Whole
    BY <1>1, <2>1 DEF Types, UploadOK
  <2>4. /\ history'.touched = history.touched /\ history'.lost = history.lost
        /\ history'.blank = history.blank /\ (history.overlapped => history'.overlapped)
    BY <1>1, <2>1 DEF Types, HistoryOK
  <2> QED
    BY <2>1, <2>2, <2>3, <2>4
<1>5. Rows' /\ Painting' /\ Blank' /\ Widens'
  BY <1>1, <1>2, <1>3, <1>4, RenderRests
<1>6. Asked' <=> Asked
  BY <1>3, <1>4 DEF Asked, Clearing
<1>7. \A c \in Cell : (Waits(c)' <=> Waits(c)) /\ (Pending(c)' <=> Pending(c))
  BY <1>3, <1>4 DEF Waits, Pending, Widening
<1>8. Uploads'
  <2>1. Whole.min_y = 0 /\ Whole.max_y = Height /\ 0 \in 0..Height
    BY Bounds DEF Whole
  <2> QED
    BY <1>3, <1>4, <2>1 DEF Uploads
<1>9. Remembered'
  BY <1>3, <1>4 DEF Remembered, BeforeWrite, Partly
<1>10. Partial'
  BY <1>4 DEF Partial, Partly
<1>11. Full'
  <2>1. \A c \in Cell : ~(c.y < row'["render"])
    BY <1>4, CellFacts
  <2> QED
    BY <1>3, <2>1 DEF Full
<1>12. Tidy'
  <2> SUFFICES ASSUME ~history'.overlapped, ~history'.blank
               PROVE  /\ pc'["render"] # "panic"
                      /\ Partly' => history'.touched = {}
                      /\ \A c \in history'.touched : Waits(c)'
                      /\ pc'["render"] \in {"frame", "force?", "read", "measure", "copy", "unset need", "unset force"} /\ flags'.need
                           => \E c \in Cell : Covers(rect', c)
                      /\ pc'["render"] \in {"read", "measure"} => \E c \in Cell : Covers(rect', c) /\ Read(c)'
                      /\ pc'["render"] = "reset" => ~flags'.need
    BY DEF Tidy
  <2>1. /\ pc["render"] # "panic"
        /\ Partly => history.touched = {}
        /\ \A c \in history.touched : Waits(c)
        /\ pc["render"] \in {"frame", "force?", "read", "measure", "copy", "unset need", "unset force"} /\ flags.need
             => \E c \in Cell : Covers(rect, c)
        /\ pc["render"] \in {"read", "measure"} => \E c \in Cell : Covers(rect, c) /\ Read(c)
        /\ pc["render"] = "reset" => ~flags.need
    BY <1>1, <1>4 DEF Tidy
  <2>2. history.touched \subseteq Cell
    BY <1>1 DEF Types, HistoryOK
  <2> QED
    BY <1>3, <1>4, <1>7, <2>1, <2>2 DEF Partly
<1> QED
  BY <1>2, <1>5, <1>8, <1>9, <1>10, <1>11, <1>12 DEF IInv, Places

LEMMA ReadSideKeeps ==
  ASSUME MinimapAssumption, IInv, ReadSide
  PROVE  IInv'
<1>1. Types /\ Places /\ Rows /\ Painting /\ Uploads /\ Blank /\ Widens /\ Remembered /\ Partial /\ Full /\ Tidy
  BY DEF IInv, Places
<1>2. Types'
  BY <1>1, ReadSideTypes
<1>3. /\ pc["render"] = "read" /\ pc'["net"] = pc["net"] /\ pc'["win"] = pc["win"]
      /\ pc'["render"] = IF upload.side = 4 THEN "measure" ELSE "read"
  BY <1>1, ReadSidePc DEF Types, ReadSide
<1>4. UNCHANGED <<data, texture, flags, rect, net, row, history>>
  BY DEF ReadSide
<1>5. Rows' /\ Painting' /\ Blank' /\ Widens'
  BY <1>1, <1>2, <1>3, <1>4, RenderRests
<1>6. Asked' <=> Asked
  BY <1>3, <1>4 DEF Asked, Clearing
<1>7. \A c \in Cell : (Waits(c)' <=> Waits(c)) /\ (Pending(c)' <=> Pending(c))
  BY <1>3, <1>4 DEF Waits, Pending, Widening
<1>8. \A c \in Cell : Covers(rect, c) /\ Read(c) => Read(c)'
  <2> SUFFICES ASSUME NEW c \in Cell, Covers(rect, c), Read(c) PROVE Read(c)'
    OBVIOUS
  <2> DEFINE a == upload.area
             b == upload'.area
             k == upload.side
  <2>1. /\ b.min_x = IF k = 1 THEN rect.min_x ELSE a.min_x
        /\ b.max_x = IF k = 2 THEN rect.max_x + 1 ELSE a.max_x
        /\ b.min_y = IF k = 3 THEN rect.min_y ELSE a.min_y
        /\ b.max_y = IF k = 4 THEN rect.max_y + 1 ELSE a.max_y
    BY <1>1, ReadArea
  <2>2. k \in 1..4 /\ upload'.side = IF k = 4 THEN 1 ELSE k + 1
    BY <1>1, ReadArea DEF Types, UploadOK
  <2>3. /\ k > 1 => a.min_x <= c.x
        /\ k > 2 => c.x < a.max_x
        /\ k > 3 => a.min_y <= c.y
    BY <1>3 DEF Read
  <2>4. rect.min_x <= c.x /\ c.x < rect.max_x + 1 /\ rect.min_y <= c.y /\ c.y < rect.max_y + 1
    <3>1. rect.max_x \in Nat /\ rect.max_y \in Nat
      BY <1>1, Bounds DEF Types, Rectangle
    <3>2. c.x \in Nat /\ c.y \in Nat
      BY CellFacts
    <3> QED
      BY <3>1, <3>2 DEF Covers
  <2> HIDE DEF a, b
  <2>5. /\ k >= 1 => b.min_x <= c.x
        /\ k >= 2 => c.x < b.max_x
        /\ k >= 3 => b.min_y <= c.y
        /\ k >= 4 => c.y < b.max_y
    BY <2>1, <2>2, <2>3, <2>4
  <2>6. CASE k = 4
    <3>1. pc'["render"] = "measure"
      BY <1>3, <2>6
    <3> QED
      BY <2>5, <2>6, <3>1 DEF Read, b
  <2>7. CASE k # 4
    <3>1. pc'["render"] = "read" /\ upload'.side = k + 1
      BY <1>3, <2>2, <2>7
    <3> QED
      BY <2>2, <2>5, <2>7, <3>1 DEF Read, b
  <2> QED
    BY <2>6, <2>7
<1>9. Uploads'
  <2>1. upload'.of = "need" /\ (upload.side = 4 => upload'.side = 1)
    BY <1>1, <1>3, ReadArea DEF Uploads
  <2>2. ~Fully'
    BY <2>1 DEF Fully
  <2> QED
    BY <1>3, <2>1, <2>2 DEF Uploads
<1>10. Remembered'
  <2>1. \A c \in Cell : Stale(c)' <=> Stale(c)
    BY <1>4 DEF Stale
  <2> QED
    BY <1>1, <1>3, <1>4, <1>6, <1>7, <2>1 DEF Remembered, BeforeWrite
<1>11. Partial'
  <2>1. Partly /\ Live
    BY <1>1, <1>3 DEF Uploads, Partly, Uploading, Live
  <2>2. /\ history.touched \subseteq history.late
        /\ ~Asked => \A c \in Cell \ history.late :
             /\ pc["render"] \in {"read", "measure", "copy"} /\ Stale(c) => c \in history.lost \/ Read(c)
             /\ pc["render"] = "copy" /\ c \in Written /\ c.y < row["render"] => upload.copy[c] = data[c]
             /\ pc["render"] \in {"unset need", "reset"} /\ Stale(c) => c \in history.lost \ Written
    BY <1>1, <2>1 DEF Partial
  <2>3. \A c \in Cell : Stale(c)' <=> Stale(c)
    BY <1>4 DEF Stale
  <2>4. ASSUME ~Asked, NEW c \in Cell \ history.late, Stale(c) PROVE c \in history.lost \/ Read(c)'
    <3>1. c \in history.lost \/ Waits(c)
      BY <1>1, <1>3, <2>4 DEF Remembered, BeforeWrite
    <3>2. ~Pending(c)
      BY <1>1, <2>2, <2>4 DEF Pending, Widens
    <3>3. c \in history.lost \/ Read(c)
      BY <1>3, <2>2, <2>4
    <3> QED
      BY <1>8, <3>1, <3>2, <3>3 DEF Waits
  <2> QED
    BY <1>3, <1>4, <1>6, <2>2, <2>3, <2>4 DEF Partial
<1>12. Full'
  <2>1. upload'.of = "need"
    BY <1>1, <1>3, ReadArea DEF Uploads
  <2> QED
    BY <2>1 DEF Full, Fully
<1>13. Tidy'
  <2> SUFFICES ASSUME ~history'.overlapped, ~history'.blank
               PROVE  /\ pc'["render"] # "panic"
                      /\ Partly' => history'.touched = {}
                      /\ \A c \in history'.touched : Waits(c)'
                      /\ pc'["render"] \in {"frame", "force?", "read", "measure", "copy", "unset need", "unset force"} /\ flags'.need
                           => \E c \in Cell : Covers(rect', c)
                      /\ pc'["render"] \in {"read", "measure"} => \E c \in Cell : Covers(rect', c) /\ Read(c)'
                      /\ pc'["render"] = "reset" => ~flags'.need
    BY DEF Tidy
  <2>1. /\ pc["render"] # "panic"
        /\ Partly => history.touched = {}
        /\ \A c \in history.touched : Waits(c)
        /\ pc["render"] \in {"frame", "force?", "read", "measure", "copy", "unset need", "unset force"} /\ flags.need
             => \E c \in Cell : Covers(rect, c)
        /\ pc["render"] \in {"read", "measure"} => \E c \in Cell : Covers(rect, c) /\ Read(c)
        /\ pc["render"] = "reset" => ~flags.need
    BY <1>1, <1>4 DEF Tidy
  <2>2. \E c \in Cell : Covers(rect', c) /\ Read(c)'
    BY <1>3, <1>4, <1>8, <2>1
  <2>3. Partly
    BY <1>1, <1>3 DEF Uploads, Partly, Uploading
  <2> QED
    BY <1>3, <1>4, <1>7, <2>1, <2>2, <2>3
<1> QED
  BY <1>2, <1>5, <1>9, <1>10, <1>11, <1>12, <1>13 DEF IInv, Places

LEMMA MeasureKeeps ==
  ASSUME MinimapAssumption, IInv, Measure
  PROVE  IInv'
<1>1. Types /\ Places /\ Rows /\ Painting /\ Uploads /\ Blank /\ Widens /\ Remembered /\ Partial /\ Full /\ Tidy
  BY DEF IInv, Places
<1>2. Types'
  BY <1>1, MeasureTypes
<1>3. /\ pc["render"] = "measure" /\ pc'["net"] = pc["net"] /\ pc'["win"] = pc["win"]
      /\ LET a == upload.area IN
            \/ Underflows(a) /\ pc'["render"] = "panic"
            \/ (a.max_x <= a.min_x \/ a.max_y <= a.min_y) /\ pc'["render"] = "frame"
            \/ a.min_x < a.max_x /\ a.min_y < a.max_y /\ pc'["render"] = "copy"
  BY <1>1, MeasurePc DEF Types, Measure
<1>4. /\ UNCHANGED <<data, texture, flags, rect, net, upload, done, history>>
      /\ row'["net"] = row["net"] /\ row'["win"] = row["win"] /\ row'["render"] = upload.area.min_y
  BY <1>1 DEF Measure, Types, Thread
<1>5. Rows' /\ Painting' /\ Blank' /\ Widens'
  BY <1>1, <1>2, <1>3, <1>4, RenderRests
<1>6. Asked' <=> Asked
  BY <1>3, <1>4 DEF Asked, Clearing
<1>7. \A c \in Cell : (Waits(c)' <=> Waits(c)) /\ (Pending(c)' <=> Pending(c))
  BY <1>3, <1>4 DEF Waits, Pending, Widening
<1>8. Uploads'
  <2>1. upload.of = "need" /\ upload.side = 1
    BY <1>1, <1>3 DEF Uploads
  <2>2. upload.area.min_y \in Nat /\ upload.area.max_y \in Nat
    BY <1>1, Bounds DEF Types, UploadOK, Area
  <2>3. pc'["render"] = "copy" => row'["render"] \in upload'.area.min_y..upload'.area.max_y
    BY <1>3, <1>4, <2>2
  <2> QED
    BY <1>3, <1>4, <2>1, <2>3 DEF Uploads, Fully
<1>9. Remembered'
  <2>1. \A c \in Cell : Stale(c)' <=> Stale(c)
    BY <1>4 DEF Stale
  <2> QED
    BY <1>1, <1>3, <1>4, <1>6, <1>7, <2>1 DEF Remembered, BeforeWrite
<1>10. Partial'
  <2>1. Partly /\ Live
    BY <1>1, <1>3 DEF Uploads, Partly, Uploading, Live
  <2>2. /\ history.touched \subseteq history.late
        /\ ~Asked => \A c \in Cell \ history.late :
             /\ pc["render"] \in {"read", "measure", "copy"} /\ Stale(c) => c \in history.lost \/ Read(c)
             /\ pc["render"] = "copy" /\ c \in Written /\ c.y < row["render"] => upload.copy[c] = data[c]
             /\ pc["render"] \in {"unset need", "reset"} /\ Stale(c) => c \in history.lost \ Written
    BY <1>1, <2>1 DEF Partial
  <2>3. \A c \in Cell : Stale(c)' <=> Stale(c)
    BY <1>4 DEF Stale
  <2>4. CASE pc'["render"] = "copy"
    <3>1. \A c \in Cell : Read(c)' <=> Read(c)
      BY <1>3, <1>4, <2>4 DEF Read
    <3>2. \A c \in Cell : c \in Written' => ~(c.y < row'["render"])
      <4>1. upload.area.min_y \in Nat
        BY <1>1, Bounds DEF Types, UploadOK, Area
      <4> QED
        BY <1>4, <4>1, CellFacts DEF Written
    <3> QED
      BY <1>3, <1>4, <1>6, <2>2, <2>3, <2>4, <3>1, <3>2 DEF Partial
  <2>5. CASE pc'["render"] \in {"panic", "frame"}
    BY <2>5 DEF Partial, Partly, Uploading, Live
  <2> QED
    BY <1>3, <2>4, <2>5
<1>11. Full'
  <2>1. upload.of = "need"
    BY <1>1, <1>3 DEF Uploads
  <2> QED
    BY <1>4, <2>1 DEF Full, Fully
<1>12. Tidy'
  <2> SUFFICES ASSUME ~history'.overlapped, ~history'.blank
               PROVE  /\ pc'["render"] # "panic"
                      /\ Partly' => history'.touched = {}
                      /\ \A c \in history'.touched : Waits(c)'
                      /\ pc'["render"] \in {"frame", "force?", "read", "measure", "copy", "unset need", "unset force"} /\ flags'.need
                           => \E c \in Cell : Covers(rect', c)
                      /\ pc'["render"] \in {"read", "measure"} => \E c \in Cell : Covers(rect', c) /\ Read(c)'
                      /\ pc'["render"] = "reset" => ~flags'.need
    BY DEF Tidy
  <2>1. /\ pc["render"] # "panic"
        /\ Partly => history.touched = {}
        /\ \A c \in history.touched : Waits(c)
        /\ pc["render"] \in {"frame", "force?", "read", "measure", "copy", "unset need", "unset force"} /\ flags.need
             => \E c \in Cell : Covers(rect, c)
        /\ pc["render"] \in {"read", "measure"} => \E c \in Cell : Covers(rect, c) /\ Read(c)
        /\ pc["render"] = "reset" => ~flags.need
    BY <1>1, <1>4 DEF Tidy
  <2>2. PICK c \in Cell : Covers(rect, c) /\ Read(c)
    BY <1>3, <2>1
  <2>3. pc'["render"] = "copy"
    <3> DEFINE a == upload.area
    <3>1. a.min_x \in Nat /\ a.max_x \in Nat /\ a.min_y \in Nat /\ a.max_y \in Nat
      BY <1>1, Bounds DEF Types, UploadOK, Area
    <3>2. c.x \in Nat /\ c.y \in Nat
      BY CellFacts
    <3>3. a.min_x <= c.x /\ c.x < a.max_x /\ a.min_y <= c.y /\ c.y < a.max_y
      BY <1>3, <2>2 DEF Read
    <3>4. a.min_x < a.max_x /\ a.min_y < a.max_y
      <4> HIDE DEF a
      <4> QED
        BY <3>1, <3>2, <3>3
    <3>5. ~Underflows(a) /\ ~(a.max_x <= a.min_x \/ a.max_y <= a.min_y)
      BY <3>1, <3>4 DEF Underflows
    <3> QED
      BY <1>3, <3>5
  <2>4. Partly
    BY <1>1, <1>3 DEF Uploads, Partly, Uploading
  <2> QED
    BY <1>3, <1>4, <2>1, <2>2, <2>3, <2>4
<1> QED
  BY <1>2, <1>5, <1>8, <1>9, <1>10, <1>11, <1>12 DEF IInv, Places

LEMMA CopyRowKeeps ==
  ASSUME MinimapAssumption, IInv, CopyRow
  PROVE  IInv'
<1>1. Types /\ Places /\ Rows /\ Painting /\ Uploads /\ Blank /\ Widens /\ Remembered /\ Partial /\ Full /\ Tidy
  BY DEF IInv, Places
<1>2. Types'
  BY <1>1, CopyRowTypes
<1>3. pc["render"] = "copy" /\ pc' = pc
  BY DEF CopyRow
<1>4. /\ UNCHANGED <<data, texture, flags, rect, net, done, history>>
      /\ row'["net"] = row["net"] /\ row'["win"] = row["win"] /\ row'["render"] = row["render"] + 1
      /\ row["render"] < upload.area.max_y
      /\ upload'.of = upload.of /\ upload'.area = upload.area /\ upload'.side = upload.side
      /\ \A c \in Cell :
           upload'.copy[c] = IF c.y = row["render"] /\ upload.area.min_x <= c.x /\ c.x < upload.area.max_x
                             THEN data[c] ELSE upload.copy[c]
  <2> DEFINE In(c) == c.y = row["render"] /\ upload.area.min_x <= c.x /\ c.x < upload.area.max_x
             copy == [c \in Cell |-> IF In(c) THEN data[c] ELSE upload.copy[c]]
  <2>1. /\ UNCHANGED <<data, texture, flags, rect, net, done, history>>
        /\ row' = [row EXCEPT !["render"] = @ + 1] /\ row["render"] < upload.area.max_y
        /\ upload' = [upload EXCEPT !.copy = copy]
    BY <1>1 DEF CopyRow, Types, UploadOK
  <2>2. row'["net"] = row["net"] /\ row'["win"] = row["win"] /\ row'["render"] = row["render"] + 1
    BY <1>1, <2>1 DEF Types, Thread
  <2> HIDE DEF copy
  <2>3. upload'.of = upload.of /\ upload'.area = upload.area /\ upload'.side = upload.side /\ upload'.copy = copy
    BY <1>1, <2>1 DEF Types, UploadOK
  <2> QED
    BY <2>1, <2>2, <2>3 DEF copy
<1>5. Rows' /\ Painting' /\ Blank' /\ Widens'
  BY <1>1, <1>2, <1>3, <1>4, RenderRests
<1>6. Asked' <=> Asked
  BY <1>3, <1>4 DEF Asked, Clearing
<1>7. \A c \in Cell : (Waits(c)' <=> Waits(c)) /\ (Pending(c)' <=> Pending(c))
  BY <1>3, <1>4 DEF Waits, Pending, Widening
<1>8. Uploads'
  <2>1. /\ row["render"] \in upload.area.min_y..upload.area.max_y
        /\ upload.area.min_y \in Nat /\ upload.area.max_y \in Nat
    BY <1>1, <1>3, Bounds DEF Uploads, Types, UploadOK, Area
  <2>2. row'["render"] \in upload'.area.min_y..upload'.area.max_y
    BY <1>4, <2>1
  <2> QED
    BY <1>1, <1>3, <1>4, <2>2 DEF Uploads, Fully, Uploading, Live
<1>9. Remembered'
  <2>1. \A c \in Cell : Stale(c)' <=> Stale(c)
    BY <1>4 DEF Stale
  <2> QED
    BY <1>1, <1>3, <1>4, <1>6, <1>7, <2>1 DEF Remembered, BeforeWrite, Partly, Uploading
<1>10. Partial'
  <2>1. CASE Partly
    <3>1. Live
      BY <1>3 DEF Live
    <3>2. /\ history.touched \subseteq history.late
          /\ ~Asked => \A c \in Cell \ history.late :
               /\ pc["render"] \in {"read", "measure", "copy"} /\ Stale(c) => c \in history.lost \/ Read(c)
               /\ pc["render"] = "copy" /\ c \in Written /\ c.y < row["render"] => upload.copy[c] = data[c]
               /\ pc["render"] \in {"unset need", "reset"} /\ Stale(c) => c \in history.lost \ Written
      BY <1>1, <2>1, <3>1 DEF Partial
    <3>3. \A c \in Cell : (Stale(c)' <=> Stale(c)) /\ (Read(c)' <=> Read(c))
      BY <1>3, <1>4 DEF Stale, Read
    <3>4. Written' = Written
      BY <1>4 DEF Written
    <3>5. ASSUME ~Asked, NEW c \in Cell \ history.late, c \in Written, c.y < row["render"] + 1
          PROVE  upload'.copy[c] = data[c]
      <4>1. c.y \in Nat /\ row["render"] \in Nat
        BY <1>1, CellFacts DEF Types, Thread
      <4>2. CASE c.y < row["render"]
        BY <1>3, <1>4, <3>2, <3>5, <4>2
      <4>3. CASE c.y = row["render"]
        BY <1>4, <3>5, <4>3 DEF Written
      <4> QED
        BY <3>5, <4>1, <4>2, <4>3
    <3> QED
      BY <1>3, <1>4, <1>6, <3>2, <3>3, <3>4, <3>5 DEF Partial
  <2>2. CASE ~Partly
    <3>1. ~Partly'
      BY <1>3, <1>4, <2>2 DEF Partly, Uploading
    <3> QED
      BY <3>1 DEF Partial
  <2> QED
    BY <2>1, <2>2
<1>11. Full'
  <2>1. CASE Fully
    <3>1. Live /\ upload.area = Whole
      BY <1>1, <1>3, <2>1 DEF Live, Uploads
    <3>2. \A c \in Cell \ history.late : c.y < row["render"] /\ upload.copy[c] # data[c] => Waits(c)
      BY <1>1, <1>3, <2>1, <3>1 DEF Full
    <3>3. ASSUME NEW c \in Cell \ history.late, c.y < row["render"] + 1, upload'.copy[c] # data[c]
          PROVE  Waits(c)
      <4>1. c.y \in Nat /\ c.x \in Nat /\ c.x < Width /\ row["render"] \in Nat
        BY <1>1, CellFacts DEF Types, Thread
      <4>2. CASE c.y < row["render"]
        <5>1. upload'.copy[c] = upload.copy[c]
          BY <1>4, <4>1, <4>2
        <5> QED
          BY <3>2, <3>3, <4>2, <5>1
      <4>3. CASE c.y = row["render"]
        <5>1. upload.area.min_x <= c.x /\ c.x < upload.area.max_x
          BY <3>1, <4>1 DEF Whole
        <5> QED
          BY <1>4, <3>3, <4>3, <5>1
      <4> QED
        BY <3>3, <4>1, <4>2, <4>3
    <3> QED
      BY <1>3, <1>4, <1>7, <3>3 DEF Full
  <2>2. CASE ~Fully
    <3>1. ~Fully'
      BY <1>3, <1>4, <2>2 DEF Fully, Uploading
    <3> QED
      BY <3>1 DEF Full
  <2> QED
    BY <2>1, <2>2
<1>12. Tidy'
  <2> SUFFICES ASSUME ~history'.overlapped, ~history'.blank
               PROVE  /\ pc'["render"] # "panic"
                      /\ Partly' => history'.touched = {}
                      /\ \A c \in history'.touched : Waits(c)'
                      /\ pc'["render"] \in {"frame", "force?", "read", "measure", "copy", "unset need", "unset force"} /\ flags'.need
                           => \E c \in Cell : Covers(rect', c)
                      /\ pc'["render"] \in {"read", "measure"} => \E c \in Cell : Covers(rect', c) /\ Read(c)'
                      /\ pc'["render"] = "reset" => ~flags'.need
    BY DEF Tidy
  <2>1. /\ pc["render"] # "panic"
        /\ Partly => history.touched = {}
        /\ \A c \in history.touched : Waits(c)
        /\ pc["render"] \in {"frame", "force?", "read", "measure", "copy", "unset need", "unset force"} /\ flags.need
             => \E c \in Cell : Covers(rect, c)
        /\ pc["render"] \in {"read", "measure"} => \E c \in Cell : Covers(rect, c) /\ Read(c)
        /\ pc["render"] = "reset" => ~flags.need
    BY <1>1, <1>4 DEF Tidy
  <2>2. history.touched \subseteq Cell
    BY <1>1 DEF Types, HistoryOK
  <2>3. Partly' <=> Partly
    BY <1>3, <1>4 DEF Partly, Uploading
  <2> QED
    BY <1>3, <1>4, <1>7, <2>1, <2>2, <2>3
<1> QED
  BY <1>2, <1>5, <1>8, <1>9, <1>10, <1>11, <1>12 DEF IInv, Places

LEMMA WriteTextureKeeps ==
  ASSUME MinimapAssumption, IInv, WriteTexture
  PROVE  IInv'
<1>1. Types /\ Places /\ Rows /\ Painting /\ Uploads /\ Blank /\ Widens /\ Remembered /\ Partial /\ Full /\ Tidy
  BY DEF IInv, Places
<1>2. Types'
  BY <1>1, WriteTextureTypes
<1>3. /\ pc["render"] = "copy" /\ pc'["net"] = pc["net"] /\ pc'["win"] = pc["win"]
      /\ pc'["render"] = IF upload.of = "need" THEN "unset need" ELSE "unset force"
  BY <1>1, WriteTexturePc DEF Types, WriteTexture
<1>4. /\ UNCHANGED <<data, flags, rect, net, row, upload, done, history>>
      /\ row["render"] = upload.area.max_y
      /\ \A c \in Cell : texture'[c] = IF c \in Written THEN upload.copy[c] ELSE texture[c]
  BY DEF WriteTexture
<1>5. Rows' /\ Painting' /\ Blank' /\ Widens'
  BY <1>1, <1>2, <1>3, <1>4, RenderRests
<1>6. Asked' <=> Asked
  BY <1>3, <1>4 DEF Asked, Clearing
<1>7. \A c \in Cell : (Waits(c)' <=> Waits(c)) /\ (Pending(c)' <=> Pending(c))
  BY <1>3, <1>4 DEF Waits, Pending, Widening
<1>8. Uploads'
  <2>1. upload.of \in {"need", "force"} /\ upload.side = 1
    BY <1>1, <1>3 DEF Types, UploadOK, Uploads
  <2>2. upload.of = "force" => upload.area = Whole /\ flags.force
    BY <1>1, <1>3 DEF Uploads, Fully, Uploading, Live
  <2> QED
    BY <1>3, <1>4, <2>1, <2>2 DEF Uploads, Fully
<1>9. Remembered'
  <2>1. ~BeforeWrite'
    BY <1>3 DEF BeforeWrite
  <2> QED
    BY <2>1 DEF Remembered
<1>10. Partial'
  <2>1. CASE upload.of = "need"
    <3>1. Partly /\ Live /\ pc'["render"] = "unset need"
      BY <1>3, <2>1 DEF Partly, Uploading, Live
    <3>2. /\ history.touched \subseteq history.late
          /\ ~Asked => \A c \in Cell \ history.late :
               /\ pc["render"] \in {"read", "measure", "copy"} /\ Stale(c) => c \in history.lost \/ Read(c)
               /\ pc["render"] = "copy" /\ c \in Written /\ c.y < row["render"] => upload.copy[c] = data[c]
               /\ pc["render"] \in {"unset need", "reset"} /\ Stale(c) => c \in history.lost \ Written
      BY <1>1, <3>1 DEF Partial
    <3>3. ASSUME ~Asked, NEW c \in Cell \ history.late, Stale(c)' PROVE c \in history.lost \ Written
      <4>1. c \notin Written
        <5> SUFFICES ASSUME c \in Written PROVE FALSE
          OBVIOUS
        <5>1. c.y < row["render"]
          BY <1>4 DEF Written
        <5>2. upload.copy[c] = data[c]
          BY <1>3, <3>2, <3>3, <5>1
        <5> QED
          BY <1>4, <3>3, <5>2 DEF Stale
      <4>2. Stale(c)
        BY <1>4, <3>3, <4>1 DEF Stale
      <4>3. ~Read(c)
        <5> SUFFICES ASSUME Read(c) PROVE c \in Written
          BY <4>1
        <5>1. /\ upload.area.min_x <= c.x /\ c.x < upload.area.max_x
              /\ upload.area.min_y <= c.y /\ c.y < upload.area.max_y
          <6>1. pc["render"] # "read"
            BY <1>3
          <6> QED
            BY <6>1 DEF Read
        <5> QED
          BY <5>1 DEF Written
      <4> QED
        BY <1>3, <3>2, <3>3, <4>1, <4>2, <4>3
    <3>4. Written' = Written
      BY <1>4 DEF Written
    <3> QED
      BY <1>4, <1>6, <3>1, <3>2, <3>3, <3>4 DEF Partial
  <2>2. CASE upload.of # "need"
    BY <1>4, <2>2 DEF Partial, Partly
  <2> QED
    BY <2>1, <2>2
<1>11. Full'
  <2>1. CASE Fully
    <3>1. Live /\ upload.area = Whole /\ upload.of = "force"
      BY <1>1, <1>3, <2>1 DEF Live, Uploads, Fully
    <3>2. \A c \in Cell \ history.late : c.y < row["render"] /\ upload.copy[c] # data[c] => Waits(c)
      BY <1>1, <1>3, <2>1, <3>1 DEF Full
    <3>3. \A c \in Cell : c \in Written /\ c.y < row["render"]
      BY <1>4, <3>1, CellFacts DEF Written, Whole
    <3>4. \A c \in Cell \ history.late : Stale(c)' => Waits(c)
      BY <1>4, <3>2, <3>3 DEF Stale
    <3> QED
      BY <1>3, <1>4, <1>7, <3>1, <3>4 DEF Full
  <2>2. CASE ~Fully
    <3>1. ~Fully'
      BY <1>3, <1>4, <2>2 DEF Fully, Uploading
    <3> QED
      BY <3>1 DEF Full
  <2> QED
    BY <2>1, <2>2
<1>12. Tidy'
  <2> SUFFICES ASSUME ~history'.overlapped, ~history'.blank
               PROVE  /\ pc'["render"] # "panic"
                      /\ Partly' => history'.touched = {}
                      /\ \A c \in history'.touched : Waits(c)'
                      /\ pc'["render"] \in {"frame", "force?", "read", "measure", "copy", "unset need", "unset force"} /\ flags'.need
                           => \E c \in Cell : Covers(rect', c)
                      /\ pc'["render"] \in {"read", "measure"} => \E c \in Cell : Covers(rect', c) /\ Read(c)'
                      /\ pc'["render"] = "reset" => ~flags'.need
    BY DEF Tidy
  <2>1. /\ pc["render"] # "panic"
        /\ Partly => history.touched = {}
        /\ \A c \in history.touched : Waits(c)
        /\ pc["render"] \in {"frame", "force?", "read", "measure", "copy", "unset need", "unset force"} /\ flags.need
             => \E c \in Cell : Covers(rect, c)
        /\ pc["render"] \in {"read", "measure"} => \E c \in Cell : Covers(rect, c) /\ Read(c)
        /\ pc["render"] = "reset" => ~flags.need
    BY <1>1, <1>4 DEF Tidy
  <2>2. history.touched \subseteq Cell
    BY <1>1 DEF Types, HistoryOK
  <2>3. Partly' <=> Partly
    BY <1>3, <1>4 DEF Partly, Uploading
  <2> QED
    BY <1>3, <1>4, <1>7, <2>1, <2>2, <2>3
<1> QED
  BY <1>2, <1>5, <1>8, <1>9, <1>10, <1>11, <1>12 DEF IInv, Places

LEMMA UnsetNeedKeeps ==
  ASSUME MinimapAssumption, IInv, UnsetNeed
  PROVE  IInv'
<1>1. Types /\ Places /\ Rows /\ Painting /\ Uploads /\ Blank /\ Widens /\ Remembered /\ Partial /\ Full /\ Tidy
  BY DEF IInv, Places
<1>2. Types'
  BY <1>1, UnsetNeedTypes
<1>3. pc["render"] = "unset need" /\ pc'["render"] = "reset" /\ pc'["net"] = pc["net"] /\ pc'["win"] = pc["win"]
  BY <1>1, RenderGoes DEF UnsetNeed, Types, RenderLabel
<1>4. /\ UNCHANGED <<data, texture, rect, net, row, upload, done, history>>
      /\ flags'.force = flags.force /\ flags'.need = FALSE
  BY <1>1 DEF UnsetNeed, Types
<1>5. Rows' /\ Painting' /\ Blank' /\ Widens'
  BY <1>1, <1>2, <1>3, <1>4, RenderRests
<1>6. Asked' <=> Asked
  BY <1>3, <1>4 DEF Asked, Clearing
<1>7. \A c \in Cell : (Waits(c)' <=> Waits(c)) /\ (Pending(c)' <=> Pending(c))
  BY <1>3, <1>4 DEF Waits, Pending, Widening
<1>8. Uploads'
  <2>1. upload.of = "need"
    BY <1>1, <1>3 DEF Uploads
  <2> QED
    BY <1>3, <1>4, <2>1 DEF Uploads, Fully
<1>9. Remembered'
  BY <1>3 DEF Remembered, BeforeWrite
<1>10. Partial'
  <2>1. Partly /\ Live
    BY <1>1, <1>3 DEF Uploads, Partly, Uploading, Live
  <2>2. /\ history.touched \subseteq history.late
        /\ ~Asked => \A c \in Cell \ history.late :
             /\ pc["render"] \in {"read", "measure", "copy"} /\ Stale(c) => c \in history.lost \/ Read(c)
             /\ pc["render"] = "copy" /\ c \in Written /\ c.y < row["render"] => upload.copy[c] = data[c]
             /\ pc["render"] \in {"unset need", "reset"} /\ Stale(c) => c \in history.lost \ Written
    BY <1>1, <2>1 DEF Partial
  <2>3. \A c \in Cell : Stale(c)' <=> Stale(c)
    BY <1>4 DEF Stale
  <2>4. Written' = Written
    BY <1>4 DEF Written
  <2> QED
    BY <1>3, <1>4, <1>6, <2>2, <2>3, <2>4 DEF Partial
<1>11. Full'
  <2>1. upload.of = "need"
    BY <1>1, <1>3 DEF Uploads
  <2> QED
    BY <1>4, <2>1 DEF Full, Fully
<1>12. Tidy'
  <2> SUFFICES ASSUME ~history'.overlapped, ~history'.blank
               PROVE  /\ pc'["render"] # "panic"
                      /\ Partly' => history'.touched = {}
                      /\ \A c \in history'.touched : Waits(c)'
                      /\ pc'["render"] \in {"frame", "force?", "read", "measure", "copy", "unset need", "unset force"} /\ flags'.need
                           => \E c \in Cell : Covers(rect', c)
                      /\ pc'["render"] \in {"read", "measure"} => \E c \in Cell : Covers(rect', c) /\ Read(c)'
                      /\ pc'["render"] = "reset" => ~flags'.need
    BY DEF Tidy
  <2>1. /\ pc["render"] # "panic"
        /\ Partly => history.touched = {}
        /\ \A c \in history.touched : Waits(c)
        /\ pc["render"] \in {"frame", "force?", "read", "measure", "copy", "unset need", "unset force"} /\ flags.need
             => \E c \in Cell : Covers(rect, c)
        /\ pc["render"] \in {"read", "measure"} => \E c \in Cell : Covers(rect, c) /\ Read(c)
        /\ pc["render"] = "reset" => ~flags.need
    BY <1>1, <1>4 DEF Tidy
  <2>2. history.touched = {}
    <3>1. Partly
      BY <1>1, <1>3 DEF Uploads, Partly, Uploading
    <3> QED
      BY <2>1, <3>1
  <2> QED
    BY <1>3, <1>4, <2>1, <2>2
<1> QED
  BY <1>2, <1>5, <1>8, <1>9, <1>10, <1>11, <1>12 DEF IInv, Places

LEMMA ResetSideKeeps ==
  ASSUME MinimapAssumption, IInv, ResetSide
  PROVE  IInv'
<1>1. Types /\ Places /\ Rows /\ Painting /\ Uploads /\ Blank /\ Widens /\ Remembered /\ Partial /\ Full /\ Tidy
  BY DEF IInv, Places
<1>2. Types'
  BY <1>1, ResetSideTypes
<1>3. /\ pc["render"] = "reset" /\ pc'["net"] = pc["net"] /\ pc'["win"] = pc["win"]
      /\ UNCHANGED <<data, texture, flags, net>> /\ row'["net"] = row["net"] /\ row'["win"] = row["win"]
      /\ history'.touched = history.touched /\ history'.overlapped = history.overlapped
      /\ history'.blank = history.blank
      /\ upload.side = 4 => /\ pc'["render"] = "frame"
                            /\ history'.lost = (history.lost \ Written) \cup history.late
      /\ upload.side # 4 => UNCHANGED <<pc, row, history>> /\ upload' = [upload EXCEPT !.side = upload.side + 1]
  <2>1. pc["render"] = "reset" /\ UNCHANGED <<data, texture, flags, net>>
    BY DEF ResetSide
  <2>2. CASE upload.side = 4
    <3>1. Forget
      BY <2>2 DEF ResetSide
    <3>2. row'["net"] = row["net"] /\ row'["win"] = row["win"]
      BY <1>1, <3>1, ForgetTypes DEF Types, Thread
    <3> QED
      BY <1>1, <2>1, <2>2, <3>1, <3>2, ForgetTypes
  <2>3. CASE upload.side # 4
    BY <2>1, <2>3 DEF ResetSide
  <2> QED
    BY <2>2, <2>3
<1>4. /\ rect'.min_x >= rect.min_x /\ rect'.max_x <= rect.max_x
      /\ rect'.min_y >= rect.min_y /\ rect'.max_y <= rect.max_y
  <2>1. /\ rect.min_x \in Nat /\ rect.max_x \in Nat /\ rect.min_y \in Nat /\ rect.max_y \in Nat
        /\ rect'.min_x \in Nat /\ rect'.max_x \in Nat /\ rect'.min_y \in Nat /\ rect'.max_y \in Nat
    BY <1>1, <1>2, Bounds DEF Types, Rectangle
  <2> QED
    BY <1>1, <2>1, ResetRect
<1>5. Rows' /\ Painting' /\ Blank' /\ Widens'
  BY <1>1, <1>2, <1>3, <1>4, RenderKeeps
<1>6. Asked' <=> Asked
  BY <1>3 DEF Asked, Clearing
<1>7. Partly /\ Live
  BY <1>1, <1>3 DEF Uploads, Partly, Uploading, Live
<1>8. /\ history.touched \subseteq history.late
      /\ ~Asked => \A c \in Cell \ history.late : Stale(c) => c \in history.lost \ Written
  BY <1>1, <1>3, <1>7 DEF Partial
<1>9. \A c \in Cell : Stale(c)' <=> Stale(c)
  BY <1>3 DEF Stale
<1>10. ~history'.overlapped /\ ~history'.blank => history'.touched = {} /\ ~flags'.need
  BY <1>1, <1>3, <1>7 DEF Tidy
<1>11. CASE upload.side = 4
  <2>1. pc'["render"] = "frame" /\ ~Uploading'
    BY <1>3, <1>11 DEF Uploading
  <2>2. Remembered'
    <3>1. ~Asked => \A c \in Cell : Stale(c) => c \in history'.lost
      BY <1>3, <1>8, <1>11
    <3> QED
      BY <1>6, <1>9, <3>1 DEF Remembered
  <2>3. Uploads' /\ Partial' /\ Full'
    BY <2>1 DEF Uploads, Partial, Full, Partly, Fully
  <2>4. Tidy'
    BY <1>10, <2>1 DEF Tidy, Partly
  <2> QED
    BY <1>2, <1>5, <2>2, <2>3, <2>4 DEF IInv, Places
<1>12. CASE upload.side # 4
  <2>1. /\ upload'.of = upload.of /\ upload'.area = upload.area
        /\ pc'["render"] = "reset" /\ history' = history
    BY <1>1, <1>3, <1>12 DEF Types, UploadOK
  <2>2. upload.of = "need"
    BY <1>7 DEF Partly
  <2>3. Remembered'
    BY <2>1 DEF Remembered, BeforeWrite
  <2>4. Uploads' /\ Full'
    BY <2>1, <2>2 DEF Uploads, Full, Fully
  <2>5. Written' = Written
    BY <2>1 DEF Written
  <2>6. Partial'
    BY <1>6, <1>8, <1>9, <2>1, <2>5 DEF Partial
  <2>7. Tidy'
    BY <1>10, <2>1 DEF Tidy
  <2> QED
    BY <1>2, <1>5, <2>3, <2>4, <2>6, <2>7 DEF IInv, Places
<1> QED
  BY <1>11, <1>12

LEMMA UnsetForceKeeps ==
  ASSUME MinimapAssumption, IInv, UnsetForce
  PROVE  IInv'
<1>1. Types /\ Places /\ Rows /\ Painting /\ Uploads /\ Blank /\ Widens /\ Remembered /\ Partial /\ Full /\ Tidy
  BY DEF IInv, Places
<1>2. Types'
  BY <1>1, UnsetForceTypes
<1>3. /\ pc["render"] = "unset force" /\ pc'["render"] = "frame"
      /\ pc'["net"] = pc["net"] /\ pc'["win"] = pc["win"]
      /\ UNCHANGED <<data, texture, rect, net>> /\ row'["net"] = row["net"] /\ row'["win"] = row["win"]
      /\ history'.touched = history.touched /\ history'.overlapped = history.overlapped
      /\ history'.blank = history.blank
      /\ history'.lost = (history.lost \ Written) \cup history.late
      /\ flags'.need = flags.need
  <2>1. Forget /\ pc["render"] = "unset force" /\ UNCHANGED <<data, texture, rect, net>>
    BY DEF UnsetForce
  <2>2. flags'.need = flags.need
    BY <1>1 DEF UnsetForce, Types
  <2>3. row'["net"] = row["net"] /\ row'["win"] = row["win"]
    BY <1>1, <2>1, ForgetTypes DEF Types, Thread
  <2> QED
    BY <1>1, <2>1, <2>2, <2>3, ForgetTypes
<1>4. \A c \in Cell : (Waits(c)' <=> Waits(c)) /\ (Stale(c)' <=> Stale(c))
  BY <1>3 DEF Waits, Pending, Widening, Stale
<1>5. Rows' /\ Painting' /\ Blank' /\ Widens'
  BY <1>1, <1>2, <1>3, RenderRests
<1>6. Uploads' /\ Partial' /\ Full'
  BY <1>3 DEF Uploads, Partial, Full, Partly, Fully, Uploading
<1>7. Remembered'
  <2>1. Fully /\ Live
    BY <1>1, <1>3 DEF Uploads, Fully, Uploading, Live
  <2>2. \A c \in Cell \ history.late : Stale(c) => Waits(c)
    BY <1>1, <1>3, <2>1 DEF Full
  <2>3. \A c \in Cell : Stale(c) => c \in history'.lost \/ Waits(c)
    BY <1>3, <2>2
  <2> QED
    BY <1>4, <2>3 DEF Remembered
<1>8. Tidy'
  <2>1. history.touched \subseteq Cell
    BY <1>1 DEF Types, HistoryOK
  <2>2. ~history'.overlapped /\ ~history'.blank =>
          /\ \A c \in history'.touched : Waits(c)'
          /\ flags'.need => \E c \in Cell : Covers(rect', c)
    BY <1>1, <1>3, <1>4, <2>1 DEF Tidy
  <2> QED
    BY <1>3, <2>2 DEF Tidy, Partly, Uploading
<1> QED
  BY <1>2, <1>5, <1>6, <1>7, <1>8 DEF IInv, Places

-----------------------------------------------------------------------------
(* The invariant. *)

LEMMA InitIInv ==
  ASSUME MinimapAssumption, Init
  PROVE  IInv
<1>1. [c \in Cell |-> NoColor] \in Image
  BY DEF Image
<1>2. data \in Image /\ texture \in Image /\ texture = data
  BY <1>1 DEF Init
<1>3. /\ flags \in [need : BOOLEAN, force : BOOLEAN] /\ rect \in Rectangle
      /\ row \in [Thread -> 0..Height]
  <2>1. 0 \in 0..Height
    BY Bounds
  <2> QED
    BY <2>1, Bounds DEF Init, Thread
<1>4. /\ pc["net"] = "idle" /\ pc["win"] = "idle" /\ pc["render"] = "frame" /\ PcOK
      /\ row["net"] = 0 /\ row["win"] = 0
  <2>1. /\ pc["net"] = "idle" /\ pc["win"] = "idle" /\ pc["render"] = "frame"
        /\ row["net"] = 0 /\ row["win"] = 0
    BY DEF Init
  <2>2. "idle" \in NetLabel /\ "idle" \in WinLabel /\ "frame" \in RenderLabel
    BY DEF NetLabel, WinLabel, RenderLabel
  <2>3. pc \in [Thread -> NetLabel \cup RenderLabel]
    BY <2>2 DEF Init, Thread
  <2> QED
    BY <2>1, <2>2, <2>3 DEF PcOK
<1>5. NetOK
  BY Bounds DEF Init, NetOK
<1>6. UploadOK
  BY <1>2, Bounds DEF Init, UploadOK
<1>7. HistoryOK
  BY DEF Init, HistoryOK
<1>8. DoneOK
  BY Bounds DEF Init, DoneOK
<1>9. Types
  BY <1>2, <1>3, <1>4, <1>5, <1>6, <1>7, <1>8 DEF Types
<1>10. ~Uploading
  BY <1>4 DEF Uploading
<1>11. Rows /\ Painting /\ Uploads
  <2>1. net.side = 1
    BY DEF Init
  <2> QED
    BY <1>4, <1>10, <2>1, Bounds DEF Rows, Painting, Uploads, Fully, Widening
<1>12. Blank /\ Widens
  BY <1>4 DEF Blank, Widens, Widening
<1>13. Remembered /\ Partial /\ Full
  BY <1>2, <1>10 DEF Remembered, Partial, Full, Partly, Fully, Stale
<1>14. Tidy
  <2>1. history.touched = {} /\ flags.need = FALSE
    BY DEF Init
  <2> QED
    BY <1>4, <2>1 DEF Tidy
<1> QED
  BY <1>9, <1>11, <1>12, <1>13, <1>14 DEF IInv, Places

LEMMA NextIInv ==
  ASSUME MinimapAssumption, IInv, [Next]_vars
  PROVE  IInv'
<1>1. CASE SetSquare
  BY <1>1, PaintKeeps DEF SetSquare
<1>2. CASE AddStatic
  BY <1>2, PaintKeeps DEF AddStatic
<1>3. CASE Update
  BY <1>1, <1>2, <1>3, UpdateBeginKeeps, SetSquareUnknownKeeps, LoadKeeps, StoreKeeps, AnnounceKeeps, UpdateEndKeeps
     DEF Update
<1>4. ASSUME NEW t \in {"net", "win"}, Clear(t) PROVE IInv'
  BY <1>4, ClearBeginKeeps, WipeKeeps, AskKeeps DEF Clear
<1>5. CASE WipeAgain
  BY <1>5, WipeAgainKeeps
<1>6. CASE Render
  BY <1>6, FrameNeedKeeps, FrameNoNeedKeeps, FrameForceKeeps, FrameNothingKeeps, ReadSideKeeps, MeasureKeeps,
     CopyRowKeeps, WriteTextureKeeps, UnsetNeedKeeps, ResetSideKeeps, UnsetForceKeeps DEF Render
<1>7. CASE UNCHANGED vars
  <2>1. Types'
    BY <1>7 DEF vars, IInv, Types, PcOK, NetOK, UploadOK, HistoryOK, DoneOK
  <2>2. Places' /\ Blank' /\ Widens'
    BY <1>7, ZenonT(60) DEF vars, IInv, Places, Rows, Painting, Uploads, Blank, Widens, Widening, Fully, Uploading, Live
  <2>3. Asked' <=> Asked
    BY <1>7 DEF vars, Asked, Clearing
  <2>4. \A c \in Cell : (Waits(c)' <=> Waits(c)) /\ (Stale(c)' <=> Stale(c)) /\ (Read(c)' <=> Read(c))
    BY <1>7 DEF vars, Waits, Pending, Widening, Stale, Read
  <2>5. /\ Partly' <=> Partly
        /\ Fully' <=> Fully
        /\ Live' <=> Live
        /\ BeforeWrite' <=> BeforeWrite
        /\ Written' = Written
    BY <1>7 DEF vars, Partly, Fully, Uploading, Live, BeforeWrite, Written
  <2>6. Remembered'
    BY <1>7, <2>3, <2>4, <2>5 DEF vars, IInv, Remembered
  <2>7. Partial'
    BY <1>7, <2>3, <2>4, <2>5 DEF vars, IInv, Partial
  <2>8. Full'
    BY <1>7, <2>4, <2>5 DEF vars, IInv, Full
  <2>9. Tidy'
    <3>1. history.touched \subseteq Cell
      BY DEF IInv, Types, HistoryOK
    <3> QED
      BY <1>7, <2>4, <2>5, <3>1 DEF vars, IInv, Tidy
  <2> QED
    BY <2>1, <2>2, <2>6, <2>7, <2>8, <2>9 DEF IInv
<1> QED
  BY <1>3, <1>4, <1>5, <1>6, <1>7 DEF Next

\* The inductive invariant, for an image of any size and any number of
\* updates, clears, tiles and objects.
THEOREM Invariance == Spec => []IInv
<1>1. Init => IInv
  BY InitIInv, MinimapAssumption
<1>2. IInv /\ [Next]_vars => IInv'
  BY NextIInv, MinimapAssumption
<1> QED
  BY <1>1, <1>2, PTL DEF Spec

\* Between frames the texture shows the image but for pixels that an
\* overlapping upload forgot, that the update under way paints, or that wait
\* in the rectangle.  (renderTick, setSquare, handleUpdate)
THEOREM NothingElseLost == Spec => []OnlyOverlapsLost
<1>1. IInv => OnlyOverlapsLost
  <2> SUFFICES ASSUME IInv, pc["render"] \in {"frame", "force?"}, ~flags.force,
                      \A t \in {"net", "win"} : ~Clearing(t), NEW c \in Cell, texture[c] # data[c]
               PROVE  c \in history.lost \cup history.touched \/ Covers(rect, c)
    BY DEF OnlyOverlapsLost
  <2>1. ~Asked /\ BeforeWrite
    BY DEF Asked, BeforeWrite
  <2>2. c \in history.lost \/ Waits(c)
    BY <2>1 DEF IInv, Remembered, Stale
  <2>3. Pending(c) => c \in history.touched
    BY DEF IInv, Widens, Pending
  <2> QED
    BY <2>2, <2>3 DEF Waits
<1> QED
  BY <1>1, Invariance, PTL

\* The types, and that the render thread stops on an empty rectangle only
\* after a change overlapped an upload or an update announced pixels it had
\* not painted.  (renderTick, handleUpdate)
THEOREM StopsForReason == Spec => []StopsOnlyIfRaced
<1>1. IInv => StopsOnlyIfRaced
  <2> SUFFICES ASSUME IInv PROVE StopsOnlyIfRaced
    OBVIOUS
  <2>1. Types /\ Tidy
    BY DEF IInv
  <2>2. Width \in Nat /\ Height \in Nat /\ Width > 0 /\ Height > 0
    BY MinimapAssumption
  <2> DEFINE R == [min_x : 0..Width, max_x : 0..Width, min_y : 0..Height, max_y : 0..Height]
  <2>3. rect \in R
    BY <2>1, <2>2 DEF Types, Rectangle
  <2>4. upload.area \in R /\ upload.copy \in Image /\ upload.of \in {"need", "force"} /\ upload.side \in 1..4
    BY <2>1 DEF Types, UploadOK, Area
  <2>5. net.cell \in Cell /\ net.side \in 1..4 /\ net.left \in 0..MaxPaints
    BY <2>1 DEF Types, NetOK
  <2>6. history.touched \cup history.late \cup history.lost \subseteq Cell
    BY <2>1 DEF Types, HistoryOK
  <2>7. \A t \in {"net", "win", "render"} : row[t] \in 0..Height
    BY <2>1 DEF Types, Thread
  <2>8. TypeOK
    <3>1. data \in Image /\ texture \in Image /\ flags \in [need : BOOLEAN, force : BOOLEAN]
      BY <2>1 DEF Types
    <3>2. /\ pc["net"] \in {"idle", "tiles", "objects", "load", "store", "wipe", "ask", "wipe again"}
          /\ pc["win"] \in {"idle", "wipe", "ask"}
          /\ pc["render"] \in {"frame", "force?", "read", "measure", "copy", "unset need", "reset",
                              "unset force", "panic"}
      BY <2>1 DEF Types, PcOK, NetLabel, WinLabel, RenderLabel
    <3> QED
      BY <2>3, <2>4, <2>5, <2>6, <2>7, <3>1, <3>2 DEF TypeOK
  <2>9. pc["render"] = "panic" => history.overlapped \/ history.blank
    BY <2>1 DEF Tidy
  <2> QED
    BY <2>8, <2>9 DEF StopsOnlyIfRaced
<1> QED
  BY <1>1, Invariance, PTL

=============================================================================
