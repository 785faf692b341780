------------------------------ MODULE Movement ------------------------------
(***************************************************************************)
(* How the player's own steps are fitted to the map: modifyMove,           *)
(* modifyStep and isValidPosition of src/src/map.zig.                      *)
(*                                                                         *)
(* Coordinates are whole numbers of which Tile make a tile; the code's     *)
(* floats, and their rounding, are left out.  The map stays as it is, and  *)
(* the displacement of a frame, which follows from speed, slide and push   *)
(* of the ground, is any of Strides in either axis.                        *)
(***************************************************************************)
EXTENDS Integers, FiniteSets

CONSTANTS
  Tile,       \* length of a tile, an even number
  Threshold,  \* move_threshold, 0.4 of a tile
  Nudge,      \* 0.01: what keeps the player on this side of a border
  Width, Height,
  Strides,    \* lengths of displacements in one axis, in one frame
  MaxObstacles

\* What MCMotion assumes of the constants.
MovementAssumption ==
  /\ Tile \in Nat \ {0} /\ Tile % 2 = 0
  /\ Threshold \in 1 .. Tile \div 2 - 1 /\ Nudge \in 1 .. Threshold
  /\ Width \in Nat \ {0} /\ Height \in Nat \ {0} /\ Strides \subseteq Nat
  /\ MaxObstacles \in Nat

VARIABLES
  squares,  \* what stands on each square
  x, y      \* where the player is
vars == <<squares, x, y>>

Half == Tile \div 2
Square == {"free", "occupied", "full", "wall"}
Abs(n) == IF n < 0 THEN -n ELSE n
Frac(n) == n % Tile

InMap(px, py) == px >= 0 /\ py >= 0 /\ px < Width * Tile /\ py < Height * Tile
SquareAt(px, py) == squares[<<px \div Tile, py \div Tile>>]

-----------------------------------------------------------------------------
\* "occupied" stands for all that cannot be walked on: an occupied square,
\* ground with no_walk, no ground.
IsWalkable(px, py) == InMap(px, py) /\ SquareAt(px, py) \notin {"occupied", "wall"}

IsFullOccupy(px, py) == ~InMap(px, py) \/ SquareAt(px, py) \in {"full", "wall"}

\* The neighbours a player of the width of a tile would reach into.
Side(n) == IF Frac(n) < Half THEN {-Tile, 0} ELSE IF Frac(n) > Half THEN {0, Tile} ELSE {0}

\* Mutant of IsValidPosition: the squares diagonally across are forgotten.
IsValidNoCorner(px, py) ==
  /\ IsWalkable(px, py)
  /\ \A dx \in Side(px) \ {0} : ~IsFullOccupy(px + dx, py)
  /\ \A dy \in Side(py) \ {0} : ~IsFullOccupy(px, py + dy)

IsValidPosition(px, py) ==
  /\ IsWalkable(px, py)
  /\ \A dx \in Side(px), dy \in Side(py) :
       <<dx, dy>> # <<0, 0>> => ~IsFullOccupy(px + dx, py + dy)

-----------------------------------------------------------------------------
Crosses(from, to) ==
  \/ from % Half = 0 /\ to # from
  \/ from \div Half # to \div Half

\* Mutant of Border: the border is looked for behind the step.
BorderBehind(from, to) ==
  LET border == (to \div Half) * Half IN
  IF ~Crosses(from, to) THEN 0
  ELSE IF border \div Tile > from \div Tile THEN border - Nudge ELSE border

\* The border, of half a tile, where a step that crosses one is cut off; 0
\* when it crosses none.
Border(from, to) ==
  LET border == ((IF to > from THEN to ELSE from) \div Half) * Half IN
  IF ~Crosses(from, to) THEN 0
  ELSE IF border \div Tile > from \div Tile THEN border - Nudge ELSE border

Past(from, to) ==
  IF to > from THEN to - Border(from, to) ELSE Border(from, to) - to

\* modifyStep: all of the step, or else all of it in one axis, where less
\* would be lost first, or else none of it beyond the borders.
ModifyStep(px, py, tx, ty) ==
  LET bx == Border(px, tx)
      by == Border(py, ty)
      alongX == <<tx, by>>
      alongY == <<bx, ty>>
      tried == IF Past(px, tx) > Past(py, ty) THEN <<alongX, alongY>> ELSE <<alongY, alongX>>
  IN IF ~(Crosses(px, tx) \/ Crosses(py, ty)) \/ IsValidPosition(tx, ty) THEN <<tx, ty>>
     ELSE IF IsValidPosition(tried[1][1], tried[1][2]) THEN tried[1]
     ELSE IF IsValidPosition(tried[2][1], tried[2][2]) THEN tried[2]
     ELSE <<bx, by>>

\* Where n steps of <<sx, sy>> lead.
StepFrom(p, sx, sy) == ModifyStep(p[1], p[2], p[1] + sx, p[2] + sy)

SubSteps(p, sx, sy, n) ==
  LET after[i \in 0 .. n] == IF i = 0 THEN p ELSE StepFrom(after[i - 1], sx, sy)
  IN after[n]

\* modifyMove: a long move is made in steps of the threshold; the loop ends
\* before the last of them.
ModifyMove(px, py, dx, dy) ==
  LET longest == IF Abs(dx) > Abs(dy) THEN Abs(dx) ELSE Abs(dy)
      length(d) == (Threshold * Abs(d)) \div longest
      part(d) == IF d < 0 THEN -length(d) ELSE length(d)
  IN IF longest < Threshold THEN StepFrom(<<px, py>>, dx, dy)
     ELSE SubSteps(<<px, py>>, part(dx), part(dy), (longest - 1) \div Threshold)

-----------------------------------------------------------------------------
Layouts ==
  {s \in [(0 .. Width - 1) \X (0 .. Height - 1) -> Square] :
     Cardinality({p \in DOMAIN s : s[p] # "free"}) <= MaxObstacles}

Displacements == Strides \cup {-s : s \in Strides}

\* The server may put the player anywhere, and anything next to it.
Init ==
  /\ squares \in Layouts
  /\ x \in 0 .. Width * Tile - 1 /\ y \in 0 .. Height * Tile - 1

Walk(dx, dy) ==
  LET to == ModifyMove(x, y, dx, dy) IN
  /\ x' = to[1] /\ y' = to[2]
  /\ UNCHANGED squares

Next == \E dx, dy \in Displacements : Walk(dx, dy)

Spec == Init /\ [][Next]_vars

-----------------------------------------------------------------------------
\* The player never leaves the map.
TypeOK ==
  /\ squares \in [(0 .. Width - 1) \X (0 .. Height - 1) -> Square]
  /\ InMap(x, y)

\* The player is a square of the width of a tile, its centre on a square that
\* can be walked on; it overlaps no full square but the one it stands on.
Fits(px, py) ==
  /\ IsWalkable(px, py)
  /\ \A i \in -1..1, j \in -1..1 :
       LET left == (px \div Tile + i) * Tile
           top == (py \div Tile + j) * Tile
       IN \/ <<i, j>> = <<0, 0>>
          \/ ~IsFullOccupy(left, top)
          \/ px + Half <= left \/ px - Half >= left + Tile
          \/ py + Half <= top \/ py - Half >= top + Tile

\* Whatever corner is cut, and although the last resort of modifyStep is not
\* looked at, a player that fits where it is fits where it goes.
StaysFitting == [][Fits(x, y) => Fits(x', y')]_vars

\* In neither axis does such a player pass the place it is going to, or step
\* back by as much as the nudge.  From a place where it does not fit, 0, which
\* stands for no border, may take it across the map.
Toward(from, to, d) ==
  IF d < 0 THEN to \in from + d .. from + Nudge - 1 ELSE to \in from - Nudge + 1 .. from + d

NeverJumps ==
  Fits(x, y) => \A dx, dy \in Displacements :
    LET to == ModifyMove(x, y, dx, dy)
    IN Toward(x, to[1], dx) /\ Toward(y, to[2], dy)

\* Along a wall the player glides: when there is room for the part of a short
\* step in one axis, the player gets all of it in one axis or the other.
Glides ==
  Fits(x, y) => \A dx, dy \in Displacements :
    (Abs(dx) < Threshold /\ Abs(dy) < Threshold /\ (Fits(x + dx, y) \/ Fits(x, y + dy))) =>
    LET to == ModifyMove(x, y, dx, dy) IN to[1] = x + dx \/ to[2] = y + dy

\* A step stays on the map, stops short of what is in the way and glides
\* along it.  (map.zig 1349-1505)
StepSound == TypeOK /\ NeverJumps /\ Glides
=============================================================================
