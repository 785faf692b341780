------------------------------ MODULE MCMotion ------------------------------
(***************************************************************************)
(* Every entity moves in one of two ways: the own player by Movement, any  *)
(* other by Interpolation (the branch on local_player_id in Player.update).*)
(* A behaviour is that of one entity; the variables of the other way stay  *)
(* where they are.                                                         *)
(***************************************************************************)
EXTENDS Interpolation

CONSTANTS Tile, Threshold, Nudge, Width, Height, Strides, MaxObstacles

VARIABLES squares, x, y

Own == INSTANCE Movement
ASSUME MotionAssumption == InterpolationAssumption /\ Own!MovementAssumption
ownVars == <<squares, x, y>>

VARIABLE local  \* whether the entity is the own player
allVars == <<vars, ownVars, local>>

\* One state of the way that is not taken.
OtherStill == kind = "object" /\ at = CHOOSE p \in Place : TRUE
OwnStill ==
  /\ squares = [p \in (0 .. Width - 1) \X (0 .. Height - 1) |-> "free"]
  /\ x = 0 /\ y = 0

MotionInit ==
  \/ local = TRUE /\ Own!Init /\ Init /\ OtherStill
  \/ local = FALSE /\ OwnStill /\ Init

MotionNext ==
  \/ local /\ Own!Next /\ UNCHANGED <<vars, local>>
  \/ ~local /\ Next /\ UNCHANGED <<ownVars, local>>

MotionSpec == MotionInit /\ [][MotionNext]_allVars

\* The properties of Movement, stated and explained there.
\* StepSound: a step stays on the map, stops short of what is in the way and
\* glides along it (map.zig 1349-1505).
StepSound == Own!StepSound
\* StaysFitting: from a place where it fits, the player steps only to such a
\* place (map.zig 1380-1413).
StaysFitting == Own!StaysFitting
=============================================================================
