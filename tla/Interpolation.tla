---------------------------- MODULE Interpolation ----------------------------
(***************************************************************************)
(* How other players and objects move on screen between two ticks of the   *)
(* server: handleNewTick and handleGoto of src/src/network.zig, and the    *)
(* ends of GameObject.update and Player.update of src/src/map.zig.         *)
(*                                                                         *)
(* The network thread writes move_step, the target and the angle under the *)
(* entity's move_lock; the window thread asks for angle and step before it *)
(* takes that lock.  A step is what is done under the lock, in two halves, *)
(* or what is asked outside it.                                            *)
(*                                                                         *)
(* A place is a pair of whole numbers.  The angle is the vector it was     *)
(* computed from, and move_step the square of the distance per tick; floats *)
(* are rounded down.                                                       *)
(***************************************************************************)
EXTENDS Integers, FiniteSets

CONSTANTS
  Coords,     \* the coordinates the server puts the entity at
  TickTime,   \* tick_time, what the server says a tick lasts
  Frames,     \* the lengths of frames
  MaxTicks,   \* bound on the ticks
  MaxFrames,  \* bound on the frames between two ticks
  MaxGotos,   \* bound on the teleports
  NaN         \* not a number: of an angle and of a place

\* What MCMotion assumes of the constants.
InterpolationAssumption ==
  /\ Coords \subseteq Int
  /\ TickTime \in Nat \ {0} /\ Frames \subseteq Nat \ {0}
  /\ MaxTicks \in Nat /\ MaxFrames \in Nat /\ MaxGotos \in Nat
  /\ NaN \notin Int \X Int

VARIABLES
  kind,     \* "player" or "object"
  at,       \* x and y of the entity, or NaN
  angle,    \* move_angle, or NaN
  step,     \* move_step, as the square of the distance in a tick
  target,   \* target_x, target_y
  toward,   \* target_x_dir, target_y_dir
  pc,       \* where each thread is; "net" holds move_lock unless "idle"
  tick,     \* handleNewTick's locals: x and y read, x_dt and y_dt
  count,    \* ticks and gotos so far, frames since the last tick
  history   \* from: the place at the last tick; elapsed: time since;
            \* drifts: the target or the step is an old one; raced: the angle
            \* became NaN between the question and the use

vars == <<kind, at, angle, step, target, toward, pc, tick, count, history>>

Place == Coords \X Coords
Abs(n) == IF n < 0 THEN -n ELSE n
Square(v) == v[1] * v[1] + v[2] * v[2]
Minus(p, q) == IF p = NaN THEN NaN ELSE <<q[1] - p[1], q[2] - p[2]>>

Init ==
  /\ kind \in {"player", "object"}
  /\ at \in Place
  /\ angle = NaN /\ step = 0
  /\ target = <<0, 0>> /\ toward = <<1, 1>>
  /\ pc = [net |-> "idle", win |-> "idle"]
  /\ tick = [to |-> at, dt |-> <<0, 0>>]
  /\ count = [ticks |-> 0, gotos |-> 0, frames |-> 0]
  /\ history = [from |-> at, elapsed |-> 0, drifts |-> FALSE, raced |-> FALSE]

-----------------------------------------------------------------------------
\* A tick's status, up to the angle.  An entity that has one gets a new step
\* and target; one that has none is put where the server says, and keeps the
\* step and target of its last way.
TickBegin(to) ==
  /\ pc["net"] = "idle" /\ count.ticks < MaxTicks
  /\ pc' = [pc EXCEPT !["net"] = "angle"]
  /\ tick' = [to |-> to, dt |-> Minus(at, to)]
  /\ IF angle # NaN
     THEN /\ step' = Square(Minus(at, to))
          /\ target' = to
          /\ toward' = [i \in 1..2 |-> IF at[i] > to[i] THEN -1 ELSE 1]
          /\ UNCHANGED at
     ELSE /\ at' = to
          /\ UNCHANGED <<step, target, toward>>
  /\ count' = [count EXCEPT !.ticks = @ + 1, !.frames = 0]
  /\ history' = [history EXCEPT !.from = at', !.elapsed = 0, !.drifts = angle = NaN /\ step # 0]
  /\ UNCHANGED <<kind, angle>>

\* An object is at rest when it did not move; a player when neither
\* difference is positive, so also on its way up and left.
AtRest(d) ==
  IF kind = "object" THEN d = <<0, 0>> ELSE d[1] <= 0 /\ d[2] <= 0

TickEnd ==
  /\ pc["net"] = "angle"
  /\ pc' = [pc EXCEPT !["net"] = "idle"]
  /\ angle' = IF tick.dt = NaN THEN NaN ELSE IF AtRest(tick.dt) THEN NaN ELSE tick.dt
  /\ history' = [history EXCEPT !.raced = @ \/ (pc["win"] = "move" /\ angle' = NaN)]
  /\ UNCHANGED <<kind, at, step, target, toward, tick, count>>

\* handleGoto takes object_lock, which map.update holds all along.
Goto(to) ==
  /\ kind = "player" /\ count.gotos < MaxGotos
  /\ pc = [net |-> "idle", win |-> "idle"]
  /\ at' = to
  /\ count' = [count EXCEPT !.gotos = @ + 1]
  /\ history' = [history EXCEPT !.drifts = TRUE]
  /\ UNCHANGED <<kind, angle, step, target, toward, pc, tick>>

-----------------------------------------------------------------------------
\* Mutant of Ask: only the step is asked for.
AskStep ==
  /\ pc["win"] = "idle" /\ count.frames < MaxFrames
  /\ step > 0
  /\ pc' = [pc EXCEPT !["win"] = "move"]
  /\ UNCHANGED <<kind, at, angle, step, target, toward, tick, count, history>>

\* The question before the lock is taken.
Ask ==
  /\ pc["win"] = "idle" /\ count.frames < MaxFrames
  /\ angle # NaN /\ step > 0
  /\ pc' = [pc EXCEPT !["win"] = "move"]
  /\ UNCHANGED <<kind, at, angle, step, target, toward, tick, count, history>>

\* A frame in which the entity does not move.
Rest(dt) ==
  /\ pc["win"] = "idle" /\ count.frames < MaxFrames
  /\ ~(angle # NaN /\ step > 0)
  /\ count' = [count EXCEPT !.frames = @ + 1]
  /\ history' = [history EXCEPT !.elapsed = @ + dt]
  /\ UNCHANGED <<kind, at, angle, step, target, toward, pc, tick>>

\* The root of n, rounded down.
Root(n) == Cardinality({r \in 1..n : r * r <= n})

\* The part in one axis of a vector v given the length whose square is l.
Scaled(v, l, i) ==
  LET part == IF l = Square(v) THEN Abs(v[i]) ELSE Root((l * v[i] * v[i]) \div Square(v))
  IN IF v[i] < 0 THEN -part ELSE part

\* Mutant of Moved: the step is not looked at.
MovedPast(i, dt) == at[i] + (dt * Scaled(angle, step, i)) \div TickTime

\* A frame's way in one axis; a step past the target is not made at all.
Moved(i, dt) ==
  LET next == at[i] + (dt * Scaled(angle, step, i)) \div TickTime
      past == IF toward[i] = -1 THEN target[i] > next ELSE target[i] < next
  IN IF past THEN at[i] ELSE next

\* Comparing with what is not a number stops nothing.
Move(dt) ==
  /\ pc["win"] = "move" /\ pc["net"] = "idle"
  /\ at' = IF angle = NaN \/ at = NaN THEN NaN ELSE <<Moved(1, dt), Moved(2, dt)>>
  /\ pc' = [pc EXCEPT !["win"] = "idle"]
  /\ count' = [count EXCEPT !.frames = @ + 1]
  /\ history' = [history EXCEPT !.elapsed = @ + dt]
  /\ UNCHANGED <<kind, angle, step, target, toward, tick>>

Next ==
  \/ \E to \in Place : TickBegin(to) \/ Goto(to)
  \/ TickEnd
  \/ Ask
  \/ \E dt \in Frames : Rest(dt) \/ Move(dt)

Spec == Init /\ [][Next]_vars

-----------------------------------------------------------------------------
\* A place, an angle or a difference is a pair of numbers or NaN.
TypeOK ==
  LET Pair == Int \X Int IN
  /\ kind \in {"player", "object"}
  /\ \A v \in {at, angle, tick.dt} : v = NaN \/ v \in Pair
  /\ step \in Nat /\ target \in Pair /\ tick.to \in Place
  /\ toward \in {-1, 1} \X {-1, 1}
  /\ pc \in [net : {"idle", "angle"}, win : {"idle", "move"}]
  /\ count \in [ticks : 0..MaxTicks, gotos : 0..MaxGotos, frames : 0..MaxFrames]

Between(n, a, b) == (a <= n /\ n <= b) \/ (b <= n /\ n <= a)

\* Interpolation shows the entity between where it was and where the server
\* said it is, however long the frames are.  Not so a player whose step and
\* target are those of an earlier way: after a way up and left or a teleport
\* it may walk away from both.  (network.zig 667-681, map.zig 1325-1342)
StaysBetween ==
  (at # NaN /\ (kind = "object" \/ ~history.drifts)) => \A i \in 1..2 : Between(at[i], history.from[i], tick.to[i])

\* When a tick's time is over, what is left of the way in an axis is less than
\* the way of one frame, as a step past the target is dropped and not cut, or
\* less than what rounding took of each frame.  (map.zig 1325-1342)
EndsNear ==
  (/\ at # NaN /\ angle # NaN /\ (kind = "object" \/ ~history.drifts) /\ pc = [net |-> "idle", win |-> "idle"]
   /\ step > 0 /\ history.elapsed >= TickTime)
    => \A i \in 1..2 :
         LET left == Abs(tick.to[i] - at[i])
         IN left < count.frames \/ \E dt \in Frames : TickTime * left < dt * Abs(angle[i])

\* An entity follows the server: on the way, and at its end in time.
\* (network.zig 656-681, map.zig 1325-1342)
Follows == TypeOK /\ StaysBetween /\ EndsNear

\* The entity's place becomes no number only if a tick put it to rest between
\* the question and the lock.  (map.zig 1321-1326, network.zig 680)
NowhereOnlyIfRaced == at = NaN => history.raced
=============================================================================
