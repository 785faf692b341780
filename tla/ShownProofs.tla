---------------------------- MODULE ShownProofs ----------------------------
(***************************************************************************)
(* Proofs about what the player is shown: where another entity is between   *)
(* two ticks (Interpolation), where the own player's steps lead (Movement), *)
(* and the items in the slots of the inventory and of the container on view *)
(* (Inventory).                                                             *)
(***************************************************************************)
EXTENDS MCMotion, Inventory, FiniteSetTheorems, SequenceTheorems,
        WellFoundedInduction, TLAPS

Pair == Int \X Int
Numeric == Pair \cup {NaN}

Types ==
  /\ kind \in {"player", "object"}
  /\ at \in Numeric /\ angle \in Numeric /\ tick \in [to : Pair, dt : Numeric]
  /\ step \in Nat /\ target \in Pair
  /\ history \in [from : Pair, elapsed : Nat, drifts : BOOLEAN, raced : BOOLEAN]
  /\ pc \in [net : {"idle", "angle"}, win : {"idle", "move"}]
  /\ angle # NaN => Square(angle) \in Nat \ {0}

\* A place is no number only after a race, and at rest.
Races ==
  /\ at = NaN => angle = NaN /\ history.raced /\ pc["net"] = "idle"
  /\ (pc["win"] = "move" /\ angle = NaN) => history.raced

Drifts == kind = "player" /\ history.drifts

\* The entity is on its way in one axis, in the direction it is told.
Ahead(i) ==
  IF tick.dt[i] < 0
  THEN toward[i] = -1 /\ tick.to[i] <= at[i] /\ at[i] <= history.from[i]
  ELSE toward[i] = 1 /\ history.from[i] <= at[i] /\ at[i] <= tick.to[i]

\* What does not drift is where the server said, or on its way there.
Ways ==
  /\ kind = "object" => ~history.drifts
  /\ (kind = "object" /\ angle = NaN /\ pc["net"] = "idle") => step = 0
  /\ (pc["net"] = "idle" /\ angle # NaN) => angle = tick.dt
  /\ (~Drifts /\ step = 0 /\ at # NaN) => at = tick.to
  /\ (~Drifts /\ step # 0) =>
       /\ target = tick.to /\ tick.dt \notin {NaN, <<0, 0>>}
       /\ at # NaN => Ahead(1) /\ Ahead(2)

IInv == Types /\ Races /\ Ways

-----------------------------------------------------------------------------
\* A set of numbers has a smallest one.
LEMMA Smallest ==
  ASSUME NEW S \in SUBSET Nat, S # {}
  PROVE  \E s \in S : \A t \in S : s <= t
  <1>1. IsWellFoundedOn(OpToRel(<, Nat), Nat)
    BY NatLessThanWellFounded
  <1>2. PICK s \in S : \A t \in S : <<t, s>> \notin OpToRel(<, Nat)
    <2> HIDE DEF OpToRel
    <2> QED BY <1>1, WFMin
  <1>3. \A t \in S : ~(t < s)
    BY <1>2 DEF OpToRel
  <1> QED BY <1>3

LEMMA QuotientIs ==
  ASSUME NEW d \in Nat \ {0}, NEW q \in Int, NEW r \in 0 .. d - 1
  PROVE  (q * d + r) \div d = q /\ (q * d + r) % d = r
  OBVIOUS

LEMMA QuotientExists ==
  ASSUME NEW d \in Nat \ {0}, NEW n \in Int
  PROVE  \E q \in Int, r \in 0 .. d - 1 : n = q * d + r /\ n \div d = q /\ n % d = r
  OBVIOUS

LEMMA Squares ==
  ASSUME NEW v \in Pair
  PROVE  Square(v) \in Nat /\ (Square(v) = 0 <=> v = <<0, 0>>)
  <1>1. PICK a \in Int, b \in Int : v = <<a, b>>
    BY DEF Pair
  <1>2. a * a \in Nat /\ b * b \in Nat /\ (a * a = 0 <=> a = 0) /\ (b * b = 0 <=> b = 0)
    OBVIOUS
  <1>3. Square(v) = (a * a) + (b * b)
    BY <1>1 DEF Square
  <1>4. (a * a) + (b * b) \in Nat /\ ((a * a) + (b * b) = 0 <=> a = 0 /\ b = 0)
    <2> DEFINE A == a * a
               B == b * b
    <2>1. A \in Nat /\ B \in Nat
      BY <1>2
    <2> HIDE DEF A, B
    <2>2. A + B \in Nat /\ (A + B = 0 <=> A = 0 /\ B = 0)
      BY <2>1
    <2> QED
      BY <1>2, <2>2 DEF A, B
  <1> QED
    BY <1>1, <1>3, <1>4

LEMMA RootType ==
  ASSUME NEW n \in Nat
  PROVE  Root(n) \in Nat /\ Root(0) = 0
  <1>1. IsFiniteSet(1..n)
    BY FS_Interval
  <1>2. IsFiniteSet({r \in 1..n : r * r <= n})
    BY <1>1, FS_Subset
  <1>3. {r \in 1..0 : r * r <= 0} = {}
    OBVIOUS
  <1> QED
    BY <1>2, <1>3, FS_CardinalityType, FS_EmptySet DEF Root

\* A quotient has the sign of what is divided.
LEMMA Quotient ==
  ASSUME NEW p \in Int, NEW d \in Nat \ {0}
  PROVE  /\ p \div d \in Int
         /\ p >= 0 => p \div d >= 0
         /\ p <= 0 => p \div d <= 0
  OBVIOUS

LEMMA Products ==
  ASSUME NEW a \in Nat, NEW b \in Int
  PROVE  a * b \in Int /\ (b >= 0 => a * b >= 0) /\ (b <= 0 => a * b <= 0)
  OBVIOUS

\* The part of a way in one axis goes in its direction.
LEMMA ScaledSign ==
  ASSUME NEW v \in Pair, Square(v) \in Nat \ {0}, NEW l \in Nat, NEW i \in 1..2
  PROVE  /\ Scaled(v, l, i) \in Int
         /\ v[i] < 0 => Scaled(v, l, i) <= 0
         /\ ~(v[i] < 0) => Scaled(v, l, i) >= 0
         /\ l = 0 => Scaled(v, l, i) = 0
  <1> DEFINE p == (l * v[i]) * v[i]
             part == IF l = Square(v) THEN Abs(v[i]) ELSE Root(p \div Square(v))
  <1>1. v[i] \in Int
    BY DEF Pair
  <1>2. p \in Nat /\ (l = 0 => p = 0)
    <2>1. PICK a \in Int : a = v[i]
      BY <1>1
    <2>2. a * a \in Nat
      OBVIOUS
    <2>3. (l * a) * a = l * (a * a)
      OBVIOUS
    <2>4. l * (a * a) \in Nat /\ (l = 0 => l * (a * a) = 0)
      BY <2>2, Products
    <2> QED
      BY <2>1, <2>3, <2>4
  <1>3. part \in Nat /\ (l = 0 => part = 0)
    <2>1. Abs(v[i]) \in Nat
      BY <1>1 DEF Abs
    <2> HIDE DEF p
    <2>2. p \div Square(v) \in Nat
      BY <1>2, Quotient
    <2>3. 0 \div Square(v) = 0
      BY Quotient
    <2> QED
      BY <1>2, <2>1, <2>2, <2>3, RootType
  <1>4. Scaled(v, l, i) = IF v[i] < 0 THEN -part ELSE part
    BY DEF Scaled
  <1> HIDE DEF part
  <1> QED
    BY <1>1, <1>3, <1>4

-----------------------------------------------------------------------------
\* Places are numbers.
LEMMA PlacesArePairs ==
  ASSUME InterpolationAssumption
  PROVE  Place \subseteq Pair /\ NaN \notin Pair
  BY DEF Place, InterpolationAssumption, Pair

LEMMA InitIInv ==
  ASSUME InterpolationAssumption, Init
  PROVE  IInv
  <1>1. at \in Pair /\ at # NaN /\ <<0, 0>> \in Pair
    <2>1. at \in Place
      BY DEF Init
    <2>2. at \in Pair
      BY <2>1, PlacesArePairs
    <2> QED
      BY <2>2, PlacesArePairs DEF Pair
  <1>2. Types
    BY <1>1 DEF Init, Types, Numeric
  <1>3. Races
    BY <1>1 DEF Init, Races
  <1>4. Ways
    BY <1>1 DEF Init, Ways
  <1> QED
    BY <1>2, <1>3, <1>4 DEF IInv

LEMMA MinusFacts ==
  ASSUME InterpolationAssumption, NEW p \in Pair, NEW q \in Pair
  PROVE  /\ Minus(p, q) \in Pair /\ Minus(p, q) = <<q[1] - p[1], q[2] - p[2]>>
         /\ Minus(p, q) = <<0, 0>> <=> p = q
  <1>1. p # NaN
    BY DEF InterpolationAssumption, Pair
  <1>2. PICK a \in Int, b \in Int, c \in Int, d \in Int : p = <<a, b>> /\ q = <<c, d>>
    BY DEF Pair
  <1>3. c - a \in Int /\ d - b \in Int /\ (c - a = 0 <=> a = c) /\ (d - b = 0 <=> b = d)
    OBVIOUS
  <1>4. q[1] - p[1] = c - a /\ q[2] - p[2] = d - b
    BY <1>2
  <1>5. Minus(p, q) = <<c - a, d - b>> /\ Minus(p, q) = <<q[1] - p[1], q[2] - p[2]>>
    BY <1>1, <1>4 DEF Minus
  <1>6. Minus(p, q) \in Pair
    BY <1>3, <1>5 DEF Pair
  <1>7. <<c - a, d - b>> = <<0, 0>> <=> (c - a = 0 /\ d - b = 0)
    OBVIOUS
  <1>8. <<a, b>> = <<c, d>> <=> (a = c /\ b = d)
    OBVIOUS
  <1> QED
    BY <1>2, <1>3, <1>5, <1>6, <1>7, <1>8

LEMMA TickBeginKeeps ==
  ASSUME InterpolationAssumption, IInv, NEW to \in Place, TickBegin(to)
  PROVE  IInv'
  <1>1. /\ pc["net"] = "idle" /\ pc' = [pc EXCEPT !["net"] = "angle"]
        /\ tick' = [to |-> to, dt |-> Minus(at, to)]
        /\ IF angle # NaN
           THEN /\ step' = Square(Minus(at, to))
                /\ target' = to
                /\ toward' = [i \in 1..2 |-> IF at[i] > to[i] THEN -1 ELSE 1]
                /\ at' = at
           ELSE at' = to /\ step' = step /\ target' = target /\ toward' = toward
        /\ history' = [history EXCEPT !.from = at', !.elapsed = 0, !.drifts = angle = NaN /\ step # 0]
        /\ kind' = kind /\ angle' = angle
    BY DEF TickBegin
  <1>2. Types /\ Races /\ Ways
    BY DEF IInv
  <1>3. to \in Pair /\ to # NaN /\ 0 \in Nat
    BY DEF Place, InterpolationAssumption, Pair
  <1>4. angle # NaN => at \in Pair /\ at # NaN
    BY <1>2 DEF Races, Types, Numeric
  <1>5. at' \in Pair /\ at' # NaN
    BY <1>1, <1>3, <1>4
  <1>6. Minus(at, to) \in Numeric
    <2>1. CASE at = NaN
      BY <2>1 DEF Minus, Numeric
    <2>2. CASE at \in Pair
      BY <1>3, <2>2, MinusFacts DEF Numeric
    <2> QED
      BY <1>2, <2>1, <2>2 DEF Types, Numeric
  <1>7. /\ pc'["net"] = "angle" /\ pc'["win"] = pc["win"]
        /\ pc' \in [net : {"idle", "angle"}, win : {"idle", "move"}]
    BY <1>1, <1>2 DEF Types
  <1>8. /\ history'.from = at' /\ history'.raced = history.raced
        /\ history'.drifts = (angle = NaN /\ step # 0)
        /\ history' \in [from : Pair, elapsed : Nat, drifts : BOOLEAN, raced : BOOLEAN]
    BY <1>1, <1>2, <1>3, <1>5 DEF Types
  <1>9. Types'
    <2>1. step' \in Nat /\ target' \in Pair
      <3>1. CASE angle # NaN
        BY <1>1, <1>3, <1>4, <3>1, MinusFacts, Squares
      <3>2. CASE angle = NaN
        BY <1>1, <1>2, <3>2 DEF Types
      <3> QED
        BY <3>1, <3>2
    <2>2. angle' # NaN => Square(angle') \in Nat \ {0}
      BY <1>1, <1>2 DEF Types
    <2>3. tick' \in [to : Pair, dt : Numeric]
      BY <1>1, <1>3, <1>6
    <2>4. kind' \in {"player", "object"} /\ at' \in Numeric /\ angle' \in Numeric
      BY <1>1, <1>2, <1>5 DEF Types, Numeric
    <2> QED
      BY <1>7, <1>8, <2>1, <2>2, <2>3, <2>4 DEF Types, Square, Numeric
  <1>10. Races'
    BY <1>1, <1>2, <1>5, <1>7, <1>8 DEF Races
  <1>11. Ways'
    <2>1. kind' = "object" => ~history'.drifts
      BY <1>1, <1>2, <1>8 DEF Ways
    <2>2. pc'["net"] # "idle"
      BY <1>7
    <2>3. CASE angle # NaN
      <3>1. /\ at \in Pair /\ at' = at /\ step' = Square(Minus(at, to)) /\ target' = to
            /\ toward' = [i \in 1..2 |-> IF at[i] > to[i] THEN -1 ELSE 1]
        BY <1>1, <1>4, <2>3
      <3>2. /\ Minus(at, to) \in Pair /\ Minus(at, to) = <<to[1] - at[1], to[2] - at[2]>>
            /\ Minus(at, to) = <<0, 0>> <=> at = to
            /\ Square(Minus(at, to)) = 0 <=> Minus(at, to) = <<0, 0>>
        BY <1>3, <3>1, MinusFacts, Squares
      <3>3. Minus(at, to) # NaN
        BY <3>2 DEF InterpolationAssumption, Pair
      <3>4. tick'.to = to /\ tick'.dt = Minus(at, to)
        BY <1>1
      <3>5. step' = 0 => at' = tick'.to
        BY <3>1, <3>2, <3>4
      <3>6. step' # 0 => target' = tick'.to /\ tick'.dt \notin {NaN, <<0, 0>>}
        BY <3>1, <3>2, <3>3, <3>4
      <3>7. ASSUME NEW i \in 1..2 PROVE Ahead(i)'
        <4>1. at[i] \in Int /\ to[i] \in Int /\ Minus(at, to)[i] = to[i] - at[i]
          BY <1>3, <3>1, <3>2 DEF Pair
        <4>2. /\ tick'.dt[i] = to[i] - at[i] /\ tick'.to[i] = to[i] /\ at'[i] = at[i]
              /\ history'.from[i] = at[i] /\ toward'[i] = IF at[i] > to[i] THEN -1 ELSE 1
          BY <1>8, <3>1, <3>4, <4>1
        <4> QED
          BY <4>1, <4>2 DEF Ahead
      <3> QED
        BY <2>1, <2>2, <3>5, <3>6, <3>7 DEF Ways
    <2>4. CASE angle = NaN
      <3>1. at' = tick'.to /\ step' = step
        BY <1>1, <2>4
      <3>2. ASSUME step # 0 PROVE Drifts'
        <4>1. kind = "player"
          BY <1>1, <1>2, <2>4, <3>2 DEF Types, Ways
        <4>2. history'.drifts
          BY <1>8, <2>4, <3>2
        <4> QED
          BY <1>1, <4>1, <4>2 DEF Drifts
      <3> QED
        BY <2>1, <2>2, <3>1, <3>2 DEF Ways
    <2> QED
      BY <2>3, <2>4
  <1> QED
    BY <1>9, <1>10, <1>11 DEF IInv

LEMMA TickEndKeeps ==
  ASSUME InterpolationAssumption, IInv, TickEnd
  PROVE  IInv'
  <1>1. /\ pc["net"] = "angle" /\ pc' = [pc EXCEPT !["net"] = "idle"]
        /\ angle' = IF tick.dt = NaN THEN NaN ELSE IF AtRest(tick.dt) THEN NaN ELSE tick.dt
        /\ history' = [history EXCEPT !.raced = @ \/ (pc["win"] = "move" /\ angle' = NaN)]
        /\ kind' = kind /\ at' = at /\ step' = step /\ target' = target /\ toward' = toward
        /\ tick' = tick
    BY DEF TickEnd
  <1>2. Types /\ Races /\ Ways
    BY DEF IInv
  <1>3. at # NaN
    BY <1>1, <1>2 DEF Races
  <1>4. tick.dt # NaN => tick.dt \in Pair
    BY <1>2 DEF Types, Numeric
  <1>5. ASSUME angle' # NaN PROVE angle' = tick.dt /\ tick.dt \in Pair /\ tick.dt # <<0, 0>>
    <2>1. tick.dt # NaN /\ ~AtRest(tick.dt) /\ angle' = tick.dt
      BY <1>1, <1>5
    <2>2. tick.dt # <<0, 0>>
      <3>1. AtRest(<<0, 0>>)
        BY DEF AtRest
      <3> QED
        BY <2>1, <3>1
    <2> QED
      BY <1>4, <2>1, <2>2
  <1>6. /\ pc'["net"] = "idle" /\ pc'["win"] = pc["win"]
        /\ pc' \in [net : {"idle", "angle"}, win : {"idle", "move"}]
    BY <1>1, <1>2 DEF Types
  <1>7. /\ history'.from = history.from /\ history'.drifts = history.drifts
        /\ history' \in [from : Pair, elapsed : Nat, drifts : BOOLEAN, raced : BOOLEAN]
        /\ (pc["win"] = "move" /\ angle' = NaN) => history'.raced
    BY <1>1, <1>2 DEF Types
  <1>8. Types'
    <2>1. angle' # NaN => Square(angle') \in Nat \ {0}
      BY <1>5, Squares
    <2>2. angle' \in Numeric
      BY <1>5 DEF Numeric
    <2> QED
      BY <1>1, <1>2, <1>6, <1>7, <2>1, <2>2 DEF Types, Square, Numeric
  <1>9. Races'
    BY <1>1, <1>3, <1>6, <1>7 DEF Races
  <1>10. ASSUME kind = "object", angle' = NaN PROVE step = 0
    <2>1. SUFFICES ASSUME step # 0 PROVE FALSE
      OBVIOUS
    <2>2. tick.dt \notin {NaN, <<0, 0>>}
      BY <1>2, <1>10, <2>1 DEF Ways, Drifts
    <2>3. ~AtRest(tick.dt)
      BY <1>10, <2>2 DEF AtRest
    <2> QED
      BY <1>1, <1>10, <2>2, <2>3
  <1>11. Ways'
    <2>1. Drifts' = Drifts /\ Ahead(1)' = Ahead(1) /\ Ahead(2)' = Ahead(2)
      BY <1>1, <1>7 DEF Drifts, Ahead
    <2> QED
      BY <1>1, <1>2, <1>5, <1>7, <1>10, <2>1 DEF Ways
  <1> QED
    BY <1>8, <1>9, <1>11 DEF IInv

LEMMA GotoKeeps ==
  ASSUME InterpolationAssumption, IInv, NEW to \in Place, Goto(to)
  PROVE  IInv'
  <1>1. /\ kind = "player" /\ at' = to /\ history' = [history EXCEPT !.drifts = TRUE]
        /\ pc = [net |-> "idle", win |-> "idle"]
        /\ kind' = kind /\ angle' = angle /\ step' = step /\ target' = target /\ toward' = toward
        /\ pc' = pc /\ tick' = tick
    BY DEF Goto
  <1>2. Types /\ Races /\ Ways
    BY DEF IInv
  <1>3. to \in Pair /\ to # NaN
    BY PlacesArePairs
  <1>4. history'.drifts /\ history' \in [from : Pair, elapsed : Nat, drifts : BOOLEAN, raced : BOOLEAN]
    BY <1>1, <1>2 DEF Types
  <1>5. Types'
    BY <1>1, <1>2, <1>3, <1>4 DEF Types, Square, Numeric
  <1>6. Races'
    BY <1>1, <1>3 DEF Races
  <1>7. Ways'
    BY <1>1, <1>2, <1>4 DEF Ways, Drifts
  <1> QED
    BY <1>5, <1>6, <1>7 DEF IInv

LEMMA AskKeeps ==
  ASSUME InterpolationAssumption, IInv, Ask
  PROVE  IInv'
  <1>1. /\ angle # NaN /\ pc' = [pc EXCEPT !["win"] = "move"]
        /\ kind' = kind /\ at' = at /\ angle' = angle /\ step' = step /\ target' = target
        /\ toward' = toward /\ tick' = tick /\ history' = history
    BY DEF Ask
  <1>2. Types /\ Races /\ Ways
    BY DEF IInv
  <1>3. /\ pc'["net"] = pc["net"]
        /\ pc' \in [net : {"idle", "angle"}, win : {"idle", "move"}]
    BY <1>1, <1>2 DEF Types
  <1>4. Types'
    BY <1>1, <1>2, <1>3 DEF Types, Square, Numeric
  <1>5. Races'
    BY <1>1, <1>2, <1>3 DEF Races
  <1>6. Ways'
    BY <1>1, <1>2, <1>3 DEF Ways, Drifts, Ahead
  <1> QED
    BY <1>4, <1>5, <1>6 DEF IInv

LEMMA RestKeeps ==
  ASSUME InterpolationAssumption, IInv, NEW dt \in Frames, Rest(dt)
  PROVE  IInv'
  <1>1. /\ history' = [history EXCEPT !.elapsed = @ + dt]
        /\ kind' = kind /\ at' = at /\ angle' = angle /\ step' = step /\ target' = target
        /\ toward' = toward /\ pc' = pc /\ tick' = tick
    BY DEF Rest
  <1>2. Types /\ Races /\ Ways
    BY DEF IInv
  <1>3. /\ history'.from = history.from /\ history'.drifts = history.drifts
        /\ history'.raced = history.raced
        /\ history' \in [from : Pair, elapsed : Nat, drifts : BOOLEAN, raced : BOOLEAN]
    <2>1. dt \in Nat
      BY DEF InterpolationAssumption
    <2> QED
      BY <1>1, <1>2, <2>1 DEF Types
  <1>4. Types'
    BY <1>1, <1>2, <1>3 DEF Types, Square, Numeric
  <1>5. Races'
    BY <1>1, <1>2, <1>3 DEF Races
  <1>6. Ways'
    BY <1>1, <1>2, <1>3 DEF Ways, Drifts, Ahead
  <1> QED
    BY <1>4, <1>5, <1>6 DEF IInv

-----------------------------------------------------------------------------
\* One axis of a move: it is not against the angle, and not past the target.
LEMMA MovedFacts ==
  ASSUME InterpolationAssumption, Types, at \in Pair, angle # NaN,
         NEW dt \in Nat, NEW i \in 1..2
  PROVE  /\ Moved(i, dt) \in Int
         /\ step = 0 => Moved(i, dt) = at[i]
         /\ (angle[i] < 0 /\ toward[i] = -1 /\ target[i] <= at[i]) =>
              target[i] <= Moved(i, dt) /\ Moved(i, dt) <= at[i]
         /\ (~(angle[i] < 0) /\ toward[i] = 1 /\ at[i] <= target[i]) =>
              at[i] <= Moved(i, dt) /\ Moved(i, dt) <= target[i]
  <1>1. /\ at[i] \in Int /\ target[i] \in Int /\ step \in Nat /\ TickTime \in Nat \ {0}
        /\ angle \in Pair /\ Square(angle) \in Nat \ {0} /\ angle[i] \in Int
    BY DEF Types, Numeric, Pair, InterpolationAssumption
  <1>2. PICK s : s = Scaled(angle, step, i)
    OBVIOUS
  <1>3. s \in Int /\ (angle[i] < 0 => s <= 0) /\ (~(angle[i] < 0) => s >= 0) /\ (step = 0 => s = 0)
    BY <1>1, <1>2, ScaledSign
  <1>4. PICK p : p = dt * s
    OBVIOUS
  <1>5. p \in Int /\ (s <= 0 => p <= 0) /\ (s >= 0 => p >= 0)
    BY <1>3, <1>4, Products
  <1>6. PICK q : q = p \div TickTime
    OBVIOUS
  <1>7. q \in Int /\ (p <= 0 => q <= 0) /\ (p >= 0 => q >= 0)
    BY <1>1, <1>5, <1>6, Quotient
  <1>8. /\ angle[i] < 0 => q <= 0
        /\ ~(angle[i] < 0) => q >= 0
        /\ step = 0 => q = 0
    BY <1>3, <1>5, <1>7
  <1>9. Moved(i, dt) = IF (IF toward[i] = -1 THEN target[i] > at[i] + q ELSE target[i] < at[i] + q)
                       THEN at[i] ELSE at[i] + q
    BY <1>2, <1>4, <1>6 DEF Moved
  <1> QED
    BY <1>1, <1>7, <1>8, <1>9

LEMMA MoveKeeps ==
  ASSUME InterpolationAssumption, IInv, NEW dt \in Frames, Move(dt)
  PROVE  IInv'
  <1>1. /\ pc["win"] = "move" /\ pc["net"] = "idle" /\ pc' = [pc EXCEPT !["win"] = "idle"]
        /\ at' = IF angle = NaN \/ at = NaN THEN NaN ELSE <<Moved(1, dt), Moved(2, dt)>>
        /\ history' = [history EXCEPT !.elapsed = @ + dt]
        /\ kind' = kind /\ angle' = angle /\ step' = step /\ target' = target
        /\ toward' = toward /\ tick' = tick
    BY DEF Move
  <1>2. Types /\ Races /\ Ways
    BY DEF IInv
  <1>3. dt \in Nat
    BY DEF InterpolationAssumption
  <1>4. /\ history'.from = history.from /\ history'.drifts = history.drifts
        /\ history'.raced = history.raced
        /\ history' \in [from : Pair, elapsed : Nat, drifts : BOOLEAN, raced : BOOLEAN]
    BY <1>1, <1>2, <1>3 DEF Types
  <1>5. /\ pc'["net"] = "idle" /\ pc'["win"] = "idle"
        /\ pc' \in [net : {"idle", "angle"}, win : {"idle", "move"}]
    BY <1>1, <1>2 DEF Types
  <1>6. CASE angle = NaN \/ at = NaN
    <2>1. at' = NaN /\ angle = NaN /\ history.raced
      BY <1>1, <1>2, <1>6 DEF Races
    <2>2. Types'
      BY <1>1, <1>2, <1>4, <1>5, <2>1 DEF Types, Square, Numeric
    <2>3. Races'
      BY <1>1, <1>4, <1>5, <2>1 DEF Races
    <2>4. Ways'
      BY <1>1, <1>2, <1>4, <1>5, <2>1 DEF Ways, Drifts
    <2> QED
      BY <2>2, <2>3, <2>4 DEF IInv
  <1>7. CASE ~(angle = NaN \/ at = NaN)
    <2>1. at \in Pair /\ angle # NaN
      BY <1>2, <1>7 DEF Types, Numeric
    <2>2. PICK a, b : a = Moved(1, dt) /\ b = Moved(2, dt)
      OBVIOUS
    <2>3. 1 \in 1..2 /\ 2 \in 1..2
      OBVIOUS
    <2>4. /\ a \in Int
          /\ step = 0 => a = at[1]
          /\ (angle[1] < 0 /\ toward[1] = -1 /\ target[1] <= at[1]) => target[1] <= a /\ a <= at[1]
          /\ (~(angle[1] < 0) /\ toward[1] = 1 /\ at[1] <= target[1]) => at[1] <= a /\ a <= target[1]
      BY <1>2, <1>3, <2>1, <2>2, <2>3, MovedFacts
    <2>5. /\ b \in Int
          /\ step = 0 => b = at[2]
          /\ (angle[2] < 0 /\ toward[2] = -1 /\ target[2] <= at[2]) => target[2] <= b /\ b <= at[2]
          /\ (~(angle[2] < 0) /\ toward[2] = 1 /\ at[2] <= target[2]) => at[2] <= b /\ b <= target[2]
      BY <1>2, <1>3, <2>1, <2>2, <2>3, MovedFacts
    <2>6. at' = <<a, b>> /\ at'[1] = a /\ at'[2] = b /\ at' \in Pair /\ at' # NaN
      <3>1. at' = <<a, b>>
        BY <1>1, <1>7, <2>2
      <3>2. <<a, b>> \in Pair
        BY <2>4, <2>5 DEF Pair
      <3> QED
        BY <3>1, <3>2, PlacesArePairs
    <2>7. Types'
      BY <1>1, <1>2, <1>4, <1>5, <2>6 DEF Types, Square, Numeric
    <2>8. Races'
      BY <1>5, <2>6 DEF Races
    <2>9. ASSUME step = 0 PROVE at' = at
      <3>1. PICK c \in Int, d \in Int : at = <<c, d>>
        BY <2>1 DEF Pair
      <3> QED
        BY <2>4, <2>5, <2>6, <2>9, <3>1
    <2>10. ASSUME ~Drifts, step # 0 PROVE Ahead(1)' /\ Ahead(2)'
      <3>1. target = tick.to /\ Ahead(1) /\ Ahead(2)
        BY <1>2, <1>7, <2>10 DEF Ways
      <3>2. angle = tick.dt
        BY <1>1, <1>2, <1>7 DEF Ways
      <3>3. /\ at[1] \in Int /\ at[2] \in Int /\ target[1] \in Int /\ target[2] \in Int
            /\ history.from[1] \in Int /\ history.from[2] \in Int
        BY <1>2, <2>1 DEF Types, Pair
      <3>4. Ahead(1)'
        BY <1>1, <1>4, <2>4, <2>6, <3>1, <3>2, <3>3 DEF Ahead
      <3>5. Ahead(2)'
        BY <1>1, <1>4, <2>5, <2>6, <3>1, <3>2, <3>3 DEF Ahead
      <3> QED
        BY <3>4, <3>5
    <2>11. Ways'
      <3>1. Drifts' = Drifts
        BY <1>1, <1>4 DEF Drifts
      <3> QED
        BY <1>1, <1>2, <1>4, <1>5, <1>7, <2>9, <2>10, <3>1 DEF Ways
    <2> QED
      BY <2>7, <2>8, <2>11 DEF IInv
  <1> QED
    BY <1>6, <1>7

LEMMA NextKeeps ==
  ASSUME InterpolationAssumption, IInv, [Next]_vars
  PROVE  IInv'
  <1>1. CASE Next
    BY <1>1, TickBeginKeeps, GotoKeeps, TickEndKeeps, AskKeeps, RestKeeps, MoveKeeps DEF Next
  <1>2. CASE UNCHANGED vars
    <2>1. /\ kind' = kind /\ at' = at /\ angle' = angle /\ step' = step /\ target' = target
          /\ toward' = toward /\ pc' = pc /\ tick' = tick /\ history' = history
      BY <1>2 DEF vars
    <2> QED
      BY <2>1 DEF IInv, Types, Races, Ways, Drifts, Ahead, Square, Numeric
  <1> QED
    BY <1>1, <1>2

LEMMA IInvBetween ==
  ASSUME InterpolationAssumption, IInv
  PROVE  StaysBetween
  <1>1. SUFFICES ASSUME at # NaN, kind = "object" \/ ~history.drifts, NEW i \in 1..2
                 PROVE  Between(at[i], history.from[i], tick.to[i])
    BY DEF StaysBetween
  <1>2. Types /\ Races /\ Ways /\ ~Drifts
    BY <1>1 DEF IInv, Ways, Drifts
  <1>3. at[i] \in Int /\ history.from[i] \in Int /\ tick.to[i] \in Int
    BY <1>1, <1>2 DEF Types, Numeric, Pair
  <1>4. CASE step = 0
    <2>1. at[i] = tick.to[i]
      BY <1>1, <1>2, <1>4 DEF Ways
    <2> QED
      BY <1>3, <2>1 DEF Between
  <1>5. CASE step # 0
    <2>1. Ahead(1) /\ Ahead(2)
      BY <1>1, <1>2, <1>5 DEF Ways
    <2>2. i = 1 \/ i = 2
      OBVIOUS
    <2>3. Ahead(i)
      BY <2>1, <2>2
    <2> QED
      BY <1>3, <2>3 DEF Ahead, Between
  <1> QED
    BY <1>4, <1>5

LEMMA Invariance ==
  ASSUME InterpolationAssumption
  PROVE  Spec => []IInv
  <1>1. Init => IInv
    BY InitIInv
  <1>2. IInv /\ [Next]_vars => IInv'
    BY NextKeeps
  <1> QED
    BY <1>1, <1>2, PTL DEF Spec

\* However long the frames are and wherever the server puts an entity, it is
\* shown between where it was and where the server said; but for a player
\* whose step and target are those of an earlier way.
\* (network.zig 667-681, map.zig 1325-1342)
THEOREM AlwaysBetween ==
  ASSUME InterpolationAssumption
  PROVE  Spec => []StaysBetween
  <1>1. IInv => StaysBetween
    BY IInvBetween
  <1> QED
    BY <1>1, Invariance, PTL

\* A place becomes no number only if a tick put the entity to rest between
\* update's question and the lock.  (map.zig 1321-1326, network.zig 680)
THEOREM NaNOnlyIfRaced ==
  ASSUME InterpolationAssumption
  PROVE  Spec => []NowhereOnlyIfRaced
  <1>1. IInv => NowhereOnlyIfRaced
    BY DEF IInv, Races, NowhereOnlyIfRaced
  <1> QED
    BY <1>1, Invariance, PTL
-----------------------------------------------------------------------------
(* Interpolation: how near the target the entity gets.                       *)

Bounds ==
  /\ toward \in {-1, 1} \X {-1, 1} /\ tick.to \in Place
  /\ count \in [ticks : 0..MaxTicks, gotos : 0..MaxGotos, frames : 0..MaxFrames]
  /\ pc["win"] = "move" => count.frames < MaxFrames
  /\ history.elapsed > 0 => count.frames > 0

\* What of a way is left after the frames of a tick, but for a frame that was
\* dropped.
InTime(left, way, elapsed, frames) ==
  \/ TickTime * left + elapsed * way <= TickTime * way + frames * (TickTime - 1)
  \/ \E dt \in Frames : TickTime * left < dt * way

Left(i) == InTime(Abs(tick.to[i] - at[i]), Abs(tick.dt[i]), history.elapsed, count.frames)

Late ==
  ~Drifts /\ step # 0 =>
    /\ step = Square(tick.dt) /\ (pc["net"] = "angle" => angle # NaN)
    /\ at # NaN /\ angle # NaN => Left(1) /\ Left(2)

OnTime == Bounds /\ Late

LEMMA InitOnTime ==
  ASSUME InterpolationAssumption, Init
  PROVE  OnTime
<1>1. Bounds  BY DEF Init, Bounds, InterpolationAssumption
<1>2. step = 0  BY DEF Init
<1> QED  BY <1>1, <1>2 DEF OnTime, Late

LEMMA TickBeginOnTime ==
  ASSUME InterpolationAssumption, IInv, OnTime, NEW to \in Place, TickBegin(to)
  PROVE  OnTime'
<1>1. /\ pc["net"] = "idle" /\ count.ticks < MaxTicks /\ pc' = [pc EXCEPT !["net"] = "angle"]
      /\ tick' = [to |-> to, dt |-> Minus(at, to)]
      /\ count' = [count EXCEPT !.ticks = @ + 1, !.frames = 0]
      /\ history' = [history EXCEPT !.from = at', !.elapsed = 0, !.drifts = angle = NaN /\ step # 0]
      /\ kind' = kind /\ angle' = angle
  BY DEF TickBegin
<1>2. Types /\ Races /\ Ways /\ Bounds  BY DEF IInv, OnTime
<1>3. pc'["win"] = pc["win"] /\ pc'["net"] = "angle" /\ history'.elapsed = 0
      /\ history'.drifts = (angle = NaN /\ step # 0) /\ tick'.to = to /\ tick'.dt = Minus(at, to)
      /\ count'.frames = 0
  BY <1>1, <1>2 DEF Types, Bounds
<1>4. Bounds'
  <2>1. toward' \in {-1, 1} \X {-1, 1}
    <3>1. angle # NaN => toward' = [i \in 1..2 |-> IF at[i] > to[i] THEN -1 ELSE 1]  BY DEF TickBegin
    <3>2. angle = NaN => toward' = toward  BY DEF TickBegin
    <3>3. [i \in 1..2 |-> IF at[i] > to[i] THEN -1 ELSE 1] \in {-1, 1} \X {-1, 1}  OBVIOUS
    <3> QED  BY <1>2, <3>1, <3>2, <3>3 DEF Bounds
  <2>2. count' \in [ticks : 0..MaxTicks, gotos : 0..MaxGotos, frames : 0..MaxFrames]
    <3>1. MaxTicks \in Nat /\ MaxFrames \in Nat  BY DEF InterpolationAssumption
    <3>2. count.ticks + 1 \in 0..MaxTicks /\ 0 \in 0..MaxFrames
      <4>1. count.ticks \in 0..MaxTicks  BY <1>2 DEF Bounds
      <4> QED  BY <1>1, <3>1, <4>1
    <3> QED  BY <1>1, <1>2, <3>2 DEF Bounds
  <2>3. pc'["win"] = "move" => count'.frames < MaxFrames
    BY <1>2, <1>3 DEF Bounds, InterpolationAssumption
  <2> QED  BY <1>3, <2>1, <2>2, <2>3 DEF Bounds
<1>5. CASE angle = NaN
  <2>1. step' = step  BY <1>5 DEF TickBegin
  <2>2. step # 0 => kind = "player"  BY <1>1, <1>2, <1>5 DEF Types, Ways
  <2>3. step' # 0 => Drifts'  BY <1>1, <1>3, <1>5, <2>1, <2>2 DEF Drifts
  <2> QED  BY <1>4, <2>3 DEF OnTime, Late
<1>6. CASE angle # NaN
  <2>1. at' = at /\ step' = Square(Minus(at, to))  BY <1>6 DEF TickBegin
  <2>2. at \in Pair /\ to \in Pair  BY <1>2, <1>6, PlacesArePairs DEF Types, Races, Numeric
  <2>3. tick'.dt = <<to[1] - at[1], to[2] - at[2]>>  BY <1>3, <2>2, MinusFacts
  <2>4. ASSUME NEW i \in 1..2  PROVE Left(i)'
    <3>1. at[i] \in Int /\ to[i] \in Int  BY <2>2 DEF Pair
    <3>2. tick'.dt[i] = to[i] - at[i]  BY <2>3
    <3>3. PICK w : w = Abs(to[i] - at[i])  OBVIOUS
    <3>4. w \in Nat  BY <3>1, <3>3 DEF Abs
    <3>5. InTime(w, w, 0, 0)
      <4>1. TickTime \in Nat  BY DEF InterpolationAssumption
      <4> QED  BY <3>4, <4>1 DEF InTime
    <3> QED  BY <1>3, <2>1, <3>2, <3>3, <3>5 DEF Left, Abs
  <2>5. Left(1)' /\ Left(2)'  BY <2>4
  <2> QED  BY <1>1, <1>3, <1>4, <1>6, <2>1, <2>5 DEF OnTime, Late, Square
<1> QED  BY <1>5, <1>6

LEMMA TickEndOnTime ==
  ASSUME InterpolationAssumption, IInv, OnTime, TickEnd
  PROVE  OnTime'
<1>1. /\ pc["net"] = "angle" /\ pc' = [pc EXCEPT !["net"] = "idle"]
      /\ kind' = kind /\ at' = at /\ step' = step /\ toward' = toward /\ tick' = tick /\ count' = count
  BY DEF TickEnd
<1>2. history' = [history EXCEPT !.raced = @ \/ (pc["win"] = "move" /\ angle' = NaN)]  BY DEF TickEnd
<1>3. Types /\ Bounds  BY DEF IInv, OnTime
<1>4. history'.elapsed = history.elapsed /\ history'.drifts = history.drifts
      /\ pc'["win"] = pc["win"] /\ pc'["net"] = "idle"
  BY <1>1, <1>2, <1>3 DEF Types
<1>5. Bounds'  BY <1>1, <1>3, <1>4 DEF Bounds
<1>6. Drifts' = Drifts /\ Left(1)' = Left(1) /\ Left(2)' = Left(2)
  BY <1>1, <1>4 DEF Drifts, Left, InTime, Abs
<1> QED  BY <1>1, <1>4, <1>5, <1>6 DEF OnTime, Late, Square

LEMMA GotoOnTime ==
  ASSUME InterpolationAssumption, IInv, OnTime, NEW to \in Place, Goto(to)
  PROVE  OnTime'
<1>1. /\ kind = "player" /\ count.gotos < MaxGotos /\ count' = [count EXCEPT !.gotos = @ + 1]
      /\ history' = [history EXCEPT !.drifts = TRUE]
      /\ kind' = kind /\ toward' = toward /\ tick' = tick /\ pc' = pc
  BY DEF Goto
<1>2. Types /\ Bounds  BY DEF IInv, OnTime
<1>3. history'.elapsed = history.elapsed /\ history'.drifts  BY <1>1, <1>2 DEF Types
<1>4. MaxGotos \in Nat  BY DEF InterpolationAssumption
<1>5. /\ count' \in [ticks : 0..MaxTicks, gotos : 0..MaxGotos, frames : 0..MaxFrames]
      /\ count'.frames = count.frames
  BY <1>1, <1>2, <1>4 DEF Bounds
<1>6. Bounds'  BY <1>1, <1>2, <1>3, <1>5 DEF Bounds
<1>7. Drifts'  BY <1>1, <1>3 DEF Drifts
<1> QED  BY <1>6, <1>7 DEF OnTime, Late

LEMMA AskOnTime ==
  ASSUME InterpolationAssumption, IInv, OnTime, Ask
  PROVE  OnTime'
<1>1. /\ count.frames < MaxFrames /\ pc' = [pc EXCEPT !["win"] = "move"]
      /\ kind' = kind /\ at' = at /\ angle' = angle /\ step' = step /\ toward' = toward /\ tick' = tick
      /\ count' = count /\ history' = history
  BY DEF Ask
<1>2. Types /\ Bounds  BY DEF IInv, OnTime
<1>3. pc'["net"] = pc["net"]  BY <1>1, <1>2 DEF Types
<1>4. Bounds'  BY <1>1, <1>2 DEF Bounds
<1>5. Drifts' = Drifts /\ Left(1)' = Left(1) /\ Left(2)' = Left(2)
  BY <1>1 DEF Drifts, Left, InTime, Abs
<1> QED  BY <1>1, <1>3, <1>4, <1>5 DEF OnTime, Late, Square

\* A frame is counted.
LEMMA FrameBounds ==
  ASSUME InterpolationAssumption, IInv, OnTime, NEW dt \in Frames, count.frames < MaxFrames,
         count' = [count EXCEPT !.frames = @ + 1], history' = [history EXCEPT !.elapsed = @ + dt],
         toward' = toward, tick' = tick, pc'["win"] # "move"
  PROVE  Bounds' /\ history'.elapsed = history.elapsed + dt /\ count'.frames = count.frames + 1
<1>1. Types /\ Bounds  BY DEF IInv, OnTime
<1>2. MaxFrames \in Nat /\ dt \in Nat \ {0}  BY DEF InterpolationAssumption
<1>3. history'.elapsed = history.elapsed + dt /\ count'.frames = count.frames + 1
  BY <1>1 DEF Types, Bounds
<1>4. /\ count.frames \in 0..MaxFrames /\ count.frames + 1 \in 0..MaxFrames
  BY <1>1, <1>2 DEF Bounds
<1>5. count' \in [ticks : 0..MaxTicks, gotos : 0..MaxGotos, frames : 0..MaxFrames]
  BY <1>1, <1>4 DEF Bounds
<1>6. count'.frames > 0  BY <1>3, <1>4
<1> QED  BY <1>1, <1>3, <1>5, <1>6 DEF Bounds

LEMMA RestOnTime ==
  ASSUME InterpolationAssumption, IInv, OnTime, NEW dt \in Frames, Rest(dt)
  PROVE  OnTime'
<1>1. /\ pc["win"] = "idle" /\ count.frames < MaxFrames /\ ~(angle # NaN /\ step > 0)
      /\ count' = [count EXCEPT !.frames = @ + 1] /\ history' = [history EXCEPT !.elapsed = @ + dt]
      /\ kind' = kind /\ at' = at /\ angle' = angle /\ step' = step /\ toward' = toward /\ tick' = tick
      /\ pc' = pc
  BY DEF Rest
<1>2. Bounds'
  <2>1. pc'["win"] # "move"  BY <1>1
  <2> QED  BY <1>1, <2>1, FrameBounds
<1>3. Types  BY DEF IInv
<1>4. history'.drifts = history.drifts  BY <1>1, <1>3 DEF Types
<1>5. Drifts' = Drifts  BY <1>1, <1>4 DEF Drifts
<1>6. step \in Nat  BY <1>3 DEF Types
<1>7. ~(angle' # NaN /\ step' # 0)  BY <1>1, <1>6
<1> QED  BY <1>1, <1>2, <1>5, <1>7 DEF OnTime, Late, Square

\* A frame brings the entity its share nearer, or is dropped.
LEMMA Nearer ==
  ASSUME InterpolationAssumption, NEW n \in Int, NEW to \in Int, NEW d \in Int, NEW dt \in Frames,
         NEW elapsed \in Nat, NEW frames \in Nat,
         InTime(Abs(to - n), Abs(d), elapsed, frames),
         IF d < 0 THEN to <= n ELSE n <= to
  PROVE  LET next == n + (dt * d) \div TickTime
             after == IF (IF d < 0 THEN to > next ELSE to < next) THEN n ELSE next
         IN InTime(Abs(to - after), Abs(d), elapsed + dt, frames + 1)
<1>1. TickTime \in Nat \ {0} /\ dt \in Nat \ {0}  BY DEF InterpolationAssumption
<1>2. PICK p \in Int : p = dt * d  BY <1>1
<1>3. PICK q \in Int, r \in 0 .. TickTime - 1 : p = q * TickTime + r /\ p \div TickTime = q
  BY <1>1, QuotientExists
<1> DEFINE after == IF (IF d < 0 THEN to > n + q ELSE to < n + q) THEN n ELSE n + q
           w == Abs(d)
<1> SUFFICES InTime(Abs(to - after), w, elapsed + dt, frames + 1)  BY <1>2, <1>3
<1>4. w \in Nat /\ dt * w = IF d < 0 THEN -p ELSE p
  <2>1. dt * (-d) = -(dt * d)  BY <1>1
  <2> QED  BY <1>1, <1>2, <2>1 DEF Abs
<1>5. d < 0 => p <= 0 /\ q <= 0
  BY <1>1, <1>2, <1>3, Products, Quotient
<1>6. d >= 0 => p >= 0 /\ q >= 0
  BY <1>1, <1>2, <1>3, Products, Quotient
<1>7. after \in Int /\ Abs(to - after) \in Nat /\ Abs(to - n) \in Nat  BY <1>3 DEF Abs
<1> HIDE DEF w
<1>8. CASE after = n /\ (IF d < 0 THEN to > n + q ELSE to < n + q)
  <2>1. TickTime * Abs(to - n) < dt * w
    <3>1. PICK a \in Int, b \in Nat : a = (IF d < 0 THEN -q ELSE q) /\ b = Abs(to - n)  BY <1>7
    <3>6. b + 1 <= a
      <4>1. CASE d < 0
        <5>1. to > n + q /\ a = -q /\ b = n - to  BY <1>8, <3>1, <4>1 DEF Abs
        <5> QED  BY <5>1
      <4>2. CASE ~(d < 0)
        <5>1. to < n + q /\ a = q /\ b = to - n  BY <1>8, <3>1, <4>2 DEF Abs
        <5> QED  BY <5>1
      <4> QED  BY <4>1, <4>2
    <3>2. (a - b - 1) * TickTime >= 0
      <4>1. a - b - 1 \in Nat  BY <3>1, <3>6
      <4> QED  BY <1>1, <4>1
    <3>3. (a - b - 1) * TickTime = a * TickTime - b * TickTime - TickTime  BY <1>1
    <3>4. a * TickTime = (IF d < 0 THEN -(q * TickTime) ELSE q * TickTime)  BY <1>1, <3>1
    <3>5. PICK A \in Int, B \in Int, C \in Int :
            A = a * TickTime /\ B = TickTime * b /\ C = q * TickTime /\ B = b * TickTime
      BY <1>1
    <3>7. B < dt * w
      BY <1>1, <1>3, <1>4, <3>2, <3>3, <3>4, <3>5
    <3> QED  BY <3>1, <3>5, <3>7
  <2>2. Abs(to - after) = Abs(to - n)  BY <1>8
  <2> HIDE DEF after
  <2> QED  BY <2>1, <2>2 DEF InTime
<1>9. CASE after = n + q /\ ~(IF d < 0 THEN to > n + q ELSE to < n + q)
  <2>1. PICK l \in Nat, m \in Nat : l = Abs(to - n) /\ m = Abs(to - after)  BY <1>7
  <2>2. m = (IF d < 0 THEN l + q ELSE l - q) /\ m <= l
    BY <1>3, <1>5, <1>6, <1>9, <2>1 DEF Abs
  <2>3. TickTime * m = IF d < 0 THEN TickTime * l + q * TickTime ELSE TickTime * l - q * TickTime
    <3>1. TickTime * (l + q) = TickTime * l + q * TickTime /\ TickTime * (l - q) = TickTime * l - q * TickTime
      BY <1>1
    <3> QED  BY <2>2, <3>1
  <2>4. TickTime * m <= TickTime * l
    <3>1. TickTime * (l - m) >= 0
      <4>1. l - m \in Nat  BY <2>2
      <4> QED  BY <1>1, <4>1
    <3>2. TickTime * (l - m) = TickTime * l - TickTime * m  BY <1>1
    <3>3. TickTime * l \in Int /\ TickTime * m \in Int  BY <1>1
    <3> QED  BY <3>1, <3>2, <3>3
  <2>5. ASSUME TickTime * l + elapsed * w <= TickTime * w + frames * (TickTime - 1)
        PROVE  InTime(m, w, elapsed + dt, frames + 1)
    <3>1. (elapsed + dt) * w = elapsed * w + dt * w  BY <1>1, <1>4
    <3>2. (frames + 1) * (TickTime - 1) = frames * (TickTime - 1) + TickTime - 1  BY <1>1
    <3>3. PICK A \in Int, B \in Int, C \in Int, D \in Int, E \in Int, F \in Int, G \in Int :
            /\ A = TickTime * l /\ B = elapsed * w /\ C = TickTime * w /\ D = frames * (TickTime - 1)
            /\ E = TickTime * m /\ F = q * TickTime /\ G = dt * w
      BY <1>1, <1>4
    <3>4. E + G <= A + TickTime - 1
      <4>1. CASE d < 0
        <5>1. E = A + F /\ G = -p  BY <1>4, <2>3, <3>3, <4>1
        <5> QED  BY <1>1, <1>3, <3>3, <5>1
      <4>2. CASE ~(d < 0)
        <5>1. E = A - F /\ G = p  BY <1>4, <2>3, <3>3, <4>2
        <5> QED  BY <1>1, <1>3, <3>3, <5>1
      <4> QED  BY <4>1, <4>2
    <3>5. A + B <= C + D  BY <2>5, <3>3
    <3>6. E + (B + G) <= C + (D + TickTime - 1)
      BY <1>1, <3>3, <3>4, <3>5
    <3>7. TickTime * m + (elapsed + dt) * w <= TickTime * w + (frames + 1) * (TickTime - 1)
      BY <1>1, <3>1, <3>2, <3>3, <3>6
    <3> QED  BY <3>7 DEF InTime
  <2>6. ASSUME NEW f \in Frames, TickTime * l < f * w
        PROVE  InTime(m, w, elapsed + dt, frames + 1)
    <3>1. f \in Nat  BY DEF InterpolationAssumption
    <3>2. TickTime * l \in Int /\ TickTime * m \in Int /\ f * w \in Int  BY <1>1, <1>4, <3>1
    <3>3. TickTime * m < f * w  BY <2>4, <2>6, <3>2
    <3> QED  BY <3>3 DEF InTime
  <2>7. InTime(l, w, elapsed, frames)  BY <2>1 DEF w
  <2>8. InTime(m, w, elapsed + dt, frames + 1)  BY <2>5, <2>6, <2>7 DEF InTime
  <2> QED  BY <2>1, <2>8
<1> QED  BY <1>8, <1>9

\* On its way, the entity goes by the difference of the tick.
LEMMA MovedIs ==
  ASSUME InterpolationAssumption, NEW dt \in Frames, NEW i \in 1..2, angle \in Pair, angle = tick.dt,
         step = Square(angle), target = tick.to, toward[i] = (IF tick.dt[i] < 0 THEN -1 ELSE 1)
  PROVE  LET next == at[i] + (dt * tick.dt[i]) \div TickTime
         IN Moved(i, dt) = IF (IF tick.dt[i] < 0 THEN tick.to[i] > next ELSE tick.to[i] < next)
                           THEN at[i] ELSE next
<1>1. angle[i] \in Int  BY DEF Pair
<1>2. Scaled(angle, step, i) = angle[i]
  <2>1. Scaled(angle, step, i) = IF angle[i] < 0 THEN -Abs(angle[i]) ELSE Abs(angle[i])  BY DEF Scaled
  <2> QED  BY <1>1, <2>1 DEF Abs
<1> DEFINE next == at[i] + (dt * tick.dt[i]) \div TickTime
<1>3. Moved(i, dt) = IF (IF toward[i] = -1 THEN target[i] > next ELSE target[i] < next) THEN at[i] ELSE next
  BY <1>2 DEF Moved
<1> HIDE DEF next
<1>4. toward[i] = -1 <=> tick.dt[i] < 0  OBVIOUS
<1> QED  BY <1>3, <1>4 DEF next

LEMMA MoveOnTime ==
  ASSUME InterpolationAssumption, IInv, OnTime, NEW dt \in Frames, Move(dt)
  PROVE  OnTime'
<1>1. /\ pc["win"] = "move" /\ pc["net"] = "idle" /\ pc' = [pc EXCEPT !["win"] = "idle"]
      /\ at' = IF angle = NaN \/ at = NaN THEN NaN ELSE <<Moved(1, dt), Moved(2, dt)>>
      /\ count' = [count EXCEPT !.frames = @ + 1] /\ history' = [history EXCEPT !.elapsed = @ + dt]
      /\ kind' = kind /\ angle' = angle /\ step' = step /\ target' = target
      /\ toward' = toward /\ tick' = tick
  BY DEF Move
<1>2. Types /\ Ways /\ Bounds /\ Late  BY DEF IInv, OnTime
<1>3. pc'["win"] # "move" /\ pc'["net"] = "idle"  BY <1>1, <1>2 DEF Types
<1>4. /\ Bounds' /\ history'.elapsed = history.elapsed + dt /\ count'.frames = count.frames + 1
  <2>1. count.frames < MaxFrames  BY <1>1, <1>2 DEF Bounds
  <2> QED  BY <1>1, <1>3, <2>1, FrameBounds
<1>5. history'.drifts = history.drifts  BY <1>1, <1>2 DEF Types
<1>6. Drifts' = Drifts  BY <1>1, <1>5 DEF Drifts
<1>7. ASSUME ~Drifts, step # 0, at' # NaN, NEW i \in 1..2  PROVE Left(i)'
  <2>1. at # NaN /\ angle # NaN /\ at' = <<Moved(1, dt), Moved(2, dt)>>  BY <1>1, <1>7
  <2>2. at \in Pair /\ angle \in Pair /\ angle = tick.dt /\ tick.to \in Pair
    BY <1>1, <1>2, <2>1 DEF Types, Numeric, Ways
  <2>3. step = Square(angle) /\ target = tick.to /\ i \in {1, 2} /\ Left(1) /\ Left(2) /\ Ahead(1) /\ Ahead(2)
    BY <1>2, <1>7, <2>1, <2>2 DEF Late, Ways
  <2>4. Left(i) /\ Ahead(i)  BY <2>3
  <2>5. at[i] \in Int /\ tick.to[i] \in Int /\ tick.dt[i] \in Int  BY <2>2 DEF Pair
  <2>6. toward[i] = (IF tick.dt[i] < 0 THEN -1 ELSE 1)
        /\ IF tick.dt[i] < 0 THEN tick.to[i] <= at[i] ELSE at[i] <= tick.to[i]
    BY <2>4 DEF Ahead
  <2>7. PICK m : m = Moved(i, dt)  OBVIOUS
  <2>8. LET next == at[i] + (dt * tick.dt[i]) \div TickTime
        IN m = IF (IF tick.dt[i] < 0 THEN tick.to[i] > next ELSE tick.to[i] < next) THEN at[i] ELSE next
    BY <2>2, <2>3, <2>6, <2>7, MovedIs
  <2>9. history.elapsed \in Nat /\ count.frames \in Nat  BY <1>2 DEF Types, Bounds
  <2>10. InTime(Abs(tick.to[i] - m), Abs(tick.dt[i]), history.elapsed + dt, count.frames + 1)
    <3>1. InTime(Abs(tick.to[i] - at[i]), Abs(tick.dt[i]), history.elapsed, count.frames)
      BY <2>4 DEF Left
    <3> QED  BY <2>5, <2>6, <2>8, <2>9, <3>1, Nearer
  <2>11. at'[i] = m
    <3>1. <<Moved(1, dt), Moved(2, dt)>>[i] = Moved(i, dt)  BY <2>3
    <3> QED  BY <2>1, <2>7, <3>1
  <2> QED  BY <1>1, <1>4, <2>10, <2>11 DEF Left, InTime, Abs
<1>8. ~Drifts /\ step # 0 /\ at' # NaN => Left(1)' /\ Left(2)'  BY <1>7
<1> QED  BY <1>1, <1>2, <1>3, <1>4, <1>6, <1>8 DEF OnTime, Late, Square

LEMMA NextOnTime ==
  ASSUME InterpolationAssumption, IInv, OnTime, [Next]_vars
  PROVE  OnTime'
<1>1. CASE Next
  BY <1>1, TickBeginOnTime, GotoOnTime, TickEndOnTime, AskOnTime, RestOnTime, MoveOnTime DEF Next
<1>2. CASE UNCHANGED vars
  <2>1. /\ kind' = kind /\ at' = at /\ angle' = angle /\ step' = step /\ toward' = toward
        /\ pc' = pc /\ tick' = tick /\ count' = count /\ history' = history
    BY <1>2 DEF vars
  <2> QED  BY <2>1 DEF OnTime, Bounds, Late, Left, InTime, Drifts, Square, Abs
<1> QED  BY <1>1, <1>2

\* What is left when the time is over.
LEMMA OnTimeNear ==
  ASSUME InterpolationAssumption, IInv, OnTime
  PROVE  EndsNear
<1>1. SUFFICES ASSUME at # NaN, angle # NaN, kind = "object" \/ ~history.drifts,
                      pc = [net |-> "idle", win |-> "idle"], step > 0, history.elapsed >= TickTime, NEW i \in 1..2
               PROVE  \/ Abs(tick.to[i] - at[i]) < count.frames
                      \/ \E dt \in Frames : TickTime * Abs(tick.to[i] - at[i]) < dt * Abs(angle[i])
  BY DEF EndsNear
<1>2. Types /\ Ways /\ Bounds /\ Late  BY DEF IInv, OnTime
<1>3. ~Drifts /\ step # 0  BY <1>1, <1>2 DEF Drifts, Ways
<1>4. angle = tick.dt /\ at \in Pair /\ tick.to \in Pair /\ angle \in Pair
  BY <1>1, <1>2 DEF Types, Numeric, Ways
<1>5. Left(i)
  <2>1. Left(1) /\ Left(2) /\ i \in {1, 2}  BY <1>1, <1>2, <1>3 DEF Late
  <2> QED  BY <2>1
<1>6. TickTime \in Nat \ {0} /\ history.elapsed \in Nat /\ count.frames \in Nat \ {0}
  <2>1. TickTime \in Nat \ {0} /\ history.elapsed \in Nat /\ count.frames \in Nat
    BY <1>2 DEF Types, Bounds, InterpolationAssumption
  <2>2. history.elapsed > 0  BY <1>1, <2>1
  <2> QED  BY <1>2, <2>1, <2>2 DEF Bounds
<1>7. PICK l \in Nat, w \in Nat : l = Abs(tick.to[i] - at[i]) /\ w = Abs(tick.dt[i])
  <2>1. at[i] \in Int /\ tick.to[i] \in Int /\ tick.dt[i] \in Int  BY <1>4 DEF Pair
  <2> QED  BY <2>1 DEF Abs
<1>8. PICK e \in Nat, n \in Nat \ {0} : e = history.elapsed /\ n = count.frames  BY <1>6
<1>9. InTime(l, w, e, n)  BY <1>5, <1>7, <1>8 DEF Left
<1>10. ASSUME TickTime * l + e * w <= TickTime * w + n * (TickTime - 1)
       PROVE  l < n
  <2>1. (e - TickTime) * w >= 0
    <3>1. e - TickTime \in Nat  BY <1>1, <1>6, <1>8
    <3> QED  BY <3>1
  <2>2. (e - TickTime) * w = e * w - TickTime * w  BY <1>6
  <2>3. n * (TickTime - 1) = n * TickTime - n  BY <1>6
  <2>4. PICK A \in Int, B \in Int, C \in Int, D \in Int :
          A = TickTime * l /\ B = e * w /\ C = TickTime * w /\ D = n * TickTime
    BY <1>6
  <2>5. A < D  BY <1>10, <2>1, <2>2, <2>3, <2>4
  <2>6. ASSUME l >= n  PROVE FALSE
    <3>1. (l - n) * TickTime >= 0
      <4>1. l - n \in Nat  BY <2>6
      <4> QED  BY <1>6, <4>1
    <3>2. (l - n) * TickTime = TickTime * l - n * TickTime  BY <1>6
    <3> QED  BY <2>4, <2>5, <3>1, <3>2
  <2> QED  BY <2>6
<1> QED  BY <1>4, <1>7, <1>8, <1>9, <1>10 DEF InTime

LEMMA InvTypes ==
  ASSUME InterpolationAssumption, IInv, OnTime
  PROVE  TypeOK
<1>1. Types /\ Bounds  BY DEF IInv, OnTime
<1>2. \A v \in {at, angle, tick.dt} : v = NaN \/ v \in Int \X Int  BY <1>1 DEF Types, Numeric, Pair
<1> QED  BY <1>1, <1>2 DEF TypeOK, Types, Bounds, Pair

\* A step of the entity's way in either kind of motion.
LEMMA MotionInvariance == MotionSpec => [](IInv /\ OnTime)
<1>1. InterpolationAssumption  BY MotionAssumption
<1>2. MotionInit => IInv /\ OnTime  BY <1>1, InitIInv, InitOnTime DEF MotionInit
<1>3. [MotionNext]_allVars => [Next]_vars  BY DEF MotionNext, allVars
<1>4. IInv /\ OnTime /\ [MotionNext]_allVars => (IInv /\ OnTime)'  BY <1>1, <1>3, NextKeeps, NextOnTime
<1> QED  BY <1>2, <1>4, PTL DEF MotionSpec

\* An entity is shown between where it was and where the server said, and at
\* the end of a tick's time all but there.  (network.zig 656-681, map.zig 1325-1342)
THEOREM EntitiesFollow == MotionSpec => []Follows
<1>1. InterpolationAssumption  BY MotionAssumption
<1>2. IInv /\ OnTime => Follows  BY <1>1, InvTypes, IInvBetween, OnTimeNear DEF Follows
<1> QED  BY <1>2, MotionInvariance, PTL

-----------------------------------------------------------------------------
(* Movement: the own player's steps.                                         *)

\* n in the same tile as from, reaching into no other neighbour.
Inner(from, n) == n \in Int /\ n \div Tile = from \div Tile /\ Own!Side(n) \subseteq Own!Side(from)
Column(n) == n \div Tile \in 0 .. Width - 1
Row(n) == n \div Tile \in 0 .. Height - 1

\* What a coordinate may become on the way to another.
Moves(from, n, to) ==
  IF to < from THEN to <= n /\ n <= from
  ELSE /\ n <= to /\ (from <= n \/ n = (from \div Tile) * Tile + Tile - Nudge)
       /\ to = from => n = from

\* Where a coordinate may be after i steps of s.
Near(from, n) == from <= n \/ (from \div Tile) * Tile + Tile - Nudge <= n
Far(from, n, i, s) ==
  IF s < 0 THEN from + i * s <= n /\ n <= from ELSE n <= from + i * s /\ Near(from, n) /\ (s = 0 => n = from)

Short(from, to) == to - from < Own!Half /\ from - to < Own!Half


\* Where the own player is.
OnMap == x \in Int /\ y \in Int /\ Own!TypeOK

\* The tile, the half tile and what is left over of k tiles and r.
LEMMA MotionConstants ==
  /\ Tile \in Nat \ {0} /\ Own!Half \in Nat \ {0} /\ Tile = 2 * Own!Half
  /\ Threshold \in Nat \ {0} /\ Threshold < Own!Half
  /\ Nudge \in Nat \ {0} /\ Nudge <= Threshold
  /\ Width \in Nat \ {0} /\ Height \in Nat \ {0} /\ Strides \subseteq Nat
  BY MotionAssumption DEF Own!MovementAssumption, Own!Half

\* k tiles and s are 2 * k + j halves and what is left over.
LEMMA HalvesOf ==
  ASSUME NEW k \in Int, NEW s \in Int, NEW j \in -1 .. 2, j * Own!Half <= s, s < j * Own!Half + Own!Half
  PROVE  /\ (k * Tile + s) \div Own!Half = 2 * k + j
         /\ ((k * Tile + s) \div Own!Half) * Own!Half = k * Tile + j * Own!Half
         /\ (k * Tile + s) % Own!Half = s - j * Own!Half
<1>1. Own!Half \in Nat \ {0} /\ Tile = 2 * Own!Half  BY MotionConstants
<1> DEFINE h == Own!Half
<1>2. 2 * k + j \in Int /\ s - j * h \in 0 .. h - 1  BY <1>1
<1>3. (2 * k + j) * h = k * Tile + j * h
  <2>1. (2 * k) * h = k * (2 * h) /\ (2 * k + j) * h = (2 * k) * h + j * h  BY <1>1
  <2> QED  BY <1>1, <2>1
<1>4. k * Tile + s = (2 * k + j) * h + (s - j * h)
  <2>1. k * Tile \in Int /\ j * h \in Int  BY <1>1
  <2> QED  BY <1>1, <1>3, <2>1
<1> HIDE DEF h
<1>5. ((2 * k + j) * h + (s - j * h)) \div h = 2 * k + j /\ ((2 * k + j) * h + (s - j * h)) % h = s - j * h
  BY <1>1, <1>2, QuotientIs DEF h
<1> QED  BY <1>3, <1>4, <1>5 DEF h

\* Places from half a tile before tile k to half a tile behind it.
LEMMA Halves ==
  ASSUME NEW k \in Int, NEW K \in Int, K = k * Tile, NEW t \in Int
  PROVE  /\ (-Own!Half <= t /\ t < 0) => (K + t) \div Own!Half = 2 * k - 1
         /\ (0 <= t /\ t < Own!Half) =>
              (K + t) \div Own!Half = 2 * k /\ ((K + t) \div Own!Half) * Own!Half = K
              /\ (K + t) % Own!Half = t
         /\ (Own!Half <= t /\ t < Tile) =>
              (K + t) \div Own!Half = 2 * k + 1 /\ ((K + t) \div Own!Half) * Own!Half = K + Own!Half
              /\ (K + t) % Own!Half = t - Own!Half
         /\ (Tile <= t /\ t < Tile + Own!Half) =>
              (K + t) \div Own!Half = 2 * k + 2 /\ ((K + t) \div Own!Half) * Own!Half = K + Tile
<1>1. Own!Half \in Nat \ {0} /\ Tile = 2 * Own!Half  BY MotionConstants
<1>2. -1 \in -1 .. 2 /\ 0 \in -1 .. 2 /\ 1 \in -1 .. 2 /\ 2 \in -1 .. 2  OBVIOUS
<1>3. ASSUME -Own!Half <= t, t < 0  PROVE  (K + t) \div Own!Half = 2 * k - 1
  <2>1. (-1) * Own!Half <= t /\ t < (-1) * Own!Half + Own!Half  BY <1>1, <1>3
  <2>2. (k * Tile + t) \div Own!Half = 2 * k - 1  BY <1>2, <2>1, HalvesOf
  <2> QED  BY <2>2
<1>4. ASSUME 0 <= t, t < Own!Half
      PROVE  (K + t) \div Own!Half = 2 * k /\ ((K + t) \div Own!Half) * Own!Half = K /\ (K + t) % Own!Half = t
  <2>1. 0 * Own!Half = 0 /\ 0 * Own!Half <= t /\ t < 0 * Own!Half + Own!Half  BY <1>1, <1>4
  <2>2. /\ (k * Tile + t) \div Own!Half = 2 * k
        /\ ((k * Tile + t) \div Own!Half) * Own!Half = k * Tile + 0 * Own!Half
        /\ (k * Tile + t) % Own!Half = t - 0 * Own!Half
    BY <1>2, <2>1, HalvesOf
  <2> QED  BY <2>1, <2>2
<1>5. ASSUME Own!Half <= t, t < Tile
      PROVE  /\ (K + t) \div Own!Half = 2 * k + 1 /\ ((K + t) \div Own!Half) * Own!Half = K + Own!Half
             /\ (K + t) % Own!Half = t - Own!Half
  <2>1. 1 * Own!Half = Own!Half /\ 1 * Own!Half <= t /\ t < 1 * Own!Half + Own!Half  BY <1>1, <1>5
  <2>2. /\ (k * Tile + t) \div Own!Half = 2 * k + 1
        /\ ((k * Tile + t) \div Own!Half) * Own!Half = k * Tile + 1 * Own!Half
        /\ (k * Tile + t) % Own!Half = t - 1 * Own!Half
    BY <1>2, <2>1, HalvesOf
  <2> QED  BY <2>1, <2>2
<1>6. ASSUME Tile <= t, t < Tile + Own!Half
      PROVE  (K + t) \div Own!Half = 2 * k + 2 /\ ((K + t) \div Own!Half) * Own!Half = K + Tile
  <2>1. 2 * Own!Half = Tile /\ 2 * Own!Half <= t /\ t < 2 * Own!Half + Own!Half  BY <1>1, <1>6
  <2>2. /\ (k * Tile + t) \div Own!Half = 2 * k + 2
        /\ ((k * Tile + t) \div Own!Half) * Own!Half = k * Tile + 2 * Own!Half
    BY <1>2, <2>1, HalvesOf
  <2> QED  BY <2>1, <2>2
<1> QED  BY <1>3, <1>4, <1>5, <1>6

LEMMA TileAnd ==
  ASSUME NEW k \in Int, NEW r \in 0 .. Tile - 1
  PROVE  /\ (k * Tile + r) \div Tile = k /\ (k * Tile + r) % Tile = r
         /\ r < Own!Half => Own!Side(k * Tile + r) = {-Tile, 0}
         /\ r = Own!Half => Own!Side(k * Tile + r) = {0}
         /\ r > Own!Half => Own!Side(k * Tile + r) = {0, Tile}
<1>1. Own!Half \in Nat \ {0} /\ Tile \in Nat \ {0}  BY MotionConstants
<1>2. (k * Tile + r) \div Tile = k /\ (k * Tile + r) % Tile = r  BY <1>1, QuotientIs
<1>3. Own!Frac(k * Tile + r) = r  BY <1>2 DEF Own!Frac
<1> QED  BY <1>1, <1>2, <1>3 DEF Own!Side

\* Places of one tile, by where in it they are.
LEMMA InnerOf ==
  ASSUME NEW k \in Int, NEW r \in 0 .. Tile - 1, NEW s \in 0 .. Tile - 1,
         \/ r < Own!Half /\ s <= Own!Half
         \/ r = Own!Half /\ s = Own!Half
         \/ r > Own!Half /\ s >= Own!Half
  PROVE  Inner(k * Tile + r, k * Tile + s)
<1>1. Own!Half \in Nat \ {0} /\ Tile \in Nat \ {0}  BY MotionConstants
<1>2. k * Tile + s \in Int  BY <1>1
<1>3. (k * Tile + r) \div Tile = k /\ (k * Tile + s) \div Tile = k  BY TileAnd
<1>4. Own!Side(k * Tile + s) \subseteq Own!Side(k * Tile + r)
  <2>1. CASE s = Own!Half
    <3>1. Own!Side(k * Tile + s) = {0}  BY <2>1, TileAnd
    <3>2. r < Own!Half \/ r = Own!Half \/ r > Own!Half  BY <1>1
    <3>3. 0 \in Own!Side(k * Tile + r)  BY <3>2, TileAnd
    <3> QED  BY <3>1, <3>3
  <2>2. CASE r < Own!Half /\ s < Own!Half  BY <2>2, TileAnd
  <2>3. CASE r > Own!Half /\ s > Own!Half  BY <2>3, TileAnd
  <2> QED  BY <1>1, <2>1, <2>2, <2>3
<1> QED  BY <1>2, <1>3, <1>4 DEF Inner

\* A step of less than half a tile to a greater coordinate.
LEMMA AxisUp ==
  ASSUME NEW from \in Int, NEW to \in Int, from < to, to - from < Own!Half
  PROVE  /\ Own!Crosses(from, to) =>
              /\ Inner(from, Own!Border(from, to)) /\ Own!Border(from, to) <= to
              /\ \/ from <= Own!Border(from, to)
                 \/ Own!Border(from, to) = (from \div Tile) * Tile + Tile - Nudge
         /\ ~Own!Crosses(from, to) => Inner(from, to) /\ Own!Border(from, to) = 0
<1> DEFINE h == Own!Half
<1>1. h \in Nat \ {0} /\ Tile \in Nat \ {0} /\ Tile = 2 * h /\ Nudge \in Nat \ {0} /\ Nudge < h
  BY MotionConstants
<1>2. PICK k \in Int, r \in 0 .. Tile - 1 : from = k * Tile + r /\ from \div Tile = k
  BY <1>1, QuotientExists
<1>3. PICK K \in Int : K = k * Tile  BY <1>1
<1>4. PICK s \in Int : s = to - K  BY <1>3
<1>5. from = K + r /\ to = K + s /\ r < s /\ s < r + h
  <2>1. from = K + r /\ r \in Int  BY <1>1, <1>2, <1>3
  <2> QED  BY <1>1, <1>4, <2>1
<1>6. /\ r < h => from \div h = 2 * k /\ (from \div h) * h = K /\ from % h = r
      /\ r >= h => from \div h = 2 * k + 1 /\ (from \div h) * h = K + h /\ from % h = r - h
      /\ s < 0 => to \div h = 2 * k - 1
      /\ (0 <= s /\ s < h) => to \div h = 2 * k /\ (to \div h) * h = K
      /\ (h <= s /\ s < Tile) => to \div h = 2 * k + 1 /\ (to \div h) * h = K + h
      /\ Tile <= s => to \div h = 2 * k + 2 /\ (to \div h) * h = K + Tile
  <2>1. r \in Int /\ 0 <= r /\ r < Tile /\ -h <= s /\ s < Tile + h  BY <1>1, <1>5
  <2>2. /\ r < h => (K + r) \div h = 2 * k /\ ((K + r) \div h) * h = K /\ (K + r) % h = r
        /\ r >= h => (K + r) \div h = 2 * k + 1 /\ ((K + r) \div h) * h = K + h /\ (K + r) % h = r - h
    <3>1. r < h => (K + r) \div h = 2 * k /\ ((K + r) \div h) * h = K /\ (K + r) % h = r
      BY <1>3, <2>1, Halves
    <3>2. (h <= r /\ r < Tile) =>
            (K + r) \div h = 2 * k + 1 /\ ((K + r) \div h) * h = K + h /\ (K + r) % h = r - h
      BY <1>3, <2>1, Halves
    <3> HIDE DEF h
    <3> QED  BY <1>1, <2>1, <3>1, <3>2
  <2>3. /\ s < 0 => (K + s) \div h = 2 * k - 1
        /\ (0 <= s /\ s < h) => (K + s) \div h = 2 * k /\ ((K + s) \div h) * h = K
        /\ (h <= s /\ s < Tile) => (K + s) \div h = 2 * k + 1 /\ ((K + s) \div h) * h = K + h
        /\ Tile <= s => (K + s) \div h = 2 * k + 2 /\ ((K + s) \div h) * h = K + Tile
    BY <1>3, <2>1, Halves
  <2> QED  BY <1>5, <2>2, <2>3
<1>7. \A t \in 0 .. Tile - 1 :
        (r < h /\ t <= h) \/ (r = h /\ t = h) \/ (r > h /\ t >= h) => Inner(from, K + t)
  BY <1>2, <1>3, InnerOf
<1>8. \A t \in 0 .. Tile - 1 : (K + t) \div Tile = k  BY <1>3, TileAnd
<1>9. (K + Tile) \div Tile = k + 1
  <2>1. K + Tile = (k + 1) * Tile + 0 /\ k + 1 \in Int  BY <1>1, <1>3
  <2> QED  BY <1>1, <2>1, QuotientIs
<1> HIDE DEF h
<1> DEFINE c == Own!Crosses(from, to)  b == Own!Border(from, to)
           e == (to \div h) * h
<1>10. /\ c <=> (from % h = 0 \/ from \div h # to \div h)
       /\ b = IF ~c THEN 0 ELSE IF e \div Tile > k THEN e - Nudge ELSE e
  BY <1>2 DEF Own!Crosses, Own!Border, h
<1> HIDE DEF c, b, e
<1>11. CASE r < h /\ s < h
  <2>1. /\ from \div h = 2 * k /\ from % h = r
        /\ to \div h = 2 * k /\ e = K
    BY <1>1, <1>5, <1>6, <1>11 DEF e
  <2>2. e \div Tile = k  BY <1>1, <1>8, <2>1
  <2>3. c <=> r = 0  BY <1>10, <2>1
  <2>4. b = IF c THEN K ELSE 0  BY <1>10, <2>1, <2>2
  <2>5. Inner(from, K + s)
    <3>1. s \in 0 .. Tile - 1  BY <1>1, <1>5, <1>11
    <3> QED  BY <1>1, <1>7, <1>11, <3>1
  <2>6. Inner(from, K + 0)  BY <1>1, <1>7, <1>11
  <2> QED  BY <1>5, <2>3, <2>4, <2>5, <2>6 DEF b, c
<1>12. CASE r < h /\ s >= h
  <2>1. /\ from \div h = 2 * k
        /\ to \div h = 2 * k + 1 /\ e = K + h
    BY <1>1, <1>5, <1>6, <1>12 DEF e
  <2>2. e \div Tile = k  BY <1>1, <1>8, <2>1
  <2>3. c /\ b = K + h  BY <1>2, <1>10, <2>1, <2>2
  <2>4. Inner(from, K + h)  BY <1>1, <1>7, <1>12
  <2> QED  BY <1>1, <1>5, <1>12, <2>3, <2>4 DEF b, c
<1>13. CASE r >= h /\ s < 2 * h
  <2>1. /\ from \div h = 2 * k + 1 /\ from % h = r - h
        /\ to \div h = 2 * k + 1 /\ e = K + h
    BY <1>1, <1>5, <1>6, <1>13 DEF e
  <2>2. e \div Tile = k  BY <1>1, <1>8, <2>1
  <2>3. c <=> r = h  BY <1>1, <1>10, <2>1
  <2>4. b = IF c THEN K + h ELSE 0  BY <1>10, <2>1, <2>2
  <2>5. Inner(from, K + h)  BY <1>1, <1>7, <1>13
  <2>6. r # h => Inner(from, K + s)  BY <1>1, <1>5, <1>7, <1>13
  <2> QED  BY <1>1, <1>5, <2>3, <2>4, <2>5, <2>6 DEF b, c
<1>14. CASE r >= h /\ s >= 2 * h
  <2>0. r > h  BY <1>1, <1>5, <1>14
  <2>1. /\ from \div h = 2 * k + 1
        /\ to \div h = 2 * k + 2 /\ e = K + Tile
    BY <1>1, <1>5, <1>6, <1>14 DEF e
  <2>2. e \div Tile = k + 1  BY <1>9, <2>1
  <2>3. c /\ b = K + Tile - Nudge
    <3>1. from \div h # to \div h /\ k + 1 > k  BY <2>1
    <3>2. b = e - Nudge  BY <1>10, <2>2, <3>1
    <3>3. b = K + Tile - Nudge  BY <1>1, <2>1, <3>2
    <3>4. c  BY <1>10, <3>1
    <3> QED  BY <3>3, <3>4
  <2>4. Inner(from, K + (Tile - Nudge))  BY <1>1, <1>7, <2>0
  <2>5. K + (Tile - Nudge) = K + Tile - Nudge /\ K + Tile - Nudge <= to  BY <1>1, <1>3, <1>5, <1>14
  <2> QED  BY <1>2, <1>3, <2>3, <2>4, <2>5 DEF b, c
<1> QED  BY <1>1, <1>5, <1>11, <1>12, <1>13, <1>14

LEMMA AxisDown ==
  ASSUME NEW from \in Int, NEW to \in Int, to < from, from - to < Own!Half
  PROVE  /\ Own!Crosses(from, to) =>
              /\ Inner(from, Own!Border(from, to))
              /\ to <= Own!Border(from, to) /\ Own!Border(from, to) <= from
         /\ ~Own!Crosses(from, to) => Inner(from, to) /\ Own!Border(from, to) = 0
<1> DEFINE h == Own!Half
<1>1. h \in Nat \ {0} /\ Tile \in Nat \ {0} /\ Tile = 2 * h  BY MotionConstants
<1>2. PICK k \in Int, r \in 0 .. Tile - 1 : from = k * Tile + r /\ from \div Tile = k
  BY <1>1, QuotientExists
<1>3. PICK K \in Int : K = k * Tile  BY <1>1
<1>4. PICK s \in Int : s = to - K  BY <1>3
<1>5. from = K + r /\ to = K + s /\ s < r /\ r < s + h
  <2>1. from = K + r /\ r \in Int  BY <1>1, <1>2, <1>3
  <2> QED  BY <1>1, <1>4, <2>1
<1>6. /\ r < h => from \div h = 2 * k /\ (from \div h) * h = K /\ from % h = r
      /\ r >= h => from \div h = 2 * k + 1 /\ (from \div h) * h = K + h /\ from % h = r - h
      /\ s < 0 => to \div h = 2 * k - 1
      /\ (0 <= s /\ s < h) => to \div h = 2 * k /\ (to \div h) * h = K
      /\ (h <= s /\ s < Tile) => to \div h = 2 * k + 1 /\ (to \div h) * h = K + h
      /\ Tile <= s => to \div h = 2 * k + 2 /\ (to \div h) * h = K + Tile
  <2>1. r \in Int /\ 0 <= r /\ r < Tile /\ -h <= s /\ s < Tile + h  BY <1>1, <1>5
  <2>2. /\ r < h => (K + r) \div h = 2 * k /\ ((K + r) \div h) * h = K /\ (K + r) % h = r
        /\ r >= h => (K + r) \div h = 2 * k + 1 /\ ((K + r) \div h) * h = K + h /\ (K + r) % h = r - h
    <3>1. r < h => (K + r) \div h = 2 * k /\ ((K + r) \div h) * h = K /\ (K + r) % h = r
      BY <1>3, <2>1, Halves
    <3>2. (h <= r /\ r < Tile) =>
            (K + r) \div h = 2 * k + 1 /\ ((K + r) \div h) * h = K + h /\ (K + r) % h = r - h
      BY <1>3, <2>1, Halves
    <3> HIDE DEF h
    <3> QED  BY <1>1, <2>1, <3>1, <3>2
  <2>3. /\ s < 0 => (K + s) \div h = 2 * k - 1
        /\ (0 <= s /\ s < h) => (K + s) \div h = 2 * k /\ ((K + s) \div h) * h = K
        /\ (h <= s /\ s < Tile) => (K + s) \div h = 2 * k + 1 /\ ((K + s) \div h) * h = K + h
        /\ Tile <= s => (K + s) \div h = 2 * k + 2 /\ ((K + s) \div h) * h = K + Tile
    BY <1>3, <2>1, Halves
  <2> QED  BY <1>5, <2>2, <2>3
<1>7. \A t \in 0 .. Tile - 1 :
        (r < h /\ t <= h) \/ (r = h /\ t = h) \/ (r > h /\ t >= h) => Inner(from, K + t)
  BY <1>2, <1>3, InnerOf
<1>8. \A t \in 0 .. Tile - 1 : (K + t) \div Tile = k  BY <1>3, TileAnd
<1> HIDE DEF h
<1> DEFINE c == Own!Crosses(from, to)  b == Own!Border(from, to)
           e == (from \div h) * h
<1>10. /\ c <=> (from % h = 0 \/ from \div h # to \div h)
       /\ b = IF ~c THEN 0 ELSE IF e \div Tile > k THEN e - Nudge ELSE e
  BY <1>2 DEF Own!Crosses, Own!Border, h
<1> HIDE DEF c, b, e
<1>11. CASE r < h
  <2>1. from \div h = 2 * k /\ from % h = r /\ e = K
    BY <1>1, <1>5, <1>6, <1>11 DEF e
  <2>2. e \div Tile = k  BY <1>1, <1>8, <2>1
  <2>3. b = IF c THEN K ELSE 0  BY <1>10, <2>2, <2>1
  <2>4. Inner(from, K + 0)  BY <1>1, <1>7, <1>11
  <2>5. CASE s >= 0
    <3>1. to \div h = 2 * k  BY <1>1, <1>5, <1>6, <1>11, <2>5
    <3>2. c <=> r = 0  BY <1>10, <2>1, <3>1
    <3>3. Inner(from, K + s)  BY <1>1, <1>5, <1>7, <1>11, <2>5
    <3> QED  BY <1>5, <2>3, <2>4, <2>5, <3>2, <3>3 DEF b, c
  <2>6. CASE s < 0
    <3>1. to \div h = 2 * k - 1  BY <1>1, <1>5, <1>6, <1>11, <2>6
    <3>2. c  BY <1>2, <1>10, <2>1, <3>1
    <3> QED  BY <1>5, <2>3, <2>4, <2>6, <3>2 DEF b, c
  <2> QED  BY <2>5, <2>6
<1>12. CASE r >= h
  <2>1. from \div h = 2 * k + 1 /\ from % h = r - h /\ e = K + h
    BY <1>1, <1>5, <1>6, <1>12 DEF e
  <2>2. e \div Tile = k  BY <1>1, <1>8, <2>1
  <2>3. b = IF c THEN K + h ELSE 0  BY <1>10, <2>2, <2>1
  <2>4. Inner(from, K + h)  BY <1>1, <1>7, <1>12
  <2>5. CASE s >= h
    <3>1. to \div h = 2 * k + 1  BY <1>1, <1>5, <1>6, <1>12, <2>5
    <3>2. c <=> r = h  BY <1>1, <1>10, <2>1, <3>1
    <3>3. r # h => Inner(from, K + s)  BY <1>1, <1>5, <1>7, <1>12, <2>5
    <3> QED  BY <1>1, <1>5, <1>12, <2>3, <2>4, <2>5, <3>2, <3>3 DEF b, c
  <2>6. CASE s < h
    <3>1. to \div h = 2 * k  BY <1>1, <1>5, <1>6, <1>12, <2>6
    <3>2. c  BY <1>2, <1>10, <2>1, <3>1
    <3> QED  BY <1>1, <1>5, <1>12, <2>3, <2>4, <2>6, <3>2 DEF b, c
  <2> QED  BY <1>1, <1>5, <2>5, <2>6
<1> QED  BY <1>1, <1>11, <1>12

LEMMA AxisStays ==
  ASSUME NEW from \in Int
  PROVE  ~Own!Crosses(from, from) /\ Inner(from, from) /\ Own!Border(from, from) = 0
BY DEF Own!Crosses, Own!Border, Inner

\* A place is on the map if its tile is.
LEMMA OnMapByTile ==
  ASSUME NEW n \in Int, NEW w \in Nat \ {0}
  PROVE  (n >= 0 /\ n < w * Tile) <=> n \div Tile \in 0 .. w - 1
<1>1. Tile \in Nat \ {0}  BY MotionConstants
<1>2. PICK k \in Int, r \in 0 .. Tile - 1 : n = k * Tile + r /\ n \div Tile = k
  BY <1>1, QuotientExists
<1>3. k >= 0 => k * Tile >= 0  BY <1>1
<1>4. k < 0 => k * Tile + Tile <= 0
  <2>1. ASSUME k < 0  PROVE  (-k - 1) * Tile >= 0
    <3>1. -k - 1 \in Nat  BY <2>1
    <3> QED  BY <1>1, <3>1
  <2>2. (-k - 1) * Tile = -(k * Tile) - Tile  BY <1>1
  <2> QED  BY <1>1, <2>1, <2>2
<1>5. k <= w - 1 => k * Tile + Tile <= w * Tile
  <2>1. ASSUME k <= w - 1  PROVE  (w - 1 - k) * Tile >= 0
    <3>1. w - 1 - k \in Nat  BY <2>1
    <3> QED  BY <1>1, <3>1
  <2>2. (w - 1 - k) * Tile = w * Tile - Tile - k * Tile  BY <1>1
  <2> QED  BY <1>1, <2>1, <2>2
<1>6. k >= w => k * Tile >= w * Tile
  <2>1. ASSUME k >= w  PROVE  (k - w) * Tile >= 0
    <3>1. k - w \in Nat  BY <2>1
    <3> QED  BY <1>1, <3>1
  <2>2. (k - w) * Tile = k * Tile - w * Tile  BY <1>1
  <2> QED  BY <1>1, <2>1, <2>2
<1>7. PICK K \in Int, W \in Int : K = k * Tile /\ W = w * Tile  BY <1>1
<1> QED  BY <1>1, <1>2, <1>3, <1>4, <1>5, <1>6, <1>7

LEMMA InMapIs ==
  ASSUME NEW px \in Int, NEW py \in Int
  PROVE  Own!InMap(px, py) <=> Column(px) /\ Row(py)
<1>1. Width \in Nat \ {0} /\ Height \in Nat \ {0}  BY MotionConstants
<1>2. (px >= 0 /\ px < Width * Tile) <=> Column(px)  BY <1>1, OnMapByTile DEF Column
<1>3. (py >= 0 /\ py < Height * Tile) <=> Row(py)  BY <1>1, OnMapByTile DEF Row
<1> QED  BY <1>2, <1>3 DEF Own!InMap

LEMMA SameSquare ==
  ASSUME NEW px \in Int, NEW py \in Int, NEW qx \in Int, NEW qy \in Int,
         px \div Tile = qx \div Tile, py \div Tile = qy \div Tile
  PROVE  /\ Own!InMap(px, py) = Own!InMap(qx, qy)
         /\ Own!IsWalkable(px, py) = Own!IsWalkable(qx, qy)
         /\ Own!IsFullOccupy(px, py) = Own!IsFullOccupy(qx, qy)
<1>1. Own!InMap(px, py) = Own!InMap(qx, qy)
  <2>1. Own!InMap(px, py) <=> Column(px) /\ Row(py)  BY InMapIs
  <2>2. Own!InMap(qx, qy) <=> Column(qx) /\ Row(qy)  BY InMapIs
  <2>3. Own!InMap(px, py) \in BOOLEAN /\ Own!InMap(qx, qy) \in BOOLEAN  BY DEF Own!InMap
  <2> QED  BY <2>1, <2>2, <2>3 DEF Column, Row
<1>2. Own!SquareAt(px, py) = Own!SquareAt(qx, qy)  BY DEF Own!SquareAt
<1> QED  BY <1>1, <1>2 DEF Own!IsWalkable, Own!IsFullOccupy

LEMMA SideIs ==
  ASSUME NEW n \in Int
  PROVE  0 \in Own!Side(n) /\ Own!Side(n) \subseteq {-Tile, 0, Tile}
BY DEF Own!Side

LEMMA NextTile ==
  ASSUME NEW n \in Int
  PROVE  (n + Tile) \div Tile = n \div Tile + 1 /\ (n + (-Tile)) \div Tile = n \div Tile - 1
<1>1. Tile \in Nat \ {0}  BY MotionConstants
<1>2. PICK k \in Int, r \in 0 .. Tile - 1 : n = k * Tile + r /\ n \div Tile = k
  BY <1>1, QuotientExists
<1>3. n + Tile = (k + 1) * Tile + r /\ n + (-Tile) = (k - 1) * Tile + r  BY <1>1, <1>2
<1>4. k + 1 \in Int /\ k - 1 \in Int  OBVIOUS
<1>5. ((k + 1) * Tile + r) \div Tile = k + 1 /\ ((k - 1) * Tile + r) \div Tile = k - 1
  BY <1>1, <1>4, QuotientIs
<1> QED  BY <1>2, <1>3, <1>5

LEMMA Neighbours ==
  ASSUME NEW n \in Int, NEW m \in Int, n \div Tile = m \div Tile, NEW d \in {-Tile, 0, Tile}
  PROVE  (n + d) \div Tile = (m + d) \div Tile /\ n + d \in Int /\ m + d \in Int
<1>1. Tile \in Nat \ {0}  BY MotionConstants
<1>2. CASE d = 0  BY <1>2
<1>3. CASE d = Tile
  <2>1. (n + Tile) \div Tile = (m + Tile) \div Tile  BY NextTile
  <2> QED  BY <1>1, <1>3, <2>1
<1>4. CASE d = -Tile
  <2>1. (n + (-Tile)) \div Tile = (m + (-Tile)) \div Tile  BY NextTile
  <2> QED  BY <1>1, <1>4, <2>1
<1> QED  BY <1>2, <1>3, <1>4

\* Who stands well, does so anywhere in the tile it reaches no further.
LEMMA InnerValid ==
  ASSUME NEW px \in Int, NEW py \in Int, NEW nx, NEW ny,
         Inner(px, nx), Inner(py, ny), Own!IsValidPosition(px, py)
  PROVE  Own!IsValidPosition(nx, ny)
<1>1. /\ nx \in Int /\ ny \in Int /\ nx \div Tile = px \div Tile /\ ny \div Tile = py \div Tile
      /\ Own!Side(nx) \subseteq Own!Side(px) /\ Own!Side(ny) \subseteq Own!Side(py)
  BY DEF Inner
<1>2. Own!IsWalkable(nx, ny)  BY <1>1, SameSquare DEF Own!IsValidPosition
<1>3. ASSUME NEW dx \in Own!Side(nx), NEW dy \in Own!Side(ny), <<dx, dy>> # <<0, 0>>
      PROVE  ~Own!IsFullOccupy(nx + dx, ny + dy)
  <2>1. dx \in Own!Side(px) /\ dy \in Own!Side(py) /\ dx \in {-Tile, 0, Tile} /\ dy \in {-Tile, 0, Tile}
    BY <1>1, SideIs
  <2>2. ~Own!IsFullOccupy(px + dx, py + dy)  BY <1>3, <2>1 DEF Own!IsValidPosition
  <2>3. (nx + dx) \div Tile = (px + dx) \div Tile /\ nx + dx \in Int /\ px + dx \in Int
    BY <1>1, <2>1, Neighbours
  <2>4. (ny + dy) \div Tile = (py + dy) \div Tile /\ ny + dy \in Int /\ py + dy \in Int
    BY <1>1, <2>1, Neighbours
  <2>5. Own!IsFullOccupy(nx + dx, ny + dy) = Own!IsFullOccupy(px + dx, py + dy)
    <3>1. \A a, b, c, d \in Int : a \div Tile = b \div Tile /\ c \div Tile = d \div Tile =>
            Own!IsFullOccupy(a, c) = Own!IsFullOccupy(b, d)
      BY SameSquare
    <3> QED  BY <2>3, <2>4, <3>1
  <2> QED  BY <2>2, <2>5
<1> QED  BY <1>2, <1>3 DEF Own!IsValidPosition

\* No place at 0 is good: 0, which stands for no border, is never chosen but
\* as the last resort.
LEMMA ZeroInvalid ==
  ASSUME NEW n \in Int
  PROVE  ~Own!IsValidPosition(0, n) /\ ~Own!IsValidPosition(n, 0)
<1>1. Tile \in Nat \ {0} /\ Own!Half \in Nat \ {0}  BY MotionConstants
<1>2. Own!Side(0) = {-Tile, 0}
  <2>1. 0 % Tile = 0
    <3>1. 0 * Tile + 0 = 0 /\ 0 \in 0 .. Tile - 1  BY <1>1
    <3> QED  BY <1>1, <3>1, QuotientIs
  <2> QED  BY <1>1, <2>1 DEF Own!Side, Own!Frac
<1>3. -Tile \in Own!Side(0) /\ 0 \in Own!Side(n)  BY <1>2, SideIs
<1>4. -Tile # 0 /\ 0 + (-Tile) < 0  BY <1>1
<1>5. Own!IsFullOccupy(0 + (-Tile), n + 0) /\ Own!IsFullOccupy(n + 0, 0 + (-Tile))
  BY <1>1, <1>4 DEF Own!IsFullOccupy, Own!InMap
<1>6. ASSUME Own!IsValidPosition(0, n)  PROVE FALSE
  <2>1. <<-Tile, 0>> # <<0, 0>>  BY <1>4
  <2> QED  BY <1>3, <1>5, <1>6, <2>1 DEF Own!IsValidPosition
<1>7. ASSUME Own!IsValidPosition(n, 0)  PROVE FALSE
  <2>1. <<0, -Tile>> # <<0, 0>>  BY <1>4
  <2> QED  BY <1>3, <1>5, <1>7, <2>1 DEF Own!IsValidPosition
<1> QED  BY <1>6, <1>7

\* Where a player reaches in one axis.
LEMMA Reaches ==
  ASSUME NEW n \in Int, NEW i \in -1 .. 1
  PROVE  LET left == (n \div Tile + i) * Tile IN
         /\ left \in Int /\ left \div Tile = (n + i * Tile) \div Tile
         /\ i * Tile \in {-Tile, 0, Tile}
         /\ (n + Own!Half <= left \/ n - Own!Half >= left + Tile) <=> i * Tile \notin Own!Side(n)
<1>1. Tile \in Nat \ {0} /\ Own!Half \in Nat \ {0} /\ Tile = 2 * Own!Half  BY MotionConstants
<1>2. PICK k \in Int, r \in 0 .. Tile - 1 : n = k * Tile + r /\ n \div Tile = k
  BY <1>1, QuotientExists
<1>3. PICK K \in Int : K = k * Tile  BY <1>1
<1>4. /\ r < Own!Half => Own!Side(n) = {-Tile, 0}
      /\ r = Own!Half => Own!Side(n) = {0}
      /\ r > Own!Half => Own!Side(n) = {0, Tile}
  BY <1>2, TileAnd
<1>5. n = K + r /\ r \in Int /\ 0 <= r /\ r < Tile  BY <1>1, <1>2, <1>3
<1>6. CASE i = 0
  <2>1. (k + i) * Tile = K /\ i * Tile = 0  BY <1>1, <1>3, <1>6
  <2>2. K \div Tile = k
    <3>1. K = k * Tile + 0 /\ 0 \in 0 .. Tile - 1  BY <1>1, <1>3
    <3> QED  BY <1>1, <3>1, QuotientIs
  <2>3. ~(n + Own!Half <= K) /\ ~(n - Own!Half >= K + Tile)  BY <1>1, <1>5
  <2>4. 0 \in Own!Side(n)  BY SideIs
  <2> QED  BY <1>2, <2>1, <2>2, <2>3, <2>4
<1>7. CASE i = 1
  <2>1. (k + i) * Tile = K + Tile /\ i * Tile = Tile  BY <1>1, <1>3, <1>7
  <2>2. (K + Tile) \div Tile = k + 1 /\ (n + Tile) \div Tile = k + 1
    <3>1. K + Tile = (k + 1) * Tile + 0 /\ 0 \in 0 .. Tile - 1 /\ k + 1 \in Int  BY <1>1, <1>3
    <3>2. (K + Tile) \div Tile = k + 1  BY <1>1, <3>1, QuotientIs
    <3>3. (n + Tile) \div Tile = k + 1  BY <1>2, NextTile
    <3> QED  BY <3>2, <3>3
  <2>3. ~(n - Own!Half >= K + Tile + Tile) /\ (n + Own!Half <= K + Tile <=> r <= Own!Half)  BY <1>1, <1>5
  <2>4. Tile \in Own!Side(n) <=> r > Own!Half  BY <1>1, <1>4, <1>5
  <2> QED  BY <1>1, <1>2, <1>3, <1>5, <2>1, <2>2, <2>3, <2>4
<1>8. CASE i = -1
  <2>1. (k + i) * Tile = K - Tile /\ i * Tile = -Tile  BY <1>1, <1>3, <1>8
  <2>2. (K - Tile) \div Tile = k - 1 /\ (n + (-Tile)) \div Tile = k - 1
    <3>1. K - Tile = (k - 1) * Tile + 0 /\ 0 \in 0 .. Tile - 1 /\ k - 1 \in Int  BY <1>1, <1>3
    <3>2. (K - Tile) \div Tile = k - 1  BY <1>1, <3>1, QuotientIs
    <3>3. (n + (-Tile)) \div Tile = k - 1  BY <1>2, NextTile
    <3> QED  BY <3>2, <3>3
  <2>3. ~(n + Own!Half <= K - Tile) /\ (n - Own!Half >= K - Tile + Tile <=> r >= Own!Half)  BY <1>1, <1>5
  <2>4. -Tile \in Own!Side(n) <=> r < Own!Half  BY <1>1, <1>4, <1>5
  <2> QED  BY <1>1, <1>2, <1>3, <1>5, <2>1, <2>2, <2>3, <2>4
<1> QED  BY <1>6, <1>7, <1>8

\* isValidPosition is right: it says whether the player fits.
LEMMA FitsIsValid ==
  ASSUME NEW px \in Int, NEW py \in Int
  PROVE  Own!Fits(px, py) <=> Own!IsValidPosition(px, py)
<1>1. Tile \in Nat \ {0}  BY MotionConstants
<1> DEFINE Blocked(i, j) == Own!IsFullOccupy((px \div Tile + i) * Tile, (py \div Tile + j) * Tile)
           Apart(n, i) == \/ n + Own!Half <= (n \div Tile + i) * Tile
                          \/ n - Own!Half >= (n \div Tile + i) * Tile + Tile
<1>2. Own!Fits(px, py) <=>
        Own!IsWalkable(px, py) /\ \A i \in -1..1, j \in -1..1 :
          <<i, j>> = <<0, 0>> \/ ~Blocked(i, j) \/ Apart(px, i) \/ Apart(py, j)
  BY DEF Own!Fits
<1>3. \A i \in -1 .. 1, j \in -1 .. 1 : Blocked(i, j) = Own!IsFullOccupy(px + i * Tile, py + j * Tile)
  <2> SUFFICES ASSUME NEW i \in -1 .. 1, NEW j \in -1 .. 1
               PROVE  Blocked(i, j) = Own!IsFullOccupy(px + i * Tile, py + j * Tile)
    OBVIOUS
  <2>1. /\ (px \div Tile + i) * Tile \in Int /\ px + i * Tile \in Int
        /\ ((px \div Tile + i) * Tile) \div Tile = (px + i * Tile) \div Tile
    <3>1. px + i * Tile \in Int  BY <1>1
    <3> QED  BY <3>1, Reaches
  <2>2. /\ (py \div Tile + j) * Tile \in Int /\ py + j * Tile \in Int
        /\ ((py \div Tile + j) * Tile) \div Tile = (py + j * Tile) \div Tile
    <3>1. py + j * Tile \in Int  BY <1>1
    <3> QED  BY <3>1, Reaches
  <2> QED  BY <2>1, <2>2, SameSquare
<1>4. \A i \in -1 .. 1 : /\ Apart(px, i) <=> i * Tile \notin Own!Side(px)
                         /\ Apart(py, i) <=> i * Tile \notin Own!Side(py)
  BY Reaches
<1> HIDE DEF Blocked, Apart
<1>5. Own!Fits(px, py) <=>
        Own!IsWalkable(px, py) /\ \A i \in -1..1, j \in -1..1 :
          (i * Tile \in Own!Side(px) /\ j * Tile \in Own!Side(py)) =>
            <<i, j>> = <<0, 0>> \/ ~Own!IsFullOccupy(px + i * Tile, py + j * Tile)
  BY <1>2, <1>3, <1>4
<1>6. \A d \in {-Tile, 0, Tile} : \E i \in -1 .. 1 : d = i * Tile /\ (d = 0 <=> i = 0)
  <2>1. (-1) * Tile = -Tile /\ 0 * Tile = 0 /\ 1 * Tile = Tile /\ -Tile # 0 /\ Tile # 0  BY <1>1
  <2>2. -1 \in -1 .. 1 /\ 0 \in -1 .. 1 /\ 1 \in -1 .. 1  OBVIOUS
  <2> QED  BY <2>1, <2>2
<1>7. ASSUME Own!Fits(px, py)  PROVE  Own!IsValidPosition(px, py)
  <2>1. ASSUME NEW dx \in Own!Side(px), NEW dy \in Own!Side(py), <<dx, dy>> # <<0, 0>>
        PROVE  ~Own!IsFullOccupy(px + dx, py + dy)
    <3>1. dx \in {-Tile, 0, Tile} /\ dy \in {-Tile, 0, Tile}  BY SideIs
    <3>2. PICK i \in -1 .. 1 : dx = i * Tile /\ (dx = 0 <=> i = 0)  BY <1>6, <3>1
    <3>3. PICK j \in -1 .. 1 : dy = j * Tile /\ (dy = 0 <=> j = 0)  BY <1>6, <3>1
    <3>4. <<i, j>> # <<0, 0>>  BY <2>1, <3>2, <3>3
    <3> QED  BY <1>5, <1>7, <3>2, <3>3, <3>4
  <2>2. Own!IsWalkable(px, py)  BY <1>5, <1>7
  <2> QED  BY <2>1, <2>2 DEF Own!IsValidPosition
<1>8. ASSUME Own!IsValidPosition(px, py)  PROVE  Own!Fits(px, py)
  <2>1. ASSUME NEW i \in -1 .. 1, NEW j \in -1 .. 1, i * Tile \in Own!Side(px), j * Tile \in Own!Side(py),
               <<i, j>> # <<0, 0>>
        PROVE  ~Own!IsFullOccupy(px + i * Tile, py + j * Tile)
    <3>1. \A n \in -1 .. 1 : n * Tile = 0 => n = 0  BY <1>1
    <3>2. <<i * Tile, j * Tile>> # <<0, 0>>  BY <2>1, <3>1
    <3> QED  BY <1>8, <2>1, <3>2 DEF Own!IsValidPosition
  <2>2. Own!IsWalkable(px, py)  BY <1>8 DEF Own!IsValidPosition
  <2> QED  BY <1>5, <2>1, <2>2
<1> QED  BY <1>7, <1>8

\* One axis of a step of less than half a tile.
LEMMA Axis ==
  ASSUME NEW from \in Int, NEW to \in Int, Short(from, to)
  PROVE  /\ Own!Border(from, to) \in Int
         /\ Own!Crosses(from, to) =>
              Inner(from, Own!Border(from, to)) /\ Moves(from, Own!Border(from, to), to)
         /\ ~Own!Crosses(from, to) => Inner(from, to) /\ Own!Border(from, to) = 0
         /\ Moves(from, to, to)
<1>1. CASE to > from  BY <1>1, AxisUp DEF Short, Moves, Inner
<1>2. CASE to < from  BY <1>2, AxisDown DEF Short, Moves, Inner
<1>3. CASE to = from  BY <1>3, AxisStays DEF Moves, Inner
<1> QED  BY <1>1, <1>2, <1>3

\* What modifyStep chooses from.
LEMMA StepIs ==
  ASSUME NEW px, NEW py, NEW tx, NEW ty
  PROVE  LET bx == Own!Border(px, tx)
             by == Own!Border(py, ty)
             q == Own!ModifyStep(px, py, tx, ty)
         IN \/ q = <<tx, ty>> /\ ~Own!Crosses(px, tx) /\ ~Own!Crosses(py, ty)
            \/ q \in {<<tx, ty>>, <<tx, by>>, <<bx, ty>>} /\ Own!IsValidPosition(q[1], q[2])
            \/ /\ q = <<bx, by>> /\ (Own!Crosses(px, tx) \/ Own!Crosses(py, ty))
               /\ ~Own!IsValidPosition(tx, ty)
               /\ ~Own!IsValidPosition(tx, by) /\ ~Own!IsValidPosition(bx, ty)
<1> DEFINE bx == Own!Border(px, tx)  by == Own!Border(py, ty)
           alongX == <<tx, by>>  alongY == <<bx, ty>>
           tried == IF Own!Past(px, tx) > Own!Past(py, ty) THEN <<alongX, alongY>> ELSE <<alongY, alongX>>
           q == Own!ModifyStep(px, py, tx, ty)
           V(p) == Own!IsValidPosition(p[1], p[2])
<1>1. q = IF ~(Own!Crosses(px, tx) \/ Own!Crosses(py, ty)) \/ Own!IsValidPosition(tx, ty) THEN <<tx, ty>>
          ELSE IF V(tried[1]) THEN tried[1]
          ELSE IF V(tried[2]) THEN tried[2]
          ELSE <<bx, by>>
  BY DEF Own!ModifyStep
<1>2. \/ tried[1] = alongX /\ tried[2] = alongY
      \/ tried[1] = alongY /\ tried[2] = alongX
  OBVIOUS
<1>3. /\ V(alongX) <=> Own!IsValidPosition(tx, by)
      /\ V(alongY) <=> Own!IsValidPosition(bx, ty)
      /\ V(<<tx, ty>>) <=> Own!IsValidPosition(tx, ty)
  OBVIOUS
<1> HIDE DEF tried, q, bx, by
<1>4. \/ q = <<tx, ty>> /\ ~(Own!Crosses(px, tx) \/ Own!Crosses(py, ty))
      \/ q = <<tx, ty>> /\ Own!IsValidPosition(tx, ty)
      \/ q \in {alongX, alongY} /\ V(q)
      \/ /\ q = <<bx, by>> /\ (Own!Crosses(px, tx) \/ Own!Crosses(py, ty))
         /\ ~Own!IsValidPosition(tx, ty) /\ ~V(alongX) /\ ~V(alongY)
  BY <1>1, <1>2
<1> QED  BY <1>3, <1>4 DEF q, bx, by

\* Whatever there is around it, a step stays on the map.
LEMMA StepStays ==
  ASSUME NEW px \in Int, NEW py \in Int, NEW tx \in Int, NEW ty \in Int,
         Short(px, tx), Short(py, ty), Own!InMap(px, py)
  PROVE  /\ Own!ModifyStep(px, py, tx, ty) \in Int \X Int
         /\ Own!InMap(Own!ModifyStep(px, py, tx, ty)[1], Own!ModifyStep(px, py, tx, ty)[2])
<1> DEFINE bx == Own!Border(px, tx)  by == Own!Border(py, ty)
           q == Own!ModifyStep(px, py, tx, ty)
<1>1. /\ bx \in Int
      /\ Own!Crosses(px, tx) => Inner(px, bx)
      /\ ~Own!Crosses(px, tx) => Inner(px, tx) /\ bx = 0
  BY Axis
<1>2. /\ by \in Int
      /\ Own!Crosses(py, ty) => Inner(py, by)
      /\ ~Own!Crosses(py, ty) => Inner(py, ty) /\ by = 0
  BY Axis
<1>3. Column(px) /\ Row(py)  BY InMapIs
<1>4. Column(0) /\ Row(0)
  <2>1. 0 \div Tile = 0 /\ Width \in Nat \ {0} /\ Height \in Nat \ {0}
    <3>1. 0 * Tile + 0 = 0 /\ 0 \in 0 .. Tile - 1 /\ Tile \in Nat \ {0}  BY MotionConstants
    <3> QED  BY <3>1, QuotientIs, MotionConstants
  <2> QED  BY <2>1 DEF Column, Row
<1>5. \/ q = <<tx, ty>> /\ ~Own!Crosses(px, tx) /\ ~Own!Crosses(py, ty)
      \/ q \in {<<tx, ty>>, <<tx, by>>, <<bx, ty>>} /\ Own!IsValidPosition(q[1], q[2])
      \/ q = <<bx, by>>
  BY StepIs
<1> HIDE DEF bx, by, q
<1>6. q \in Int \X Int  BY <1>1, <1>2, <1>5
<1>7. CASE q = <<tx, ty>> /\ ~Own!Crosses(px, tx) /\ ~Own!Crosses(py, ty)
  <2>1. Column(tx) /\ Row(ty)  BY <1>1, <1>2, <1>3, <1>7 DEF Inner, Column, Row
  <2> QED  BY <1>6, <1>7, <2>1, InMapIs DEF q
<1>8. CASE Own!IsValidPosition(q[1], q[2])
  BY <1>6, <1>8 DEF q, Own!IsValidPosition, Own!IsWalkable
<1>9. CASE q = <<bx, by>>
  <2>1. Column(bx)  BY <1>1, <1>3, <1>4 DEF Inner, Column
  <2>2. Row(by)  BY <1>2, <1>3, <1>4 DEF Inner, Row
  <2> QED  BY <1>1, <1>2, <1>6, <1>9, <2>1, <2>2, InMapIs DEF q
<1> QED  BY <1>5, <1>7, <1>8, <1>9

\* From where the player fits a step leads to where it fits, and in neither
\* axis past where it is to go.
LEMMA StepFits ==
  ASSUME NEW px \in Int, NEW py \in Int, NEW tx \in Int, NEW ty \in Int,
         Short(px, tx), Short(py, ty), Own!IsValidPosition(px, py)
  PROVE  LET q == Own!ModifyStep(px, py, tx, ty) IN
         /\ Own!IsValidPosition(q[1], q[2])
         /\ Moves(px, q[1], tx) /\ Moves(py, q[2], ty)
<1> DEFINE bx == Own!Border(px, tx)  by == Own!Border(py, ty)
           q == Own!ModifyStep(px, py, tx, ty)
<1>1. /\ bx \in Int
      /\ Own!Crosses(px, tx) => Inner(px, bx) /\ Moves(px, bx, tx)
      /\ ~Own!Crosses(px, tx) => Inner(px, tx) /\ bx = 0
      /\ Moves(px, tx, tx)
  BY Axis
<1>2. /\ by \in Int
      /\ Own!Crosses(py, ty) => Inner(py, by) /\ Moves(py, by, ty)
      /\ ~Own!Crosses(py, ty) => Inner(py, ty) /\ by = 0
      /\ Moves(py, ty, ty)
  BY Axis
<1>3. \/ q = <<tx, ty>> /\ ~Own!Crosses(px, tx) /\ ~Own!Crosses(py, ty)
      \/ q \in {<<tx, ty>>, <<tx, by>>, <<bx, ty>>} /\ Own!IsValidPosition(q[1], q[2])
      \/ /\ q = <<bx, by>> /\ (Own!Crosses(px, tx) \/ Own!Crosses(py, ty))
         /\ ~Own!IsValidPosition(tx, by) /\ ~Own!IsValidPosition(bx, ty)
  BY StepIs
<1>4. Own!IsValidPosition(tx, by) /\ ~Own!Crosses(py, ty) => FALSE  BY <1>2, ZeroInvalid
<1>5. Own!IsValidPosition(bx, ty) /\ ~Own!Crosses(px, tx) => FALSE  BY <1>1, ZeroInvalid
<1>6. \A nx, ny : Inner(px, nx) /\ Inner(py, ny) => Own!IsValidPosition(nx, ny)  BY InnerValid
<1> HIDE DEF bx, by, q
<1>7. CASE q = <<tx, ty>> /\ ~Own!Crosses(px, tx) /\ ~Own!Crosses(py, ty)
  <2>1. Own!IsValidPosition(tx, ty)  BY <1>1, <1>2, <1>6, <1>7
  <2>2. q[1] = tx /\ q[2] = ty  BY <1>7
  <2> QED  BY <1>1, <1>2, <2>1, <2>2 DEF q
<1>8. CASE q = <<tx, ty>> /\ Own!IsValidPosition(q[1], q[2])
  <2>1. q[1] = tx /\ q[2] = ty  BY <1>8
  <2> QED  BY <1>1, <1>2, <1>8, <2>1 DEF q
<1>9. CASE q = <<tx, by>> /\ Own!IsValidPosition(q[1], q[2])
  <2>1. q[1] = tx /\ q[2] = by  BY <1>9
  <2>2. Own!Crosses(py, ty)  BY <1>4, <1>9, <2>1
  <2> QED  BY <1>1, <1>2, <1>9, <2>1, <2>2 DEF q
<1>10. CASE q = <<bx, ty>> /\ Own!IsValidPosition(q[1], q[2])
  <2>1. q[1] = bx /\ q[2] = ty  BY <1>10
  <2>2. Own!Crosses(px, tx)  BY <1>5, <1>10, <2>1
  <2> QED  BY <1>1, <1>2, <1>10, <2>1, <2>2 DEF q
<1>11. CASE /\ q = <<bx, by>> /\ (Own!Crosses(px, tx) \/ Own!Crosses(py, ty))
            /\ ~Own!IsValidPosition(tx, by) /\ ~Own!IsValidPosition(bx, ty)
  <2>1. q[1] = bx /\ q[2] = by  BY <1>11
  <2>2. Own!Crosses(px, tx) /\ Own!Crosses(py, ty)  BY <1>1, <1>2, <1>6, <1>11
  <2>3. Own!IsValidPosition(bx, by)  BY <1>1, <1>2, <1>6, <2>2
  <2> QED  BY <1>1, <1>2, <2>1, <2>2, <2>3 DEF q
<1> QED  BY <1>3, <1>7, <1>8, <1>9, <1>10, <1>11

\* With room in one axis, a step gets all of it in one axis or the other.
LEMMA StepGlides ==
  ASSUME NEW px \in Int, NEW py \in Int, NEW tx \in Int, NEW ty \in Int,
         Short(px, tx), Short(py, ty), Own!IsValidPosition(px, py),
         Own!IsValidPosition(tx, py) \/ Own!IsValidPosition(px, ty)
  PROVE  LET q == Own!ModifyStep(px, py, tx, ty) IN q[1] = tx \/ q[2] = ty
<1> DEFINE bx == Own!Border(px, tx)  by == Own!Border(py, ty)
           q == Own!ModifyStep(px, py, tx, ty)
<1>1. /\ Own!Crosses(px, tx) => Inner(px, bx)
      /\ ~Own!Crosses(px, tx) => Inner(px, tx)
      /\ Inner(px, px) /\ Inner(tx, tx)
  BY Axis, AxisStays
<1>2. /\ Own!Crosses(py, ty) => Inner(py, by)
      /\ ~Own!Crosses(py, ty) => Inner(py, ty)
      /\ Inner(py, py) /\ Inner(ty, ty)
  BY Axis, AxisStays
<1>3. \/ q \in {<<tx, ty>>, <<tx, by>>, <<bx, ty>>}
      \/ /\ q = <<bx, by>> /\ (Own!Crosses(px, tx) \/ Own!Crosses(py, ty))
         /\ ~Own!IsValidPosition(tx, by) /\ ~Own!IsValidPosition(bx, ty)
  BY StepIs
<1>4. \A ax, ay \in Int : \A nx, ny :
        Own!IsValidPosition(ax, ay) /\ Inner(ax, nx) /\ Inner(ay, ny) => Own!IsValidPosition(nx, ny)
  BY InnerValid
<1> HIDE DEF bx, by, q
<1>5. CASE q \in {<<tx, ty>>, <<tx, by>>, <<bx, ty>>}  BY <1>5 DEF q
<1>6. CASE /\ q = <<bx, by>> /\ (Own!Crosses(px, tx) \/ Own!Crosses(py, ty))
           /\ ~Own!IsValidPosition(tx, by) /\ ~Own!IsValidPosition(bx, ty)
  <2>1. Own!Crosses(px, tx) /\ Own!Crosses(py, ty)  BY <1>1, <1>2, <1>4, <1>6
  <2>2. CASE Own!IsValidPosition(tx, py)
    <3>1. Own!IsValidPosition(tx, by)  BY <1>1, <1>2, <1>4, <2>1, <2>2
    <3> QED  BY <1>6, <3>1
  <2>3. CASE Own!IsValidPosition(px, ty)
    <3>1. Own!IsValidPosition(bx, ty)  BY <1>1, <1>2, <1>4, <2>1, <2>3
    <3> QED  BY <1>6, <3>1
  <2> QED  BY <2>2, <2>3
<1> QED  BY <1>3, <1>5, <1>6

\* The recursion of the sub-steps has a value at each of them.
LEMMA SubStepsTrace ==
  ASSUME NEW p, NEW sx, NEW sy, NEW n \in Nat
  PROVE  \E a : /\ a[0] = p /\ a[n] = Own!SubSteps(p, sx, sy, n)
                /\ \A i \in 1 .. n : a[i] = Own!StepFrom(a[i - 1], sx, sy)
<1> DEFINE Solves(f, m) == f = [i \in 0 .. m |-> IF i = 0 THEN p ELSE Own!StepFrom(f[i - 1], sx, sy)]
           Bad == {m \in 0 .. n : ~ \E f : Solves(f, m)}
           after == CHOOSE f : Solves(f, n)
<1>1. Bad = {}
  <2> SUFFICES ASSUME Bad # {}  PROVE FALSE  OBVIOUS
  <2>1. PICK m \in Bad : \A k \in Bad : m <= k
    <3>1. Bad \subseteq Nat  OBVIOUS
    <3> QED  BY <3>1, Smallest
  <2>2. m \in 0 .. n /\ ~ \E f : Solves(f, m)  OBVIOUS
  <2>3. m # 0
    <3>1. Solves([i \in 0 .. 0 |-> p], 0)  OBVIOUS
    <3> QED  BY <2>2, <3>1
  <2>4. m - 1 \in 0 .. n /\ ~(m <= m - 1)  BY <2>2, <2>3
  <2>5. m - 1 \notin Bad  BY <2>1, <2>4
  <2>6. PICK f : Solves(f, m - 1)  BY <2>4, <2>5
  <2> DEFINE g == [i \in 0 .. m |-> IF i = m THEN Own!StepFrom(f[m - 1], sx, sy) ELSE f[i]]
  <2>7. ASSUME NEW i \in 0 .. m
        PROVE  g[i] = IF i = 0 THEN p ELSE Own!StepFrom(g[i - 1], sx, sy)
    <3>1. CASE i = 0
      <4>1. 0 \in 0 .. m - 1 /\ i # m  BY <2>2, <2>3, <3>1
      <4> QED  BY <2>6, <3>1, <4>1
    <3>2. CASE i = m
      <4>1. m - 1 \in 0 .. m /\ m - 1 # m  BY <2>2, <2>3
      <4>2. g[m - 1] = f[m - 1]  BY <4>1
      <4> QED  BY <2>3, <3>2, <4>2
    <3>3. CASE i # 0 /\ i # m
      <4>1. i - 1 \in 0 .. m /\ i - 1 # m /\ i \in 0 .. m - 1  BY <2>2, <3>3
      <4>2. g[i - 1] = f[i - 1] /\ g[i] = f[i]  BY <3>3, <4>1
      <4>3. f[i] = Own!StepFrom(f[i - 1], sx, sy)  BY <2>6, <3>3, <4>1
      <4> QED  BY <3>3, <4>2, <4>3
    <3> QED  BY <3>1, <3>2, <3>3
  <2>8. g = [i \in 0 .. m |-> g[i]]  OBVIOUS
  <2> HIDE DEF g
  <2>9. Solves(g, m)  BY <2>7, <2>8
  <2> QED  BY <2>2, <2>9
<1>2. n \in 0 .. n  OBVIOUS
<1>3. Solves(after, n)  BY <1>1, <1>2
<1>4. Own!SubSteps(p, sx, sy, n) = after[n]  BY DEF Own!SubSteps
<1> HIDE DEF after
<1>5. after[0] = p
  <2>1. 0 \in 0 .. n  OBVIOUS
  <2> QED  BY <1>3, <2>1
<1>6. ASSUME NEW i \in 1 .. n  PROVE  after[i] = Own!StepFrom(after[i - 1], sx, sy)
  <2>1. i \in 0 .. n /\ i # 0  OBVIOUS
  <2> QED  BY <1>3, <2>1
<1> QED  BY <1>4, <1>5, <1>6

LEMMA FarStep ==
  ASSUME NEW from \in Int, NEW n \in Int, NEW next \in Int, NEW i \in Nat, NEW s \in Int,
         Far(from, n, i, s), Moves(n, next, n + s)
  PROVE  Far(from, next, i + 1, s)
<1>1. Tile \in Nat \ {0} /\ Nudge \in Nat \ {0} /\ Nudge < Tile  BY MotionConstants
<1>2. i * s \in Int /\ (i + 1) * s = i * s + s  OBVIOUS
<1>3. CASE s < 0
  <2>1. n + s <= next /\ next <= n  BY <1>3 DEF Moves
  <2>2. from + i * s <= n /\ n <= from  BY <1>3 DEF Far
  <2>3. from + (i + 1) * s <= next /\ next <= from  BY <1>2, <2>1, <2>2
  <2> QED  BY <1>3, <2>3 DEF Far
<1>4. CASE s >= 0
  <2>1. next <= n + s /\ (n <= next \/ next = (n \div Tile) * Tile + Tile - Nudge)
    BY <1>4 DEF Moves
  <2>2. n <= from + i * s /\ Near(from, n)  BY <1>4 DEF Far
  <2>3. next <= from + (i + 1) * s  BY <1>2, <2>1, <2>2
  <2>4. PICK k \in Int, r \in 0 .. Tile - 1 : from = k * Tile + r /\ from \div Tile = k
    BY <1>1, QuotientExists
  <2>5. PICK l \in Int, u \in 0 .. Tile - 1 : n = l * Tile + u /\ n \div Tile = l
    BY <1>1, QuotientExists
  <2>6. PICK K \in Int, L \in Int : K = k * Tile /\ L = l * Tile  BY <1>1
  <2>7. l < k => L + Tile <= K
    <3>1. ASSUME l < k  PROVE  (k - l - 1) * Tile >= 0
      <4>1. k - l - 1 \in Nat  BY <3>1
      <4> QED  BY <1>1, <4>1
    <3>2. (k - l - 1) * Tile = K - L - Tile  BY <1>1, <2>6
    <3> QED  BY <1>1, <2>6, <3>1, <3>2
  <2>8. k <= l => K <= L
    <3>1. ASSUME k <= l  PROVE  (l - k) * Tile >= 0
      <4>1. l - k \in Nat  BY <3>1
      <4> QED  BY <1>1, <4>1
    <3>2. (l - k) * Tile = L - K  BY <1>1, <2>6
    <3> QED  BY <1>1, <2>6, <3>1, <3>2
  <2>9. from = K + r /\ n = L + u /\ 0 <= r /\ r < Tile /\ 0 <= u /\ u < Tile /\ r \in Int /\ u \in Int
    BY <1>1, <2>4, <2>5, <2>6
  <2>10. from <= n \/ K + Tile - Nudge <= n  BY <2>2, <2>4, <2>6 DEF Near
  <2>11. K <= L  BY <1>1, <2>7, <2>8, <2>9, <2>10
  <2>12. n <= next \/ next = L + Tile - Nudge  BY <2>1, <2>5, <2>6
  <2>13. from <= next \/ K + Tile - Nudge <= next  BY <1>1, <2>9, <2>10, <2>11, <2>12
  <2>14. Near(from, next)  BY <2>4, <2>6, <2>13 DEF Near
  <2>15. ASSUME s = 0  PROVE next = from
    <3>1. n = from  BY <2>15 DEF Far
    <3> QED  BY <2>15, <3>1 DEF Moves
  <2> QED  BY <1>4, <2>3, <2>14, <2>15 DEF Far
<1> QED  BY <1>3, <1>4

\* Any number of sub-steps.
LEMMA SubStepsKeep ==
  ASSUME NEW p \in Int \X Int, Own!InMap(p[1], p[2]), NEW sx \in Int, NEW sy \in Int,
         Short(0, sx), Short(0, sy), NEW n \in Nat
  PROVE  LET q == Own!SubSteps(p, sx, sy, n) IN
         /\ q \in Int \X Int /\ Own!InMap(q[1], q[2])
         /\ Own!IsValidPosition(p[1], p[2]) =>
              /\ Own!IsValidPosition(q[1], q[2])
              /\ Far(p[1], q[1], n, sx) /\ Far(p[2], q[2], n, sy)
<1> DEFINE Good(q, i) ==
             /\ q \in Int \X Int /\ Own!InMap(q[1], q[2])
             /\ Own!IsValidPosition(p[1], p[2]) =>
                  /\ Own!IsValidPosition(q[1], q[2])
                  /\ Far(p[1], q[1], i, sx) /\ Far(p[2], q[2], i, sy)
<1>1. PICK a : /\ a[0] = p /\ a[n] = Own!SubSteps(p, sx, sy, n)
               /\ \A i \in 1 .. n : a[i] = Own!StepFrom(a[i - 1], sx, sy)
  BY SubStepsTrace
<1>2. Good(p, 0)
  <2>1. Far(p[1], p[1], 0, sx) /\ Far(p[2], p[2], 0, sy)
    <3>1. p[1] \in Int /\ p[2] \in Int /\ 0 * sx = 0 /\ 0 * sy = 0  OBVIOUS
    <3> QED  BY <3>1 DEF Far, Near
  <2> QED  BY <2>1
<1>3. ASSUME NEW q, NEW i \in Nat, Good(q, i)  PROVE  Good(Own!StepFrom(q, sx, sy), i + 1)
  <2> DEFINE tx == q[1] + sx  ty == q[2] + sy  r == Own!StepFrom(q, sx, sy)
  <2>1. q[1] \in Int /\ q[2] \in Int /\ tx \in Int /\ ty \in Int /\ p[1] \in Int /\ p[2] \in Int  BY <1>3
  <2>2. Short(q[1], tx) /\ Short(q[2], ty)
    <3>1. Own!Half \in Int  BY MotionConstants
    <3> QED  BY <2>1, <3>1 DEF Short
  <2>3. r = Own!ModifyStep(q[1], q[2], tx, ty)  BY DEF Own!StepFrom
  <2>4. r \in Int \X Int /\ Own!InMap(r[1], r[2])  BY <1>3, <2>1, <2>2, <2>3, StepStays
  <2>5. ASSUME Own!IsValidPosition(p[1], p[2])
        PROVE  /\ Own!IsValidPosition(r[1], r[2])
               /\ Far(p[1], r[1], i + 1, sx) /\ Far(p[2], r[2], i + 1, sy)
    <3>1. Own!IsValidPosition(q[1], q[2]) /\ Far(p[1], q[1], i, sx) /\ Far(p[2], q[2], i, sy)
      BY <1>3, <2>5
    <3>2. Own!IsValidPosition(r[1], r[2]) /\ Moves(q[1], r[1], tx) /\ Moves(q[2], r[2], ty)
      BY <2>1, <2>2, <2>3, <3>1, StepFits
    <3>3. r[1] \in Int /\ r[2] \in Int  BY <2>4
    <3> HIDE DEF r
    <3>4. Far(p[1], r[1], i + 1, sx)  BY <2>1, <3>1, <3>2, <3>3, FarStep
    <3>5. Far(p[2], r[2], i + 1, sy)  BY <2>1, <3>1, <3>2, <3>3, FarStep
    <3> QED  BY <3>2, <3>4, <3>5
  <2> QED  BY <2>4, <2>5
<1> HIDE DEF Good
<1> DEFINE Bad == {i \in 0 .. n : ~Good(a[i], i)}
<1>4. Bad = {}
  <2> SUFFICES ASSUME Bad # {}  PROVE FALSE  OBVIOUS
  <2>1. PICK m \in Bad : \A k \in Bad : m <= k
    <3>1. Bad \subseteq Nat  OBVIOUS
    <3> QED  BY <3>1, Smallest
  <2>2. m \in 0 .. n /\ ~Good(a[m], m)  OBVIOUS
  <2>3. m # 0  BY <1>1, <1>2, <2>2
  <2>4. m - 1 \in 0 .. n /\ ~(m <= m - 1) /\ m - 1 \in Nat /\ m \in 1 .. n  BY <2>2, <2>3
  <2>5. Good(a[m - 1], m - 1)  BY <2>1, <2>4
  <2>6. Good(Own!StepFrom(a[m - 1], sx, sy), m - 1 + 1)  BY <1>3, <2>4, <2>5
  <2>7. m - 1 + 1 = m  BY <2>4
  <2> QED  BY <1>1, <2>2, <2>4, <2>6, <2>7
<1>5. n \in 0 .. n  OBVIOUS
<1>6. Good(a[n], n)  BY <1>4, <1>5
<1> QED  BY <1>1, <1>6 DEF Good

\* The border ahead of a place is less than the nudge behind it, at worst.
LEMMA NearEnough ==
  ASSUME NEW from \in Int, NEW n \in Int, Near(from, n)
  PROVE  from - Nudge + 1 <= n
<1>1. Tile \in Nat \ {0} /\ Nudge \in Nat \ {0}  BY MotionConstants
<1>2. PICK k \in Int, r \in 0 .. Tile - 1 : from = k * Tile + r /\ from \div Tile = k
  BY <1>1, QuotientExists
<1>3. PICK K \in Int : K = k * Tile  BY <1>1
<1>4. from <= n \/ K + Tile - Nudge <= n  BY <1>2, <1>3 DEF Near
<1> QED  BY <1>1, <1>2, <1>3, <1>4

LEMMA MovesToward ==
  ASSUME NEW from \in Int, NEW n \in Int, NEW d \in Int, Moves(from, n, from + d)
  PROVE  Own!Toward(from, n, d)
<1>1. Tile \in Nat \ {0} /\ Nudge \in Nat \ {0} /\ Nudge < Tile  BY MotionConstants
<1>2. CASE d < 0
  <2>1. from + d <= n /\ n <= from  BY <1>2 DEF Moves
  <2> QED  BY <1>1, <1>2, <2>1 DEF Own!Toward
<1>3. CASE d >= 0
  <2>1. n <= from + d /\ (from <= n \/ n = (from \div Tile) * Tile + Tile - Nudge)  BY <1>3 DEF Moves
  <2>2. (from \div Tile) * Tile + Tile - Nudge \in Int
    <3>1. from \div Tile \in Int  BY <1>1
    <3> QED  BY <1>1, <3>1
  <2>3. Near(from, n)  BY <2>1, <2>2 DEF Near
  <2>4. from - Nudge + 1 <= n  BY <2>3, NearEnough
  <2> QED  BY <1>1, <1>3, <2>1, <2>4 DEF Own!Toward
<1> QED  BY <1>2, <1>3

LEMMA FarToward ==
  ASSUME NEW from \in Int, NEW to \in Int, NEW d \in Int, NEW n \in Nat, NEW len \in Nat,
         n * len <= Own!Abs(d), Far(from, to, n, IF d < 0 THEN -len ELSE len)
  PROVE  Own!Toward(from, to, d)
<1>1. Nudge \in Nat \ {0}  BY MotionConstants
<1>2. PICK w \in Nat : w = n * len /\ n * (-len) = -w  OBVIOUS
<1>3. CASE d < 0 /\ len # 0
  <2>1. w <= -d  BY <1>2, <1>3 DEF Own!Abs
  <2>2. from + n * (-len) <= to /\ to <= from  BY <1>3 DEF Far
  <2> QED  BY <1>1, <1>2, <1>3, <2>1, <2>2 DEF Own!Toward
<1>4. CASE d < 0 /\ len = 0
  <2>1. PICK z \in Int : z = -len /\ z + len = 0  OBVIOUS
  <2>2. z = 0
    <3>1. z + len = 0  BY <2>1
    <3> QED  BY <1>4, <3>1
  <2>3. Far(from, to, n, z)  BY <1>4, <2>1
  <2>4. Far(from, to, n, 0)  BY <2>2, <2>3
  <2>5. n * 0 = 0  OBVIOUS
  <2>6. to = from  BY <2>4, <2>5 DEF Far
  <2> QED  BY <1>1, <1>4, <2>6 DEF Own!Toward
<1>5. CASE d >= 0
  <2>1. w <= d  BY <1>2, <1>5 DEF Own!Abs
  <2>2. to <= from + n * len /\ Near(from, to)  BY <1>5 DEF Far
  <2>3. from - Nudge + 1 <= to  BY <2>2, NearEnough
  <2> QED  BY <1>1, <1>2, <1>5, <2>1, <2>2, <2>3 DEF Own!Toward
<1> QED  BY <1>3, <1>4, <1>5

\* How far a sub-step goes, and all of them.
LEMMA PartIs ==
  ASSUME NEW longest \in Nat, Threshold <= longest, NEW m \in 0 .. longest
  PROVE  LET length == (Threshold * m) \div longest
             n == (longest - 1) \div Threshold
         IN length \in 0 .. Threshold /\ n \in Nat /\ n * length <= m
<1>1. Threshold \in Nat \ {0} /\ longest \in Nat \ {0}  BY MotionConstants
<1>2. PICK len \in Int, r \in 0 .. longest - 1 :
        Threshold * m = len * longest + r /\ (Threshold * m) \div longest = len
  <2>1. Threshold * m \in Int  BY <1>1
  <2> QED  BY <1>1, <2>1, QuotientExists
<1>3. PICK n \in Int, u \in 0 .. Threshold - 1 :
        longest - 1 = n * Threshold + u /\ (longest - 1) \div Threshold = n
  <2>1. longest - 1 \in Int  BY <1>1
  <2> QED  BY <1>1, <2>1, QuotientExists
<1>4. len >= 0
  <2>1. ASSUME len < 0  PROVE FALSE
    <3>1. (-len - 1) * longest >= 0
      <4>1. -len - 1 \in Nat  BY <2>1
      <4> QED  BY <1>1, <4>1
    <3>2. (-len - 1) * longest = -(len * longest) - longest  BY <1>1
    <3>3. Threshold * m >= 0  BY <1>1
    <3> QED  BY <1>1, <1>2, <3>1, <3>2, <3>3
  <2> QED  BY <2>1
<1>5. n >= 0
  <2>1. ASSUME n < 0  PROVE FALSE
    <3>1. (-n - 1) * Threshold >= 0
      <4>1. -n - 1 \in Nat  BY <2>1
      <4> QED  BY <1>1, <4>1
    <3>2. (-n - 1) * Threshold = -(n * Threshold) - Threshold  BY <1>1
    <3> QED  BY <1>1, <1>3, <3>1, <3>2
  <2> QED  BY <2>1
<1>6. len <= Threshold
  <2>1. ASSUME len > Threshold  PROVE FALSE
    <3>1. (len - Threshold - 1) * longest >= 0
      <4>1. len - Threshold - 1 \in Nat  BY <1>1, <2>1
      <4> QED  BY <1>1, <4>1
    <3>2. (len - Threshold - 1) * longest = len * longest - Threshold * longest - longest  BY <1>1
    <3>3. Threshold * (longest - m) >= 0
      <4>1. longest - m \in Nat  BY <1>1
      <4> QED  BY <1>1, <4>1
    <3>4. Threshold * (longest - m) = Threshold * longest - Threshold * m  BY <1>1
    <3>5. PICK A \in Int, B \in Int, C \in Int : A = len * longest /\ B = Threshold * longest /\ C = Threshold * m
      BY <1>1
    <3> QED  BY <1>1, <1>2, <3>1, <3>2, <3>3, <3>4, <3>5
  <2> QED  BY <1>1, <2>1
\* n * len * longest <= n * Threshold * m <= (longest - 1) * m
<1>7. n * len <= m
  <2>1. n \in Nat /\ len \in Nat /\ m \in Nat  BY <1>4, <1>5
  <2>2. (n * len) * longest <= (longest - 1) * m
    <3>1. n * (len * longest) = n * (Threshold * m) - n * r
      <4>1. PICK A \in Int, B \in Int : A = len * longest /\ B = Threshold * m  BY <1>1
      <4>2. A = B - r /\ r \in Int  BY <1>2, <4>1
      <4>3. n * A = n * B - n * r  BY <4>2
      <4> QED  BY <4>1, <4>3
    <3>2. (n * Threshold) * m = (longest - 1) * m - u * m
      <4>1. PICK A \in Int : A = n * Threshold  BY <1>1
      <4>2. A = longest - 1 - u /\ u \in Int /\ longest - 1 \in Int  BY <1>1, <1>3, <4>1
      <4>3. A * m = (longest - 1) * m - u * m  BY <4>2, <2>1
      <4> QED  BY <4>1, <4>3
    <3>3. n * (Threshold * m) = (n * Threshold) * m /\ n * (len * longest) = (n * len) * longest
      BY <1>1, <2>1
    <3>4. n * r >= 0 /\ u * m >= 0
      <4>1. r \in Nat /\ u \in Nat  BY <1>1
      <4> QED  BY <2>1, <4>1
    <3>5. PICK A \in Int, B \in Int, C \in Int, D \in Int, E \in Int :
            /\ A = (n * len) * longest /\ B = n * (Threshold * m) /\ C = (longest - 1) * m
            /\ D = n * r /\ E = u * m
      BY <1>1, <2>1
    <3> QED  BY <3>1, <3>2, <3>3, <3>4, <3>5
  <2>3. ASSUME n * len > m  PROVE FALSE
    <3>1. PICK A \in Nat : A = n * len  BY <2>1
    <3>2. (A - m) * longest >= 0
      <4>1. A - m \in Nat  BY <2>1, <2>3, <3>1
      <4> QED  BY <1>1, <4>1
    <3>3. (A - m) * longest = A * longest - m * longest  BY <1>1, <2>1
    <3>4. (longest - 1) * m = m * longest - m  BY <1>1, <2>1
    <3>5. m # 0
      <4>1. ASSUME m = 0  PROVE FALSE
        <5>1. A >= 1 /\ A * longest <= 0
          BY <1>1, <2>2, <2>3, <3>1, <4>1
        <5>2. (A - 1) * longest >= 0
          <6>1. A - 1 \in Nat  BY <5>1
          <6> QED  BY <1>1, <6>1
        <5>3. (A - 1) * longest = A * longest - longest  BY <1>1
        <5> QED  BY <1>1, <5>1, <5>2, <5>3
      <4> QED  BY <4>1
    <3>6. PICK B \in Int, C \in Int : B = A * longest /\ C = m * longest  BY <1>1, <2>1
    <3> QED  BY <2>1, <2>2, <3>1, <3>2, <3>3, <3>4, <3>5, <3>6
  <2> QED  BY <2>1, <2>3
<1> QED  BY <1>2, <1>3, <1>4, <1>5, <1>6, <1>7

\* A move of any length.
LEMMA MoveIs ==
  ASSUME NEW px \in Int, NEW py \in Int, NEW dx \in Int, NEW dy \in Int, Own!InMap(px, py)
  PROVE  LET q == Own!ModifyMove(px, py, dx, dy) IN
         /\ q \in Int \X Int /\ Own!InMap(q[1], q[2])
         /\ Own!IsValidPosition(px, py) =>
              /\ Own!IsValidPosition(q[1], q[2])
              /\ Own!Toward(px, q[1], dx) /\ Own!Toward(py, q[2], dy)
<1> DEFINE longest == IF Own!Abs(dx) > Own!Abs(dy) THEN Own!Abs(dx) ELSE Own!Abs(dy)
           length(d) == (Threshold * Own!Abs(d)) \div longest
           part(d) == IF d < 0 THEN -length(d) ELSE length(d)
           n == (longest - 1) \div Threshold
           q == Own!ModifyMove(px, py, dx, dy)
<1>1. /\ Own!Abs(dx) \in 0 .. longest /\ Own!Abs(dy) \in 0 .. longest /\ longest \in Nat
  BY DEF Own!Abs
<1>2. q = IF longest < Threshold THEN Own!StepFrom(<<px, py>>, dx, dy)
          ELSE Own!SubSteps(<<px, py>>, part(dx), part(dy), n)
  BY DEF Own!ModifyMove
<1>3. Own!Half \in Nat /\ Threshold \in Nat \ {0} /\ Threshold < Own!Half /\ Nudge \in Nat \ {0} /\ Nudge < Tile
      /\ Tile \in Nat \ {0}
  BY MotionConstants
<1> HIDE DEF longest, q
<1>4. CASE longest < Threshold
  <2>1. Short(px, px + dx) /\ Short(py, py + dy)  BY <1>1, <1>3, <1>4 DEF Short, Own!Abs
  <2>2. q = Own!ModifyStep(px, py, px + dx, py + dy)  BY <1>2, <1>4 DEF Own!StepFrom
  <2>3. q \in Int \X Int /\ Own!InMap(q[1], q[2])  BY <2>1, <2>2, StepStays
  <2>4. ASSUME Own!IsValidPosition(px, py)
        PROVE  /\ Own!IsValidPosition(q[1], q[2])
               /\ Own!Toward(px, q[1], dx) /\ Own!Toward(py, q[2], dy)
    <3>1. Own!IsValidPosition(q[1], q[2]) /\ Moves(px, q[1], px + dx) /\ Moves(py, q[2], py + dy)
      BY <2>1, <2>2, <2>4, StepFits
    <3>2. q[1] \in Int /\ q[2] \in Int  BY <2>3
    <3>3. Own!Toward(px, q[1], dx)  BY <3>1, <3>2, MovesToward
    <3>4. Own!Toward(py, q[2], dy)  BY <3>1, <3>2, MovesToward
    <3> QED  BY <3>1, <3>3, <3>4
  <2> QED  BY <2>3, <2>4 DEF q
<1>5. CASE longest >= Threshold
  <2>1. /\ length(dx) \in 0 .. Threshold /\ n * length(dx) <= Own!Abs(dx) /\ n \in Nat
    BY <1>1, <1>5, PartIs
  <2>2. /\ length(dy) \in 0 .. Threshold /\ n * length(dy) <= Own!Abs(dy)
    BY <1>1, <1>5, PartIs
  <2> HIDE DEF length, n
  <2>3. part(dx) \in Int /\ part(dy) \in Int /\ Short(0, part(dx)) /\ Short(0, part(dy))
    BY <1>3, <2>1, <2>2 DEF Short
  <2> HIDE DEF part
  <2>4. q = Own!SubSteps(<<px, py>>, part(dx), part(dy), n)  BY <1>1, <1>2, <1>3, <1>5
  <2> DEFINE p == <<px, py>>
  <2>5. p \in Int \X Int /\ p[1] = px /\ p[2] = py  OBVIOUS
  <2> HIDE DEF p
  <2>6. q = Own!SubSteps(p, part(dx), part(dy), n)  BY <2>4 DEF p
  <2>7. /\ q \in Int \X Int /\ Own!InMap(q[1], q[2])
        /\ Own!IsValidPosition(p[1], p[2]) =>
             /\ Own!IsValidPosition(q[1], q[2])
             /\ Far(p[1], q[1], n, part(dx)) /\ Far(p[2], q[2], n, part(dy))
    BY <2>1, <2>3, <2>5, <2>6, SubStepsKeep
  <2>8. ASSUME Far(px, q[1], n, part(dx))  PROVE Own!Toward(px, q[1], dx)
    BY <2>1, <2>7, <2>8, FarToward DEF part
  <2>9. ASSUME Far(py, q[2], n, part(dy))  PROVE Own!Toward(py, q[2], dy)
    BY <2>1, <2>2, <2>7, <2>9, FarToward DEF part
  <2> QED  BY <2>5, <2>7, <2>8, <2>9 DEF q
<1> QED  BY <1>1, <1>3, <1>4, <1>5

\* The place of the own player; that of another entity stays at the start.
LEMMA DisplacementsAre == Own!Displacements \subseteq Int
<1>1. Strides \subseteq Nat  BY MotionConstants
<1>2. ASSUME NEW d \in Own!Displacements  PROVE d \in Int
  <2>1. PICK s \in Strides : d = s \/ d = -s  BY DEF Own!Displacements
  <2>2. s \in Nat  BY <1>1
  <2> QED  BY <2>1, <2>2
<1> QED  BY <1>2

LEMMA OnMapBegins == MotionInit => OnMap
<1>1. Width \in Nat \ {0} /\ Height \in Nat \ {0} /\ Tile \in Nat \ {0}  BY MotionConstants
<1>2. 1 <= Width * Tile /\ 1 <= Height * Tile /\ Width * Tile \in Int /\ Height * Tile \in Int
  <2>1. ASSUME NEW m \in Nat \ {0}  PROVE m * Tile \in Int /\ 1 <= m * Tile
    <3>1. (m - 1) * (Tile - 1) >= 0
      <4>1. m - 1 \in Nat /\ Tile - 1 \in Nat  BY <1>1
      <4> QED  BY <4>1
    <3>2. (m - 1) * (Tile - 1) = m * Tile - m - Tile + 1  BY <1>1
    <3>3. PICK A \in Int : A = m * Tile  BY <1>1
    <3> QED  BY <1>1, <3>1, <3>2, <3>3
  <2> QED  BY <1>1, <2>1
<1>3. ASSUME Own!Init  PROVE OnMap
  <2>1. squares \in [(0 .. Width - 1) \X (0 .. Height - 1) -> Own!Square]  BY <1>3 DEF Own!Init, Own!Layouts
  <2>2. x \in 0 .. Width * Tile - 1 /\ y \in 0 .. Height * Tile - 1  BY <1>3 DEF Own!Init
  <2>3. x \in Int /\ y \in Int /\ Own!InMap(x, y)  BY <1>2, <2>2 DEF Own!InMap
  <2> QED  BY <2>1, <2>3 DEF OnMap, Own!TypeOK
<1>4. ASSUME OwnStill  PROVE OnMap
  <2>1. squares \in [(0 .. Width - 1) \X (0 .. Height - 1) -> Own!Square]
    BY <1>4 DEF OwnStill, Own!Square
  <2>2. x \in Int /\ y \in Int /\ Own!InMap(x, y)  BY <1>2, <1>4 DEF OwnStill, Own!InMap
  <2> QED  BY <2>1, <2>2 DEF OnMap, Own!TypeOK
<1> QED  BY <1>3, <1>4 DEF MotionInit

\* A frame of the own player.
LEMMA WalkKeeps ==
  ASSUME OnMap, NEW dx \in Own!Displacements, NEW dy \in Own!Displacements, Own!Walk(dx, dy)
  PROVE  OnMap' /\ (Own!Fits(x, y) => Own!Fits(x', y'))
<1> DEFINE q == Own!ModifyMove(x, y, dx, dy)
<1>1. dx \in Int /\ dy \in Int  BY DisplacementsAre
<1>2. x \in Int /\ y \in Int /\ Own!InMap(x, y)  BY DEF OnMap, Own!TypeOK
<1>3. /\ q \in Int \X Int /\ Own!InMap(q[1], q[2])
      /\ Own!IsValidPosition(x, y) => Own!IsValidPosition(q[1], q[2])
  BY <1>1, <1>2, MoveIs
<1>4. x' = q[1] /\ y' = q[2] /\ squares' = squares  BY DEF Own!Walk
<1> HIDE DEF q
<1>5. q[1] \in Int /\ q[2] \in Int  BY <1>3
<1>6. x' \in Int /\ y' \in Int /\ Own!InMap(q[1], q[2])  BY <1>3, <1>4, <1>5
<1>7. Own!InMap(x', y') /\ Own!TypeOK'  BY <1>4, <1>6 DEF OnMap, Own!TypeOK, Own!InMap
<1>8. Own!Fits(x, y) => Own!Fits(q[1], q[2])  BY <1>2, <1>3, <1>5, FitsIsValid
<1>9. Own!Fits(q[1], q[2])' <=> Own!Fits(q[1], q[2])'  OBVIOUS
<1> QED  BY <1>4, <1>6, <1>7, <1>8
  DEF OnMap, Own!Fits, Own!IsWalkable, Own!IsFullOccupy, Own!InMap, Own!SquareAt

LEMMA MotionKeeps == OnMap /\ [MotionNext]_allVars => OnMap'
<1> SUFFICES ASSUME OnMap, [MotionNext]_allVars  PROVE OnMap'
  OBVIOUS
<1>1. ASSUME Own!Next  PROVE OnMap'
  <2>1. PICK dx \in Own!Displacements, dy \in Own!Displacements : Own!Walk(dx, dy)  BY <1>1 DEF Own!Next
  <2> QED  BY <2>1, WalkKeeps
<1>2. ASSUME UNCHANGED ownVars  PROVE OnMap'
  <2>1. x' = x /\ y' = y /\ squares' = squares  BY <1>2 DEF ownVars
  <2> QED  BY <2>1 DEF OnMap, Own!TypeOK, Own!InMap
<1> QED  BY <1>1, <1>2 DEF MotionNext, allVars

LEMMA AlwaysOnMap == MotionSpec => []OnMap
<1> QED  BY OnMapBegins, MotionKeeps, PTL DEF MotionSpec

LEMMA OnMapSound == OnMap => StepSound
<1> SUFFICES ASSUME OnMap  PROVE StepSound
  OBVIOUS
<1>1. x \in Int /\ y \in Int /\ Own!InMap(x, y) /\ Own!TypeOK  BY DEF OnMap, Own!TypeOK
<1>2. Own!Displacements \subseteq Int  BY DisplacementsAre
<1>3. Own!NeverJumps
  <2>1. SUFFICES ASSUME Own!Fits(x, y), NEW dx \in Own!Displacements, NEW dy \in Own!Displacements
                 PROVE  /\ Own!Toward(x, Own!ModifyMove(x, y, dx, dy)[1], dx)
                        /\ Own!Toward(y, Own!ModifyMove(x, y, dx, dy)[2], dy)
    BY DEF Own!NeverJumps
  <2>2. Own!IsValidPosition(x, y)  BY <1>1, <2>1, FitsIsValid
  <2>3. dx \in Int /\ dy \in Int  BY <1>2
  <2> QED  BY <1>1, <2>2, <2>3, MoveIs
<1>4. Own!Glides
  <2>1. SUFFICES ASSUME Own!Fits(x, y), NEW dx \in Own!Displacements, NEW dy \in Own!Displacements,
                        Own!Abs(dx) < Threshold, Own!Abs(dy) < Threshold,
                        Own!Fits(x + dx, y) \/ Own!Fits(x, y + dy)
                 PROVE  Own!ModifyMove(x, y, dx, dy)[1] = x + dx \/ Own!ModifyMove(x, y, dx, dy)[2] = y + dy
    BY DEF Own!Glides
  <2> DEFINE q == Own!ModifyStep(x, y, x + dx, y + dy)
  <2>2. dx \in Int /\ dy \in Int /\ x + dx \in Int /\ y + dy \in Int  BY <1>1, <1>2
  <2>3. Threshold \in Nat /\ Own!Half \in Nat /\ Threshold < Own!Half  BY MotionConstants
  <2>4. Own!ModifyMove(x, y, dx, dy) = q
    <3>1. (IF Own!Abs(dx) > Own!Abs(dy) THEN Own!Abs(dx) ELSE Own!Abs(dy)) < Threshold  BY <2>1
    <3> QED  BY <3>1 DEF Own!ModifyMove, Own!StepFrom
  <2>5. Short(x, x + dx) /\ Short(y, y + dy)  BY <1>1, <2>1, <2>2, <2>3 DEF Short, Own!Abs
  <2>6. Own!IsValidPosition(x, y)  BY <1>1, <2>1, FitsIsValid
  <2>7. Own!IsValidPosition(x + dx, y) \/ Own!IsValidPosition(x, y + dy)
    BY <1>1, <2>1, <2>2, FitsIsValid
  <2>8. q[1] = x + dx \/ q[2] = y + dy  BY <1>1, <2>2, <2>5, <2>6, <2>7, StepGlides
  <2> QED  BY <2>4, <2>8
<1> QED  BY <1>1, <1>3, <1>4 DEF StepSound, Own!StepSound

\* A step of the own player stays on the map, stops short of what is in the
\* way and glides along it, however long it is, whatever stands where.
\* (map.zig 1349-1505)
THEOREM PlayerStepsSound == MotionSpec => []StepSound
<1> QED  BY AlwaysOnMap, OnMapSound, PTL

\* From a place where it fits, the player steps only to such a place, although
\* the last resort of modifyStep is not looked at.  (map.zig 1380-1413)
THEOREM PlayerStaysFitting == MotionSpec => StaysFitting
<1>1. OnMap /\ [MotionNext]_allVars => [Own!Fits(x, y) => Own!Fits(x', y')]_ownVars
  <2> SUFFICES ASSUME OnMap, [MotionNext]_allVars
               PROVE  [Own!Fits(x, y) => Own!Fits(x', y')]_ownVars
    OBVIOUS
  <2>1. ASSUME Own!Next  PROVE Own!Fits(x, y) => Own!Fits(x', y')
    <3>1. PICK dx \in Own!Displacements, dy \in Own!Displacements : Own!Walk(dx, dy)  BY <2>1 DEF Own!Next
    <3> QED  BY <3>1, WalkKeeps
  <2> QED  BY <2>1 DEF MotionNext, allVars
<1>2. StaysFitting <=> [][Own!Fits(x, y) => Own!Fits(x', y')]_ownVars
  BY DEF StaysFitting, Own!StaysFitting, Own!vars, ownVars
<1> QED  BY <1>1, <1>2, AlwaysOnMap, PTL DEF MotionSpec
-----------------------------------------------------------------------------
(* Inventory: the items on screen.                                           *)

\* What the window thread is in the middle of, and the stats there are.
Loads == [at : {"load"}, id : Containers, items : [BoxSlots -> Held]]
Opens == [at : {"open"}, id : Containers]
Swaps == [at : {"swap", "swapped"}, from : Slots, to : Slots, first : Held, second : Held]
Drops == [at : {"drop", "dropped"}, from : Slots]
Stats == {p \in Places : p.holder \in Holders /\ p.slot \in SlotsOf(p.holder)}

\* Every variable in its range, with the records' fields.
Typed ==
  /\ interactive_id \in Containers \cup {Portal, None}
  /\ container_id \in Containers \cup {None}
  /\ container_visible \in BOOLEAN
  /\ shown \in [Slots -> Held]
  /\ DOMAIN held = Holders /\ DOMAIN server = Holders
  /\ \A h \in Holders : held[h] \in [SlotsOf(h) -> Held] /\ server[h] \in [SlotsOf(h) -> Held]
  /\ drag \in Slots \cup {None}
  /\ win \in {Idle, [at |-> "update"]} \cup Loads \cup Opens \cup Swaps \cup Drops
  /\ net \in {Idle} \cup [at : {"stored", "checked"}, stat : Stats]
  /\ c2s \in Seq(Requests) /\ s2c \in Seq(Stats)
  /\ causes \subseteq Causes
  /\ clicks \in 0 .. MaxClicks /\ changes \in 0 .. MaxChanges /\ panicked \in BOOLEAN

\* An item is being swapped or dropped.
Moving == win.at \in {"swap", "swapped", "drop", "dropped"}

\* The object stood on, the container on view and what map.update is about to
\* do agree, and nothing is moved to or from a view that is closed.
Synced ==
  /\ container_visible <=> container_id # None
  /\ win.at \in {"load", "open"} => interactive_id = win.id
  /\ win.at = "update" => interactive_id = None
  /\ win.at \notin {"load", "open", "update"} => interactive_id \in {container_id, Portal}
  /\ (Moving /\ win.from \in BoxSlots) => container_id # None
  /\ (win.at \in {"swap", "swapped"} /\ win.to \in BoxSlots) => container_id # None

\* A stat about slot s of h is on its way, or in the network thread's hands.
SamePlace(p, h, s) == p.holder = h /\ p.slot = s
Awaited(h, s) == \E i \in DOMAIN s2c : SamePlace(s2c[i], h, s)
InNet(h, s) == net # Idle /\ SamePlace(net.stat, h, s)

\* Of the stats about a place the newest has what the server has there.
Newest ==
  /\ \A i \in DOMAIN s2c :
       \/ s2c[i].item = server[s2c[i].holder][s2c[i].slot]
       \/ \E j \in DOMAIN s2c : j > i /\ SamePlace(s2c[j], s2c[i].holder, s2c[i].slot)
  /\ net # Idle => \/ net.stat.item = server[net.stat.holder][net.stat.slot]
                   \/ Awaited(net.stat.holder, net.stat.slot)

\* An object of the map has what the server has, or will.
HeldRight == \A h \in Holders : \A s \in SlotsOf(h) : held[h][s] = server[h][s] \/ Awaited(h, s)

\* A request touches slot s of h, or the callback that will send one does.
Names(p, h, s) == p.slot = s /\ p.holder \in {h, Portal}
Asks(r, h, s) == Names(r.from, h, s) \/ (r.kind = "swap" /\ Names(r.to, h, s))
Asked(h, s) == \E i \in DOMAIN c2s : Asks(c2s[i], h, s)
InHand(s) == win.at \in {"swapped", "dropped"} /\ win.from = s

\* The slot on screen shows what the server has, or something is under way
\* that will set it right or be refused.
Right(h, s) == shown[s] = server[h][s] \/ Awaited(h, s) \/ InNet(h, s) \/ Asked(h, s) \/ InHand(s)

\* So for the player's slots, for the items that will fill the view, for the
\* view, and for the item a swap has read; each until its causes happen.
InvRight == causes \cap {"overlap", "refused"} = {} => \A s \in InvSlots : Right(Me, s)
LoadRight == win.at = "load" /\ "overlap" \notin causes =>
  \A s \in BoxSlots : win.items[s] = server[win.id][s] \/ Awaited(win.id, s) \/ InNet(win.id, s)
ViewRight == causes = {} /\ win.at # "load" =>
  \A s \in BoxSlots : IF Viewed = None THEN shown[s] = Empty ELSE Right(Viewed, s)
FirstRight == win.at = "swap" /\ "overlap" \notin causes => shown[win.from] = win.first

\* The slots of the backpack the player has not: nothing gets into them.
Closed(s) == s \in InvSlots /\ s >= Backpack /\ ~HasBackpack
OpenOnly(r) == r.kind = "swap" => ~Closed(r.from.slot) /\ ~Closed(r.to.slot)
ClosedEmpty ==
  /\ \A s \in InvSlots : Closed(s) => shown[s] = Empty /\ server[Me][s] = Empty
  /\ \A i \in DOMAIN s2c : Closed(s2c[i].slot) => s2c[i].item = Empty
  /\ net # Idle /\ Closed(net.stat.slot) => net.stat.item = Empty
  /\ ~Closed(drag)
  /\ Moving => ~Closed(win.from)
  /\ win.at = "swapped" => ~Closed(win.to)
  /\ \A i \in DOMAIN c2s : OpenOnly(c2s[i])

Kept ==
  /\ Synced /\ Newest /\ HeldRight /\ InvRight /\ LoadRight /\ ViewRight /\ FirstRight
  /\ ClosedEmpty /\ NamesTheShown /\ PanicsOnlyWhenClosed
InventoryInv == Typed /\ Kept

\* The slots and the objects.
LEMMA Objects ==
  /\ Slots = InvSlots \cup BoxSlots /\ InvSlots \cap BoxSlots = {}
  /\ Outside \notin Slots /\ None \notin Slots /\ None # Outside
  /\ Holders = Containers \cup {Me} /\ SlotsOf(Me) = InvSlots
  /\ \A h \in Containers : SlotsOf(h) = BoxSlots
  /\ \A h \in Holders : SlotsOf(h) \subseteq Slots
  /\ Me \notin Containers /\ Portal \notin Containers /\ None \notin Containers
  /\ Portal # Me /\ Portal # None /\ Me # None
  /\ Portal \notin Holders /\ None \notin Holders
  BY InventoryAssumption DEF Slots, InvSlots, BoxSlots, Holders, SlotsOf

\* The search for a free slot finds one of the player's or none.
LEMMA FreeSlot ==
  nextAvailableSlot \in InvSlots \cup {Outside}
  <1> DEFINE free == {s \in InvSlots : shown[s] = Empty}
  <1>1. CASE free = {}
    BY <1>1 DEF nextAvailableSlot
  <1>2. CASE free # {}
    <2>1. free \in SUBSET Nat /\ free \subseteq InvSlots
      BY DEF InvSlots
    <2>2. \E s \in free : \A t \in free : s <= t
      BY <1>2, <2>1, Smallest
    <2> DEFINE least == CHOOSE s \in free : \A t \in free : s <= t
    <2>3. least \in free
      BY <2>2
    <2>4. nextAvailableSlot = least
      BY <1>2 DEF nextAvailableSlot
    <2> QED
      BY <2>1, <2>3, <2>4
  <1> QED
    BY <1>1, <1>2

\* A table of items with one item put in its place.
LEMMA Replaced ==
  ASSUME NEW f, DOMAIN f = Holders, \A g \in Holders : f[g] \in [SlotsOf(g) -> Held],
         NEW h \in Holders, NEW s \in SlotsOf(h), NEW i \in Held
  PROVE  LET r == [f EXCEPT ![h][s] = i] IN
           /\ DOMAIN r = Holders
           /\ \A g \in Holders : r[g] \in [SlotsOf(g) -> Held]
           /\ \A g \in Holders : \A t \in SlotsOf(g) :
                r[g][t] = IF g = h /\ t = s THEN i ELSE f[g][t]
  OBVIOUS

\* There is an item, or none, wherever one can be.
LEMMA ItemsTable ==
  ASSUME Typed
  PROVE  /\ \A h \in Holders : \A s \in SlotsOf(h) : held[h][s] \in Held /\ server[h][s] \in Held
         /\ \A h \in Containers : held[h] \in [BoxSlots -> Held]
  BY Objects DEF Typed

\* What the window thread is doing tells what it has read.
LEMMA WinFields ==
  ASSUME Typed
  PROVE  /\ win.at = "load" => win \in Loads /\ win.id \in Containers /\ win.items \in [BoxSlots -> Held]
         /\ win.at = "open" => win \in Opens /\ win.id \in Containers
         /\ win.at \in {"swap", "swapped"} =>
              win \in Swaps /\ win.from \in Slots /\ win.to \in Slots /\ win.first \in Held /\ win.second \in Held
         /\ win.at \in {"drop", "dropped"} => win \in Drops /\ win.from \in Slots
         /\ (win = Idle \/ win.at = "idle") => win = Idle /\ win.at = "idle"
         /\ Viewed \in Containers \cup {None}
  BY DEF Typed, Loads, Opens, Swaps, Drops, Idle, Viewed

\* What the network thread has in its hands, and what is on its way to it.
LEMMA NetFields ==
  ASSUME Typed
  PROVE  /\ net # Idle <=> net.at \in {"stored", "checked"}
         /\ net # Idle => /\ net.stat \in Stats /\ net.stat.holder \in Holders
                          /\ net.stat.slot \in SlotsOf(net.stat.holder)
                          /\ net.stat.slot \in Slots /\ net.stat.item \in Held
                          /\ net \in [at : {"stored", "checked"}, stat : Stats]
  <1>1. net = Idle => net.at \notin {"stored", "checked"}
    BY DEF Idle
  <1>2. CASE net # Idle
    <2>1. net \in [at : {"stored", "checked"}, stat : Stats]
      BY <1>2 DEF Typed
    <2>2. net.stat \in Stats
      BY <2>1
    <2> QED
      BY <1>1, <2>1, <2>2, Objects DEF Stats, Places
  <1> QED
    BY <1>1, <1>2

LEMMA StatFields ==
  ASSUME Typed, NEW i \in DOMAIN s2c
  PROVE  /\ s2c[i] \in Stats /\ s2c[i].holder \in Holders /\ s2c[i].slot \in SlotsOf(s2c[i].holder)
         /\ s2c[i].item \in Held
  <1>1. s2c[i] \in Stats
    BY DEF Typed
  <1> QED
    BY <1>1 DEF Stats, Places

\* The window thread does not touch what the server and the network thread have.
LEMMA Apart ==
  ASSUME Newest, HeldRight, UNCHANGED <<s2c, server, net, held>>
  PROVE  Newest' /\ HeldRight' /\ \A h, s : (Awaited(h, s)' <=> Awaited(h, s)) /\ (InNet(h, s)' <=> InNet(h, s))
  BY DEF Newest, HeldRight, Awaited, InNet, SamePlace

\* Nor, but for a request, what is asked of the server.
LEMMA NotAsked ==
  ASSUME NamesTheShown, UNCHANGED c2s
  PROVE  NamesTheShown' /\ \A h, s : Asked(h, s)' <=> Asked(h, s)
  BY DEF NamesTheShown, Asked

\* A slot is as right as it was when neither it nor what will set it right changes.
LEMMA StillRight ==
  ASSUME UNCHANGED <<s2c, server, net, c2s>>, NEW h, NEW s, Right(h, s), shown'[s] = shown[s],
         InHand(s) => InHand(s)'
  PROVE  Right(h, s)'
  BY DEF Right, Awaited, InNet, Asked, SamePlace

\* map.update keeps the invariant, step by step.
LEMMA UpdateBeginsStep ==
  ASSUME InventoryInv, UpdateBegins
  PROVE  InventoryInv'
  <1>0. /\ win = Idle /\ interactive_id' = None /\ win' = [at |-> "update"]
        /\ UNCHANGED <<container_id, container_visible, shown, held, drag, net, c2s, s2c, server, changes,
                       causes, clicks, panicked>>
        /\ Typed /\ Kept
    BY DEF UpdateBegins, InventoryInv, wires
  <1>1. Typed'
    BY <1>0 DEF Typed
  <1>2. Newest' /\ HeldRight'
    BY <1>0, Apart DEF Kept
  <1>3. NamesTheShown'
    BY <1>0, NotAsked DEF Kept
  <1>4. Synced' /\ PanicsOnlyWhenClosed' /\ FirstRight' /\ LoadRight'
    BY <1>0 DEF Kept, Synced, PanicsOnlyWhenClosed, FirstRight, LoadRight, Moving, Idle
  <1>5. InvRight'
    BY <1>0, StillRight DEF Kept, InvRight, InHand, Idle
  <1>6. ViewRight'
    BY <1>0, StillRight DEF Kept, ViewRight, InHand, Idle, Viewed
  <1>7. ClosedEmpty'
    BY <1>0 DEF Kept, ClosedEmpty, Moving, Closed, OpenOnly, Idle
  <1> QED
    BY <1>1, <1>2, <1>3, <1>4, <1>5, <1>6, <1>7 DEF InventoryInv, Kept

LEMMA UpdateFindsStep ==
  ASSUME InventoryInv, NEW o \in Containers \cup {Portal}, UpdateFinds(o)
  PROVE  InventoryInv'
  <1>0. /\ win.at = "update" /\ interactive_id' = o
        /\ win' = IF o = Portal THEN Idle
                  ELSE IF o = container_id THEN [at |-> "open", id |-> o]
                  ELSE [at |-> "load", id |-> o, items |-> held[o]]
        /\ UNCHANGED <<container_id, container_visible, shown, held, drag, net, c2s, s2c, server, changes,
                       causes, clicks, panicked>>
        /\ Typed /\ Kept
    BY DEF UpdateFinds, InventoryInv, wires
  <1>1. Typed'
    <2>1. win' \in {Idle} \cup Loads \cup Opens
      <3>1. CASE o = Portal
        BY <1>0, <3>1
      <3>2. CASE o # Portal
        BY <1>0, <3>2, ItemsTable DEF Loads, Opens
      <3> QED
        BY <3>1, <3>2
    <2> QED
      BY <1>0, <2>1 DEF Typed
  <1>2. Newest' /\ HeldRight'
    BY <1>0, Apart DEF Kept
  <1>3. NamesTheShown'
    BY <1>0, NotAsked DEF Kept
  <1>4. /\ win'.at \in {"idle", "load", "open"} /\ (win'.at # "idle" => win'.id = o /\ o \in Containers)
        /\ win'.at = "load" => win'.items = held[o]
        /\ win'.at = "open" => o = container_id
        /\ win'.at = "idle" => o = Portal
    BY <1>0 DEF Idle
  <1>5. Synced' /\ PanicsOnlyWhenClosed' /\ FirstRight'
    BY <1>0, <1>4 DEF Kept, Synced, PanicsOnlyWhenClosed, FirstRight, Moving
  <1>6. LoadRight'
    <2> SUFFICES ASSUME win'.at = "load", NEW s \in BoxSlots
                 PROVE  win'.items[s] = server'[win'.id][s] \/ Awaited(win.id, s)'
      BY DEF LoadRight
    <2>1. o \in Containers /\ o \in Holders /\ s \in SlotsOf(o)
      BY <1>4, Objects
    <2>2. held[o][s] = server[o][s] \/ Awaited(o, s)
      BY <1>0, <2>1 DEF Kept, HeldRight
    <2> QED
      BY <1>0, <1>4, <2>2, Apart DEF Awaited, SamePlace
  <1>7. InvRight'
    BY <1>0, <1>4, StillRight DEF Kept, InvRight, InHand
  <1>8. ViewRight'
    <2>1. win'.at # "load" => Viewed' = Viewed
      BY <1>0, <1>4 DEF Viewed
    <2> QED
      BY <1>0, <1>4, <2>1, StillRight DEF Kept, ViewRight, InHand
  <1>9. ClosedEmpty'
    BY <1>0, <1>4 DEF Kept, ClosedEmpty, Moving, Closed, OpenOnly
  <1> QED
    BY <1>1, <1>2, <1>3, <1>5, <1>6, <1>7, <1>8, <1>9 DEF InventoryInv, Kept

LEMMA UpdateLoadsStep ==
  ASSUME InventoryInv, UpdateLoads
  PROVE  InventoryInv'
  <1>0. /\ win.at = "load" /\ win' = [at |-> "open", id |-> win.id]
        /\ shown' = [s \in Slots |-> IF s \in BoxSlots THEN win.items[s] ELSE shown[s]]
        /\ causes' = Refilled
        /\ UNCHANGED <<interactive_id, container_id, container_visible, held, drag, net, c2s, s2c, server, changes,
                       clicks, panicked>>
        /\ Typed /\ Kept
    BY DEF UpdateLoads, InventoryInv, wires, screen
  <1>1. win.id \in Containers /\ win.items \in [BoxSlots -> Held]
    BY <1>0, WinFields
  <1>2. Typed'
    <2>1. win' \in Opens
      BY <1>0, <1>1 DEF Opens
    <2>2. shown' \in [Slots -> Held]
      BY <1>0, <1>1 DEF Typed
    <2> QED
      BY <1>0, <2>1, <2>2 DEF Typed, Refilled
  <1>3. Newest' /\ HeldRight'
    BY <1>0, Apart DEF Kept
  <1>4. NamesTheShown'
    BY <1>0, NotAsked DEF Kept
  <1>5. Synced' /\ PanicsOnlyWhenClosed' /\ FirstRight' /\ LoadRight'
    BY <1>0 DEF Kept, Synced, PanicsOnlyWhenClosed, FirstRight, Moving, LoadRight
  <1>6. InvRight'
    <2>1. \A s \in InvSlots : shown'[s] = shown[s]
      BY <1>0, Objects
    <2>2. causes' \cap {"overlap", "refused"} = {} => causes \cap {"overlap", "refused"} = {}
      BY <1>0 DEF Refilled
    <2> QED
      BY <1>0, <2>1, <2>2, StillRight DEF Kept, InvRight, InHand
  <1>7. ViewRight'
    <2> SUFFICES ASSUME causes' = {}, NEW s \in BoxSlots
                 PROVE  Right(win.id, s)' /\ Viewed' = win.id /\ win.id # None
      BY <1>0 DEF ViewRight
    <2>1. Viewed' = win.id /\ win.id # None
      BY <1>0, <1>1, Objects DEF Viewed
    <2>2. "overlap" \notin causes
      BY <1>0 DEF Refilled
    <2>3. win.items[s] = server[win.id][s] \/ Awaited(win.id, s) \/ InNet(win.id, s)
      BY <1>0, <2>2 DEF Kept, LoadRight
    <2>4. shown'[s] = win.items[s]
      BY <1>0, Objects
    <2> QED
      BY <1>0, <2>1, <2>3, <2>4 DEF Right, Awaited, InNet, SamePlace
  <1>8. ClosedEmpty'
    <2>1. \A s \in InvSlots : shown'[s] = shown[s]
      BY <1>0, Objects
    <2> QED
      BY <1>0, <2>1 DEF Kept, ClosedEmpty, Moving, Closed, OpenOnly
  <1> QED
    BY <1>2, <1>3, <1>4, <1>5, <1>6, <1>7, <1>8 DEF InventoryInv, Kept

LEMMA UpdateOpensStep ==
  ASSUME InventoryInv, ~panicked, UpdateOpens
  PROVE  InventoryInv'
  <1>0. /\ win.at = "open" /\ win' = Idle /\ container_id' = win.id /\ container_visible' = TRUE
        /\ UNCHANGED <<interactive_id, shown, held, drag, net, c2s, s2c, server, changes, causes, clicks, panicked>>
        /\ Typed /\ Kept
    BY DEF UpdateOpens, InventoryInv, wires
  <1>1. win.id \in Containers /\ win.id # None
    BY <1>0, WinFields, Objects
  <1>2. Typed'
    BY <1>0, <1>1 DEF Typed
  <1>3. Newest' /\ HeldRight'
    BY <1>0, Apart DEF Kept
  <1>4. NamesTheShown'
    BY <1>0, NotAsked DEF Kept
  <1>5. Synced' /\ FirstRight' /\ LoadRight'
    BY <1>0, <1>1 DEF Kept, Synced, FirstRight, Moving, LoadRight, Idle
  <1>6. InvRight'
    BY <1>0, StillRight DEF Kept, InvRight, InHand, Idle
  <1>7. ViewRight'
    <2>1. Viewed' = Viewed
      BY <1>0 DEF Viewed, Idle
    <2> QED
      BY <1>0, <2>1, StillRight DEF Kept, ViewRight, InHand, Idle
  <1>8. ClosedEmpty'
    BY <1>0 DEF Kept, ClosedEmpty, Moving, Closed, OpenOnly, Idle
  <1>9. PanicsOnlyWhenClosed'
    BY <1>0 DEF PanicsOnlyWhenClosed
  <1> QED
    BY <1>2, <1>3, <1>4, <1>5, <1>6, <1>7, <1>8, <1>9 DEF InventoryInv, Kept

LEMMA UpdateClosesStep ==
  ASSUME InventoryInv, ~panicked, UpdateCloses
  PROVE  InventoryInv'
  <1>0. /\ win.at = "update" /\ win' = Idle /\ container_id' = None /\ container_visible' = FALSE
        /\ shown' = IF container_id = None THEN shown
                    ELSE [s \in Slots |-> IF s \in BoxSlots THEN Empty ELSE shown[s]]
        /\ causes' = IF container_id = None THEN causes ELSE Refilled
        /\ UNCHANGED <<interactive_id, held, drag, net, c2s, s2c, server, changes, clicks, panicked>>
        /\ Typed /\ Kept
    BY DEF UpdateCloses, InventoryInv, wires
  <1>1. /\ shown' \in [Slots -> Held] /\ \A s \in InvSlots : shown'[s] = shown[s]
        /\ container_id # None => \A s \in BoxSlots : shown'[s] = Empty
    BY <1>0, Objects DEF Typed, Held
  <1>2. Typed'
    BY <1>0, <1>1 DEF Typed, Refilled
  <1>3. Newest' /\ HeldRight'
    BY <1>0, Apart DEF Kept
  <1>4. NamesTheShown'
    BY <1>0, NotAsked DEF Kept
  <1>5. Synced' /\ FirstRight' /\ LoadRight'
    BY <1>0 DEF Kept, Synced, FirstRight, Moving, LoadRight, Idle
  <1>6. InvRight'
    <2>1. causes' \cap {"overlap", "refused"} = {} => causes \cap {"overlap", "refused"} = {}
      BY <1>0 DEF Refilled
    <2> QED
      BY <1>0, <1>1, <2>1, StillRight DEF Kept, InvRight, InHand
  <1>7. ViewRight'
    <2>1. Viewed' = None
      BY <1>0 DEF Viewed, Idle
    <2>2. Viewed = container_id
      BY <1>0 DEF Viewed
    <2> QED
      BY <1>0, <1>1, <2>1, <2>2 DEF Kept, ViewRight
  <1>8. ClosedEmpty'
    BY <1>0, <1>1 DEF Kept, ClosedEmpty, Moving, Closed, OpenOnly, Idle
  <1>9. PanicsOnlyWhenClosed'
    BY <1>0 DEF PanicsOnlyWhenClosed
  <1> QED
    BY <1>2, <1>3, <1>4, <1>5, <1>6, <1>7, <1>8, <1>9 DEF InventoryInv, Kept

\* What begins with a click or the end of a drag: a swap, a drop, a fall or nothing.
LEMMA MoveBegins ==
  ASSUME InventoryInv, win = Idle, NEW from \in Slots \cup {Outside}, NEW to \in Slots \cup {Outside},
         ~Closed(from), from \in BoxSlots \/ to \in BoxSlots => container_visible,
         from = Outside => ~container_visible,
         swapSlots(from, to),
         drag' \in Slots \cup {None}, ~Closed(drag)', clicks' \in 0 .. MaxClicks,
         UNCHANGED <<interactive_id, container_id, container_visible, shown, held, net, c2s, s2c, server, changes, causes>>
  PROVE  InventoryInv'
  <1>0. Typed /\ Kept
    BY DEF InventoryInv
  <1>1. /\ win' \in {Idle} \cup Swaps \cup Drops /\ win'.at \in {"idle", "swap", "drop"}
        /\ win'.at # "idle" => win'.from = from /\ from # Outside
        /\ win'.at = "swap" => win'.to = to /\ win'.first = shown[from]
    <2>1. CASE from = Outside
      BY <2>1 DEF swapSlots, Idle
    <2>2. CASE from # Outside /\ to = Outside
      <3>1. win' = [at |-> "drop", from |-> from] /\ from \in Slots
        BY <2>2 DEF swapSlots
      <3> QED
        BY <3>1, <2>2 DEF Drops
    <2>3. CASE from # Outside /\ to # Outside
      <3>1. /\ win' = [at |-> "swap", from |-> from, to |-> to, first |-> shown[from], second |-> shown[to]]
            /\ from \in Slots /\ to \in Slots
        BY <2>3 DEF swapSlots
      <3>2. shown[from] \in Held /\ shown[to] \in Held
        BY <1>0, <3>1 DEF Typed
      <3> QED
        BY <3>1, <3>2, <2>3 DEF Swaps
    <2> QED
      BY <2>1, <2>2, <2>3
  <1>2. Typed'
    BY <1>0, <1>1 DEF Typed, swapSlots
  <1>3. Newest' /\ HeldRight'
    BY <1>0, Apart DEF Kept
  <1>4. NamesTheShown'
    BY <1>0, NotAsked DEF Kept
  <1>5. Synced' /\ FirstRight' /\ LoadRight'
    BY <1>0, <1>1 DEF Kept, Synced, FirstRight, Moving, LoadRight, Idle
  <1>6. InvRight'
    BY <1>0, <1>1, StillRight DEF Kept, InvRight, InHand, Idle
  <1>7. ViewRight'
    <2>1. Viewed' = Viewed
      BY <1>1 DEF Viewed, Idle
    <2> QED
      BY <1>0, <1>1, <2>1, StillRight DEF Kept, ViewRight, InHand, Idle
  <1>8. ClosedEmpty'
    BY <1>0, <1>1 DEF Kept, ClosedEmpty, Moving, Closed, OpenOnly
  <1>9. PanicsOnlyWhenClosed'
    BY DEF PanicsOnlyWhenClosed, swapSlots
  <1> QED
    BY <1>2, <1>3, <1>4, <1>5, <1>6, <1>7, <1>8, <1>9 DEF InventoryInv, Kept

\* A callback that does nothing but remember the click or the slot.
LEMMA OnlyClicked ==
  ASSUME InventoryInv, win = Idle,
         drag' \in Slots \cup {None}, ~Closed(drag)', clicks' \in 0 .. MaxClicks,
         UNCHANGED <<interactive_id, container_id, container_visible, shown, held, net, win, c2s, s2c, server,
                     changes, causes, panicked>>
  PROVE  InventoryInv'
  <1>0. Typed /\ Kept
    BY DEF InventoryInv
  <1>1. Typed'
    BY <1>0 DEF Typed
  <1>2. Newest' /\ HeldRight'
    BY <1>0, Apart DEF Kept
  <1>3. NamesTheShown'
    BY <1>0, NotAsked DEF Kept
  <1>4. Synced' /\ FirstRight' /\ LoadRight' /\ PanicsOnlyWhenClosed'
    BY <1>0 DEF Kept, Synced, FirstRight, Moving, LoadRight, PanicsOnlyWhenClosed, Idle
  <1>5. InvRight'
    BY <1>0, StillRight DEF Kept, InvRight, InHand
  <1>6. ViewRight'
    BY <1>0, StillRight DEF Kept, ViewRight, InHand, Viewed
  <1>7. ClosedEmpty'
    BY <1>0 DEF Kept, ClosedEmpty, Moving, Closed, OpenOnly
  <1> QED
    BY <1>1, <1>2, <1>3, <1>4, <1>5, <1>6, <1>7 DEF InventoryInv, Kept

\* The same when a request has been added to those under way.
LEMMA RightStays ==
  ASSUME UNCHANGED <<s2c, server, net>>, NEW h, NEW s, Right(h, s), shown'[s] = shown[s],
         Asked(h, s) => Asked(h, s)', InHand(s) => InHand(s)' \/ Asked(h, s)'
  PROVE  Right(h, s)'
  BY DEF Right, Awaited, InNet, SamePlace

\* A request joins those on their way.
LEMMA Sent ==
  ASSUME Typed, NEW r \in Requests, c2s' = Append(c2s, r)
  PROVE  /\ c2s' \in Seq(Requests)
         /\ \A h, s : Asked(h, s)' <=> Asked(h, s) \/ Asks(r, h, s)
         /\ (\A i \in DOMAIN c2s : OpenOnly(c2s[i])) /\ OpenOnly(r) => \A i \in DOMAIN c2s' : OpenOnly(c2s'[i])
         /\ NamesTheShown /\ {r.from.holder, r.to.holder} \subseteq
              {Me, Portal, r.view} \cup (IF r.kind = "swap" THEN {} ELSE {None}) => NamesTheShown'
  <1>1. c2s \in Seq(Requests)
    BY DEF Typed
  <1>2. /\ c2s' \in Seq(Requests) /\ DOMAIN c2s' = 1 .. Len(c2s) + 1 /\ DOMAIN c2s = 1 .. Len(c2s)
        /\ Len(c2s) \in Nat /\ \A i \in 1 .. Len(c2s) : c2s'[i] = c2s[i]
        /\ c2s'[Len(c2s) + 1] = r
    BY <1>1, AppendProperties, LenProperties
  <1>3. \A i \in DOMAIN c2s' : (i \in DOMAIN c2s /\ c2s'[i] = c2s[i]) \/ c2s'[i] = r
    BY <1>2
  <1>4. \A i \in DOMAIN c2s : i \in DOMAIN c2s' /\ c2s'[i] = c2s[i]
    BY <1>2
  <1>5. \E i \in DOMAIN c2s' : c2s'[i] = r
    BY <1>2
  <1>6. \A h, s : Asked(h, s)' <=> Asked(h, s) \/ Asks(r, h, s)
    BY <1>3, <1>4, <1>5 DEF Asked
  <1>7. (\A i \in DOMAIN c2s : OpenOnly(c2s[i])) /\ OpenOnly(r) => \A i \in DOMAIN c2s' : OpenOnly(c2s'[i])
    BY <1>3
  <1>8. NamesTheShown /\ {r.from.holder, r.to.holder} \subseteq
          {Me, Portal, r.view} \cup (IF r.kind = "swap" THEN {} ELSE {None}) => NamesTheShown'
    BY <1>3 DEF NamesTheShown
  <1> QED
    BY <1>2, <1>6, <1>7, <1>8

\* What a request can name.
LEMMA Asking ==
  ASSUME Typed, NEW k \in {"use", "swap", "drop"},
         NEW f \in Holders \cup {Portal, None}, NEW t \in Holders \cup {Portal, None},
         NEW a \in Slots \cup {Outside}, NEW b \in Slots \cup {Outside}, NEW i \in Held, NEW j \in Held
  PROVE  LET r == Request(k, ItemAt(f, a, i), ItemAt(t, b, j)) IN
           /\ r \in Requests /\ r.kind = k /\ r.view = container_id
           /\ r.from = ItemAt(f, a, i) /\ r.to = ItemAt(t, b, j)
           /\ r.from.holder = f /\ r.from.slot = a /\ r.from.item = i /\ r.to.holder = t /\ r.to.slot = b
           /\ Nowhere \in Places /\ Nowhere = ItemAt(None, Outside, Empty)
  BY DEF Typed, Requests, Places, Request, ItemAt, Holders, Nowhere, Held

\* An item is used: nothing changes but the requests.
LEMMA UseSends ==
  ASSUME InventoryInv, win = Idle, NEW h \in {Me, container_id}, NEW s \in Slots \cup {Outside}, NEW i \in Held,
         UseItem(h, s, i),
         drag' \in Slots \cup {None}, ~Closed(drag)', clicks' \in 0 .. MaxClicks,
         UNCHANGED <<interactive_id, container_id, container_visible, shown, held, net, win, s2c, server,
                     changes, causes, panicked>>
  PROVE  InventoryInv'
  <1> DEFINE r == Request("use", ItemAt(h, s, i), Nowhere)
  <1>0. Typed /\ Kept
    BY DEF InventoryInv
  <1>a. h \in Holders \cup {Portal, None}
    BY <1>0 DEF Typed, Holders
  <1>b. /\ r \in Requests /\ r.kind = "use" /\ r.view = container_id
        /\ r.from.holder = h /\ r.to.holder = None
    BY <1>0, <1>a DEF Typed, Requests, Places, Request, ItemAt, Holders, Nowhere, Held
  <1>c. c2s' = Append(c2s, r)
    BY DEF UseItem, Send
  <1> HIDE DEF r
  <1>d. OpenOnly(r)
    BY <1>b DEF OpenOnly
  <1>1. Typed'
    BY <1>0, <1>b, <1>c, Sent DEF Typed
  <1>2. Newest' /\ HeldRight'
    BY <1>0, Apart DEF Kept
  <1>3. NamesTheShown'
    BY <1>0, <1>b, <1>c, Sent DEF Kept
  <1>4. Synced' /\ FirstRight' /\ LoadRight' /\ PanicsOnlyWhenClosed'
    BY <1>0 DEF Kept, Synced, FirstRight, Moving, LoadRight, PanicsOnlyWhenClosed, Idle
  <1>e. \A g, q : Asked(g, q) => Asked(g, q)'
    BY <1>0, <1>b, <1>c, Sent
  <1>5. InvRight'
    BY <1>0, <1>e, RightStays DEF Kept, InvRight, InHand
  <1>6. ViewRight'
    BY <1>0, <1>e, RightStays DEF Kept, ViewRight, InHand, Viewed
  <1>7. ClosedEmpty'
    <2>1. \A q \in DOMAIN c2s' : OpenOnly(c2s'[q])
      BY <1>0, <1>b, <1>c, <1>d, Sent DEF Kept, ClosedEmpty
    <2> QED
      BY <1>0, <2>1 DEF Kept, ClosedEmpty, Moving, Closed, OpenOnly
  <1> QED
    BY <1>1, <1>2, <1>3, <1>4, <1>5, <1>6, <1>7 DEF InventoryInv, Kept

\* The callbacks keep the invariant.
LEMMA DragBeginStep ==
  ASSUME InventoryInv, NEW s \in Slots, itemDragBegin(s)
  PROVE  InventoryInv'
  <1>1. ~Closed(s)
    BY DEF itemDragBegin, Click, InventoryInv, Kept, ClosedEmpty, Closed
  <1>2. Typed
    BY DEF InventoryInv
  <1>3. clicks' \in 0 .. MaxClicks
    BY <1>2, InventoryAssumption DEF itemDragBegin, Click, Typed
  <1>4. drag' \in Slots \cup {None} /\ ~Closed(drag)'
    BY <1>1 DEF itemDragBegin, Closed
  <1> QED
    BY <1>3, <1>4, OnlyClicked DEF itemDragBegin, Click, JustClicked, screen

\* Where the mouse finds a slot.
LEMMA Found ==
  ASSUME NEW s \in Slots \cup {Outside}
  PROVE  /\ findSlotId(s) \in Slots \cup {Outside} /\ findSlotId(s) \in {s, Outside}
         /\ findSlotId(s) \in BoxSlots => container_visible
         /\ (findSlotId(s) = Outside /\ s # Outside) => ~container_visible /\ s \in BoxSlots
         /\ ~Closed(Outside)
  BY Objects DEF findSlotId, Closed

LEMMA DragEndStep ==
  ASSUME InventoryInv, ~panicked, NEW s \in Slots \cup {Outside}, itemDragEnd(s)
  PROVE  InventoryInv'
  <1> DEFINE from == findSlotId(drag)
             to   == findSlotId(s)
  <1>1. /\ Typed /\ win = Idle /\ drag \in Slots /\ drag' = None /\ ~Closed(drag)
        /\ IF from = to THEN UNCHANGED <<win, panicked>> ELSE swapSlots(from, to)
        /\ UNCHANGED <<interactive_id, container_id, container_visible, shown, held, net, c2s, s2c, server,
                       changes, causes, clicks>>
    BY DEF itemDragEnd, InventoryInv, Kept, ClosedEmpty, Typed, screen, wires
  <1>2. /\ from \in Slots \cup {Outside} /\ to \in Slots \cup {Outside} /\ ~Closed(from)
        /\ from \in BoxSlots \/ to \in BoxSlots => container_visible
        /\ from = Outside => ~container_visible
    BY <1>1, Found, Objects
  <1>3. drag' \in Slots \cup {None} /\ ~Closed(drag)' /\ clicks' \in 0 .. MaxClicks
    BY <1>1, Objects DEF Closed, Typed
  <1> HIDE DEF from, to
  <1>4. CASE from = to
    BY <1>1, <1>3, <1>4, OnlyClicked
  <1>5. CASE from # to
    BY <1>1, <1>2, <1>3, <1>5, MoveBegins
  <1> QED
    BY <1>4, <1>5

LEMMA DoubleClickStep ==
  ASSUME InventoryInv, NEW s \in Slots, itemDoubleClick(s)
  PROVE  InventoryInv'
  <1> DEFINE from == findSlotId(s)
             item == shown[s]
             to   == IF from \in BoxSlots THEN nextAvailableSlot ELSE EquipSlot[item]
  <1>1. /\ Typed /\ win = Idle /\ drag' = drag /\ ~Closed(drag) /\ item # Empty /\ item \in Held /\ ~Closed(s)
        /\ clicks' = clicks + 1 /\ clicks < MaxClicks
        /\ UNCHANGED <<interactive_id, container_id, container_visible, shown, held, net, s2c, server, causes, changes>>
        /\ IF item \in Consumables /\ from \notin BoxSlots
           THEN UseItem(Me, from, item) /\ UNCHANGED <<win, panicked>>
           ELSE /\ UNCHANGED c2s
                /\ IF from \notin BoxSlots /\ to \in {Outside, from}
                   THEN UNCHANGED <<win, panicked>>
                   ELSE swapSlots(from, to)
    BY DEF itemDoubleClick, Click, JustClicked, InventoryInv, Kept, ClosedEmpty, Closed, Typed, screen
  <1>2. /\ from \in Slots \cup {Outside} /\ ~Closed(from) /\ (from \in BoxSlots => container_visible)
        /\ from = Outside => ~container_visible
    BY <1>1, Found, Objects
  <1>3. to \in InvSlots \cup {Outside}
    <2>1. item \in Items
      BY <1>1 DEF Held
    <2>2. EquipSlot[item] \in InvSlots \cup {Outside}
      BY <2>1, InventoryAssumption DEF InvSlots
    <2> QED
      BY <2>2, FreeSlot
  <1>4. drag' \in Slots \cup {None} /\ ~Closed(drag)' /\ clicks' \in 0 .. MaxClicks
    BY <1>1, InventoryAssumption DEF Closed, Typed
  <1>5. to \in Slots \cup {Outside} /\ to \notin BoxSlots
    BY <1>3, Objects
  <1> HIDE DEF from, to, item
  <1>6. CASE item \in Consumables /\ from \notin BoxSlots
    BY <1>1, <1>2, <1>4, <1>6, UseSends
  <1>7. CASE ~(item \in Consumables /\ from \notin BoxSlots) /\ from \notin BoxSlots /\ to \in {Outside, from}
    BY <1>1, <1>4, <1>7, OnlyClicked
  <1>8. CASE ~(item \in Consumables /\ from \notin BoxSlots) /\ ~(from \notin BoxSlots /\ to \in {Outside, from})
    BY <1>1, <1>2, <1>4, <1>5, <1>8, MoveBegins
  <1> QED
    BY <1>6, <1>7, <1>8

LEMMA ShiftClickStep ==
  ASSUME InventoryInv, NEW s \in Slots, itemShiftClick(s)
  PROVE  InventoryInv'
  <1> DEFINE from == findSlotId(s)
             h    == IF from \in BoxSlots THEN container_id ELSE Me
  <1>1. /\ Typed /\ win = Idle /\ drag' = drag /\ ~Closed(drag) /\ shown[s] \in Held
        /\ clicks' = clicks + 1 /\ clicks < MaxClicks
        /\ UNCHANGED <<interactive_id, container_id, container_visible, shown, held, net, s2c, server, causes, changes,
                       win, panicked>>
        /\ UseItem(h, from, shown[s])
    BY DEF itemShiftClick, Click, JustClicked, InventoryInv, Kept, ClosedEmpty, Typed, screen
  <1>2. from \in Slots \cup {Outside} /\ h \in {Me, container_id}
    BY Found
  <1>3. drag' \in Slots \cup {None} /\ ~Closed(drag)' /\ clicks' \in 0 .. MaxClicks
    BY <1>1, InventoryAssumption DEF Closed, Typed
  <1> HIDE DEF from, h
  <1> QED
    BY <1>1, <1>2, <1>3, UseSends

LEMMA SwapRefusedStep ==
  ASSUME InventoryInv, ~panicked, SwapRefused
  PROVE  InventoryInv'
  <1>0. /\ win.at = "swap" /\ win' = Idle /\ shown' = [shown EXCEPT ![win.from] = win.first]
        /\ UNCHANGED <<interactive_id, container_id, container_visible, held, drag, net, c2s, s2c, server, changes,
                       causes, clicks, panicked>>
        /\ Typed /\ Kept
    BY DEF SwapRefused, InventoryInv, wires, screen
  <1>1. win.from \in Slots /\ win.first \in Held /\ shown \in [Slots -> Held] /\ ~Closed(win.from)
    BY <1>0, WinFields DEF Typed, Kept, ClosedEmpty, Moving
  <1>2. /\ shown' \in [Slots -> Held] /\ \A s \in Slots : s # win.from => shown'[s] = shown[s]
        /\ "overlap" \notin causes => \A s \in Slots : shown'[s] = shown[s]
    BY <1>0, <1>1 DEF Kept, FirstRight
  <1>3. Typed'
    BY <1>0, <1>2 DEF Typed
  <1>4. Newest' /\ HeldRight'
    BY <1>0, Apart DEF Kept
  <1>5. NamesTheShown'
    BY <1>0, NotAsked DEF Kept
  <1>6. Synced' /\ FirstRight' /\ LoadRight' /\ PanicsOnlyWhenClosed'
    BY <1>0 DEF Kept, Synced, FirstRight, Moving, LoadRight, PanicsOnlyWhenClosed, Idle
  <1>7. InvRight'
    BY <1>0, <1>2, StillRight, Objects DEF Kept, InvRight, InHand
  <1>8. ViewRight'
    <2>1. Viewed' = Viewed
      BY <1>0 DEF Viewed, Idle
    <2> QED
      BY <1>0, <1>2, <2>1, StillRight, Objects DEF Kept, ViewRight, InHand
  <1>9. ClosedEmpty'
    <2>1. \A s \in InvSlots : Closed(s) => shown'[s] = shown[s]
      BY <1>1, <1>2, Objects
    <2> QED
      BY <1>0, <2>1 DEF Kept, ClosedEmpty, Moving, Closed, OpenOnly, Idle
  <1> QED
    BY <1>3, <1>4, <1>5, <1>6, <1>7, <1>8, <1>9 DEF InventoryInv, Kept

\* A view that shows a container is there while something is moved to or from it.
LEMMA ViewThere ==
  ASSUME Typed, Synced, Moving
  PROVE  /\ Viewed = container_id
         /\ win.from \in BoxSlots => container_id # None
         /\ win.at \in {"swap", "swapped"} /\ win.to \in BoxSlots => container_id # None
         /\ interactive_id \in {container_id, Portal}
  BY DEF Synced, Moving, Viewed

LEMMA SwapFirstStep ==
  ASSUME InventoryInv, ~panicked, SwapFirst
  PROVE  InventoryInv'
  <1>0. /\ win.at = "swap" /\ win' = [win EXCEPT !.at = "swapped"] /\ shown' = [shown EXCEPT ![win.from] = win.second]
        /\ win.to \in BoxSlots \/ win.to < Backpack \/ HasBackpack
        /\ UNCHANGED <<interactive_id, container_id, container_visible, held, drag, net, c2s, s2c, server, changes,
                       causes, clicks, panicked>>
        /\ Typed /\ Kept
    BY DEF SwapFirst, InventoryInv, wires, screen
  <1>1. /\ win \in Swaps /\ win.from \in Slots /\ win.to \in Slots /\ win.second \in Held /\ shown \in [Slots -> Held]
        /\ ~Closed(win.from)
    BY <1>0, WinFields DEF Typed, Kept, ClosedEmpty, Moving
  <1>a. ~Closed(win.to)
    <2>1. CASE win.to \in BoxSlots
      BY <2>1, Objects DEF Closed
    <2>2. CASE win.to \in InvSlots
      BY <1>0, <2>2, Objects, InventoryAssumption DEF Closed, InvSlots
    <2> QED
      BY <1>1, <2>1, <2>2, Objects
  <1>2. /\ win' \in Swaps /\ win'.at = "swapped" /\ win'.from = win.from /\ win'.to = win.to
    BY <1>0, <1>1 DEF Swaps
  <1>3. /\ shown' \in [Slots -> Held] /\ \A s \in Slots : s # win.from => shown'[s] = shown[s]
    BY <1>0, <1>1
  <1>4. Typed'
    BY <1>0, <1>2, <1>3 DEF Typed
  <1>5. Newest' /\ HeldRight'
    BY <1>0, Apart DEF Kept
  <1>6. NamesTheShown'
    BY <1>0, NotAsked DEF Kept
  <1>7. Synced' /\ FirstRight' /\ LoadRight' /\ PanicsOnlyWhenClosed'
    BY <1>0, <1>2 DEF Kept, Synced, FirstRight, Moving, LoadRight, PanicsOnlyWhenClosed
  <1>8. \A h : \A s \in Slots : (s # win.from /\ Right(h, s)) => Right(h, s)'
    BY <1>0, <1>3, StillRight DEF InHand
  <1>9. \A h : Right(h, win.from)'
    BY <1>2 DEF Right, InHand
  <1>10. InvRight'
    BY <1>0, <1>8, <1>9, Objects DEF Kept, InvRight
  <1>11. ViewRight'
    <2>1. Viewed' = Viewed
      BY <1>0, <1>2 DEF Viewed
    <2>2. win.from \in BoxSlots => Viewed # None
      BY <1>0, ViewThere DEF Kept, Moving
    <2> SUFFICES ASSUME causes = {}, NEW s \in BoxSlots
                 PROVE  IF Viewed = None THEN shown'[s] = Empty ELSE Right(Viewed, s)'
      BY <1>0, <2>1 DEF ViewRight
    <2>3. s \in Slots
      BY Objects
    <2>4. IF Viewed = None THEN shown[s] = Empty ELSE Right(Viewed, s)
      BY <1>0 DEF Kept, ViewRight
    <2>5. PICK v : v = Viewed
      OBVIOUS
    <2>6. CASE s = win.from
      BY <1>2, <2>1, <2>2, <2>6 DEF Right, InHand
    <2>7. CASE s # win.from
      BY <1>3, <1>8, <2>1, <2>3, <2>4, <2>5, <2>7
    <2> QED
      BY <2>6, <2>7
  <1>12. ClosedEmpty'
    <2>1. \A s \in InvSlots : Closed(s) => shown'[s] = shown[s]
      BY <1>1, <1>3, Objects
    <2> QED
      BY <1>0, <1>2, <1>1, <1>a, <2>1 DEF Kept, ClosedEmpty, Moving, Closed, OpenOnly
  <1> QED
    BY <1>4, <1>5, <1>6, <1>7, <1>10, <1>11, <1>12 DEF InventoryInv, Kept

LEMMA SwapSecondStep ==
  ASSUME InventoryInv, ~panicked, SwapSecond
  PROVE  InventoryInv'
  <1> DEFINE r == Request("swap", ItemAt(NameOf(win.from), win.from, win.first),
                                  ItemAt(NameOf(win.to), win.to, win.second))
  <1>0. /\ win.at = "swapped" /\ win' = Idle /\ shown' = [shown EXCEPT ![win.to] = win.first] /\ c2s' = Append(c2s, r)
        /\ UNCHANGED <<interactive_id, container_id, container_visible, held, drag, net, s2c, server, changes,
                       causes, clicks, panicked>>
        /\ Typed /\ Kept
    BY DEF SwapSecond, InventoryInv, screen, Send
  <1>1. /\ win.from \in Slots /\ win.to \in Slots /\ win.first \in Held /\ win.second \in Held
        /\ shown \in [Slots -> Held] /\ ~Closed(win.from) /\ ~Closed(win.to)
    BY <1>0, WinFields DEF Typed, Kept, ClosedEmpty, Moving
  <1>2. /\ Viewed = container_id /\ Viewed' = container_id
        /\ win.from \in BoxSlots \/ win.to \in BoxSlots => container_id # None
        /\ interactive_id \in {container_id, Portal}
    BY <1>0, ViewThere DEF Kept, Moving, Viewed, Idle
  <1>3. /\ \A s \in InvSlots : NameOf(s) = Me
        /\ \A s \in BoxSlots : NameOf(s) \in {container_id, Portal}
        /\ \A s \in Slots : NameOf(s) \in Holders \cup {Portal, None}
    BY <1>0, <1>2, Objects DEF NameOf, Typed
  <1>4. /\ r \in Requests /\ r.kind = "swap" /\ r.view = container_id
        /\ r.from.holder = NameOf(win.from) /\ r.to.holder = NameOf(win.to)
        /\ r.from.slot = win.from /\ r.to.slot = win.to
    BY <1>0, <1>1, <1>3 DEF Typed, Requests, Places, Request, ItemAt, Holders
  <1>5. {r.from.holder, r.to.holder} \subseteq {Me, Portal, r.view}
    BY <1>1, <1>3, <1>4, Objects
  <1> HIDE DEF r
  <1>6. /\ shown' \in [Slots -> Held] /\ \A s \in Slots : s # win.to => shown'[s] = shown[s]
    BY <1>0, <1>1
  <1>7. Typed'
    BY <1>0, <1>4, <1>6, Sent DEF Typed
  <1>8. Newest' /\ HeldRight'
    BY <1>0, Apart DEF Kept
  <1>9. NamesTheShown'
    BY <1>0, <1>4, <1>5, Sent DEF Kept
  <1>10. Synced' /\ FirstRight' /\ LoadRight' /\ PanicsOnlyWhenClosed'
    BY <1>0 DEF Kept, Synced, FirstRight, Moving, LoadRight, PanicsOnlyWhenClosed, Idle
  <1>11. \A h, s : (Asked(h, s) \/ Asks(r, h, s)) => Asked(h, s)'
    BY <1>0, <1>4, Sent
  <1>12. /\ \A s \in {win.from, win.to} : s \in InvSlots => Asks(r, Me, s)
         /\ \A s \in {win.from, win.to} : s \in BoxSlots => Asks(r, container_id, s)
    BY <1>3, <1>4 DEF Asks, Names
  <1>13. \A h : \A s \in Slots : (s \notin {win.from, win.to} /\ Right(h, s)) => Right(h, s)'
    BY <1>0, <1>6, <1>11, RightStays DEF InHand
  <1>14. InvRight'
    <2> SUFFICES ASSUME causes \cap {"overlap", "refused"} = {}, NEW s \in InvSlots
                 PROVE  Right(Me, s)'
      BY <1>0 DEF InvRight
    <2>1. CASE s \in {win.from, win.to}
      BY <1>11, <1>12, <2>1 DEF Right
    <2>2. CASE s \notin {win.from, win.to}
      BY <1>0, <1>13, <2>2, Objects DEF Kept, InvRight
    <2> QED
      BY <2>1, <2>2
  <1>15. ViewRight'
    <2> SUFFICES ASSUME causes = {}, NEW s \in BoxSlots
                 PROVE  IF container_id = None THEN shown'[s] = Empty ELSE Right(container_id, s)'
      BY <1>0, <1>2 DEF ViewRight
    <2>1. s \in Slots
      BY Objects
    <2>2. IF container_id = None THEN shown[s] = Empty ELSE Right(container_id, s)
      BY <1>0, <1>2 DEF Kept, ViewRight
    <2>3. CASE s \in {win.from, win.to}
      <3>1. container_id # None
        BY <1>2, <2>3
      <3>2. Asked(container_id, s)'
        <4>1. PICK v : v = container_id
          OBVIOUS
        <4>2. Asked(v, s)'
          BY <1>11, <1>12, <2>3, <4>1
        <4> QED
          BY <1>0, <4>1, <4>2 DEF Asked
      <3> QED
        BY <3>1, <3>2 DEF Right
    <2>4. CASE s \notin {win.from, win.to}
      <3>1. CASE container_id = None
        BY <1>6, <2>1, <2>2, <2>4, <3>1
      <3>2. CASE container_id # None
        <4>1. PICK v : v = container_id
          OBVIOUS
        <4>2. Right(v, s)'
          BY <1>13, <2>1, <2>2, <2>4, <3>2, <4>1
        <4> QED
          BY <1>0, <3>2, <4>1, <4>2 DEF Right, Asked, Awaited, InNet
      <3> QED
        BY <3>1, <3>2
    <2> QED
      BY <2>3, <2>4
  <1>16. ClosedEmpty'
    <2>1. \A s \in InvSlots : Closed(s) => shown'[s] = shown[s]
      BY <1>1, <1>6, Objects
    <2>2. \A q \in DOMAIN c2s' : OpenOnly(c2s'[q])
      BY <1>0, <1>1, <1>4, Sent DEF Kept, ClosedEmpty, OpenOnly
    <2> QED
      BY <1>0, <2>1, <2>2 DEF Kept, ClosedEmpty, Moving, Closed, OpenOnly, Idle
  <1> QED
    BY <1>7, <1>8, <1>9, <1>10, <1>14, <1>15, <1>16 DEF InventoryInv, Kept

LEMMA DropClearsStep ==
  ASSUME InventoryInv, ~panicked, DropClears
  PROVE  InventoryInv'
  <1>0. /\ win.at = "drop" /\ win' = [win EXCEPT !.at = "dropped"] /\ shown' = [shown EXCEPT ![win.from] = Empty]
        /\ UNCHANGED <<interactive_id, container_id, container_visible, held, drag, net, c2s, s2c, server, changes,
                       causes, clicks, panicked>>
        /\ Typed /\ Kept
    BY DEF DropClears, InventoryInv, wires, screen
  <1>1. win \in Drops /\ win.from \in Slots /\ shown \in [Slots -> Held] /\ ~Closed(win.from)
    BY <1>0, WinFields DEF Typed, Kept, ClosedEmpty, Moving
  <1>2. win' \in Drops /\ win'.at = "dropped" /\ win'.from = win.from
    BY <1>0, <1>1 DEF Drops
  <1>3. shown' \in [Slots -> Held] /\ \A s \in Slots : s # win.from => shown'[s] = shown[s]
    BY <1>0, <1>1 DEF Held
  <1>4. Typed'
    BY <1>0, <1>2, <1>3 DEF Typed
  <1>5. Newest' /\ HeldRight'
    BY <1>0, Apart DEF Kept
  <1>6. NamesTheShown'
    BY <1>0, NotAsked DEF Kept
  <1>7. Synced' /\ FirstRight' /\ LoadRight' /\ PanicsOnlyWhenClosed'
    BY <1>0, <1>2 DEF Kept, Synced, FirstRight, Moving, LoadRight, PanicsOnlyWhenClosed
  <1>8. \A h : \A s \in Slots : (s # win.from /\ Right(h, s)) => Right(h, s)'
    BY <1>0, <1>3, StillRight DEF InHand
  <1>10. InvRight'
    <2>1. \A h : Right(h, win.from)'
      BY <1>2 DEF Right, InHand
    <2> QED
      BY <1>0, <1>8, <2>1, Objects DEF Kept, InvRight
  <1>11. ViewRight'
    <2>1. Viewed' = Viewed /\ (win.from \in BoxSlots => Viewed # None)
      BY <1>0, <1>2, ViewThere DEF Kept, Moving, Viewed
    <2> SUFFICES ASSUME causes = {}, NEW s \in BoxSlots
                 PROVE  IF Viewed = None THEN shown'[s] = Empty ELSE Right(Viewed, s)'
      BY <1>0, <2>1 DEF ViewRight
    <2>3. s \in Slots
      BY Objects
    <2>4. IF Viewed = None THEN shown[s] = Empty ELSE Right(Viewed, s)
      BY <1>0 DEF Kept, ViewRight
    <2>5. PICK v : v = Viewed
      OBVIOUS
    <2>6. CASE s = win.from
      BY <1>2, <2>1, <2>6 DEF Right, InHand
    <2>7. CASE s # win.from
      BY <1>3, <1>8, <2>1, <2>3, <2>4, <2>5, <2>7
    <2> QED
      BY <2>6, <2>7
  <1>12. ClosedEmpty'
    <2>1. \A s \in InvSlots : Closed(s) => shown'[s] = shown[s]
      BY <1>1, <1>3, Objects
    <2> QED
      BY <1>0, <1>2, <1>1, <2>1 DEF Kept, ClosedEmpty, Moving, Closed, OpenOnly
  <1> QED
    BY <1>4, <1>5, <1>6, <1>7, <1>10, <1>11, <1>12 DEF InventoryInv, Kept

LEMMA DropSendsStep ==
  ASSUME InventoryInv, ~panicked, DropSends
  PROVE  InventoryInv'
  <1> DEFINE r == Request("drop", ItemAt(NameOf(win.from), win.from, shown[win.from]), Nowhere)
  <1>0. /\ win.at = "dropped" /\ win' = Idle /\ c2s' = Append(c2s, r)
        /\ UNCHANGED <<interactive_id, container_id, container_visible, shown, held, drag, net, s2c, server, changes,
                       causes, clicks, panicked>>
        /\ Typed /\ Kept
    BY DEF DropSends, InventoryInv, screen, Send
  <1>1. win.from \in Slots /\ shown[win.from] \in Held
    BY <1>0, WinFields DEF Typed
  <1>2. /\ Viewed = container_id /\ Viewed' = container_id
        /\ win.from \in BoxSlots => container_id # None
        /\ interactive_id \in {container_id, Portal}
    BY <1>0, ViewThere DEF Kept, Moving, Viewed, Idle
  <1>3. /\ win.from \in InvSlots => NameOf(win.from) = Me
        /\ win.from \in BoxSlots => NameOf(win.from) \in {container_id, Portal}
        /\ NameOf(win.from) \in Holders \cup {Portal, None}
    BY <1>0, <1>2, Objects DEF NameOf, Typed
  <1>4. /\ r \in Requests /\ r.kind = "drop" /\ r.view = container_id
        /\ r.from.holder = NameOf(win.from) /\ r.to.holder = None
        /\ r.from.slot = win.from
    BY <1>0, <1>1, <1>3 DEF Typed, Requests, Places, Request, ItemAt, Holders, Nowhere, Held
  <1>5. {r.from.holder, r.to.holder} \subseteq {Me, Portal, r.view, None}
    BY <1>1, <1>3, <1>4, Objects
  <1> HIDE DEF r
  <1>7. Typed'
    BY <1>0, <1>4, Sent DEF Typed
  <1>8. Newest' /\ HeldRight'
    BY <1>0, Apart DEF Kept
  <1>9. NamesTheShown'
    BY <1>0, <1>4, <1>5, Sent DEF Kept
  <1>10. Synced' /\ FirstRight' /\ LoadRight' /\ PanicsOnlyWhenClosed'
    BY <1>0 DEF Kept, Synced, FirstRight, Moving, LoadRight, PanicsOnlyWhenClosed, Idle
  <1>11. \A h, s : (Asked(h, s) \/ Asks(r, h, s)) => Asked(h, s)'
    BY <1>0, <1>4, Sent
  <1>12. /\ win.from \in InvSlots => Asks(r, Me, win.from)
         /\ win.from \in BoxSlots => Asks(r, container_id, win.from)
    BY <1>3, <1>4 DEF Asks, Names
  <1>13. \A h : \A s \in Slots : (s # win.from /\ Right(h, s)) => Right(h, s)'
    BY <1>0, <1>11, RightStays DEF InHand
  <1>14. InvRight'
    <2> SUFFICES ASSUME causes \cap {"overlap", "refused"} = {}, NEW s \in InvSlots
                 PROVE  Right(Me, s)'
      BY <1>0 DEF InvRight
    <2>1. CASE s = win.from
      BY <1>11, <1>12, <2>1 DEF Right
    <2>2. CASE s # win.from
      BY <1>0, <1>13, <2>2, Objects DEF Kept, InvRight
    <2> QED
      BY <2>1, <2>2
  <1>15. ViewRight'
    <2>5. PICK v : v = container_id
      OBVIOUS
    <2> SUFFICES ASSUME causes = {}, NEW s \in BoxSlots
                 PROVE  IF v = None THEN shown[s] = Empty ELSE Right(v, s)'
      BY <1>0, <1>2, <2>5 DEF ViewRight
    <2>1. s \in Slots
      BY Objects
    <2>2. IF v = None THEN shown[s] = Empty ELSE Right(v, s)
      BY <1>0, <1>2, <2>5 DEF Kept, ViewRight
    <2>3. CASE s = win.from
      BY <1>2, <1>11, <1>12, <2>3, <2>5 DEF Right
    <2>4. CASE s # win.from
      BY <1>13, <2>1, <2>2, <2>4
    <2> QED
      BY <2>3, <2>4
  <1>16. ClosedEmpty'
    <2>2. \A q \in DOMAIN c2s' : OpenOnly(c2s'[q])
      BY <1>0, <1>4, Sent DEF Kept, ClosedEmpty, OpenOnly
    <2> QED
      BY <1>0, <2>2 DEF Kept, ClosedEmpty, Moving, Closed, OpenOnly, Idle
  <1> QED
    BY <1>7, <1>8, <1>9, <1>10, <1>14, <1>15, <1>16 DEF InventoryInv, Kept

\* The first stat on its way arrives.
LEMMA Received ==
  ASSUME Typed, Newest, s2c # <<>>, s2c' = Tail(s2c), UNCHANGED server
  PROVE  /\ Head(s2c) \in Stats /\ Head(s2c) = s2c[1] /\ 1 \in DOMAIN s2c /\ s2c' \in Seq(Stats)
         /\ \A i \in DOMAIN s2c' : i + 1 \in DOMAIN s2c /\ s2c'[i] = s2c[i + 1]
         /\ \A h, s : Awaited(h, s) => Awaited(h, s)' \/ SamePlace(Head(s2c), h, s)
         /\ \A i \in DOMAIN s2c' :
              \/ s2c'[i].item = server'[s2c'[i].holder][s2c'[i].slot]
              \/ \E j \in DOMAIN s2c' : j > i /\ SamePlace(s2c'[j], s2c'[i].holder, s2c'[i].slot)
         /\ \A h, s : SamePlace(Head(s2c), h, s) => Head(s2c).item = server[h][s] \/ Awaited(h, s)'
  <1>1. s2c \in Seq(Stats)
    BY DEF Typed
  <1>2. /\ Head(s2c) \in Stats /\ Head(s2c) = s2c[1] /\ s2c' \in Seq(Stats) /\ Len(s2c') = Len(s2c) - 1
        /\ Len(s2c) \in Nat \ {0} /\ DOMAIN s2c = 1 .. Len(s2c) /\ DOMAIN s2c' = 1 .. Len(s2c')
        /\ \A i \in 1 .. Len(s2c') : s2c'[i] = s2c[i + 1]
    BY <1>1, HeadTailProperties, EmptySeq, LenProperties
  <1>3. \A i \in DOMAIN s2c' : i + 1 \in DOMAIN s2c /\ s2c'[i] = s2c[i + 1]
    BY <1>2
  <1>4. \A j \in DOMAIN s2c : j # 1 => j - 1 \in DOMAIN s2c' /\ s2c'[j - 1] = s2c[j]
    BY <1>2
  <1>5. \A h, s : Awaited(h, s) => Awaited(h, s)' \/ SamePlace(Head(s2c), h, s)
    BY <1>2, <1>4 DEF Awaited, SamePlace
  <1>6. \A i \in DOMAIN s2c' :
          \/ s2c'[i].item = server'[s2c'[i].holder][s2c'[i].slot]
          \/ \E j \in DOMAIN s2c' : j > i /\ SamePlace(s2c'[j], s2c'[i].holder, s2c'[i].slot)
    <2> TAKE i \in DOMAIN s2c'
    <2>1. CASE s2c[i + 1].item = server[s2c[i + 1].holder][s2c[i + 1].slot]
      BY <1>3, <2>1
    <2>2. CASE \E j \in DOMAIN s2c : j > i + 1 /\ SamePlace(s2c[j], s2c[i + 1].holder, s2c[i + 1].slot)
      <3>1. PICK j \in DOMAIN s2c : j > i + 1 /\ SamePlace(s2c[j], s2c[i + 1].holder, s2c[i + 1].slot)
        BY <2>2
      <3>2. j - 1 \in DOMAIN s2c' /\ j - 1 > i /\ s2c'[j - 1] = s2c[j]
        BY <1>2, <1>4, <3>1
      <3> QED
        BY <1>3, <3>1, <3>2
    <2> QED
      BY <1>3, <2>1, <2>2 DEF Newest
  <1>7. 1 \in DOMAIN s2c
    BY <1>2
  <1>8. \A h, s : SamePlace(Head(s2c), h, s) => Head(s2c).item = server[h][s] \/ Awaited(h, s)'
    <2> SUFFICES ASSUME NEW h, NEW s, SamePlace(Head(s2c), h, s), Head(s2c).item # server[h][s]
                 PROVE  \E i \in DOMAIN s2c' : SamePlace(s2c'[i], h, s)
      BY DEF Awaited
    <2>1. PICK j \in DOMAIN s2c : j > 1 /\ SamePlace(s2c[j], h, s)
      BY <1>2, <1>7 DEF Newest, SamePlace
    <2>2. j # 1
      BY <1>2, <2>1
    <2> QED
      BY <1>4, <2>1, <2>2
  <1> QED
    BY <1>2, <1>3, <1>5, <1>6, <1>7, <1>8

\* The network thread keeps the invariant.
LEMMA StatStoredStep ==
  ASSUME InventoryInv, ~panicked, StatStored
  PROVE  InventoryInv'
  <1> DEFINE stat == Head(s2c)
  <1>0. /\ net = Idle /\ s2c # <<>> /\ held' = [held EXCEPT ![stat.holder][stat.slot] = stat.item]
        /\ net' = [at |-> "stored", stat |-> stat] /\ s2c' = Tail(s2c)
        /\ UNCHANGED <<interactive_id, container_id, container_visible, shown, drag, win, c2s, server, changes,
                       causes, clicks, panicked>>
        /\ Typed /\ Kept /\ Newest
    BY DEF StatStored, InventoryInv, Kept, screen
  <1>1. /\ stat \in Stats /\ stat = s2c[1] /\ 1 \in DOMAIN s2c /\ s2c' \in Seq(Stats)
        /\ \A i \in DOMAIN s2c' : i + 1 \in DOMAIN s2c /\ s2c'[i] = s2c[i + 1]
        /\ \A h, s : Awaited(h, s) => Awaited(h, s)' \/ SamePlace(stat, h, s)
        /\ \A h, s : SamePlace(stat, h, s) => stat.item = server[h][s] \/ Awaited(h, s)'
    BY <1>0, Received
  <1>2. \A i \in DOMAIN s2c' :
              \/ s2c'[i].item = server'[s2c'[i].holder][s2c'[i].slot]
              \/ \E j \in DOMAIN s2c' : j > i /\ SamePlace(s2c'[j], s2c'[i].holder, s2c'[i].slot)
    BY <1>0, Received
  <1>3. stat.holder \in Holders /\ stat.slot \in SlotsOf(stat.holder) /\ stat.item \in Held
    BY <1>1 DEF Stats, Places
  <1> HIDE DEF stat
  <1>4. /\ DOMAIN held' = Holders /\ \A g \in Holders : held'[g] \in [SlotsOf(g) -> Held]
        /\ \A g \in Holders : \A t \in SlotsOf(g) :
             held'[g][t] = IF g = stat.holder /\ t = stat.slot THEN stat.item ELSE held[g][t]
    <2>1. DOMAIN held = Holders /\ \A g \in Holders : held[g] \in [SlotsOf(g) -> Held]
      BY <1>0 DEF Typed
    <2> QED
      BY <1>0, <1>3, <2>1, Replaced
  <1>5. net' # Idle /\ net'.stat = stat /\ net' \in [at : {"stored", "checked"}, stat : Stats]
    BY <1>0, <1>1 DEF Idle
  <1>6. Typed'
    BY <1>0, <1>1, <1>4, <1>5 DEF Typed
  <1>7. Newest'
    <2>1. PICK h, s : h = stat.holder /\ s = stat.slot
      OBVIOUS
    <2>2. stat.item = server[h][s] \/ Awaited(h, s)'
      BY <1>1, <2>1 DEF SamePlace
    <2>3. Awaited(net.stat.holder, net.stat.slot)' <=> Awaited(h, s)'
      BY <1>5, <2>1 DEF Awaited
    <2> QED
      BY <1>0, <1>2, <1>5, <2>1, <2>2, <2>3 DEF Newest
  <1>8. HeldRight'
    <2> SUFFICES ASSUME NEW h \in Holders, NEW s \in SlotsOf(h)
                 PROVE  held'[h][s] = server[h][s] \/ Awaited(h, s)'
      BY <1>0 DEF HeldRight
    <2>1. held[h][s] = server[h][s] \/ Awaited(h, s)
      BY <1>0 DEF Kept, HeldRight
    <2> QED
      BY <1>1, <1>4, <2>1 DEF SamePlace
  <1>9. NamesTheShown'
    BY <1>0, NotAsked DEF Kept
  <1>10. Synced' /\ FirstRight' /\ PanicsOnlyWhenClosed'
    BY <1>0 DEF Kept, Synced, FirstRight, Moving, PanicsOnlyWhenClosed
  <1>11. \A h, s : Awaited(h, s) => Awaited(h, s)' \/ InNet(h, s)'
    BY <1>1, <1>5 DEF InNet
  <1>12. \A h, s : ~InNet(h, s)
    BY <1>0 DEF InNet
  <1>13. LoadRight'
    <2> SUFFICES ASSUME win.at = "load", "overlap" \notin causes, NEW s \in BoxSlots
                 PROVE  win.items[s] = server[win.id][s] \/ Awaited(win.id, s)' \/ InNet(win.id, s)'
      BY <1>0 DEF LoadRight
    <2>1. PICK v : v = win.id
      OBVIOUS
    <2>2. win.items[s] = server[v][s] \/ Awaited(v, s)' \/ InNet(v, s)'
      BY <1>0, <1>11, <1>12, <2>1 DEF Kept, LoadRight
    <2> QED
      BY <1>0, <2>1, <2>2 DEF Awaited, InNet
  <1>14. \A h, s : Right(h, s) => Right(h, s)'
    BY <1>0, <1>11, <1>12 DEF Right, Asked, InHand
  <1>15. InvRight'
    BY <1>0, <1>14 DEF Kept, InvRight
  <1>16. ViewRight'
    <2>1. Viewed' = Viewed
      BY <1>0 DEF Viewed
    <2>2. PICK v : v = Viewed
      OBVIOUS
    <2> SUFFICES ASSUME causes = {}, win.at # "load", NEW s \in BoxSlots
                 PROVE  IF v = None THEN shown[s] = Empty ELSE Right(v, s)'
      BY <1>0, <2>1, <2>2 DEF ViewRight
    <2> QED
      BY <1>0, <1>14, <2>2 DEF Kept, ViewRight
  <1>17. ClosedEmpty'
    <2>1. Closed(stat.slot) => stat.item = Empty
      BY <1>0, <1>1 DEF Kept, ClosedEmpty
    <2>2. \A i \in DOMAIN s2c' : Closed(s2c'[i].slot) => s2c'[i].item = Empty
      BY <1>0, <1>1 DEF Kept, ClosedEmpty
    <2> QED
      BY <1>0, <1>5, <2>1, <2>2 DEF Kept, ClosedEmpty, Moving, Closed, OpenOnly
  <1> QED
    BY <1>6, <1>7, <1>8, <1>9, <1>10, <1>13, <1>15, <1>16, <1>17 DEF InventoryInv, Kept

LEMMA StatCheckedStep ==
  ASSUME InventoryInv, ~panicked, StatChecked
  PROVE  InventoryInv'
  <1> DEFINE stat == net.stat
             mine == stat.holder \in {Me, interactive_id}
  <1>0. /\ net.at = "stored" /\ net' = IF mine THEN [net EXCEPT !.at = "checked"] ELSE Idle
        /\ causes' = IF ~mine /\ stat.holder = Viewed THEN causes \cup {"missed"} ELSE causes
        /\ UNCHANGED <<interactive_id, container_id, container_visible, shown, held, drag, win, c2s, s2c, server, changes,
                       clicks, panicked>>
        /\ Typed /\ Kept
    BY DEF StatChecked, InventoryInv, screen, wires
  <1>1. /\ net # Idle /\ net \in [at : {"stored", "checked"}, stat : Stats]
    BY <1>0, NetFields
  <1>2. /\ mine => net' # Idle /\ net' \in [at : {"stored", "checked"}, stat : Stats] /\ net'.stat = stat
        /\ ~mine => net' = Idle
    BY <1>0, <1>1 DEF Idle
  <1>3. causes' \subseteq Causes /\ causes \subseteq causes' /\ causes' \subseteq causes \cup {"missed"}
    BY <1>0 DEF Typed, Causes
  <1>4. Typed'
    BY <1>0, <1>2, <1>3 DEF Typed
  <1>5. \A h, s : (Awaited(h, s)' <=> Awaited(h, s)) /\ (Asked(h, s)' <=> Asked(h, s)) /\ (InHand(s)' <=> InHand(s))
    BY <1>0 DEF Awaited, SamePlace, Asked, InHand
  <1>6. \A h, s : InNet(h, s) => InNet(h, s)' \/ (~mine /\ stat.holder = h)
    BY <1>1, <1>2 DEF InNet, SamePlace
  <1>7. Newest' /\ HeldRight'
    BY <1>0, <1>1, <1>2 DEF Kept, Newest, HeldRight, Awaited, SamePlace
  <1>8. NamesTheShown'
    BY <1>0, NotAsked DEF Kept
  <1>9. Synced' /\ FirstRight' /\ PanicsOnlyWhenClosed'
    BY <1>0, <1>3 DEF Kept, Synced, FirstRight, Moving, PanicsOnlyWhenClosed
  <1>10. \A h, s : (Right(h, s) /\ ~(~mine /\ stat.holder = h)) => Right(h, s)'
    BY <1>0, <1>5, <1>6 DEF Right
  <1>11. LoadRight'
    <2> SUFFICES ASSUME win.at = "load", "overlap" \notin causes, NEW s \in BoxSlots
                 PROVE  win.items[s] = server[win.id][s] \/ Awaited(win.id, s)' \/ InNet(win.id, s)'
      BY <1>0, <1>3 DEF LoadRight
    <2>1. PICK v : v = win.id
      OBVIOUS
    <2>2. ~(~mine /\ stat.holder = v)
      BY <1>0, <2>1 DEF Kept, Synced
    <2>3. win.items[s] = server[v][s] \/ Awaited(v, s)' \/ InNet(v, s)'
      BY <1>0, <1>5, <1>6, <2>1, <2>2 DEF Kept, LoadRight
    <2> QED
      BY <1>0, <2>1, <2>3 DEF Awaited, InNet
  <1>12. InvRight'
    <2>1. ~(~mine /\ stat.holder = Me)
      OBVIOUS
    <2> QED
      BY <1>0, <1>3, <1>10, <2>1 DEF Kept, InvRight
  <1>13. ViewRight'
    <2>1. Viewed' = Viewed
      BY <1>0 DEF Viewed
    <2>2. PICK v : v = Viewed
      OBVIOUS
    <2> SUFFICES ASSUME causes' = {}, win.at # "load", NEW s \in BoxSlots
                 PROVE  IF v = None THEN shown[s] = Empty ELSE Right(v, s)'
      BY <1>0, <2>1, <2>2 DEF ViewRight
    <2>3. causes = {} /\ ~(~mine /\ stat.holder = v)
      BY <1>0, <2>2
    <2> HIDE DEF mine
    <2> QED
      BY <1>0, <1>10, <2>2, <2>3 DEF Kept, ViewRight
  <1>14. ClosedEmpty'
    BY <1>0, <1>1, <1>2 DEF Kept, ClosedEmpty, Moving, Closed, OpenOnly
  <1> QED
    BY <1>4, <1>7, <1>8, <1>9, <1>11, <1>12, <1>13, <1>14 DEF InventoryInv, Kept

LEMMA StatShownStep ==
  ASSUME InventoryInv, ~panicked, StatShown
  PROVE  InventoryInv'
  <1> DEFINE stat == net.stat
  <1>0. /\ net.at = "checked" /\ net' = Idle /\ shown' = [shown EXCEPT ![stat.slot] = stat.item]
        /\ causes' = causes
             \cup (IF stat.holder \notin {Me, Viewed} THEN {"late"} ELSE {})
             \cup (IF AboutToWrite(stat.slot) THEN {"overlap"} ELSE {})
        /\ UNCHANGED <<interactive_id, container_id, container_visible, held, drag, win, c2s, s2c, server, changes,
                       clicks, panicked>>
        /\ Typed /\ Kept
    BY DEF StatShown, InventoryInv, screen, wires
  <1>1. /\ net # Idle /\ stat.holder \in Holders /\ stat.slot \in SlotsOf(stat.holder) /\ stat.slot \in Slots /\ stat.item \in Held
    BY <1>0, NetFields
  <1>2. shown' \in [Slots -> Held] /\ \A s \in Slots : shown'[s] = IF s = stat.slot THEN stat.item ELSE shown[s]
    BY <1>0, <1>1 DEF Typed
  <1>3. /\ causes' \subseteq Causes /\ causes \subseteq causes'
        /\ "overlap" \notin causes' => ~AboutToWrite(stat.slot)
        /\ causes' = {} => stat.holder \in {Me, Viewed}
    BY <1>0 DEF Typed, Causes
  <1>4. Typed'
    BY <1>0, <1>2, <1>3 DEF Typed
  <1>5. \A h, s : (Awaited(h, s)' <=> Awaited(h, s)) /\ (Asked(h, s)' <=> Asked(h, s)) /\ (InHand(s)' <=> InHand(s))
    BY <1>0 DEF Awaited, SamePlace, Asked, InHand
  <1>6. \A h, s : InNet(h, s) <=> stat.holder = h /\ stat.slot = s
    BY <1>1 DEF InNet, SamePlace
  <1>7. stat.item = server[stat.holder][stat.slot] \/ Awaited(stat.holder, stat.slot)
    BY <1>0, <1>1 DEF Kept, Newest
  <1> HIDE DEF stat
  <1>8. Newest' /\ HeldRight'
    BY <1>0 DEF Kept, Newest, HeldRight, Awaited, SamePlace
  <1>9. NamesTheShown'
    BY <1>0, NotAsked DEF Kept
  <1>10. Synced' /\ PanicsOnlyWhenClosed'
    BY <1>0 DEF Kept, Synced, Moving, PanicsOnlyWhenClosed
  <1>11. FirstRight'
    <2> SUFFICES ASSUME win.at = "swap", "overlap" \notin causes'
                 PROVE  shown'[win.from] = win.first
      BY <1>0 DEF FirstRight
    <2>1. stat.slot # win.from /\ win.from \in Slots
      BY <1>0, <1>3, WinFields DEF AboutToWrite
    <2> QED
      BY <1>0, <1>2, <1>3, <2>1 DEF Kept, FirstRight
  <1>12. LoadRight'
    <2> SUFFICES ASSUME win.at = "load", "overlap" \notin causes', NEW s \in BoxSlots
                 PROVE  win.items[s] = server[win.id][s] \/ Awaited(win.id, s)'
      BY <1>0 DEF LoadRight
    <2>1. ~InNet(win.id, s)
      BY <1>3, <1>6 DEF AboutToWrite
    <2> QED
      BY <1>0, <1>3, <2>1 DEF Kept, LoadRight, Awaited, SamePlace
  <1>13. \A h : \A s \in Slots : (Right(h, s) /\ (s = stat.slot => stat.holder = h)) => Right(h, s)'
    BY <1>0, <1>2, <1>5, <1>6, <1>7 DEF Right
  <1>14. InvRight'
    <2>1. \A s \in InvSlots : s = stat.slot => stat.holder = Me
      BY <1>1, Objects
    <2> QED
      BY <1>0, <1>3, <1>13, <2>1, Objects DEF Kept, InvRight
  <1>15. ViewRight'
    <2>1. Viewed' = Viewed
      BY <1>0 DEF Viewed
    <2>2. PICK v : v = Viewed
      OBVIOUS
    <2> SUFFICES ASSUME causes' = {}, win.at # "load", NEW s \in BoxSlots
                 PROVE  IF v = None THEN shown'[s] = Empty ELSE Right(v, s)'
      BY <1>0, <2>1, <2>2 DEF ViewRight
    <2>3. s \in Slots /\ IF v = None THEN shown[s] = Empty ELSE Right(v, s)
      BY <1>0, <1>3, <2>2, Objects DEF Kept, ViewRight
    <2>4. s = stat.slot => stat.holder = v /\ v # None
      BY <1>1, <1>3, <2>2, Objects
    <2> QED
      BY <1>2, <1>13, <2>3, <2>4
  <1>16. ClosedEmpty'
    <2>1. \A s \in InvSlots : Closed(s) => shown'[s] = Empty
      BY <1>0, <1>1, <1>2, Objects DEF Kept, ClosedEmpty, stat
    <2> QED
      BY <1>0, <2>1 DEF Kept, ClosedEmpty, Moving, Closed, OpenOnly
  <1> QED
    BY <1>4, <1>8, <1>9, <1>10, <1>11, <1>12, <1>14, <1>15, <1>16 DEF InventoryInv, Kept

\* A request is handled: it is the first.
LEMMA Taken ==
  ASSUME Typed, NamesTheShown, c2s # <<>>, c2s' = Tail(c2s)
  PROVE  /\ Head(c2s) \in Requests /\ 1 \in DOMAIN c2s /\ Head(c2s) = c2s[1] /\ c2s' \in Seq(Requests)
         /\ NamesTheShown'
         /\ \A h, s : Asked(h, s) => Asked(h, s)' \/ Asks(Head(c2s), h, s)
         /\ (\A i \in DOMAIN c2s : OpenOnly(c2s[i])) => \A i \in DOMAIN c2s' : OpenOnly(c2s'[i])
  <1>1. c2s \in Seq(Requests)
    BY DEF Typed
  <1>2. /\ Head(c2s) \in Requests /\ Head(c2s) = c2s[1] /\ c2s' \in Seq(Requests) /\ Len(c2s') = Len(c2s) - 1
        /\ Len(c2s) \in Nat \ {0} /\ DOMAIN c2s = 1 .. Len(c2s) /\ DOMAIN c2s' = 1 .. Len(c2s')
        /\ \A i \in 1 .. Len(c2s') : c2s'[i] = c2s[i + 1]
    BY <1>1, HeadTailProperties, EmptySeq, LenProperties
  <1>3. \A i \in DOMAIN c2s' : i + 1 \in DOMAIN c2s /\ c2s'[i] = c2s[i + 1]
    BY <1>2
  <1>4. \A j \in DOMAIN c2s : j # 1 => j - 1 \in DOMAIN c2s' /\ c2s'[j - 1] = c2s[j]
    BY <1>2
  <1>5. \A h, s : Asked(h, s) => Asked(h, s)' \/ Asks(Head(c2s), h, s)
    BY <1>2, <1>4 DEF Asked
  <1>6. NamesTheShown'
    BY <1>3 DEF NamesTheShown
  <1> QED
    BY <1>2, <1>3, <1>5, <1>6

\* Stats join those on their way.
LEMMA Reported ==
  ASSUME Typed, NEW ps \in Seq(Stats), s2c' = s2c \o ps
  PROVE  /\ s2c' \in Seq(Stats) /\ Len(s2c) \in Nat
         /\ \A i \in DOMAIN s2c : i \in Nat /\ i <= Len(s2c) /\ i \in DOMAIN s2c' /\ s2c'[i] = s2c[i]
         /\ \A i \in DOMAIN s2c' :
              i \in DOMAIN s2c \/ \E k \in DOMAIN ps : i = Len(s2c) + k /\ s2c'[i] = ps[k]
         /\ \A k \in DOMAIN ps : k \in Nat \ {0} /\ Len(s2c) + k \in DOMAIN s2c' /\ s2c'[Len(s2c) + k] = ps[k]
  <1>1. s2c \in Seq(Stats)
    BY DEF Typed
  <1>2. /\ s2c' \in Seq(Stats) /\ Len(s2c') = Len(s2c) + Len(ps) /\ Len(s2c) \in Nat /\ Len(ps) \in Nat
        /\ DOMAIN s2c = 1 .. Len(s2c) /\ DOMAIN s2c' = 1 .. Len(s2c') /\ DOMAIN ps = 1 .. Len(ps)
    BY <1>1, ConcatProperties, LenProperties
  <1>3. \A i \in 1 .. Len(s2c') : s2c'[i] = IF i <= Len(s2c) THEN s2c[i] ELSE ps[i - Len(s2c)]
    BY <1>1, <1>2
  <1>4. \A i \in DOMAIN s2c : i \in Nat /\ i <= Len(s2c) /\ i \in DOMAIN s2c' /\ s2c'[i] = s2c[i]
    BY <1>2, <1>3
  <1>5. \A i \in DOMAIN s2c' : i \in DOMAIN s2c \/ \E k \in DOMAIN ps : i = Len(s2c) + k /\ s2c'[i] = ps[k]
    <2> TAKE i \in DOMAIN s2c'
    <2>1. CASE i <= Len(s2c)
      BY <1>2, <2>1
    <2>2. CASE ~(i <= Len(s2c))
      <3>1. i - Len(s2c) \in DOMAIN ps /\ i = Len(s2c) + (i - Len(s2c)) /\ s2c'[i] = ps[i - Len(s2c)]
        BY <1>2, <1>3, <2>2
      <3> QED
        BY <3>1
    <2> QED
      BY <2>1, <2>2
  <1>6. \A k \in DOMAIN ps : k \in Nat \ {0} /\ Len(s2c) + k \in DOMAIN s2c' /\ s2c'[Len(s2c) + k] = ps[k]
    <2> TAKE k \in DOMAIN ps
    <2>1. k \in Nat \ {0} /\ Len(s2c) + k \in 1 .. Len(s2c') /\ ~(Len(s2c) + k <= Len(s2c))
         /\ (Len(s2c) + k) - Len(s2c) = k
      BY <1>2
    <2> QED
      BY <1>2, <1>3, <2>1
  <1> QED
    BY <1>2, <1>4, <1>5, <1>6

\* The server changes some slots and reports them, at a request or not.
LEMMA ServerChanges ==
  ASSUME InventoryInv, ~panicked, NEW ps \in Seq(Stats), s2c' = s2c \o ps,
         DOMAIN server' = Holders, \A h \in Holders : server'[h] \in [SlotsOf(h) -> Held],
         \A h \in Holders : \A s \in SlotsOf(h) :
           server'[h][s] = server[h][s] \/ \E k \in DOMAIN ps : SamePlace(ps[k], h, s),
         \A k \in DOMAIN ps :
           \/ ps[k].item = server'[ps[k].holder][ps[k].slot]
           \/ \E l \in DOMAIN ps : l > k /\ SamePlace(ps[l], ps[k].holder, ps[k].slot),
         c2s' \in Seq(Requests), NamesTheShown', \A i \in DOMAIN c2s' : OpenOnly(c2s'[i]),
         \A h \in Holders : \A s : Asked(h, s) => Asked(h, s)' \/ \E k \in DOMAIN ps : SamePlace(ps[k], h, s),
         \A s \in InvSlots : Closed(s) => server'[Me][s] = Empty,
         \A k \in DOMAIN ps : Closed(ps[k].slot) => ps[k].item = Empty,
         changes' \in 0 .. MaxChanges,
         UNCHANGED <<interactive_id, container_id, container_visible, shown, held, drag, win, net, causes, clicks, panicked>>
  PROVE  InventoryInv'
  <1>0. Typed /\ Kept
    BY DEF InventoryInv
  <1> DEFINE n == Len(s2c)
  <1>1. /\ s2c' \in Seq(Stats) /\ n \in Nat
        /\ \A i \in DOMAIN s2c : i \in Nat /\ i <= n /\ i \in DOMAIN s2c' /\ s2c'[i] = s2c[i]
        /\ \A i \in DOMAIN s2c' : i \in DOMAIN s2c \/ \E k \in DOMAIN ps : i = n + k /\ s2c'[i] = ps[k]
        /\ \A k \in DOMAIN ps : k \in Nat \ {0} /\ n + k \in DOMAIN s2c' /\ s2c'[n + k] = ps[k]
    BY <1>0, Reported
  <1> HIDE DEF n
  <1>2. \A h, s : (Awaited(h, s) \/ \E k \in DOMAIN ps : SamePlace(ps[k], h, s)) => Awaited(h, s)'
    <2> SUFFICES ASSUME NEW h, NEW s, Awaited(h, s) \/ \E k \in DOMAIN ps : SamePlace(ps[k], h, s)
                 PROVE  \E i \in DOMAIN s2c' : SamePlace(s2c'[i], h, s)
      BY DEF Awaited
    <2>1. CASE Awaited(h, s)
      BY <1>1, <2>1 DEF Awaited
    <2>2. CASE \E k \in DOMAIN ps : SamePlace(ps[k], h, s)
      BY <1>1, <2>2
    <2> QED
      BY <2>1, <2>2
  <1>3. \A h \in Holders : \A s \in SlotsOf(h) : server'[h][s] = server[h][s] \/ Awaited(h, s)'
    BY <1>2
  <1>4. Typed'
    BY <1>0, <1>1 DEF Typed
  <1>5. \A i \in DOMAIN s2c' :
          \/ s2c'[i].item = server'[s2c'[i].holder][s2c'[i].slot]
          \/ \E j \in DOMAIN s2c' : j > i /\ SamePlace(s2c'[j], s2c'[i].holder, s2c'[i].slot)
    <2> TAKE i \in DOMAIN s2c'
    <2>1. CASE i \in DOMAIN s2c
      <3> DEFINE h == s2c[i].holder
                 s == s2c[i].slot
      <3>1. s2c'[i] = s2c[i] /\ i \in Nat /\ i <= n /\ h \in Holders /\ s \in SlotsOf(h)
        BY <1>0, <1>1, <2>1, StatFields
      <3>2. CASE \E k \in DOMAIN ps : SamePlace(ps[k], h, s)
        <4>1. PICK k \in DOMAIN ps : SamePlace(ps[k], h, s)
          BY <3>2
        <4>2. n + k \in DOMAIN s2c' /\ n + k > i /\ s2c'[n + k] = ps[k]
          BY <1>1, <3>1, SMTT(30)
        <4> QED
          BY <3>1, <4>1, <4>2
      <3>3. CASE server'[h][s] = server[h][s]
        <4>1. CASE s2c[i].item = server[h][s]
          BY <3>1, <3>3, <4>1
        <4>2. CASE \E j \in DOMAIN s2c : j > i /\ SamePlace(s2c[j], h, s)
          BY <1>1, <3>1, <4>2
        <4> QED
          BY <1>0, <2>1, <4>1, <4>2 DEF Kept, Newest
      <3> QED
        BY <3>1, <3>2, <3>3
    <2>2. CASE i \notin DOMAIN s2c
      <3>1. PICK k \in DOMAIN ps : i = n + k /\ s2c'[i] = ps[k]
        BY <1>1, <2>2
      <3>2. CASE ps[k].item = server'[ps[k].holder][ps[k].slot]
        BY <3>1, <3>2
      <3>3. CASE \E l \in DOMAIN ps : l > k /\ SamePlace(ps[l], ps[k].holder, ps[k].slot)
        <4>1. PICK l \in DOMAIN ps : l > k /\ SamePlace(ps[l], ps[k].holder, ps[k].slot)
          BY <3>3
        <4>2. k \in Nat /\ l \in Nat /\ n \in Nat
          BY <1>1
        <4>3. n + l > i
          BY <3>1, <4>1, <4>2
        <4>4. n + l \in DOMAIN s2c' /\ s2c'[n + l] = ps[l]
          BY <1>1
        <4> QED
          BY <3>1, <4>1, <4>3, <4>4
      <3> QED
        BY <3>2, <3>3
    <2> QED
      BY <2>1, <2>2
  <1>6. Newest'
    <2> SUFFICES ASSUME net # Idle
                 PROVE  \/ net.stat.item = server'[net.stat.holder][net.stat.slot]
                        \/ Awaited(net.stat.holder, net.stat.slot)'
      BY <1>5 DEF Newest
    <2>1. PICK h, s : h = net.stat.holder /\ s = net.stat.slot
      OBVIOUS
    <2>2. h \in Holders /\ s \in SlotsOf(h)
      BY <1>0, <2>1, NetFields
    <2>3. net.stat.item = server[h][s] \/ Awaited(h, s)
      BY <1>0, <2>1 DEF Kept, Newest
    <2>4. net.stat.item = server'[h][s] \/ Awaited(h, s)'
      BY <1>2, <1>3, <2>2, <2>3
    <2> QED
      BY <2>1, <2>4 DEF Awaited
  <1>7. HeldRight'
    BY <1>0, <1>2, <1>3 DEF Kept, HeldRight
  <1>8. Synced' /\ FirstRight' /\ PanicsOnlyWhenClosed'
    BY <1>0 DEF Kept, Synced, FirstRight, Moving, PanicsOnlyWhenClosed
  <1>9. \A h, s : (InNet(h, s)' <=> InNet(h, s)) /\ (InHand(s)' <=> InHand(s))
    BY DEF InNet, InHand, SamePlace
  <1>10. LoadRight'
    <2> SUFFICES ASSUME win.at = "load", "overlap" \notin causes, NEW s \in BoxSlots
                 PROVE  win.items[s] = server'[win.id][s] \/ Awaited(win.id, s)' \/ InNet(win.id, s)'
      BY DEF LoadRight
    <2>1. PICK h : h = win.id
      OBVIOUS
    <2>2. h \in Holders /\ s \in SlotsOf(h)
      BY <1>0, <2>1, WinFields, Objects
    <2>3. win.items[s] = server[h][s] \/ Awaited(h, s) \/ InNet(h, s)
      BY <1>0, <2>1 DEF Kept, LoadRight
    <2>4. win.items[s] = server'[h][s] \/ Awaited(h, s)' \/ InNet(h, s)'
      BY <1>2, <1>3, <1>9, <2>2, <2>3
    <2> QED
      BY <2>1, <2>4 DEF Awaited, InNet
  <1>11. \A h \in Holders : \A s \in SlotsOf(h) : Right(h, s) => Right(h, s)'
    <2> SUFFICES ASSUME NEW h \in Holders, NEW s \in SlotsOf(h), Right(h, s)
                 PROVE  Right(h, s)'
      OBVIOUS
    <2>1. Asked(h, s) => Asked(h, s)' \/ Awaited(h, s)'
      BY <1>2
    <2> QED
      BY <1>2, <1>3, <1>9, <2>1 DEF Right
  <1>12. InvRight'
    BY <1>0, <1>11, Objects DEF Kept, InvRight
  <1>13. ViewRight'
    <2>1. Viewed' = Viewed
      BY DEF Viewed
    <2>2. PICK v : v = Viewed
      OBVIOUS
    <2> SUFFICES ASSUME causes = {}, win.at # "load", NEW s \in BoxSlots
                 PROVE  IF v = None THEN shown[s] = Empty ELSE Right(v, s)'
      BY <2>1, <2>2 DEF ViewRight
    <2>3. IF v = None THEN shown[s] = Empty ELSE Right(v, s)
      BY <1>0, <2>2 DEF Kept, ViewRight
    <2>4. v # None => v \in Holders /\ s \in SlotsOf(v)
      BY <1>0, <2>2, WinFields, Objects
    <2> QED
      BY <1>11, <2>3, <2>4
  <1>14. ClosedEmpty'
    <2>1. \A i \in DOMAIN s2c' : Closed(s2c'[i].slot) => s2c'[i].item = Empty
      BY <1>0, <1>1 DEF Kept, ClosedEmpty
    <2> QED
      BY <1>0, <2>1 DEF Kept, ClosedEmpty, Moving, Closed, OpenOnly
  <1> QED
    BY <1>4, <1>6, <1>7, <1>8, <1>10, <1>12, <1>13, <1>14 DEF InventoryInv, Kept

LEMMA ServerRefusesStep ==
  ASSUME InventoryInv, ~panicked, ServerRefuses
  PROVE  InventoryInv'
  <1>0. /\ c2s # <<>> /\ c2s' = Tail(c2s) /\ causes' = causes \cup {"refused"}
        /\ UNCHANGED <<interactive_id, container_id, container_visible, shown, held, drag, win, net, s2c, server, changes,
                       clicks, panicked>>
        /\ Typed /\ Kept
    BY DEF ServerRefuses, InventoryInv, screen
  <1>1. c2s' \in Seq(Requests) /\ NamesTheShown'
    BY <1>0, Taken DEF Kept
  <1>2. \A i \in DOMAIN c2s' : OpenOnly(c2s'[i])
    BY <1>0, Taken DEF Kept, ClosedEmpty
  <1>3. Typed'
    BY <1>0, <1>1 DEF Typed, Causes
  <1>4. Newest' /\ HeldRight'
    BY <1>0, Apart DEF Kept
  <1>5. Synced' /\ FirstRight' /\ PanicsOnlyWhenClosed' /\ InvRight' /\ ViewRight'
    BY <1>0 DEF Kept, Synced, FirstRight, Moving, PanicsOnlyWhenClosed, InvRight, ViewRight
  <1>6. LoadRight'
    BY <1>0 DEF Kept, LoadRight, Awaited, InNet, SamePlace
  <1>7. ClosedEmpty'
    BY <1>0, <1>2 DEF Kept, ClosedEmpty, Moving, Closed, OpenOnly
  <1> QED
    BY <1>1, <1>3, <1>4, <1>5, <1>6, <1>7 DEF InventoryInv, Kept

\* A stat about a place that is there.
LEMMA Stated ==
  ASSUME NEW h \in Holders, NEW s \in SlotsOf(h), NEW i \in Held
  PROVE  /\ ItemAt(h, s, i) \in Stats
         /\ ItemAt(h, s, i).holder = h /\ ItemAt(h, s, i).slot = s /\ ItemAt(h, s, i).item = i
  <1>1. s \in Slots \cup {Outside} /\ h \in Holders \cup {Portal, None}
    BY Objects
  <1>2. ItemAt(h, s, i) \in Places
    BY <1>1 DEF Places, ItemAt, Holders
  <1> QED
    BY <1>2 DEF Stats, ItemAt

LEMMA OthersChangeStep ==
  ASSUME InventoryInv, ~panicked, NEW h \in Containers, NEW s \in BoxSlots, NEW i \in Held, OthersChange(h, s, i)
  PROVE  InventoryInv'
  <1> DEFINE p == ItemAt(h, s, i)
             ps == <<p>>
  <1>0. /\ changes < MaxChanges /\ server' = [server EXCEPT ![h][s] = i] /\ s2c' = s2c \o ps /\ changes' = changes + 1
        /\ UNCHANGED <<interactive_id, container_id, container_visible, shown, held, drag, win, net, c2s, causes,
                       clicks, panicked>>
        /\ Typed /\ Kept
    BY DEF OthersChange, Report, InventoryInv, screen
  <1>1. h \in Holders /\ s \in SlotsOf(h)
    BY Objects
  <1>2. p \in Stats /\ p.holder = h /\ p.slot = s /\ p.item = i
    BY <1>1, Stated
  <1>3. /\ DOMAIN server' = Holders /\ \A g \in Holders : server'[g] \in [SlotsOf(g) -> Held]
        /\ \A g \in Holders : \A t \in SlotsOf(g) : server'[g][t] = IF g = h /\ t = s THEN i ELSE server[g][t]
    <2>1. DOMAIN server = Holders /\ \A g \in Holders : server[g] \in [SlotsOf(g) -> Held]
      BY <1>0 DEF Typed
    <2> QED
      BY <1>0, <1>1, <2>1, Replaced
  <1> HIDE DEF p
  <1>4. ps \in Seq(Stats) /\ DOMAIN ps = {1} /\ ps[1] = p
    BY <1>2
  <1> HIDE DEF ps
  <1>5. \A g \in Holders : \A t \in SlotsOf(g) :
           server'[g][t] = server[g][t] \/ \E k \in DOMAIN ps : SamePlace(ps[k], g, t)
    BY <1>2, <1>3, <1>4 DEF SamePlace
  <1>6. \A k \in DOMAIN ps : ps[k].item = server'[ps[k].holder][ps[k].slot] /\ (Closed(ps[k].slot) => ps[k].item = Empty)
    BY <1>1, <1>2, <1>3, <1>4, Objects DEF Closed
  <1>7. c2s' \in Seq(Requests) /\ NamesTheShown' /\ (\A k \in DOMAIN c2s' : OpenOnly(c2s'[k]))
    BY <1>0, NotAsked DEF Typed, Kept, ClosedEmpty
  <1>b. \A g \in Holders : \A t : Asked(g, t) => Asked(g, t)' \/ \E k \in DOMAIN ps : SamePlace(ps[k], g, t)
    BY <1>0, NotAsked DEF Kept
  <1>8. \A t \in InvSlots : Closed(t) => server'[Me][t] = Empty
    BY <1>0, <1>3, Objects DEF Kept, ClosedEmpty
  <1>9. changes' \in 0 .. MaxChanges
    BY <1>0, InventoryAssumption DEF Typed
  <1> QED
    BY <1>0, <1>3, <1>4, <1>5, <1>6, <1>7, <1>8, <1>9, <1>b, ServerChanges, SMTT(30)

\* The request that is handled, and what the server has at the places it names.
LEMMA Handled ==
  ASSUME InventoryInv, c2s # <<>>, c2s' = Tail(c2s)
  PROVE  /\ Head(c2s).kind \in {"use", "swap", "drop"} /\ OpenOnly(Head(c2s))
         /\ c2s' \in Seq(Requests) /\ NamesTheShown' /\ (\A k \in DOMAIN c2s' : OpenOnly(c2s'[k]))
         /\ \A h, s : Asked(h, s) => Asked(h, s)' \/ Asks(Head(c2s), h, s)
         /\ \A pl : Has(pl) => pl.holder \in Holders /\ pl.slot \in SlotsOf(pl.holder) /\ pl.item \in Held
         /\ \A pl : Has(pl) => \A h \in Holders : \A s : Names(pl, h, s) => pl.holder = h /\ pl.slot = s
  <1>1. Typed /\ NamesTheShown /\ \A i \in DOMAIN c2s : OpenOnly(c2s[i])
    BY DEF InventoryInv, Kept, ClosedEmpty
  <1>2. /\ Head(c2s) \in Requests /\ OpenOnly(Head(c2s)) /\ c2s' \in Seq(Requests) /\ NamesTheShown'
        /\ (\A k \in DOMAIN c2s' : OpenOnly(c2s'[k]))
        /\ \A h, s : Asked(h, s) => Asked(h, s)' \/ Asks(Head(c2s), h, s)
    BY <1>1, Taken
  <1>3. \A pl : Has(pl) => pl.holder \in Holders /\ pl.slot \in SlotsOf(pl.holder) /\ pl.item \in Held
    BY <1>1, ItemsTable DEF Has
  <1>4. \A pl : Has(pl) => \A h \in Holders : \A s : Names(pl, h, s) => pl.holder = h /\ pl.slot = s
    BY Objects DEF Has, Names
  <1> QED
    BY <1>2, <1>3, <1>4 DEF Requests

LEMMA ServerTakesStep ==
  ASSUME InventoryInv, ~panicked, ServerTakes
  PROVE  InventoryInv'
  <1> DEFINE r == Head(c2s)
             h == r.from.holder
             s == r.from.slot
             p == ItemAt(h, s, Empty)
             ps == <<p>>
  <1>0. /\ c2s # <<>> /\ r.kind \in {"drop", "use"} /\ Has(r.from)
        /\ server' = [server EXCEPT ![h][s] = Empty] /\ s2c' = s2c \o ps /\ c2s' = Tail(c2s)
        /\ UNCHANGED <<interactive_id, container_id, container_visible, shown, held, drag, win, net, causes,
                       clicks, changes, panicked>>
        /\ Typed /\ Kept
    BY DEF ServerTakes, Report, Put, InventoryInv, screen
  <1>1. h \in Holders /\ s \in SlotsOf(h) /\ \A g \in Holders : \A t : Asks(r, g, t) => h = g /\ s = t
    BY <1>0, Handled DEF Asks
  <1>a. Empty \in Held
    BY DEF Held
  <1>b. /\ c2s' \in Seq(Requests) /\ NamesTheShown' /\ (\A k \in DOMAIN c2s' : OpenOnly(c2s'[k]))
        /\ \A g, t : Asked(g, t) => Asked(g, t)' \/ Asks(r, g, t)
    BY <1>0, Handled
  <1> HIDE DEF r, h, s
  <1>2. p \in Stats /\ p.holder = h /\ p.slot = s /\ p.item = Empty
    BY <1>1, <1>a, Stated
  <1>3. /\ DOMAIN server' = Holders /\ \A g \in Holders : server'[g] \in [SlotsOf(g) -> Held]
        /\ \A g \in Holders : \A t \in SlotsOf(g) : server'[g][t] = IF g = h /\ t = s THEN Empty ELSE server[g][t]
    <2>1. DOMAIN server = Holders /\ \A g \in Holders : server[g] \in [SlotsOf(g) -> Held]
      BY <1>0 DEF Typed
    <2> QED
      BY <1>0, <1>1, <1>a, <2>1, Replaced
  <1> HIDE DEF p
  <1>4. ps \in Seq(Stats) /\ DOMAIN ps = {1} /\ ps[1] = p
    BY <1>2
  <1> HIDE DEF ps
  <1>5. \A g \in Holders : \A t \in SlotsOf(g) :
           server'[g][t] = server[g][t] \/ \E k \in DOMAIN ps : SamePlace(ps[k], g, t)
    BY <1>2, <1>3, <1>4 DEF SamePlace
  <1>6. \A k \in DOMAIN ps : ps[k].item = server'[ps[k].holder][ps[k].slot] /\ ps[k].item = Empty
    BY <1>1, <1>2, <1>3, <1>4
  <1>7. \A g \in Holders : \A t : Asked(g, t) => Asked(g, t)' \/ \E k \in DOMAIN ps : SamePlace(ps[k], g, t)
    BY <1>1, <1>2, <1>4, <1>b DEF SamePlace
  <1>8. \A t \in InvSlots : Closed(t) => server'[Me][t] = Empty
    BY <1>0, <1>3, Objects DEF Kept, ClosedEmpty
  <1>9. changes' \in 0 .. MaxChanges
    BY <1>0 DEF Typed
  <1> QED
    BY <1>0, <1>3, <1>4, <1>5, <1>6, <1>7, <1>8, <1>9, <1>b, ServerChanges, ZenonT(60)

LEMMA ServerSwapsStep ==
  ASSUME InventoryInv, ~panicked, ServerSwaps
  PROVE  InventoryInv'
  <1> DEFINE r == Head(c2s)
             h == r.from.holder
             s == r.from.slot
             f == r.to.holder
             t == r.to.slot
             i == r.from.item
             j == r.to.item
             p == ItemAt(h, s, j)
             q == ItemAt(f, t, i)
             ps == <<p, q>>
             mid == [server EXCEPT ![h][s] = j]
  <1>0. /\ c2s # <<>> /\ r.kind = "swap" /\ Has(r.from) /\ Has(r.to)
        /\ server' = [server EXCEPT ![h][s] = j, ![f][t] = i] /\ s2c' = s2c \o ps /\ c2s' = Tail(c2s)
        /\ UNCHANGED <<interactive_id, container_id, container_visible, shown, held, drag, win, net, causes,
                       clicks, changes, panicked>>
        /\ Typed /\ Kept
    BY DEF ServerSwaps, Report, Put, InventoryInv, screen
  <1>1. /\ h \in Holders /\ s \in SlotsOf(h) /\ i \in Held /\ f \in Holders /\ t \in SlotsOf(f) /\ j \in Held
        /\ \A g \in Holders : \A u : Asks(r, g, u) => (h = g /\ s = u) \/ (f = g /\ t = u)
        /\ ~Closed(s) /\ ~Closed(t)
    BY <1>0, Handled DEF Asks, OpenOnly
  <1>b. /\ c2s' \in Seq(Requests) /\ NamesTheShown' /\ (\A k \in DOMAIN c2s' : OpenOnly(c2s'[k]))
        /\ \A g, u : Asked(g, u) => Asked(g, u)' \/ Asks(r, g, u)
    BY <1>0, Handled
  <1>c. server' = [mid EXCEPT ![f][t] = i]
    BY <1>0
  <1> HIDE DEF r, h, s, f, t, i, j
  <1>2. /\ p \in Stats /\ p.holder = h /\ p.slot = s /\ p.item = j
        /\ q \in Stats /\ q.holder = f /\ q.slot = t /\ q.item = i
    BY <1>1, Stated
  <1>3. /\ DOMAIN server' = Holders /\ \A g \in Holders : server'[g] \in [SlotsOf(g) -> Held]
        /\ \A g \in Holders : \A u \in SlotsOf(g) :
             server'[g][u] = IF g = f /\ u = t THEN i ELSE IF g = h /\ u = s THEN j ELSE server[g][u]
    <2>1. DOMAIN server = Holders /\ \A g \in Holders : server[g] \in [SlotsOf(g) -> Held]
      BY <1>0 DEF Typed
    <2>2. /\ DOMAIN mid = Holders /\ \A g \in Holders : mid[g] \in [SlotsOf(g) -> Held]
          /\ \A g \in Holders : \A u \in SlotsOf(g) : mid[g][u] = IF g = h /\ u = s THEN j ELSE server[g][u]
      BY <1>1, <2>1, Replaced
    <2> HIDE DEF mid
    <2>3. /\ DOMAIN server' = Holders /\ \A g \in Holders : server'[g] \in [SlotsOf(g) -> Held]
          /\ \A g \in Holders : \A u \in SlotsOf(g) : server'[g][u] = IF g = f /\ u = t THEN i ELSE mid[g][u]
      BY <1>1, <1>c, <2>2, Replaced
    <2> QED
      BY <2>2, <2>3
  <1> HIDE DEF p, q
  <1>4. ps \in Seq(Stats) /\ DOMAIN ps = {1, 2} /\ ps[1] = p /\ ps[2] = q
    BY <1>2
  <1> HIDE DEF ps, mid
  <1>5. \A g \in Holders : \A u \in SlotsOf(g) :
           server'[g][u] = server[g][u] \/ \E k \in DOMAIN ps : SamePlace(ps[k], g, u)
    BY <1>2, <1>3, <1>4 DEF SamePlace
  <1>6. \A k \in DOMAIN ps : \/ ps[k].item = server'[ps[k].holder][ps[k].slot]
                             \/ \E l \in DOMAIN ps : l > k /\ SamePlace(ps[l], ps[k].holder, ps[k].slot)
    BY <1>1, <1>2, <1>3, <1>4 DEF SamePlace
  <1>7. \A g \in Holders : \A u : Asked(g, u) => Asked(g, u)' \/ \E k \in DOMAIN ps : SamePlace(ps[k], g, u)
    BY <1>1, <1>2, <1>4, <1>b DEF SamePlace
  <1>8. /\ \A u \in InvSlots : Closed(u) => server'[Me][u] = Empty
        /\ \A k \in DOMAIN ps : Closed(ps[k].slot) => ps[k].item = Empty
    <2>1. \A u \in InvSlots : Closed(u) => server[Me][u] = Empty
      BY <1>0 DEF Kept, ClosedEmpty
    <2> QED
      BY <1>1, <1>2, <1>3, <1>4, <2>1, Objects
  <1>9. changes' \in 0 .. MaxChanges
    BY <1>0 DEF Typed
  <1> QED
    BY <1>0, <1>3, <1>4, <1>5, <1>6, <1>7, <1>8, <1>9, <1>b, ServerChanges

\* The invariant holds at first and is kept by every step.
LEMMA InventoryBegins == InventoryInit => InventoryInv
  <1> SUFFICES ASSUME InventoryInit PROVE InventoryInv
    OBVIOUS
  <1>1. /\ interactive_id = None /\ container_id = None /\ container_visible = FALSE
        /\ server = InitialItems /\ held = InitialItems
        /\ shown = [s \in Slots |-> IF s \in InvSlots THEN InitialItems[Me][s] ELSE Empty]
        /\ drag = None /\ win = Idle /\ win.at = "idle" /\ net = Idle /\ c2s = <<>> /\ s2c = <<>>
        /\ causes = {} /\ clicks = 0 /\ changes = 0 /\ panicked = FALSE
    BY DEF InventoryInit, Idle
  <1>2. /\ DOMAIN InitialItems = Holders /\ \A h \in Holders : InitialItems[h] \in [SlotsOf(h) -> Held]
        /\ \A s \in InvSlots : Closed(s) => InitialItems[Me][s] = Empty
    BY InventoryAssumption, Objects DEF Holders, InvSlots, BoxSlots, Held, Closed
  <1>3. shown \in [Slots -> Held] /\ \A s \in InvSlots : shown[s] = server[Me][s]
    BY <1>1, <1>2, Objects DEF Held
  <1>4. \A s \in BoxSlots : shown[s] = Empty
    BY <1>1, Objects
  <1>5. c2s \in Seq(Requests) /\ s2c \in Seq(Stats) /\ DOMAIN c2s = {} /\ DOMAIN s2c = {}
    BY <1>1
  <1>6. Typed
    <2>1. 0 \in 0 .. MaxClicks /\ 0 \in 0 .. MaxChanges
      BY InventoryAssumption
    <2>2. win \in {Idle} /\ net \in {Idle} /\ causes \subseteq Causes /\ drag \in {None}
      BY <1>1
    <2> QED
      BY <1>1, <1>2, <1>3, <1>5, <2>1, <2>2 DEF Typed
  <1>7. Newest /\ HeldRight
    BY <1>1, <1>5 DEF Newest, HeldRight
  <1>8. Synced /\ FirstRight /\ LoadRight /\ NamesTheShown /\ PanicsOnlyWhenClosed
    BY <1>1, <1>5 DEF Synced, FirstRight, LoadRight, NamesTheShown, PanicsOnlyWhenClosed, Moving
  <1>9. InvRight /\ ViewRight
    BY <1>1, <1>3, <1>4 DEF InvRight, ViewRight, Right, Viewed
  <1>10. ~Closed(drag)
    BY <1>1, Objects DEF Closed
  <1>11. \A s \in InvSlots : Closed(s) => shown[s] = Empty /\ server[Me][s] = Empty
    BY <1>1, <1>2, <1>3
  <1>12. ClosedEmpty
    BY <1>1, <1>5, <1>10, <1>11 DEF ClosedEmpty, Moving
  <1> QED
    BY <1>6, <1>7, <1>8, <1>9, <1>12 DEF InventoryInv, Kept

LEMMA InventoryStep == InventoryInv /\ [InventoryNext]_inventoryVars => InventoryInv'
  <1> SUFFICES ASSUME InventoryInv, [InventoryNext]_inventoryVars PROVE InventoryInv'
    OBVIOUS
  <1>1. CASE UNCHANGED inventoryVars
    <2>1. UNCHANGED <<interactive_id, container_id, container_visible, shown, held, drag, win, net, c2s, s2c, server,
                      causes, clicks, changes, panicked>>
      BY <1>1 DEF inventoryVars
    <2>2. Typed'
      BY <2>1 DEF InventoryInv, Typed
    <2>3. Newest' /\ HeldRight' /\ NamesTheShown'
      BY <2>1, Apart, NotAsked DEF InventoryInv, Kept
    <2>4. Synced' /\ FirstRight' /\ PanicsOnlyWhenClosed'
      BY <2>1 DEF InventoryInv, Kept, Synced, FirstRight, PanicsOnlyWhenClosed, Moving
    <2>5. LoadRight'
      BY <2>1 DEF InventoryInv, Kept, LoadRight, Awaited, InNet, SamePlace
    <2>6. InvRight'
      BY <2>1, StillRight DEF InventoryInv, Kept, InvRight, InHand
    <2>7. ViewRight'
      BY <2>1, StillRight DEF InventoryInv, Kept, ViewRight, InHand, Viewed
    <2>8. ClosedEmpty'
      BY <2>1 DEF InventoryInv, Kept, ClosedEmpty, Moving, Closed, OpenOnly
    <2> QED
      BY <2>2, <2>3, <2>4, <2>5, <2>6, <2>7, <2>8 DEF InventoryInv, Kept
  <1>2. CASE InventoryNext
    <2>1. ~panicked
      BY <1>2 DEF InventoryNext
    <2>2. CASE Update
      BY <2>1, <2>2, UpdateBeginsStep, UpdateLoadsStep, UpdateOpensStep, UpdateClosesStep, UpdateFindsStep DEF Update
    <2>3. CASE Callback
      <3>1. CASE \E s \in Slots : itemDragBegin(s) \/ itemDoubleClick(s) \/ itemShiftClick(s)
        BY <3>1, DragBeginStep, DoubleClickStep, ShiftClickStep
      <3>2. CASE \E s \in Slots \cup {Outside} : itemDragEnd(s)
        BY <2>1, <3>2, DragEndStep
      <3>3. CASE SwapRefused \/ SwapFirst \/ SwapSecond \/ DropClears \/ DropSends
        BY <2>1, <3>3, SwapRefusedStep, SwapFirstStep, SwapSecondStep, DropClearsStep, DropSendsStep
      <3> QED
        BY <2>3, <3>1, <3>2, <3>3 DEF Callback
    <2>4. CASE Stat
      BY <2>1, <2>4, StatStoredStep, StatCheckedStep, StatShownStep DEF Stat
    <2>5. CASE Server
      BY <2>1, <2>5, ServerSwapsStep, ServerTakesStep, ServerRefusesStep, OthersChangeStep DEF Server
    <2> QED
      BY <1>2, <2>2, <2>3, <2>4, <2>5 DEF InventoryNext
  <1> QED
    BY <1>1, <1>2

LEMMA InventoryInductive == InventorySpec => []InventoryInv
  BY InventoryBegins, InventoryStep, PTL DEF InventorySpec

\* What is right in flight is right at rest: once all that was asked and told
\* is done, the screen shows what the server has. (game_screen.zig 520-587,
\* 711-772, network.zig 1266-1330)
THEOREM InventorySettles == InventorySpec => []SettledShowsServer
  <1>1. InventoryInv => SettledShowsServer
    <2> SUFFICES ASSUME InventoryInv, Settled, causes = {}
                 PROVE  /\ \A s \in InvSlots : shown[s] = server[Me][s]
                        /\ \A s \in BoxSlots : shown[s] = IF container_id = None THEN Empty ELSE server[container_id][s]
      BY DEF SettledShowsServer
    <2>1. \A h, s : ~Awaited(h, s) /\ ~InNet(h, s) /\ ~Asked(h, s) /\ ~InHand(s)
      BY DEF Settled, Awaited, InNet, Asked, InHand, Idle
    <2>2. Viewed = container_id /\ win.at # "load"
      BY DEF Settled, Viewed, Idle
    <2> QED
      BY <2>1, <2>2 DEF InventoryInv, Kept, InvRight, ViewRight, Right
  <1> QED
    BY <1>1, InventoryInductive, PTL

\* A request names the container on view: nothing is moved while the object
\* stood on is another container. (game_screen.zig 520-587, map.zig 2302-2322)
THEOREM InventoryNames == InventorySpec => []NamesTheShown
  <1>1. InventoryInv => NamesTheShown
    BY DEF InventoryInv, Kept
  <1> QED
    BY <1>1, InventoryInductive, PTL

\* The slots used are those the player has, whatever the slots are.
\* (game_screen.zig 21-89, 520-587)
THEOREM InventorySlots == InventorySpec => []SlotsSound
  <1>1. InventoryInv => SlotsSound
    <2> SUFFICES ASSUME InventoryInv PROVE SlotsSound
      OBVIOUS
    <2>0. Typed /\ Kept
      BY DEF InventoryInv
    <2>1. win.at \in {"idle", "update", "load", "open", "swap", "swapped", "drop", "dropped"}
      BY <2>0 DEF Typed, Loads, Opens, Swaps, Drops, Idle
    <2>2. net.at \in {"idle", "stored", "checked"}
      BY <2>0 DEF Typed, Idle
    <2>3. (\A i \in DOMAIN c2s : c2s[i] \in Requests) /\ \A i \in DOMAIN s2c : s2c[i] \in Places
      BY <2>0 DEF Typed, Stats
    <2>4. InventoryTypeOK
      BY <2>0, <2>1, <2>2, <2>3 DEF InventoryTypeOK, Typed
    <2> QED
      BY <2>0, <2>4 DEF SlotsSound, Kept, ClosedEmpty, ClosedSlotsStayEmpty, Closed
  <1> QED
    BY <1>1, InventoryInductive, PTL

=============================================================================
