----------------------------- MODULE PlayerProofs -----------------------------
(***************************************************************************)
(* The player's hands.  What Random.gen computes, for any even half of a   *)
(* word and any multiplier of at most half of that: with the code's        *)
(* values, 16807 times the seed modulo 2^31 - 1, without overflow; that    *)
(* client and server draw the same numbers from it (Shooting); and that    *)
(* the player walks by the key, input is off for a reason and screens are  *)
(* destroyed once (Controls).                                              *)
(***************************************************************************)
EXTENDS Shooting, Controls, SequenceTheorems, WellFoundedInduction, TLAPS

\* The halves of a seed and of the product of the upper one.
h       == Half \div 2
a(w) == w \div Half
b(w) == w % Half
c(w) == (Multiplier * a(w)) \div h
d(w) == (Multiplier * a(w)) % h

-----------------------------------------------------------------------------
(* Arithmetic.                                                             *)

LEMMA Division ==
  ASSUME NEW n \in Nat, NEW m \in Nat, m > 0
  PROVE  /\ n \div m \in Nat /\ n % m \in 0 .. m - 1
         /\ n = (n \div m) * m + (n % m)
  OBVIOUS

LEMMA MulMono ==
  ASSUME NEW x \in Nat, NEW y \in Nat, NEW u \in Nat, NEW v \in Nat, x <= u, y <= v
  PROVE  x * y <= u * v
<1>1. PICK p \in Nat : u = x + p
  <2>1. u - x \in Nat  OBVIOUS
  <2>2. u = x + (u - x)  OBVIOUS
  <2> QED  BY <2>1, <2>2
<1>2. PICK q \in Nat : v = y + q
  <2>1. v - y \in Nat  OBVIOUS
  <2>2. v = y + (v - y)  OBVIOUS
  <2> QED  BY <2>1, <2>2
<1>3. u * v = x * y + x * q + p * y + p * q  BY <1>1, <1>2
<1>4. x * q \in Nat /\ p * y \in Nat /\ p * q \in Nat /\ x * y \in Nat  OBVIOUS
<1> QED  BY <1>3, <1>4

LEMMA QuotientBound ==
  ASSUME NEW n \in Nat, NEW m \in Nat, NEW k \in Nat, m > 0, n < k * m
  PROVE  n \div m < k
<1> DEFINE q == n \div m
<1>1. q \in Nat /\ q * m <= n  BY Division
<1>2. ASSUME k <= q PROVE FALSE
  <2>1. k * m <= q * m  BY <1>1, <1>2, MulMono
  <2>2. k * m \in Nat /\ q * m \in Nat  BY <1>1
  <2> QED  BY <1>1, <2>1, <2>2
<1> QED  BY <1>1, <1>2

-----------------------------------------------------------------------------
(* The parts of the sum.                                                   *)

LEMMA HalfFacts ==
  /\ Half \in Nat /\ h \in Nat /\ h >= 1 /\ Half = 2 * h
  /\ Multiplier \in Nat /\ Multiplier <= h
BY RandomAssumption DEF h

LEMMA PartsFacts ==
  ASSUME NEW w \in Word
  PROVE  /\ a(w) \in 0 .. Half - 1 /\ b(w) \in 0 .. Half - 1
         /\ w = a(w) * Half + b(w)
         /\ c(w) \in 0 .. Half - 1 /\ d(w) \in 0 .. h - 1
         /\ Multiplier * a(w) = c(w) * h + d(w)
         /\ Sum(w) = Multiplier * b(w) + d(w) * Half + c(w)
<1> USE HalfFacts
<1>1. Half * Half \in Nat  OBVIOUS
<1>2. w \in Nat /\ w < Half * Half  BY <1>1 DEF Word
<1>3. a(w) \in Nat /\ b(w) \in 0 .. Half - 1 /\ w = a(w) * Half + b(w)
  <2>1. Half > 0  OBVIOUS
  <2>2. w \div Half \in Nat /\ w % Half \in 0 .. Half - 1
        /\ w = (w \div Half) * Half + (w % Half)
    BY <1>2, <2>1, Division
  <2> QED  BY <2>2 DEF a, b
<1>4. a(w) < Half  BY <1>2, QuotientBound DEF a
<1> DEFINE hi == Multiplier * a(w)
<1>5. hi \in Nat  BY <1>3
<1>6. c(w) \in Nat /\ d(w) \in 0 .. h - 1 /\ hi = c(w) * h + d(w)
  BY <1>5, Division DEF c, d
<1>7. c(w) < Half
  <2>1. hi <= h * (Half - 1)
    <3>1. a(w) <= Half - 1  BY <1>3, <1>4
    <3>2. Half - 1 \in Nat  OBVIOUS
    <3> QED  BY <1>3, <3>1, <3>2, MulMono
  <2>2. h * (Half - 1) = h * Half - h /\ h * Half = Half * h  OBVIOUS
  <2>3. hi < Half * h
    <3>1. h * Half \in Nat  OBVIOUS
    <3> QED  BY <1>5, <2>1, <2>2, <3>1
  <2> QED  BY <1>5, <2>3, QuotientBound DEF c
<1>8. Sum(w) = Multiplier * b(w) + d(w) * Half + c(w)
  BY DEF Sum, a, b, c, d, h
<1> QED  BY <1>3, <1>4, <1>6, <1>7, <1>8

LEMMA SumBounds ==
  ASSUME NEW w \in Word
  PROVE  /\ Sum(w) \in Nat
         /\ Multiplier * b(w) \in Nat /\ d(w) * Half \in Nat
         /\ Sum(w) <= 2 * (h * Half) - h - 1
<1> USE HalfFacts
<1>1. a(w) \in Nat /\ b(w) \in Nat /\ b(w) <= Half - 1
      /\ c(w) \in Nat /\ c(w) <= Half - 1 /\ d(w) \in Nat /\ d(w) <= h - 1
  BY PartsFacts
<1> DEFINE x == Multiplier * b(w)
           y == d(w) * Half
<1>2. x \in Nat /\ x <= h * Half - h
  <2>1. Half - 1 \in Nat  OBVIOUS
  <2>2. x <= h * (Half - 1)  BY <1>1, <2>1, MulMono
  <2>3. h * (Half - 1) = h * Half - h  OBVIOUS
  <2>4. x \in Nat  BY <1>1
  <2> QED  BY <2>2, <2>3, <2>4
<1>3. y \in Nat /\ y <= h * Half - Half
  <2>1. h - 1 \in Nat  OBVIOUS
  <2>2. y <= (h - 1) * Half  BY <1>1, <2>1, MulMono
  <2>3. (h - 1) * Half = h * Half - Half  OBVIOUS
  <2>4. y \in Nat  BY <1>1
  <2> QED  BY <2>2, <2>3, <2>4
<1>4. Sum(w) = x + y + c(w)  BY PartsFacts
<1>5. h * Half \in Nat  OBVIOUS
<1> HIDE DEF x, y
<1>6. Sum(w) \in Nat /\ Sum(w) <= 2 * (h * Half) - h - 1
  BY <1>1, <1>2, <1>3, <1>4, <1>5
<1> QED  BY <1>2, <1>3, <1>6 DEF x, y

-----------------------------------------------------------------------------
\* No intermediate result of gen overflows a word: neither of the products
\* and none of the sums, so that the code's additions never trap.
THEOREM NeverOverflows ==
  ASSUME NEW w \in Word
  PROVE  /\ Multiplier * (w \div Half) \in Word
         /\ Multiplier * (w % Half) \in Word
         /\ Sum(w) \in Word
         /\ gen(w) \in 0 .. Modulus
<1> USE HalfFacts
<1>1. h * Half \in Nat /\ Half * Half = 2 * (h * Half) /\ h * Half >= h
  <2>1. h * Half = 2 * (h * h) /\ h * h \in Nat /\ h * h >= h
    <3>1. 1 * h <= h * h  BY MulMono
    <3> QED  BY <3>1
  <2>2. Half * Half = 2 * (h * Half)  OBVIOUS
  <2> QED  BY <2>1, <2>2
<1>2. Sum(w) \in Nat /\ Sum(w) <= 2 * (h * Half) - h - 1  BY SumBounds
<1>3. Sum(w) \in Word  BY <1>1, <1>2 DEF Word
<1>4. Multiplier * b(w) \in Word
  <2>1. Multiplier * b(w) \in Nat /\ Multiplier * b(w) <= Sum(w)
    BY SumBounds, PartsFacts
  <2> QED  BY <1>1, <1>2, <2>1 DEF Word
<1>5. Multiplier * a(w) \in Word
  <2>1. a(w) \in Nat /\ a(w) <= Half  BY PartsFacts
  <2>2. Multiplier * a(w) <= h * Half  BY <2>1, MulMono
  <2>3. Multiplier * a(w) \in Nat  BY <2>1
  <2>4. h * Half >= 1  BY <1>1
  <2> QED  BY <1>1, <2>2, <2>3, <2>4 DEF Word
<1>6. gen(w) \in 0 .. Modulus
  <2>1. Modulus = h * Half - 1 /\ Modulus \in Nat  BY <1>1 DEF Modulus, h
  <2> QED  BY <1>1, <1>2, <2>1 DEF gen
<1> QED  BY <1>3, <1>4, <1>5, <1>6 DEF a, b

\* gen multiplies modulo Modulus: client and server agree on a generator that
\* is the textbook one, whatever the seed the server deals.
THEOREM GenIsMultiplication ==
  ASSUME NEW w \in Word
  PROVE  \E q \in Nat : Multiplier * w = q * Modulus + gen(w)
<1> USE HalfFacts
<1> DEFINE m == h * Half
           A == a(w)  B == b(w)  C == c(w)  D == d(w)
<1>1. A \in Nat /\ B \in Nat /\ C \in Nat /\ D \in Nat  BY PartsFacts
<1>2. w = A * Half + B /\ Multiplier * A = C * h + D
      /\ Sum(w) = Multiplier * B + D * Half + C
  BY PartsFacts
<1>3. m \in Nat /\ Modulus = m - 1  BY DEF Modulus, h
<1>4. Multiplier * w = C * (m - 1) + Sum(w)
  <2> HIDE DEF A, B, C, D
  <2>1. Multiplier * w = (Multiplier * A) * Half + Multiplier * B  BY <1>1, <1>2
  <2>2. (C * h + D) * Half = C * m + D * Half  BY <1>1
  <2>3. C * (m - 1) = C * m - C /\ C * m \in Nat  BY <1>1, <1>3
  <2>4. Multiplier * B \in Nat /\ D * Half \in Nat  BY <1>1
  <2> HIDE DEF m
  <2> QED  BY <1>1, <1>2, <2>1, <2>2, <2>3, <2>4
<1>5. Sum(w) \in Nat  BY SumBounds
<1> HIDE DEF m, C
<1>6. CASE Sum(w) > Modulus
  <2>1. gen(w) = Sum(w) - Modulus  BY <1>6 DEF gen
  <2>2. (C + 1) * (m - 1) = C * (m - 1) + (m - 1) /\ C * (m - 1) \in Int  BY <1>1, <1>3
  <2>3. Multiplier * w = (C + 1) * Modulus + gen(w)
    BY <1>3, <1>4, <1>5, <2>1, <2>2
  <2> QED  BY <1>1, <2>3
<1>7. CASE ~(Sum(w) > Modulus)
  BY <1>1, <1>3, <1>4, <1>7 DEF gen
<1> QED  BY <1>6, <1>7

\* A damage drawn between min and max lies between them, and is never max
\* unless they are equal: the rolls of client and server stop short of the
\* largest damage.
THEOREM RollInRange ==
  ASSUME NEW min \in Nat, NEW max \in Nat, NEW n \in Nat, min <= max
  PROVE  /\ InRange(min, max, n) \in min .. max
         /\ InRange(min, max, n) = max => min = max
<1>1. CASE min = max  BY <1>1 DEF InRange
<1>2. CASE min < max
  <2>1. max - min \in Nat /\ max - min > 0  BY <1>2
  <2>2. n % (max - min) \in 0 .. (max - min) - 1  BY <2>1, Division
  <2> QED  BY <1>2, <2>2 DEF InRange
<1> QED  BY <1>1, <1>2

-----------------------------------------------------------------------------
(* Shooting: client and server draw the same numbers. *)

Kind == {"leave", "use_item", "player_shoot", "ground_damage"}
MapInfo == [kind : {"map_info"}, seed : Word]
Other == [kind : {"create_success", "update"}]

\* What is drawn, and not yet drawn by the server.
Due == wire \o queue \o Underway

Types ==
  /\ TypeOK
  /\ inbox \in Seq(MapInfo \cup Other)
  /\ firing.at # "id" => firing.left > 0
  /\ firing.at = "draw" => firing.loaded \in Word

NoLeave(packets) == \A i \in 1..Len(packets) : packets[i] # "leave"

\* The player is in the map: no leave is under way, nor an arrival.
InMap ==
  /\ inbox = <<>> /\ NoLeave(wire) /\ NoLeave(queue)
  /\ seed = Drawn(server, Due)
  /\ firing.at = "draw" => firing.loaded = seed

\* The player is between two maps, and the leave where it can be: queued, on
\* the wire, refused, or answered by up to three packets.
Leaves == Len(wire) > 0 /\ wire[Len(wire)] = "leave" /\ \A i \in 1 .. Len(wire) - 1 : wire[i] # "leave"

Created == [kind |-> "create_success"]
Updated == [kind |-> "update"]
Info(s) == [kind |-> "map_info", seed |-> s]

Between ==
  /\ firing = Still
  /\ player.here = FALSE
  /\ \/ queue = <<"leave">> /\ NoLeave(wire) /\ inbox = <<>> /\ ~player.known
     \/ queue = <<>> /\ Leaves /\ inbox = <<>> /\ ~player.known
     \/ /\ queue = <<>> /\ wire = <<>>
        /\ \/ inbox = <<>> /\ ~player.known
           \/ inbox = <<Info(server), Created, Updated>> /\ ~player.known
           \/ inbox = <<Created, Updated>> /\ ~player.known /\ seed = server
           \/ inbox = <<Updated>> /\ player.known /\ seed = server

IInv ==
  /\ Types
  /\ ~hasty => IF Present THEN InMap ELSE Between

-----------------------------------------------------------------------------
(* What Drawn computes: induction over a packet sequence, as the absence of *)
(* a least counterexample.                                                  *)

LEMMA LeastNat ==
  ASSUME NEW T, T \subseteq Nat, T # {}
  PROVE  \E m \in T : \A n \in T : m <= n
  <1>1. PICK m \in T : \A n \in T : ~(<<n, m>> \in OpToRel(<, Nat))
    BY NatLessThanWellFounded, WFMin
  <1>2. ASSUME NEW n \in T PROVE m <= n
    <2>1. m \in Nat /\ n \in Nat
      OBVIOUS
    <2>2. ~(<<n, m>> \in OpToRel(<, Nat))
      BY <1>1
    <2>3. ~(n < m)
      BY <2>1, <2>2 DEF OpToRel
    <2> QED
      BY <2>1, <2>3
  <1> QED
    BY <1>1, <1>2

LEMMA GenType ==
  ASSUME NEW s \in Word
  PROVE  gen(s) \in Word
  <1>1. gen(s) \in 0 .. Modulus
    BY NeverOverflows
  <1>2. 0 .. Modulus \subseteq Word
    <2>1. Half \in Nat /\ Half \div 2 \in Nat /\ Half \div 2 <= Half
      BY HalfFacts
    <2>2. (Half \div 2) * Half <= Half * Half
      BY <2>1
    <2>3. (Half \div 2) * Half \in Nat /\ Half * Half \in Nat
      BY <2>1
    <2> QED
      BY <2>2, <2>3 DEF Modulus, Word
  <1> QED
    BY <1>1, <1>2

LEMMA HandledType ==
  ASSUME NEW s \in Word, NEW kind
  PROVE  Handled(s, kind) \in Word
  BY GenType DEF Handled

\* f is the server's generator after each of the first packets.
Trace(f, s, packets) ==
  /\ f \in [0..Len(packets) -> Word]
  /\ f[0] = s
  /\ \A i \in 1..Len(packets) : f[i] = Handled(f[i - 1], packets[i])

LEMMA TraceExists ==
  ASSUME NEW packets, Len(packets) \in Nat, NEW s \in Word
  PROVE  \E f : Trace(f, s, packets)
  <1> DEFINE L == Len(packets)
             Upto(f, n) == /\ f \in [0..n -> Word] /\ f[0] = s
                           /\ \A i \in 1..n : f[i] = Handled(f[i - 1], packets[i])
             Bad == {n \in 0..L : ~ \E f : Upto(f, n)}
  <1>1. Bad = {}
    <2>1. SUFFICES ASSUME Bad # {} PROVE FALSE
      OBVIOUS
    <2>2. PICK m \in Bad : \A n \in Bad : m <= n
      <3>1. Bad \subseteq Nat
        OBVIOUS
      <3> QED
        BY <2>1, <3>1, LeastNat
    <2>3. m \in 0..L /\ ~ \E f : Upto(f, m)
      OBVIOUS
    <2>4. m # 0
      <3>1. Upto([i \in 0..0 |-> s], 0)
        OBVIOUS
      <3> QED
        BY <2>3, <3>1
    <2>5. m - 1 \in 0..L /\ ~(m <= m - 1)
      BY <2>3, <2>4
    <2>6. m - 1 \notin Bad
      BY <2>2, <2>5
    <2>7. PICK f : Upto(f, m - 1)
      BY <2>5, <2>6
    <2> DEFINE g == [i \in 0..m |-> IF i = m THEN Handled(f[m - 1], packets[m]) ELSE f[i]]
    <2>8. f[m - 1] \in Word
      BY <2>3, <2>4, <2>7
    <2>9. g \in [0..m -> Word]
      <3>1. ASSUME NEW i \in 0..m PROVE (IF i = m THEN Handled(f[m - 1], packets[m]) ELSE f[i]) \in Word
        <4>1. CASE i = m
          BY <2>8, <4>1, HandledType
        <4>2. CASE i # m
          <5>1. i \in 0 .. m - 1
            BY <2>3, <4>2
          <5> QED
            BY <2>7, <4>2, <5>1
        <4> QED
          BY <4>1, <4>2
      <3> QED
        BY <3>1
    <2>10. g[0] = s
      BY <2>3, <2>4, <2>7
    <2>11. ASSUME NEW i \in 1..m PROVE g[i] = Handled(g[i - 1], packets[i])
      <3>1. i \in 0..m /\ i - 1 \in 0..m /\ i - 1 # m
        BY <2>3
      <3>2. g[i - 1] = f[i - 1]
        BY <3>1
      <3>3. CASE i = m
        BY <3>1, <3>2, <3>3
      <3>4. CASE i # m
        <4>1. i \in 1 .. m - 1
          BY <2>3, <3>4
        <4>2. f[i] = Handled(f[i - 1], packets[i])
          BY <2>7, <4>1
        <4> QED
          BY <3>1, <3>2, <3>4, <4>2
      <3> QED
        BY <3>3, <3>4
    <2> HIDE DEF g
    <2> QED
      BY <2>3, <2>9, <2>10, <2>11
  <1>2. L \in 0..L
    OBVIOUS
  <1>3. \E f : Upto(f, L)
    BY <1>1, <1>2
  <1> QED
    BY <1>3 DEF Trace

\* Drawn is where a trace ends: the recursive function has a value, and only
\* one.
LEMMA DrawnIs ==
  ASSUME NEW packets, Len(packets) \in Nat, NEW s \in Word, NEW f, Trace(f, s, packets)
  PROVE  Drawn(s, packets) = f[Len(packets)]
  <1> DEFINE L == Len(packets)
             Solves(g) == g = [i \in 0..L |-> IF i = 0 THEN s ELSE Handled(g[i - 1], packets[i])]
             after == CHOOSE g : Solves(g)
  <1>1. Solves(f)
    <2>1. ASSUME NEW i \in 0..L
          PROVE  f[i] = IF i = 0 THEN s ELSE Handled(f[i - 1], packets[i])
      <3>1. CASE i = 0
        BY <3>1 DEF Trace
      <3>2. CASE i # 0
        <4>1. i \in 1..L
          BY <3>2
        <4> QED
          BY <3>2, <4>1 DEF Trace
      <3> QED
        BY <3>1, <3>2
    <2>2. f \in [0..L -> Word]
      BY DEF Trace
    <2> QED
      BY <2>1, <2>2
  <1>2. Solves(after)
    BY <1>1
  <1>3. after[L] = f[L]
    <2> DEFINE Bad == {n \in 0..L : after[n] # f[n]}
    <2> HIDE DEF after
    <2>1. SUFFICES ASSUME Bad # {} PROVE FALSE
      <3>1. L \in 0..L
        OBVIOUS
      <3> QED
        BY <2>1, <3>1
    <2>2. PICK m \in Bad : \A n \in Bad : m <= n
      <3>1. Bad \subseteq Nat
        OBVIOUS
      <3> QED
        BY <2>1, <3>1, LeastNat
    <2>3. m \in 0..L /\ after[m] # f[m]
      OBVIOUS
    <2>4. /\ after[m] = IF m = 0 THEN s ELSE Handled(after[m - 1], packets[m])
          /\ f[m] = IF m = 0 THEN s ELSE Handled(f[m - 1], packets[m])
      <3>1. after[m] = IF m = 0 THEN s ELSE Handled(after[m - 1], packets[m])
        BY <1>2, <2>3
      <3>2. f[m] = IF m = 0 THEN s ELSE Handled(f[m - 1], packets[m])
        BY <1>1, <2>3
      <3> QED
        BY <3>1, <3>2
    <2>5. m # 0
      BY <2>3, <2>4
    <2>6. m - 1 \in 0..L /\ ~(m <= m - 1)
      BY <2>3, <2>5
    <2>7. m - 1 \notin Bad
      BY <2>2, <2>6
    <2>8. after[m - 1] = f[m - 1]
      BY <2>6, <2>7
    <2> QED
      BY <2>3, <2>4, <2>5, <2>8
  <1>4. Drawn(s, packets) = after[L]
    BY DEF Drawn
  <1> QED
    BY <1>3, <1>4

LEMMA DrawnType ==
  ASSUME NEW packets, Len(packets) \in Nat, NEW s \in Word
  PROVE  Drawn(s, packets) \in Word
  <1>1. PICK f : Trace(f, s, packets)
    BY TraceExists
  <1>2. f[Len(packets)] \in Word
    BY <1>1 DEF Trace
  <1> QED
    BY <1>1, <1>2, DrawnIs

LEMMA DrawnEmpty ==
  ASSUME NEW s \in Word
  PROVE  Drawn(s, <<>>) = s
  <1>1. Len(<<>>) = 0
    OBVIOUS
  <1>2. PICK f : Trace(f, s, <<>>)
    BY <1>1, TraceExists
  <1> QED
    BY <1>1, <1>2, DrawnIs DEF Trace

\* One more packet at the end.
LEMMA DrawnAppend ==
  ASSUME NEW packets \in Seq(Kind), NEW kind \in Kind, NEW s \in Word
  PROVE  Drawn(s, Append(packets, kind)) = Handled(Drawn(s, packets), kind)
  <1> DEFINE L == Len(packets)
             more == Append(packets, kind)
  <1>1. L \in Nat /\ Len(more) = L + 1 /\ more[L + 1] = kind /\ \A i \in 1..L : more[i] = packets[i]
    BY AppendProperties, LenProperties
  <1> HIDE DEF more
  <1>2. PICK f : Trace(f, s, more)
    BY <1>1, TraceExists
  <1>3. /\ f \in [0 .. L + 1 -> Word] /\ f[0] = s
        /\ \A i \in 1 .. L + 1 : f[i] = Handled(f[i - 1], more[i])
    BY <1>1, <1>2 DEF Trace
  <1> DEFINE g == [i \in 0..L |-> f[i]]
  <1>4. Trace(g, s, packets)
    <2>1. g \in [0..L -> Word] /\ g[0] = s
      BY <1>1, <1>3
    <2>2. ASSUME NEW i \in 1..L PROVE g[i] = Handled(g[i - 1], packets[i])
      <3>1. i \in 0..L /\ i - 1 \in 0..L /\ i \in 1 .. L + 1
        BY <1>1
      <3>2. f[i] = Handled(f[i - 1], more[i])
        BY <1>3, <3>1
      <3> QED
        BY <1>1, <3>1, <3>2
    <2> QED
      BY <2>1, <2>2 DEF Trace
  <1>5. Drawn(s, packets) = f[L]
    <2>1. L \in 0..L
      BY <1>1
    <2> QED
      BY <1>1, <1>4, <2>1, DrawnIs
  <1>6. Drawn(s, more) = f[L + 1]
    BY <1>1, <1>2, DrawnIs
  <1>7. f[L + 1] = Handled(f[L], kind)
    <2>1. L + 1 \in 1 .. L + 1 /\ (L + 1) - 1 = L
      BY <1>1
    <2> QED
      BY <1>1, <1>3, <2>1
  <1> QED
    BY <1>5, <1>6, <1>7 DEF more

\* The first packet is handled.
LEMMA DrawnHead ==
  ASSUME NEW packets \in Seq(Kind), packets # <<>>, NEW s \in Word
  PROVE  Drawn(s, packets) = Drawn(Handled(s, Head(packets)), Tail(packets))
  <1> DEFINE L == Len(packets)
             rest == Tail(packets)
  <1>1. /\ L \in Nat \ {0} /\ Len(rest) = L - 1 /\ Head(packets) = packets[1]
        /\ \A i \in 1 .. L - 1 : rest[i] = packets[i + 1]
    BY HeadTailProperties, EmptySeq, LenProperties
  <1> HIDE DEF rest
  <1>2. PICK f : Trace(f, s, packets)
    BY <1>1, TraceExists
  <1>3. /\ f \in [0..L -> Word] /\ f[0] = s /\ \A i \in 1..L : f[i] = Handled(f[i - 1], packets[i])
    BY <1>2 DEF Trace
  <1>4. f[1] = Handled(s, packets[1]) /\ f[1] \in Word
    <2>1. 1 \in 1..L /\ 1 \in 0..L /\ 1 - 1 = 0
      BY <1>1
    <2> QED
      BY <1>3, <2>1
  <1> DEFINE g == [i \in 0 .. L - 1 |-> f[i + 1]]
  <1>5. Trace(g, f[1], rest)
    <2>1. ASSUME NEW i \in 0 .. L - 1 PROVE f[i + 1] \in Word
      <3>1. i + 1 \in 0..L
        BY <1>1
      <3> QED
        BY <1>3, <3>1
    <2>2. g \in [0 .. L - 1 -> Word] /\ g[0] = f[1]
      BY <1>1, <2>1
    <2>3. ASSUME NEW i \in 1 .. L - 1 PROVE g[i] = Handled(g[i - 1], rest[i])
      <3>1. i \in 0 .. L - 1 /\ i - 1 \in 0 .. L - 1 /\ i + 1 \in 1..L /\ (i - 1) + 1 = i /\ (i + 1) - 1 = i
        BY <1>1
      <3>2. f[i + 1] = Handled(f[i], packets[i + 1])
        BY <1>3, <3>1
      <3>3. g[i] = f[i + 1] /\ g[i - 1] = f[i]
        BY <3>1
      <3> QED
        BY <1>1, <3>2, <3>3
    <2> QED
      BY <1>1, <2>2, <2>3 DEF Trace
  <1>6. Drawn(s, packets) = f[L]
    BY <1>1, <1>2, DrawnIs
  <1>7. Drawn(f[1], rest) = f[L]
    <2>1. L - 1 \in 0 .. L - 1 /\ (L - 1) + 1 = L /\ Len(rest) \in Nat
      BY <1>1
    <2>2. Drawn(f[1], rest) = g[L - 1]
      BY <1>1, <1>4, <1>5, <2>1, DrawnIs
    <2> QED
      BY <2>1, <2>2
  <1> QED
    BY <1>1, <1>4, <1>6, <1>7 DEF rest

-----------------------------------------------------------------------------
Player == [known : BOOLEAN, here : BOOLEAN, bullet : 0 .. BulletIds - 1,
           condition : Conditions \cup {"none"}, wait : [Waits -> 0 .. Delay]]
Firing == [left : 0 .. Volley + 1, at : {"id", "draw", "announce"},
           loaded : Word \cup {None}, kind : {"player_shoot", "ground_damage"}]

\* Types, variable by variable.
LEMMA TypesFacts ==
  ASSUME Types
  PROVE  /\ seed \in Word /\ server \in Word /\ player \in Player /\ firing \in Firing
         /\ queue \in Seq(Kind) /\ wire \in Seq(Kind) /\ hasty \in BOOLEAN
         /\ attacks \in 0 .. MaxAttacks /\ leaves \in 0 .. MaxLeaves
         /\ inbox \in Seq(MapInfo \cup Other)
         /\ firing.at # "id" => firing.left > 0
         /\ firing.at = "draw" => firing.loaded \in Word
  BY DEF Types, TypeOK, Player, Firing, Kind

LEMMA NextTypes ==
  ASSUME /\ seed' \in Word /\ server' \in Word /\ player' \in Player /\ firing' \in Firing
         /\ queue' \in Seq(Kind) /\ wire' \in Seq(Kind) /\ hasty' \in BOOLEAN
         /\ attacks' \in 0 .. MaxAttacks /\ leaves' \in 0 .. MaxLeaves
         /\ inbox' \in Seq(MapInfo \cup Other),
         firing'.at # "id" => firing'.left > 0,
         firing'.at = "draw" => firing'.loaded \in Word
  PROVE  Types'
  BY DEF Types, TypeOK, Player, Firing, Kind, MapInfo, Other

LEMMA StillType ==
  /\ Still \in Firing /\ Still.at = "id" /\ Still.left = 0
  /\ Absent \in Player /\ Absent.known = FALSE /\ Absent.here = FALSE
  <1>1. 0 \in 0 .. Volley + 1 /\ 0 \in 0 .. BulletIds - 1 /\ 0 \in 0 .. Delay
    BY ShootingAssumption
  <1>2. [w \in Waits |-> 0] \in [Waits -> 0 .. Delay]
    BY <1>1
  <1> QED
    BY <1>1, <1>2 DEF Still, Absent, Firing, Player

\* Nothing is under way but what is to be announced.
LEMMA UnderwayFacts ==
  ASSUME Types
  PROVE  /\ Underway \in Seq(Kind)
         /\ firing.at # "announce" => Underway = <<>> /\ Due = wire \o queue
         /\ wire \o queue \in Seq(Kind) /\ Due \in Seq(Kind)
  <1>1. wire \in Seq(Kind) /\ queue \in Seq(Kind) /\ firing \in Firing
    BY TypesFacts
  <1>2. firing.kind \in Kind
    BY <1>1 DEF Firing, Kind
  <1>3. Underway \in Seq(Kind)
    BY <1>2 DEF Underway
  <1>4. wire \o queue \in Seq(Kind)
    BY <1>1, ConcatProperties
  <1>5. Due \in Seq(Kind)
    BY <1>3, <1>4, ConcatProperties DEF Due
  <1>6. firing.at # "announce" => Underway = <<>> /\ Due = wire \o queue
    BY <1>4, ConcatEmptySeq DEF Underway, Due
  <1> QED
    BY <1>3, <1>4, <1>5, <1>6

LEMMA InitIInv == Init => IInv
  <1> SUFFICES ASSUME Init PROVE IInv
    OBVIOUS
  <1>1. player \in Player /\ player.known = TRUE /\ player.here = TRUE
    BY StillType DEF Init, Player, Absent
  <1>2. firing \in Firing /\ firing.at = "id"
    BY StillType DEF Init
  <1>3. seed \in Word /\ server = seed /\ queue = <<>> /\ wire = <<>> /\ inbox = <<>>
    BY ShootingAssumption DEF Init
  <1>4. Types
    <2>1. hasty \in BOOLEAN /\ attacks \in 0 .. MaxAttacks /\ leaves \in 0 .. MaxLeaves
      <3>1. hasty = FALSE /\ attacks = 0 /\ leaves = 0
        BY DEF Init
      <3>2. 0 \in 0 .. MaxAttacks /\ 0 \in 0 .. MaxLeaves
        BY ShootingAssumption
      <3> QED
        BY <3>1, <3>2
    <2>2. inbox \in Seq(MapInfo \cup Other)
      BY <1>3, EmptySeq
    <2>3. queue \in Seq(Kind) /\ wire \in Seq(Kind)
      BY <1>3, EmptySeq
    <2> QED
      BY <1>1, <1>2, <1>3, <2>1, <2>2, <2>3 DEF Types, TypeOK, Player, Firing, Kind
  <1>5. InMap
    <2>1. NoLeave(wire) /\ NoLeave(queue)
      BY <1>3 DEF NoLeave
    <2>2. Due = <<>>
      BY <1>2, <1>3, <1>4, UnderwayFacts
    <2> QED
      BY <1>2, <1>3, <2>1, <2>2, DrawnEmpty DEF InMap
  <1> QED
    BY <1>1, <1>4, <1>5 DEF IInv, Present

-----------------------------------------------------------------------------
(* The window thread. *)

\* Due does not change with what it is not made of.
LEMMA SameDue ==
  ASSUME Types, Types', wire' = wire, queue' = queue,
         firing.at # "announce", firing'.at # "announce"
  PROVE  Due' = Due
  <1>1. Underway = <<>> /\ Underway' = <<>>
    BY DEF Underway
  <1> QED
    BY <1>1 DEF Due

LEMMA FrameKeeps ==
  ASSUME IInv, Frame
  PROVE  IInv'
  <1>1. /\ firing = Still
        /\ player' = [player EXCEPT !.wait = [w \in Waits |-> IF @[w] = 0 THEN 0 ELSE @[w] - 1]]
        /\ seed' = seed /\ firing' = firing /\ queue' = queue /\ wire' = wire /\ inbox' = inbox
        /\ server' = server /\ hasty' = hasty /\ attacks' = attacks /\ leaves' = leaves
    BY DEF Frame, net
  <1>2. Types
    BY DEF IInv
  <1>3. player \in Player
    BY <1>2, TypesFacts
  <1>4. player' \in Player /\ player'.known = player.known /\ player'.here = player.here
    <2>1. player.wait \in [Waits -> 0 .. Delay]
      BY <1>3 DEF Player
    <2>2. [w \in Waits |-> IF player.wait[w] = 0 THEN 0 ELSE player.wait[w] - 1] \in [Waits -> 0 .. Delay]
      BY <2>1, ShootingAssumption
    <2> QED
      BY <1>1, <1>3, <2>2 DEF Player
  <1>5. Types'
    BY <1>1, <1>2, <1>4, TypesFacts, NextTypes
  <1>6. Due' = Due
    BY <1>1 DEF Due, Underway
  <1>7. ASSUME ~hasty PROVE IF Present' THEN InMap' ELSE Between'
    <2>1. Present' = Present
      BY <1>4 DEF Present
    <2>2. CASE Present
      BY <1>1, <1>6, <1>7, <2>1, <2>2 DEF IInv, InMap, NoLeave, Drawn, Handled, Draws
    <2>3. CASE ~Present
      BY <1>1, <1>4, <1>7, <2>1, <2>3 DEF IInv, Between, NoLeave, Leaves, Still
    <2> QED
      BY <2>1, <2>2, <2>3
  <1> QED
    BY <1>1, <1>5, <1>7 DEF IInv

LEMMA NoLeaveAppend ==
  ASSUME NEW packets \in Seq(Kind), NoLeave(packets), NEW kind \in Kind, kind # "leave"
  PROVE  NoLeave(Append(packets, kind))
  BY AppendProperties, LenProperties DEF NoLeave

LEMMA QueueAppend ==
  ASSUME NEW sent \in Seq(Kind), NEW queued \in Seq(Kind), NEW kind \in Kind
  PROVE  sent \o Append(queued, kind) = Append(sent \o queued, kind)
  <1>1. <<kind>> \in Seq(Kind)
    OBVIOUS
  <1>2. Append(queued, kind) = queued \o <<kind>>
    BY AppendIsConcat
  <1>3. sent \o queued \in Seq(Kind)
    BY ConcatProperties
  <1>4. Append(sent \o queued, kind) = (sent \o queued) \o <<kind>>
    BY <1>3, AppendIsConcat
  <1>5. (sent \o queued) \o <<kind>> = sent \o (queued \o <<kind>>)
    BY <1>1, ConcatAssociative
  <1> QED
    BY <1>2, <1>4, <1>5

LEMMA StartsFacts ==
  ASSUME Types, NEW w \in Waits, Starts(w)
  PROVE  /\ firing = Still /\ Present
         /\ player' \in Player /\ player'.known = player.known /\ player'.here = player.here
         /\ attacks' \in 0 .. MaxAttacks /\ leaves' = leaves
  <1>1. /\ firing = Still /\ Present
        /\ player' = [player EXCEPT !.wait[w] = Delay]
        /\ attacks < MaxAttacks /\ attacks' = attacks + 1 /\ leaves' = leaves
    BY DEF Starts
  <1>2. player \in Player /\ attacks \in 0 .. MaxAttacks
    BY TypesFacts
  <1>3. Delay \in 0 .. Delay /\ MaxAttacks \in Nat
    BY ShootingAssumption
  <1>4. attacks' \in 0 .. MaxAttacks
    BY <1>1, <1>2, <1>3
  <1>5. player.wait \in [Waits -> 0 .. Delay]
    BY <1>2 DEF Player
  <1>6. [player.wait EXCEPT ![w] = Delay] \in [Waits -> 0 .. Delay]
    BY <1>3, <1>5
  <1>7. player' \in Player /\ player'.known = player.known /\ player'.here = player.here
    BY <1>1, <1>2, <1>6 DEF Player
  <1> QED
    BY <1>1, <1>4, <1>7

LEMMA weaponShootKeeps ==
  ASSUME IInv, weaponShoot
  PROVE  IInv'
  <1>1. /\ Starts("attack") /\ firing' = [Still EXCEPT !.left = Volley]
        /\ seed' = seed /\ queue' = queue /\ wire' = wire /\ inbox' = inbox
        /\ server' = server /\ hasty' = hasty
    BY DEF weaponShoot, net
  <1>2. Types
    BY DEF IInv
  <1>3. /\ firing = Still /\ Present
        /\ player' \in Player /\ player'.known = player.known /\ player'.here = player.here
        /\ attacks' \in 0 .. MaxAttacks /\ leaves' = leaves
    BY <1>1, <1>2, StartsFacts DEF Waits
  <1>4. firing' \in Firing /\ firing'.at = "id" /\ firing.at = "id"
    <2>1. Volley \in 0 .. Volley + 1
      BY ShootingAssumption
    <2> QED
      BY <1>1, <1>3, <2>1 DEF Still, Firing
  <1>5. Types'
    BY <1>1, <1>2, <1>3, <1>4, TypesFacts, NextTypes
  <1>6. Due' = Due
    BY <1>1, <1>2, <1>4, <1>5, SameDue
  <1>7. ASSUME ~hasty PROVE Present' /\ InMap'
    BY <1>1, <1>3, <1>4, <1>6, <1>7 DEF IInv, Present, InMap, NoLeave, Drawn, Handled, Draws
  <1> QED
    BY <1>1, <1>5, <1>7 DEF IInv

LEMMA useAbilityKeeps ==
  ASSUME IInv, NEW shoots \in BOOLEAN, useAbility(shoots)
  PROVE  IInv'
  <1>1. /\ Starts("ability") /\ firing' = [Still EXCEPT !.left = IF shoots THEN Volley ELSE 0]
        /\ queue' = Append(queue, "use_item")
        /\ seed' = seed /\ wire' = wire /\ inbox' = inbox /\ server' = server /\ hasty' = hasty
    BY DEF useAbility, Queue, net
  <1>2. Types
    BY DEF IInv
  <1>3. /\ firing = Still /\ Present
        /\ player' \in Player /\ player'.known = player.known /\ player'.here = player.here
        /\ attacks' \in 0 .. MaxAttacks /\ leaves' = leaves
    BY <1>1, <1>2, StartsFacts DEF Waits
  <1>4. firing' \in Firing /\ firing'.at = "id" /\ firing.at = "id"
    <2>1. Volley \in 0 .. Volley + 1 /\ 0 \in 0 .. Volley + 1
      BY ShootingAssumption
    <2> QED
      BY <1>1, <1>3, <2>1 DEF Still, Firing
  <1>5. /\ seed \in Word /\ server \in Word /\ wire \in Seq(Kind) /\ queue \in Seq(Kind)
        /\ "use_item" \in Kind /\ queue' \in Seq(Kind)
    BY <1>1, <1>2, TypesFacts, AppendProperties DEF Kind
  <1>6. Types'
    BY <1>1, <1>2, <1>3, <1>4, <1>5, TypesFacts, NextTypes
  <1>7. Due = wire \o queue /\ Due \in Seq(Kind)
    BY <1>2, <1>4, UnderwayFacts
  <1>8. Due' = Append(Due, "use_item")
    <2>1. Due' = wire' \o queue'
      <3>1. Underway' = <<>>
        BY <1>4 DEF Underway
      <3>2. wire' \o queue' \in Seq(Kind)
        BY <1>1, <1>5, ConcatProperties
      <3> QED
        BY <3>1, <3>2, ConcatEmptySeq DEF Due
    <2> QED
      BY <1>1, <1>5, <1>7, <2>1, QueueAppend
  <1>9. Drawn(server, Append(Due, "use_item")) = Drawn(server, Due)
    BY <1>5, <1>7, DrawnAppend DEF Handled, Draws
  <1>10. ASSUME ~hasty PROVE Present' /\ InMap'
    <2>1. InMap
      BY <1>3, <1>10 DEF IInv
    <2>2. NoLeave(queue')
      BY <1>1, <1>5, <2>1, NoLeaveAppend DEF InMap
    <2>3. seed' = Drawn(server', Due')
      BY <1>1, <1>8, <1>9, <2>1 DEF InMap
    <2> QED
      BY <1>1, <1>3, <1>4, <2>1, <2>2, <2>3 DEF Present, InMap, NoLeave, Drawn, Handled, Draws
  <1> QED
    BY <1>1, <1>6, <1>10 DEF IInv

LEMMA GroundDamageKeeps ==
  ASSUME IInv, GroundDamage
  PROVE  IInv'
  <1>1. /\ Starts("burn")
        /\ firing' = [left |-> 1, at |-> "draw", loaded |-> seed, kind |-> "ground_damage"]
        /\ seed' = seed /\ queue' = queue /\ wire' = wire /\ inbox' = inbox
        /\ server' = server /\ hasty' = hasty
    BY DEF GroundDamage, net
  <1>2. Types
    BY DEF IInv
  <1>3. /\ firing = Still /\ Present
        /\ player' \in Player /\ player'.known = player.known /\ player'.here = player.here
        /\ attacks' \in 0 .. MaxAttacks /\ leaves' = leaves
    BY <1>1, <1>2, StartsFacts DEF Waits
  <1>4. seed \in Word
    BY <1>2, TypesFacts
  <1>5. /\ firing' \in Firing /\ firing'.at = "draw" /\ firing.at = "id"
        /\ firing'.loaded = seed /\ firing'.left > 0
    <2>1. 1 \in 0 .. Volley + 1
      BY ShootingAssumption
    <2> QED
      BY <1>1, <1>3, <1>4, <2>1 DEF Still, Firing
  <1>6. Types'
    BY <1>1, <1>2, <1>3, <1>4, <1>5, TypesFacts, NextTypes
  <1>7. Due' = Due
    BY <1>1, <1>2, <1>5, <1>6, SameDue
  <1>8. ASSUME ~hasty PROVE Present' /\ InMap'
    BY <1>1, <1>3, <1>5, <1>7, <1>8 DEF IInv, Present, InMap, NoLeave, Drawn, Handled, Draws
  <1> QED
    BY <1>1, <1>6, <1>8 DEF IInv

\* A volley under way is the player's, and the player is in the map.
LEMMA FiringInMap ==
  ASSUME IInv, ~hasty, firing # Still
  PROVE  Present /\ InMap
  BY DEF IInv, Between

LEMMA ShotIdKeeps ==
  ASSUME IInv, ShotId
  PROVE  IInv'
  <1>1. /\ firing.left > 0 /\ firing.at = "id"
        /\ player' = [player EXCEPT !.bullet = (@ + 1) % BulletIds]
        /\ firing' = [firing EXCEPT !.at = "draw", !.loaded = seed]
        /\ seed' = seed /\ queue' = queue /\ wire' = wire /\ inbox' = inbox
        /\ server' = server /\ hasty' = hasty /\ attacks' = attacks /\ leaves' = leaves
    BY DEF ShotId, net
  <1>2. Types
    BY DEF IInv
  <1>3. player \in Player /\ firing \in Firing /\ seed \in Word
    BY <1>2, TypesFacts
  <1>4. player' \in Player /\ player'.known = player.known /\ player'.here = player.here
    <2>1. player.bullet \in 0 .. BulletIds - 1 /\ BulletIds \in Nat \ {0}
      BY <1>3, ShootingAssumption DEF Player
    <2>2. (player.bullet + 1) % BulletIds \in 0 .. BulletIds - 1
      BY <2>1
    <2> QED
      BY <1>1, <1>3, <2>2 DEF Player
  <1>5. /\ firing' \in Firing /\ firing'.at = "draw" /\ firing'.loaded = seed
        /\ firing'.left > 0
    BY <1>1, <1>3 DEF Firing
  <1>6. Types'
    BY <1>1, <1>2, <1>3, <1>4, <1>5, TypesFacts, NextTypes
  <1>7. Due' = Due
    BY <1>1, <1>2, <1>5, <1>6, SameDue
  <1>8. firing # Still
    BY <1>1, StillType
  <1>9. ASSUME ~hasty PROVE Present' /\ InMap'
    <2>1. Present /\ InMap
      BY <1>8, <1>9, FiringInMap
    <2> QED
      BY <1>1, <1>4, <1>5, <1>7, <2>1 DEF Present, InMap, NoLeave, Drawn, Handled, Draws
  <1> QED
    BY <1>1, <1>6, <1>9 DEF IInv

LEMMA DamageDrawnKeeps ==
  ASSUME IInv, DamageDrawn
  PROVE  IInv'
  <1>1. /\ firing.at = "draw" /\ seed' = gen(firing.loaded)
        /\ firing' = [firing EXCEPT !.at = "announce"]
        /\ player' = player /\ queue' = queue /\ wire' = wire /\ inbox' = inbox
        /\ server' = server /\ hasty' = hasty /\ attacks' = attacks /\ leaves' = leaves
    BY DEF DamageDrawn, net
  <1>2. Types
    BY DEF IInv
  <1>3. /\ firing \in Firing /\ firing.loaded \in Word /\ firing.left > 0 /\ server \in Word
        /\ wire \in Seq(Kind) /\ queue \in Seq(Kind)
    BY <1>1, <1>2, TypesFacts
  <1>4. seed' \in Word
    BY <1>1, <1>3, GenType
  <1>5. /\ firing' \in Firing /\ firing'.at = "announce" /\ firing'.left > 0
        /\ firing'.kind = firing.kind
        /\ firing.kind \in {"player_shoot", "ground_damage"} /\ firing.kind \in Kind
    BY <1>1, <1>3 DEF Firing, Kind
  <1>6. Types'
    BY <1>1, <1>2, <1>4, <1>5, TypesFacts, NextTypes
  <1>7. Due' = Append(Due, firing.kind)
    <2>1. Due = wire \o queue /\ wire \o queue \in Seq(Kind)
      BY <1>1, <1>2, UnderwayFacts
    <2>2. Underway' = <<firing.kind>>
      BY <1>5 DEF Underway
    <2>3. Due' = (wire \o queue) \o <<firing.kind>>
      BY <1>1, <2>2 DEF Due
    <2> QED
      BY <1>5, <2>1, <2>3, AppendIsConcat
  <1>8. firing # Still
    BY <1>1, StillType
  <1>9. ASSUME ~hasty PROVE Present' /\ InMap'
    <2>1. Present /\ InMap
      BY <1>8, <1>9, FiringInMap
    <2>2. seed' = gen(seed) /\ seed = Drawn(server, Due)
      BY <1>1, <2>1 DEF InMap
    <2>3. Drawn(server, Append(Due, firing.kind)) = Handled(Drawn(server, Due), firing.kind)
      BY <1>2, <1>3, <1>5, UnderwayFacts, DrawnAppend
    <2>4. Handled(seed, firing.kind) = gen(seed)
      BY <1>5 DEF Handled, Draws
    <2>5. seed' = Drawn(server', Due')
      BY <1>1, <1>7, <2>2, <2>3, <2>4
    <2> QED
      BY <1>1, <1>5, <2>1, <2>5 DEF Present, InMap, NoLeave, Drawn, Handled, Draws
  <1> QED
    BY <1>1, <1>6, <1>9 DEF IInv

LEMMA AnnouncedKeeps ==
  ASSUME IInv, Announced
  PROVE  IInv'
  <1>1. /\ firing.at = "announce" /\ queue' = Append(queue, firing.kind)
        /\ firing' = IF firing.left = 1 THEN Still
                     ELSE [firing EXCEPT !.left = @ - 1, !.at = "id", !.loaded = None]
        /\ seed' = seed /\ player' = player /\ wire' = wire /\ inbox' = inbox
        /\ server' = server /\ hasty' = hasty /\ attacks' = attacks /\ leaves' = leaves
    BY DEF Announced, Queue, net
  <1>2. Types
    BY DEF IInv
  <1>3. /\ firing \in Firing /\ firing.left > 0 /\ server \in Word /\ seed \in Word
        /\ wire \in Seq(Kind) /\ queue \in Seq(Kind)
    BY <1>1, <1>2, TypesFacts
  <1>4. firing.kind \in Kind /\ firing.kind # "leave"
    BY <1>3 DEF Firing, Kind
  <1>5. queue' \in Seq(Kind)
    BY <1>1, <1>3, <1>4, AppendProperties
  <1>6. firing' \in Firing /\ firing'.at = "id"
    <2>1. firing.left - 1 \in 0 .. Volley + 1
      BY <1>3, ShootingAssumption DEF Firing
    <2> QED
      BY <1>1, <1>3, <2>1, StillType DEF Firing
  <1>7. Types'
    BY <1>1, <1>2, <1>5, <1>6, TypesFacts, NextTypes
  <1>8. Due' = Due
    <2>1. wire \o queue \in Seq(Kind)
      BY <1>2, UnderwayFacts
    <2>2. Due = Append(wire \o queue, firing.kind)
      <3>1. Due = (wire \o queue) \o <<firing.kind>>
        BY <1>1 DEF Due, Underway
      <3> QED
        BY <1>4, <2>1, <3>1, AppendIsConcat
    <2>3. Due' = wire' \o queue'
      <3>1. Underway' = <<>>
        BY <1>6 DEF Underway
      <3>2. wire' \o queue' \in Seq(Kind)
        BY <1>1, <1>3, <1>5, ConcatProperties
      <3> QED
        BY <3>1, <3>2, ConcatEmptySeq DEF Due
    <2> QED
      BY <1>1, <1>3, <1>4, <2>2, <2>3, QueueAppend
  <1>9. firing # Still
    BY <1>1, StillType
  <1>10. ASSUME ~hasty PROVE Present' /\ InMap'
    <2>1. Present /\ InMap
      BY <1>9, <1>10, FiringInMap
    <2>2. NoLeave(queue')
      BY <1>1, <1>3, <1>4, <2>1, NoLeaveAppend DEF InMap
    <2> QED
      BY <1>1, <1>6, <1>8, <2>1, <2>2 DEF Present, InMap, NoLeave, Drawn, Handled, Draws
  <1> QED
    BY <1>1, <1>7, <1>10 DEF IInv

LEMMA LeaveKeeps ==
  ASSUME IInv, Leave
  PROVE  IInv'
  <1>1. /\ firing = Still /\ queue' = <<"leave">> /\ player' = Absent
        /\ hasty' = (hasty \/ ~Present)
        /\ leaves < MaxLeaves /\ leaves' = leaves + 1
        /\ seed' = seed /\ firing' = firing /\ wire' = wire /\ inbox' = inbox
        /\ server' = server /\ attacks' = attacks
    BY DEF Leave, net
  <1>2. Types
    BY DEF IInv
  <1>3. queue' \in Seq(Kind)
    BY <1>1 DEF Kind
  <1>4. player' \in Player /\ player'.known = FALSE /\ player'.here = FALSE
    BY <1>1, StillType
  <1>5. leaves' \in 0 .. MaxLeaves
    <2>1. leaves \in 0 .. MaxLeaves /\ MaxLeaves \in Nat
      BY <1>2, TypesFacts, ShootingAssumption
    <2> QED
      BY <1>1, <2>1
  <1>6. hasty' \in BOOLEAN
    BY <1>1
  <1>7. Types'
    BY <1>1, <1>2, <1>3, <1>4, <1>5, <1>6, TypesFacts, NextTypes
  <1>8. ASSUME ~hasty' PROVE ~Present' /\ Between'
    <2>1. ~hasty /\ Present
      BY <1>1, <1>8
    <2>2. InMap
      BY <2>1 DEF IInv
    <2>3. firing' = Still'
      BY <1>1 DEF Still
    <2>4. queue' = <<"leave">> /\ NoLeave(wire)' /\ inbox' = <<>> /\ ~player'.known
      BY <1>1, <1>4, <2>2 DEF InMap, NoLeave
    <2> QED
      BY <1>4, <2>3, <2>4 DEF Present, Between
  <1> QED
    BY <1>7, <1>8 DEF IInv

-----------------------------------------------------------------------------
(* The network thread. *)

\* Moving a packet from the queue to the wire changes nothing of the whole.
LEMMA SendConcat ==
  ASSUME NEW sent \in Seq(Kind), NEW queued \in Seq(Kind), queued # <<>>
  PROVE  Append(sent, Head(queued)) \o Tail(queued) = sent \o queued
  <1>1. Head(queued) \in Kind /\ Tail(queued) \in Seq(Kind) /\ <<Head(queued)>> \in Seq(Kind)
    BY HeadTailProperties
  <1>2. queued = <<Head(queued)>> \o Tail(queued)
    <2>1. Len(queued) \in Nat \ {0} /\ Head(queued) = queued[1]
      BY EmptySeq
    <2>2. 1 \in 1..Len(queued) /\ Len(queued) \in 1..Len(queued) /\ 1 + 1 = 2
      BY <2>1
    <2>3. SubSeq(queued, 1, Len(queued)) = <<queued[1]>> \o SubSeq(queued, 2, Len(queued))
      BY <2>2, SubSeqRecursiveFirst
    <2> QED
      BY <2>1, <2>3, SubSeqFull, TailIsSubSeq
  <1>3. Append(sent, Head(queued)) = sent \o <<Head(queued)>>
    BY <1>1, AppendIsConcat
  <1>4. (sent \o <<Head(queued)>>) \o Tail(queued) = sent \o (<<Head(queued)>> \o Tail(queued))
    BY <1>1, ConcatAssociative
  <1> QED
    BY <1>2, <1>3, <1>4

LEMMA NoLeaveTail ==
  ASSUME NEW packets \in Seq(Kind), packets # <<>>, NoLeave(packets)
  PROVE  NoLeave(Tail(packets)) /\ Head(packets) # "leave"
  <1>1. /\ Len(packets) \in Nat \ {0} /\ Head(packets) = packets[1]
        /\ Len(Tail(packets)) = Len(packets) - 1
        /\ \A i \in 1..Len(Tail(packets)) : Tail(packets)[i] = packets[i + 1]
    BY EmptySeq, HeadTailProperties
  <1>2. \A i \in 1..Len(Tail(packets)) : i + 1 \in 1..Len(packets)
    BY <1>1
  <1>3. 1 \in 1..Len(packets)
    BY <1>1
  <1> QED
    BY <1>1, <1>2, <1>3 DEF NoLeave

LEMMA SendQueuedKeeps ==
  ASSUME IInv, SendQueued
  PROVE  IInv'
  <1>1. /\ queue # <<>> /\ wire' = Append(wire, Head(queue)) /\ queue' = Tail(queue)
        /\ seed' = seed /\ player' = player /\ firing' = firing /\ inbox' = inbox
        /\ server' = server /\ hasty' = hasty /\ attacks' = attacks /\ leaves' = leaves
    BY DEF SendQueued
  <1>2. Types
    BY DEF IInv
  <1>3. wire \in Seq(Kind) /\ queue \in Seq(Kind)
    BY <1>2, TypesFacts
  <1>4. Head(queue) \in Kind /\ wire' \in Seq(Kind) /\ queue' \in Seq(Kind)
    BY <1>1, <1>3, HeadTailProperties, AppendProperties
  <1>5. Types'
    BY <1>1, <1>2, <1>4, TypesFacts, NextTypes
  <1>6. Due' = Due
    <2>1. wire' \o queue' = wire \o queue
      BY <1>1, <1>3, SendConcat
    <2> QED
      BY <1>1, <2>1 DEF Due, Underway
  <1>7. CASE Present /\ ~hasty
    <2>1. InMap
      BY <1>7 DEF IInv
    <2>2. NoLeave(queue') /\ Head(queue) # "leave"
      BY <1>1, <1>3, <2>1, NoLeaveTail DEF InMap
    <2>3. NoLeave(wire')
      BY <1>1, <1>3, <1>4, <2>1, <2>2, NoLeaveAppend DEF InMap
    <2>4. Present' /\ InMap'
      BY <1>1, <1>6, <1>7, <2>1, <2>2, <2>3 DEF Present, InMap, NoLeave, Drawn, Handled, Draws
    <2> QED
      BY <1>1, <1>5, <1>7, <2>4 DEF IInv
  <1>8. CASE ~Present /\ ~hasty
    <2>1. Between /\ ~Present'
      BY <1>1, <1>8 DEF IInv, Present
    <2>2. queue = <<"leave">> /\ NoLeave(wire) /\ inbox = <<>> /\ ~player.known
      BY <1>1, <2>1 DEF Between
    <2>3. queue' = <<>> /\ wire' = Append(wire, "leave")
      BY <1>1, <2>2
    <2>4. Leaves'
      <3>1. /\ Len(wire) \in Nat /\ Len(wire') = Len(wire) + 1 /\ wire'[Len(wire) + 1] = "leave"
            /\ \A i \in 1..Len(wire) : wire'[i] = wire[i]
        BY <1>3, <2>3, AppendProperties, LenProperties DEF Kind
      <3>2. (Len(wire) + 1) - 1 = Len(wire)
        BY <3>1
      <3> QED
        BY <2>2, <3>1, <3>2 DEF Leaves, NoLeave
    <2>5. Between'
      BY <1>1, <2>1, <2>2, <2>3, <2>4 DEF Between, Still
    <2> QED
      BY <1>1, <1>5, <1>8, <2>1, <2>5 DEF IInv
  <1> QED
    BY <1>1, <1>5, <1>7, <1>8 DEF IInv

\* A packet received while nothing went wrong is one of an arrival.
LEMMA ReceivedFacts ==
  ASSUME IInv, NEW kind, Received(kind)
  PROVE  /\ inbox # <<>> /\ Head(inbox).kind = kind /\ Head(inbox) \in MapInfo \cup Other
         /\ inbox' = Tail(inbox) /\ inbox' \in Seq(MapInfo \cup Other)
         /\ ~hasty => ~Present /\ Between /\ queue = <<>> /\ wire = <<>>
         /\ firing' = firing /\ queue' = queue /\ wire' = wire
         /\ server' = server /\ hasty' = hasty /\ attacks' = attacks /\ leaves' = leaves
  <1>1. /\ inbox # <<>> /\ Head(inbox).kind = kind /\ inbox' = Tail(inbox)
        /\ firing' = firing /\ queue' = queue /\ wire' = wire
        /\ server' = server /\ hasty' = hasty /\ attacks' = attacks /\ leaves' = leaves
    BY DEF Received
  <1>2. inbox \in Seq(MapInfo \cup Other)
    BY TypesFacts DEF IInv
  <1>3. Head(inbox) \in MapInfo \cup Other /\ inbox' \in Seq(MapInfo \cup Other)
    BY <1>1, <1>2, HeadTailProperties
  <1>4. ~hasty => ~Present /\ Between
    BY <1>1 DEF IInv, InMap
  <1>5. ~hasty => queue = <<>> /\ wire = <<>>
    BY <1>1, <1>4 DEF Between
  <1> QED
    BY <1>1, <1>3, <1>4, <1>5

\* The heads and tails of an arrival.
LEMMA Arrival ==
  ASSUME NEW s
  PROVE  /\ Head(<<Info(s), Created, Updated>>) = Info(s)
         /\ Tail(<<Info(s), Created, Updated>>) = <<Created, Updated>>
         /\ Head(<<Created, Updated>>) = Created /\ Tail(<<Created, Updated>>) = <<Updated>>
         /\ Head(<<Updated>>) = Updated /\ Tail(<<Updated>>) = <<>>
         /\ Info(s).kind = "map_info" /\ Info(s).seed = s
         /\ Created.kind = "create_success" /\ Updated.kind = "update"
  <1>1. /\ Info(s).kind = "map_info" /\ Info(s).seed = s
        /\ Created.kind = "create_success" /\ Updated.kind = "update"
    BY DEF Info, Created, Updated
  <1>2. \A x, y, z : /\ Head(<<x, y, z>>) = x /\ Tail(<<x, y, z>>) = <<y, z>>
                     /\ Head(<<x, y>>) = x /\ Tail(<<x, y>>) = <<y>>
                     /\ Head(<<x>>) = x /\ Tail(<<x>>) = <<>>
    OBVIOUS
  <1> QED
    BY <1>1, <1>2

LEMMA handleMapInfoKeeps ==
  ASSUME IInv, handleMapInfo
  PROVE  IInv'
  <1>1. Received("map_info") /\ seed' = Head(inbox).seed /\ player' = Absent
    BY DEF handleMapInfo
  <1>2. /\ Head(inbox).kind = "map_info" /\ Head(inbox) \in MapInfo \cup Other
        /\ inbox' = Tail(inbox) /\ inbox' \in Seq(MapInfo \cup Other)
        /\ ~hasty => ~Present /\ Between /\ queue = <<>> /\ wire = <<>>
        /\ inbox # <<>>
        /\ firing' = firing /\ queue' = queue /\ wire' = wire
        /\ server' = server /\ hasty' = hasty /\ attacks' = attacks /\ leaves' = leaves
    BY <1>1, ReceivedFacts
  <1>3. Types
    BY DEF IInv
  <1>4. seed' \in Word
    <2>1. Head(inbox) \notin Other
      BY <1>2 DEF Other
    <2> QED
      BY <1>1, <1>2, <2>1 DEF MapInfo
  <1>5. player' \in Player /\ player'.known = FALSE /\ player'.here = FALSE
    BY <1>1, StillType
  <1>6. Types'
    BY <1>2, <1>3, <1>4, <1>5, TypesFacts, NextTypes
  <1>7. ASSUME ~hasty PROVE ~Present' /\ Between'
    <2>1. Between /\ queue = <<>> /\ wire = <<>>
      BY <1>2, <1>7
    <2>2. inbox = <<Info(server), Created, Updated>>
      BY <1>2, <2>1, Arrival DEF Between
    <2>3. inbox' = <<Created, Updated>> /\ seed' = server
      BY <1>1, <1>2, <2>2, Arrival
    <2> QED
      BY <1>2, <1>5, <2>1, <2>3 DEF Present, Between, Still, Created, Updated
  <1> QED
    BY <1>2, <1>6, <1>7 DEF IInv

LEMMA handleCreateSuccessKeeps ==
  ASSUME IInv, handleCreateSuccess
  PROVE  IInv'
  <1>1. Received("create_success") /\ seed' = seed /\ player' = [player EXCEPT !.known = TRUE]
    BY DEF handleCreateSuccess
  <1>2. /\ Head(inbox).kind = "create_success"
        /\ inbox' = Tail(inbox) /\ inbox' \in Seq(MapInfo \cup Other)
        /\ ~hasty => ~Present /\ Between /\ queue = <<>> /\ wire = <<>>
        /\ inbox # <<>>
        /\ firing' = firing /\ queue' = queue /\ wire' = wire
        /\ server' = server /\ hasty' = hasty /\ attacks' = attacks /\ leaves' = leaves
    BY <1>1, ReceivedFacts
  <1>3. Types
    BY DEF IInv
  <1>4. player' \in Player /\ player'.known = TRUE /\ player'.here = player.here
    BY <1>1, <1>3, TypesFacts DEF Player
  <1>5. Types'
    BY <1>1, <1>2, <1>3, <1>4, TypesFacts, NextTypes
  <1>6. ASSUME ~hasty PROVE ~Present' /\ Between'
    <2>1. Between /\ queue = <<>> /\ wire = <<>> /\ player.here = FALSE
      BY <1>2, <1>6 DEF Between
    <2>2. inbox = <<Created, Updated>> /\ seed = server
      BY <1>2, <2>1, Arrival DEF Between
    <2>3. inbox' = <<Updated>>
      BY <1>2, <2>2, Arrival
    <2> QED
      BY <1>1, <1>2, <1>4, <2>1, <2>2, <2>3 DEF Present, Between, Still, Updated
  <1> QED
    BY <1>2, <1>5, <1>6 DEF IInv

LEMMA handleUpdateKeeps ==
  ASSUME IInv, handleUpdate
  PROVE  IInv'
  <1>1. Received("update") /\ seed' = seed /\ player' = [player EXCEPT !.here = TRUE]
    BY DEF handleUpdate
  <1>2. /\ Head(inbox).kind = "update"
        /\ inbox' = Tail(inbox) /\ inbox' \in Seq(MapInfo \cup Other)
        /\ ~hasty => ~Present /\ Between /\ queue = <<>> /\ wire = <<>>
        /\ inbox # <<>>
        /\ firing' = firing /\ queue' = queue /\ wire' = wire
        /\ server' = server /\ hasty' = hasty /\ attacks' = attacks /\ leaves' = leaves
    BY <1>1, ReceivedFacts
  <1>3. Types
    BY DEF IInv
  <1>4. player' \in Player /\ player'.known = player.known /\ player'.here = TRUE
    BY <1>1, <1>3, TypesFacts DEF Player
  <1>5. Types'
    BY <1>1, <1>2, <1>3, <1>4, TypesFacts, NextTypes
  <1>6. ASSUME ~hasty PROVE Present' /\ InMap'
    <2>1. Between /\ queue = <<>> /\ wire = <<>> /\ firing = Still
      BY <1>2, <1>6 DEF Between
    <2>2. inbox = <<Updated>> /\ player.known /\ seed = server
      BY <1>2, <2>1, Arrival DEF Between
    <2>3. inbox' = <<>> /\ wire' = <<>> /\ queue' = <<>> /\ firing' = Still /\ firing'.at = "id"
      BY <1>2, <2>1, <2>2, Arrival, StillType
    <2>4. Due' = <<>>
      <3>1. <<>> \o <<>> = <<>> /\ Underway' = <<>>
        BY <2>3 DEF Underway
      <3> QED
        BY <2>3, <3>1 DEF Due
    <2>5. Drawn(server, <<>>) = server
      BY <1>3, TypesFacts, DrawnEmpty
    <2>6. seed' = Drawn(server', Due')
      BY <1>1, <1>2, <2>2, <2>4, <2>5
    <2>7. NoLeave(wire)' /\ NoLeave(queue)'
      BY <2>3 DEF NoLeave
    <2> QED
      BY <1>4, <2>2, <2>3, <2>6, <2>7 DEF Present, InMap, Drawn, Handled, Draws
  <1> QED
    BY <1>2, <1>5, <1>6 DEF IInv

LEMMA handleNewTickKeeps ==
  ASSUME IInv, NEW con \in Conditions, handleNewTick(con)
  PROVE  IInv'
  <1>1. /\ player.here /\ player' = [player EXCEPT !.condition = con]
        /\ seed' = seed /\ firing' = firing /\ queue' = queue /\ wire' = wire /\ inbox' = inbox
        /\ server' = server /\ hasty' = hasty /\ attacks' = attacks /\ leaves' = leaves
    BY DEF handleNewTick, net
  <1>2. Types
    BY DEF IInv
  <1>3. player' \in Player /\ player'.known = player.known /\ player'.here = player.here
    BY <1>1, <1>2, TypesFacts DEF Player
  <1>4. Types'
    BY <1>1, <1>2, <1>3, TypesFacts, NextTypes
  <1>5. Due' = Due
    BY <1>1 DEF Due, Underway
  <1>6. ASSUME ~hasty PROVE Present' /\ InMap'
    <2>1. Present /\ InMap
      BY <1>1, <1>6 DEF IInv, Between
    <2> QED
      BY <1>1, <1>3, <1>5, <2>1 DEF Present, InMap, NoLeave, Drawn, Handled, Draws
  <1> QED
    BY <1>1, <1>4, <1>6 DEF IInv

-----------------------------------------------------------------------------
(* The server. *)

LEMMA TailConcat ==
  ASSUME NEW sent \in Seq(Kind), sent # <<>>, NEW rest \in Seq(Kind)
  PROVE  /\ sent \o rest # <<>> /\ Head(sent \o rest) = Head(sent)
         /\ Tail(sent \o rest) = Tail(sent) \o rest
  <1> DEFINE all == sent \o rest
             M == Len(sent)
             N == Len(rest)
  <1>1. /\ M \in Nat \ {0} /\ N \in Nat /\ all \in Seq(Kind) /\ Len(all) = M + N
        /\ \A i \in 1 .. M + N : all[i] = IF i <= M THEN sent[i] ELSE rest[i - M]
        /\ Tail(sent) \in Seq(Kind) /\ Len(Tail(sent)) = M - 1
        /\ \A i \in 1 .. M - 1 : Tail(sent)[i] = sent[i + 1]
    BY EmptySeq, LenProperties, ConcatProperties, HeadTailProperties
  <1> HIDE DEF all, M, N
  <1>2. all # <<>>
    BY <1>1, EmptySeq
  <1>3. all[1] = sent[1]
    <2>1. 1 \in 1 .. M + N /\ 1 <= M
      BY <1>1
    <2> QED
      BY <1>1, <2>1
  <1>4. /\ Tail(all) \in Seq(Kind) /\ Len(Tail(all)) = (M + N) - 1
        /\ \A i \in 1 .. (M + N) - 1 : Tail(all)[i] = all[i + 1]
    BY <1>1, <1>2, HeadTailProperties
  <1>5. /\ Tail(sent) \o rest \in Seq(Kind) /\ Len(Tail(sent) \o rest) = (M - 1) + N
        /\ \A i \in 1 .. (M - 1) + N :
             (Tail(sent) \o rest)[i] = IF i <= M - 1 THEN Tail(sent)[i] ELSE rest[i - (M - 1)]
    <2>1. PICK less \in Seq(Kind) : less = Tail(sent)
      BY <1>1
    <2>2. Len(less) = M - 1 /\ Len(rest) = N
      BY <1>1, <2>1 DEF N
    <2>3. /\ less \o rest \in Seq(Kind) /\ Len(less \o rest) = Len(less) + Len(rest)
          /\ \A i \in 1 .. Len(less) + Len(rest) :
               (less \o rest)[i] = IF i <= Len(less) THEN less[i] ELSE rest[i - Len(less)]
      BY ConcatProperties
    <2> QED
      BY <2>1, <2>2, <2>3
  <1>6. (M - 1) + N = (M + N) - 1
    BY <1>1
  <1>7. ASSUME NEW i \in 1 .. (M + N) - 1 PROVE Tail(all)[i] = (Tail(sent) \o rest)[i]
    <2>1. i + 1 \in 1 .. M + N /\ (i + 1 <= M <=> i <= M - 1) /\ (i + 1) - M = i - (M - 1)
      BY <1>1
    <2>2. Tail(all)[i] = IF i <= M - 1 THEN sent[i + 1] ELSE rest[i - (M - 1)]
      BY <1>1, <1>4, <2>1
    <2>3. i <= M - 1 => i \in 1 .. M - 1
      BY <1>1
    <2> QED
      BY <1>1, <1>5, <1>6, <2>2, <2>3
  <1>8. Tail(all) = Tail(sent) \o rest
    BY <1>4, <1>5, <1>6, <1>7, SeqEqual
  <1> QED
    BY <1>2, <1>3, <1>8 DEF all

LEMMA ServerDrawsKeeps ==
  ASSUME IInv, ServerDraws
  PROVE  IInv'
  <1>1. /\ wire # <<>> /\ Head(wire) # "leave"
        /\ server' = Handled(server, Head(wire)) /\ wire' = Tail(wire)
        /\ seed' = seed /\ player' = player /\ firing' = firing /\ queue' = queue
        /\ inbox' = inbox /\ hasty' = hasty /\ attacks' = attacks /\ leaves' = leaves
    BY DEF ServerDraws
  <1>2. Types
    BY DEF IInv
  <1>3. wire \in Seq(Kind) /\ queue \in Seq(Kind) /\ server \in Word /\ Underway \in Seq(Kind)
    BY <1>2, TypesFacts, UnderwayFacts
  <1>4. wire' \in Seq(Kind) /\ server' \in Word
    BY <1>1, <1>3, HeadTailProperties, HandledType
  <1>5. Types'
    BY <1>1, <1>2, <1>4, TypesFacts, NextTypes
  <1>6. Due' = Tail(Due) /\ Head(Due) = Head(wire) /\ Due # <<>> /\ Due \in Seq(Kind)
    <2>1. /\ wire \o queue \in Seq(Kind) /\ wire \o queue # <<>>
          /\ Head(wire \o queue) = Head(wire) /\ Tail(wire \o queue) = Tail(wire) \o queue
      BY <1>1, <1>3, TailConcat, ConcatProperties
    <2>2. /\ Due # <<>> /\ Head(Due) = Head(wire) /\ Tail(Due) = (Tail(wire) \o queue) \o Underway
      <3>1. PICK both \in Seq(Kind) : both = wire \o queue
        BY <2>1
      <3>2. /\ both \o Underway # <<>> /\ Head(both \o Underway) = Head(both)
            /\ Tail(both \o Underway) = Tail(both) \o Underway
        BY <1>3, <2>1, <3>1, TailConcat
      <3> QED
        BY <2>1, <3>1, <3>2 DEF Due
    <2>3. Due' = (Tail(wire) \o queue) \o Underway
      BY <1>1 DEF Due, Underway
    <2> QED
      BY <1>2, <2>2, <2>3, UnderwayFacts
  <1>7. Drawn(server, Due) = Drawn(server', Due')
    <2>1. Drawn(server, Due) = Drawn(Handled(server, Head(Due)), Tail(Due))
      BY <1>3, <1>6, DrawnHead
    <2> QED
      BY <1>1, <1>6, <2>1
  <1>8. CASE Present /\ ~hasty
    <2>1. InMap
      BY <1>8 DEF IInv
    <2>2. NoLeave(wire')
      BY <1>1, <1>3, <2>1, NoLeaveTail DEF InMap
    <2>3. seed' = Drawn(server', Due')
      BY <1>1, <1>7, <2>1 DEF InMap
    <2>4. Present' /\ InMap'
      BY <1>1, <1>8, <2>1, <2>2, <2>3 DEF Present, InMap, NoLeave, Drawn, Handled, Draws
    <2> QED
      BY <1>1, <1>5, <1>8, <2>4 DEF IInv
  <1>9. CASE ~Present /\ ~hasty
    <2>1. Between /\ ~Present'
      BY <1>1, <1>9 DEF IInv, Present
    <2>2. CASE NoLeave(wire)
      <3>1. NoLeave(wire')
        BY <1>1, <1>3, <2>2, NoLeaveTail
      <3>2. queue = <<"leave">> /\ inbox = <<>> /\ ~player.known
        <4>1. ~Leaves
          BY <1>3, <2>2, LenProperties DEF Leaves, NoLeave
        <4> QED
          BY <1>1, <2>1, <4>1 DEF Between
      <3> QED
        BY <1>1, <1>5, <1>9, <2>1, <3>1, <3>2 DEF IInv, Between, NoLeave, Still
    <2>3. CASE ~NoLeave(wire)
      <3>1. queue = <<>> /\ Leaves /\ inbox = <<>> /\ ~player.known
        BY <1>1, <2>1, <2>3 DEF Between
      <3>2. Leaves'
        <4>1. /\ Len(wire) \in Nat \ {0} /\ Head(wire) = wire[1] /\ Len(wire') = Len(wire) - 1
              /\ \A i \in 1 .. Len(wire) - 1 : wire'[i] = wire[i + 1]
          BY <1>1, <1>3, EmptySeq, HeadTailProperties
        <4>2. Len(wire) # 1
          BY <1>1, <3>1, <4>1 DEF Leaves
        <4>3. /\ Len(wire) - 1 > 0 /\ Len(wire) - 1 \in 1 .. Len(wire) - 1
              /\ (Len(wire) - 1) + 1 = Len(wire)
              /\ \A i \in 1 .. (Len(wire) - 1) - 1 : i \in 1 .. Len(wire) - 1 /\ i + 1 \in 1 .. Len(wire) - 1
          BY <4>1, <4>2
        <4> QED
          BY <3>1, <4>1, <4>3 DEF Leaves
      <3> QED
        BY <1>1, <1>5, <1>9, <2>1, <3>1, <3>2 DEF IInv, Between, Still
    <2> QED
      BY <2>2, <2>3
  <1> QED
    BY <1>1, <1>5, <1>8, <1>9 DEF IInv

\* A leave at the head of the wire is the last of it.
LEMMA LeaveAtHead ==
  ASSUME IInv, ~hasty, wire # <<>>, Head(wire) = "leave"
  PROVE  ~Present /\ Between /\ queue = <<>> /\ inbox = <<>> /\ ~player.known /\ Tail(wire) = <<>>
  <1>1. Types
    BY DEF IInv
  <1>2. wire \in Seq(Kind)
    BY <1>1, TypesFacts
  <1>3. /\ Len(wire) \in Nat \ {0} /\ Head(wire) = wire[1]
        /\ Tail(wire) \in Seq(Kind) /\ Len(Tail(wire)) = Len(wire) - 1
    BY <1>2, EmptySeq, HeadTailProperties
  <1>4. ~NoLeave(wire)
    BY <1>3 DEF NoLeave
  <1>5. ~Present /\ Between
    BY <1>4 DEF IInv, InMap
  <1>6. queue = <<>> /\ Leaves /\ inbox = <<>> /\ ~player.known
    BY <1>4, <1>5 DEF Between
  <1>7. Len(wire) = 1
    <2>1. ~(1 \in 1 .. Len(wire) - 1)
      BY <1>3, <1>6 DEF Leaves
    <2> QED
      BY <1>3, <2>1
  <1>8. Tail(wire) = <<>>
    <2>1. Len(Tail(wire)) = 0 /\ Tail(wire) \in Seq(Kind)
      BY <1>3, <1>7
    <2>2. \A packets \in Seq(Kind) : packets # <<>> => Len(packets) \in Nat \ {0}
      BY EmptySeq
    <2> QED
      BY <2>1, <2>2
  <1> QED
    BY <1>5, <1>6, <1>8

LEMMA ServerMovesKeeps ==
  ASSUME IInv, NEW s \in Seeds, ServerMoves(s)
  PROVE  IInv'
  <1>1. /\ wire # <<>> /\ Head(wire) = "leave" /\ server' = s /\ wire' = Tail(wire)
        /\ inbox' = inbox \o <<Info(s), Created, Updated>>
        /\ seed' = seed /\ player' = player /\ firing' = firing /\ queue' = queue
        /\ hasty' = hasty /\ attacks' = attacks /\ leaves' = leaves
    BY DEF ServerMoves, Info, Created, Updated
  <1>2. Types
    BY DEF IInv
  <1>3. wire \in Seq(Kind) /\ inbox \in Seq(MapInfo \cup Other)
    BY <1>2, TypesFacts
  <1>4. s \in Word
    BY ShootingAssumption
  <1>5. <<Info(s), Created, Updated>> \in Seq(MapInfo \cup Other)
    <2>1. Info(s) \in MapInfo /\ Created \in Other /\ Updated \in Other
      BY <1>4 DEF Info, Created, Updated, MapInfo, Other
    <2> QED
      BY <2>1
  <1>6. inbox' \in Seq(MapInfo \cup Other) /\ wire' \in Seq(Kind)
    BY <1>1, <1>3, <1>5, ConcatProperties, HeadTailProperties
  <1>7. Types'
    BY <1>1, <1>2, <1>4, <1>6, TypesFacts, NextTypes
  <1>8. ASSUME ~hasty PROVE ~Present' /\ Between'
    <2>1. ~Present /\ Between /\ queue = <<>> /\ inbox = <<>> /\ ~player.known /\ wire' = <<>>
      BY <1>1, <1>8, LeaveAtHead
    <2>2. inbox' = <<Info(s), Created, Updated>>
      BY <1>1, <1>5, <2>1, ConcatEmptySeq
    <2> QED
      BY <1>1, <2>1, <2>2 DEF Present, Between, Still, Info, Created, Updated
  <1> QED
    BY <1>1, <1>7, <1>8 DEF IInv

LEMMA ServerRefusesKeeps ==
  ASSUME IInv, ServerRefuses
  PROVE  IInv'
  <1>1. /\ wire # <<>> /\ Head(wire) = "leave" /\ wire' = Tail(wire)
        /\ seed' = seed /\ player' = player /\ firing' = firing /\ queue' = queue
        /\ inbox' = inbox /\ server' = server
        /\ hasty' = hasty /\ attacks' = attacks /\ leaves' = leaves
    BY DEF ServerRefuses
  <1>2. Types
    BY DEF IInv
  <1>3. wire' \in Seq(Kind)
    BY <1>1, <1>2, TypesFacts, HeadTailProperties
  <1>4. Types'
    BY <1>1, <1>2, <1>3, TypesFacts, NextTypes
  <1>5. ASSUME ~hasty PROVE ~Present' /\ Between'
    <2>1. ~Present /\ Between /\ queue = <<>> /\ inbox = <<>> /\ ~player.known /\ wire' = <<>>
      BY <1>1, <1>5, LeaveAtHead
    <2> QED
      BY <1>1, <2>1 DEF Present, Between, Still
  <1> QED
    BY <1>1, <1>4, <1>5 DEF IInv

-----------------------------------------------------------------------------
LEMMA NextKeeps == IInv /\ [Next]_vars => IInv'
  <1> SUFFICES ASSUME IInv, [Next]_vars PROVE IInv'
    OBVIOUS
  <1>1. CASE Window
    BY <1>1, FrameKeeps, weaponShootKeeps, GroundDamageKeeps, ShotIdKeeps, DamageDrawnKeeps,
       AnnouncedKeeps, useAbilityKeeps, LeaveKeeps DEF Window
  <1>2. CASE Network
    BY <1>2, SendQueuedKeeps, handleMapInfoKeeps, handleCreateSuccessKeeps, handleUpdateKeeps,
       handleNewTickKeeps DEF Network
  <1>3. CASE Server
    BY <1>3, ServerDrawsKeeps, ServerRefusesKeeps, ServerMovesKeeps DEF Server
  <1>4. CASE UNCHANGED vars
    <2>1. /\ seed' = seed /\ player' = player /\ firing' = firing /\ queue' = queue /\ wire' = wire
          /\ inbox' = inbox /\ server' = server /\ hasty' = hasty /\ attacks' = attacks
          /\ leaves' = leaves
      BY <1>4 DEF vars
    <2>2. Types'
      BY <2>1, TypesFacts, NextTypes DEF IInv
    <2>3. Due' = Due
      BY <2>1 DEF Due, Underway
    <2>4. /\ Present' = Present
          /\ InMap => InMap'
          /\ Between => Between'
      BY <2>1, <2>3 DEF Present, InMap, Between, NoLeave, Leaves, Drawn, Handled, Draws,
                        Still, Info, Created, Updated
    <2> QED
      BY <2>1, <2>2, <2>4 DEF IInv
  <1> QED
    BY <1>1, <1>2, <1>3, <1>4 DEF Next

\* Whatever seeds the server deals, however long the queue and the wire grow,
\* and wherever both threads stand: unless the player left a map before it was
\* in it, what client and server draw is the same.
\* (map.zig 945-1027, network.zig 571-605, utils.zig 413-440)
THEOREM AlwaysInStep == Spec => []InStep
  <1>1. IInv => InStep
    BY DEF IInv, InMap, Types, InStep, Due
  <1> QED
    BY <1>1, InitIInv, NextKeeps, PTL DEF Spec

\* In the same case, no draw is made with the seed of another map.
THEOREM AlwaysDrawsFromMap == Spec => []DrawsFromMap
  <1>1. IInv => DrawsFromMap
    <2>1. SUFFICES ASSUME IInv, ~hasty, firing.at = "draw" PROVE firing.loaded = seed
      BY DEF DrawsFromMap
    <2>2. InMap
      BY <2>1, FiringInMap, StillType
    <2> QED
      BY <2>1, <2>2 DEF InMap
  <1> QED
    BY <1>1, InitIInv, NextKeeps, PTL DEF Spec

-----------------------------------------------------------------------------
(* Keys, panels and screens (Controls).                                    *)

Causes == {"rebound", "options", "screen", "paralysed"}
Users == {"frame", "mapper", "field", "options", "chat", "click"}
SwitchLabels == {"drop", "clear", "reset", "enable", "deinit", "destroy", "init"}
WinLabels == SwitchLabels \cup {"idle", "press", "pressed", "release", "state", "click", "join", "last", "closed"}

Screens == [kind : Kinds, id : Nat \ {0}]
Panels == [options : BOOLEAN, basic : BOOLEAN, shown : SUBSET Large]
Inputs == [up : BOOLEAN, disabled : BOOLEAN, field : Nat, mapper : Nat, key : Keys \cup {Nothing}]
Walkers == [here : BOOLEAN, walking : BOOLEAN, paralysed : BOOLEAN]
Counters ==
  [Thread -> [at : WinLabels, what : Keys \cup Elements \cup {Nothing} \cup Nat, to : Kinds \cup {Nothing}]]
Histories ==
  [unseen : SUBSET Causes, opened : BOOLEAN, raced : BOOLEAN, twice : BOOLEAN, both : BOOLEAN,
   dead : SUBSET Users, wrong : SUBSET ({"chat", "click"} \X Kinds), kept : BOOLEAN]

\* What ControlsTypeOK leaves open, in full.
Ranges ==
  /\ screen \in Screens /\ freed \subseteq 1..screen.id /\ panels \in Panels
  /\ input \in Inputs /\ input.field <= screen.id /\ input.mapper <= screen.id
  /\ near \in {Nothing, "vault_chest", "guild_board"}
  /\ walker \in Walkers
  /\ session \in BOOLEAN /\ held \subseteq Keys /\ lock \in Thread \cup {Nothing}
  /\ pc \in Counters
  /\ history \in Histories

\* Where the threads are: the network thread only switches, to the list of
\* characters, and is joined in the end; a key or an element is being handled.
Places ==
  /\ \A t \in Thread : Switching(t) => pc[t].to \in Kinds
  /\ At("net", "idle") \/ (Switching("net") /\ pc["net"].to = "char_select")
  /\ At("win", "last") \/ At("win", "closed") => At("net", "idle")
  /\ \A t \in Thread : At(t, "destroy") => pc[t].what \in 1..screen.id
  /\ At("win", "press") \/ Pressed => pc["win"].what \in Keys
  /\ At("win", "click") => pc["win"].what \in Elements

\* Every switch that has begun, or that an element or the editor's exit will
\* begin, has a number left for its screen.
Pending == Switching("win") \/ At("win", "click")
RoomLeft ==
  /\ screen.id <= MaxScreens + 1
  /\ Pending \/ Switching("net") => screen.id <= MaxScreens
  /\ Pending /\ Switching("net") => screen.id < MaxScreens
  /\ (At("win", "press") \/ Pressed) /\ pc["win"].what = "esc" /\ screen.kind = "editor" => screen.id < MaxScreens

\* Until both threads switch at once, the screen is destroyed between its
\* deinit and its successor's init, and only there is it a destroyed one.
OnceEach ==
  /\ history.twice => history.both
  /\ history.both => history.raced
  /\ ~history.both =>
       /\ \A t \in Thread : At(t, "destroy") => pc[t].what = screen.id /\ screen.id \notin freed
       /\ screen.id \in freed => At("win", "init") \/ At("net", "init") \/ At("win", "closed")

\* The selected mapper and field are of the current screen.
Selected ==
  /\ ~history.raced =>
       \/ input.mapper = 0
       \/ /\ input.mapper = screen.id
          /\ \A t \in Thread : pc[t].at \notin {"deinit", "destroy", "init"}
  /\ At("win", "press") \/ Pressed \/ At("win", "click") \/ Switching("win") => input.field = 0
  /\ ~history.raced /\ ~history.kept => input.field = 0 \/ (input.field = screen.id /\ ~Switching("net"))

\* The screen an event was meant for is still there.
Meant ==
  ~history.raced =>
    /\ Pressed => Playable
    /\ At("win", "click") /\ pc["win"].what \in {"open", "continue", "disconnect"} => screen.kind = "game"

\* Of what was destroyed, only a field was used; screens are not confused.
OnlyFields ==
  ~history.raced =>
    /\ history.dead \subseteq {"field"}
    /\ "field" \in history.dead => history.kept
    /\ history.wrong \subseteq {<<"chat", "editor">>}

\* Why input is off; and a new screen finds it on.
WhyDisabled ==
  /\ ~history.raced =>
       /\ input.disabled => panels.options \/ history.opened
       /\ \A t \in Thread : pc[t].at \in {"deinit", "destroy", "init"} => ~input.disabled
       /\ input.disabled /\ ~panels.options => ~input.up
  /\ Pressed => ~input.disabled

\* The way is on while the key is held, its release is being handled or went
\* unseen; and between two events the player walks only then.
WhyWalking ==
  /\ (At("win", "press") \/ Pressed) /\ pc["win"].what = input.key => input.key \in held
  /\ ~history.raced =>
       /\ input.up =>
            \/ input.key \in held \/ history.unseen \ {"paralysed"} # {}
            \/ At("win", "release") /\ pc["win"].what = input.key
       /\ Ready /\ walker.here /\ walker.walking => input.key \in held \/ history.unseen # {}

ControlsIInv ==
  /\ Ranges /\ Places /\ RoomLeft /\ OnceEach /\ Selected /\ Meant /\ OnlyFields /\ WhyDisabled
  /\ WhyWalking

-----------------------------------------------------------------------------
(* What Noted, Use, Goto and Bound do to a record.                         *)

LEMMA NotedIs ==
  ASSUME history \in Histories
  PROVE  /\ Noted(history) \in Histories
         /\ Noted(history).unseen = history.unseen /\ Noted(history).opened = history.opened
         /\ Noted(history).twice = history.twice /\ Noted(history).dead = history.dead
         /\ Noted(history).wrong = history.wrong /\ Noted(history).kept = history.kept
         /\ Noted(history).raced <=> history.raced \/ (Switching("net") /\ ~Ready)
         /\ Noted(history).both <=> history.both \/ (Switching("net") /\ Switching("win"))
BY DEF Noted, Histories

LEMMA UseIs ==
  ASSUME NEW f \in Histories, NEW what \in Users, NEW id
  PROVE  /\ Use(f, what, id) \in Histories
         /\ Use(f, what, id).unseen = f.unseen /\ Use(f, what, id).opened = f.opened
         /\ Use(f, what, id).twice = f.twice /\ Use(f, what, id).raced = f.raced
         /\ Use(f, what, id).both = f.both
         /\ Use(f, what, id).wrong = f.wrong /\ Use(f, what, id).kept = f.kept
         /\ Use(f, what, id).dead = IF id \in freed THEN f.dead \cup {what} ELSE f.dead
BY DEF Use, Histories

LEMMA GotoIs ==
  ASSUME pc \in Counters, NEW t \in Thread, NEW label \in WinLabels, Goto(t, label)
  PROVE  /\ pc' \in Counters
         /\ pc'[t].at = label /\ pc'[t].what = pc[t].what /\ pc'[t].to = pc[t].to
         /\ \A u \in Thread : u # t => pc'[u] = pc[u]
BY DEF Goto, Counters

LEMMA GotoWithIs ==
  ASSUME pc \in Counters, NEW t \in Thread, NEW label \in WinLabels,
         NEW what \in Keys \cup Elements \cup {Nothing} \cup Nat, GotoWith(t, label, what)
  PROVE  /\ pc' \in Counters
         /\ pc'[t].at = label /\ pc'[t].what = what /\ pc'[t].to = pc[t].to
         /\ \A u \in Thread : u # t => pc'[u] = pc[u]
BY DEF GotoWith, Counters

LEMMA HandleIs ==
  ASSUME pc \in Counters, NEW label \in WinLabels,
         NEW what \in Keys \cup Elements \cup {Nothing} \cup Nat, Handle(label, what)
  PROVE  /\ pc' \in Counters
         /\ pc'["win"].at = label /\ pc'["win"].what = what /\ pc'["net"] = pc["net"]
BY DEF Handle, Counters, Thread

LEMMA BoundIs ==
  ASSUME input \in Inputs, NEW k \in Keys
  PROVE  /\ Bound(input, k) \in Inputs /\ Bound(input, k).mapper = 0
         /\ Bound(input, k).up = input.up /\ Bound(input, k).disabled = input.disabled
         /\ Bound(input, k).field = input.field
         /\ input.mapper = 0 => Bound(input, k).key = input.key
         /\ input.mapper # 0 => Bound(input, k).key = (IF k = "esc" THEN Nothing ELSE k)
BY DEF Bound, Inputs

-----------------------------------------------------------------------------
(* One lemma per action: what it changes, then each part of the invariant. *)

LEMMA DropKeeps ==
  ASSUME ControlsIInv, NEW t \in Thread, Drop(t)
  PROVE  ControlsIInv'
<1> USE ControlsAssumption DEF Thread, Ready, At, Pressed, Switching
<1>1. Ranges /\ history \in Histories /\ pc \in Counters  BY DEF ControlsIInv, Ranges
<1>2. pc[t].at = "drop"  BY <1>1 DEF Drop, Ranges
<1>3. session' \in BOOLEAN
  BY <1>1, <1>2 DEF Drop, Ranges
<1>4. /\ pc' \in Counters /\ pc'[t].at = "clear" /\ pc'[t].what = pc[t].what
      /\ pc'[t].to = pc[t].to /\ (\A u \in Thread : u # t => pc'[u] = pc[u])
  BY <1>1, <1>2, GotoIs, GotoWithIs DEF Drop, Counters, WinLabels, SwitchLabels
<1>5. /\ history' \in Histories /\ history'.unseen = history.unseen
      /\ history'.opened = history.opened
      /\ (history'.raced <=> history.raced \/ (Switching("net") /\ ~Ready))
      /\ history'.twice = history.twice
      /\ (history'.both <=> history.both \/ (Switching("net") /\ Switching("win")))
      /\ history'.dead = history.dead /\ history'.wrong = history.wrong
      /\ history'.kept = history.kept
  BY <1>1, <1>2, NotedIs, UseIs DEF Drop, Histories
<1>6. UNCHANGED <<screen, freed, panels, input, near, walker, held, lock>>  BY DEF Drop
<1>7. Ranges'  BY <1>1, <1>2, <1>3, <1>4, <1>5, <1>6 DEF Ranges, Screens
<1>8. Places'  BY <1>2, <1>3, <1>4, <1>5, <1>6 DEF ControlsIInv, Places
<1>9. RoomLeft'
  BY <1>2, <1>3, <1>4, <1>5, <1>6 DEF ControlsIInv, RoomLeft, Pending, Ranges, Screens
<1>10. OnceEach'  BY <1>2, <1>3, <1>4, <1>5, <1>6 DEF ControlsIInv, OnceEach, Ranges, Places
<1>11. Selected'  BY <1>2, <1>3, <1>4, <1>5, <1>6 DEF ControlsIInv, Selected
<1>12. Meant'  BY <1>2, <1>3, <1>4, <1>5, <1>6 DEF ControlsIInv, Meant, Playable
<1>13. OnlyFields'  BY <1>2, <1>3, <1>4, <1>5, <1>6 DEF ControlsIInv, OnlyFields
<1>14. WhyDisabled'  BY <1>2, <1>3, <1>4, <1>5, <1>6 DEF ControlsIInv, WhyDisabled
<1>15. WhyWalking'  BY <1>2, <1>3, <1>4, <1>5, <1>6 DEF ControlsIInv, WhyWalking
<1> QED  BY <1>7, <1>8, <1>9, <1>10, <1>11, <1>12, <1>13, <1>14, <1>15 DEF ControlsIInv

LEMMA ClearMapKeeps ==
  ASSUME ControlsIInv, NEW t \in Thread, ClearMap(t)
  PROVE  ControlsIInv'
<1> USE ControlsAssumption DEF Thread, Ready, At, Pressed, Switching
<1>1. Ranges /\ history \in Histories /\ pc \in Counters  BY DEF ControlsIInv, Ranges
<1>2. pc[t].at = "clear"  BY <1>1 DEF ClearMap, Ranges
<1>3. near' = Nothing
  BY <1>1, <1>2 DEF ClearMap, Ranges
<1>4. /\ walker' \in Walkers /\ walker'.here = FALSE /\ walker'.walking = walker.walking
      /\ walker'.paralysed = walker.paralysed
  BY <1>1, <1>2 DEF ClearMap, Ranges, Walkers
<1>5. /\ pc' \in Counters /\ pc'[t].at = "reset" /\ pc'[t].what = pc[t].what
      /\ pc'[t].to = pc[t].to /\ (\A u \in Thread : u # t => pc'[u] = pc[u])
  BY <1>1, <1>2, GotoIs, GotoWithIs DEF ClearMap, Counters, WinLabels, SwitchLabels
<1>6. /\ history' \in Histories /\ history'.unseen = history.unseen
      /\ history'.opened = history.opened
      /\ (history'.raced <=> history.raced \/ (Switching("net") /\ ~Ready))
      /\ history'.twice = history.twice
      /\ (history'.both <=> history.both \/ (Switching("net") /\ Switching("win")))
      /\ history'.dead = history.dead /\ history'.wrong = history.wrong
      /\ history'.kept = history.kept
  BY <1>1, <1>2, NotedIs, UseIs DEF ClearMap, Histories
<1>7. UNCHANGED <<screen, freed, panels, input, session, held, lock>>  BY DEF ClearMap
<1>8. Ranges'  BY <1>1, <1>2, <1>3, <1>4, <1>5, <1>6, <1>7 DEF Ranges, Screens
<1>9. Places'  BY <1>2, <1>3, <1>4, <1>5, <1>6, <1>7 DEF ControlsIInv, Places
<1>10. RoomLeft'
  BY <1>2, <1>3, <1>4, <1>5, <1>6, <1>7 DEF ControlsIInv, RoomLeft, Pending, Ranges, Screens
<1>11. OnceEach'
  BY <1>2, <1>3, <1>4, <1>5, <1>6, <1>7 DEF ControlsIInv, OnceEach, Ranges, Places
<1>12. Selected'  BY <1>2, <1>3, <1>4, <1>5, <1>6, <1>7 DEF ControlsIInv, Selected
<1>13. Meant'  BY <1>2, <1>3, <1>4, <1>5, <1>6, <1>7 DEF ControlsIInv, Meant, Playable
<1>14. OnlyFields'  BY <1>2, <1>3, <1>4, <1>5, <1>6, <1>7 DEF ControlsIInv, OnlyFields
<1>15. WhyDisabled'  BY <1>2, <1>3, <1>4, <1>5, <1>6, <1>7 DEF ControlsIInv, WhyDisabled
<1>16. WhyWalking'  BY <1>2, <1>3, <1>4, <1>5, <1>6, <1>7 DEF ControlsIInv, WhyWalking
<1> QED  BY <1>8, <1>9, <1>10, <1>11, <1>12, <1>13, <1>14, <1>15, <1>16 DEF ControlsIInv

LEMMA ResetKeeps ==
  ASSUME ControlsIInv, NEW t \in Thread, Reset(t)
  PROVE  ControlsIInv'
<1> USE ControlsAssumption DEF Thread, Ready, At, Pressed, Switching
<1>1. Ranges /\ history \in Histories /\ pc \in Counters  BY DEF ControlsIInv, Ranges
<1>2. pc[t].at = "reset"  BY <1>1 DEF Reset, reset, Ranges
<1>3. /\ input' \in Inputs /\ input'.up = FALSE /\ input'.disabled = input.disabled
      /\ input'.field = input.field /\ input'.mapper = input.mapper /\ input'.key = input.key
  BY <1>1, <1>2 DEF Reset, reset, Ranges, Inputs
<1>4. /\ pc' \in Counters /\ pc'[t].at = "enable" /\ pc'[t].what = pc[t].what
      /\ pc'[t].to = pc[t].to /\ (\A u \in Thread : u # t => pc'[u] = pc[u])
  BY <1>1, <1>2, GotoIs, GotoWithIs DEF Reset, reset, Counters, WinLabels, SwitchLabels
<1>5. /\ history' \in Histories /\ history'.unseen = history.unseen
      /\ history'.opened = history.opened
      /\ (history'.raced <=> history.raced \/ (Switching("net") /\ ~Ready))
      /\ history'.twice = history.twice
      /\ (history'.both <=> history.both \/ (Switching("net") /\ Switching("win")))
      /\ history'.dead = history.dead /\ history'.wrong = history.wrong
      /\ history'.kept = history.kept
  BY <1>1, <1>2, NotedIs, UseIs DEF Reset, reset, Histories
<1>6. UNCHANGED <<screen, freed, panels, near, walker, session, held, lock>>
  BY DEF Reset, reset
<1>7. Ranges'  BY <1>1, <1>2, <1>3, <1>4, <1>5, <1>6 DEF Ranges, Screens
<1>8. Places'  BY <1>2, <1>3, <1>4, <1>5, <1>6 DEF ControlsIInv, Places
<1>9. RoomLeft'
  BY <1>2, <1>3, <1>4, <1>5, <1>6 DEF ControlsIInv, RoomLeft, Pending, Ranges, Screens
<1>10. OnceEach'  BY <1>2, <1>3, <1>4, <1>5, <1>6 DEF ControlsIInv, OnceEach, Ranges, Places
<1>11. Selected'  BY <1>2, <1>3, <1>4, <1>5, <1>6 DEF ControlsIInv, Selected
<1>12. Meant'  BY <1>2, <1>3, <1>4, <1>5, <1>6 DEF ControlsIInv, Meant, Playable
<1>13. OnlyFields'  BY <1>2, <1>3, <1>4, <1>5, <1>6 DEF ControlsIInv, OnlyFields
<1>14. WhyDisabled'  BY <1>2, <1>3, <1>4, <1>5, <1>6 DEF ControlsIInv, WhyDisabled
<1>15. WhyWalking'  BY <1>2, <1>3, <1>4, <1>5, <1>6 DEF ControlsIInv, WhyWalking
<1> QED  BY <1>7, <1>8, <1>9, <1>10, <1>11, <1>12, <1>13, <1>14, <1>15 DEF ControlsIInv

LEMMA EnableKeeps ==
  ASSUME ControlsIInv, NEW t \in Thread, Enable(t)
  PROVE  ControlsIInv'
<1> USE ControlsAssumption DEF Thread, Ready, At, Pressed, Switching
<1>1. Ranges /\ history \in Histories /\ pc \in Counters  BY DEF ControlsIInv, Ranges
<1>2. pc[t].at = "enable"  BY <1>1 DEF Enable, Ranges
<1>3. /\ input' \in Inputs /\ input'.up = input.up /\ input'.disabled = FALSE
      /\ input'.field = input.field /\ input'.mapper = 0 /\ input'.key = input.key
  BY <1>1, <1>2 DEF Enable, Ranges, Inputs
<1>4. /\ pc' \in Counters /\ pc'[t].at = "deinit" /\ pc'[t].what = pc[t].what
      /\ pc'[t].to = pc[t].to /\ (\A u \in Thread : u # t => pc'[u] = pc[u])
  BY <1>1, <1>2, GotoIs, GotoWithIs DEF Enable, Counters, WinLabels, SwitchLabels
<1>5. /\ history' \in Histories /\ history'.unseen = history.unseen
      /\ history'.opened = history.opened
      /\ (history'.raced <=> history.raced \/ (Switching("net") /\ ~Ready))
      /\ history'.twice = history.twice
      /\ (history'.both <=> history.both \/ (Switching("net") /\ Switching("win")))
      /\ history'.dead = history.dead /\ history'.wrong = history.wrong
      /\ history'.kept = history.kept
  BY <1>1, <1>2, NotedIs, UseIs DEF Enable, Histories
<1>6. UNCHANGED <<screen, freed, panels, near, walker, session, held, lock>>  BY DEF Enable
<1>7. Ranges'  BY <1>1, <1>2, <1>3, <1>4, <1>5, <1>6 DEF Ranges, Screens
<1>8. Places'  BY <1>2, <1>3, <1>4, <1>5, <1>6 DEF ControlsIInv, Places
<1>9. RoomLeft'
  BY <1>2, <1>3, <1>4, <1>5, <1>6 DEF ControlsIInv, RoomLeft, Pending, Ranges, Screens
<1>10. OnceEach'  BY <1>2, <1>3, <1>4, <1>5, <1>6 DEF ControlsIInv, OnceEach, Ranges, Places
<1>11. Selected'  BY <1>2, <1>3, <1>4, <1>5, <1>6 DEF ControlsIInv, Selected
<1>12. Meant'  BY <1>2, <1>3, <1>4, <1>5, <1>6 DEF ControlsIInv, Meant, Playable
<1>13. OnlyFields'  BY <1>2, <1>3, <1>4, <1>5, <1>6 DEF ControlsIInv, OnlyFields
<1>14. WhyDisabled'  BY <1>2, <1>3, <1>4, <1>5, <1>6 DEF ControlsIInv, WhyDisabled
<1>15. WhyWalking'  BY <1>2, <1>3, <1>4, <1>5, <1>6 DEF ControlsIInv, WhyWalking
<1> QED  BY <1>7, <1>8, <1>9, <1>10, <1>11, <1>12, <1>13, <1>14, <1>15 DEF ControlsIInv

LEMMA DeinitKeeps ==
  ASSUME ControlsIInv, NEW t \in Thread, Deinit(t)
  PROVE  ControlsIInv'
<1> USE ControlsAssumption DEF Thread, Ready, At, Pressed, Switching
<1>1. Ranges /\ history \in Histories /\ pc \in Counters  BY DEF ControlsIInv, Ranges
<1>2. pc[t].at = "deinit"  BY <1>1 DEF Deinit, Ranges
<1>3. /\ pc' \in Counters /\ pc'[t].at = "destroy" /\ pc'[t].what = screen.id
      /\ pc'[t].to = pc[t].to /\ (\A u \in Thread : u # t => pc'[u] = pc[u])
  BY <1>1, <1>2, GotoIs, GotoWithIs
     DEF Deinit, Counters, WinLabels, SwitchLabels, Ranges, Screens
<1>4. lock' \in Thread \cup {Nothing}
  BY <1>1, <1>2 DEF Deinit, Ranges
<1>5. /\ history' \in Histories /\ history'.unseen = history.unseen
      /\ history'.opened = history.opened
      /\ (history'.raced <=> history.raced \/ (Switching("net") /\ ~Ready))
      /\ history'.twice = history.twice
      /\ (history'.both <=> history.both \/ (Switching("net") /\ Switching("win")))
      /\ history'.dead = history.dead /\ history'.wrong = history.wrong
      /\ history'.kept = history.kept
  BY <1>1, <1>2, NotedIs, UseIs DEF Deinit, Histories
<1>6. UNCHANGED <<screen, freed, panels, input, near, walker, session, held>>  BY DEF Deinit
<1>7. Ranges'  BY <1>1, <1>2, <1>3, <1>4, <1>5, <1>6 DEF Ranges, Screens
<1>8. Places'  BY <1>2, <1>3, <1>4, <1>5, <1>6 DEF ControlsIInv, Places, Ranges, Screens
<1>9. RoomLeft'
  BY <1>2, <1>3, <1>4, <1>5, <1>6 DEF ControlsIInv, RoomLeft, Pending, Ranges, Screens
<1>10. OnceEach'  BY <1>2, <1>3, <1>4, <1>5, <1>6 DEF ControlsIInv, OnceEach, Ranges, Places
<1>11. Selected'  BY <1>2, <1>3, <1>4, <1>5, <1>6 DEF ControlsIInv, Selected
<1>12. Meant'  BY <1>2, <1>3, <1>4, <1>5, <1>6 DEF ControlsIInv, Meant, Playable
<1>13. OnlyFields'  BY <1>2, <1>3, <1>4, <1>5, <1>6 DEF ControlsIInv, OnlyFields
<1>14. WhyDisabled'  BY <1>2, <1>3, <1>4, <1>5, <1>6 DEF ControlsIInv, WhyDisabled
<1>15. WhyWalking'  BY <1>2, <1>3, <1>4, <1>5, <1>6 DEF ControlsIInv, WhyWalking
<1> QED  BY <1>7, <1>8, <1>9, <1>10, <1>11, <1>12, <1>13, <1>14, <1>15 DEF ControlsIInv

LEMMA DestroyKeeps ==
  ASSUME ControlsIInv, NEW t \in Thread, Destroy(t)
  PROVE  ControlsIInv'
<1> USE ControlsAssumption DEF Thread, Ready, At, Pressed, Switching
<1>1. Ranges /\ history \in Histories /\ pc \in Counters  BY DEF ControlsIInv, Ranges
<1>2. pc[t].at = "destroy"  BY <1>1 DEF Destroy, Ranges
<1>3. freed' = freed \cup {pc[t].what}
  BY <1>1, <1>2 DEF Destroy, Ranges
<1>4. /\ pc' \in Counters /\ pc'[t].at = "init" /\ pc'[t].what = Nothing /\ pc'[t].to = pc[t].to
      /\ (\A u \in Thread : u # t => pc'[u] = pc[u])
  BY <1>1, <1>2, GotoIs, GotoWithIs DEF Destroy, Counters, WinLabels, SwitchLabels, Nothing
<1>5. lock' \in Thread \cup {Nothing}
  BY <1>1, <1>2 DEF Destroy, Ranges
<1>6. history' = [Noted(history) EXCEPT !.twice = Noted(history).twice \/ pc[t].what \in freed]
  BY DEF Destroy
<1>7. /\ history' \in Histories /\ history'.unseen = history.unseen
      /\ history'.opened = history.opened
      /\ (history'.raced <=> history.raced \/ (Switching("net") /\ ~Ready))
      /\ (history'.twice <=> (history.twice \/ pc[t].what \in freed))
      /\ (history'.both <=> history.both \/ (Switching("net") /\ Switching("win")))
      /\ history'.dead = history.dead /\ history'.wrong = history.wrong
      /\ history'.kept = history.kept
  BY <1>1, <1>6, NotedIs, UseIs DEF Histories
<1>8. UNCHANGED <<screen, panels, input, near, walker, session, held>>  BY DEF Destroy
<1>9. Ranges'
  BY <1>1, <1>2, <1>3, <1>4, <1>5, <1>6, <1>7, <1>8
     DEF ControlsIInv, Ranges, Screens, Places
<1>10. Places'  BY <1>2, <1>3, <1>4, <1>5, <1>6, <1>7, <1>8 DEF ControlsIInv, Places
<1>11. RoomLeft'
  BY <1>2, <1>3, <1>4, <1>5, <1>6, <1>7, <1>8
     DEF ControlsIInv, RoomLeft, Pending, Ranges, Screens
<1>12. OnceEach'
  BY <1>2, <1>3, <1>4, <1>5, <1>6, <1>7, <1>8 DEF ControlsIInv, OnceEach, Ranges, Places
<1>13. Selected'  BY <1>2, <1>3, <1>4, <1>5, <1>6, <1>7, <1>8 DEF ControlsIInv, Selected
<1>14. Meant'  BY <1>2, <1>3, <1>4, <1>5, <1>6, <1>7, <1>8 DEF ControlsIInv, Meant, Playable
<1>15. OnlyFields'  BY <1>2, <1>3, <1>4, <1>5, <1>6, <1>7, <1>8 DEF ControlsIInv, OnlyFields
<1>16. WhyDisabled'
  BY <1>2, <1>3, <1>4, <1>5, <1>6, <1>7, <1>8 DEF ControlsIInv, WhyDisabled
<1>17. WhyWalking'  BY <1>2, <1>3, <1>4, <1>5, <1>6, <1>7, <1>8 DEF ControlsIInv, WhyWalking
<1> QED  BY <1>9, <1>10, <1>11, <1>12, <1>13, <1>14, <1>15, <1>16, <1>17 DEF ControlsIInv

LEMMA InitScreenKeeps ==
  ASSUME ControlsIInv, NEW t \in Thread, InitScreen(t)
  PROVE  ControlsIInv'
<1> USE ControlsAssumption DEF Thread, Ready, At, Pressed, Switching
<1>1. Ranges /\ history \in Histories /\ pc \in Counters  BY DEF ControlsIInv, Ranges
<1>2. pc[t].at = "init"  BY <1>1 DEF InitScreen, NewScreen, Hidden, Idle, Ranges
<1>3. pc[t].to \in Kinds  BY <1>2 DEF ControlsIInv, Places, SwitchLabels
<1>4. /\ screen' \in Screens /\ screen'.id = screen.id + 1 /\ screen'.kind = pc[t].to
      /\ screen.id \in Nat
  BY <1>1, <1>2, <1>3 DEF InitScreen, NewScreen, Hidden, Idle, Ranges, Screens
<1>5. /\ panels' \in Panels /\ panels'.options = FALSE
  BY <1>1, <1>2, <1>3 DEF InitScreen, NewScreen, Hidden, Idle, Ranges, Panels
<1>6. /\ pc' \in Counters /\ (t = "win" => pc'["win"].at = "state" /\ pc'["net"] = pc["net"])
      /\ (t = "net" => pc'["net"].at = "idle" /\ pc'["win"] = pc["win"])
  BY <1>1, <1>2, <1>3, GotoIs, GotoWithIs
     DEF InitScreen, NewScreen, Hidden, Idle, Counters, WinLabels, SwitchLabels
<1>7. /\ history' \in Histories /\ history'.unseen = history.unseen /\ history'.opened = FALSE
      /\ (history'.raced <=> history.raced \/ (Switching("net") /\ ~Ready))
      /\ history'.twice = history.twice
      /\ (history'.both <=> history.both \/ (Switching("net") /\ Switching("win")))
      /\ history'.dead = history.dead /\ history'.wrong = history.wrong
      /\ history'.kept = history.kept
  BY <1>1, <1>2, <1>3, NotedIs, UseIs DEF InitScreen, NewScreen, Hidden, Idle, Histories
<1>8. UNCHANGED <<freed, input, near, walker, session, held, lock>>
  BY DEF InitScreen, NewScreen, Hidden, Idle
<1>9. Ranges'  BY <1>1, <1>2, <1>3, <1>4, <1>5, <1>6, <1>7, <1>8 DEF Ranges, Screens, Inputs
<1>10. Places'  BY <1>2, <1>3, <1>4, <1>5, <1>6, <1>7, <1>8 DEF ControlsIInv, Places
<1>11. RoomLeft'
  BY <1>2, <1>3, <1>4, <1>5, <1>6, <1>7, <1>8
     DEF ControlsIInv, RoomLeft, Pending, Ranges, Screens, Places
<1>12. OnceEach'
  BY <1>2, <1>3, <1>4, <1>5, <1>6, <1>7, <1>8 DEF ControlsIInv, OnceEach, Ranges, Places
<1>13. Selected'  BY <1>2, <1>3, <1>4, <1>5, <1>6, <1>7, <1>8 DEF ControlsIInv, Selected
<1>14. Meant'  BY <1>2, <1>3, <1>4, <1>5, <1>6, <1>7, <1>8 DEF ControlsIInv, Meant, Playable
<1>15. OnlyFields'  BY <1>2, <1>3, <1>4, <1>5, <1>6, <1>7, <1>8 DEF ControlsIInv, OnlyFields
<1>16. WhyDisabled'
  BY <1>2, <1>3, <1>4, <1>5, <1>6, <1>7, <1>8 DEF ControlsIInv, WhyDisabled
<1>17. WhyWalking'  BY <1>2, <1>3, <1>4, <1>5, <1>6, <1>7, <1>8 DEF ControlsIInv, WhyWalking
<1> QED  BY <1>9, <1>10, <1>11, <1>12, <1>13, <1>14, <1>15, <1>16, <1>17 DEF ControlsIInv

LEMMA disconnectKeeps ==
  ASSUME ControlsIInv, disconnect
  PROVE  ControlsIInv'
<1> USE ControlsAssumption DEF Thread, Ready, At, Pressed, Switching
<1>1. Ranges /\ history \in Histories /\ pc \in Counters  BY DEF ControlsIInv, Ranges
<1>2. /\ pc["net"].at = "idle" /\ screen.id < MaxScreens
      /\ pc["win"].at # "last" /\ pc["win"].at # "closed"  BY <1>1
         DEF disconnect, Receives, Ranges
<1>3. /\ pc' \in Counters /\ pc'["net"].at = "drop" /\ pc'["net"].to = "char_select"
      /\ pc'["win"] = pc["win"]
  BY <1>1, <1>2, GotoIs, GotoWithIs
     DEF disconnect, Receives, Counters, WinLabels, SwitchLabels, Kinds
<1>4. history' = [history EXCEPT !.raced = (history.raced \/ ~Ready), !.kept = (history.kept \/ input.field # 0)]
  BY DEF disconnect, Receives
<1>5. /\ history' \in Histories /\ history'.unseen = history.unseen
      /\ history'.opened = history.opened /\ (history'.raced <=> (history.raced \/ ~Ready))
      /\ history'.twice = history.twice /\ history'.both = history.both
      /\ history'.dead = history.dead /\ history'.wrong = history.wrong
      /\ (history'.kept <=> (history.kept \/ input.field # 0))
  <2> DEFINE r == history.raced \/ ~Ready  k == history.kept \/ input.field # 0
  <2>1. history' = [history EXCEPT !.raced = r, !.kept = k]  BY <1>4
  <2>2. r \in BOOLEAN /\ k \in BOOLEAN  OBVIOUS
  <2> HIDE DEF r, k
  <2>3. /\ history' \in Histories /\ history'.unseen = history.unseen
        /\ history'.opened = history.opened /\ history'.raced = r
        /\ history'.twice = history.twice /\ history'.both = history.both
        /\ history'.dead = history.dead /\ history'.wrong = history.wrong /\ history'.kept = k
    BY <1>1, <2>1, <2>2 DEF Histories
  <2> QED  BY <2>3 DEF r, k
<1>6. UNCHANGED <<screen, freed, panels, input, near, walker, session, held, lock>>
  BY DEF disconnect, Receives
<1>7. Ranges'  BY <1>1, <1>2, <1>3, <1>4, <1>5, <1>6 DEF Ranges, Screens
<1>8. Places'  BY <1>2, <1>3, <1>4, <1>5, <1>6 DEF ControlsIInv, Places, Kinds
<1>9. RoomLeft'
  BY <1>2, <1>3, <1>4, <1>5, <1>6 DEF ControlsIInv, RoomLeft, Pending, Ranges, Screens
<1>10. OnceEach'  BY <1>2, <1>3, <1>4, <1>5, <1>6 DEF ControlsIInv, OnceEach, Ranges, Places
<1>11. Selected'  BY <1>2, <1>3, <1>4, <1>5, <1>6 DEF ControlsIInv, Selected
<1>12. Meant'  BY <1>2, <1>3, <1>4, <1>5, <1>6 DEF ControlsIInv, Meant, Playable
<1>13. OnlyFields'  BY <1>2, <1>3, <1>4, <1>5, <1>6 DEF ControlsIInv, OnlyFields
<1>14. WhyDisabled'  BY <1>2, <1>3, <1>4, <1>5, <1>6 DEF ControlsIInv, WhyDisabled
<1>15. WhyWalking'  BY <1>2, <1>3, <1>4, <1>5, <1>6 DEF ControlsIInv, WhyWalking
<1> QED  BY <1>7, <1>8, <1>9, <1>10, <1>11, <1>12, <1>13, <1>14, <1>15 DEF ControlsIInv

LEMMA PanelFrameKeeps ==
  ASSUME ControlsIInv, PanelFrame
  PROVE  ControlsIInv'
<1> USE ControlsAssumption DEF Thread, Ready, At, Pressed, Switching
<1>1. Ranges /\ history \in Histories /\ pc \in Counters  BY DEF ControlsIInv, Ranges
<1>2. pc["win"].at = "idle" /\ screen.kind = "game"
  BY <1>1 DEF PanelFrame, hidePanels, Ranges
<1>3. PICK f : f = [history EXCEPT !.raced = (history.raced \/ Switching("net"))]  OBVIOUS
<1>f. /\ f \in Histories /\ (f.raced <=> history.raced \/ Switching("net"))
      /\ f.unseen = history.unseen /\ f.opened = history.opened /\ f.twice = history.twice
      /\ f.both = history.both /\ f.dead = history.dead /\ f.wrong = history.wrong /\ f.kept = history.kept
  BY <1>1, <1>3 DEF Histories
<1>g. history' = Use(f, "frame", screen.id)  BY <1>3 DEF PanelFrame
<1>h. /\ history' \in Histories /\ history'.unseen = f.unseen /\ history'.opened = f.opened
      /\ history'.twice = f.twice /\ history'.raced = f.raced /\ history'.both = f.both
      /\ history'.wrong = f.wrong /\ history'.kept = f.kept
      /\ history'.dead = (IF screen.id \in freed THEN f.dead \cup {"frame"} ELSE f.dead)
  BY <1>f, <1>g, UseIs, ZenonT(60) DEF Users
<1>4. /\ panels' \in Panels /\ panels'.options = panels.options
  BY <1>1, <1>2, <1>3 DEF PanelFrame, hidePanels, Ranges, Panels
<1>5. /\ history' \in Histories /\ history'.unseen = history.unseen
      /\ history'.opened = history.opened /\ history'.twice = history.twice
      /\ history'.both = history.both /\ history'.wrong = history.wrong
      /\ history'.kept = history.kept /\ (history'.raced <=> history.raced \/ Switching("net"))
      /\ history'.dead = IF screen.id \in freed THEN history.dead \cup {"frame"} ELSE history.dead
  BY <1>f, <1>h, UseIs DEF PanelFrame
<1>6. UNCHANGED <<screen, freed, input, near, walker, session, held, pc, lock>>
  BY DEF PanelFrame, hidePanels
<1>7. Ranges'  BY <1>1, <1>2, <1>3, <1>4, <1>5, <1>6 DEF Ranges, Screens
<1>8. Places'  BY <1>2, <1>3, <1>4, <1>5, <1>6 DEF ControlsIInv, Places
<1>9. RoomLeft'
  BY <1>2, <1>3, <1>4, <1>5, <1>6 DEF ControlsIInv, RoomLeft, Pending, Ranges, Screens
<1>10. OnceEach'  BY <1>2, <1>3, <1>4, <1>5, <1>6 DEF ControlsIInv, OnceEach, Ranges, Places
<1>11. Selected'  BY <1>2, <1>3, <1>4, <1>5, <1>6 DEF ControlsIInv, Selected
<1>12. Meant'  BY <1>2, <1>3, <1>4, <1>5, <1>6 DEF ControlsIInv, Meant, Playable
<1>13. OnlyFields'  BY <1>2, <1>3, <1>4, <1>5, <1>6 DEF ControlsIInv, OnlyFields, OnceEach
<1>14. WhyDisabled'  BY <1>2, <1>3, <1>4, <1>5, <1>6 DEF ControlsIInv, WhyDisabled
<1>15. WhyWalking'  BY <1>2, <1>3, <1>4, <1>5, <1>6 DEF ControlsIInv, WhyWalking
<1> QED  BY <1>7, <1>8, <1>9, <1>10, <1>11, <1>12, <1>13, <1>14, <1>15 DEF ControlsIInv

LEMMA PressIgnoredKeeps ==
  ASSUME ControlsIInv, PressIgnored
  PROVE  ControlsIInv'
<1> USE ControlsAssumption DEF Thread, Ready, At, Pressed, Switching
<1>1. Ranges /\ history \in Histories /\ pc \in Counters  BY DEF ControlsIInv, Ranges
<1>2. pc["win"].at = "press"  BY <1>1 DEF PressIgnored, Ranges
<1>3. /\ pc' \in Counters /\ pc'["win"].at = "state" /\ pc'["win"].what = pc["win"].what
      /\ pc'["win"].to = pc["win"].to /\ pc'["net"] = pc["net"]
  BY <1>1, <1>2, GotoIs, GotoWithIs DEF PressIgnored, Counters, WinLabels, SwitchLabels
<1>4. /\ history' \in Histories /\ history'.unseen = history.unseen
      /\ history'.opened = history.opened
      /\ (history'.raced <=> history.raced \/ (Switching("net") /\ ~Ready))
      /\ history'.twice = history.twice
      /\ (history'.both <=> history.both \/ (Switching("net") /\ Switching("win")))
      /\ history'.dead = history.dead /\ history'.wrong = history.wrong
      /\ history'.kept = history.kept
  BY <1>1, <1>2, NotedIs, UseIs DEF PressIgnored, Histories
<1>5. UNCHANGED <<screen, freed, panels, input, near, walker, session, held, lock>>
  BY DEF PressIgnored
<1>6. Ranges'  BY <1>1, <1>2, <1>3, <1>4, <1>5 DEF Ranges, Screens
<1>7. Places'  BY <1>2, <1>3, <1>4, <1>5 DEF ControlsIInv, Places
<1>8. RoomLeft'
  BY <1>2, <1>3, <1>4, <1>5 DEF ControlsIInv, RoomLeft, Pending, Ranges, Screens
<1>9. OnceEach'  BY <1>2, <1>3, <1>4, <1>5 DEF ControlsIInv, OnceEach, Ranges, Places
<1>10. Selected'  BY <1>2, <1>3, <1>4, <1>5 DEF ControlsIInv, Selected
<1>11. Meant'  BY <1>2, <1>3, <1>4, <1>5 DEF ControlsIInv, Meant, Playable
<1>12. OnlyFields'  BY <1>2, <1>3, <1>4, <1>5 DEF ControlsIInv, OnlyFields
<1>13. WhyDisabled'  BY <1>2, <1>3, <1>4, <1>5 DEF ControlsIInv, WhyDisabled
<1>14. WhyWalking'  BY <1>2, <1>3, <1>4, <1>5 DEF ControlsIInv, WhyWalking
<1> QED  BY <1>6, <1>7, <1>8, <1>9, <1>10, <1>11, <1>12, <1>13, <1>14 DEF ControlsIInv

LEMMA PressTakenKeeps ==
  ASSUME ControlsIInv, PressTaken
  PROVE  ControlsIInv'
<1> USE ControlsAssumption DEF Thread, Ready, At, Pressed, Switching
<1>1. Ranges /\ history \in Histories /\ pc \in Counters  BY DEF ControlsIInv, Ranges
<1>2. pc["win"].at = "press" /\ Playable /\ ~input.disabled
  BY <1>1 DEF PressTaken, Ignored, Ranges
<1>3. /\ pc' \in Counters /\ pc'["win"].at = "pressed" /\ pc'["win"].what = pc["win"].what
      /\ pc'["win"].to = pc["win"].to /\ pc'["net"] = pc["net"]
  BY <1>1, <1>2, GotoIs, GotoWithIs
     DEF PressTaken, Ignored, Counters, WinLabels, SwitchLabels
<1>4. /\ history' \in Histories /\ history'.unseen = history.unseen
      /\ history'.opened = history.opened
      /\ (history'.raced <=> history.raced \/ (Switching("net") /\ ~Ready))
      /\ history'.twice = history.twice
      /\ (history'.both <=> history.both \/ (Switching("net") /\ Switching("win")))
      /\ history'.dead = history.dead /\ history'.wrong = history.wrong
      /\ history'.kept = history.kept
  BY <1>1, <1>2, NotedIs, UseIs DEF PressTaken, Ignored, Histories
<1>5. UNCHANGED <<screen, freed, panels, input, near, walker, session, held, lock>>
  BY DEF PressTaken, Ignored
<1>6. Ranges'  BY <1>1, <1>2, <1>3, <1>4, <1>5 DEF Ranges, Screens
<1>7. Places'  BY <1>2, <1>3, <1>4, <1>5 DEF ControlsIInv, Places
<1>8. RoomLeft'
  BY <1>2, <1>3, <1>4, <1>5 DEF ControlsIInv, RoomLeft, Pending, Ranges, Screens
<1>9. OnceEach'  BY <1>2, <1>3, <1>4, <1>5 DEF ControlsIInv, OnceEach, Ranges, Places
<1>10. Selected'  BY <1>2, <1>3, <1>4, <1>5 DEF ControlsIInv, Selected
<1>11. Meant'  BY <1>2, <1>3, <1>4, <1>5 DEF ControlsIInv, Meant, Playable
<1>12. OnlyFields'  BY <1>2, <1>3, <1>4, <1>5 DEF ControlsIInv, OnlyFields
<1>13. WhyDisabled'  BY <1>2, <1>3, <1>4, <1>5 DEF ControlsIInv, WhyDisabled
<1>14. WhyWalking'  BY <1>2, <1>3, <1>4, <1>5 DEF ControlsIInv, WhyWalking
<1> QED  BY <1>6, <1>7, <1>8, <1>9, <1>10, <1>11, <1>12, <1>13, <1>14 DEF ControlsIInv

LEMMA MoveUpKeeps ==
  ASSUME ControlsIInv, MoveUp
  PROVE  ControlsIInv'
<1> USE ControlsAssumption DEF Thread, Ready, At, Pressed, Switching
<1>1. Ranges /\ history \in Histories /\ pc \in Counters  BY DEF ControlsIInv, Ranges
<1>2. pc["win"].at = "pressed" /\ pc["win"].what = input.key  BY <1>1 DEF MoveUp, Ranges
<1>3. /\ input' \in Inputs /\ input'.up = TRUE /\ input'.disabled = input.disabled
      /\ input'.field = input.field /\ input'.mapper = input.mapper /\ input'.key = input.key
  BY <1>1, <1>2 DEF MoveUp, Ranges, Inputs
<1>4. /\ pc' \in Counters /\ pc'["win"].at = "state" /\ pc'["win"].what = pc["win"].what
      /\ pc'["win"].to = pc["win"].to /\ pc'["net"] = pc["net"]
  BY <1>1, <1>2, GotoIs, GotoWithIs DEF MoveUp, Counters, WinLabels, SwitchLabels
<1>5. /\ history' \in Histories /\ history'.unseen = history.unseen
      /\ history'.opened = history.opened
      /\ (history'.raced <=> history.raced \/ (Switching("net") /\ ~Ready))
      /\ history'.twice = history.twice
      /\ (history'.both <=> history.both \/ (Switching("net") /\ Switching("win")))
      /\ history'.dead = history.dead /\ history'.wrong = history.wrong
      /\ history'.kept = history.kept
  BY <1>1, <1>2, NotedIs, UseIs DEF MoveUp, Histories
<1>6. UNCHANGED <<screen, freed, panels, near, walker, session, held, lock>>  BY DEF MoveUp
<1>7. Ranges'  BY <1>1, <1>2, <1>3, <1>4, <1>5, <1>6 DEF Ranges, Screens
<1>8. Places'  BY <1>2, <1>3, <1>4, <1>5, <1>6 DEF ControlsIInv, Places
<1>9. RoomLeft'
  BY <1>2, <1>3, <1>4, <1>5, <1>6 DEF ControlsIInv, RoomLeft, Pending, Ranges, Screens
<1>10. OnceEach'  BY <1>2, <1>3, <1>4, <1>5, <1>6 DEF ControlsIInv, OnceEach, Ranges, Places
<1>11. Selected'  BY <1>2, <1>3, <1>4, <1>5, <1>6 DEF ControlsIInv, Selected
<1>12. Meant'  BY <1>2, <1>3, <1>4, <1>5, <1>6 DEF ControlsIInv, Meant, Playable
<1>13. OnlyFields'  BY <1>2, <1>3, <1>4, <1>5, <1>6 DEF ControlsIInv, OnlyFields
<1>14. WhyDisabled'  BY <1>2, <1>3, <1>4, <1>5, <1>6 DEF ControlsIInv, WhyDisabled
<1>15. WhyWalking'  BY <1>2, <1>3, <1>4, <1>5, <1>6 DEF ControlsIInv, WhyWalking
<1> QED  BY <1>7, <1>8, <1>9, <1>10, <1>11, <1>12, <1>13, <1>14, <1>15 DEF ControlsIInv

LEMMA PressOtherKeeps ==
  ASSUME ControlsIInv, PressOther
  PROVE  ControlsIInv'
<1> USE ControlsAssumption DEF Thread, Ready, At, Pressed, Switching
<1>1. Ranges /\ history \in Histories /\ pc \in Counters  BY DEF ControlsIInv, Ranges
<1>2. pc["win"].at = "pressed"  BY <1>1 DEF PressOther, Ranges
<1>3. /\ pc' \in Counters /\ pc'["win"].at = "state" /\ pc'["win"].what = pc["win"].what
      /\ pc'["win"].to = pc["win"].to /\ pc'["net"] = pc["net"]
  BY <1>1, <1>2, GotoIs, GotoWithIs DEF PressOther, Counters, WinLabels, SwitchLabels
<1>4. /\ history' \in Histories /\ history'.unseen = history.unseen
      /\ history'.opened = history.opened
      /\ (history'.raced <=> history.raced \/ (Switching("net") /\ ~Ready))
      /\ history'.twice = history.twice
      /\ (history'.both <=> history.both \/ (Switching("net") /\ Switching("win")))
      /\ history'.dead = history.dead /\ history'.wrong = history.wrong
      /\ history'.kept = history.kept
  BY <1>1, <1>2, NotedIs, UseIs DEF PressOther, Histories
<1>5. UNCHANGED <<screen, freed, panels, input, near, walker, session, held, lock>>
  BY DEF PressOther
<1>6. Ranges'  BY <1>1, <1>2, <1>3, <1>4, <1>5 DEF Ranges, Screens
<1>7. Places'  BY <1>2, <1>3, <1>4, <1>5 DEF ControlsIInv, Places
<1>8. RoomLeft'
  BY <1>2, <1>3, <1>4, <1>5 DEF ControlsIInv, RoomLeft, Pending, Ranges, Screens
<1>9. OnceEach'  BY <1>2, <1>3, <1>4, <1>5 DEF ControlsIInv, OnceEach, Ranges, Places
<1>10. Selected'  BY <1>2, <1>3, <1>4, <1>5 DEF ControlsIInv, Selected
<1>11. Meant'  BY <1>2, <1>3, <1>4, <1>5 DEF ControlsIInv, Meant, Playable
<1>12. OnlyFields'  BY <1>2, <1>3, <1>4, <1>5 DEF ControlsIInv, OnlyFields
<1>13. WhyDisabled'  BY <1>2, <1>3, <1>4, <1>5 DEF ControlsIInv, WhyDisabled
<1>14. WhyWalking'  BY <1>2, <1>3, <1>4, <1>5 DEF ControlsIInv, WhyWalking
<1> QED  BY <1>6, <1>7, <1>8, <1>9, <1>10, <1>11, <1>12, <1>13, <1>14 DEF ControlsIInv

LEMMA ReleaseIgnoredKeeps ==
  ASSUME ControlsIInv, ReleaseIgnored
  PROVE  ControlsIInv'
<1> USE ControlsAssumption DEF Thread, Ready, At, Pressed, Switching
<1>1. Ranges /\ history \in Histories /\ pc \in Counters  BY DEF ControlsIInv, Ranges
<1>2. pc["win"].at = "release" /\ Ignored  BY <1>1 DEF ReleaseIgnored, Blind, Ranges
<1>3. /\ pc' \in Counters /\ pc'["win"].at = "state" /\ pc'["win"].what = pc["win"].what
      /\ pc'["win"].to = pc["win"].to /\ pc'["net"] = pc["net"]
  BY <1>1, <1>2, GotoIs, GotoWithIs
     DEF ReleaseIgnored, Blind, Counters, WinLabels, SwitchLabels
<1>f. PICK f : f = Noted(history)  OBVIOUS
<1>g. /\ f \in Histories /\ f.unseen = history.unseen /\ f.opened = history.opened
      /\ f.twice = history.twice /\ f.dead = history.dead /\ f.wrong = history.wrong
      /\ f.kept = history.kept /\ (f.raced <=> history.raced \/ (Switching("net") /\ ~Ready))
      /\ (f.both <=> history.both \/ (Switching("net") /\ Switching("win")))
  BY <1>1, <1>f, NotedIs
<1>h. history' = [f EXCEPT !.unseen = (IF pc["win"].what = input.key THEN Blind ELSE f.unseen)]
  BY <1>f DEF ReleaseIgnored, Blind
<1>i. /\ history' \in Histories
      /\ history'.unseen = (IF pc["win"].what = input.key THEN Blind ELSE f.unseen)
      /\ history'.opened = f.opened /\ history'.raced = f.raced /\ history'.twice = f.twice
      /\ history'.both = f.both /\ history'.dead = f.dead /\ history'.wrong = f.wrong
      /\ history'.kept = f.kept
  BY <1>1, <1>2, <1>g, <1>h DEF Histories, Blind, Causes
<1>4. /\ history' \in Histories
      /\ history'.unseen = (IF pc["win"].what = input.key THEN Blind ELSE history.unseen)
      /\ history'.opened = history.opened
      /\ (history'.raced <=> history.raced \/ (Switching("net") /\ ~Ready))
      /\ history'.twice = history.twice
      /\ (history'.both <=> history.both \/ (Switching("net") /\ Switching("win")))
      /\ history'.dead = history.dead /\ history'.wrong = history.wrong
      /\ history'.kept = history.kept
  BY <1>g, <1>i
<1>5. UNCHANGED <<screen, freed, panels, input, near, walker, session, held, lock>>
  BY DEF ReleaseIgnored, Blind
<1>6. Ranges'  BY <1>1, <1>2, <1>3, <1>4, <1>5 DEF Ranges, Screens
<1>7. Places'  BY <1>2, <1>3, <1>4, <1>5 DEF ControlsIInv, Places
<1>8. RoomLeft'
  BY <1>2, <1>3, <1>4, <1>5 DEF ControlsIInv, RoomLeft, Pending, Ranges, Screens
<1>9. OnceEach'  BY <1>2, <1>3, <1>4, <1>5 DEF ControlsIInv, OnceEach, Ranges, Places
<1>10. Selected'  BY <1>2, <1>3, <1>4, <1>5 DEF ControlsIInv, Selected
<1>11. Meant'  BY <1>2, <1>3, <1>4, <1>5 DEF ControlsIInv, Meant, Playable
<1>12. OnlyFields'  BY <1>2, <1>3, <1>4, <1>5 DEF ControlsIInv, OnlyFields
<1>13. WhyDisabled'  BY <1>2, <1>3, <1>4, <1>5 DEF ControlsIInv, WhyDisabled
<1>14. WhyWalking'
  BY <1>2, <1>3, <1>4, <1>5 DEF ControlsIInv, WhyWalking, WhyDisabled, Blind, Ignored
<1> QED  BY <1>6, <1>7, <1>8, <1>9, <1>10, <1>11, <1>12, <1>13, <1>14 DEF ControlsIInv

LEMMA ReleaseTakenKeeps ==
  ASSUME ControlsIInv, ReleaseTaken
  PROVE  ControlsIInv'
<1> USE ControlsAssumption DEF Thread, Ready, At, Pressed, Switching
<1>1. Ranges /\ history \in Histories /\ pc \in Counters  BY DEF ControlsIInv, Ranges
<1>2. pc["win"].at = "release"  BY <1>1 DEF ReleaseTaken, Blind, Ranges
<1>3. /\ input' \in Inputs /\ input'.up = (IF pc["win"].what = input.key THEN FALSE ELSE input.up)
      /\ input'.disabled = input.disabled /\ input'.field = input.field
      /\ input'.mapper = input.mapper /\ input'.key = input.key
  BY <1>1, <1>2 DEF ReleaseTaken, Blind, Ranges, Inputs
<1>4. /\ pc' \in Counters /\ pc'["win"].at = "state" /\ pc'["win"].what = pc["win"].what
      /\ pc'["win"].to = pc["win"].to /\ pc'["net"] = pc["net"]
  BY <1>1, <1>2, GotoIs, GotoWithIs
     DEF ReleaseTaken, Blind, Counters, WinLabels, SwitchLabels
<1>f. PICK f : f = Noted(history)  OBVIOUS
<1>g. /\ f \in Histories /\ f.unseen = history.unseen /\ f.opened = history.opened
      /\ f.twice = history.twice /\ f.dead = history.dead /\ f.wrong = history.wrong
      /\ f.kept = history.kept /\ (f.raced <=> history.raced \/ (Switching("net") /\ ~Ready))
      /\ (f.both <=> history.both \/ (Switching("net") /\ Switching("win")))
  BY <1>1, <1>f, NotedIs
<1>h. history' = [f EXCEPT !.unseen = (IF pc["win"].what = input.key THEN Blind ELSE f.unseen)]
  BY <1>f DEF ReleaseTaken, Blind
<1>i. /\ history' \in Histories
      /\ history'.unseen = (IF pc["win"].what = input.key THEN Blind ELSE f.unseen)
      /\ history'.opened = f.opened /\ history'.raced = f.raced /\ history'.twice = f.twice
      /\ history'.both = f.both /\ history'.dead = f.dead /\ history'.wrong = f.wrong
      /\ history'.kept = f.kept
  BY <1>1, <1>2, <1>g, <1>h DEF Histories, Blind, Causes
<1>5. /\ history' \in Histories
      /\ history'.unseen = (IF pc["win"].what = input.key THEN Blind ELSE history.unseen)
      /\ history'.opened = history.opened
      /\ (history'.raced <=> history.raced \/ (Switching("net") /\ ~Ready))
      /\ history'.twice = history.twice
      /\ (history'.both <=> history.both \/ (Switching("net") /\ Switching("win")))
      /\ history'.dead = history.dead /\ history'.wrong = history.wrong
      /\ history'.kept = history.kept
  BY <1>g, <1>i
<1>6. UNCHANGED <<screen, freed, panels, near, walker, session, held, lock>>
  BY DEF ReleaseTaken, Blind
<1>7. Ranges'  BY <1>1, <1>2, <1>3, <1>4, <1>5, <1>6 DEF Ranges, Screens
<1>8. Places'  BY <1>2, <1>3, <1>4, <1>5, <1>6 DEF ControlsIInv, Places
<1>9. RoomLeft'
  BY <1>2, <1>3, <1>4, <1>5, <1>6 DEF ControlsIInv, RoomLeft, Pending, Ranges, Screens
<1>10. OnceEach'  BY <1>2, <1>3, <1>4, <1>5, <1>6 DEF ControlsIInv, OnceEach, Ranges, Places
<1>11. Selected'  BY <1>2, <1>3, <1>4, <1>5, <1>6 DEF ControlsIInv, Selected
<1>12. Meant'  BY <1>2, <1>3, <1>4, <1>5, <1>6 DEF ControlsIInv, Meant, Playable
<1>13. OnlyFields'  BY <1>2, <1>3, <1>4, <1>5, <1>6 DEF ControlsIInv, OnlyFields
<1>14. WhyDisabled'  BY <1>2, <1>3, <1>4, <1>5, <1>6 DEF ControlsIInv, WhyDisabled
<1>15. WhyWalking'  BY <1>2, <1>3, <1>4, <1>5, <1>6 DEF ControlsIInv, WhyWalking
<1> QED  BY <1>7, <1>8, <1>9, <1>10, <1>11, <1>12, <1>13, <1>14, <1>15 DEF ControlsIInv

LEMMA OpenOptionsKeeps ==
  ASSUME ControlsIInv, OpenOptions
  PROVE  ControlsIInv'
<1> USE ControlsAssumption DEF Thread, Ready, At, Pressed, Switching
<1>1. Ranges /\ history \in Histories /\ pc \in Counters  BY DEF ControlsIInv, Ranges
<1>2. pc["win"].at = "pressed" /\ pc["win"].what = "esc"
  BY <1>1 DEF OpenOptions, setOptionsVisible, Ranges
<1>3. /\ panels' \in Panels /\ (screen.kind = "game" => panels'.options = TRUE)
      /\ (screen.kind # "game" => panels' = panels)
  BY <1>1, <1>2 DEF OpenOptions, setOptionsVisible, Ranges, Panels
<1>4. /\ input' \in Inputs /\ (screen.kind = "game" => input'.disabled = TRUE)
      /\ input'.up = input.up /\ input'.field = input.field /\ input'.mapper = input.mapper
      /\ input'.key = input.key /\ (screen.kind # "game" => input' = input)
  BY <1>1, <1>2 DEF OpenOptions, setOptionsVisible, Ranges, Inputs
<1>5. /\ pc' \in Counters /\ pc'["net"] = pc["net"]
      /\ (screen.kind = "editor" => pc'["win"].at = "enable" /\ pc'["win"].to = "main_menu")
      /\ (screen.kind # "editor" => pc'["win"].at = "state")
  BY <1>1, <1>2, GotoIs, GotoWithIs
     DEF OpenOptions, setOptionsVisible, Counters, WinLabels, SwitchLabels, Kinds
<1>f. PICK f : f = Noted(history)  OBVIOUS
<1>g. /\ f \in Histories /\ f.unseen = history.unseen /\ f.opened = history.opened
      /\ f.twice = history.twice /\ f.dead = history.dead /\ f.wrong = history.wrong
      /\ f.kept = history.kept /\ (f.raced <=> history.raced \/ (Switching("net") /\ ~Ready))
      /\ (f.both <=> history.both \/ (Switching("net") /\ Switching("win")))
  BY <1>1, <1>f, NotedIs
<1>u. PICK w : w = Use(f, "options", screen.id)  OBVIOUS
<1>v. /\ w \in Histories /\ w.unseen = f.unseen /\ w.opened = f.opened /\ w.raced = f.raced
      /\ w.twice = f.twice /\ w.both = f.both /\ w.wrong = f.wrong /\ w.kept = f.kept
      /\ w.dead = (IF screen.id \in freed THEN f.dead \cup {"options"} ELSE f.dead)
  BY <1>g, <1>u, UseIs DEF Users
<1>h. history' = (IF screen.kind = "editor" THEN f ELSE w)
  BY <1>f, <1>u DEF OpenOptions, setOptionsVisible
<1>i. /\ history' \in Histories /\ history'.unseen = f.unseen /\ history'.opened = f.opened
      /\ history'.raced = f.raced /\ history'.twice = f.twice /\ history'.both = f.both
      /\ history'.dead =
           (IF screen.kind # "editor" /\ screen.id \in freed
            THEN f.dead \cup {"options"} ELSE f.dead)
      /\ history'.wrong = f.wrong /\ history'.kept = f.kept
  BY <1>1, <1>2, <1>g, <1>v, <1>h DEF Histories, Users
<1>6. /\ history' \in Histories /\ history'.unseen = history.unseen
      /\ history'.opened = history.opened
      /\ (history'.raced <=> history.raced \/ (Switching("net") /\ ~Ready))
      /\ history'.twice = history.twice
      /\ (history'.both <=> history.both \/ (Switching("net") /\ Switching("win")))
      /\ history'.dead =
           (IF screen.kind # "editor" /\ screen.id \in freed
            THEN history.dead \cup {"options"} ELSE history.dead)
      /\ history'.wrong = history.wrong /\ history'.kept = history.kept
  BY <1>g, <1>i
<1>7. UNCHANGED <<screen, freed, near, walker, session, held, lock>>
  BY DEF OpenOptions, setOptionsVisible
<1>8. Ranges'  BY <1>1, <1>2, <1>3, <1>4, <1>5, <1>6, <1>7 DEF Ranges, Screens
<1>9. Places'  BY <1>2, <1>3, <1>4, <1>5, <1>6, <1>7 DEF ControlsIInv, Places, Kinds
<1>10. RoomLeft'
  BY <1>2, <1>3, <1>4, <1>5, <1>6, <1>7 DEF ControlsIInv, RoomLeft, Pending, Ranges, Screens
<1>11. OnceEach'
  BY <1>2, <1>3, <1>4, <1>5, <1>6, <1>7 DEF ControlsIInv, OnceEach, Ranges, Places
<1>12. Selected'  BY <1>2, <1>3, <1>4, <1>5, <1>6, <1>7 DEF ControlsIInv, Selected
<1>13. Meant'  BY <1>2, <1>3, <1>4, <1>5, <1>6, <1>7 DEF ControlsIInv, Meant, Playable
<1>14. OnlyFields'
  BY <1>2, <1>3, <1>4, <1>5, <1>6, <1>7 DEF ControlsIInv, OnlyFields, OnceEach
<1>15. WhyDisabled'  BY <1>2, <1>3, <1>4, <1>5, <1>6, <1>7 DEF ControlsIInv, WhyDisabled
<1>16. WhyWalking'  BY <1>2, <1>3, <1>4, <1>5, <1>6, <1>7 DEF ControlsIInv, WhyWalking
<1> QED  BY <1>8, <1>9, <1>10, <1>11, <1>12, <1>13, <1>14, <1>15, <1>16 DEF ControlsIInv

LEMMA OpenChatKeeps ==
  ASSUME ControlsIInv, OpenChat
  PROVE  ControlsIInv'
<1> USE ControlsAssumption DEF Thread, Ready, At, Pressed, Switching
<1>1. Ranges /\ history \in Histories /\ pc \in Counters  BY DEF ControlsIInv, Ranges
<1>2. pc["win"].at = "pressed"  BY <1>1 DEF OpenChat, Ranges
<1>3. <<"chat", screen.kind>> \in {"chat", "click"} \X Kinds  BY <1>1 DEF Ranges, Screens
<1>4. /\ input' \in Inputs /\ input'.up = input.up /\ input'.disabled = input.disabled
      /\ input'.field = (IF screen.kind = "game" THEN screen.id ELSE input.field)
      /\ input'.mapper = input.mapper /\ input'.key = input.key
  BY <1>1, <1>2, <1>3 DEF OpenChat, Ranges, Inputs, Screens
<1>5. /\ pc' \in Counters /\ pc'["win"].at = "state" /\ pc'["win"].what = pc["win"].what
      /\ pc'["win"].to = pc["win"].to /\ pc'["net"] = pc["net"]
  BY <1>1, <1>2, <1>3, GotoIs, GotoWithIs DEF OpenChat, Counters, WinLabels, SwitchLabels
<1>f. PICK f : f = Noted(history)  OBVIOUS
<1>g. /\ f \in Histories /\ f.unseen = history.unseen /\ f.opened = history.opened
      /\ f.twice = history.twice /\ f.dead = history.dead /\ f.wrong = history.wrong
      /\ f.kept = history.kept /\ (f.raced <=> history.raced \/ (Switching("net") /\ ~Ready))
      /\ (f.both <=> history.both \/ (Switching("net") /\ Switching("win")))
  BY <1>1, <1>f, NotedIs
<1>u. PICK w : w = Use(f, "chat", screen.id)  OBVIOUS
<1>v. /\ w \in Histories /\ w.unseen = f.unseen /\ w.opened = f.opened /\ w.raced = f.raced
      /\ w.twice = f.twice /\ w.both = f.both /\ w.wrong = f.wrong /\ w.kept = f.kept
      /\ w.dead = (IF screen.id \in freed THEN f.dead \cup {"chat"} ELSE f.dead)
  BY <1>g, <1>u, UseIs DEF Users
<1>h. history' = (IF screen.kind = "game" THEN w
                    ELSE [f EXCEPT !.wrong = f.wrong \cup {<<"chat", screen.kind>>}])
  BY <1>f, <1>u DEF OpenChat
<1>i. /\ history' \in Histories /\ history'.unseen = f.unseen /\ history'.opened = f.opened
      /\ history'.raced = f.raced /\ history'.twice = f.twice /\ history'.both = f.both
      /\ history'.dead =
           (IF screen.kind = "game" /\ screen.id \in freed
            THEN f.dead \cup {"chat"} ELSE f.dead)
      /\ history'.wrong =
           (IF screen.kind = "game"
            THEN f.wrong ELSE f.wrong \cup {<<"chat", screen.kind>>})
      /\ history'.kept = f.kept
  BY <1>1, <1>2, <1>3, <1>g, <1>v, <1>h DEF Histories, Users
<1>6. /\ history' \in Histories /\ history'.unseen = history.unseen
      /\ history'.opened = history.opened
      /\ (history'.raced <=> history.raced \/ (Switching("net") /\ ~Ready))
      /\ history'.twice = history.twice
      /\ (history'.both <=> history.both \/ (Switching("net") /\ Switching("win")))
      /\ history'.dead =
           (IF screen.kind = "game" /\ screen.id \in freed
            THEN history.dead \cup {"chat"} ELSE history.dead)
      /\ history'.wrong =
           (IF screen.kind = "game"
            THEN history.wrong ELSE history.wrong \cup {<<"chat", screen.kind>>})
      /\ history'.kept = history.kept
  BY <1>g, <1>i
<1>7. UNCHANGED <<screen, freed, panels, near, walker, session, held, lock>>
  BY DEF OpenChat
<1>8. Ranges'  BY <1>1, <1>2, <1>3, <1>4, <1>5, <1>6, <1>7 DEF Ranges, Screens
<1>9. Places'  BY <1>2, <1>3, <1>4, <1>5, <1>6, <1>7 DEF ControlsIInv, Places
<1>10. RoomLeft'
  BY <1>2, <1>3, <1>4, <1>5, <1>6, <1>7 DEF ControlsIInv, RoomLeft, Pending, Ranges, Screens
<1>11. OnceEach'
  BY <1>2, <1>3, <1>4, <1>5, <1>6, <1>7 DEF ControlsIInv, OnceEach, Ranges, Places
<1>12. Selected'  BY <1>2, <1>3, <1>4, <1>5, <1>6, <1>7 DEF ControlsIInv, Selected
<1>13. Meant'  BY <1>2, <1>3, <1>4, <1>5, <1>6, <1>7 DEF ControlsIInv, Meant, Playable
<1>14. OnlyFields'
  BY <1>2, <1>3, <1>4, <1>5, <1>6, <1>7
     DEF ControlsIInv, OnlyFields, OnceEach, Meant, Playable
<1>15. WhyDisabled'  BY <1>2, <1>3, <1>4, <1>5, <1>6, <1>7 DEF ControlsIInv, WhyDisabled
<1>16. WhyWalking'  BY <1>2, <1>3, <1>4, <1>5, <1>6, <1>7 DEF ControlsIInv, WhyWalking
<1> QED  BY <1>8, <1>9, <1>10, <1>11, <1>12, <1>13, <1>14, <1>15, <1>16 DEF ControlsIInv

LEMMA updateStateKeeps ==
  ASSUME ControlsIInv, updateState
  PROVE  ControlsIInv'
<1> USE ControlsAssumption DEF Thread, Ready, At, Pressed, Switching
<1>1. Ranges /\ history \in Histories /\ pc \in Counters  BY DEF ControlsIInv, Ranges
<1>2. pc["win"].at = "state"  BY <1>1 DEF updateState, Idle, Ranges
<1>3. /\ walker' \in Walkers /\ walker'.here = walker.here
      /\ (walker.here /\ ~walker.paralysed => walker'.walking = input.up)
      /\ walker'.paralysed = walker.paralysed
  BY <1>1, <1>2 DEF updateState, Idle, Ranges, Walkers, Inputs
<1>4. /\ pc' \in Counters /\ pc'["win"].at = "idle" /\ pc'["net"] = pc["net"]
  BY <1>1, <1>2, GotoIs, GotoWithIs DEF updateState, Idle, Counters, WinLabels, SwitchLabels
<1>f. PICK f : f = Noted(history)  OBVIOUS
<1>g. /\ f \in Histories /\ f.unseen = history.unseen /\ f.opened = history.opened
      /\ f.twice = history.twice /\ f.dead = history.dead /\ f.wrong = history.wrong
      /\ f.kept = history.kept /\ (f.raced <=> history.raced \/ (Switching("net") /\ ~Ready))
      /\ (f.both <=> history.both \/ (Switching("net") /\ Switching("win")))
  BY <1>1, <1>f, NotedIs
<1>h. history' = [f EXCEPT !.unseen = (IF walker.here /\ ~walker.paralysed THEN f.unseen \ {"paralysed"}
                                       ELSE IF walker.paralysed THEN f.unseen \cup {"paralysed"} ELSE f.unseen)]
  BY <1>f DEF updateState, Idle
<1>i. /\ history' \in Histories
      /\ history'.unseen = (IF walker.here /\ ~walker.paralysed THEN f.unseen \ {"paralysed"}
                           ELSE IF walker.paralysed THEN f.unseen \cup {"paralysed"} ELSE f.unseen)
      /\ history'.opened = f.opened /\ history'.raced = f.raced /\ history'.twice = f.twice
      /\ history'.both = f.both /\ history'.dead = f.dead /\ history'.wrong = f.wrong
      /\ history'.kept = f.kept
  BY <1>1, <1>2, <1>g, <1>h DEF Histories, Causes
<1>5. /\ history' \in Histories
      /\ history'.unseen = (IF walker.here /\ ~walker.paralysed THEN history.unseen \ {"paralysed"}
                           ELSE IF walker.paralysed THEN history.unseen \cup {"paralysed"} ELSE history.unseen)
      /\ history'.opened = history.opened
      /\ (history'.raced <=> history.raced \/ (Switching("net") /\ ~Ready))
      /\ history'.twice = history.twice
      /\ (history'.both <=> history.both \/ (Switching("net") /\ Switching("win")))
      /\ history'.dead = history.dead /\ history'.wrong = history.wrong
      /\ history'.kept = history.kept
  BY <1>g, <1>i
<1>6. UNCHANGED <<screen, freed, panels, input, near, session, held, lock>>
  BY DEF updateState, Idle
<1>7. Ranges'  BY <1>1, <1>2, <1>3, <1>4, <1>5, <1>6 DEF Ranges, Screens
<1>8. Places'  BY <1>2, <1>3, <1>4, <1>5, <1>6 DEF ControlsIInv, Places
<1>9. RoomLeft'
  BY <1>2, <1>3, <1>4, <1>5, <1>6 DEF ControlsIInv, RoomLeft, Pending, Ranges, Screens
<1>10. OnceEach'  BY <1>2, <1>3, <1>4, <1>5, <1>6 DEF ControlsIInv, OnceEach, Ranges, Places
<1>11. Selected'  BY <1>2, <1>3, <1>4, <1>5, <1>6 DEF ControlsIInv, Selected
<1>12. Meant'  BY <1>2, <1>3, <1>4, <1>5, <1>6 DEF ControlsIInv, Meant, Playable
<1>13. OnlyFields'  BY <1>2, <1>3, <1>4, <1>5, <1>6 DEF ControlsIInv, OnlyFields
<1>14. WhyDisabled'  BY <1>2, <1>3, <1>4, <1>5, <1>6 DEF ControlsIInv, WhyDisabled
<1>15. WhyWalking'  BY <1>2, <1>3, <1>4, <1>5, <1>6 DEF ControlsIInv, WhyWalking
<1> QED  BY <1>7, <1>8, <1>9, <1>10, <1>11, <1>12, <1>13, <1>14, <1>15 DEF ControlsIInv

LEMMA ClickSelectKeeps ==
  ASSUME ControlsIInv, ClickSelect
  PROVE  ControlsIInv'
<1> USE ControlsAssumption DEF Thread, Ready, At, Pressed, Switching
<1>1. Ranges /\ history \in Histories /\ pc \in Counters  BY DEF ControlsIInv, Ranges
<1>2. pc["win"].at = "click" /\ pc["win"].what \in {"field", "mapper"}
  BY <1>1 DEF ClickSelect, Clicked, Ranges
<1>3. /\ input' \in Inputs /\ input'.up = input.up /\ input'.disabled = input.disabled
      /\ input'.field = (IF pc["win"].what = "field" THEN screen.id ELSE input.field)
      /\ input'.mapper = (IF pc["win"].what = "field" THEN input.mapper ELSE screen.id)
      /\ input'.key = input.key
  BY <1>1, <1>2 DEF ClickSelect, Clicked, Ranges, Inputs, Screens
<1>4. /\ pc' \in Counters /\ pc'["win"].at = "state" /\ pc'["win"].what = pc["win"].what
      /\ pc'["win"].to = pc["win"].to /\ pc'["net"] = pc["net"]
  BY <1>1, <1>2, GotoIs, GotoWithIs
     DEF ClickSelect, Clicked, Counters, WinLabels, SwitchLabels
<1>f. PICK f : f = Noted(history)  OBVIOUS
<1>g. /\ f \in Histories /\ f.unseen = history.unseen /\ f.opened = history.opened
      /\ f.twice = history.twice /\ f.dead = history.dead /\ f.wrong = history.wrong
      /\ f.kept = history.kept /\ (f.raced <=> history.raced \/ (Switching("net") /\ ~Ready))
      /\ (f.both <=> history.both \/ (Switching("net") /\ Switching("win")))
  BY <1>1, <1>f, NotedIs
<1>u. PICK w : w = Use(f, "click", screen.id)  OBVIOUS
<1>v. /\ w \in Histories /\ w.unseen = f.unseen /\ w.opened = f.opened /\ w.raced = f.raced
      /\ w.twice = f.twice /\ w.both = f.both /\ w.wrong = f.wrong /\ w.kept = f.kept
      /\ w.dead = (IF screen.id \in freed THEN f.dead \cup {"click"} ELSE f.dead)
  BY <1>g, <1>u, UseIs DEF Users
<1>h. history' = w
  BY <1>f, <1>u DEF ClickSelect, Clicked
<1>i. /\ history' \in Histories /\ history'.unseen = f.unseen /\ history'.opened = f.opened
      /\ history'.raced = f.raced /\ history'.twice = f.twice /\ history'.both = f.both
      /\ history'.dead = (IF screen.id \in freed THEN f.dead \cup {"click"} ELSE f.dead)
      /\ history'.wrong = f.wrong /\ history'.kept = f.kept
  BY <1>1, <1>2, <1>g, <1>v, <1>h DEF Histories, Users
<1>5. /\ history' \in Histories /\ history'.unseen = history.unseen
      /\ history'.opened = history.opened
      /\ (history'.raced <=> history.raced \/ (Switching("net") /\ ~Ready))
      /\ history'.twice = history.twice
      /\ (history'.both <=> history.both \/ (Switching("net") /\ Switching("win")))
      /\ history'.dead = (IF screen.id \in freed THEN history.dead \cup {"click"} ELSE history.dead)
      /\ history'.wrong = history.wrong /\ history'.kept = history.kept
  BY <1>g, <1>i
<1>6. UNCHANGED <<screen, freed, panels, near, walker, session, held, lock>>
  BY DEF ClickSelect, Clicked
<1>7. Ranges'  BY <1>1, <1>2, <1>3, <1>4, <1>5, <1>6 DEF Ranges, Screens
<1>8. Places'  BY <1>2, <1>3, <1>4, <1>5, <1>6 DEF ControlsIInv, Places
<1>9. RoomLeft'
  BY <1>2, <1>3, <1>4, <1>5, <1>6 DEF ControlsIInv, RoomLeft, Pending, Ranges, Screens
<1>10. OnceEach'  BY <1>2, <1>3, <1>4, <1>5, <1>6 DEF ControlsIInv, OnceEach, Ranges, Places
<1>11. Selected'  BY <1>2, <1>3, <1>4, <1>5, <1>6 DEF ControlsIInv, Selected
<1>12. Meant'  BY <1>2, <1>3, <1>4, <1>5, <1>6 DEF ControlsIInv, Meant, Playable
<1>13. OnlyFields'  BY <1>2, <1>3, <1>4, <1>5, <1>6 DEF ControlsIInv, OnlyFields, OnceEach
<1>14. WhyDisabled'  BY <1>2, <1>3, <1>4, <1>5, <1>6 DEF ControlsIInv, WhyDisabled
<1>15. WhyWalking'  BY <1>2, <1>3, <1>4, <1>5, <1>6 DEF ControlsIInv, WhyWalking
<1> QED  BY <1>7, <1>8, <1>9, <1>10, <1>11, <1>12, <1>13, <1>14, <1>15 DEF ControlsIInv

LEMMA ClickWrongKeeps ==
  ASSUME ControlsIInv, ClickWrong
  PROVE  ControlsIInv'
<1> USE ControlsAssumption DEF Thread, Ready, At, Pressed, Switching
<1>1. Ranges /\ history \in Histories /\ pc \in Counters  BY DEF ControlsIInv, Ranges
<1>2. pc["win"].at = "click" /\ pc["win"].what \in {"open", "continue", "disconnect"} /\ screen.kind # "game"
  BY <1>1 DEF ClickWrong, Clicked, Ranges
<1>3. /\ pc' \in Counters /\ pc'["win"].at = "state" /\ pc'["win"].what = pc["win"].what
      /\ pc'["win"].to = pc["win"].to /\ pc'["net"] = pc["net"]
  BY <1>1, <1>2, GotoIs, GotoWithIs
     DEF ClickWrong, Clicked, Counters, WinLabels, SwitchLabels
<1>4. /\ history' \in Histories /\ history'.unseen = history.unseen
      /\ history'.opened = history.opened
      /\ (history'.raced <=> history.raced \/ (Switching("net") /\ ~Ready))
      /\ history'.twice = history.twice
      /\ (history'.both <=> history.both \/ (Switching("net") /\ Switching("win")))
      /\ history'.dead = history.dead
      /\ history'.wrong = history.wrong \cup {<<"click", screen.kind>>}
      /\ history'.kept = history.kept
  BY <1>1, <1>2, NotedIs, UseIs DEF ClickWrong, Clicked, Histories, Users, Ranges, Screens
<1>5. UNCHANGED <<screen, freed, panels, input, near, walker, session, held, lock>>
  BY DEF ClickWrong, Clicked
<1>6. Ranges'  BY <1>1, <1>2, <1>3, <1>4, <1>5 DEF Ranges, Screens
<1>7. Places'  BY <1>2, <1>3, <1>4, <1>5 DEF ControlsIInv, Places
<1>8. RoomLeft'
  BY <1>2, <1>3, <1>4, <1>5 DEF ControlsIInv, RoomLeft, Pending, Ranges, Screens
<1>9. OnceEach'  BY <1>2, <1>3, <1>4, <1>5 DEF ControlsIInv, OnceEach, Ranges, Places
<1>10. Selected'  BY <1>2, <1>3, <1>4, <1>5 DEF ControlsIInv, Selected
<1>11. Meant'  BY <1>2, <1>3, <1>4, <1>5 DEF ControlsIInv, Meant, Playable
<1>12. OnlyFields'  BY <1>2, <1>3, <1>4, <1>5 DEF ControlsIInv, OnlyFields, Meant
<1>13. WhyDisabled'  BY <1>2, <1>3, <1>4, <1>5 DEF ControlsIInv, WhyDisabled
<1>14. WhyWalking'  BY <1>2, <1>3, <1>4, <1>5 DEF ControlsIInv, WhyWalking
<1> QED  BY <1>6, <1>7, <1>8, <1>9, <1>10, <1>11, <1>12, <1>13, <1>14 DEF ControlsIInv

LEMMA ClickOpenKeeps ==
  ASSUME ControlsIInv, ClickOpen
  PROVE  ControlsIInv'
<1> USE ControlsAssumption DEF Thread, Ready, At, Pressed, Switching
<1>1. Ranges /\ history \in Histories /\ pc \in Counters  BY DEF ControlsIInv, Ranges
<1>2. pc["win"].at = "click" /\ pc["win"].what = "open" /\ screen.kind = "game"
  BY <1>1 DEF ClickOpen, Clicked, basicPanelCallback, showPanel, reset, hidePanels, Ranges
<1>3. /\ panels' \in Panels /\ panels'.options = panels.options
  BY <1>1, <1>2
     DEF ClickOpen, Clicked, basicPanelCallback, showPanel, reset, hidePanels, Ranges, Panels
<1>4. /\ input' \in Inputs /\ input'.up = FALSE /\ input'.disabled = TRUE
      /\ input'.field = input.field /\ input'.mapper = input.mapper /\ input'.key = input.key
  BY <1>1, <1>2
     DEF ClickOpen, Clicked, basicPanelCallback, showPanel, reset, hidePanels, Ranges, Inputs
<1>5. /\ pc' \in Counters /\ pc'["win"].at = "state" /\ pc'["win"].what = pc["win"].what
      /\ pc'["win"].to = pc["win"].to /\ pc'["net"] = pc["net"]
  BY <1>1, <1>2, GotoIs, GotoWithIs
     DEF ClickOpen, Clicked, basicPanelCallback, showPanel, reset, hidePanels, Counters,
            WinLabels, SwitchLabels
<1>f. PICK f : f = Noted(history)  OBVIOUS
<1>g. /\ f \in Histories /\ f.unseen = history.unseen /\ f.opened = history.opened
      /\ f.twice = history.twice /\ f.dead = history.dead /\ f.wrong = history.wrong
      /\ f.kept = history.kept /\ (f.raced <=> history.raced \/ (Switching("net") /\ ~Ready))
      /\ (f.both <=> history.both \/ (Switching("net") /\ Switching("win")))
  BY <1>1, <1>f, NotedIs
<1>u. PICK w : w = Use(f, "click", screen.id)  OBVIOUS
<1>v. /\ w \in Histories /\ w.unseen = f.unseen /\ w.opened = f.opened /\ w.raced = f.raced
      /\ w.twice = f.twice /\ w.both = f.both /\ w.wrong = f.wrong /\ w.kept = f.kept
      /\ w.dead = (IF screen.id \in freed THEN f.dead \cup {"click"} ELSE f.dead)
  BY <1>g, <1>u, UseIs DEF Users
<1>h. history' = [w EXCEPT !.opened = TRUE]
  BY <1>f, <1>u DEF ClickOpen, Clicked, basicPanelCallback, showPanel, reset, hidePanels
<1>i. /\ history' \in Histories /\ history'.unseen = f.unseen /\ history'.opened = TRUE
      /\ history'.raced = f.raced /\ history'.twice = f.twice /\ history'.both = f.both
      /\ history'.dead = (IF screen.id \in freed THEN f.dead \cup {"click"} ELSE f.dead)
      /\ history'.wrong = f.wrong /\ history'.kept = f.kept
  BY <1>1, <1>2, <1>g, <1>v, <1>h DEF Histories, Users
<1>6. /\ history' \in Histories /\ history'.unseen = history.unseen /\ history'.opened = TRUE
      /\ (history'.raced <=> history.raced \/ (Switching("net") /\ ~Ready))
      /\ history'.twice = history.twice
      /\ (history'.both <=> history.both \/ (Switching("net") /\ Switching("win")))
      /\ history'.dead = (IF screen.id \in freed THEN history.dead \cup {"click"} ELSE history.dead)
      /\ history'.wrong = history.wrong /\ history'.kept = history.kept
  BY <1>g, <1>i
<1>7. UNCHANGED <<screen, freed, near, walker, session, held, lock>>
  BY DEF ClickOpen, Clicked, basicPanelCallback, showPanel, reset, hidePanels
<1>8. Ranges'  BY <1>1, <1>2, <1>3, <1>4, <1>5, <1>6, <1>7 DEF Ranges, Screens
<1>9. Places'  BY <1>2, <1>3, <1>4, <1>5, <1>6, <1>7 DEF ControlsIInv, Places
<1>10. RoomLeft'
  BY <1>2, <1>3, <1>4, <1>5, <1>6, <1>7 DEF ControlsIInv, RoomLeft, Pending, Ranges, Screens
<1>11. OnceEach'
  BY <1>2, <1>3, <1>4, <1>5, <1>6, <1>7 DEF ControlsIInv, OnceEach, Ranges, Places
<1>12. Selected'  BY <1>2, <1>3, <1>4, <1>5, <1>6, <1>7 DEF ControlsIInv, Selected
<1>13. Meant'  BY <1>2, <1>3, <1>4, <1>5, <1>6, <1>7 DEF ControlsIInv, Meant, Playable
<1>14. OnlyFields'
  BY <1>2, <1>3, <1>4, <1>5, <1>6, <1>7 DEF ControlsIInv, OnlyFields, OnceEach
<1>15. WhyDisabled'  BY <1>2, <1>3, <1>4, <1>5, <1>6, <1>7 DEF ControlsIInv, WhyDisabled
<1>16. WhyWalking'  BY <1>2, <1>3, <1>4, <1>5, <1>6, <1>7 DEF ControlsIInv, WhyWalking
<1> QED  BY <1>8, <1>9, <1>10, <1>11, <1>12, <1>13, <1>14, <1>15, <1>16 DEF ControlsIInv

LEMMA ClickCloseKeeps ==
  ASSUME ControlsIInv, ClickClose
  PROVE  ControlsIInv'
<1> USE ControlsAssumption DEF Thread, Ready, At, Pressed, Switching
<1>1. Ranges /\ history \in Histories /\ pc \in Counters  BY DEF ControlsIInv, Ranges
<1>2. pc["win"].at = "click" /\ pc["win"].what \in {"continue", "disconnect"} /\ screen.kind = "game"
  BY <1>1 DEF ClickClose, Clicked, setOptionsVisible, Idle, Ranges
<1>3. /\ panels' \in Panels /\ panels'.options = FALSE
  BY <1>1, <1>2 DEF ClickClose, Clicked, setOptionsVisible, Idle, Ranges, Panels
<1>4. /\ input' \in Inputs /\ input'.up = input.up /\ input'.disabled = FALSE
      /\ input'.field = input.field /\ input'.mapper = input.mapper /\ input'.key = input.key
  BY <1>1, <1>2 DEF ClickClose, Clicked, setOptionsVisible, Idle, Ranges, Inputs
<1>5. /\ pc' \in Counters /\ pc'["net"] = pc["net"]
      /\ (pc["win"].what = "continue" => pc'["win"].at = "state")
      /\ (pc["win"].what = "disconnect" => pc'["win"].at = "drop" /\ pc'["win"].to = "char_select")
  BY <1>1, <1>2, GotoIs, GotoWithIs
     DEF ClickClose, Clicked, setOptionsVisible, Idle, Counters, WinLabels, SwitchLabels, Kinds
<1>f. PICK f : f = Noted(history)  OBVIOUS
<1>g. /\ f \in Histories /\ f.unseen = history.unseen /\ f.opened = history.opened
      /\ f.twice = history.twice /\ f.dead = history.dead /\ f.wrong = history.wrong
      /\ f.kept = history.kept /\ (f.raced <=> history.raced \/ (Switching("net") /\ ~Ready))
      /\ (f.both <=> history.both \/ (Switching("net") /\ Switching("win")))
  BY <1>1, <1>f, NotedIs
<1>u. PICK w : w = Use(f, "click", screen.id)  OBVIOUS
<1>v. /\ w \in Histories /\ w.unseen = f.unseen /\ w.opened = f.opened /\ w.raced = f.raced
      /\ w.twice = f.twice /\ w.both = f.both /\ w.wrong = f.wrong /\ w.kept = f.kept
      /\ w.dead = (IF screen.id \in freed THEN f.dead \cup {"click"} ELSE f.dead)
  BY <1>g, <1>u, UseIs DEF Users
<1>h. history' = w
  BY <1>f, <1>u DEF ClickClose, Clicked, setOptionsVisible, Idle
<1>i. /\ history' \in Histories /\ history'.unseen = f.unseen /\ history'.opened = f.opened
      /\ history'.raced = f.raced /\ history'.twice = f.twice /\ history'.both = f.both
      /\ history'.dead = (IF screen.id \in freed THEN f.dead \cup {"click"} ELSE f.dead)
      /\ history'.wrong = f.wrong /\ history'.kept = f.kept
  BY <1>1, <1>2, <1>g, <1>v, <1>h DEF Histories, Users
<1>6. /\ history' \in Histories /\ history'.unseen = history.unseen
      /\ history'.opened = history.opened
      /\ (history'.raced <=> history.raced \/ (Switching("net") /\ ~Ready))
      /\ history'.twice = history.twice
      /\ (history'.both <=> history.both \/ (Switching("net") /\ Switching("win")))
      /\ history'.dead = (IF screen.id \in freed THEN history.dead \cup {"click"} ELSE history.dead)
      /\ history'.wrong = history.wrong /\ history'.kept = history.kept
  BY <1>g, <1>i
<1>7. UNCHANGED <<screen, freed, near, walker, session, held, lock>>
  BY DEF ClickClose, Clicked, setOptionsVisible, Idle
<1>8. Ranges'  BY <1>1, <1>2, <1>3, <1>4, <1>5, <1>6, <1>7 DEF Ranges, Screens
<1>9. Places'  BY <1>2, <1>3, <1>4, <1>5, <1>6, <1>7 DEF ControlsIInv, Places, Kinds
<1>10. RoomLeft'
  BY <1>2, <1>3, <1>4, <1>5, <1>6, <1>7 DEF ControlsIInv, RoomLeft, Pending, Ranges, Screens
<1>11. OnceEach'
  BY <1>2, <1>3, <1>4, <1>5, <1>6, <1>7 DEF ControlsIInv, OnceEach, Ranges, Places
<1>12. Selected'  BY <1>2, <1>3, <1>4, <1>5, <1>6, <1>7 DEF ControlsIInv, Selected
<1>13. Meant'  BY <1>2, <1>3, <1>4, <1>5, <1>6, <1>7 DEF ControlsIInv, Meant, Playable
<1>14. OnlyFields'
  BY <1>2, <1>3, <1>4, <1>5, <1>6, <1>7 DEF ControlsIInv, OnlyFields, OnceEach
<1>15. WhyDisabled'  BY <1>2, <1>3, <1>4, <1>5, <1>6, <1>7 DEF ControlsIInv, WhyDisabled
<1>16. WhyWalking'  BY <1>2, <1>3, <1>4, <1>5, <1>6, <1>7 DEF ControlsIInv, WhyWalking
<1> QED  BY <1>8, <1>9, <1>10, <1>11, <1>12, <1>13, <1>14, <1>15, <1>16 DEF ControlsIInv

LEMMA JoinedKeeps ==
  ASSUME ControlsIInv, Joined
  PROVE  ControlsIInv'
<1> USE ControlsAssumption DEF Thread, Ready, At, Pressed, Switching
<1>1. Ranges /\ history \in Histories /\ pc \in Counters  BY DEF ControlsIInv, Ranges
<1>2. pc["win"].at = "join" /\ pc["net"].at = "idle"  BY <1>1 DEF Joined, Ranges
<1>3. /\ pc' \in Counters /\ pc'["win"].at = "last" /\ pc'["win"].what = pc["win"].what
      /\ pc'["win"].to = pc["win"].to /\ pc'["net"] = pc["net"]
  BY <1>1, <1>2, GotoIs, GotoWithIs DEF Joined, Counters, WinLabels, SwitchLabels
<1>4. lock' \in Thread \cup {Nothing}
  BY <1>1, <1>2 DEF Joined, Ranges
<1>5. UNCHANGED <<screen, freed, panels, input, near, walker, session, held, history>>
  BY DEF Joined
<1>6. Ranges'  BY <1>1, <1>2, <1>3, <1>4, <1>5 DEF Ranges, Screens
<1>7. Places'  BY <1>2, <1>3, <1>4, <1>5 DEF ControlsIInv, Places
<1>8. RoomLeft'
  BY <1>2, <1>3, <1>4, <1>5 DEF ControlsIInv, RoomLeft, Pending, Ranges, Screens
<1>9. OnceEach'  BY <1>2, <1>3, <1>4, <1>5 DEF ControlsIInv, OnceEach, Ranges, Places
<1>10. Selected'  BY <1>2, <1>3, <1>4, <1>5 DEF ControlsIInv, Selected
<1>11. Meant'  BY <1>2, <1>3, <1>4, <1>5 DEF ControlsIInv, Meant, Playable
<1>12. OnlyFields'  BY <1>2, <1>3, <1>4, <1>5 DEF ControlsIInv, OnlyFields
<1>13. WhyDisabled'  BY <1>2, <1>3, <1>4, <1>5 DEF ControlsIInv, WhyDisabled
<1>14. WhyWalking'  BY <1>2, <1>3, <1>4, <1>5 DEF ControlsIInv, WhyWalking
<1> QED  BY <1>6, <1>7, <1>8, <1>9, <1>10, <1>11, <1>12, <1>13, <1>14 DEF ControlsIInv

LEMMA LastDeinitKeeps ==
  ASSUME ControlsIInv, LastDeinit
  PROVE  ControlsIInv'
<1> USE ControlsAssumption DEF Thread, Ready, At, Pressed, Switching
<1>1. Ranges /\ history \in Histories /\ pc \in Counters  BY DEF ControlsIInv, Ranges
<1>2. pc["win"].at = "last"  BY <1>1 DEF LastDeinit, Locking, Ranges
<1>3. screen.id \in 1..screen.id  BY <1>1 DEF Ranges, Screens
<1>4. freed' = freed \cup {screen.id}
  BY <1>1, <1>2, <1>3 DEF LastDeinit, Locking, Ranges
<1>5. /\ pc' \in Counters /\ pc'["win"].at = "closed" /\ pc'["win"].what = pc["win"].what
      /\ pc'["win"].to = pc["win"].to /\ pc'["net"] = pc["net"]
  BY <1>1, <1>2, <1>3, GotoIs, GotoWithIs
     DEF LastDeinit, Locking, Counters, WinLabels, SwitchLabels
<1>6. lock' \in Thread \cup {Nothing}
  BY <1>1, <1>2, <1>3 DEF LastDeinit, Locking, Ranges
<1>7. UNCHANGED <<screen, panels, input, near, walker, session, held, history>>
  BY DEF LastDeinit, Locking
<1>a. freed' \subseteq 1..screen.id  BY <1>1, <1>3, <1>4 DEF Ranges
<1>8. Ranges'  BY <1>1, <1>2, <1>3, <1>4, <1>5, <1>6, <1>7, <1>a DEF Ranges, Screens
<1>9. Places'  BY <1>2, <1>3, <1>4, <1>5, <1>6, <1>7, <1>a DEF ControlsIInv, Places
<1>10. RoomLeft'
  BY <1>2, <1>3, <1>4, <1>5, <1>6, <1>7, <1>a
     DEF ControlsIInv, RoomLeft, Pending, Ranges, Screens
<1>11. OnceEach'
  BY <1>2, <1>3, <1>4, <1>5, <1>6, <1>7, <1>a DEF ControlsIInv, OnceEach, Ranges, Places
<1>12. Selected'  BY <1>2, <1>3, <1>4, <1>5, <1>6, <1>7, <1>a DEF ControlsIInv, Selected
<1>13. Meant'  BY <1>2, <1>3, <1>4, <1>5, <1>6, <1>7, <1>a DEF ControlsIInv, Meant, Playable
<1>14. OnlyFields'  BY <1>2, <1>3, <1>4, <1>5, <1>6, <1>7, <1>a DEF ControlsIInv, OnlyFields
<1>15. WhyDisabled'
  BY <1>2, <1>3, <1>4, <1>5, <1>6, <1>7, <1>a DEF ControlsIInv, WhyDisabled
<1>16. WhyWalking'  BY <1>2, <1>3, <1>4, <1>5, <1>6, <1>7, <1>a DEF ControlsIInv, WhyWalking
<1> QED  BY <1>8, <1>9, <1>10, <1>11, <1>12, <1>13, <1>14, <1>15, <1>16 DEF ControlsIInv

LEMMA CloseKeeps ==
  ASSUME ControlsIInv, Close
  PROVE  ControlsIInv'
<1> USE ControlsAssumption DEF Thread, Ready, At, Pressed, Switching
<1>1. Ranges /\ history \in Histories /\ pc \in Counters  BY DEF ControlsIInv, Ranges
<1>2. pc["win"].at = "idle"  BY <1>1 DEF Close, Ranges
<1>3. /\ pc' \in Counters /\ pc'["win"].at = "join" /\ pc'["win"].what = pc["win"].what
      /\ pc'["win"].to = pc["win"].to /\ pc'["net"] = pc["net"]
  BY <1>1, <1>2, GotoIs, GotoWithIs DEF Close, Counters, WinLabels, SwitchLabels
<1>4. UNCHANGED <<screen, freed, panels, input, near, walker, session, held, lock, history>>
  BY DEF Close
<1>5. Ranges'  BY <1>1, <1>2, <1>3, <1>4 DEF Ranges, Screens
<1>6. Places'  BY <1>2, <1>3, <1>4 DEF ControlsIInv, Places
<1>7. RoomLeft'  BY <1>2, <1>3, <1>4 DEF ControlsIInv, RoomLeft, Pending, Ranges, Screens
<1>8. OnceEach'  BY <1>2, <1>3, <1>4 DEF ControlsIInv, OnceEach, Ranges, Places
<1>9. Selected'  BY <1>2, <1>3, <1>4 DEF ControlsIInv, Selected
<1>10. Meant'  BY <1>2, <1>3, <1>4 DEF ControlsIInv, Meant, Playable
<1>11. OnlyFields'  BY <1>2, <1>3, <1>4 DEF ControlsIInv, OnlyFields
<1>12. WhyDisabled'  BY <1>2, <1>3, <1>4 DEF ControlsIInv, WhyDisabled
<1>13. WhyWalking'  BY <1>2, <1>3, <1>4 DEF ControlsIInv, WhyWalking
<1> QED  BY <1>5, <1>6, <1>7, <1>8, <1>9, <1>10, <1>11, <1>12, <1>13 DEF ControlsIInv

LEMMA ArriveKeeps ==
  ASSUME ControlsIInv, Arrive
  PROVE  ControlsIInv'
<1> USE ControlsAssumption DEF Thread, Ready, At, Pressed, Switching
<1>1. Ranges /\ history \in Histories /\ pc \in Counters  BY DEF ControlsIInv, Ranges
<1>2. /\ walker' \in Walkers /\ walker'.walking = FALSE
  BY <1>1 DEF Arrive, Receives, Ranges, Walkers
<1>3. UNCHANGED <<screen, freed, panels, input, near, session, held, pc, lock, history>>
  BY DEF Arrive, Receives
<1>4. Ranges'  BY <1>1, <1>2, <1>3 DEF Ranges, Screens
<1>5. Places'  BY <1>2, <1>3 DEF ControlsIInv, Places
<1>6. RoomLeft'  BY <1>2, <1>3 DEF ControlsIInv, RoomLeft, Pending, Ranges, Screens
<1>7. OnceEach'  BY <1>2, <1>3 DEF ControlsIInv, OnceEach, Ranges, Places
<1>8. Selected'  BY <1>2, <1>3 DEF ControlsIInv, Selected
<1>9. Meant'  BY <1>2, <1>3 DEF ControlsIInv, Meant, Playable
<1>10. OnlyFields'  BY <1>2, <1>3 DEF ControlsIInv, OnlyFields
<1>11. WhyDisabled'  BY <1>2, <1>3 DEF ControlsIInv, WhyDisabled
<1>12. WhyWalking'  BY <1>2, <1>3 DEF ControlsIInv, WhyWalking
<1> QED  BY <1>4, <1>5, <1>6, <1>7, <1>8, <1>9, <1>10, <1>11, <1>12 DEF ControlsIInv

LEMMA ParalyseKeeps ==
  ASSUME ControlsIInv, Paralyse
  PROVE  ControlsIInv'
<1> USE ControlsAssumption DEF Thread, Ready, At, Pressed, Switching
<1>1. Ranges /\ history \in Histories /\ pc \in Counters  BY DEF ControlsIInv, Ranges
<1>2. /\ walker' \in Walkers /\ walker'.here = walker.here /\ walker'.walking = walker.walking
  BY <1>1 DEF Paralyse, Receives, World, Ranges, Walkers
<1>3. UNCHANGED <<screen, freed, panels, input, near, session, held, pc, lock, history>>
  BY DEF Paralyse, Receives, World
<1>4. Ranges'  BY <1>1, <1>2, <1>3 DEF Ranges, Screens
<1>5. Places'  BY <1>2, <1>3 DEF ControlsIInv, Places
<1>6. RoomLeft'  BY <1>2, <1>3 DEF ControlsIInv, RoomLeft, Pending, Ranges, Screens
<1>7. OnceEach'  BY <1>2, <1>3 DEF ControlsIInv, OnceEach, Ranges, Places
<1>8. Selected'  BY <1>2, <1>3 DEF ControlsIInv, Selected
<1>9. Meant'  BY <1>2, <1>3 DEF ControlsIInv, Meant, Playable
<1>10. OnlyFields'  BY <1>2, <1>3 DEF ControlsIInv, OnlyFields
<1>11. WhyDisabled'  BY <1>2, <1>3 DEF ControlsIInv, WhyDisabled
<1>12. WhyWalking'  BY <1>2, <1>3 DEF ControlsIInv, WhyWalking
<1> QED  BY <1>4, <1>5, <1>6, <1>7, <1>8, <1>9, <1>10, <1>11, <1>12 DEF ControlsIInv

LEMMA ApproachKeeps ==
  ASSUME ControlsIInv, Approach
  PROVE  ControlsIInv'
<1> USE ControlsAssumption DEF Thread, Ready, At, Pressed, Switching
<1>1. Ranges /\ history \in Histories /\ pc \in Counters  BY DEF ControlsIInv, Ranges
<1>2. near' \in {Nothing, "vault_chest", "guild_board"}
  BY <1>1 DEF Approach, World, Ranges
<1>3. UNCHANGED <<screen, freed, panels, input, walker, session, held, pc, lock, history>>
  BY DEF Approach, World
<1>4. Ranges'  BY <1>1, <1>2, <1>3 DEF Ranges, Screens
<1>5. Places'  BY <1>2, <1>3 DEF ControlsIInv, Places
<1>6. RoomLeft'  BY <1>2, <1>3 DEF ControlsIInv, RoomLeft, Pending, Ranges, Screens
<1>7. OnceEach'  BY <1>2, <1>3 DEF ControlsIInv, OnceEach, Ranges, Places
<1>8. Selected'  BY <1>2, <1>3 DEF ControlsIInv, Selected
<1>9. Meant'  BY <1>2, <1>3 DEF ControlsIInv, Meant, Playable
<1>10. OnlyFields'  BY <1>2, <1>3 DEF ControlsIInv, OnlyFields
<1>11. WhyDisabled'  BY <1>2, <1>3 DEF ControlsIInv, WhyDisabled
<1>12. WhyWalking'  BY <1>2, <1>3 DEF ControlsIInv, WhyWalking
<1> QED  BY <1>4, <1>5, <1>6, <1>7, <1>8, <1>9, <1>10, <1>11, <1>12 DEF ControlsIInv

LEMMA ClickSwitchKeeps ==
  ASSUME ControlsIInv, NEW e \in {"editor", "login", "box"}, NEW to \in {"editor", "char_select", "game"},
         ClickSwitch(e, to)
  PROVE  ControlsIInv'
<1> USE ControlsAssumption DEF Thread, Ready, At, Pressed, Switching
<1>1. Ranges /\ history \in Histories /\ pc \in Counters  BY DEF ControlsIInv, Ranges
<1>2. pc["win"].at = "click"  BY <1>1 DEF ClickSwitch, Clicked, Ranges
<1>3. session' \in BOOLEAN
  BY <1>1, <1>2 DEF ClickSwitch, Clicked, Ranges
<1>4. /\ pc' \in Counters /\ pc'["win"].at = "enable" /\ pc'["win"].what = Nothing
      /\ pc'["win"].to = to /\ pc'["net"] = pc["net"]
  BY <1>1, <1>2, GotoIs, GotoWithIs
     DEF ClickSwitch, Clicked, Counters, WinLabels, SwitchLabels, Kinds
<1>5. /\ history' \in Histories /\ history'.unseen = history.unseen
      /\ history'.opened = history.opened
      /\ (history'.raced <=> history.raced \/ (Switching("net") /\ ~Ready))
      /\ history'.twice = history.twice
      /\ (history'.both <=> history.both \/ (Switching("net") /\ Switching("win")))
      /\ history'.dead = history.dead /\ history'.wrong = history.wrong
      /\ history'.kept = history.kept
  BY <1>1, <1>2, NotedIs, UseIs DEF ClickSwitch, Clicked, Histories
<1>6. UNCHANGED <<screen, freed, panels, input, near, walker, held, lock>>
  BY DEF ClickSwitch, Clicked
<1>7. Ranges'  BY <1>1, <1>2, <1>3, <1>4, <1>5, <1>6 DEF Ranges, Screens
<1>8. Places'  BY <1>2, <1>3, <1>4, <1>5, <1>6 DEF ControlsIInv, Places, Kinds
<1>9. RoomLeft'
  BY <1>2, <1>3, <1>4, <1>5, <1>6 DEF ControlsIInv, RoomLeft, Pending, Ranges, Screens
<1>10. OnceEach'  BY <1>2, <1>3, <1>4, <1>5, <1>6 DEF ControlsIInv, OnceEach, Ranges, Places
<1>11. Selected'  BY <1>2, <1>3, <1>4, <1>5, <1>6 DEF ControlsIInv, Selected
<1>12. Meant'  BY <1>2, <1>3, <1>4, <1>5, <1>6 DEF ControlsIInv, Meant, Playable
<1>13. OnlyFields'  BY <1>2, <1>3, <1>4, <1>5, <1>6 DEF ControlsIInv, OnlyFields
<1>14. WhyDisabled'  BY <1>2, <1>3, <1>4, <1>5, <1>6 DEF ControlsIInv, WhyDisabled
<1>15. WhyWalking'  BY <1>2, <1>3, <1>4, <1>5, <1>6 DEF ControlsIInv, WhyWalking
<1> QED  BY <1>7, <1>8, <1>9, <1>10, <1>11, <1>12, <1>13, <1>14, <1>15 DEF ControlsIInv

LEMMA ReleaseKeeps ==
  ASSUME ControlsIInv, NEW k \in Keys, Release(k)
  PROVE  ControlsIInv'
<1> USE ControlsAssumption DEF Thread, Ready, At, Pressed, Switching
<1>1. Ranges /\ history \in Histories /\ pc \in Counters  BY DEF ControlsIInv, Ranges
<1>2. pc["win"].at = "idle"  BY <1>1 DEF Release, Handle, Ranges
<1>3. held' = held \ {k}
  BY <1>1, <1>2 DEF Release, Handle, Ranges
<1>4. /\ pc' \in Counters /\ pc'["win"].at = "release" /\ pc'["win"].what = k
      /\ pc'["win"].to = Nothing /\ pc'["net"] = pc["net"]
  BY <1>1, <1>2, GotoIs, GotoWithIs DEF Release, Handle, Counters, WinLabels, SwitchLabels
<1>5. UNCHANGED <<screen, freed, panels, input, near, walker, session, lock, history>>
  BY DEF Release, Handle
<1>6. Ranges'  BY <1>1, <1>2, <1>3, <1>4, <1>5 DEF Ranges, Screens
<1>7. Places'  BY <1>2, <1>3, <1>4, <1>5 DEF ControlsIInv, Places
<1>8. RoomLeft'
  BY <1>2, <1>3, <1>4, <1>5 DEF ControlsIInv, RoomLeft, Pending, Ranges, Screens
<1>9. OnceEach'  BY <1>2, <1>3, <1>4, <1>5 DEF ControlsIInv, OnceEach, Ranges, Places
<1>10. Selected'  BY <1>2, <1>3, <1>4, <1>5 DEF ControlsIInv, Selected
<1>11. Meant'  BY <1>2, <1>3, <1>4, <1>5 DEF ControlsIInv, Meant, Playable
<1>12. OnlyFields'  BY <1>2, <1>3, <1>4, <1>5 DEF ControlsIInv, OnlyFields
<1>13. WhyDisabled'  BY <1>2, <1>3, <1>4, <1>5 DEF ControlsIInv, WhyDisabled
<1>14. WhyWalking'  BY <1>2, <1>3, <1>4, <1>5 DEF ControlsIInv, WhyWalking
<1> QED  BY <1>6, <1>7, <1>8, <1>9, <1>10, <1>11, <1>12, <1>13, <1>14 DEF ControlsIInv

LEMMA PressKeyKeeps ==
  ASSUME ControlsIInv, NEW k \in Keys, PressKey(k)
  PROVE  ControlsIInv'
<1> USE ControlsAssumption DEF Thread, Ready, At, Pressed, Switching
<1>1. Ranges /\ history \in Histories /\ pc \in Counters  BY DEF ControlsIInv, Ranges
<1>2. pc["win"].at = "idle" /\ (screen.kind = "editor" => screen.id < MaxScreens)
  BY <1>1 DEF PressKey, Down, Handle, Ranges
<1>3. PICK in : in = Bound(input, k)  OBVIOUS
<1>b. /\ in \in Inputs /\ in.mapper = 0 /\ in.up = input.up /\ in.disabled = input.disabled
      /\ in.field = input.field /\ (input.mapper = 0 => in.key = input.key)
      /\ (input.mapper # 0 => in.key = (IF k = "esc" THEN Nothing ELSE k))
  BY <1>1, <1>3, BoundIs DEF Ranges, Keys
<1>4. /\ input' \in Inputs /\ input'.mapper = 0 /\ input'.up = input.up
      /\ input'.disabled = input.disabled /\ input'.field \in {0, input.field}
      /\ (input.mapper = 0 => input'.key = input.key)
      /\ (input.mapper # 0 => input'.key = (IF k = "esc" THEN Nothing ELSE k))
  BY <1>1, <1>2, <1>3, <1>b DEF PressKey, Down, Handle, Ranges, Inputs, Users
<1>5. /\ (input'.key = k => held' = held \cup {k}) /\ (input'.key # k => held' = held)
      /\ k \notin held
  BY <1>1, <1>2, <1>3, <1>b DEF PressKey, Down, Handle, Ranges, Users
<1>6. /\ pc' \in Counters /\ (input.field # 0 => pc' = pc)
      /\ (input.field = 0 => pc'["win"].at = "press" /\ pc'["win"].what = k)
      /\ pc'["net"] = pc["net"]
  <2>1. IF input.field # 0 THEN pc' = pc ELSE Handle("press", k)  BY <1>2, <1>3, <1>b DEF PressKey
  <2>2. "press" \in WinLabels /\ k \in Keys \cup Elements \cup {Nothing} \cup Nat  BY DEF WinLabels
  <2> QED  BY <1>1, <2>1, <2>2, HandleIs
<1>f. PICK f : f = Use(history, "mapper", input.mapper)  OBVIOUS
<1>g. /\ f \in Histories /\ f.unseen = history.unseen /\ f.opened = history.opened
      /\ f.raced = history.raced /\ f.twice = history.twice /\ f.both = history.both
      /\ f.dead = (IF input.mapper \in freed THEN history.dead \cup {"mapper"} ELSE history.dead)
      /\ f.wrong = history.wrong /\ f.kept = history.kept
  BY <1>1, <1>f, UseIs DEF Users
<1>u. PICK w : w = Rebound(f, input, k)  OBVIOUS
<1>v. /\ w \in Histories
      /\ w.unseen =
           (IF input.mapper # 0 /\ input.key \in held
            THEN f.unseen \cup {"rebound"} ELSE f.unseen)
      /\ w.opened = f.opened /\ w.raced = f.raced /\ w.twice = f.twice /\ w.both = f.both
      /\ w.dead = f.dead /\ w.wrong = f.wrong /\ w.kept = f.kept
  BY <1>g, <1>u DEF Rebound, Histories, Causes
<1>h. history' = (IF input.field # 0 THEN Use(w, "field", input.field) ELSE w)
  BY <1>3, <1>b, <1>f, <1>u DEF PressKey
<1>i. /\ history' \in Histories /\ history'.unseen = w.unseen /\ history'.opened = w.opened
      /\ history'.raced = w.raced /\ history'.twice = w.twice /\ history'.both = w.both
      /\ history'.dead =
           (IF input.field # 0 /\ input.field \in freed
            THEN w.dead \cup {"field"} ELSE w.dead)
      /\ history'.wrong = w.wrong /\ history'.kept = w.kept
  BY <1>v, <1>h, UseIs, ZenonT(60) DEF Users
<1>7. /\ history' \in Histories /\ history'.opened = history.opened
      /\ history'.raced = history.raced /\ history'.twice = history.twice
      /\ history'.both = history.both /\ history'.wrong = history.wrong
      /\ history'.kept = history.kept
      /\ history'.unseen =
           (IF input.mapper # 0 /\ input.key \in held
            THEN history.unseen \cup {"rebound"} ELSE history.unseen)
      /\ history'.dead \subseteq history.dead \cup (IF input.mapper \in freed THEN {"mapper"} ELSE {})
                              \cup (IF input.field \in freed THEN {"field"} ELSE {})
  BY <1>g, <1>v, <1>i
<1>8. UNCHANGED <<screen, freed, panels, near, walker, session, lock>>
  BY DEF PressKey, Down, Handle
<1>a. ~history.raced => input.mapper \notin freed /\ (~history.kept => input.field \notin freed)
  <2>1. 0 \notin freed  BY <1>1 DEF Ranges
  <2>2. ~history.raced /\ ~Switching("net") => screen.id \notin freed
    BY <1>2 DEF ControlsIInv, OnceEach
  <2>3. ~history.raced => input.mapper \notin freed
    BY <1>2, <2>1 DEF ControlsIInv, OnceEach, Selected
  <2> QED  BY <2>1, <2>2, <2>3 DEF ControlsIInv, Selected
<1>r. input'.field <= screen.id /\ input'.mapper <= screen.id /\ held' \subseteq Keys
  <2>1. held \subseteq Keys /\ screen.id \in Nat /\ input.field \in Nat /\ input.field <= screen.id
    BY <1>1 DEF Ranges, Screens, Inputs
  <2>2. held' = held \/ held' = held \cup {k}  BY <1>5
  <2>3. k \in Keys  BY DEF Keys
  <2>4. input'.field <= screen.id /\ input'.mapper <= screen.id  BY <1>4, <2>1
  <2> QED  BY <2>1, <2>2, <2>3, <2>4
<1>9. Ranges'
  BY <1>1, <1>2, <1>3, <1>4, <1>5, <1>6, <1>7, <1>8, <1>a, <1>r DEF Ranges, Screens
<1>10. Places'
  BY <1>2, <1>3, <1>4, <1>5, <1>6, <1>7, <1>8, <1>a DEF ControlsIInv, Places, Keys
<1>11. RoomLeft'
  BY <1>2, <1>3, <1>4, <1>5, <1>6, <1>7, <1>8, <1>a
     DEF ControlsIInv, RoomLeft, Pending, Ranges, Screens
<1>12. OnceEach'
  BY <1>2, <1>3, <1>4, <1>5, <1>6, <1>7, <1>8, <1>a
     DEF ControlsIInv, OnceEach, Ranges, Places
<1>13. Selected'
  BY <1>2, <1>3, <1>4, <1>5, <1>6, <1>7, <1>8, <1>a DEF ControlsIInv, Selected
<1>14. Meant'
  BY <1>2, <1>3, <1>4, <1>5, <1>6, <1>7, <1>8, <1>a DEF ControlsIInv, Meant, Playable
<1>15. OnlyFields'
  BY <1>2, <1>3, <1>4, <1>5, <1>6, <1>7, <1>8, <1>a DEF ControlsIInv, OnlyFields
<1>16. WhyDisabled'
  BY <1>2, <1>3, <1>4, <1>5, <1>6, <1>7, <1>8, <1>a DEF ControlsIInv, WhyDisabled
<1>17. WhyWalking'
  BY <1>2, <1>3, <1>4, <1>5, <1>6, <1>7, <1>8, <1>a DEF ControlsIInv, WhyWalking
<1> QED  BY <1>9, <1>10, <1>11, <1>12, <1>13, <1>14, <1>15, <1>16, <1>17 DEF ControlsIInv

LEMMA PressMouseKeeps ==
  ASSUME ControlsIInv, NEW e \in Elements \cup {Nothing}, PressMouse(e)
  PROVE  ControlsIInv'
<1> USE ControlsAssumption DEF Thread, Ready, At, Pressed, Switching
<1>1. Ranges /\ history \in Histories /\ pc \in Counters  BY DEF ControlsIInv, Ranges
<1>2. pc["win"].at = "idle"
      /\ (e # Nothing => e \in Elements /\ screen.id < MaxScreens)
      /\ (e \in {"open", "continue", "disconnect"} => screen.kind = "game")  BY <1>1
         DEF PressMouse, Down, Handle, Ranges, Shown, Screens, Kinds, Elements, Nothing
<1>3. PICK in : in = Bound(input, "mouse")  OBVIOUS
<1>b. /\ in \in Inputs /\ in.mapper = 0 /\ in.up = input.up /\ in.disabled = input.disabled
      /\ in.field = input.field /\ (input.mapper = 0 => in.key = input.key)
      /\ (input.mapper # 0 => in.key = "mouse")
  BY <1>1, <1>3, BoundIs DEF Ranges, Keys
<1>4. /\ input' \in Inputs /\ input'.mapper = 0 /\ input'.up = input.up
      /\ input'.disabled = input.disabled /\ input'.field = 0
      /\ (input.mapper = 0 => input'.key = input.key)
      /\ (input.mapper # 0 => input'.key = "mouse")
  BY <1>1, <1>2, <1>3, <1>b DEF PressMouse, Down, Handle, Ranges, Inputs, Users
<1>5. /\ (input'.key = "mouse" => held' = held \cup {"mouse"}) /\ (input'.key # "mouse" => held' = held)
      /\ "mouse" \notin held
  BY <1>1, <1>2, <1>3, <1>b DEF PressMouse, Down, Handle, Ranges, Users
<1>6. /\ pc' \in Counters /\ (e = Nothing => pc'["win"].at = "press" /\ pc'["win"].what = "mouse")
      /\ (e # Nothing => pc'["win"].at = "click" /\ pc'["win"].what = e) /\ pc'["net"] = pc["net"]
  <2>1. IF e = Nothing THEN Handle("press", "mouse") ELSE Handle("click", e)  BY <1>2 DEF PressMouse
  <2>2. /\ "press" \in WinLabels /\ "click" \in WinLabels
        /\ "mouse" \in Keys /\ e \in Elements \cup {Nothing}
    BY DEF WinLabels, Keys
  <2> QED  BY <1>1, <2>1, <2>2, HandleIs
<1>e. PICK x : x = Use(history, "field", input.field)  OBVIOUS
<1>j. /\ x \in Histories /\ x.unseen = history.unseen /\ x.opened = history.opened
      /\ x.raced = history.raced /\ x.twice = history.twice /\ x.both = history.both
      /\ x.dead = (IF input.field \in freed THEN history.dead \cup {"field"} ELSE history.dead)
      /\ x.wrong = history.wrong /\ x.kept = history.kept
  BY <1>1, <1>e, UseIs DEF Users
<1>f. PICK f : f = Use(x, "mapper", input.mapper)  OBVIOUS
<1>g. /\ f \in Histories /\ f.unseen = history.unseen /\ f.opened = history.opened
      /\ f.raced = history.raced /\ f.twice = history.twice /\ f.both = history.both
      /\ f.dead = (IF input.mapper \in freed THEN x.dead \cup {"mapper"} ELSE x.dead)
      /\ f.wrong = history.wrong /\ f.kept = history.kept
  BY <1>j, <1>f, UseIs, ZenonT(60) DEF Users
<1>u. PICK w : w = Rebound(f, input, "mouse")  OBVIOUS
<1>v. /\ w \in Histories
      /\ w.unseen =
           (IF input.mapper # 0 /\ input.key \in held
            THEN f.unseen \cup {"rebound"} ELSE f.unseen)
      /\ w.opened = f.opened /\ w.raced = f.raced /\ w.twice = f.twice /\ w.both = f.both
      /\ w.dead = f.dead /\ w.wrong = f.wrong /\ w.kept = f.kept
  BY <1>g, <1>u DEF Rebound, Histories, Causes
<1>h. history' = w
  BY <1>e, <1>f, <1>u DEF PressMouse
<1>i. /\ history' \in Histories /\ history'.unseen = w.unseen /\ history'.opened = w.opened
      /\ history'.raced = w.raced /\ history'.twice = w.twice /\ history'.both = w.both
      /\ history'.dead = w.dead /\ history'.wrong = w.wrong /\ history'.kept = w.kept
      /\ x.dead = (IF input.field \in freed THEN history.dead \cup {"field"} ELSE history.dead)
  BY <1>v, <1>h, <1>j
<1>7. /\ history' \in Histories /\ history'.opened = history.opened
      /\ history'.raced = history.raced /\ history'.twice = history.twice
      /\ history'.both = history.both /\ history'.wrong = history.wrong
      /\ history'.kept = history.kept
      /\ history'.unseen =
           (IF input.mapper # 0 /\ input.key \in held
            THEN history.unseen \cup {"rebound"} ELSE history.unseen)
      /\ history'.dead \subseteq history.dead \cup (IF input.mapper \in freed THEN {"mapper"} ELSE {})
                              \cup (IF input.field \in freed THEN {"field"} ELSE {})
  BY <1>g, <1>v, <1>i
<1>8. UNCHANGED <<screen, freed, panels, near, walker, session, lock>>
  BY DEF PressMouse, Down, Handle
<1>a. ~history.raced => input.mapper \notin freed /\ (~history.kept => input.field \notin freed)
  <2>1. 0 \notin freed  BY <1>1 DEF Ranges
  <2>2. ~history.raced /\ ~Switching("net") => screen.id \notin freed
    BY <1>2 DEF ControlsIInv, OnceEach
  <2>3. ~history.raced => input.mapper \notin freed
    BY <1>2, <2>1 DEF ControlsIInv, OnceEach, Selected
  <2> QED  BY <2>1, <2>2, <2>3 DEF ControlsIInv, Selected
<1>r. input'.field <= screen.id /\ input'.mapper <= screen.id /\ held' \subseteq Keys
  <2>1. held \subseteq Keys /\ screen.id \in Nat /\ input.field \in Nat /\ input.field <= screen.id
    BY <1>1 DEF Ranges, Screens, Inputs
  <2>2. held' = held \/ held' = held \cup {"mouse"}  BY <1>5
  <2>3. "mouse" \in Keys  BY DEF Keys
  <2>4. input'.field <= screen.id /\ input'.mapper <= screen.id  BY <1>4, <2>1
  <2> QED  BY <2>1, <2>2, <2>3, <2>4
<1>9. Ranges'
  BY <1>1, <1>2, <1>3, <1>4, <1>5, <1>6, <1>7, <1>8, <1>a, <1>r DEF Ranges, Screens
<1>10. Places'
  BY <1>2, <1>3, <1>4, <1>5, <1>6, <1>7, <1>8, <1>a DEF ControlsIInv, Places, Keys
<1>11. RoomLeft'
  BY <1>2, <1>3, <1>4, <1>5, <1>6, <1>7, <1>8, <1>a
     DEF ControlsIInv, RoomLeft, Pending, Ranges, Screens
<1>12. OnceEach'
  BY <1>2, <1>3, <1>4, <1>5, <1>6, <1>7, <1>8, <1>a
     DEF ControlsIInv, OnceEach, Ranges, Places
<1>13. Selected'
  BY <1>2, <1>3, <1>4, <1>5, <1>6, <1>7, <1>8, <1>a DEF ControlsIInv, Selected
<1>14. Meant'
  BY <1>2, <1>3, <1>4, <1>5, <1>6, <1>7, <1>8, <1>a DEF ControlsIInv, Meant, Playable
<1>15. OnlyFields'
  BY <1>2, <1>3, <1>4, <1>5, <1>6, <1>7, <1>8, <1>a DEF ControlsIInv, OnlyFields
<1>16. WhyDisabled'
  BY <1>2, <1>3, <1>4, <1>5, <1>6, <1>7, <1>8, <1>a DEF ControlsIInv, WhyDisabled
<1>17. WhyWalking'
  BY <1>2, <1>3, <1>4, <1>5, <1>6, <1>7, <1>8, <1>a DEF ControlsIInv, WhyWalking
<1> QED  BY <1>9, <1>10, <1>11, <1>12, <1>13, <1>14, <1>15, <1>16, <1>17 DEF ControlsIInv

-----------------------------------------------------------------------------
LEMMA ControlsInitHolds == ControlsInit => ControlsIInv
<1> SUFFICES ASSUME ControlsInit PROVE ControlsIInv  OBVIOUS
<1> USE ControlsAssumption DEF ControlsInit, Thread, Switching, At, Pressed, Ready
<1>1. pc \in Counters /\ \A t \in Thread : pc[t].at = "idle"
  BY DEF Counters, Idle, WinLabels
<1>2. history \in Histories  BY DEF Histories
<1>3. panels \in Panels /\ input \in Inputs /\ walker \in Walkers /\ screen \in Screens
  BY DEF Panels, Hidden, Inputs, Keys, Walkers, Screens, Kinds
<1>4. Ranges
  <2>1. screen.id = 1 /\ input.field = 0 /\ input.mapper = 0  OBVIOUS
  <2>2. near \in {Nothing, "vault_chest", "guild_board"}  OBVIOUS
  <2>3. session \in BOOLEAN /\ held \subseteq Keys /\ lock \in Thread \cup {Nothing}  OBVIOUS
  <2>4. input.field <= screen.id /\ input.mapper <= screen.id /\ freed \subseteq 1..screen.id
    BY <2>1
  <2> HIDE DEF ControlsInit, Thread
  <2> QED  BY <1>1, <1>2, <1>3, <2>2, <2>3, <2>4 DEF Ranges
<1>5. Places /\ RoomLeft  BY <1>1 DEF Places, RoomLeft, Pending
<1>6. OnceEach /\ Selected /\ Meant /\ OnlyFields
  BY <1>1 DEF OnceEach, Selected, Meant, OnlyFields
<1>7. WhyDisabled /\ WhyWalking  BY <1>1 DEF WhyDisabled, WhyWalking
<1> QED  BY <1>4, <1>5, <1>6, <1>7 DEF ControlsIInv

LEMMA ControlsStepKeeps == ControlsIInv /\ [ControlsNext]_controlsVars => ControlsIInv'
<1> SUFFICES ASSUME ControlsIInv, [ControlsNext]_controlsVars PROVE ControlsIInv'  OBVIOUS
<1>1. CASE UNCHANGED controlsVars
  BY <1>1
     DEF controlsVars, ControlsIInv, Ranges, Places, RoomLeft, OnceEach, Selected, Meant,
            OnlyFields,
       WhyDisabled, WhyWalking, Pending, Switching, At, Ready, Pressed, Playable
<1>2. CASE User  BY <1>2, CloseKeeps, PressKeyKeeps, ReleaseKeeps, PressMouseKeeps DEF User
<1>3. ASSUME NEW t \in Thread, Switch(t) PROVE ControlsIInv'
  BY <1>3, DropKeeps, ClearMapKeeps, ResetKeeps, EnableKeeps, DeinitKeeps, DestroyKeeps,
         InitScreenKeeps
     DEF Switch
<1>4. CASE Handling
  BY <1>3, <1>4, PressIgnoredKeeps, PressTakenKeeps, MoveUpKeeps, OpenOptionsKeeps,
         OpenChatKeeps,
     PressOtherKeeps, ReleaseIgnoredKeeps, ReleaseTakenKeeps, updateStateKeeps, ClickSwitchKeeps,
     ClickSelectKeeps, ClickWrongKeeps, ClickOpenKeeps, ClickCloseKeeps, JoinedKeeps, LastDeinitKeeps
     DEF Handling, Thread
<1>5. CASE PanelFrame \/ disconnect \/ Arrive \/ Paralyse \/ Approach
  BY <1>5, PanelFrameKeeps, disconnectKeeps, ArriveKeeps, ParalyseKeeps, ApproachKeeps
<1> QED  BY <1>1, <1>2, <1>3, <1>4, <1>5 DEF ControlsNext, Thread

\* The invariant of keys, panels and screens holds in every behaviour.
THEOREM ControlsInvariance == ControlsSpec => []ControlsIInv
BY ControlsInitHolds, ControlsStepKeeps, PTL DEF ControlsSpec

\* The player walks without a key only if its release went unseen or the network
\* thread disconnected in the middle of an event (reset, keyRelease, updateState).
THEOREM WalksOnlyByKey == ControlsSpec => []WalksByKey
<1>1. ControlsIInv => WalksByKey  BY DEF ControlsIInv, WhyWalking, WalksByKey
<1> QED  BY <1>1, ControlsInvariance, PTL

\* Input is off only while the options are open, or after open was pressed
\* (setOptionsVisible, basicPanelCallback, switchScreen).
THEOREM InputDisabledForReason == ControlsSpec => []DisabledForReason
<1>1. ControlsIInv => DisabledForReason  BY DEF ControlsIInv, WhyDisabled, DisabledForReason
<1> QED  BY <1>1, ControlsInvariance, PTL

\* Screens are destroyed once and not used then, but for the chat field; with
\* the type invariant (switchScreen, deinit).
THEOREM ScreensAreLive == ControlsSpec => []ScreensLive
<1>1. ControlsIInv => ControlsTypeOK
  BY ControlsAssumption
     DEF ControlsIInv, Ranges, Places, RoomLeft, ControlsTypeOK, Screens, Panels, Inputs,
            Walkers
<1>2. ControlsIInv => ScreensLive
  BY <1>1 DEF ControlsIInv, OnceEach, OnlyFields, ScreensLive
<1> QED  BY <1>2, ControlsInvariance, PTL
=============================================================================
