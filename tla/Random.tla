------------------------------- MODULE Random -------------------------------
(***************************************************************************)
(* Random of src/src/utils.zig: the generator the client and the server    *)
(* both run, from the same seed, to agree on the damage of the player's    *)
(* shots.  It multiplies modulo a Mersenne number without ever leaving an  *)
(* unsigned word, by working on the two halves of the seed.                *)
(***************************************************************************)
EXTENDS Integers

CONSTANTS
  Half,       \* half a word: 2^16 in the code
  Multiplier  \* 16807 in the code

ASSUME RandomAssumption ==
  /\ Half \in Nat /\ Multiplier \in Nat
  /\ Half % 2 = 0 /\ Half >= 2
  /\ Multiplier <= Half \div 2

Word    == 0 .. Half * Half - 1
Modulus == (Half \div 2) * Half - 1

\* The sum of the products of both halves, the upper one folded around.
Sum(seed) ==
  LET hi == Multiplier * (seed \div Half)
  IN  Multiplier * (seed % Half)
        + (hi % (Half \div 2)) * Half + hi \div (Half \div 2)

gen(seed) == IF Sum(seed) > Modulus THEN Sum(seed) - Modulus ELSE Sum(seed)

\* A number of min .. max, never max itself unless it is the only one.
InRange(min, max, n) == IF min = max THEN min ELSE min + (n % (max - min))

=============================================================================
