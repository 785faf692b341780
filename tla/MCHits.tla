------------------------------ MODULE MCHits ------------------------------
(* Three kinds of shots, and an enemy that was hurt before it was seen.      *)
EXTENDS Hits

Fired ==
  {[by |-> "own", multi |-> FALSE, effect |-> "none", damage |-> Damage],
   [by |-> "own", multi |-> TRUE, effect |-> "slowed", damage |-> 0],
   [by |-> "enemy", multi |-> TRUE, effect |-> "invulnerable", damage |-> Damage]}

Started == [e \in Enemies \cup {Me} |-> IF e = Me THEN MaxHp ELSE 1]
=============================================================================
