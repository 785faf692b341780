----------------------------- MODULE MCInventory -----------------------------
(* A sword that is worn in slot 1, a potion, one bag and another, and a      *)
(* player whose third slot is that of the backpack he has not.               *)
EXTENDS Inventory

CONSTANTS bag, other, sword, potion

MCEquipSlot == [i \in Items |-> IF i = sword THEN 1 ELSE Outside]
MCInitialItems ==
  [h \in Holders |->
     CASE h = Me  -> [s \in InvSlots |-> IF s = 2 THEN sword ELSE Empty]
       [] h = bag -> [s \in BoxSlots |-> potion]
       [] OTHER   -> [s \in BoxSlots |-> sword]]

=============================================================================
