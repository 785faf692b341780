-------------------------------- MODULE Fifo --------------------------------
(***************************************************************************)
(* What the users of src/src/spsc.zig rely on: a queue.  A push appends    *)
(* its value, a pop that returns a value returns the oldest one, once.     *)
(* A pop that finds nothing changes nothing and is a stuttering step.      *)
(* Closing the queue forgets what is left in it, opening it again starts   *)
(* empty.                                                                  *)
(***************************************************************************)
EXTENDS Naturals, Sequences

CONSTANT Values     \* the values that may be pushed

VARIABLES
  items,            \* pushed and not yet popped, oldest first
  out               \* every value popped since the queue was opened

fifoVars == <<items, out>>

FifoInit ==
  /\ items = <<>>
  /\ out = <<>>

PushValue(v) ==
  /\ items' = Append(items, v)
  /\ UNCHANGED out

PopValue ==
  /\ items # <<>>
  /\ out' = Append(out, Head(items))
  /\ items' = Tail(items)

Reopen ==
  /\ items' = <<>>
  /\ out' = <<>>

FifoNext ==
  \/ \E v \in Values : PushValue(v)
  \/ PopValue
  \/ Reopen

FifoSpec == FifoInit /\ [][FifoNext]_fifoVars
=============================================================================
