-------------------------------- MODULE Fifo --------------------------------
(***************************************************************************)
(* What a bounded first-in first-out store promises, with no ring, no head *)
(* index and no length: the oldest item leaves first, removing an item     *)
(* from the middle keeps the order of the others, and there are never more *)
(* than Bound.  ReadyRing (the scheduler's ready order) and BoundedQueue   *)
(* (schedule.Queue) implement it.                                          *)
(***************************************************************************)
EXTENDS Naturals, Sequences

CONSTANTS Items, Bound

VARIABLES
  fifo,
  event   \* the last operation, with what it was given or what it returned

Init == fifo = <<>> /\ event = <<"new">>

Push(x) ==
  /\ Len(fifo) < Bound
  /\ fifo' = Append(fifo, x)
  /\ event' = <<"push", x>>

Pop ==
  /\ fifo # <<>>
  /\ fifo' = Tail(fifo)
  /\ event' = <<"pop", Head(fifo)>>

Remove(x) ==
  /\ fifo' = SelectSeq(fifo, LAMBDA y : y # x)
  /\ event' = <<"remove", x>>

Clear ==
  /\ fifo' = <<>>
  /\ event' = <<"clear">>

Next == (\E x \in Items : Push(x) \/ Remove(x)) \/ Pop \/ Clear

Spec == Init /\ [][Next]_<<fifo, event>>
=============================================================================
