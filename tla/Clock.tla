-------------------------------- MODULE Clock --------------------------------
(***************************************************************************)
(* The clock that a controller reads, once in each mutation of its store.  *)
(***************************************************************************)
EXTENDS Naturals

CONSTANT MaxTime    \* bound: the clock stops here

ASSUME ClockAssumption == MaxTime \in Nat

VARIABLE now

Tick == now < MaxTime /\ now' = now + 1

==============================================================================
