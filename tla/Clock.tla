------------------------------- MODULE Clock --------------------------------
(* The wall clock of the daemon's in-memory windows.                       *)
EXTENDS Naturals

CONSTANT MaxTime  \* bound on the clock

VARIABLE now

Tick == now < MaxTime /\ now' = now + 1
=============================================================================
