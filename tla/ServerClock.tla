---------------------------- MODULE ServerClock -----------------------------
(***************************************************************************)
(* The clock that the process's caches and limiters read, in ticks.        *)
(***************************************************************************)
EXTENDS Naturals

CONSTANT Horizon               \* bound: the last tick

ASSUME HorizonAssumption == Horizon \in Nat

VARIABLE now

Time == 0 .. Horizon

Smaller(a, b) == IF a < b THEN a ELSE b

=============================================================================
