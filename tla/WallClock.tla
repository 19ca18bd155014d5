------------------------------ MODULE WallClock ------------------------------
(***************************************************************************)
(* The time that the caches of vvaves measure their age by (time.Now in      *)
(* registry/keys.go and internal/keyvoice): every process reads the same.    *)
(***************************************************************************)
EXTENDS Integers

CONSTANT MaxTicks    \* bound of the model: the last time there is

ASSUME TicksOK == MaxTicks \in Nat

VARIABLE time

Ticks == 0 .. MaxTicks

Tick == time < MaxTicks /\ time' = time + 1
=============================================================================
