------------------------- MODULE MCExclusiveMonitor -------------------------
(***************************************************************************)
(* Two processors, one with callbacks and one inline, on two units of      *)
(* memory.  The accesses are to one unit each, or to the second unit and   *)
(* to both, so that one region contains the other.                         *)
(***************************************************************************)
EXTENDS ExclusiveMonitor

CONSTANTS p1, p2

OneUnit == [address |-> 0, size |-> 1]
SecondUnit == [address |-> 1, size |-> 1]
BothUnits == [address |-> 0, size |-> 2]

Single == {OneUnit}
Disjoint == {OneUnit, SecondUnit}
Overlapping == {SecondUnit, BothUnits}
=============================================================================
