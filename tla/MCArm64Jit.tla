----------------------------- MODULE MCArm64Jit -----------------------------
(***************************************************************************)
(* A small guest program for the arm64 run loop: x loads from memory under *)
(* a condition and calls y; y calls the supervisor and returns.  Version 1 *)
(* of guest code rewrites the first word of y, which then branches         *)
(* indirectly.                                                             *)
(***************************************************************************)
EXTENDS Arm64Jit

CONSTANTS x, y, none

MCDesc == {x, y}
MCAddr == {1, 2, 3}
MCBlocks == {BlockOf(d, Translate[d][v]) : d \in Desc, v \in Version}
MCWritten == [v \in 1..MaxVersion |-> 2]
MCGarbage == {y}

To(k, l) == [kind |-> k, next |-> l, check |-> FALSE]
Checked(k, l) == [kind |-> k, next |-> l, check |-> TRUE]

CallReturn ==
  LET call == [cover |-> {1}, push |-> {y}, condfail |-> {y}, mem |-> {x}, svc |-> FALSE,
                  terms |-> {To("LinkBlock", y), To("LinkBlockFast", y)}]
      return(svc, terms) == [cover |-> {2, 3}, push |-> {}, condfail |-> {}, mem |-> {}, svc |-> svc,
                             terms |-> terms]
      atY(v) == IF v = 0 THEN return(TRUE, {Checked("PopRSBHint", x), To("PopRSBHint", y)})
                ELSE return(FALSE, {To("FastDispatchHint", x), To("ReturnToDispatch", y)})
  IN [d \in MCDesc |-> [v \in Version |-> IF d = x THEN call ELSE atY(v)]]
=============================================================================
