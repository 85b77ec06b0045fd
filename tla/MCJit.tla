------------------------------- MODULE MCJit -------------------------------
(***************************************************************************)
(* Small guest programs for the run loop: two locations x and y, one and   *)
(* two words of code, with their single-step descriptors xs and ys.        *)
(* Version 1 of guest code, where there is one, rewrites a word of y.      *)
(***************************************************************************)
EXTENDS Jit, TLC

CONSTANTS x, y, xs, ys, none

MCDesc == {x, y, xs, ys}
MCLoc == {x, y}
MCSingleStep == (x :> xs) @@ (y :> ys)
MCAddr == 0..2
MCHash == [d \in MCDesc |-> 1]
MCBlocks == {BlockOf(d, Translate[d][v]) : d \in Desc, v \in Version}
MCWritten == [v \in 1..MaxVersion |-> 2]
TopRange == {[start |-> 2, length |-> 1]}
TopAndEmptyRanges == TopRange \cup {[start |-> 1, length |-> 0], [start |-> 0, length |-> 0]}

To(k, l) == [kind |-> k, next |-> l, check |-> FALSE]
Checked(k, l) == [kind |-> k, next |-> l, check |-> TRUE]
Code(cover, terms) ==
  [cover |-> cover, push |-> {}, condfail |-> {}, mem |-> {}, svc |-> FALSE, terms |-> terms]
Program(atX, atXs, atY) ==
  [d \in MCDesc |-> [v \in Version |-> CASE d = x -> atX [] d = xs -> atXs [] OTHER -> atY[v]]]

(* x calls y, y returns to x or y; the rewritten y branches indirectly.    *)
CallReturn ==
  LET call(r) == [Code({0}, {To("LinkBlock", y)}) EXCEPT !.push = {r}]
  IN Program(call(y), call(ys),
             [v \in Version |-> IF v = 0 THEN Code({1, 2}, {To("PopRSBHint", x), To("PopRSBHint", y)})
                                ELSE Code({1, 2}, {To("FastDispatchHint", x), To("FastDispatchHint", y)})])

(* x accesses memory under a condition and goes on to y; y calls the       *)
(* supervisor, and once rewritten needs the interpreter.                   *)
Services ==
  LET load == [Code({0}, {To("LinkBlock", y), To("LinkBlockFast", y)})
                 EXCEPT !.mem = {x}, !.condfail = {y}]
      svc == [Code({1, 2}, {Checked("PopRSBHint", x)}) EXCEPT !.svc = TRUE, !.push = {x}]
  IN Program(load, load, [v \in Version |-> IF v = 0 THEN svc ELSE Code({1, 2}, {To("Interpret", y)})])

(* x spins, or goes to y, which returns or branches to either.             *)
Spin ==
  LET loop == Code({0}, {To("LinkBlock", x), To("LinkBlock", y)})
      back_ == Code({1, 2}, {To("PopRSBHint", x), To("FastDispatchHint", x), To("FastDispatchHint", y),
                        To("ReturnToDispatch", x)})
  IN Program(loop, loop, [v \in Version |-> back_])

(* y branches to itself, indirectly.                                       *)
Branch ==
  LET link == Code({0}, {To("LinkBlock", y)})
  IN Program(link, link, [v \in Version |-> Code({1, 2}, {To("FastDispatchHint", y)})])

(* x loads from memory and calls y, which returns to x or y.               *)
LoadCall ==
  LET call(r) == [Code({0}, {To("LinkBlock", y)}) EXCEPT !.push = {r}, !.mem = {x}]
  IN Program(call(y), call(ys), [v \in Version |-> Code({1, 2}, {To("PopRSBHint", x), To("PopRSBHint", y)})])
=============================================================================
