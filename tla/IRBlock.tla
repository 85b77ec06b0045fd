------------------------------ MODULE IRBlock -------------------------------
(***************************************************************************)
(* IR::Block and IR::Inst as the optimization passes use them: a list of   *)
(* instructions, each counting the uses of its value.                      *)
(***************************************************************************)
EXTENDS Integers, SequencesExt

(* A block has its instructions, named by their place in inst, and the     *)
(* order in which they are executed.  A value is an instruction, a         *)
(* negative number for an immediate, or Empty.                             *)
Empty == 0

IsIdentity(b, v) == v > 0 /\ b.inst[v].op = "Identity"

RECURSIVE GetInstRecursive(_, _)
GetInstRecursive(b, v) == IF IsIdentity(b, v) THEN GetInstRecursive(b, b.inst[v].args[1]) ELSE v

IsImmediate(b, v) == GetInstRecursive(b, v) <= 0

AddUse(b, v) == IF IsImmediate(b, v) THEN b ELSE [b EXCEPT !.inst[v].uses = @ + 1]
UndoUse(b, v) == IF IsImmediate(b, v) THEN b ELSE [b EXCEPT !.inst[v].uses = @ - 1]

SetArgKeepingUse(b, i, k, v) == [AddUse(b, v) EXCEPT !.inst[i].args[k] = v]

SetArg(b, i, k, v) == [AddUse(UndoUse(b, b.inst[i].args[k]), v) EXCEPT !.inst[i].args[k] = v]

InvalidateKeepingUses(b, i) == [b EXCEPT !.inst[i].op = "Void", !.inst[i].args = <<>>]

Invalidate(b, i) ==
  [FoldLeft(UndoUse, b, b.inst[i].args) EXCEPT !.inst[i].op = "Void", !.inst[i].args = <<>>]

ReplaceUsesWith(b, i, v) ==
  [AddUse(Invalidate(b, i), v) EXCEPT !.inst[i].op = "Identity", !.inst[i].args = <<v>>]

Erase(b, i) == [b EXCEPT !.order = SelectSeq(@, LAMBDA j : j # i)]

NewInst(op, reg, type, args) ==
  [op |-> op, reg |-> reg, type |-> type, args |-> args, uses |-> 0]

(* A new instruction behind i. *)
InsertAfter(b, i, inst) ==
  LET at == (CHOOSE n \in 1..Len(b.order) : b.order[n] = i) + 1
  IN FoldLeft(AddUse, [b EXCEPT !.inst = Append(@, inst), !.order = InsertAt(@, at, Len(b.inst) + 1)],
              inst.args)

NoInsts == [inst |-> <<>>, order |-> <<>>]

AllImmediates(b, i) == \A k \in 1..Len(b.inst[i].args) : IsImmediate(b, b.inst[i].args[k])

----------------------------------------------------------------------------
(* VerificationPass counts the uses of every value.  What it does not      *)
(* check but the register allocator relies on: a value is defined before   *)
(* each of its uses.                                                       *)
UsesIn(b, i) ==
  {u \in ToSet(b.order) \X (1..3) : u[2] <= Len(b.inst[u[1]].args) /\ b.inst[u[1]].args[u[2]] = i}

WellUsed(b) ==
  \A n \in 1..Len(b.order) :
    LET i == b.order[n]
        args == b.inst[i].args
    IN /\ ~IsImmediate(b, i) => b.inst[i].uses = Cardinality(UsesIn(b, i))
       /\ \A k \in 1..Len(args) : args[k] > 0 => args[k] \in ToSet(SubSeq(b.order, 1, n - 1))
=============================================================================
