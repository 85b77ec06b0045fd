------------------------ MODULE ConstantPropagation ------------------------
(***************************************************************************)
(* ConstantPropagation: arithmetic on immediates is done when a block is   *)
(* compiled.  The pass visits the instructions in order; a step of this    *)
(* module is the visit of one.                                             *)
(*                                                                         *)
(* The type of an instruction is <<bits of its operands, of its result>>.  *)
(* Words are kept to scale: a byte has Byte bits, a U64 eight bytes.  Only *)
(* the amount of a shift is a number, of a type U8 that is not scaled.     *)
(***************************************************************************)
EXTENDS IRBlock, Bitwise

CONSTANTS Byte,            \* bits of a byte
          ArithmeticCode,  \* guest code of arithmetic instructions
          Arithmetic(_),   \* the block it is translated to
          Inputs           \* valuations [x, c] of the words and carries the block reads

ASSUME ByteAssumption == Byte \in Nat \ {0}

VARIABLES folded,  \* the block
          visited, \* how many of its instructions have been visited
          trapped  \* the compiler itself has divided INT64_MIN by -1

foldVars == <<folded, visited, trapped>>

Bits(t) == IF t = 1 THEN 1 ELSE Byte * (t \div 8)
Word(t, n) == n % 2^Bits(t)
Signed(t, w) == IF w >= 2^(Bits(t) - 1) THEN w - 2^Bits(t) ELSE w

Immediate(w) == -1 - w
GetImmediateAsU64(b, v) == -1 - GetInstRecursive(b, v)

IsUnsignedImmediate(b, v, w) == IsImmediate(b, v) /\ GetImmediateAsU64(b, v) = w
IsZero(b, v) == IsUnsignedImmediate(b, v, 0)

IsAPseudoOperation(op) == op \in {"GetCarryFromOp", "MostSignificantBit", "IsZero"}
PseudoOperations(b, i) ==
  {j \in 1..Len(b.inst) : IsAPseudoOperation(b.inst[j].op) /\ b.inst[j].args[1] = i}
CarryInsts(b, i) == {j \in PseudoOperations(b, i) : b.inst[j].op = "GetCarryFromOp"}

----------------------------------------------------------------------------
(* C++ arithmetic on u64 and s64.                                          *)
Quotient(m, n) ==
  LET abs(k) == IF k < 0 THEN -k ELSE k
      q == abs(m) \div abs(n)
  IN IF (m < 0) = (n < 0) THEN q ELSE -q

Not64(w) == 2^Bits(64) - 1 - w

ImmFn(op, m, n) == CASE op = "And" -> m & n
                     [] op = "Or" -> m | n
                     [] op = "Eor" -> m ^^ n
                     [] op = "Mul" -> Word(64, m * n)

(* Safe::LogicalShiftLeft and its like, mcl::bit::rotate_right. *)
RotateRight(t, w, n) ==
  LET k == n % Bits(t) IN Word(t, (w \div 2^k) + w * 2^(Bits(t) - k))

ShiftedFully(op, t, w) ==
  IF op = "ArithmeticShiftRight" /\ Signed(t, w) < 0 THEN 2^Bits(t) - 1 ELSE 0

Shifted(op, t, w, n) ==
  CASE op = "RotateRight" -> RotateRight(t, w, n)
    [] n >= Bits(t) -> ShiftedFully(op, t, w)
    [] op = "LogicalShiftLeft" -> Word(t, w * 2^n)
    [] op = "LogicalShiftRight" -> w \div 2^n
    [] op = "ArithmeticShiftRight" -> Word(t, Signed(t, w) \div 2^n)

Shift == {"LogicalShiftLeft", "LogicalShiftRight", "ArithmeticShiftRight", "RotateRight"}
Commutative == {"And", "Or", "Eor", "Mul"}
Division == {"SignedDiv", "UnsignedDiv"}

(* swap_bytes of a word of n bytes. *)
SwapBytes(w, n) ==
  FoldLeft(LAMBDA r, k : r * 2^Byte + ((w \div 2^(Byte * (k - 1))) % 2^Byte), 0, [k \in 1..n |-> k])

----------------------------------------------------------------------------
(* The folds.  ReplaceUsesWith narrows the u64 result to the type.         *)
ReplaceWithWord(b, i, w) == ReplaceUsesWith(b, i, Immediate(Word(b.inst[i].type[2], w)))

(* v is an instruction like i with an immediate second argument. *)
IsNested(b, i, v) ==
  LET inner == b.inst[GetInstRecursive(b, v)]
  IN inner.op = b.inst[i].op /\ inner.type = b.inst[i].type /\ IsImmediate(b, inner.args[2])

Swapped(b, i) == SetArg(SetArg(b, i, 1, b.inst[i].args[2]), i, 2, b.inst[i].args[1])

(* i operates on what v operates on, and on w. *)
Combined(b, i, v, w) ==
  SetArg(SetArg(b, i, 1, b.inst[GetInstRecursive(b, v)].args[1]), i, 2, Immediate(Word(b.inst[i].type[2], w)))

FoldCommutative(b, i) ==
  LET op == b.inst[i].op
      imm(k) == IsImmediate(b, b.inst[i].args[k])
      arg(k) == b.inst[i].args[k]
      u64(v) == GetImmediateAsU64(b, v)
      combine(k, v) == Combined(b, i, v, ImmFn(op, u64(arg(k)), u64(b.inst[GetInstRecursive(b, v)].args[2])))
  IN CASE imm(1) /\ imm(2) -> ReplaceWithWord(b, i, ImmFn(op, u64(arg(1)), u64(arg(2))))
       [] imm(1) /\ ~imm(2) -> IF IsNested(b, i, arg(2)) THEN combine(1, arg(2)) ELSE Swapped(b, i)
       [] ~imm(1) /\ imm(2) -> IF IsNested(b, i, arg(1)) THEN combine(2, arg(1)) ELSE b
       [] OTHER -> b

(* FoldAND, FoldOR, FoldEOR, FoldMultiply *)
FoldNeutral(b, i) ==
  LET c == FoldCommutative(b, i)
      op == c.inst[i].op
      rhs == c.inst[i].args[2]
      ones == 2^Bits(c.inst[i].type[1]) - 1
  IN CASE op = "Identity" -> c
       [] op \in {"And", "Mul"} /\ IsZero(c, rhs) -> ReplaceWithWord(c, i, 0)
       [] \/ op = "And" /\ IsUnsignedImmediate(c, rhs, ones)
          \/ op = "Mul" /\ IsUnsignedImmediate(c, rhs, 1)
          \/ op \in {"Or", "Eor"} /\ IsZero(c, rhs) -> ReplaceUsesWith(c, i, c.inst[i].args[1])
       [] OTHER -> c

(* The immediates of an addition and of the one it adds to, with the carry *)
(* of that one.                                                            *)
CombinedAddends(b, i) ==
  LET inner == b.inst[GetInstRecursive(b, b.inst[i].args[1])]
  IN Word(64, GetImmediateAsU64(b, b.inst[i].args[2]) + GetImmediateAsU64(b, inner.args[2])
              + GetImmediateAsU64(b, inner.args[3]))

IsNestedAdd(b, i) ==
  /\ ~IsImmediate(b, b.inst[i].args[1]) /\ IsImmediate(b, b.inst[i].args[2])
  /\ IsNested(b, i, b.inst[i].args[1])
  /\ IsImmediate(b, b.inst[GetInstRecursive(b, b.inst[i].args[1])].args[3])

Normalized(b, i) ==
  IF IsImmediate(b, b.inst[i].args[1]) /\ ~IsImmediate(b, b.inst[i].args[2]) THEN Swapped(b, i) ELSE b

FoldAdd(b, i) ==
  LET c == Normalized(b, i)
      arg(k) == c.inst[i].args[k]
      sum == CombinedAddends(c, i)
      u64(k) == GetImmediateAsU64(c, arg(k))
  IN CASE PseudoOperations(c, i) # {} -> c
       [] IsNestedAdd(c, i) ->
            IF sum = 0 THEN ReplaceUsesWith(c, i, c.inst[GetInstRecursive(c, arg(1))].args[1])
                       ELSE Combined(c, i, arg(1), sum)
       [] ~IsImmediate(c, arg(1)) /\ IsZero(c, arg(2)) /\ IsZero(c, arg(3)) -> ReplaceUsesWith(c, i, arg(1))
       [] AllImmediates(c, i) -> ReplaceWithWord(c, i, Word(64, u64(1) + u64(2) + u64(3)))
       [] OTHER -> c

FoldSub(b, i) ==
  LET u64(k) == GetImmediateAsU64(b, b.inst[i].args[k])
  IN IF ~AllImmediates(b, i) \/ PseudoOperations(b, i) # {} THEN b
     ELSE ReplaceWithWord(b, i, Word(64, u64(1) + Not64(u64(2)) + u64(3)))

FoldDivide(b, i) ==
  LET inst == b.inst[i]
      u64(k) == GetImmediateAsU64(b, inst.args[k])
      s64(k) == Signed(inst.type[1], u64(k))
  IN CASE IsZero(b, inst.args[2]) -> ReplaceWithWord(b, i, 0)
       [] AllImmediates(b, i) ->
            ReplaceWithWord(b, i, IF inst.op = "SignedDiv" THEN Quotient(s64(1), s64(2)) ELSE u64(1) \div u64(2))
       [] IsUnsignedImmediate(b, inst.args[2], 1) -> ReplaceUsesWith(b, i, inst.args[1])
       [] OTHER -> b

(* lhs.GetImmediateAsS64() / rhs.GetImmediateAsS64() overflows. *)
DivideOverflows(b, i) ==
  LET inst == b.inst[i]
  IN /\ inst.op = "SignedDiv" /\ inst.type[1] = 64
     /\ IsUnsignedImmediate(b, inst.args[1], 2^(Bits(64) - 1))
     /\ IsUnsignedImmediate(b, inst.args[2], 2^Bits(64) - 1)

FoldShiftsWithoutCarry(b, i) ==
  IF IsZero(b, b.inst[i].args[2]) THEN ReplaceUsesWith(b, i, b.inst[i].args[1]) ELSE b

(* The 32-bit shifts have a carry argument, which a shift by zero returns. *)
FoldShifts(b, i) ==
  LET carries == CarryInsts(b, i)
      amount == b.inst[i].args[2]
      unused(c) == IF Len(c.inst[i].args) = 3 THEN SetArg(c, i, 3, Immediate(0)) ELSE c
      needed == IF carries = {} THEN unused(b) ELSE b
      carried == FoldSet(LAMBDA j, c : ReplaceUsesWith(c, j, c.inst[i].args[3]), needed, carries)
      shifted == IF IsImmediate(b, amount) THEN unused(needed) ELSE needed
      u64(k) == GetImmediateAsU64(b, b.inst[i].args[k])
  IN CASE IsZero(b, amount) -> ReplaceUsesWith(carried, i, b.inst[i].args[1])
       [] AllImmediates(shifted, i) /\ carries = {} ->
            ReplaceWithWord(shifted, i, Shifted(b.inst[i].op, b.inst[i].type[1], u64(1), u64(2)))
       [] OTHER -> shifted

(* The folds of a single immediate: its value as u64, as s64 where a sign  *)
(* is extended.                                                            *)
FoldedWord(inst, u64) ==
  CASE inst.op \in {"LeastSignificant", "ZeroExtend"} -> u64
    [] inst.op = "MostSignificantWord" -> u64 \div 2^Bits(32)
    [] inst.op = "MostSignificantBit" -> u64 \div 2^(Bits(32) - 1)
    [] inst.op = "IsZero" -> IF u64 = 0 THEN 1 ELSE 0
    [] inst.op = "SignExtend" -> Signed(inst.type[1], u64)
    [] inst.op = "Not" -> Not64(u64)
    [] inst.op = "ByteReverse" -> SwapBytes(u64, inst.type[1] \div 8)

FoldUnary(b, i) ==
  LET u64 == GetImmediateAsU64(b, b.inst[i].args[1])
      carried == FoldSet(LAMBDA j, c : ReplaceWithWord(c, j, (u64 \div 2^(Bits(32) - 1)) % 2), b, CarryInsts(b, i))
  IN IF IsImmediate(b, b.inst[i].args[1]) THEN ReplaceWithWord(carried, i, FoldedWord(b.inst[i], u64)) ELSE b

(* The amount of a masked shift is a word, of which the low bits count.    *)
Unmasked == [LogicalShiftLeftMasked |-> "LogicalShiftLeft", LogicalShiftRightMasked |-> "LogicalShiftRight",
             ArithmeticShiftRightMasked |-> "ArithmeticShiftRight", RotateRightMasked |-> "RotateRight"]

FoldMasked(b, i) ==
  LET inst == b.inst[i]
      u64(k) == GetImmediateAsU64(b, inst.args[k])
  IN IF AllImmediates(b, i)
     THEN ReplaceWithWord(b, i, Shifted(Unmasked[inst.op], inst.type[1], u64(1), u64(2) % Bits(inst.type[1])))
     ELSE b

----------------------------------------------------------------------------
Unary == {"LeastSignificant", "MostSignificantWord", "MostSignificantBit", "IsZero",
          "SignExtend", "ZeroExtend", "Not", "ByteReverse"}

FoldInst(b, i) ==
  LET op == b.inst[i].op
  IN CASE op \in Unary -> FoldUnary(b, i)
       [] op \in Shift -> FoldShifts(b, i)
       [] op \in DOMAIN Unmasked -> FoldMasked(b, i)
       [] op = "Add" -> FoldAdd(b, i)
       [] op = "Sub" -> FoldSub(b, i)
       [] op \in Commutative -> FoldNeutral(b, i)
       [] op \in Division -> FoldDivide(b, i)
       [] OTHER -> b

FoldInit == /\ \E g \in ArithmeticCode : folded = Arithmetic(g)
            /\ visited = 0 /\ trapped = FALSE

Visiting == folded.order[visited + 1]

Fold ==
  /\ visited < Len(folded.order) /\ ~trapped
  /\ folded' = FoldInst(folded, Visiting)
  /\ visited' = visited + 1
  /\ UNCHANGED trapped

(* What the host does with the overflow: sdiv of arm64 wraps around, which *)
(* is Fold, and idiv of x64 raises an exception.                           *)
DivideTraps ==
  /\ visited < Len(folded.order) /\ ~trapped
  /\ DivideOverflows(folded, Visiting)
  /\ trapped' = TRUE
  /\ UNCHANGED <<folded, visited>>

FoldNext == Fold \/ DivideTraps
FoldSpec == FoldInit /\ [][FoldNext]_foldVars

----------------------------------------------------------------------------
(* What a block computes when it is executed, by the code emitted for it:  *)
(* the result of an instruction from the values of its arguments.          *)
Result(inst, val) ==
  LET t == inst.type[1]
      signed(k) == Signed(t, val[k])
  IN CASE inst.op = "Add" -> Word(t, val[1] + val[2] + val[3])
       [] inst.op = "Sub" -> Word(t, val[1] - val[2] - 1 + val[3])
       [] inst.op \in Commutative -> Word(t, ImmFn(inst.op, val[1], val[2]))
       [] inst.op \in Division /\ val[2] = 0 -> 0
       [] inst.op = "UnsignedDiv" -> val[1] \div val[2]
       [] inst.op = "SignedDiv" -> Word(t, Quotient(signed(1), signed(2)))
       [] inst.op \in Shift -> Shifted(inst.op, t, val[1], val[2])
       [] inst.op \in DOMAIN Unmasked -> Shifted(Unmasked[inst.op], t, val[1], val[2] % Bits(t))
       [] inst.op = "Not" -> 2^Bits(t) - 1 - val[1]
       [] inst.op = "SignExtend" -> IF signed(1) < 0 THEN val[1] + 2^Bits(inst.type[2]) - 2^Bits(t) ELSE val[1]
       [] inst.op = "ByteReverse" -> SwapBytes(val[1], t \div 8)
       [] inst.op = "MostSignificantWord" -> val[1] \div 2^(Bits(t) - Bits(32))
       [] inst.op = "MostSignificantBit" -> IF signed(1) < 0 THEN 1 ELSE 0
       [] inst.op = "IsZero" -> IF val[1] = 0 THEN 1 ELSE 0
       [] inst.op \in {"LeastSignificant", "ZeroExtend"} -> Word(inst.type[2], val[1])

(* GetCarryFromOp.  None is emitted for an operation that has been folded. *)
CarryResult(inst, val) ==
  LET t == inst.type[1]
  IN CASE inst.op = "Add" -> (val[1] + val[2] + val[3]) \div 2^Bits(t)
       [] inst.op = "Sub" -> IF val[1] - val[2] - 1 + val[3] >= 0 THEN 1 ELSE 0
       [] inst.op \in Shift /\ val[2] = 0 -> val[3]
       [] inst.op = "LogicalShiftLeft" -> ((val[1] * 2^val[2]) \div 2^Bits(t)) % 2
       [] inst.op = "LogicalShiftRight" -> (val[1] \div 2^(val[2] - 1)) % 2
       [] inst.op = "ArithmeticShiftRight" -> (Signed(t, val[1]) \div 2^(val[2] - 1)) % 2
       [] inst.op = "RotateRight" -> RotateRight(t, val[1], val[2]) \div 2^(Bits(t) - 1)
       [] inst.op = "MostSignificantWord" -> (val[1] \div 2^(Bits(32) - 1)) % 2
       [] OTHER -> Empty - 1

(* The values the block writes to memory. *)
Computed(b, input) ==
  LET visit(st, i) ==
        LET inst == b.inst[i]
            args(u) == [k \in DOMAIN u.args |-> IF u.args[k] > 0 THEN st.env[u.args[k]] ELSE -1 - u.args[k]]
            arg == args(inst)
            def(w) == [st EXCEPT !.env[i] = w]
            source == b.inst[inst.args[1]]
        IN CASE inst.op = "Op" -> def(Word(inst.type[2], input.x))
             [] inst.op = "GetCFlag" -> def(input.c)
             [] inst.op = "Identity" -> def(arg[1])
             [] inst.op = "GetCarryFromOp" -> def(CarryResult(source, args(source)))
             [] inst.op = "WriteMemory" -> [st EXCEPT !.out = Append(@, arg[1])]
             [] inst.op = "Void" -> st
             [] OTHER -> def(Result(inst, arg))
  IN FoldLeft(visit, [env |-> [i \in 1..Len(b.inst) |-> 0], out |-> <<>>], b.order).out

----------------------------------------------------------------------------
(* FoldAdd adds up the immediates of two additions.  When they cancel out  *)
(* it forgets the carry that the second one adds.                          *)
CarryDropped ==
  LET b == Normalized(folded, Visiting)
  IN /\ folded.inst[Visiting].op = "Add" /\ PseudoOperations(b, Visiting) = {}
     /\ IsNestedAdd(b, Visiting) /\ CombinedAddends(b, Visiting) = 0

(* Folding changes no result, for any operands, widths and carries: what   *)
(* the block computes after the visit of an instruction is what it         *)
(* computed before.  The exception is stated with it: the sum of an        *)
(* addition whose carry FoldAdd drops is the sum without the carry.        *)
FoldsExact ==
  [][folded' # folded =>
       LET before == IF CarryDropped THEN SetArg(folded, Visiting, 3, Immediate(0)) ELSE folded
       IN \A input \in Inputs : Computed(folded', input) = Computed(before, input)]_foldVars

(* VerificationPass: folding keeps the use counts exact, also of values    *)
(* that are used through instructions folded away.                         *)
FoldedUseCounts == WellUsed(folded)
=============================================================================
