----------------------------- MODULE MCCompile -----------------------------
(***************************************************************************)
(* Small blocks for the parts of compilation: IR blocks that the passes    *)
(* optimize or fold, and blocks that the register allocator emits.         *)
(***************************************************************************)
EXTENDS RegAlloc, IRPasses, ConstantPropagation

----------------------------------------------------------------------------
(* Blocks of a few accesses of one group of registers or flags, whose      *)
(* values are results of other instructions, immediates or earlier reads.  *)
CONSTANTS RegisterAccesses, FlagAccesses

Add(b, op, reg, type, args) ==
  FoldLeft(AddUse, [b EXCEPT !.inst = Append(@, NewInst(op, reg, type, args)),
                             !.order = Append(@, Len(b.inst) + 1)], args)

Access_(op, reg, type, operand) == [op |-> op, reg |-> reg, type |-> type, operand |-> operand]
Gets(reg, types) == {Access_("Get", reg, t, "") : t \in types}
Sets(reg, types) == {Access_("Set", reg, t, o) : t \in types, o \in {"new", "read"}}
Reads(op, flag) == {Access_(op, <<flag, 1>>, "", "")}
Writes(op) == {Access_(op, <<"nz", 1>>, "NZCV", "new")}

(* An operand that is 64 bits of a vector may have anything above them.    *)
OperandType(type) == IF type = "VectorDouble" THEN "VectorQuad" ELSE type

LastRead(b, type) ==
  LET reads == {i \in 1..Len(b.inst) : b.inst[i].op = "Get" /\ b.inst[i].type = type}
  IN IF reads = {} THEN -Parts(OperandType(type)) ELSE CHOOSE i \in reads : \A j \in reads : j <= i

TranslatedAccess(b, a) ==
  LET fresh == Add(b, "Op", a.reg, OperandType(a.type), <<>>)
      new == Len(b.inst) + 1
  IN CASE a.operand = "" -> Add(b, a.op, a.reg, a.type, <<>>)
       [] a.operand = "new" -> Add(fresh, a.op, a.reg, a.type, <<new>>)
       [] a.operand = "read" -> Add(b, a.op, a.reg, a.type, <<LastRead(b, a.type)>>)
       [] a.operand = "imm" -> Add(fresh, a.op, a.reg, a.type, <<new, -1>>)
       [] a.operand = "carry" -> Add(Add(fresh, "GetCFlag", <<"c", 1>>, "", <<>>), a.op, a.reg, a.type, <<new, new + 1>>)

(* All values read are written to memory in the end, or none are: code is  *)
(* one access shorter then.                                                *)
Observed(b) ==
  FoldLeft(LAMBDA c, i : Add(c, "WriteMemory", <<"r", 1>>, "", <<i>>), b,
           SelectSeq(b.order, LAMBDA i : b.inst[i].op = "Get" \/ ReadsFromCPSR(b.inst[i].op)))

Code(frontend, accesses, n) ==
  {frontend} \X (([1..n -> accesses] \X {TRUE}) \cup ([1..n - 1 -> accesses] \X {FALSE}))
MCTranslated(code) ==
  LET b == FoldLeft(TranslatedAccess, NoInsts, code[1]) IN IF code[2] THEN Observed(b) ELSE b

WritePC == {Access_("WritePC", <<"r", 1>>, "", "")}
A64General == Gets(<<"r", 1>>, {"W", "X"}) \cup Sets(<<"r", 1>>, {"W", "X"})
              \cup Gets(<<"sp", 1>>, {"SP"}) \cup Sets(<<"sp", 1>>, {"SP"}) \cup WritePC
A64Vector == Gets(<<"v", 1>>, {"S", "D", "Q"}) \cup Sets(<<"v", 1>>, {"S", "D", "Q"}) \cup WritePC
A64Flags == Gets(<<"nzcv", 1>>, {"NZCVRaw"}) \cup Sets(<<"nzcv", 1>>, {"NZCVRaw"})
            \cup {Access_("Set", <<"nzcv", 1>>, "NZCV", "new")} \cup Reads("GetCFlag", "nzcv")
A32Flags ==
  UNION {Writes(op) : op \in {"SetCpsrNZCV", "SetCpsrNZCVRaw", "SetCpsrNZCVQ", "SetCpsrNZ", "OrQFlag"}}
  \cup {Access_("SetCpsrNZC", <<"nz", 1>>, "NZCV", o) : o \in {"imm", "carry"}}
  \cup Reads("GetCFlag", "c") \cup Reads("GetCpsr", "c")
A32GE == Writes("SetGEFlags") \cup Writes("SetGEFlagsCompressed") \cup Reads("GetGEFlags", "ge") \cup Reads("GetCpsr", "c")
A32Registers ==
  LET ext == ({<<"ext", 1>>} \X {"Single", "Double", "VectorDouble", "VectorQuad"})
             \cup ({<<"ext", 3>>} \X {"Single", "VectorDouble"}) \cup {<<<<"gpr", 1>>, "Register">>}
  IN UNION {Gets(e[1], {e[2]}) \cup {Access_("Set", e[1], e[2], "new")} : e \in ext} \cup WritePC

MCGuestCode ==
  UNION {Code("A64", a, RegisterAccesses) : a \in {A64General, A64Vector}}
  \cup Code("A64", A64Flags, FlagAccesses)
  \cup Code("A32", A32Registers, RegisterAccesses)
  \cup UNION {Code("A32", a, FlagAccesses) : a \in {A32Flags, A32GE}}

----------------------------------------------------------------------------
(* One or two arithmetic instructions <<op, type, args>> and, as the third, *)
(* a pseudo-operation.  Values 1 and 2 are a word and a carry that the      *)
(* block reads; everything it computes is written to memory.                *)
MCArithmetic(code) ==
  LET read == Add(Add(NoInsts, "Op", 0, <<0, code[1][2][1]>>, <<>>), "GetCFlag", 0, <<0, 1>>, <<>>)
      b == FoldLeft(LAMBDA c, a : Add(c, a[1], 0, a[2], a[3]), read, code)
  IN FoldLeft(LAMBDA c, k : Add(c, "WriteMemory", 0, <<64, 0>>, <<k + 2>>), b, [k \in 1..Len(code) |-> k])

Words(t) == {Immediate(w) : w \in {0, 1, 2^(Bits(t) - 1), 2^Bits(t) - 1}}
Addends(t) == {Immediate(w) : w \in {0, 1, 2^Bits(t) - 1}}
Operands(t) == {1} \cup Words(t)
CarryIn == {2, Immediate(0), Immediate(1)}
Insts(op, t, S) == {<<op, <<t, t>>, a>> : a \in S}
WithPseudo(S, P) == {<<i>> : i \in S} \cup {<<i, p>> : i \in S, p \in P}
CarryOf(v) == <<"GetCarryFromOp", <<0, 1>>, <<v>>>>
ZeroTest(t, v) == <<"IsZero", <<t, 1>>, <<v>>>>

(* Two operations of one kind, the second on the result of the first. *)
Nested(op, t, words, carries) ==
  LET first == {a \o c : a \in ({1} \cup words) \X ({1} \cup words), c \in carries}
      second == {a \o c : a \in ({3} \X ({1} \cup words)) \cup (words \X {3}), c \in carries}
      two == {<<f, g>> : f \in Insts(op, t, first), g \in Insts(op, t, second)}
      pseudo == IF op = "Add" THEN {CarryOf(3), CarryOf(4)} ELSE {ZeroTest(t, 3)}
  IN two \cup {Append(c, p) : c \in two, p \in pseudo}

ShiftArgs(t) ==
  {<<a, n>> : a \in Operands(t), n \in {2} \cup {Immediate(m) : m \in {0, 1, Bits(t), Bits(t) + 1}}}

Conversions == {<<"LeastSignificant", 64, 32>>, <<"LeastSignificant", 32, 16>>, <<"LeastSignificant", 32, 8>>,
                <<"MostSignificantBit", 32, 1>>, <<"SignExtend", 8, 32>>, <<"SignExtend", 32, 64>>,
                <<"ZeroExtend", 16, 64>>, <<"ByteReverse", 16, 16>>, <<"ByteReverse", 32, 32>>, <<"ByteReverse", 64, 64>>,
                <<"Not", 32, 32>>, <<"Not", 64, 64>>}

MCArithmeticCode ==
  UNION {Nested(op, t, Words(t), {<<>>}) : op \in Commutative, t \in {32, 64}}
  \cup UNION {Nested("Add", t, Addends(t), {<<c>> : c \in CarryIn}) : t \in {32, 64}}
  \cup UNION {WithPseudo(Insts("Sub", t, Operands(t) \X Operands(t) \X CarryIn), {CarryOf(3), ZeroTest(t, 3)}) : t \in {32, 64}}
  \cup UNION {WithPseudo(Insts(op, t, Operands(t) \X Operands(t)), {ZeroTest(t, 3)}) :
                op \in Division \cup DOMAIN Unmasked, t \in {32, 64}}
  \cup UNION {WithPseudo(Insts(op, 32, {<<a[1], a[2], c>> : a \in ShiftArgs(32), c \in CarryIn}), {CarryOf(3)}) : op \in Shift}
  \cup UNION {WithPseudo(Insts(op, 64, ShiftArgs(64)), {}) : op \in Shift}
  \cup UNION {WithPseudo({<<c[1], <<c[2], c[3]>>, <<a>>>> : a \in Operands(c[2])}, {}) : c \in Conversions}
  \cup WithPseudo({<<"MostSignificantWord", <<64, 32>>, <<a>>>> : a \in Operands(64)}, {CarryOf(3)})

MCInputs == [x : {0, 1, 200, 255}, c : {0, 1}]

----------------------------------------------------------------------------
Op(w, args) == [kind |-> "op", width |-> w, args |-> args]
CallOp(w, args) == [kind |-> "call", width |-> w, args |-> args]
Id(w, v) == [kind |-> "id", width |-> w, args |-> <<v>>]
Pseudo(v) == [kind |-> "pseudo", width |-> 32, args |-> <<v>>]
NZ(v) == [kind |-> "nz", width |-> 32, args |-> <<v>>]

MCParams == <<2>>
MCOthers == <<4>>
MCPrograms ==
  { <<Op(64, <<>>), Op(64, <<>>), Op(64, <<1, 2>>), Op(0, <<3>>)>>,
    <<Op(128, <<>>), Op(64, <<1>>), Op(32, <<2, 2>>), Op(0, <<2, 3>>)>>,
    <<Op(64, <<Imm>>), Op(32, <<>>), CallOp(64, <<1>>), Op(0, <<1, 3>>), CallOp(0, <<2>>)>>,
    <<Op(64, <<Imm>>), Pseudo(1), NZ(1), Op(0, <<2, 3>>)>>,
    <<Op(64, <<>>), Id(64, 1), Op(64, <<1, 2>>), Op(0, <<2, 3>>)>>,
    <<Op(64, <<>>), Id(64, Imm), Op(64, <<1, 2>>), CallOp(0, <<2>>), Op(0, <<1>>)>> }

----------------------------------------------------------------------------
PassesDone == guest = <<>> /\ passes = <<>> /\ ir = NoInsts /\ meaning = Meaning(NoInsts)
FoldDone == folded = NoInsts /\ visited = 0 /\ trapped = FALSE

(* Each part is on its own: the others are at rest. *)
CompileInit ==
  \/ PassesInit /\ FoldDone /\ AllocIdle
  \/ PassesDone /\ FoldInit /\ AllocIdle
  \/ PassesDone /\ FoldDone /\ AllocInit
CompileNext ==
  \/ PassesNext /\ UNCHANGED <<foldVars, allocVars>>
  \/ FoldNext /\ UNCHANGED <<passVars, allocVars>>
  \/ AllocNext /\ UNCHANGED <<passVars, foldVars>>
CompileSpec == CompileInit /\ [][CompileNext]_<<passVars, foldVars, allocVars>>
=============================================================================
