------------------------------ MODULE IRPasses ------------------------------
(***************************************************************************)
(* The optimization passes that remove guest register and flag accesses    *)
(* from an IR block, with dead code elimination, identity removal and the  *)
(* use counts they maintain, for A64 and A32 guests.                       *)
(*                                                                         *)
(* What a block does is Meaning, by symbolic evaluation: a value is four   *)
(* 32-bit parts, a part is a term naming where its bits come from, and a   *)
(* guest register is up to four cells, each holding a part.  An immediate  *)
(* of n parts is -n.                                                       *)
(***************************************************************************)
EXTENDS IRBlock

CONSTANTS GuestCode,     \* pairs <<frontend, guest code>>
          Translated(_)  \* the block A64::Translate or A32::Translate returns for guest code

VARIABLES guest,    \* what is compiled
          ir,       \* its block
          passes,   \* the passes still to run
          meaning   \* what the block did when it was translated

passVars == <<guest, ir, passes, meaning>>

----------------------------------------------------------------------------
(* Operands.  The type of an access is how the register is viewed.         *)
Parts(type) ==
  CASE type \in {"W", "S", "SP", "NZCV", "NZCVRaw", "Register", "Single"} -> 1
    [] type \in {"X", "D", "Double", "VectorDouble"} -> 2
    [] OTHER -> 4

(* reg is <<file, index of the first cell>>. *)
CellsOf(inst) == {<<inst.reg[1], inst.reg[2] + k>> : k \in 0..Parts(inst.type) - 1}

Flags == {"nz", "c", "v", "q", "ge"}
Cell == ({"r", "v", "ext"} \X (1..4)) \cup ({"sp", "nzcv", "gpr"} \X {1}) \cup (Flags \X {1})

ReadsFromCPSR(op) == op \in {"GetCFlag", "GetGEFlags", "GetCpsr"}
WritesToCPSR(op) ==
  op \in {"SetCpsrNZCV", "SetCpsrNZCVRaw", "SetCpsrNZCVQ", "SetCpsrNZ", "SetCpsrNZC", "OrQFlag",
          "SetGEFlags", "SetGEFlagsCompressed"}
WritesToCoreRegister(op) == op \in {"Set", "WritePC"}
MayHaveSideEffects(op) == WritesToCPSR(op) \/ WritesToCoreRegister(op) \/ op = "WriteMemory"

----------------------------------------------------------------------------
(* A64GetSetElimination.  Of each register: the value it is known to have, *)
(* how it was accessed, and the set that a later one makes superfluous.    *)
RegisterInfo == [value |-> Empty, type |-> "", set |-> 0]

A64RegisterFile == {"r", "v", "sp", "nzcv"}

EliminateSet(s, i) ==
  LET inst == s.b.inst[i]
      last == s.info[inst.reg[1]].set
  IN [b |-> IF last = 0 THEN s.b ELSE Erase(Invalidate(s.b, last), last),
      info |-> [s.info EXCEPT ![inst.reg[1]] = [value |-> inst.args[1], type |-> inst.type, set |-> i]]]

EliminateGet(s, i) ==
  LET inst == s.b.inst[i]
      info == s.info[inst.reg[1]]
  IN IF info.value # Empty /\ info.type = inst.type
     THEN [s EXCEPT !.b = ReplaceUsesWith(s.b, i, info.value)]
     ELSE [s EXCEPT !.info[inst.reg[1]] = [value |-> i, type |-> inst.type, set |-> 0]]

A64GetSetElimination(b) ==
  LET forget(s, files) ==
        [s EXCEPT !.info = [f \in A64RegisterFile |-> IF f \in files THEN RegisterInfo ELSE @[f]]]
      visit(s, i) ==
        LET op == s.b.inst[i].op
        IN CASE op = "Set" -> EliminateSet(s, i)
             [] op = "Get" -> EliminateGet(s, i)
             [] ReadsFromCPSR(op) \/ WritesToCPSR(op) -> forget(s, {"nzcv"})
             [] op = "WritePC" -> forget(s, {"r", "v", "sp"})
             [] OTHER -> s
  IN FoldLeft(visit, [b |-> b, info |-> [f \in A64RegisterFile |-> RegisterInfo]], b.order).b

----------------------------------------------------------------------------
(* A32GetSetElimination: FlagsPass goes backwards.  Of each group of flags *)
(* it knows whether a later instruction overwrites it unread, and of C and *)
(* GE which instruction waits for its value.                               *)
FlagInfo == [set_not_required |-> FALSE, value_request |-> 0]
Overwritten == [set_not_required |-> TRUE, value_request |-> 0]

FlagsUnknown(b) ==
  [b |-> b, nzcvq |-> FALSE, nzcv |-> FALSE, nz |-> FALSE, c |-> FlagInfo, ge |-> FlagInfo]

InvalidateIf(b, i, superfluous) == IF superfluous THEN Invalidate(b, i) ELSE b

GetFlag(s, f, i) ==
  [s EXCEPT !.b = IF s[f].value_request = 0 THEN @ ELSE ReplaceUsesWith(@, s[f].value_request, i),
            ![f].value_request = i]

AnswerRequest(s, f, v) ==
  [s EXCEPT !.b = IF s[f].value_request = 0 THEN @ ELSE ReplaceUsesWith(@, s[f].value_request, v),
            ![f].value_request = 0]

(* The carry asked for is taken from the flags that are stored. *)
VisitSetCpsrNZCV(s, i) ==
  LET from == InsertAfter(s.b, i, NewInst("GetCFlagFromNZCV", <<"c", 1>>, "", s.b.inst[i].args))
      t == IF s.c.value_request = 0 THEN s ELSE AnswerRequest([s EXCEPT !.b = from], "c", Len(from.inst))
  IN [t EXCEPT !.b = InvalidateIf(@, i, t.nzcv), !.nzcv = TRUE, !.nz = TRUE, !.c = Overwritten]

VisitSetCpsrNZCVRaw(s, i) ==
  [s EXCEPT !.b = InvalidateIf(@, i, s.nzcv /\ s.c.value_request = 0),
            !.nzcvq = FALSE, !.nzcv = TRUE, !.nz = TRUE, !.c = Overwritten]

VisitSetCpsrNZCVQ(s, i) ==
  [s EXCEPT !.b = InvalidateIf(@, i, s.nzcvq /\ s.c.value_request = 0),
            !.nzcvq = TRUE, !.nzcv = TRUE, !.nz = TRUE, !.c = Overwritten]

VisitSetCpsrNZ(s, i) ==
  [s EXCEPT !.b = InvalidateIf(@, i, s.nz), !.nzcvq = FALSE, !.nzcv = FALSE, !.nz = TRUE]

EmptyNZCVImmediateMarker == -1

(* A carry that was only read is not written again. *)
VisitSetCpsrNZC(s, i) ==
  LET c == s.b.inst[i].args[2]
      t == [AnswerRequest(s, "c", c) EXCEPT !.nzcvq = FALSE, !.nzcv = FALSE, !.nz = TRUE]
      only_nz == InsertAfter(Invalidate(t.b, i), i, NewInst("SetCpsrNZ", <<"nz", 1>>, "", <<s.b.inst[i].args[1]>>))
      shorter == IF s.nz /\ s.c.set_not_required THEN Invalidate(t.b, i)
                 ELSE IF s.nz THEN SetArg(t.b, i, 1, EmptyNZCVImmediateMarker) ELSE t.b
  IN IF ~IsImmediate(t.b, c) /\ t.b.inst[GetInstRecursive(t.b, c)].op = "GetCFlag"
     THEN [t EXCEPT !.b = only_nz]
     ELSE [t EXCEPT !.b = shorter, !.c.set_not_required = TRUE]

VisitSetGEFlags(s, i) ==
  LET t == AnswerRequest(s, "ge", s.b.inst[i].args[1])
  IN [t EXCEPT !.b = InvalidateIf(@, i, s.ge.set_not_required), !.ge = Overwritten]

FlagsPass(b) ==
  LET visit(i, s) ==
        LET op == s.b.inst[i].op
        IN CASE op = "GetCFlag" -> GetFlag(s, "c", i)
             [] op = "GetGEFlags" -> GetFlag(s, "ge", i)
             [] op = "SetCpsrNZCV" -> VisitSetCpsrNZCV(s, i)
             [] op = "SetCpsrNZCVRaw" -> VisitSetCpsrNZCVRaw(s, i)
             [] op = "SetCpsrNZCVQ" -> VisitSetCpsrNZCVQ(s, i)
             [] op = "SetCpsrNZ" -> VisitSetCpsrNZ(s, i)
             [] op = "SetCpsrNZC" -> VisitSetCpsrNZC(s, i)
             [] op = "SetGEFlags" -> VisitSetGEFlags(s, i)
             [] op = "SetGEFlagsCompressed" -> [s EXCEPT !.ge = Overwritten]
             [] op = "GetCpsr" -> FlagsUnknown(s.b)
             [] OTHER -> s
  IN FoldRight(visit, b.order, FlagsUnknown(b)).b

----------------------------------------------------------------------------
(* RegisterPass goes forwards.  An access to several extension registers   *)
(* is only related to another when all of them were last accessed so.      *)
ExtRegInfo == [type |-> "Empty", value |-> Empty, set |-> 0]
A32Cell == {<<"gpr", 1>>} \cup ({"ext"} \X (1..4))

AllOfType(s, inst) == \A c \in CellsOf(inst) : s.info[c].type = inst.type

(* The first of them has the value and the set that a later access finds. *)
Access(s, b, inst, value, set) ==
  [b |-> b,
   info |-> [c \in A32Cell |-> IF c \in CellsOf(inst) THEN [type |-> inst.type, value |-> value, set |-> set]
                                                      ELSE s.info[c]]]

VisitGet(s, i) ==
  LET inst == s.b.inst[i]
  IN IF AllOfType(s, inst) THEN [s EXCEPT !.b = ReplaceUsesWith(@, i, s.info[inst.reg].value)]
                           ELSE Access(s, s.b, inst, i, 0)

VisitSetOfPart(s, i) ==
  LET inst == s.b.inst[i]
      last == s.info[inst.reg].set
  IN Access(s, IF last = 0 THEN s.b ELSE Invalidate(s.b, last), inst, inst.args[1], i)

(* What a 64-bit vector register holds is its value with zeros above. *)
VisitSet(s, i) ==
  LET inst == s.b.inst[i]
      b == IF inst.type = "VectorDouble"
           THEN InsertAfter(s.b, i, NewInst("VectorZeroUpper", inst.reg, "VectorQuad", inst.args)) ELSE s.b
      stored == IF inst.type = "VectorDouble" THEN Len(b.inst) ELSE inst.args[1]
      last == s.info[inst.reg].set
  IN Access(s, IF AllOfType(s, inst) /\ last # 0 THEN Invalidate(b, last) ELSE b, inst, stored, i)

RegisterPass(b) ==
  LET visit(s, i) == CASE s.b.inst[i].op = "Get" -> VisitGet(s, i)
                       [] s.b.inst[i].op = "Set" -> VisitSet(s, i)
                       [] s.b.inst[i].op = "WritePC" -> [s EXCEPT !.info = [c \in A32Cell |-> ExtRegInfo]]
                       [] OTHER -> s
  IN FoldLeft(visit, [b |-> b, info |-> [c \in A32Cell |-> ExtRegInfo]], b.order).b

----------------------------------------------------------------------------
(* From the last instruction to the first: one that is removed may have    *)
(* been the only use of an earlier one.                                    *)
DeadCodeElimination(b) ==
  LET visit(i, c) == IF c.inst[i].uses = 0 /\ ~MayHaveSideEffects(c.inst[i].op) THEN Invalidate(c, i) ELSE c
  IN FoldRight(visit, b.order, b)

IdentityRemovalPass(b) ==
  LET bypass(c, i) ==
        FoldLeft(LAMBDA d, k : IF IsIdentity(d, d.inst[i].args[k])
                               THEN SetArg(d, i, k, GetInstRecursive(d, d.inst[i].args[k])) ELSE d,
                 c, [k \in 1..Len(c.inst[i].args) |-> k])
      bypassed == FoldLeft(bypass, b, b.order)
      removed(i) == bypassed.inst[i].op \in {"Identity", "Void"}
  IN FoldLeft(Invalidate, [bypassed EXCEPT !.order = SelectSeq(@, LAMBDA i : ~removed(i))],
              SelectSeq(b.order, removed))

----------------------------------------------------------------------------
(* What a block does to the guest, by the code emitted for it.             *)
Zero == <<"zero">>
Value(n, Part(_)) == [k \in 1..4 |-> IF k <= n THEN Part(k) ELSE Zero]
ValueOf(st, v) == IF v > 0 THEN st.env[v] ELSE Value(-v, LAMBDA k : <<"imm">>)

(* The flags an instruction stores, given what it stores them from.        *)
FlagsFrom(op, flags, p) ==
  [f \in {<<g, 1>> : g \in flags} |-> <<IF op \in {"SetCpsrNZCVRaw", "SetCpsrNZCVQ"} THEN "raw" ELSE "host", f[1], p>>]

FlagsStored(st, inst, val, imm) ==
  LET p == val[1][1]
      q == <<"q", 1>>
      ge == <<"ge", 1>>
  IN CASE inst.op \in {"SetCpsrNZCV", "SetCpsrNZCVRaw"} -> FlagsFrom(inst.op, {"nz", "c", "v"}, p)
       [] inst.op = "SetCpsrNZCVQ" -> FlagsFrom(inst.op, {"nz", "c", "v", "q"}, p)
       [] inst.op = "SetCpsrNZ" -> FlagsFrom(inst.op, {"nz"}, p)
       [] inst.op = "SetCpsrNZC" -> (<<"c", 1>> :> val[2][1])
                                    @@ (IF imm THEN <<"nz", 1>> :> Zero ELSE FlagsFrom(inst.op, {"nz"}, p))
       [] inst.op = "OrQFlag" -> q :> <<"or", st.cell[q], p>>
       [] inst.op = "SetGEFlags" -> ge :> p
       [] inst.op = "SetGEFlagsCompressed" -> ge :> <<"compressed", p>>

(* A64 registers are written whole, the bits above the value with zeros.   *)
RegisterStored(inst, value) ==
  LET first == inst.reg[2]
      kept == IF inst.reg[1] = "ext" THEN {c \in Cell : c[1] = "ext"} \ CellsOf(inst) ELSE {}
      bits == IF inst.type = "NZCV" THEN <<<<"host", "nzcv", value[1]>>>> ELSE value
  IN [c \in {d \in Cell : d[1] = inst.reg[1]} \ kept |-> IF c \in CellsOf(inst) THEN bits[c[2] - first + 1] ELSE Zero]

Evaluate(b) ==
  LET visit(st, i) ==
        LET inst == b.inst[i]
            val == [k \in DOMAIN inst.args |-> ValueOf(st, inst.args[k])]
            def(value) == [st EXCEPT !.env[i] = value]
            one(p) == Value(1, LAMBDA k : p)
        IN CASE inst.op = "Op" -> def(Value(Parts(inst.type), LAMBDA k : <<"op", i, k>>))
             [] inst.op = "Identity" -> def(val[1])
             [] inst.op = "VectorZeroUpper" -> def(Value(2, LAMBDA k : val[1][k]))
             [] inst.op = "Get" ->
                  def(Value(Parts(inst.type), LAMBDA k : st.cell[<<inst.reg[1], inst.reg[2] + k - 1>>]))
             [] inst.op = "GetCFlag" -> def(one(IF inst.reg[1] = "nzcv" THEN <<"host", "c", st.cell[inst.reg]>>
                                                                       ELSE st.cell[inst.reg]))
             [] inst.op = "GetGEFlags" -> def(one(st.cell[inst.reg]))
             [] inst.op = "GetCFlagFromNZCV" -> def(one(<<"host", "c", val[1][1]>>))
             [] inst.op = "GetCpsr" -> def(one(<<"cpsr", [f \in Flags |-> st.cell[<<f, 1>>]]>>))
             [] inst.op = "Set" -> [st EXCEPT !.cell = RegisterStored(inst, val[1]) @@ @]
             [] WritesToCPSR(inst.op) ->
                  [st EXCEPT !.cell = FlagsStored(st, inst, val, IsImmediate(b, inst.args[1])) @@ @]
             [] inst.op = "WriteMemory" -> [st EXCEPT !.out = Append(@, val[1])]
             [] OTHER -> st
  IN FoldLeft(visit, [env |-> [i \in 1..Len(b.inst) |-> Value(0, LAMBDA k : Zero)],
                      cell |-> [c \in Cell |-> <<"old", c>>], out |-> <<>>], b.order)

Meaning(b) == LET end == Evaluate(b) IN <<end.cell, end.out>>

----------------------------------------------------------------------------
(* The passes of a new block, in GetBasicBlock of the x64 and GenerateIR   *)
(* of the arm64 backends.  Constants are folded in ConstantPropagation.    *)
PassesOf(frontend) ==
  IF frontend = "A64" THEN <<"Translate", "A64GetSetElimination", "DeadCodeElimination">>
  ELSE <<"Translate", "A32GetSetElimination", "DeadCodeElimination", "IdentityRemovalPass">>

PassesInit ==
  /\ guest \in GuestCode /\ passes = PassesOf(guest[1])
  /\ ir = NoInsts /\ meaning = Meaning(NoInsts)

Translate ==
  /\ passes # <<>> /\ Head(passes) = "Translate"
  /\ ir' = Translated(guest[2]) /\ meaning' = Meaning(ir')
  /\ passes' = Tail(passes)
  /\ UNCHANGED guest

RunPass(name, optimized) ==
  /\ passes # <<>> /\ Head(passes) = name
  /\ ir' = optimized
  /\ passes' = Tail(passes)
  /\ UNCHANGED <<guest, meaning>>

PassesNext ==
  \/ Translate
  \/ RunPass("A64GetSetElimination", A64GetSetElimination(ir))
  \/ RunPass("A32GetSetElimination", RegisterPass(FlagsPass(ir)))
  \/ RunPass("DeadCodeElimination", DeadCodeElimination(ir))
  \/ RunPass("IdentityRemovalPass", IdentityRemovalPass(ir))

PassesSpec == PassesInit /\ [][PassesNext]_passVars

----------------------------------------------------------------------------
(* Optimization is invisible: whatever accesses a pass removes, forwards   *)
(* or narrows, the block leaves every guest register and flag with the     *)
(* bits the translated block would leave, and writes the same to memory.   *)
MeaningKept == Meaning(ir) = meaning

(* VerificationPass: through all replacements and removals the use count   *)
(* of a value, on which the register allocator relies, is the number of    *)
(* its uses, and a value is defined before each of them.                   *)
UseCountsExact == WellUsed(ir)
=============================================================================
