------------------------------ MODULE RegAlloc ------------------------------
(***************************************************************************)
(* RegAlloc, the register allocator of the x64 backend, driven by the      *)
(* emitters of a block of IR instructions.                                 *)
(*                                                                         *)
(* An emitter may make its calls in any order: the arguments read or taken *)
(* over in general or vector registers or in a given one, scratch          *)
(* registers, early releases, calls of host functions.  It asks for no     *)
(* more registers than there are, and defines what later instructions use. *)
(*                                                                         *)
(* hostloc_info is what the allocator believes.  What is really there is   *)
(* content: the pairs <<v, n>> of a location whose low n bits are those of *)
(* the IR value v.  Each emitted move copies as many bits as it moves.     *)
(***************************************************************************)
EXTENDS Integers, FiniteSets, Sequences

CONSTANTS GPRCount, XMMCount, SpillCount,
          ABI_RETURN,       \* a general register
          Params,           \* ABI_PARAM1, ...: general registers
          OtherCallerSave,  \* the other registers a host function may destroy
          Fixed,            \* registers that emitters ask for by name
          MaxScratch,       \* bound on the scratch registers of an instruction
          Programs          \* blocks of IR instructions

VARIABLES block,     \* the instructions; an instruction is its value
          pos,       \* the instruction being emitted
          stage,     \* "next", "emit", "call", "called" or "done"
          todo,      \* its arguments that are not allocated yet
          held,      \* the registers its emitter has been given
          defined,   \* the instructions whose value has been defined
          alloc      \* the allocator: hostloc_info, content, and no ASSERT failed

allocVars == <<block, pos, stage, todo, held, defined, alloc>>

GPR == 1..GPRCount
XMM == GPRCount + 1..GPRCount + XMMCount
Spill == GPRCount + XMMCount + 1..GPRCount + XMMCount + SpillCount
HostLoc == GPR \cup XMM \cup Spill
HostLocBitWidth(l) == IF l \in GPR THEN 64 ELSE 128

(* Values are positions in the block; Imm is an immediate argument. *)
Imm == 0
Kind == {"op", "call", "id", "pseudo", "nz"}
Inst == [kind: Kind, width: {0, 32, 64, 128}, args: Seq(Nat)]

ASSUME HostAssumption ==
  /\ GPRCount \in Nat /\ XMMCount \in Nat /\ SpillCount \in Nat
  /\ ABI_RETURN \in GPR
  /\ Params \in Seq(GPR) /\ OtherCallerSave \in Seq(GPR \cup XMM)
  /\ Fixed \subseteq GPR

(* Arguments are earlier values, at most IR::max_arg_count of them, and as *)
(* many as ABI_PARAMs in a call.  A pseudo-operation has the instruction   *)
(* it belongs to as argument; an identity has the type of its argument.    *)
WellFormed(p) ==
  /\ p \in Seq(Inst)
  /\ \A i \in 1..Len(p) :
       /\ Len(p[i].args) <= 4
       /\ \A k \in 1..Len(p[i].args) : p[i].args[k] < i
       /\ p[i].kind = "call" => Len(p[i].args) <= Len(Params)
       /\ p[i].kind \in {"pseudo", "nz", "id"} => Len(p[i].args) = 1
       /\ p[i].kind = "id" /\ p[i].args[1] # Imm => p[i].width = p[p[i].args[1]].width

ASSUME ProgramsAssumption == \A p \in Programs : WellFormed(p)

Arg(i, k) == block[i].args[k]
Width(v) == IF v = Imm THEN 64 ELSE block[v].width
UsesOf(v) == {u \in (1..Len(block)) \X (1..4) : u[2] <= Len(block[u[1]].args) /\ Arg(u[1], u[2]) = v}
UseCount(v) == Cardinality(UsesOf(v))

(* The pseudo-operations of an instruction. *)
PseudosOf(i) == {j \in 1..Len(block) : block[j].kind \in {"pseudo", "nz"} /\ Arg(j, 1) = i}

----------------------------------------------------------------------------
(* HostLocInfo *)
NoInfo == [used |-> 0, scratch |-> FALSE, last_use |-> FALSE,
           refs |-> 0, acc |-> 0, total |-> 0, values |-> {}, width |-> 0]

Asserting(r, P) == [r EXCEPT !.ok = @ /\ P]

IsLocked(r, l) == r.info[l].used > 0
IsEmpty(r, l) == r.info[l].used = 0 /\ r.info[l].values = {}
IsLastUse(r, l) ==
  r.info[l].used = 0 /\ r.info[l].refs = 1 /\ r.info[l].acc + 1 = r.info[l].total

ReadLock(r, l) == [Asserting(r, ~r.info[l].scratch) EXCEPT !.info[l].used = @ + 1]
WriteLock(r, l) ==
  [Asserting(r, ~IsLocked(r, l)) EXCEPT !.info[l].used = @ + 1, !.info[l].scratch = TRUE]

AddArgReferences(i, n) == [i EXCEPT !.refs = @ + n]

ReleaseAllKeepingUses(i) ==
  IF i.total = i.acc + i.refs THEN NoInfo
  ELSE [i EXCEPT !.refs = 0, !.last_use = FALSE, !.used = 0, !.scratch = FALSE]

ReleaseAll(i) ==
  IF i.total = i.acc + i.refs THEN NoInfo
  ELSE [i EXCEPT !.acc = @ + i.refs, !.refs = 0, !.last_use = FALSE, !.used = 0, !.scratch = FALSE]

ReleaseOne(i) ==
  LET one == [i EXCEPT !.used = @ - 1, !.scratch = FALSE]
      counted == [one EXCEPT !.acc = @ + 1, !.refs = @ - 1]
  IN CASE i.refs = 0 -> one
       [] i.refs = 1 -> ReleaseAll(counted)
       [] OTHER -> counted

Larger(m, n) == IF m > n THEN m ELSE n

AddValue(r, l, v) ==
  [r EXCEPT !.info[l].values = (IF r.info[l].last_use THEN {} ELSE @) \cup {v},
            !.info[l].last_use = FALSE,
            !.info[l].total = @ + UseCount(v),
            !.info[l].width = Larger(@, Width(v))]

----------------------------------------------------------------------------
(* Host code the allocator emits.                                          *)

Low(bits, c) == {<<p[1], IF p[2] < bits THEN p[2] ELSE bits>> : p \in c}

EmitMove(r, width, to, from) ==
  LET bits == CASE to \in XMM /\ from \in XMM -> 128
                [] width < 64 -> 32
                [] OTHER -> width
      valid == (GPR \cap {to, from} # {} => width # 128) /\ ~({to, from} \subseteq Spill)
  IN [Asserting(r, valid)
        EXCEPT !.content[to] = Low(bits, r.content[from])]

Write(r, l, v) == [r EXCEPT !.content[l] = {<<v, Larger(Width(v), 32)>>}]

----------------------------------------------------------------------------
(* Moves between locations.                                                *)

ValueLocations(r, v) == {l \in HostLoc : v \in r.info[l].values}
ValueLocation(r, v) == CHOOSE l \in ValueLocations(r, v) : TRUE
IsValueLive(r, v) == ValueLocations(r, v) # {}

Move(r, to, from) ==
  LET info == r.info[from]
      checked == Asserting(r, IsEmpty(r, to) /\ ~IsLocked(r, from) /\ info.width <= HostLocBitWidth(to))
  IN IF IsEmpty(r, from) THEN checked
     ELSE [EmitMove(checked, info.width, to, from) EXCEPT !.info[to] = info, !.info[from] = NoInfo]

CopyToScratch(r, width, to, from) ==
  EmitMove(Asserting(r, IsEmpty(r, to) /\ ~IsEmpty(r, from)), width, to, from)

Exchange(r, a, b) ==
  LET checked == Asserting(r, /\ ~IsLocked(r, a) /\ ~IsLocked(r, b)
                              /\ r.info[a].width <= HostLocBitWidth(b)
                              /\ r.info[b].width <= HostLocBitWidth(a))
  IN IF IsEmpty(r, a) THEN Move(checked, a, b)
     ELSE IF IsEmpty(r, b) THEN Move(checked, b, a)
     ELSE [checked EXCEPT !.content[a] = r.content[b], !.content[b] = r.content[a],
                          !.info[a] = r.info[b], !.info[b] = r.info[a]]

(* SpillRegister moves to the first free spill location. *)
MoveOutOfTheWay(r, l) ==
  LET free == {s \in Spill : IsEmpty(r, s)}
      unlocked == Asserting(r, ~IsLocked(r, l))
  IN IF IsEmpty(r, l) THEN unlocked
     ELSE IF free = {} THEN Asserting(unlocked, FALSE)
     ELSE Move(unlocked, CHOOSE s \in free : \A t \in free : s <= t, l)

SelectAnyRegister(r, desired) ==
  LET empty == {l \in desired : IsEmpty(r, l)}
  IN IF empty # {} THEN empty ELSE desired

(* The unlocked locations, the empty ones if there are any.  Which of them *)
(* std::partition puts in front is not specified.                          *)
SelectARegister(r, desired) ==
  LET unlocked == {l \in desired : ~IsLocked(r, l)}
      empty == {l \in unlocked : IsEmpty(r, l)}
  IN IF empty # {} THEN empty ELSE unlocked

----------------------------------------------------------------------------
(* Allocation: the set of <<allocator, register>> that a call may lead to. *)

ScratchImpl(r, desired) ==
  {<<WriteLock(MoveOutOfTheWay(r, l), l), l>> : l \in SelectARegister(r, desired)}

LoadImmediate(r, desired) ==
  {<<Write(o[1], o[2], Imm), o[2]>> : o \in ScratchImpl(r, desired)}

UseScratchInPlace(r, v, desired) ==
  LET l == ValueLocation(r, v)
  IN IF v = Imm THEN LoadImmediate(r, desired)
     ELSE IF l \in desired /\ ~IsLocked(r, l)
     THEN {<<WriteLock(IF r.info[l].refs = 1 THEN [r EXCEPT !.info[l].last_use = TRUE]
                                            ELSE MoveOutOfTheWay(r, l), l), l>>}
     ELSE {<<WriteLock(CopyToScratch(MoveOutOfTheWay(r, d), Width(v), d, l), d), d>> :
             d \in SelectARegister(r, desired)}

(* A register that may be written: the value stays where it is only if     *)
(* this is its last use.                                                   *)
UseScratchImpl(r, v, desired) ==
  LET l == ValueLocation(r, v)
  IN IF v = Imm THEN LoadImmediate(r, desired)
     ELSE IF l \in desired /\ ~IsLocked(r, l)
     THEN {<<WriteLock(IF IsLastUse(r, l) THEN [r EXCEPT !.info[l].last_use = TRUE]
                                          ELSE MoveOutOfTheWay(r, l), l), l>>}
     ELSE {<<WriteLock(CopyToScratch(MoveOutOfTheWay(r, d), Width(v), d, l), d), d>> :
             d \in SelectARegister(r, desired)}

(* A register that is only read. *)
UseImpl(r, v, desired) ==
  LET l == ValueLocation(r, v)
      bring(d) == IF d \in GPR /\ l \in GPR THEN Exchange(r, d, l)
                  ELSE Move(MoveOutOfTheWay(r, d), d, l)
  IN IF v = Imm THEN LoadImmediate(r, desired)
     ELSE IF l \in desired THEN {<<ReadLock(r, l), l>>}
     ELSE IF IsLocked(r, l) THEN UseScratchImpl(r, v, desired)
     ELSE UNION {IF r.info[l].width > HostLocBitWidth(d) THEN UseScratchImpl(r, v, desired)
                 ELSE {<<ReadLock(bring(d), d), d>>} : d \in SelectARegister(r, desired)}

DefineValueImpl(r, v, l) == AddValue(Asserting(r, ~IsValueLive(r, v)), l, v)

----------------------------------------------------------------------------
(* The emitter of an instruction.  A handle is a register it was given:    *)
(* for which argument (0 for none), whether it may write it, and the value *)
(* it must contain (None for whatever the emitter puts there).             *)
None == -1
Handle(k, o, write, v) == [arg |-> k, loc |-> o[2], write |-> write, val |-> v]

AllocInit ==
  /\ block \in Programs
  /\ pos = 1 /\ stage = "next" /\ todo = {} /\ held = {} /\ defined = {}
  /\ alloc = [info |-> [l \in HostLoc |-> NoInfo], content |-> [l \in HostLoc |-> {}], ok |-> TRUE]

AllocIdle ==
  /\ block = <<>> /\ pos = 1 /\ stage = "done" /\ todo = {} /\ held = {} /\ defined = {}
  /\ alloc = [info |-> [l \in HostLoc |-> NoInfo], content |-> [l \in HostLoc |-> {}], ok |-> TRUE]

(* The instruction and its pseudo-operations, which its emitter defines. *)
Results == {pos} \cup PseudosOf(pos)

Args == {k \in 1..Len(block[pos].args) : Arg(pos, k) # Imm}
Located(l) == {k \in Args : IsValueLive(alloc, Arg(pos, k)) /\ ValueLocation(alloc, Arg(pos, k)) = l}

(* How many of the four arguments are in S. *)
Number(S) ==
  LET one(k) == IF k \in S THEN 1 ELSE 0 IN one(1) + one(2) + one(3) + one(4)

(* Each argument is counted at the location of its value. *)
References ==
  LET info == [l \in HostLoc |-> AddArgReferences(alloc.info[l], Number(Located(l)))]
  IN Asserting([alloc EXCEPT !.info = info],
               \A l \in HostLoc : Located(l) # {} => info[l].acc + info[l].refs <= info[l].total)

IsPseudo == block[pos].kind = "pseudo" \/ (block[pos].kind = "nz" /\ pos \in defined)

GetArgumentInfo ==
  /\ stage = "next" /\ pos <= Len(block) /\ ~IsPseudo
  /\ stage' = "emit"
  /\ todo' = 1..Len(block[pos].args)
  /\ alloc' = Asserting(References, \A k \in Args : IsValueLive(alloc, Arg(pos, k)))
  /\ UNCHANGED <<block, pos, held, defined>>

(* Registers of the right kind: a 128-bit value is only asked for in a     *)
(* vector register.                                                        *)
Desired(width) == {XMM} \cup (IF width = 128 THEN {} ELSE {GPR} \cup {{l} : l \in Fixed})

(* UseGpr, UseXmm, Use *)
UseReg(k) ==
  /\ stage = "emit" /\ k \in todo /\ block[pos].kind \in {"op", "nz"}
  /\ \E desired \in Desired(Width(Arg(pos, k))) : \E o \in UseImpl(alloc, Arg(pos, k), desired) :
       /\ alloc' = o[1]
       /\ held' = held \cup {Handle(k, o, o[1].info[o[2]].scratch, Arg(pos, k))}
  /\ todo' = todo \ {k}
  /\ UNCHANGED <<block, pos, stage, defined>>

(* UseScratchGpr, UseScratchXmm, UseScratch *)
UseScratch(k) ==
  /\ stage = "emit" /\ k \in todo /\ block[pos].kind \in {"op", "nz"}
  /\ \E desired \in Desired(Width(Arg(pos, k))) : \E o \in UseScratchImpl(alloc, Arg(pos, k), desired) :
       /\ alloc' = o[1]
       /\ held' = held \cup {Handle(k, o, TRUE, Arg(pos, k))}
  /\ todo' = todo \ {k}
  /\ UNCHANGED <<block, pos, stage, defined>>

(* ScratchGpr, ScratchXmm *)
Scratch ==
  /\ stage = "emit" /\ block[pos].kind \in {"op", "nz"}
  /\ Cardinality({h \in held : h.arg = 0}) < MaxScratch
  /\ \E desired \in Desired(64) : \E o \in ScratchImpl(alloc, desired) :
       /\ alloc' = [o[1] EXCEPT !.content[o[2]] = {}]
       /\ held' = held \cup {Handle(0, o, TRUE, None)}
  /\ UNCHANGED <<block, pos, stage, todo, defined>>

(* DefineValue in a register the emitter may write, where it has put the   *)
(* value: of the instruction, or of one of its pseudo-operations.          *)
DefineValue ==
  /\ stage = "emit" /\ block[pos].kind \in {"op", "nz"}
  /\ \E v \in Results \ defined : \E h \in held :
       /\ h.write /\ h.arg >= 0
       /\ 0 < Width(v) /\ Width(v) <= HostLocBitWidth(h.loc)
       /\ alloc' = Write(DefineValueImpl(alloc, v, h.loc), h.loc, v)
       /\ held' = (held \ {h}) \cup {[h EXCEPT !.val = v, !.arg = -v]}
       /\ defined' = defined \cup {v}
  /\ UNCHANGED <<block, pos, stage, todo>>

(* DefineValue with an argument: both values are in one location, or the   *)
(* immediate is loaded into a new one.                                     *)
DefineAsArgument ==
  /\ stage = "emit" /\ block[pos].kind = "id" /\ 1 \in todo
  /\ LET v == Arg(pos, 1)
         l == ValueLocation(alloc, v)
         r == DefineValueImpl(alloc, pos, l)
     IN \/ /\ v # Imm
           /\ alloc' = [r EXCEPT !.content[l] = @ \cup {<<pos, p[2]>> : p \in {q \in @ : q[1] = v}}]
        \/ /\ v = Imm
           /\ \E o \in LoadImmediate(alloc, GPR) :
                alloc' = Write(DefineValueImpl(o[1], pos, o[2]), o[2], pos)
  /\ defined' = defined \cup {pos} /\ todo' = todo \ {1}
  /\ UNCHANGED <<block, pos, stage, held>>

(* Release of a register the emitter has finished with. *)
Release ==
  /\ stage = "emit"
  /\ \E h \in held :
       /\ h.arg >= 0
       /\ held' = held \ {h}
       /\ alloc' = [alloc EXCEPT !.info[h.loc] = ReleaseOne(@),
                                 !.content[h.loc] = IF h.write THEN {} ELSE @]
  /\ UNCHANGED <<block, pos, stage, todo, defined>>

(* HostCall takes the registers a host function may destroy, one after     *)
(* the other: the one of the result, those of the arguments, the others.   *)
CallerSave == Params \o OtherCallerSave
Taken == {h.loc : h \in held}

TakeAt(r, l, outcomes) == IF IsLocked(r, l) THEN {<<Asserting(r, FALSE), l>>} ELSE outcomes

HostCall ==
  /\ stage = "emit" /\ block[pos].kind = "call" /\ stage' = "call"
  /\ \E o \in TakeAt(alloc, ABI_RETURN, ScratchImpl(alloc, {ABI_RETURN})) :
       /\ alloc' = IF Width(pos) > 0 THEN DefineValueImpl(o[1], pos, ABI_RETURN) ELSE o[1]
       /\ held' = held \cup {Handle(-pos, o, TRUE, None)}
  /\ UNCHANGED <<block, pos, todo, defined>>

PassArgument(k) ==
  /\ stage = "call" /\ \A j \in todo : k <= j
  /\ \E o \in TakeAt(alloc, Params[k], UseScratchImpl(alloc, Arg(pos, k), {Params[k]})) :
       /\ alloc' = o[1]
       /\ held' = held \cup {Handle(k, o, TRUE, Arg(pos, k))}
  /\ todo' = todo \ {k}
  /\ UNCHANGED <<block, pos, stage, defined>>

SaveRegister ==
  /\ stage = "call" /\ todo = {}
  /\ \E i \in Len(block[pos].args) + 1..Len(CallerSave) :
       /\ CallerSave[i] \notin Taken
       /\ \A j \in Len(block[pos].args) + 1..i - 1 : CallerSave[j] \in Taken
       /\ \E o \in TakeAt(alloc, CallerSave[i], ScratchImpl(alloc, {CallerSave[i]})) :
            /\ alloc' = o[1]
            /\ held' = held \cup {Handle(0, o, TRUE, None)}
  /\ UNCHANGED <<block, pos, stage, todo, defined>>

(* The call itself, which may overwrite all of them. *)
CallFunction ==
  /\ stage = "call" /\ todo = {} /\ stage' = "called"
  /\ \A i \in Len(block[pos].args) + 1..Len(CallerSave) : CallerSave[i] \in Taken
  /\ LET destroyed == {ABI_RETURN} \cup {CallerSave[i] : i \in 1..Len(CallerSave)}
         r == [alloc EXCEPT !.content = [l \in HostLoc |-> IF l \in destroyed THEN {} ELSE @[l]]]
     IN alloc' = IF Width(pos) > 0 THEN Write(r, ABI_RETURN, pos) ELSE r
  /\ held' = {}
  /\ defined' = IF Width(pos) > 0 THEN defined \cup {pos} ELSE defined
  /\ UNCHANGED <<block, pos, todo>>

(* The scratch registers of the instruction keep nothing of use. *)
EndOfAllocScope(r, handles) ==
  [r EXCEPT !.info = [l \in HostLoc |-> ReleaseAll(@[l])],
            !.content = [l \in HostLoc |-> IF \E h \in handles : h.loc = l /\ h.write /\ h.arg >= 0
                                           THEN {} ELSE @[l]]]

Defines(i) ==
  /\ \A j \in PseudosOf(i) : block[j].kind = "pseudo" => j \in defined
  /\ i \notin defined => \A u \in UsesOf(i) : block[u[1]].kind = "pseudo"

FinishInst ==
  /\ stage = "called" \/ (stage = "emit" /\ block[pos].kind # "call")
  /\ Defines(pos)
  /\ alloc' = EndOfAllocScope(alloc, held)
  /\ pos' = pos + 1 /\ stage' = "next" /\ todo' = {} /\ held' = {}
  /\ UNCHANGED <<block, defined>>

(* EmitGetCarryFromOp and its like: the value is there already. *)
RegisterPseudoOperation ==
  /\ stage = "next" /\ pos <= Len(block) /\ IsPseudo
  /\ alloc' = EndOfAllocScope(Asserting(References, IsValueLive(alloc, pos) \/ UseCount(pos) = 0), {})
  /\ pos' = pos + 1
  /\ UNCHANGED <<block, stage, todo, held, defined>>

AssertNoMoreUses ==
  /\ stage = "next" /\ pos > Len(block)
  /\ stage' = "done"
  /\ alloc' = Asserting(alloc, \A l \in HostLoc : IsEmpty(alloc, l))
  /\ UNCHANGED <<block, pos, todo, held, defined>>

(* An ASSERT that fails ends the program. *)
AllocNext ==
  /\ alloc.ok
  /\ \/ GetArgumentInfo \/ (\E k \in todo : UseReg(k) \/ UseScratch(k) \/ PassArgument(k))
     \/ Scratch \/ DefineValue \/ DefineAsArgument \/ Release
     \/ HostCall \/ SaveRegister \/ CallFunction
     \/ FinishInst \/ RegisterPseudoOperation \/ AssertNoMoreUses

AllocSpec == AllocInit /\ [][AllocNext]_allocVars

----------------------------------------------------------------------------
HasBits(r, l, v) == \E p \in r.content[l] : p[1] = v /\ p[2] >= Width(v)

(* Read by an argument that is not allocated yet or by a later instruction. *)
IsNeeded(v) ==
  \E u \in UsesOf(v) : \/ u[1] = pos /\ u[2] \in todo
                       \/ u[1] > pos /\ block[u[1]].kind # "pseudo"

(* No value is lost: whatever spills, exchanges, copies and host calls     *)
(* came before, a value that is still to be read is in exactly one place,  *)
(* all its bits are there, and no emitter may write to that place.         *)
ValuesHeld ==
  \A v \in defined : IsNeeded(v) =>
    /\ Cardinality(ValueLocations(alloc, v)) = 1
    /\ \A l \in ValueLocations(alloc, v) : HasBits(alloc, l, v) /\ (v \notin Results => ~alloc.info[l].scratch)

(* A register stays what its emitter was given, whatever is allocated      *)
(* after it: it contains its argument or the result, and one that may be   *)
(* written is given only once.                                             *)
HandlesHold ==
  \A h \in held :
    /\ h.val # None => HasBits(alloc, h.loc, h.val)
    /\ \A g \in held : g # h /\ h.write => g.loc # h.loc

(* No ASSERT of the allocator fails, the count of uses included: at the    *)
(* end of the block every location is empty.                               *)
AssertsHold == alloc.ok

----------------------------------------------------------------------------
(* The inductive invariant, as long as no ASSERT has failed.               *)

(* Uses of the values of S in the instructions from n on. *)
UsesFrom(S, n) ==
  {u \in (n..Len(block)) \X (1..4) : u[2] <= Len(block[u[1]].args) /\ Arg(u[1], u[2]) \in S}

LocInfo == [used: Nat, scratch: BOOLEAN, last_use: BOOLEAN, refs: Nat, acc: Nat, total: Nat,
            values: SUBSET (1..Len(block)), width: {0, 32, 64, 128}]
Allocator == [info: [HostLoc -> LocInfo], content: [HostLoc -> SUBSET (Nat \X Nat)], ok: BOOLEAN]
Handles == [arg: Int, loc: HostLoc, write: BOOLEAN, val: Int]

(* A location counts the uses to come, from instruction n on, of the       *)
(* values it holds.  Their bits are there, except those of the pending     *)
(* result of a call and of a value given up on its last use.               *)
LocationInv(r, l, n, pending) ==
  /\ r.info[l].total = r.info[l].acc + r.info[l].refs + Cardinality(UsesFrom(r.info[l].values, n))
  /\ \A v \in r.info[l].values :
       /\ Width(v) <= r.info[l].width
       /\ v \notin pending /\ ~r.info[l].last_use => HasBits(r, l, v)
  /\ r.info[l].scratch =>
       r.info[l].used > 0 /\ (r.info[l].last_use \/ r.info[l].values \subseteq Results)
  /\ r.info[l].last_use =>
       r.info[l].scratch /\ r.info[l].refs = 1 /\ r.info[l].acc + 1 = r.info[l].total

LocationsInv(r, n, pending) ==
  /\ r \in Allocator
  /\ \A l \in HostLoc : LocationInv(r, l, n, pending)
  /\ \A l, m \in HostLoc : r.info[l].values \cap r.info[m].values # {} => l = m

(* The arguments read at a location, and those still to be taken from it.  *)
Reading(l, handles) == {h.arg : h \in {g \in handles : ~g.write /\ g.loc = l}}
Waiting(r, l, args) == {k \in args : Arg(pos, k) \in r.info[l].values}

(* Whatever an emitter holds is locked, and is released no earlier than it *)
(* is given back: each argument has its own reference.                     *)
LockInv(r, l, handles, args) ==
  /\ r.info[l].used >= Number(Reading(l, handles))
  /\ r.info[l].refs >= Number(Reading(l, handles) \cup Waiting(r, l, args))
  /\ r.info[l].last_use => Waiting(r, l, args) = {}

HandleInv(r, h, handles, args) ==
  /\ h.val # None => HasBits(r, h.loc, h.val)
  /\ h.arg > 0 => h.arg \in 1..Len(block[pos].args) \ args
  /\ h.write => /\ r.info[h.loc].scratch
                /\ h.arg >= 0 => r.info[h.loc].last_use \/ r.info[h.loc].values = {}
  /\ ~h.write => h.arg > 0 /\ ~r.info[h.loc].scratch
  /\ \A g \in handles : g # h => (h.write => g.loc # h.loc) /\ (h.arg > 0 => g.arg # h.arg)

HandlesInv(r, handles, args) ==
  /\ handles \subseteq Handles
  /\ \A l \in HostLoc : LockInv(r, l, handles, args)
  /\ \A h \in handles : HandleInv(r, h, handles, args)
  /\ \A k \in args : /\ k \in 1..Len(block[pos].args)
                     /\ Arg(pos, k) # Imm => IsValueLive(r, Arg(pos, k))

(* A defined value is somewhere as long as there are uses to come. *)
LiveInv(r, values, n) ==
  \A v \in values : UsesFrom({v}, n) # {} => IsValueLive(r, v)

NextUse == IF stage \in {"next", "done"} THEN pos ELSE pos + 1

(* Between instructions nothing is locked, and values are kept only as     *)
(* long as they have uses to come.                                         *)
Idle(r, n) ==
  \A l \in HostLoc : /\ ~r.info[l].scratch /\ r.info[l].used = 0
                     /\ r.info[l].values # {} => UsesFrom(r.info[l].values, n) # {}

(* How far the block is.  In a host call the registers up to the next      *)
(* argument are taken, all to be written.                                  *)
StageInv ==
  /\ WellFormed(block) /\ pos \in Nat \ {0} /\ defined \subseteq 1..Len(block)
  /\ stage \in {"next", "emit", "call", "called", "done"}
  /\ stage \in {"emit", "call", "called"} => pos <= Len(block)
  /\ stage \in {"next", "called", "done"} => held = {} /\ todo = {}
  /\ stage \in {"next", "done"} => Idle(alloc, pos)
  /\ \A v \in defined : v < NextUse \/ block[v].kind \in {"pseudo", "nz"}
  /\ stage = "emit" /\ block[pos].kind = "call" =>
       pos \notin defined /\ held = {} /\ todo = 1..Len(block[pos].args)
  /\ stage = "call" =>
       /\ block[pos].kind = "call" /\ pos \notin defined
       /\ \A h \in held : h.write /\ (h.arg < 0 => h.loc = ABI_RETURN)
       /\ ABI_RETURN \in Taken
       /\ \A k \in 1..Len(block[pos].args) \ todo : Params[k] \in Taken
       /\ alloc.info[ABI_RETURN].values = IF Width(pos) > 0 THEN {pos} ELSE {}

Pending == IF stage = "call" /\ Width(pos) > 0 THEN {pos} ELSE {}

(* A location's counts are the uses to come of the values it holds, and an *)
(* emitter's registers are locked with a reference for each argument read. *)
AllocInv ==
  AssertsHold =>
    /\ StageInv
    /\ LocationsInv(alloc, NextUse, Pending)
    /\ HandlesInv(alloc, held, todo)
    /\ LiveInv(alloc, defined, NextUse)
=============================================================================
