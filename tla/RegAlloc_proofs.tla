-------------------------- MODULE RegAlloc_proofs ---------------------------
(***************************************************************************)
(* AllocInv is an invariant of the x64 register allocator: the steps of a  *)
(* host call and those between instructions preserve it, as those of the   *)
(* emitters do.  So a value with uses to come keeps its bits, a register   *)
(* an emitter holds keeps what was put in it until the emitter ends, and   *)
(* AssertNoMoreUses never fails.                                           *)
(***************************************************************************)
EXTENDS RegAllocEmit_proofs

----------------------------------------------------------------------------
(* Host calls.                                                             *)

(* What a register of a host call leads to, as long as no ASSERT fails. *)
LEMMA TakeAtFacts ==
  ASSUME NEW r \in Allocator, NEW l, NEW outcomes, NEW o \in TakeAt(r, l, outcomes)
  PROVE  o \in outcomes \/ (o[1] \in Allocator /\ o[1].ok = FALSE)
<1>1. CASE IsLocked(r, l)
  <2> DEFINE b == FALSE
  <2>1. b \in BOOLEAN /\ ~b
    BY Zenon
  <2>2. o = <<Asserting(r, b), l>>
    BY Zenon, <1>1 DEF TakeAt
  <2> HIDE DEF b
  <2>3. Asserting(r, b) \in Allocator /\ ~Asserting(r, b).ok
    BY Zenon, <2>1, AssertingFacts
  <2>4. o[1] = Asserting(r, b)
    BY Zenon, <2>2
  <2>5. o[1] \in Allocator /\ ~o[1].ok
    BY Zenon, <2>3, <2>4
  <2>6. o[1].ok \in BOOLEAN
    BY <2>5, Zenon DEF Allocator
  <2> QED  BY <2>5, <2>6, Zenon
<1>2. CASE ~IsLocked(r, l)
  BY <1>2 DEF TakeAt
<1> QED  BY Zenon, <1>1, <1>2

(* HostCall preserves the invariant. *)
LEMMA HostCallInv ==
  ASSUME AllocInv, alloc.ok, HostCall, alloc'.ok
  PROVE  AllocInv'
<1>1. PICK o \in TakeAt(alloc, ABI_RETURN, ScratchImpl(alloc, {ABI_RETURN})) :
       /\ alloc' = IF Width(pos) > 0 THEN DefineValueImpl(o[1], pos, ABI_RETURN) ELSE o[1]
       /\ held' = held \cup {Handle(-pos, o, TRUE, None)}
  BY Zenon DEF HostCall
<1>2. /\ stage = "emit" /\ block[pos].kind = "call" /\ stage' = "call"
      /\ block' = block /\ pos' = pos /\ todo' = todo /\ defined' = defined
  BY Zenon DEF HostCall
<1>3. /\ StageInv /\ Sound(alloc, {}, held, todo)
      /\ \A v \in defined : UsesFrom({v}, pos + 1) # {} => IsValueLive(alloc, v)
  BY Zenon, <1>2, Emitting DEF Pending
<1>4. held = {} /\ todo = 1..Len(block[pos].args) /\ pos \notin defined
  BY Zenon, <1>2, <1>3 DEF StageInv
<1>5. WellFormed(block) /\ pos \in 1..Len(block) /\ alloc \in Allocator /\ Len(block) \in Nat /\ pos \in Results
  BY Zenon, <1>3, BlockFacts DEF Sound, LocationsInv, Results
<1>6. {ABI_RETURN} \subseteq GPR \cup XMM /\ ABI_RETURN \in HostLoc
  BY Zenon, HostAssumption DEF HostLoc
<1>7. o \in ScratchImpl(alloc, {ABI_RETURN}) \/ (o[1] \in Allocator /\ o[1].ok = FALSE)
  BY Zenon, <1>5, TakeAtFacts
<1>8. o[1] \in Allocator
  BY Zenon, <1>5, <1>6, <1>7, ScratchType
<1>9. PICK x : x = alloc'
  BY Zenon
<1>10. PICK r : r = o[1]
  BY Zenon
<1>11. Width(pos) > 0 => Defined(r, x, ABI_RETURN, pos)
  BY Zenon, <1>1, <1>5, <1>6, <1>8, <1>9, <1>10, DefineFacts
<1>12. r.ok
  BY Zenon, <1>1, <1>9, <1>10, <1>11 DEF Defined
<1>13. o \in ScratchImpl(alloc, {ABI_RETURN}) /\ o[2] = ABI_RETURN
  <2>1. o \in ScratchImpl(alloc, {ABI_RETURN})
    BY <1>7, <1>10, <1>12, Zenon
  <2> QED  BY <1>5, <1>6, <2>1, ScratchType
<1>14. TakenAt(alloc, r, ABI_RETURN, {}, {}, todo)
  BY Zenon, <1>3, <1>4, <1>6, <1>10, <1>12, <1>13, ScratchTakes
<1>15. PICK h : h = [arg |-> -pos, loc |-> ABI_RETURN, write |-> TRUE, val |-> None]
  BY Zenon
<1>16. -pos \in Int /\ -pos < 0 /\ -pos <= 0
  BY <1>5
<1>17. TakenFor(alloc, r, h, {}, {}, todo)
  <2> DEFINE a == -pos
  <2>1. a \in Int /\ a <= 0 /\ h = [arg |-> a, loc |-> ABI_RETURN, write |-> TRUE, val |-> None]
    BY Zenon, <1>15, <1>16
  <2> HIDE DEF a
  <2> QED  BY <1>3, <1>4, <1>14, <2>1, TakenForNothing
<1>18. h.loc = ABI_RETURN /\ h.arg = -pos /\ h.arg < 0 /\ h.write /\ h.val = None /\ h \in Handles
  BY Zenon, <1>15, <1>16, <1>17 DEF TakenFor
<1>19. held' = {h}
  BY Zenon, <1>1, <1>4, <1>13, <1>15 DEF Handle
<1>20. /\ Sound(r, {}, {h}, todo) /\ LiveKept(alloc, r)
       /\ r.info[ABI_RETURN].scratch /\ r.info[ABI_RETURN].values = {}
  <2>1. {} \cup {h} = {h}
    BY Zenon
  <2> QED  BY Zenon, <1>17, <1>18, <2>1 DEF TakenFor
<1>21. PICK pending : pending = Pending'
  BY Zenon
<1>22. /\ Sound(x, pending, {h}, todo) /\ NeededKept(alloc, x, pos + 1)
       /\ x.info[ABI_RETURN].values = IF Width(pos) > 0 THEN {pos} ELSE {}
  <2>1. CASE Width(pos) > 0
    <3>1. pending = {pos}
      BY Zenon, <1>2, <1>21, <2>1 DEF Pending, Width
    <3>2. Refilled(x, x, ABI_RETURN) /\ x.ok
      BY Zenon, <1>9, <1>11, <2>1 DEF Defined, OnlyAt, Refilled
    <3>3. Reading(ABI_RETURN, {h}) = {}
      BY Zenon, <1>18 DEF Reading
    <3>4. \A g \in {h} : DefinedHandle(x, g, ABI_RETURN, {h})
      BY Zenon, <1>18 DEF DefinedHandle
    <3>5. \A g, g1 \in {h} : g.loc = ABI_RETURN /\ g1.loc = ABI_RETURN => g = g1
      BY Zenon
    <3>6. {} \subseteq pending /\ pending \subseteq {pos} /\ pos \in pending
      BY Zenon, <3>1
    <3>7. DefinedIn(r, x, ABI_RETURN, pos, pending, {h}, todo)
      BY Zenon, <1>5, <1>6, <1>11, <1>20, <2>1, <3>2, <3>3, <3>4, <3>5, <3>6, DefinedInScratch
    <3>8. Sound(x, pending, {h}, todo) /\ NeededKept(r, x, pos + 1) /\ x.info[ABI_RETURN].values = {pos}
      BY Zenon, <3>7 DEF DefinedIn
    <3>9. NeededKept(alloc, x, pos + 1)
      BY Zenon, <1>20, <3>8 DEF NeededKept, LiveKept
    <3> QED  BY Zenon, <2>1, <3>8, <3>9
  <2>2. CASE ~(Width(pos) > 0)
    <3>1. pending = {} /\ x = r
      BY Zenon, <1>1, <1>2, <1>9, <1>10, <1>21, <2>2 DEF Pending, Width
    <3> QED  BY Zenon, <1>20, <2>2, <3>1, KeptIsNeeded
  <2> QED  BY Zenon, <2>1, <2>2
<1>23. StageInv'
  <2>1. \A g \in held' : g.write /\ (g.arg < 0 => g.loc = ABI_RETURN)
    BY Zenon, <1>18, <1>19
  <2>2. ABI_RETURN \in Taken'
    BY Zenon, <1>18, <1>19 DEF Taken
  <2>3. 1..Len(block[pos].args) \ todo = {}
    BY Zenon, <1>4
  <2>4. alloc'.info[ABI_RETURN].values = IF Width(pos)' > 0 THEN {pos} ELSE {}
    BY Zenon, <1>2, <1>9, <1>22 DEF Width
  <2>5. NextUse' = NextUse
    BY Zenon, <1>2 DEF NextUse
  <2> QED  BY Zenon, <1>2, <1>3, <1>4, <2>1, <2>2, <2>3, <2>4, <2>5 DEF StageInv
<1>24. \A v \in defined' : UsesFrom({v}, pos + 1) # {} => IsValueLive(x, v)
  BY Zenon, <1>2, <1>3, <1>22 DEF NeededKept
<1>25. PICK args : args = todo'
  BY Zenon
<1>26. PICK handles : handles = held'
  BY Zenon
<1>27. Sound(x, pending, handles, args)
  BY Zenon, <1>2, <1>19, <1>22, <1>25, <1>26
<1>28. stage' \in {"emit", "call", "called"}
  BY Zenon, <1>2
<1> QED  BY Zenon, <1>2, <1>9, <1>21, <1>23, <1>24, <1>25, <1>26, <1>27, <1>28, EmitKept

(* One more register is taken in a host call: those taken before, the one  *)
(* of the result among them, are what they were.                           *)
LEMMA CallStep ==
  ASSUME AllocInv, alloc.ok, stage = "call", block' = block, pos' = pos, stage' = stage, defined' = defined,
         todo' \subseteq todo, NEW h, h.write, h.arg >= 0, held' = held \cup {h},
         \A k \in todo \ todo' : h.loc = Params[k],
         NEW q, q = alloc', Sound(q, Pending, held \cup {h}, todo'), LiveKept(alloc, q), LockedKept(alloc, q)
  PROVE  AllocInv'
<1>1. /\ StageInv /\ Sound(alloc, Pending, held, todo)
      /\ \A v \in defined : UsesFrom({v}, pos + 1) # {} => IsValueLive(alloc, v)
  BY Emitting
<1>2. q.info[ABI_RETURN] = alloc.info[ABI_RETURN]
  <2>1. PICK g \in held : g.loc = ABI_RETURN /\ g.write
    BY Zenon, <1>1 DEF StageInv, Taken
  <2>2. IsLocked(alloc, ABI_RETURN) /\ ABI_RETURN \in HostLoc
    BY Zenon, <1>1, <2>1, WritableFacts
  <2> QED  BY Zenon, <2>2 DEF LockedKept
<1>3. StageInv'
  <2>1. /\ block[pos].kind = "call" /\ pos \notin defined
        /\ \A g \in held : g.write /\ (g.arg < 0 => g.loc = ABI_RETURN)
        /\ ABI_RETURN \in Taken
        /\ \A k \in 1..Len(block[pos].args) \ todo : Params[k] \in Taken
        /\ alloc.info[ABI_RETURN].values = IF Width(pos) > 0 THEN {pos} ELSE {}
    BY Zenon, <1>1 DEF StageInv
  <2>2. h.arg \in Int
    BY Zenon DEF Sound, HandlesInv, Handles
  <2>3. \A g \in held' : g.write /\ (g.arg < 0 => g.loc = ABI_RETURN)
    BY <2>1, <2>2
  <2>4. Taken' = Taken \cup {h.loc}
    BY Zenon DEF Taken
  <2>5. ABI_RETURN \in Taken' /\ \A k \in 1..Len(block[pos].args) \ todo' : Params[k] \in Taken'
    BY Zenon, <2>1, <2>4
  <2>6. alloc'.info[ABI_RETURN].values = IF Width(pos)' > 0 THEN {pos} ELSE {}
    BY Zenon, <1>2, <2>1 DEF Width
  <2>7. NextUse' = NextUse
    BY Zenon DEF NextUse
  <2> QED  BY Zenon, <1>1, <2>1, <2>3, <2>5, <2>6, <2>7 DEF StageInv
<1>4. PICK pending : pending = Pending'
  BY Zenon
<1>5. pending = Pending
  BY Zenon, <1>4 DEF Pending, Width
<1>6. PICK args : args = todo'
  BY Zenon
<1>7. PICK handles : handles = held'
  BY Zenon
<1>8. Sound(q, pending, handles, args)
  BY Zenon, <1>5, <1>6, <1>7
<1>9. \A v \in defined' : UsesFrom({v}, pos + 1) # {} => IsValueLive(q, v)
  BY Zenon, <1>1 DEF LiveKept
<1>10. stage' \in {"emit", "call", "called"}
  BY Zenon
<1> QED  BY Zenon, <1>3, <1>4, <1>6, <1>7, <1>8, <1>9, <1>10, EmitKept

(* PassArgument preserves the invariant. *)
LEMMA PassArgumentInv ==
  ASSUME AllocInv, alloc.ok, NEW k \in todo, PassArgument(k), alloc'.ok
  PROVE  AllocInv'
<1>1. PICK o \in TakeAt(alloc, Params[k], UseScratchImpl(alloc, Arg(pos, k), {Params[k]})) :
       alloc' = o[1] /\ held' = held \cup {Handle(k, o, TRUE, Arg(pos, k))}
  BY Zenon DEF PassArgument
<1>2. /\ stage = "call" /\ stage' = stage /\ block' = block /\ pos' = pos /\ todo' = todo \ {k} /\ defined' = defined
  BY Zenon DEF PassArgument
<1>3. StageInv /\ Sound(alloc, Pending, held, todo)
  BY Zenon, <1>2, Emitting
<1>4. WellFormed(block) /\ pos \in 1..Len(block) /\ alloc \in Allocator /\ block[pos].kind = "call"
  BY Zenon, <1>2, <1>3 DEF Sound, LocationsInv, StageInv
<1>5. Params[k] \in GPR
  <2>1. k \in 1..Len(block[pos].args)
    BY Zenon, <1>3, SoundArgument
  <2> DEFINE m == Len(block[pos].args)
  <2>2. m \in Nat /\ m <= Len(Params) /\ Len(Params) \in Nat /\ k \in 1..m
    BY <1>4, <2>1, BlockFacts, HostAssumption DEF WellFormed
  <2> HIDE DEF m
  <2>3. k \in 1..Len(Params)
    BY <2>2
  <2> QED  BY <2>3, HostAssumption
<1>6. {Params[k]} \subseteq GPR \cup XMM
  BY Zenon, <1>5
<1>7. o \in UseScratchImpl(alloc, Arg(pos, k), {Params[k]})
  <2>1. o \in UseScratchImpl(alloc, Arg(pos, k), {Params[k]}) \/ (o[1] \in Allocator /\ o[1].ok = FALSE)
    BY Zenon, <1>4, TakeAtFacts
  <2>2. o[1].ok
    BY <1>1
  <2> QED  BY <2>1, <2>2, Zenon
<1>8. PICK h : h = Handle(k, o, TRUE, Arg(pos, k))
  BY Zenon
<1>9. GivenFrom(alloc, o, h, {Params[k]}, Pending, held, todo)
  BY Zenon, <1>1, <1>3, <1>6, <1>7, <1>8, UseScratchGiven
<1>10. PICK q : q = alloc'
  BY Zenon
<1>11. h.arg = k /\ h.write /\ h.loc = Params[k]
  BY Zenon, <1>8, <1>9 DEF Handle, GivenFrom
<1>12. /\ Sound(q, Pending, held \cup {h}, todo \ {k}) /\ LiveKept(alloc, q) /\ LockedKept(alloc, q)
  BY Zenon, <1>1, <1>9, <1>10, <1>11 DEF GivenFrom, Given
<1>13. h.arg >= 0
  <2>1. k \in 1..4 /\ h.arg = k
    BY Zenon, <1>3, <1>11, SoundArgument
  <2>2. k >= 0
    BY <2>1
  <2> QED  BY Zenon, <2>1, <2>2
<1>14. held' = held \cup {h} /\ todo' \subseteq todo /\ \A j \in todo \ todo' : h.loc = Params[j]
  BY Zenon, <1>1, <1>2, <1>8, <1>11
<1>15. Sound(q, Pending, held \cup {h}, todo')
  BY Zenon, <1>2, <1>12
<1> QED  BY Zenon, <1>2, <1>10, <1>11, <1>12, <1>13, <1>14, <1>15, CallStep

(* The registers a call takes are registers. *)
LEMMA CallerSaveFacts ==
  /\ Len(Params) \in Nat /\ Len(CallerSave) \in Nat /\ Len(Params) <= Len(CallerSave)
  /\ \A i \in 1..Len(CallerSave) : CallerSave[i] \in GPR \cup XMM
  /\ \A i \in 1..Len(Params) : CallerSave[i] = Params[i]
<1>1. /\ Params \in Seq(GPR \cup XMM) /\ OtherCallerSave \in Seq(GPR \cup XMM)
      /\ Params \in Seq(GPR)
  BY HostAssumption
<1> QED  BY <1>1 DEF CallerSave

(* SaveRegister preserves the invariant. *)
LEMMA SaveRegisterInv ==
  ASSUME AllocInv, alloc.ok, SaveRegister, alloc'.ok
  PROVE  AllocInv'
<1>1. PICK i \in Len(block[pos].args) + 1..Len(CallerSave) :
       \E o \in TakeAt(alloc, CallerSave[i], ScratchImpl(alloc, {CallerSave[i]})) :
         alloc' = o[1] /\ held' = held \cup {Handle(0, o, TRUE, None)}
  BY Zenon DEF SaveRegister
<1>2. PICK o \in TakeAt(alloc, CallerSave[i], ScratchImpl(alloc, {CallerSave[i]})) :
         alloc' = o[1] /\ held' = held \cup {Handle(0, o, TRUE, None)}
  BY Zenon, <1>1
<1>3. /\ stage = "call" /\ stage' = stage /\ block' = block /\ pos' = pos /\ todo' = todo /\ defined' = defined
  BY Zenon DEF SaveRegister
<1>4. StageInv /\ Sound(alloc, Pending, held, todo)
  BY Zenon, <1>3, Emitting
<1>5. WellFormed(block) /\ pos \in 1..Len(block) /\ alloc \in Allocator
  BY Zenon, <1>4 DEF Sound, LocationsInv
<1>6. CallerSave[i] \in GPR \cup XMM
  <2> DEFINE m == Len(block[pos].args)
             n == Len(CallerSave)
  <2>1. m \in Nat /\ n \in Nat /\ i \in m + 1..n
    BY <1>5, BlockFacts, CallerSaveFacts
  <2>2. i \in 1..n
    <3> HIDE DEF m, n
    <3> QED  BY <2>1
  <2> QED  BY Zenon, <2>2, CallerSaveFacts
<1>7. {CallerSave[i]} \subseteq GPR \cup XMM
  BY Zenon, <1>6
<1>8. o \in ScratchImpl(alloc, {CallerSave[i]})
  <2>1. o \in ScratchImpl(alloc, {CallerSave[i]}) \/ (o[1] \in Allocator /\ o[1].ok = FALSE)
    BY Zenon, <1>5, TakeAtFacts
  <2>2. o[1].ok
    BY Zenon, <1>2
  <2> QED  BY <2>1, <2>2, Zenon
<1>9. PICK q : q = alloc'
  BY Zenon
<1>10. TakenAt(alloc, q, o[2], Pending, held, todo)
  BY Zenon, <1>2, <1>4, <1>7, <1>8, <1>9, ScratchTakes
<1>11. PICK h : h = [arg |-> 0, loc |-> o[2], write |-> TRUE, val |-> None]
  BY Zenon
<1>12. TakenFor(alloc, q, h, Pending, held, todo)
  <2>1. 0 \in Int /\ 0 <= 0
    OBVIOUS
  <2> QED  BY <1>4, <1>10, <1>11, <2>1, TakenForNothing
<1>13. Sound(q, Pending, held \cup {h}, todo) /\ LiveKept(alloc, q) /\ LockedKept(alloc, q)
  BY Zenon, <1>12 DEF TakenFor
<1>14. h.arg >= 0 /\ h.write
  BY <1>11
<1>15. held' = held \cup {h} /\ todo' \subseteq todo /\ \A j \in todo \ todo' : h.loc = Params[j]
  BY Zenon, <1>2, <1>3, <1>11 DEF Handle
<1>16. Sound(q, Pending, held \cup {h}, todo')
  BY Zenon, <1>3, <1>13
<1> QED  BY Zenon, <1>3, <1>9, <1>13, <1>14, <1>15, <1>16, CallStep

(* The host function destroys only what nobody needs. *)
LEMMA CallSound ==
  ASSUME Sound(alloc, Pending, held, {}), StageInv, stage = "call", todo = {}, NEW q \in Allocator, q.info = alloc.info,
         NEW D, D \subseteq Taken,
         \A l \in HostLoc \ (D \cup {ABI_RETURN}) : q.content[l] = alloc.content[l],
         Width(pos) > 0 => HasBits(q, ABI_RETURN, pos)
  PROVE  Sound(q, {}, {}, {})
<1>1. /\ \A h \in held : h.write /\ (h.arg < 0 => h.loc = ABI_RETURN)
      /\ alloc.info[ABI_RETURN].values = IF Width(pos) > 0 THEN {pos} ELSE {}
  BY Zenon DEF StageInv
<1>2. ABI_RETURN \in HostLoc
  BY Zenon, HostAssumption DEF HostLoc
<1>3. ASSUME NEW l \in HostLoc  PROVE LocationInv(q, l, pos + 1, {})
  <2>1. LocationInv(alloc, l, pos + 1, Pending)
    BY Zenon, SoundLocation
  <2>2. \A v \in q.info[l].values : ~q.info[l].last_use => HasBits(q, l, v)
    <3>1. CASE l = ABI_RETURN
      BY Zenon, <1>1, <3>1
    <3>2. CASE l # ABI_RETURN /\ l \in D
      <4>1. PICK h \in held : h.loc = l
        BY Zenon, <3>2 DEF Taken
      <4>2. h.write /\ ~(h.arg < 0) /\ h.arg \in Int
        BY Zenon, <1>1, <3>2, <4>1 DEF Sound, HandlesInv, Handles
      <4>3. h.arg >= 0
        BY <4>2
      <4> QED  BY Zenon, <4>1, <4>2, <4>3, WritableFacts
    <3>3. CASE l # ABI_RETURN /\ l \notin D
      <4>1. \A v \in alloc.info[l].values : v \notin Pending
        <5>1. alloc.info[l].values \cap alloc.info[ABI_RETURN].values = {}
          BY Zenon, <1>2, <3>3 DEF Sound, LocationsInv
        <5> QED  BY Zenon, <1>1, <5>1 DEF Pending
      <4> QED  BY <2>1, <3>3, <4>1 DEF LocationInv, HasBits
    <3> QED  BY Zenon, <3>1, <3>2, <3>3
  <2> QED  BY Zenon, <2>1, <2>2 DEF LocationInv
<1>4. LocationsInv(q, pos + 1, {})
  BY Zenon, <1>3 DEF Sound, LocationsInv
<1>5. HandlesInv(q, {}, {})
  BY NothingHeld
<1> QED  BY Zenon, <1>4, <1>5 DEF Sound

(* CallFunction preserves the invariant. *)
LEMMA CallFunctionInv ==
  ASSUME AllocInv, alloc.ok, CallFunction, alloc'.ok
  PROVE  AllocInv'
<1> DEFINE D == {ABI_RETURN} \cup {CallerSave[i] : i \in 1..Len(CallerSave)}
           C == [l \in HostLoc |-> IF l \in D THEN {} ELSE alloc.content[l]]
<1>1. /\ stage = "call" /\ todo = {} /\ stage' = "called" /\ block' = block /\ pos' = pos /\ todo' = todo
      /\ held' = {} /\ defined' = IF Width(pos) > 0 THEN defined \cup {pos} ELSE defined
      /\ \A i \in Len(block[pos].args) + 1..Len(CallerSave) : CallerSave[i] \in Taken
  BY DEF CallFunction
<1>2. /\ StageInv /\ Sound(alloc, Pending, held, todo)
      /\ \A v \in defined : UsesFrom({v}, pos + 1) # {} => IsValueLive(alloc, v)
  BY Zenon, <1>1, Emitting
<1>3. /\ WellFormed(block) /\ pos \in 1..Len(block) /\ alloc \in Allocator /\ Len(block) \in Nat
      /\ block[pos].kind = "call" /\ Len(block[pos].args) <= Len(Params) /\ Len(block[pos].args) \in Nat
  <2>1. WellFormed(block) /\ alloc \in Allocator /\ pos \in 1..Len(block) /\ Len(block) \in Nat
    BY Zenon, <1>2, BlockFacts DEF Sound, LocationsInv, StageInv
  <2>2. block[pos].kind = "call"
    BY Zenon, <1>1, <1>2 DEF StageInv
  <2>3. Len(block[pos].args) <= Len(Params)
    BY Zenon, <2>1, <2>2 DEF WellFormed
  <2>4. PICK c : c = Len(block[pos].args)
    BY Zenon
  <2>5. c \in 0..4
    BY Zenon, <2>1, <2>4, BlockFacts
  <2>6. c \in Nat
    BY <2>5
  <2> QED  BY Zenon, <2>1, <2>2, <2>3, <2>4, <2>6
<1>4. D \subseteq Taken
  <2>1. ABI_RETURN \in Taken /\ \A k \in 1..Len(block[pos].args) : Params[k] \in Taken
    BY Zenon, <1>1, <1>2 DEF StageInv
  <2>2. ASSUME NEW i \in 1..Len(CallerSave)  PROVE CallerSave[i] \in Taken
    <3> DEFINE m == Len(block[pos].args)
               n == Len(CallerSave)
               p == Len(Params)
    <3>1. m \in Nat /\ n \in Nat /\ p \in Nat /\ m <= p /\ i \in 1..n
      BY Zenon, <1>3, <2>2, CallerSaveFacts
    <3>2. i \in m + 1..n \/ (i \in 1..m /\ i \in 1..p)
      <4> HIDE DEF m, n, p
      <4> QED  BY <3>1
    <3>3. CASE i \in m + 1..n
      BY Zenon, <1>1, <3>3
    <3>4. CASE i \in 1..m /\ i \in 1..p
      BY Zenon, <2>1, <3>4, CallerSaveFacts
    <3> QED  BY Zenon, <3>2, <3>3, <3>4
  <2> QED  BY Zenon, <2>1, <2>2
<1>5. PICK r : r = [alloc EXCEPT !.content = C]
  BY Zenon
<1>6. PICK q : q = alloc'
  BY Zenon
<1>7. q = IF Width(pos) > 0 THEN Write(r, ABI_RETURN, pos) ELSE r
  BY Zenon, <1>5, <1>6 DEF CallFunction
<1>8. ABI_RETURN \in HostLoc /\ pos \in 0..Len(block)
  BY <1>3, HostAssumption DEF HostLoc
<1>9. C \in [HostLoc -> SUBSET (Nat \X Nat)]
  BY Zenon, <1>3 DEF Allocator
<1> HIDE DEF D
<1>10. \A l \in HostLoc \ (D \cup {ABI_RETURN}) : C[l] = alloc.content[l]
  BY Zenon
<1> HIDE DEF C
<1>11. r \in Allocator
  BY <1>3, <1>5, <1>9, Zenon DEF Allocator
<1>12. r.info = alloc.info /\ r.content = C
  BY Zenon, <1>3, <1>5 DEF Allocator
<1>13. Width(pos) > 0 => Refilled(r, q, ABI_RETURN) /\ HasBits(q, ABI_RETURN, pos)
  BY Zenon, <1>3, <1>7, <1>8, <1>11, WriteFacts
<1>14. /\ q \in Allocator /\ q.info = alloc.info
       /\ \A l \in HostLoc \ (D \cup {ABI_RETURN}) : q.content[l] = alloc.content[l]
  <2>1. CASE Width(pos) > 0
    BY Zenon, <1>10, <1>12, <1>13, <2>1 DEF Refilled
  <2>2. CASE ~(Width(pos) > 0)
    BY Zenon, <1>7, <1>10, <1>11, <1>12, <2>2
  <2> QED  BY Zenon, <2>1, <2>2
<1>15. Sound(q, {}, {}, {})
  <2>1. Sound(alloc, Pending, held, {})
    BY Zenon, <1>1, <1>2
  <2> QED  BY Zenon, <1>1, <1>2, <1>4, <1>13, <1>14, <2>1, CallSound
<1>16. {} = Pending' /\ {} = held' /\ {} = todo'
  BY Zenon, <1>1 DEF Pending
<1>17. \A v \in defined' : UsesFrom({v}, pos + 1) # {} => IsValueLive(q, v)
  <2>1. \A v : IsValueLive(alloc, v) => IsValueLive(q, v)
    BY Zenon, <1>14 DEF IsValueLive, ValueLocations
  <2>2. Width(pos) > 0 => IsValueLive(q, pos)
    <3>1. Width(pos) > 0 => pos \in q.info[ABI_RETURN].values
      BY Zenon, <1>1, <1>2, <1>14 DEF StageInv
    <3> QED  BY Zenon, <1>8, <3>1 DEF IsValueLive, ValueLocations
  <2> QED  BY Zenon, <1>1, <1>2, <2>1, <2>2
<1>18. StageInv'
  <2>1. NextUse' = pos + 1 /\ NextUse = pos + 1 /\ pos \in Nat /\ pos < pos + 1
    BY <1>1, <1>3 DEF NextUse
  <2>2. \A v \in defined' : v \in 1..Len(block) /\ (v < pos + 1 \/ block[v].kind \in {"pseudo", "nz"})
    BY Zenon, <1>1, <1>2, <1>3, <2>1 DEF StageInv
  <2> QED  BY Zenon, <1>1, <1>2, <2>1, <2>2 DEF StageInv
<1>19. stage' \in {"emit", "call", "called"}
  BY Zenon, <1>1
<1> QED  BY Zenon, <1>1, <1>6, <1>15, <1>16, <1>17, <1>18, <1>19, EmitKept

(* FinishInst preserves the invariant. *)
LEMMA FinishInstInv ==
  ASSUME AllocInv, alloc.ok, FinishInst, alloc'.ok
  PROVE  AllocInv'
<1>1. /\ stage = "called" \/ (stage = "emit" /\ block[pos].kind # "call")
      /\ pos' = pos + 1 /\ stage' = "next" /\ todo' = {} /\ held' = {} /\ block' = block /\ defined' = defined
  BY Zenon DEF FinishInst
<1>2. /\ StageInv /\ Sound(alloc, {}, held, todo)
      /\ \A v \in defined : UsesFrom({v}, pos + 1) # {} => IsValueLive(alloc, v)
  BY Zenon, <1>1, Emitting DEF Pending
<1>3. PICK q : q = alloc'
  BY Zenon
<1>4. PICK n : n = pos'
  BY Zenon
<1>5. n = pos + 1 /\ n \in Nat /\ WellFormed(block) /\ pos \in 1..Len(block) /\ LocationsInv(alloc, n, {})
  BY <1>1, <1>2, <1>4, BlockFacts DEF Sound
<1>6. \A h \in held : h.write /\ h.arg >= 0 => alloc.info[h.loc].last_use \/ alloc.info[h.loc].values = {}
  BY Zenon, <1>2, WritableFacts
<1>7. q = EndOfAllocScope(alloc, held)
  BY Zenon, <1>3 DEF FinishInst
<1>8. AtRest(q, n) /\ NeededKept(alloc, q, n)
  BY Zenon, <1>5, <1>6, <1>7, EndOfAllocScopeFacts
<1>9. LocationsInv(q, n, {}) /\ Idle(q, n)
  BY Zenon, <1>8 DEF AtRest
<1>10. \A v \in defined' : UsesFrom({v}, n) # {} => IsValueLive(q, v)
  BY Zenon, <1>1, <1>2, <1>5, <1>8 DEF NeededKept
<1>11. StageInv'
  <2>1. NextUse' = pos + 1 /\ NextUse = pos + 1
    BY Zenon, <1>1 DEF NextUse
  <2>2. pos + 1 \in Nat \ {0}
    BY <1>5, BlockFacts
  <2>3. Idle(alloc, pos)'
    <3>1. Idle(q, n)'
      BY Zenon, <1>1, <1>9, SameBlock
    <3> QED  BY Zenon, <1>3, <1>4, <3>1
  <2> QED  BY Zenon, <1>1, <1>2, <2>1, <2>2, <2>3 DEF StageInv
<1> QED  BY Zenon, <1>1, <1>3, <1>4, <1>9, <1>10, <1>11, RestStep

(* An ASSERT changes none of what has been counted. *)
LEMMA ReferencesAsserted ==
  ASSUME WellFormed(block), pos \in 1..Len(block), LocationsInv(alloc, pos, {}), NEW P \in BOOLEAN,
         NEW q, q = Asserting(References, P)
  PROVE  q \in Allocator /\ Referenced(q) /\ (q.ok => P)
<1>1. References \in Allocator /\ Referenced(References)
  BY Zenon, ReferencesFacts
<1>2. q \in Allocator /\ q.info = References.info /\ q.content = References.content /\ (q.ok => P)
  BY Zenon, <1>1, AssertingFacts
<1> QED  BY <1>1, <1>2 DEF Referenced

(* GetArgumentInfo preserves the invariant. *)
LEMMA GetArgumentInfoInv ==
  ASSUME AllocInv, alloc.ok, GetArgumentInfo, alloc'.ok
  PROVE  AllocInv'
<1> DEFINE P == \A k \in Args : IsValueLive(alloc, Arg(pos, k))
<1>1. /\ stage = "next" /\ pos <= Len(block) /\ stage' = "emit" /\ todo' = 1..Len(block[pos].args)
      /\ alloc' = Asserting(References, P)
      /\ block' = block /\ pos' = pos /\ held' = held /\ defined' = defined
  BY Zenon DEF GetArgumentInfo
<1>2. /\ StageInv /\ LocationsInv(alloc, pos, {}) /\ (\A l \in HostLoc : ~alloc.info[l].scratch)
      /\ \A v \in defined : UsesFrom({v}, pos) # {} => IsValueLive(alloc, v)
  BY Zenon, <1>1, Resting
<1>3. WellFormed(block) /\ pos \in 1..Len(block) /\ Len(block) \in Nat /\ held = {} /\ pos \in Nat
  BY <1>1, <1>2, BlockFacts DEF StageInv
<1>4. PICK q : q = alloc'
  BY Zenon
<1>5. P \in BOOLEAN
  BY Zenon
<1>6. q \in Allocator /\ Referenced(q) /\ P
  <2> HIDE DEF P
  <2> QED  BY Zenon, <1>1, <1>2, <1>3, <1>4, <1>5, ReferencesAsserted
<1>7. /\ LocationsInv(q, pos + 1, {}) /\ LiveKept(alloc, q)
      /\ \A l \in HostLoc : LockInv(q, l, {}, 1..Len(block[pos].args))
  BY Zenon, <1>2, <1>3, <1>6, ReferencesSound
<1>8. PICK args : args = todo'
  BY Zenon
<1>9. HandlesInv(q, {}, args)
  <2>1. \A k \in args : k \in 1..Len(block[pos].args) /\ (Arg(pos, k) # Imm => IsValueLive(q, Arg(pos, k)))
    BY Zenon, <1>1, <1>6, <1>7, <1>8 DEF Args, LiveKept
  <2>2. \A l \in HostLoc : LockInv(q, l, {}, args)
    BY Zenon, <1>1, <1>7, <1>8
  <2> QED  BY Zenon, <2>1, <2>2 DEF HandlesInv
<1>10. Sound(q, {}, {}, args)
  BY Zenon, <1>3, <1>7, <1>9 DEF Sound
<1>11. {} = held' /\ {} = Pending' /\ stage' \in {"emit", "call", "called"}
  BY Zenon, <1>1, <1>3 DEF Pending
<1>12. \A v \in defined' : UsesFrom({v}, pos + 1) # {} => IsValueLive(q, v)
  <2>1. \A v : UsesFrom({v}, pos + 1) \subseteq UsesFrom({v}, pos)
    BY <1>3 DEF UsesFrom
  <2> QED  BY Zenon, <1>1, <1>2, <1>7, <2>1 DEF LiveKept
<1>13. StageInv'
  <2>1. NextUse' = pos + 1 /\ NextUse = pos
    BY Zenon, <1>1 DEF NextUse
  <2>2. \A v \in defined : v \in 1..Len(block) /\ (v < pos \/ block[v].kind \in {"pseudo", "nz"})
    BY Zenon, <1>2, <2>1 DEF StageInv
  <2>3. \A v \in defined : v < pos + 1 \/ block[v].kind \in {"pseudo", "nz"}
    BY <1>3, <2>2
  <2>4. block[pos].kind = "call" => pos \notin defined
    BY <1>3, <2>2
  <2> QED  BY Zenon, <1>1, <1>2, <1>3, <2>1, <2>3, <2>4 DEF StageInv
<1> QED  BY Zenon, <1>1, <1>4, <1>8, <1>10, <1>11, <1>12, <1>13, EmitKept

(* RegisterPseudoOperation preserves the invariant. *)
LEMMA RegisterPseudoOperationInv ==
  ASSUME AllocInv, alloc.ok, RegisterPseudoOperation, alloc'.ok
  PROVE  AllocInv'
<1> DEFINE P == IsValueLive(alloc, pos) \/ UseCount(pos) = 0
<1>1. /\ stage = "next" /\ pos <= Len(block) /\ alloc' = EndOfAllocScope(Asserting(References, P), {})
      /\ pos' = pos + 1 /\ block' = block /\ stage' = stage /\ todo' = todo /\ held' = held /\ defined' = defined
  BY Zenon DEF RegisterPseudoOperation
<1>2. /\ StageInv /\ LocationsInv(alloc, pos, {}) /\ (\A l \in HostLoc : ~alloc.info[l].scratch)
      /\ \A v \in defined : UsesFrom({v}, pos) # {} => IsValueLive(alloc, v)
  BY Zenon, <1>1, Resting
<1>3. WellFormed(block) /\ pos \in 1..Len(block) /\ Len(block) \in Nat /\ pos \in Nat
  <2>1. WellFormed(block) /\ pos \in Nat \ {0} /\ Len(block) \in Nat
    BY Zenon, <1>2, BlockFacts DEF StageInv
  <2>2. PICK c : c = Len(block)
    BY Zenon
  <2>3. c \in Nat /\ pos <= c
    BY Zenon, <1>1, <2>1, <2>2
  <2>4. pos \in 1..c /\ pos \in Nat
    BY <2>1, <2>3
  <2> QED  BY Zenon, <2>1, <2>2, <2>4
<1>4. P \in BOOLEAN
  BY Zenon DEF IsValueLive
<1>5. PICK r : r = Asserting(References, P)
  BY Zenon
<1>6. r \in Allocator /\ Referenced(r)
  <2> HIDE DEF P
  <2> QED  BY Zenon, <1>2, <1>3, <1>4, <1>5, ReferencesAsserted
<1>7. LocationsInv(r, pos + 1, {}) /\ LiveKept(alloc, r)
  BY Zenon, <1>2, <1>3, <1>6, ReferencesSound
<1>8. PICK q : q = alloc'
  BY Zenon
<1>9. PICK n : n = pos'
  BY Zenon
<1>10. n = pos + 1 /\ n \in Nat /\ LocationsInv(r, n, {})
  BY <1>1, <1>3, <1>7, <1>9
<1>11. q = EndOfAllocScope(r, {})
  BY Zenon, <1>1, <1>5, <1>8
<1>12. AtRest(q, n) /\ NeededKept(r, q, n)
  BY Zenon, <1>3, <1>10, <1>11, EndOfAllocScopeFacts
<1>13. LocationsInv(q, n, {}) /\ Idle(q, n)
  BY Zenon, <1>12 DEF AtRest
<1>14. \A v \in defined' : UsesFrom({v}, n) # {} => IsValueLive(q, v)
  <2>1. \A v : UsesFrom({v}, n) \subseteq UsesFrom({v}, pos)
    BY <1>3, <1>10 DEF UsesFrom
  <2> QED  BY Zenon, <1>1, <1>2, <1>7, <1>12, <2>1 DEF LiveKept, NeededKept
<1>15. StageInv'
  <2>1. NextUse' = pos + 1 /\ NextUse = pos /\ pos + 1 \in Nat \ {0}
    BY <1>1, <1>3 DEF NextUse
  <2>2. \A v \in defined : v \in 1..Len(block) /\ (v < pos \/ block[v].kind \in {"pseudo", "nz"})
    BY Zenon, <1>2, <2>1 DEF StageInv
  <2>3. \A v \in defined : v < pos + 1 \/ block[v].kind \in {"pseudo", "nz"}
    BY <1>3, <2>2
  <2>4. Idle(alloc, pos)'
    <3>1. Idle(q, n)'
      BY Zenon, <1>1, <1>13, SameBlock
    <3> QED  BY Zenon, <1>8, <1>9, <3>1
  <2> QED  BY Zenon, <1>1, <1>2, <2>1, <2>3, <2>4 DEF StageInv
<1>16. stage' \in {"next", "done"}
  BY <1>1
<1> QED  BY Zenon, <1>1, <1>8, <1>9, <1>13, <1>14, <1>15, <1>16, RestStep

(* AssertNoMoreUses preserves the invariant. *)
LEMMA AssertNoMoreUsesInv ==
  ASSUME AllocInv, alloc.ok, AssertNoMoreUses, alloc'.ok
  PROVE  AllocInv'
<1> DEFINE P == \A l \in HostLoc : IsEmpty(alloc, l)
<1>1. /\ stage = "next" /\ stage' = "done" /\ alloc' = Asserting(alloc, P)
      /\ block' = block /\ pos' = pos /\ todo' = todo /\ held' = held /\ defined' = defined
  BY Zenon DEF AssertNoMoreUses
<1>2. /\ StageInv /\ LocationsInv(alloc, pos, {}) /\ (\A l \in HostLoc : ~alloc.info[l].scratch)
      /\ \A v \in defined : UsesFrom({v}, pos) # {} => IsValueLive(alloc, v)
  BY Zenon, <1>1, Resting
<1>3. PICK q : q = alloc'
  BY Zenon
<1>4. q \in Allocator /\ q.info = alloc.info /\ q.content = alloc.content
  <2>1. P \in BOOLEAN /\ alloc \in Allocator
    BY Zenon, <1>2 DEF LocationsInv
  <2> HIDE DEF P
  <2> QED  BY Zenon, <1>1, <1>3, <2>1, AssertingFacts
<1>5. PICK n : n = pos'
  BY Zenon
<1>6. LocationsInv(q, n, {})
  <2>1. n = pos
    BY Zenon, <1>1, <1>5
  <2>2. \A l \in HostLoc : LocationInv(q, l, n, {})
    <3>1. SUFFICES ASSUME NEW l \in HostLoc  PROVE LocationInv(q, l, n, {})
      BY Zenon
    <3>2. LocationInv(alloc, l, n, {}) /\ q.info[l] = alloc.info[l]
      BY Zenon, <1>2, <1>4, <2>1 DEF LocationsInv
    <3>3. \A v \in alloc.info[l].values : HasBits(alloc, l, v) => HasBits(q, l, v)
      BY Zenon, <1>4 DEF HasBits
    <3> QED  BY Zenon, <3>2, <3>3, LocationInvCarried
  <2>3. \A l, m \in HostLoc : q.info[l].values \cap q.info[m].values # {} => l = m
    BY Zenon, <1>2, <1>4 DEF LocationsInv
  <2> QED  BY Zenon, <1>4, <2>2, <2>3 DEF LocationsInv
<1>7. \A v \in defined' : UsesFrom({v}, n) # {} => IsValueLive(q, v)
  BY Zenon, <1>1, <1>2, <1>4, <1>5 DEF IsValueLive, ValueLocations
<1>8. StageInv'
  <2>1. NextUse' = NextUse
    BY Zenon, <1>1 DEF NextUse
  <2>2. Idle(alloc, pos)'
    <3>1. Idle(q, n)
      BY Zenon, <1>1, <1>2, <1>4, <1>5 DEF StageInv, Idle
    <3>2. Idle(q, n)'
      BY <1>1, <3>1, SameBlock
    <3> QED  BY Zenon, <1>3, <1>5, <3>2
  <2> QED  BY Zenon, <1>1, <1>2, <2>1, <2>2 DEF StageInv
<1>9. stage' \in {"next", "done"}
  BY Zenon, <1>1
<1> QED  BY Zenon, <1>1, <1>3, <1>5, <1>6, <1>7, <1>8, <1>9, RestStep

(* It holds when nothing changes. *)
LEMMA StutterInv ==
  ASSUME AllocInv, alloc.ok, UNCHANGED allocVars
  PROVE  AllocInv'
<1>1. /\ block' = block /\ pos' = pos /\ stage' = stage /\ todo' = todo /\ held' = held
      /\ defined' = defined /\ alloc' = alloc
  BY Zenon DEF allocVars
<1>2. StageInv
  BY Zenon DEF AllocInv, AssertsHold
<1>3. StageInv'
  <2>1. Idle(alloc, pos)' <=> Idle(alloc, pos)
    <3>1. \A r, n : Idle(r, n)' <=> Idle(r, n)
      BY Zenon, <1>1, SameBlock
    <3> QED  BY Zenon, <1>1, <3>1
  <2> QED  BY Zenon, <1>1, <1>2, <2>1 DEF StageInv, NextUse, Taken, Width
<1>4. PICK q : q = alloc'
  BY Zenon
<1>5. CASE stage \in {"next", "done"}
  <2>1. /\ LocationsInv(alloc, pos, {})
        /\ \A v \in defined : UsesFrom({v}, pos) # {} => IsValueLive(alloc, v)
    BY <1>5, Resting
  <2>2. PICK n : n = pos'
    BY Zenon
  <2>3. LocationsInv(q, n, {}) /\ \A v \in defined' : UsesFrom({v}, n) # {} => IsValueLive(q, v)
    BY Zenon, <1>1, <1>4, <2>1, <2>2
  <2> QED  BY Zenon, <1>1, <1>3, <1>4, <1>5, <2>2, <2>3, RestStep
<1>6. CASE stage \in {"emit", "call", "called"}
  <2>1. /\ Sound(alloc, Pending, held, todo)
        /\ \A v \in defined : UsesFrom({v}, pos + 1) # {} => IsValueLive(alloc, v)
    BY <1>6, Emitting
  <2>2. PICK pending : pending = Pending'
    OBVIOUS
  <2>3. PICK handles : handles = held'
    OBVIOUS
  <2>4. PICK args : args = todo'
    BY Zenon
  <2>5. Sound(q, pending, handles, args) /\ stage' \in {"emit", "call", "called"}
    BY Zenon, <1>1, <1>4, <1>6, <2>1, <2>2, <2>3, <2>4 DEF Pending, Width
  <2>6. \A v \in defined' : UsesFrom({v}, pos + 1) # {} => IsValueLive(q, v)
    BY Zenon, <1>1, <1>4, <2>1
  <2> QED  BY Zenon, <1>1, <1>3, <1>4, <2>2, <2>3, <2>4, <2>5, <2>6, EmitKept
<1> QED  BY Zenon, <1>2, <1>5, <1>6 DEF StageInv

(* An empty allocator has nothing to keep. *)
LEMMA InitAllocInv ==
  ASSUME AllocInit
  PROVE  AllocInv
<1>1. /\ block \in Programs /\ pos = 1 /\ stage = "next" /\ todo = {} /\ held = {} /\ defined = {}
      /\ alloc = [info |-> [l \in HostLoc |-> NoInfo], content |-> [l \in HostLoc |-> {}], ok |-> TRUE]
  BY DEF AllocInit
<1>2. WellFormed(block)
  BY Zenon, <1>1, ProgramsAssumption
<1>3. NoInfo \in LocInfo /\ ~NoInfo.scratch /\ NoInfo.used = 0 /\ NoInfo.values = {}
  BY Zenon DEF NoInfo, LocInfo
<1>4. \A l \in HostLoc : alloc.info[l] = NoInfo
  BY Zenon, <1>1
<1>5. alloc \in Allocator
  BY <1>1, <1>3 DEF Allocator
<1>6. LocationsInv(alloc, pos, {})
  BY Zenon, <1>3, <1>4, <1>5, LocationInvNoInfo DEF LocationsInv
<1>7. Idle(alloc, pos)
  BY <1>3, <1>4, Zenon DEF Idle
<1>8. HandlesInv(alloc, held, todo)
  BY Zenon, <1>1, <1>5, NothingHeld
<1>9. StageInv
  BY <1>1, <1>2, <1>7 DEF StageInv
<1>10. NextUse = pos /\ Pending = {}
  BY <1>1 DEF NextUse, Pending
<1> QED  BY Zenon, <1>1, <1>6, <1>8, <1>9, <1>10 DEF AllocInv, LiveInv

(* Every step preserves the invariant. *)
LEMMA NextAllocInv ==
  ASSUME AllocInv, [AllocNext]_allocVars
  PROVE  AllocInv'
<1>1. SUFFICES ASSUME alloc'.ok  PROVE AllocInv'
  BY DEF AllocInv, AssertsHold
<1>2. CASE UNCHANGED allocVars
  <2>1. alloc.ok
    BY Zenon, <1>1, <1>2 DEF allocVars
  <2> QED  BY Zenon, <1>2, <2>1, StutterInv
<1>3. CASE AllocNext
  <2>1. alloc.ok
    BY Zenon, <1>3 DEF AllocNext
  <2>2. CASE GetArgumentInfo
    BY Zenon, <1>1, <2>1, <2>2, GetArgumentInfoInv
  <2>3. ASSUME NEW k \in todo, UseReg(k)  PROVE AllocInv'
    BY Zenon, <1>1, <2>1, <2>3, UseRegInv
  <2>4. ASSUME NEW k \in todo, UseScratch(k)  PROVE AllocInv'
    BY Zenon, <1>1, <2>1, <2>4, UseScratchInv
  <2>5. ASSUME NEW k \in todo, PassArgument(k)  PROVE AllocInv'
    BY Zenon, <1>1, <2>1, <2>5, PassArgumentInv
  <2>6. CASE Scratch
    BY Zenon, <1>1, <2>1, <2>6, ScratchInv
  <2>7. CASE DefineValue
    BY Zenon, <1>1, <2>1, <2>7, DefineValueInv
  <2>8. CASE DefineAsArgument
    BY Zenon, <1>1, <2>1, <2>8, DefineAsArgumentInv
  <2>9. CASE Release
    BY Zenon, <1>1, <2>1, <2>9, ReleaseInv
  <2>10. CASE HostCall
    BY Zenon, <1>1, <2>1, <2>10, HostCallInv
  <2>11. CASE SaveRegister
    BY Zenon, <1>1, <2>1, <2>11, SaveRegisterInv
  <2>12. CASE CallFunction
    BY Zenon, <1>1, <2>1, <2>12, CallFunctionInv
  <2>13. CASE FinishInst
    BY Zenon, <1>1, <2>1, <2>13, FinishInstInv
  <2>14. CASE RegisterPseudoOperation
    BY Zenon, <1>1, <2>1, <2>14, RegisterPseudoOperationInv
  <2>15. CASE AssertNoMoreUses
    BY Zenon, <1>1, <2>1, <2>15, AssertNoMoreUsesInv
  <2> QED  BY Zenon, <1>3, <2>2, <2>3, <2>4, <2>5, <2>6, <2>7, <2>8, <2>9, <2>10, <2>11, <2>12, <2>13, <2>14, <2>15
             DEF AllocNext
<1> QED  BY Zenon, <1>2, <1>3

(* AllocInv holds in every state of the allocator, whatever the registers, *)
(* the spill locations and the blocks: the counts of a location are the    *)
(* uses to come, and each register given to an emitter is locked.          *)
THEOREM AllocInvariant == AllocSpec => []AllocInv
<1>1. AllocInit => AllocInv
  BY Zenon, InitAllocInv
<1>2. AllocInv /\ [AllocNext]_allocVars => AllocInv'
  BY Zenon, NextAllocInv
<1> QED  BY <1>1, <1>2, PTL DEF AllocSpec

(* A location given up on its last use has no uses to come. *)
LEMMA GivenUpIsUnused ==
  ASSUME WellFormed(block), NEW r, NEW n \in Nat, NEW pending, LocationsInv(r, n, pending), NEW l \in HostLoc,
         r.info[l].last_use, NEW v \in r.info[l].values
  PROVE  UsesFrom({v}, n) = {}
<1> DEFINE i == r.info[l]
           c == Cardinality(UsesFrom(i.values, n))
<1>1. LocationInv(r, l, n, pending) /\ TypedInfo(i)
  BY Zenon, TypedInfoFacts DEF LocationsInv, Allocator
<1>2. i.total = i.acc + i.refs + c /\ i.refs = 1 /\ i.acc + 1 = i.total /\ i.acc \in Nat
  BY Zenon, <1>1 DEF LocationInv, TypedInfo
<1>3. c \in Nat
  BY Zenon, BlockFacts, UsesFinite
<1>4. c = 0
  <2> HIDE DEF c, i
  <2> QED  BY <1>2, <1>3
<1> QED  BY Zenon, <1>4, NoUsesOf

(* A value that is needed is somewhere, and is not given up there. *)
LEMMA NeededIsLive ==
  ASSUME AllocInv, alloc.ok, NEW v \in defined, IsNeeded(v)
  PROVE  IsValueLive(alloc, v) /\ \A l \in ValueLocations(alloc, v) : ~alloc.info[l].last_use
<1>1. StageInv /\ LocationsInv(alloc, NextUse, Pending) /\ HandlesInv(alloc, held, todo) /\ LiveInv(alloc, defined, NextUse)
  BY Zenon DEF AllocInv, AssertsHold
<1>2. WellFormed(block) /\ pos \in Nat /\ Len(block) \in Nat /\ NextUse \in {pos, pos + 1} /\ NextUse \in Nat /\ v # Imm
  <2>1. WellFormed(block) /\ pos \in Nat \ {0} /\ Len(block) \in Nat /\ v \in 1..Len(block)
    BY Zenon, <1>1, BlockFacts DEF StageInv
  <2>2. NextUse \in {pos, pos + 1}
    BY Zenon DEF NextUse
  <2>3. pos \in Nat /\ NextUse \in Nat
    BY <2>1, <2>2
  <2>4. v # Imm
    BY <2>1 DEF Imm
  <2> QED  BY Zenon, <2>1, <2>2, <2>3, <2>4
<1>3. PICK u \in UsesOf(v) : (u[1] = pos /\ u[2] \in todo) \/ u[1] > pos
  BY Zenon DEF IsNeeded
<1>4. /\ u \in (1..Len(block)) \X (1..4) /\ u = <<u[1], u[2]>> /\ u[2] <= Len(block[u[1]].args)
      /\ Arg(u[1], u[2]) = v
  BY <1>3 DEF UsesOf
<1>5. CASE u[1] > pos
  <2>1. u \in UsesFrom({v}, NextUse)
    <3>1. u[1] \in NextUse..Len(block) /\ u[2] \in 1..4
      BY <1>2, <1>4, <1>5
    <3> QED  BY Zenon, <1>4, <3>1 DEF UsesFrom
  <2>2. IsValueLive(alloc, v)
    BY Zenon, <1>1, <2>1 DEF LiveInv
  <2>3. \A l \in ValueLocations(alloc, v) : ~alloc.info[l].last_use
    <3>1. SUFFICES ASSUME NEW l \in ValueLocations(alloc, v), alloc.info[l].last_use  PROVE FALSE
      BY Zenon
    <3>2. l \in HostLoc /\ v \in alloc.info[l].values
      BY Zenon DEF ValueLocations
    <3> QED  BY Zenon, <1>1, <1>2, <2>1, <3>1, <3>2, GivenUpIsUnused
  <2> QED  BY Zenon, <2>2, <2>3
<1>6. CASE u[1] = pos /\ u[2] \in todo
  <2>1. IsValueLive(alloc, v)
    BY Zenon, <1>1, <1>2, <1>4, <1>6 DEF HandlesInv
  <2>2. \A l \in ValueLocations(alloc, v) : ~alloc.info[l].last_use
    <3>1. SUFFICES ASSUME NEW l \in ValueLocations(alloc, v)  PROVE ~alloc.info[l].last_use
      BY Zenon
    <3>2. l \in HostLoc /\ v \in alloc.info[l].values
      BY Zenon DEF ValueLocations
    <3>3. u[2] \in Waiting(alloc, l, todo)
      BY Zenon, <1>4, <1>6, <3>2 DEF Waiting
    <3> QED  BY Zenon, <1>1, <3>2, <3>3 DEF HandlesInv, LockInv
  <2> QED  BY Zenon, <2>1, <2>2
<1> QED  BY Zenon, <1>3, <1>5, <1>6

(* The invariant says that no value is lost. *)
LEMMA AllocInvValues ==
  ASSUME AllocInv, AssertsHold
  PROVE  ValuesHeld
<1>1. SUFFICES ASSUME NEW v \in defined, IsNeeded(v)
               PROVE  /\ Cardinality(ValueLocations(alloc, v)) = 1
                      /\ \A l \in ValueLocations(alloc, v) :
                           HasBits(alloc, l, v) /\ (v \notin Results => ~alloc.info[l].scratch)
  BY Zenon DEF ValuesHeld
<1>2. alloc.ok /\ StageInv /\ LocationsInv(alloc, NextUse, Pending)
  BY Zenon DEF AllocInv, AssertsHold
<1>3. IsValueLive(alloc, v) /\ \A l \in ValueLocations(alloc, v) : ~alloc.info[l].last_use
  BY Zenon, <1>1, <1>2, NeededIsLive
<1>4. Cardinality(ValueLocations(alloc, v)) = 1
  <2>1. PICK l : l \in ValueLocations(alloc, v)
    BY Zenon, <1>3 DEF IsValueLive
  <2>2. \A m \in ValueLocations(alloc, v) : m = l
    BY Zenon, <1>2, <2>1 DEF LocationsInv, ValueLocations
  <2>3. ValueLocations(alloc, v) = {l}
    BY Zenon, <2>1, <2>2
  <2> QED  BY Zenon, <2>3, FS_Singleton
<1>5. v \notin Pending
  BY Zenon, <1>1, <1>2 DEF Pending, StageInv
<1>6. ASSUME NEW l \in ValueLocations(alloc, v)
      PROVE  HasBits(alloc, l, v) /\ (v \notin Results => ~alloc.info[l].scratch)
  <2>1. l \in HostLoc /\ v \in alloc.info[l].values /\ ~alloc.info[l].last_use
    BY Zenon, <1>3 DEF ValueLocations
  <2>2. LocationInv(alloc, l, NextUse, Pending)
    BY Zenon, <1>2, <2>1 DEF LocationsInv
  <2> QED  BY Zenon, <1>5, <2>1, <2>2 DEF LocationInv
<1> QED  BY Zenon, <1>4, <1>6

(* No value is lost as long as no ASSERT fails, in any block, with any     *)
(* number of registers and spill locations: a value that is still to be    *)
(* read is in exactly one place with all its bits, and no emitter may      *)
(* write there.                                                            *)
THEOREM AllocValuesHeld == AllocSpec => [](AssertsHold => ValuesHeld)
<1>1. AllocInv => (AssertsHold => ValuesHeld)
  BY Zenon, AllocInvValues
<1> QED  BY <1>1, AllocInvariant, PTL

(* A register stays what its emitter was given, as long as no ASSERT       *)
(* fails: whatever is allocated after it, it contains its argument or the  *)
(* result, and one that may be written is given only once.                 *)
THEOREM AllocHandlesHold == AllocSpec => [](AssertsHold => HandlesHold)
<1>1. AllocInv => (AssertsHold => HandlesHold)
  BY Zenon DEF AllocInv, HandlesInv, HandleInv, HandlesHold
<1> QED  BY <1>1, AllocInvariant, PTL

(* The count of uses is exact: AssertNoMoreUses, which ends a block, never *)
(* finds a location with a value or a lock left.                           *)
THEOREM AllocNoMoreUses == AllocSpec => [][AssertNoMoreUses => AssertsHold']_allocVars
<1>1. ASSUME AllocInv, [AllocNext]_allocVars  PROVE [AssertNoMoreUses => AssertsHold']_allocVars
  <2>1. SUFFICES ASSUME AllocNext, AssertNoMoreUses  PROVE alloc'.ok
    BY Zenon, <1>1 DEF AssertsHold
  <2>2. alloc.ok /\ stage = "next" /\ pos > Len(block)
        /\ alloc' = Asserting(alloc, \A l \in HostLoc : IsEmpty(alloc, l))
    BY Zenon, <2>1 DEF AllocNext, AssertNoMoreUses
  <2>3. StageInv /\ LocationsInv(alloc, pos, {})
    BY Zenon, <1>1, <2>2, Resting
  <2>4. Idle(alloc, pos) /\ pos \in Nat /\ Len(block) \in Nat /\ alloc \in Allocator
    BY Zenon, <2>2, <2>3, BlockFacts DEF StageInv, LocationsInv
  <2>5. \A S : UsesFrom(S, pos) = {}
    BY <2>2, <2>4 DEF UsesFrom
  <2>6. \A l \in HostLoc : IsEmpty(alloc, l)
    BY <2>4, <2>5, Zenon DEF Idle, IsEmpty
  <2> DEFINE P == \A l \in HostLoc : IsEmpty(alloc, l)
  <2>7. P \in BOOLEAN /\ P
    BY Zenon, <2>6
  <2> HIDE DEF P
  <2> QED  BY Zenon, <2>2, <2>4, <2>7, AssertingFacts DEF P
<1> QED  BY <1>1, AllocInvariant, PTL DEF AllocSpec

=============================================================================
