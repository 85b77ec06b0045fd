-------------------------- MODULE JitSteps_proofs ---------------------------
(***************************************************************************)
(* The steps of the x64 run loop: what they do to the cache, which they    *)
(* use only as CodeCache allows, their types, the requests of other        *)
(* threads, and that each conjunct of JitInv about requests, lookups,      *)
(* blocks and stops is kept.                                               *)
(***************************************************************************)
EXTENDS Jit, CodeCache_proofs

(* Versions are numbers. *)
LEMMA Versions ==
  ASSUME JitTypeOK
  PROVE  /\ Version \subseteq Nat /\ 0 \in Version /\ mem \in Nat /\ lo \in Nat
         /\ lo..mem \subseteq Version /\ 1..mem \subseteq Version /\ src \in [Slot -> Nat]
         /\ floor \subseteq Nat /\ published \subseteq Nat /\ asked \subseteq Nat
<1>1. MaxVersion \in Nat
  BY TranslateAssumption
<1>2. Version \subseteq Nat /\ 0 \in Version
  BY <1>1 DEF Version
<1>3. /\ mem \in Version /\ lo \in Version /\ src \in [Slot -> Version]
      /\ floor \subseteq Version /\ published \subseteq Version /\ asked \subseteq Version
  BY DEF JitTypeOK
<1>4. lo..mem \subseteq Version /\ 1..mem \subseteq Version
  BY <1>1, <1>3 DEF Version
<1> QED
  BY Zenon, <1>2, <1>3, <1>4

(* What GetBlock is asked for is a descriptor. *)
LEMMA Locations ==
  ASSUME JitTypeOK
  PROVE  pc \in Desc /\ pc # NoDesc /\ Want \in Desc /\ SingleStep[pc] \in Desc \ Loc
BY Zenon, LocAssumption, DescAssumption DEF JitTypeOK, Want

(* The slots in use are slots. *)
LEMMA Slots ==
  ASSUME CacheInv
  PROVE  next \in Nat /\ 1..next - 1 \subseteq Slot /\ (~Full => next \in Slot) /\ 0 \notin Slot
BY SizeAssumption DEF CacheInv, CacheTypeOK, Slot, Full

(* A translation is an IR. *)
LEMMA Translations ==
  ASSUME NEW d \in Desc, NEW v \in Version
  PROVE  /\ Translate[d][v] \in IR
         /\ BlockOf(d, Translate[d][v]) \in Blocks
         /\ BlockOf(d, Translate[d][v]).desc = d
<1>1. Translate[d][v] \in IR
  BY TranslateAssumption
<1>2. BlockOf(d, Translate[d][v]) \in Blocks
  BY BlocksAreTranslations
<1> QED
  BY Zenon, <1>1, <1>2 DEF BlockOf

(* The block being executed, and what it was translated from. *)
LEMMA CurrentBlock ==
  ASSUME JitInv, ctl \in Executing
  PROVE  /\ cur \in 1..next - 1 /\ cur \in Slot /\ code[cur] \in Block
         /\ CurDesc \in Desc /\ CurIR \in IR
         /\ src[cur] \in Version /\ src[cur] <= mem
         /\ code[cur] = BlockOf(CurDesc, CurIR)
<1>1. cur \in 1..next - 1 /\ cur \in Slot
  BY Slots DEF JitInv, ExecutesBlock
<1>2. code[cur] \in Block
  BY Zenon, <1>1 DEF JitInv, CacheInv, EntriesValid
<1>3. CurDesc \in Desc /\ src[cur] \in Version
  BY Zenon, <1>1, <1>2 DEF CurDesc, Block, JitInv, JitTypeOK
<1>4. CurIR \in IR
  BY Zenon, <1>3, Translations DEF CurIR
<1>5. code[cur] = BlockOf(CurDesc, CurIR) /\ src[cur] <= mem
  BY Zenon, <1>1 DEF JitInv, CodeTranslated, CurDesc, CurIR
<1> QED
  BY <1>1, <1>2, <1>3, <1>4, <1>5

(* Outside GetBlock no fast dispatch miss is in flight. *)
LEMMA NotMissing == ASSUME JitInv, ~LookingUp PROVE missing = NoDesc /\ cont = "jump"
BY Zenon DEF JitInv, LookupConsistent

(* A prediction that hits leads to a block of the PC, or to the dispatcher *)
LEMMA Predicted ==
  ASSUME JitInv, RSBHit(pc)
  PROVE  /\ rsb[RSBTop].ptr \in Slot \cup {ReturnFromRunCode}
         /\ rsb[RSBTop].ptr = ReturnFromRunCode \/ Holds(rsb[RSBTop].ptr, pc)
<1>1. RSBTop \in RSBIndex
  BY SizeAssumption DEF JitInv, CacheInv, CacheTypeOK, RSBIndex, RSBTop
<1>2. rsb[RSBTop].ptr = ReturnFromRunCode \/ Holds(rsb[RSBTop].ptr, pc)
  BY Zenon, <1>1, Locations DEF JitInv, CacheInv, RSBValid, RSBHit
<1> QED
  BY Zenon, <1>2, Slots DEF Holds, JitInv

(* A hit in the fast dispatch table leads to the compiled block of the PC. *)
LEMMA Dispatched ==
  ASSUME JitInv, ~LookingUp, FastHit(pc)
  PROVE  /\ fast_dispatch_table[Hash[pc]].ptr = block_descriptors[pc]
         /\ Compiled(pc) /\ Holds(block_descriptors[pc], pc) /\ block_descriptors[pc] \in Slot
<1>1. pc \in Desc /\ pc # NoDesc /\ Hash[pc] \in Bucket
  BY Zenon, Locations, HashAssumption DEF JitInv
<1>2. missing = NoDesc
  BY Zenon, NotMissing
<1>3. fast_dispatch_table[Hash[pc]].loc = pc
  BY Zenon DEF FastHit
<1>4. Compiled(pc) /\ fast_dispatch_table[Hash[pc]].ptr = block_descriptors[pc]
  BY Zenon, <1>1, <1>2, <1>3 DEF JitInv, CacheInv, TableValid
<1> QED
  BY Zenon, <1>1, <1>4, Slots DEF JitInv, CacheInv, EntriesValid, Holds

(* What is compiled has an intact block. *)
LEMMA Found ==
  ASSUME JitInv, NEW d \in Desc, Compiled(d)
  PROVE  Holds(block_descriptors[d], d) /\ block_descriptors[d] \in Slot
BY Zenon, Slots DEF JitInv, CacheInv, EntriesValid, Holds

(* The site of a link leads to the block it names, or to the dispatcher. *)
LEMMA LinkedSite ==
  ASSUME JitInv, ctl \in Executing, NEW d \in Desc
  PROVE  /\ jump[cur][d] \in Slot \cup {ReturnFromRunCode}
         /\ jump[cur][d] = ReturnFromRunCode \/ (Holds(jump[cur][d], d) /\ jump[cur][d] = block_descriptors[d])
         /\ movrcx[cur][d] \in {ReturnFromRunCode, block_descriptors[d]}
<1>1. cur \in 1..next - 1
  BY Zenon, CurrentBlock
<1>2. jump[cur][d] \in {ReturnFromRunCode, block_descriptors[d]} /\ movrcx[cur][d] \in {ReturnFromRunCode, block_descriptors[d]}
  BY Zenon, <1>1 DEF JitInv, CacheInv, LinksExact
<1>3. CASE Compiled(d)
  BY <1>2, <1>3, Found
<1>4. CASE ~Compiled(d)
  BY <1>2, <1>4 DEF Compiled, ReturnFromRunCode
<1> QED
  BY Zenon, <1>3, <1>4

----------------------------------------------------------------------------
(* The steps that leave the emitted code and the requests alone. *)
HostStep == Run \/ Step \/ SetPC \/ Reset
LookupStep == PickRSB \/ PickBlock \/ GetBlockFound \/ GetBlockSpace \/ TranslateBegin \/ Enter
BlockStep == ConditionFailed \/ Execute \/ CallSupervisor \/ MemoryAbort
TermStep == TermCheckHalt \/ TermLink \/ TermLinkStop \/ TermPopRSB \/ TermDispatch
            \/ FastDispatchHandler \/ TermInterpret
ExitStep == Interpret \/ Dispatch \/ DispatchExited \/ ForceReturn \/ ReturnToCaller

(* PerformRequestedCacheInvalidation without and with the reason for it.   *)
PerformNothing ==
  /\ Perform /\ "CacheInvalidation" \notin hr
  /\ UNCHANGED <<cacheVars, halt_reason, fastmem, src, invalid_cache_ranges, invalidate_entire_cache>>
PerformAll == Perform /\ PerformInvalidation

ControlStep == HostStep \/ LookupStep \/ BlockStep \/ TermStep \/ ExitStep \/ PerformNothing

(* The cases of every proof about a step. *)
LEMMA NextCases ==
  JitNext => \/ ControlStep \/ OtherThreads \/ PerformAll \/ GetBlockEvict
             \/ EmitTranslation \/ FastmemFault
<1>1. Perform => PerformNothing \/ PerformAll
  BY Zenon DEF Perform, PerformNothing, PerformAll
<1> QED
  BY <1>1 DEF JitNext, JitThread, Host, ControlStep, HostStep, LookupStep, BlockStep, TermStep, ExitStep

(* ... do leave them. *)
LEMMA ControlFrame ==
  ASSUME ControlStep
  PROVE  UNCHANGED <<emitVars, requestVars, do_not_fastmem, fastmem, src, mem, counting>>
<1> USE DEF cacheVars, emitVars, requestVars, translateVars
<1>1. CASE HostStep
  BY <1>1 DEF HostStep, Run, Step, Begin, SetPC, Reset
<1>2. CASE LookupStep
  BY Zenon, <1>2 DEF LookupStep, PickRSB, PickBlock, GetBlockFound, GetBlockSpace, TranslateBegin, Enter
<1>3. CASE BlockStep
  BY <1>3 DEF BlockStep, ConditionFailed, Execute, CallSupervisor, MemoryAbort
<1>4. CASE TermStep
  BY Zenon, <1>4 DEF TermStep, TermCheckHalt, TermLink, TermLinkStop, TermPopRSB, TermDispatch,
              FastDispatchHandler, TermInterpret
<1>5. CASE ExitStep
  BY Zenon, <1>5 DEF ExitStep, Interpret, Dispatch, DispatchExited, ForceReturn, ReturnToCaller
<1>6. CASE PerformNothing
  BY Zenon, <1>6 DEF PerformNothing, Perform
<1> QED
  BY Zenon, <1>1, <1>2, <1>3, <1>4, <1>5, <1>6 DEF ControlStep

(* Other threads leave the cache and the run alone. *)
LEMMA OthersFrame ==
  ASSUME OtherThreads PROVE UNCHANGED <<cacheVars, runVars, hostVars, translateVars>>
BY Zenon DEF OtherThreads, WriteCode, HaltExecution, InvalidateCacheRange, ClearCache, RequestHalt

----------------------------------------------------------------------------
(* The run loop uses the cache only as CodeCache allows.                   *)
LEMMA ControlCache == ASSUME JitInv, ControlStep PROVE [CacheNext]_cacheVars
<1> USE DEF CacheNext
<1>a. CASE UNCHANGED cacheVars
  BY Zenon, <1>a
<1>1. CASE HostStep
  <2>1. CASE Reset
    <3>1. missing = NoDesc
      BY Zenon, <2>1, NotMissing DEF Reset, LookingUp
    <3> QED
      BY Zenon, <2>1, <3>1 DEF Reset, ResetState, Running
  <2>2. CASE ~Reset
    BY Zenon, <1>1, <2>2 DEF HostStep, Run, Step, Begin, SetPC
  <2> QED
    BY Zenon, <2>1, <2>2
<1>2. CASE LookupStep
  <2>1. CASE PickRSB
    <3>1. missing = NoDesc
      BY Zenon, <2>1, NotMissing DEF PickRSB, LookingUp
    <3> QED
      BY Zenon, <2>1, <3>1 DEF PickRSB, Return, Running
  <2>2. CASE GetBlockFound
    <3>1. CASE cont = "fast"
      <4>1. missing = pc /\ Want = pc /\ missing # NoDesc
        BY <3>1, Locations DEF JitInv, LookupConsistent, Want
      <4>2. FastStore(block_descriptors[missing]) /\ Compiled(missing)
        BY Zenon, <2>2, <3>1, <4>1 DEF GetBlockFound
      <4> QED
        BY Zenon, <2>2, <4>1, <4>2 DEF GetBlockFound, IndirectBranchFound
    <3>2. CASE cont # "fast"
      BY Zenon, <2>2, <3>2 DEF GetBlockFound, cacheVars, emitVars
    <3> QED
      BY Zenon, <3>1, <3>2
  <2>3. CASE PickBlock \/ GetBlockSpace \/ TranslateBegin \/ Enter
    BY <2>3 DEF PickBlock, GetBlockSpace, TranslateBegin, Enter
  <2> QED
    BY Zenon, <1>2, <2>1, <2>2, <2>3 DEF LookupStep
<1>3. CASE BlockStep
  <2>1. CASE Execute
    <3>1. cur \in 1..next - 1
      BY Zenon, <2>1, CurrentBlock DEF Execute, Executing
    <3>2. missing = NoDesc
      BY Zenon, <2>1, NotMissing DEF Execute, LookingUp
    <3>3. CASE UNCHANGED <<rsb, rsb_ptr>>
      BY Zenon, <2>1, <3>3 DEF Execute, cacheVars, emitVars
    <3>4. CASE \E d \in code[cur].pushes : PushRSB(cur, d)
      BY Zenon, <2>1, <3>1, <3>2, <3>4 DEF Execute, Call, Running
    <3> QED
      BY Zenon, <2>1, <3>3, <3>4 DEF Execute
  <2>2. CASE ConditionFailed \/ CallSupervisor \/ MemoryAbort
    BY Zenon, <2>2 DEF ConditionFailed, CallSupervisor, MemoryAbort
  <2> QED
    BY Zenon, <1>3, <2>1, <2>2 DEF BlockStep
<1>4. CASE TermStep
  <2>1. CASE TermLinkStop
    <3>1. cur \in 1..next - 1
      BY Zenon, <2>1, CurrentBlock DEF TermLinkStop, Executing
    <3>2. missing = NoDesc
      BY Zenon, <2>1, NotMissing DEF TermLinkStop, LookingUp
    <3>3. CASE IsA32
      <4>1. term.kind = "LinkBlock"
        BY Zenon, <2>1 DEF TermLinkStop, MayLink, Links
      <4>2. term.next \in code[cur].pushes
        BY Zenon, <2>1, <3>3, <4>1 DEF TermLinkStop, JitInv, ExecutesBlock
      <4>3. PushRSB(cur, term.next)
        BY Zenon, <2>1, <3>3 DEF TermLinkStop
      <4> QED
        BY Zenon, <2>1, <3>1, <3>2, <4>2, <4>3 DEF TermLinkStop, Call, Running
    <3>4. CASE ~IsA32
      BY Zenon, <2>1, <3>4 DEF TermLinkStop, cacheVars, emitVars
    <3> QED
      BY Zenon, <3>3, <3>4
  <2>2. CASE TermPopRSB
    <3>1. missing = NoDesc
      BY Zenon, <2>2, NotMissing DEF TermPopRSB, LookingUp
    <3> QED
      BY Zenon, <2>2, <3>1 DEF TermPopRSB, Return, Running
  <2>3. CASE FastDispatchHandler
    <3>1. missing = NoDesc
      BY Zenon, <2>3, NotMissing DEF FastDispatchHandler, LookingUp
    <3>2. CASE FastMiss(pc)
      BY Zenon, <2>3, <3>1, <3>2, Locations DEF FastDispatchHandler, IndirectBranch, Running, JitInv
    <3>3. CASE UNCHANGED <<fast_dispatch_table, missing>>
      BY <2>3, <3>3 DEF FastDispatchHandler, cacheVars, emitVars
    <3> QED
      BY Zenon, <2>3, <3>2, <3>3 DEF FastDispatchHandler
  <2>4. CASE TermCheckHalt \/ TermLink \/ TermDispatch \/ TermInterpret
    BY Zenon, <2>4 DEF TermCheckHalt, TermLink, TermDispatch, TermInterpret
  <2> QED
    BY Zenon, <1>4, <2>1, <2>2, <2>3, <2>4 DEF TermStep
<1>5. CASE ExitStep
  BY <1>5 DEF ExitStep, Interpret, Dispatch, DispatchExited, ForceReturn, ReturnToCaller
<1>6. CASE PerformNothing
  BY <1>6 DEF PerformNothing
<1> QED
  BY Zenon, <1>1, <1>2, <1>3, <1>4, <1>5, <1>6 DEF ControlStep

(* What is translated is emitted where GetBlock wants it, and fits. *)
LEMMA Emitted ==
  ASSUME JitInv, EmitTranslation
  PROVE  \E v \in lo..mem :
           /\ v \in Version /\ Translate[Want][v] \in IR
           /\ BlockOf(Want, Translate[Want][v]) \in Blocks
           /\ BlockOf(Want, Translate[Want][v]).desc = Want
           /\ EmitBlock(BlockOf(Want, Translate[Want][v]))
           /\ src' = [src EXCEPT ![next] = v]
           /\ fastmem' \subseteq fastmem \cup {next}
<1>1. PICK v \in lo..mem :
        /\ EmitBlock(BlockOf(Want, Translate[Want][v])) /\ src' = [src EXCEPT ![next] = v]
        /\ fastmem' \subseteq fastmem \cup {next}
  BY Zenon DEF EmitTranslation
<1>2. v \in Version /\ Want \in Desc
  BY Zenon, Versions, Locations DEF JitInv
<1> QED
  BY Zenon, <1>1, <1>2, Translations

(* Every step of the run loop is a step of the cache or leaves it alone.   *)
LEMMA CacheSteps == ASSUME JitInv, JitNext PROVE [CacheNext]_cacheVars
<1>1. CASE ControlStep
  BY Zenon, <1>1, ControlCache
<1>2. CASE OtherThreads
  BY Zenon, <1>2, OthersFrame
<1>3. CASE GetBlockEvict
  BY <1>3 DEF GetBlockEvict
<1>4. CASE PerformAll
  <2>1. invalid_cache_ranges \in SUBSET Addr
    BY Zenon DEF JitInv, JitTypeOK
  <2>2. CASE back = "translate"
    <3>1. Full /\ invalidate_entire_cache
      BY Zenon, <2>2 DEF JitInv, LookupConsistent
    <3> QED
      BY Zenon, <1>4, <3>1 DEF PerformAll, PerformInvalidation, NothingRequested, Evict, CacheNext
  <2>3. CASE back # "translate"
    <3>1. missing = NoDesc
      BY Zenon, <1>4, <2>3, NotMissing DEF PerformAll, Perform, LookingUp
    <3> QED
      BY Zenon, <1>4, <2>1, <3>1 DEF PerformAll, PerformInvalidation, Invalidate, Running, CacheNext
  <2> QED
    BY Zenon, <2>2, <2>3
<1>5. CASE EmitTranslation
  <2>1. PICK b \in Blocks : EmitBlock(b) /\ b.desc = Want
    BY Zenon, <1>5, Emitted
  <2>2. Running \/ Want = missing
    BY DEF JitInv, LookupConsistent, Running, Want
  <2> QED
    BY Zenon, <2>1, <2>2 DEF Lookup, CacheNext
<1>6. CASE FastmemFault
  <2>1. cur \in 1..next - 1 /\ missing = NoDesc
    BY Zenon, <1>6, CurrentBlock, NotMissing DEF FastmemFault, Executing, LookingUp
  <2> QED
    BY Zenon, <1>6, <2>1 DEF FastmemFault, CurDesc, Fastmem, Running, CacheNext
<1> QED
  BY <1>1, <1>2, <1>3, <1>4, <1>5, <1>6, NextCases

(* So the invariant of the cache is kept. *)
LEMMA CacheKept == ASSUME JitInv, JitNext PROVE CacheInv' /\ CacheTypeOK'
BY Zenon, CacheSteps, NextInv DEF JitInv, CacheInv

----------------------------------------------------------------------------
(* The types.                                                              *)

(* A jump. *)
LEMMA GotoType ==
  ASSUME NEW p \in Slot \cup {ReturnFromRunCode}, Goto(p)
  PROVE  ctl' \in Control /\ cur' \in Slot \cup {0} /\ term' \in Terminal \cup {NoTerm}
BY Zenon DEF Goto, Control, ReturnFromRunCode

(* The cycles, counted or not. *)
LEMMA TicksType ==
  /\ \A n \in 0..MaxTicks : AddCycles(n) \in 0..MaxTicks
  /\ Ticks \subseteq 0..MaxTicks /\ {0, 1} \subseteq 0..MaxTicks
BY HostAssumption DEF AddCycles, Ticks

(* The variables of a run that control steps change. *)
RunTypeOK ==
  /\ pc \in Loc /\ ctl \in Control
  /\ back \in {"pick", "translate", "host"} /\ cont \in {"enter", "jump", "fast"}
  /\ stepping \in BOOLEAN /\ ptr \in CodePtr /\ cur \in Slot \cup {0}
  /\ term \in Terminal \cup {NoTerm}
  /\ hr \subseteq HaltReason /\ halt_reason \subseteq HaltReason
  /\ mxcsr \in [reg: Mode, guest: Mode, saved: Mode]
  /\ cycles \in 0..MaxTicks
  /\ lo \in Version /\ floor \subseteq Version /\ executed \in 0..2

(* ... and the rest. *)
LEMMA RestType ==
  ASSUME JitInv, ControlStep, RunTypeOK', CacheTypeOK' PROVE JitTypeOK'
BY Zenon, ControlFrame DEF JitInv, JitTypeOK, RunTypeOK, requestVars

(* The host between runs, and the steps up to the first block. *)
LEMMA StartType == ASSUME JitInv, HostStep \/ LookupStep \/ PerformNothing PROVE RunTypeOK'
<1> USE HostAssumption DEF hostVars, requestVars, translateVars, Control
<1>t. JitTypeOK
  BY DEF JitInv
<1>1. CASE Run \/ Step
  <2>1. ASSUME NEW step \in BOOLEAN, Begin(step) PROVE RunTypeOK'
    BY <2>1, <1>t DEF Begin, JitTypeOK, RunTypeOK
  <2> QED
    BY Zenon, <1>1, <2>1 DEF Run, Step
<1>2. CASE SetPC
  BY <1>2, <1>t DEF SetPC, JitTypeOK, RunTypeOK
<1>3. CASE Reset
  BY Zenon, <1>3, <1>t DEF Reset, JitTypeOK, RunTypeOK, Mode
<1>4. CASE PickRSB
  <2>1. ptr' \in CodePtr
    BY Zenon, <1>4, Predicted DEF PickRSB, CodePtr
  <2> QED
    BY Zenon, <1>4, <1>t, <2>1 DEF PickRSB, JitTypeOK, RunTypeOK
<1>5. CASE PickBlock
  BY Zenon, <1>5, <1>t DEF PickBlock, JitTypeOK, RunTypeOK
<1>6. CASE GetBlockFound
  <2>1. block_descriptors[Want] \in Slot
    BY Zenon, <1>6, <1>t, Found, Locations DEF GetBlockFound
  <2>2. ptr' \in CodePtr
    BY Zenon, <1>6, <1>t, <2>1 DEF GetBlockFound, JitTypeOK, CodePtr
  <2>3. ctl' \in Control /\ cur' \in Slot \cup {0} /\ term' \in Terminal \cup {NoTerm}
    BY Zenon, <1>6, <1>t, <2>1, GotoType DEF GetBlockFound, JitTypeOK
  <2> QED
    BY <1>6, <1>t, <2>2, <2>3 DEF GetBlockFound, JitTypeOK, RunTypeOK
<1>7. CASE GetBlockSpace
  BY Zenon, <1>7, <1>t DEF GetBlockSpace, JitTypeOK, RunTypeOK
<1>8. CASE TranslateBegin
  BY Zenon, <1>8, <1>t DEF TranslateBegin, JitTypeOK, RunTypeOK
<1>9. CASE Enter
  <2>1. ptr \in Slot \cup {ReturnFromRunCode}
    BY Zenon, <1>9, Slots DEF Enter, JitInv, EntersGuest, Holds
  <2>2. ctl' \in Control /\ cur' \in Slot \cup {0} /\ term' \in Terminal \cup {NoTerm}
    BY <1>9, <1>t, <2>1, GotoType DEF Enter, JitTypeOK
  <2>3. halt_reason' \subseteq HaltReason /\ ptr' \in CodePtr /\ cycles' \in 0..MaxTicks
    BY Zenon, <1>9, <1>t, TicksType DEF Enter, JitTypeOK, HaltReason, CodePtr, ReturnFromRunCode
  <2>4. mxcsr' \in [reg: Mode, guest: Mode, saved: Mode]
    BY Zenon, <1>9, <1>t DEF Enter, JitTypeOK, SwitchMxcsrOnEntry
  <2> QED
    BY Zenon, <1>9, <1>t, <2>2, <2>3, <2>4 DEF Enter, JitTypeOK, RunTypeOK
<1>10. CASE PerformNothing
  BY <1>10, <1>t DEF PerformNothing, Perform, JitTypeOK, RunTypeOK
<1> QED
  BY Zenon, <1>1, <1>2, <1>3, <1>4, <1>5, <1>6, <1>7, <1>8, <1>9, <1>10 DEF HostStep, LookupStep

(* A block and its terminal. *)
LEMMA BlockType == ASSUME JitInv, BlockStep PROVE RunTypeOK'
<1> USE HostAssumption DEF hostVars, requestVars, translateVars, Control
<1>t. JitTypeOK
  BY Zenon DEF JitInv
<1>e. Executed => executed' \in 0..2
  BY <1>t DEF Executed, JitTypeOK
<1>1. CASE ConditionFailed
  <2>1. CurIR.condfail \subseteq Loc
    BY Zenon, <1>1, CurrentBlock DEF ConditionFailed, Executing, IR
  <2>2. term' \in Terminal
    <3>1. PICK l \in CurIR.condfail : term' = [kind |-> "LinkBlock", next |-> l, check |-> FALSE]
      BY Zenon, <1>1 DEF ConditionFailed
    <3>2. l \in Loc
      BY <2>1
    <3> QED
      BY Zenon, <3>1, <3>2 DEF Terminal, Terminals
  <2>3. cycles' \in 0..MaxTicks
    BY <1>1, <1>t, TicksType DEF ConditionFailed, JitTypeOK
  <2> QED
    BY Zenon, <1>1, <1>t, <1>e, <2>2, <2>3 DEF ConditionFailed, JitTypeOK, RunTypeOK
<1>2. CASE Execute
  <2>1. CurIR.terms \subseteq Terminal
    BY Zenon, <1>2, CurrentBlock DEF Execute, Executing, IR
  <2>2. term' \in Terminal /\ pc' \in Loc
    BY Zenon, <1>2, <1>t, <2>1 DEF Execute, Terminal, JitTypeOK
  <2>3. cycles' \in 0..MaxTicks
    BY Zenon, <1>2, <1>t, TicksType DEF Execute, JitTypeOK
  <2> QED
    BY Zenon, <1>2, <1>t, <1>e, <2>2, <2>3 DEF Execute, JitTypeOK, RunTypeOK
<1>3. CASE CallSupervisor
  <2>1. cycles' \in 0..MaxTicks
    BY Zenon, <1>3, <1>t, TicksType DEF CallSupervisor, JitTypeOK
  <2>2. mxcsr' \in [reg: Mode, guest: Mode, saved: Mode]
    <3>1. \A m \in [reg: Mode, guest: Mode, saved: Mode] :
            /\ SwitchMxcsrOnExit(m) \in [reg: Mode, guest: Mode, saved: Mode]
            /\ SwitchMxcsrOnEntry(m) \in [reg: Mode, guest: Mode, saved: Mode]
      BY Zenon DEF SwitchMxcsrOnExit, SwitchMxcsrOnEntry
    <3> QED
      BY <1>3, <1>t, <3>1 DEF CallSupervisor, JitTypeOK
  <2> QED
    BY Zenon, <1>3, <1>t, <2>1, <2>2 DEF CallSupervisor, JitTypeOK, RunTypeOK
<1>4. CASE MemoryAbort
  <2>1. CurIR.mem \subseteq Loc
    BY Zenon, <1>4, CurrentBlock DEF MemoryAbort, Executing, IR
  <2> QED
    BY Zenon, <1>4, <1>t, <1>e, <2>1 DEF MemoryAbort, JitTypeOK, RunTypeOK
<1> QED
  BY Zenon, <1>1, <1>2, <1>3, <1>4 DEF BlockStep

(* The terminals.                                                          *)
LEMMA TermType == ASSUME JitInv, TermStep PROVE RunTypeOK'
<1> USE DEF hostVars, requestVars, translateVars, Control
<1>t. JitTypeOK /\ NoTerm \in Terminal \cup {NoTerm}
  BY DEF JitInv
<1>z. ReturnFromRunCode \in Slot \cup {ReturnFromRunCode}
  BY Zenon
<1>n. ASSUME ctl = "term" PROVE term.next \in Loc /\ term.next \in Desc
  BY Zenon, <1>n, LocAssumption DEF JitInv, ExecutesBlock, Terminal
<1>1. CASE TermCheckHalt
  BY <1>1, <1>t DEF TermCheckHalt, JitTypeOK, RunTypeOK
<1>2. CASE TermLink
  <2> DEFINE site == IF Linked(CurDesc) THEN jump[cur][term.next] ELSE ReturnFromRunCode
  <2>1. site \in Slot \cup {ReturnFromRunCode}
    BY Zenon, <1>2, <1>n, LinkedSite DEF TermLink, Executing
  <2>2. Goto(site) /\ pc' \in Loc
    BY Zenon, <1>2, <1>t, <1>n DEF TermLink, JitTypeOK
  <2> QED
    BY Zenon, <1>2, <1>t, <2>1, <2>2, GotoType DEF TermLink, JitTypeOK, RunTypeOK
<1>3. CASE TermLinkStop
  BY Zenon, <1>3, <1>t, <1>n DEF TermLinkStop, JitTypeOK, RunTypeOK
<1>4. CASE TermPopRSB
  <2>1. ctl' \in Control /\ cur' \in Slot \cup {0} /\ term' \in Terminal \cup {NoTerm}
    BY Zenon, <1>4, <1>t, <1>z, Predicted, GotoType DEF TermPopRSB, JitTypeOK
  <2> QED
    BY Zenon, <1>4, <1>t, <2>1 DEF TermPopRSB, JitTypeOK, RunTypeOK
<1>5. CASE TermDispatch
  <2>1. ctl' \in Control /\ cur' \in Slot \cup {0} /\ term' \in Terminal \cup {NoTerm}
    BY <1>5, <1>t, <1>z, GotoType DEF TermDispatch, JitTypeOK
  <2> QED
    BY Zenon, <1>5, <1>t, <2>1 DEF TermDispatch, JitTypeOK, RunTypeOK
<1>6. CASE FastDispatchHandler
  <2>1. ctl' \in Control /\ cur' \in Slot \cup {0} /\ term' \in Terminal \cup {NoTerm}
    BY Zenon, <1>6, <1>t, Dispatched, GotoType DEF FastDispatchHandler, LookingUp
  <2> QED
    BY Zenon, <1>6, <1>t, <2>1 DEF FastDispatchHandler, JitTypeOK, RunTypeOK
<1>7. CASE TermInterpret
  <2>1. mxcsr' \in [reg: Mode, guest: Mode, saved: Mode]
    BY Zenon, <1>7, <1>t DEF TermInterpret, JitTypeOK, SwitchMxcsrOnExit
  <2> QED
    BY <1>7, <1>t, <1>n, <2>1 DEF TermInterpret, JitTypeOK, RunTypeOK
<1> QED
  BY Zenon, <1>1, <1>2, <1>3, <1>4, <1>5, <1>6, <1>7 DEF TermStep

(* The dispatcher and the way out. *)
LEMMA ExitType == ASSUME JitInv, ExitStep PROVE RunTypeOK'
<1> USE HostAssumption DEF hostVars, requestVars, translateVars, Control
<1>t. JitTypeOK
  BY DEF JitInv
<1>m. /\ SwitchMxcsrOnExit(mxcsr) \in [reg: Mode, guest: Mode, saved: Mode]
      /\ SwitchMxcsrOnEntry(mxcsr) \in [reg: Mode, guest: Mode, saved: Mode]
  BY Zenon, <1>t DEF JitTypeOK, SwitchMxcsrOnExit, SwitchMxcsrOnEntry
<1>1. CASE Interpret
  BY Zenon, <1>1, <1>t DEF Interpret, JitTypeOK, RunTypeOK
<1>2. CASE Dispatch
  BY Zenon, <1>2, <1>t DEF Dispatch, JitTypeOK, RunTypeOK
<1>3. CASE DispatchExited
  BY Zenon, <1>3, <1>t, <1>m DEF DispatchExited, JitTypeOK, RunTypeOK
<1>4. CASE ForceReturn
  BY Zenon, <1>4, <1>t, <1>m DEF ForceReturn, JitTypeOK, RunTypeOK
<1>5. CASE ReturnToCaller
  BY Zenon, <1>5, <1>t, TicksType DEF ReturnToCaller, JitTypeOK, RunTypeOK
<1> QED
  BY Zenon, <1>1, <1>2, <1>3, <1>4, <1>5 DEF ExitStep

(* The interval that is queued lies in the address space and covers the    *)
(* range that was asked for, also where its end wraps around.              *)
LEMMA RangeQueued ==
  ASSUME NEW r \in Ranges
  PROVE  /\ ClosedRange(r.start, r.length) \subseteq Addr
         /\ \A a \in Addr : r.start <= a /\ a < r.start + r.length => a \in ClosedRange(r.start, r.length)
<1> DEFINE n == Cardinality(Addr)
<1>1. n \in Nat /\ Addr = 0..n - 1
  BY Zenon, RangesAssumption
<1>2. r.start \in 0..n - 1 /\ r.length \in 0..n /\ r.start + r.length <= n
  BY Zenon, <1>1, RangesAssumption
<1> DEFINE a == r.start
           l == r.length
<1>3. n \in Nat \ {0} /\ a \in 0..n - 1 /\ l \in 0..n /\ a + l <= n
  BY <1>1, <1>2
<1>4. ClosedRange(a, l) = a..((a + l - 1) % n)
  BY Zenon DEF ClosedRange
<1> HIDE DEF n, a, l
<1>5. (a + l - 1) % n \in 0..n - 1
  BY <1>3
<1>6. l > 0 => (a + l - 1) % n = a + l - 1
  BY <1>3
<1>7. a..((a + l - 1) % n) \subseteq 0..n - 1
  BY <1>3, <1>5
<1>8. \A x \in 0..n - 1 : a <= x /\ x < a + l => x \in a..((a + l - 1) % n)
  BY <1>3, <1>6
<1> QED
  BY Zenon, <1>1, <1>4, <1>7, <1>8 DEF a, l, n

(* Requests are queued while the mutex is held, and published after. *)
LEMMA OthersRequests ==
  ASSUME JitInv, OtherThreads
  PROVE  /\ JitTypeOK' /\ RequestsQueued'
         /\ \A v \in published : v \in published'
         /\ \A v : v \in published /\ Queued(v) => Queued(v)'
         /\ halt_reason \subseteq halt_reason' /\ mem <= mem'
         /\ \A v \in published' : v \in published \/ (Queued(v)' /\ "CacheInvalidation" \in halt_reason')
<1>t. JitTypeOK /\ RequestsQueued /\ CacheTypeOK
  BY Zenon DEF JitInv, JitTypeOK
<1>f. UNCHANGED <<cacheVars, runVars, hostVars, translateVars>>
  BY Zenon, OthersFrame
<1>r. (/\ halt_reason' \subseteq HaltReason
       /\ invalid_cache_ranges' \subseteq Addr /\ invalidate_entire_cache' \in BOOLEAN
       /\ locked' \in BOOLEAN /\ mem' \in Version
       /\ asked' \subseteq Version /\ published' \subseteq Version) => JitTypeOK'
  BY Zenon, <1>t, <1>f DEF JitTypeOK, CacheTypeOK, cacheVars, runVars, hostVars, translateVars
<1>v. mem \in Nat /\ 1..mem \subseteq Version /\ published \subseteq Nat /\ asked \subseteq Nat
  BY Zenon, <1>t, Versions
<1>1. CASE WriteCode
  <2>1. mem' \in Version /\ mem' = mem + 1
    <3>1. mem < MaxVersion /\ mem' = mem + 1
      BY Zenon, <1>1 DEF WriteCode
    <3>2. MaxVersion \in Nat
      BY Zenon, TranslateAssumption
    <3> QED
      BY <1>v, <3>1, <3>2 DEF Version
  <2>2. UNCHANGED <<requestVars, runVars, halt_reason>>
    BY Zenon, <1>1 DEF WriteCode
  <2>3. RequestsQueued'
    BY <1>t, <1>v, <2>1, <2>2 DEF RequestsQueued, Queued, requestVars, runVars
  <2> QED
    BY <1>t, <1>v, <1>r, <2>1, <2>2, <2>3 DEF Queued, requestVars, JitTypeOK
<1>2. CASE HaltExecution
  <2>1. halt_reason' \subseteq HaltReason /\ halt_reason \subseteq halt_reason'
    BY Zenon, <1>2, <1>t, HostAssumption DEF HaltExecution, JitTypeOK
  <2>2. UNCHANGED <<requestVars, runVars, mem>>
    BY Zenon, <1>2 DEF HaltExecution
  <2>3. RequestsQueued'
    BY Zenon, <1>t, <2>2 DEF RequestsQueued, Queued, requestVars, runVars
  <2>4. JitTypeOK'
    BY <1>t, <1>r, <2>1, <2>2 DEF requestVars, JitTypeOK
  <2>5. published' = published /\ \A v : Queued(v) => Queued(v)'
    BY Zenon, <2>2 DEF Queued, requestVars
  <2>6. mem <= mem'
    BY <1>v, <2>2
  <2> QED
    BY Zenon, <2>1, <2>3, <2>4, <2>5, <2>6
<1>3. CASE InvalidateCacheRange
  <2>1. PICK r \in Ranges :
          /\ invalid_cache_ranges' = invalid_cache_ranges \cup ClosedRange(r.start, r.length)
          /\ asked' = {v \in 1..mem : r.start <= Written[v] /\ Written[v] < r.start + r.length}
    BY Zenon, <1>3 DEF InvalidateCacheRange
  <2>2. invalid_cache_ranges' \subseteq Addr
    BY Zenon, <1>t, <2>1, RangeQueued DEF JitTypeOK
  <2>3. \A v \in 1..mem : Written[v] \in Addr
    <3>1. 1..mem \subseteq 1..MaxVersion
      BY <1>t, TranslateAssumption DEF JitTypeOK, Version
    <3> QED
      BY Zenon, <3>1, TranslateAssumption
  <2>4. \A v \in asked' : Queued(v)'
    BY Zenon, <2>1, <2>3, RangeQueued DEF Queued
  <2>5. UNCHANGED <<runVars, halt_reason, mem, invalidate_entire_cache, published>> /\ locked' = TRUE
    BY Zenon, <1>3 DEF InvalidateCacheRange
  <2>6. asked' \subseteq 1..mem /\ invalid_cache_ranges \subseteq invalid_cache_ranges'
    BY Zenon, <2>1
  <2>7. RequestsQueued'
    BY Zenon, <1>t, <2>4, <2>5, <2>6 DEF RequestsQueued, runVars
  <2>8. JitTypeOK'
    BY Zenon, <1>t, <1>v, <1>r, <2>2, <2>5, <2>6 DEF JitTypeOK
  <2>9. \A v : Queued(v) => Queued(v)'
    BY Zenon, <2>5, <2>6 DEF Queued
  <2>10. mem <= mem' /\ published' = published /\ halt_reason' = halt_reason
    BY <1>v, <2>5
  <2> QED
    BY Zenon, <2>7, <2>8, <2>9, <2>10
<1>4. CASE ClearCache
  <2>1. UNCHANGED <<runVars, halt_reason, mem, invalid_cache_ranges, published>>
        /\ locked' = TRUE /\ invalidate_entire_cache' = TRUE /\ asked' = 1..mem
    BY Zenon, <1>4 DEF ClearCache
  <2>2. RequestsQueued'
    BY Zenon, <1>t, <2>1 DEF RequestsQueued, Queued, runVars
  <2>3. JitTypeOK'
    BY Zenon, <1>t, <1>v, <1>r, <2>1 DEF JitTypeOK
  <2>4. \A v : Queued(v)'
    BY Zenon, <2>1 DEF Queued
  <2>5. mem <= mem' /\ published' = published /\ halt_reason' = halt_reason
    BY <1>v, <2>1
  <2> QED
    BY Zenon, <2>2, <2>3, <2>4, <2>5
<1>5. CASE RequestHalt
  <2>1. UNCHANGED <<runVars, mem, invalid_cache_ranges, invalidate_entire_cache>>
        /\ locked' = FALSE /\ asked' = {} /\ published' = published \cup asked
        /\ halt_reason' = halt_reason \cup {"CacheInvalidation"}
    BY Zenon, <1>5 DEF RequestHalt
  <2>2. RequestsQueued'
    BY Zenon, <1>t, <2>1 DEF RequestsQueued, Queued, runVars
  <2>3. \A v \in asked : Queued(v)'
    BY Zenon, <1>t, <2>1 DEF RequestsQueued, Queued
  <2>4. halt_reason' \subseteq HaltReason
    BY <1>t, <2>1 DEF JitTypeOK, HaltReason
  <2>5. JitTypeOK'
    <3>1. published' \subseteq Version /\ asked' \subseteq Version
      BY Zenon, <1>t, <2>1 DEF JitTypeOK
    <3> QED
      BY Zenon, <1>t, <1>r, <2>1, <2>4, <3>1 DEF JitTypeOK
  <2>6. \A v : Queued(v) => Queued(v)'
    BY Zenon, <2>1 DEF Queued
  <2>7. mem <= mem' /\ halt_reason \subseteq halt_reason' /\ published \subseteq published'
    BY <1>v, <2>1
  <2> QED
    BY Zenon, <2>1, <2>2, <2>3, <2>5, <2>6, <2>7
<1> QED
  BY Zenon, <1>1, <1>2, <1>3, <1>4, <1>5 DEF OtherThreads

(* Every step keeps the types. *)
LEMMA StepType == ASSUME JitInv, JitNext PROVE JitTypeOK' /\ counting' \in CycleCounting
<1>c. CacheTypeOK'
  BY Zenon, CacheKept
<1>t. JitTypeOK /\ counting \in CycleCounting /\ 0 \in Version
  BY Zenon, Versions DEF JitInv
<1> USE DEF hostVars, requestVars, translateVars, runVars, Control
<1>1. CASE ControlStep
  <2>1. RunTypeOK'
    BY Zenon, <1>1, StartType, BlockType, TermType, ExitType DEF ControlStep
  <2> QED
    BY Zenon, <1>1, <1>c, <1>t, <2>1, RestType, ControlFrame
<1>2. CASE OtherThreads
  BY Zenon, <1>2, <1>t, OthersRequests, OthersFrame
<1>3. CASE PerformAll
  <2>1. fastmem' \subseteq Slot /\ src' \in [Slot -> Version]
    BY <1>3, <1>t DEF PerformAll, PerformInvalidation, JitTypeOK
  <2>2. halt_reason' \subseteq HaltReason /\ invalid_cache_ranges' \subseteq Addr /\ invalidate_entire_cache' \in BOOLEAN
    BY Zenon, <1>3, <1>t DEF PerformAll, PerformInvalidation, JitTypeOK
  <2>3. ctl' \in Control /\ hr' \subseteq HaltReason /\ back' = "host"
    BY Zenon, <1>3, <1>t DEF PerformAll, Perform, JitTypeOK
  <2> QED
    BY Zenon, <1>3, <1>c, <1>t, <2>1, <2>2, <2>3 DEF PerformAll, Perform, JitTypeOK
<1>4. CASE GetBlockEvict
  BY <1>4, <1>c, <1>t DEF GetBlockEvict, JitTypeOK, HaltReason
<1>5. CASE EmitTranslation
  <2>1. ~Full /\ next \in Slot
    BY Zenon, <1>5, Slots DEF EmitTranslation, EmitBlock, JitInv
  <2>2. fastmem' \subseteq Slot /\ src' \in [Slot -> Version]
    BY Zenon, <1>5, <1>t, <2>1, Emitted DEF JitTypeOK
  <2> QED
    BY Zenon, <1>5, <1>c, <1>t, <2>2 DEF EmitTranslation, JitTypeOK
<1>6. CASE FastmemFault
  <2>1. CurDesc \in Desc
    BY Zenon, <1>6, CurrentBlock DEF FastmemFault, Executing
  <2>2. do_not_fastmem' \subseteq Desc
    BY Zenon, <1>6, <1>t, <2>1 DEF FastmemFault, JitTypeOK
  <2> QED
    BY <1>6, <1>c, <1>t, <2>2 DEF FastmemFault, JitTypeOK
<1> QED
  BY <1>1, <1>2, <1>3, <1>4, <1>5, <1>6, NextCases

(* Every step keeps the requests queued until they are performed. *)
LEMMA QueuedStep == ASSUME JitInv, JitNext PROVE RequestsQueued'
<1>t. JitTypeOK /\ RequestsQueued
  BY DEF JitInv
<1>1. CASE ControlStep
  <2>1. UNCHANGED <<requestVars, mem>>
    BY Zenon, <1>1, ControlFrame
  <2>2. floor' = floor \/ floor' = published
    <3> USE DEF runVars
    <3>1. CASE HostStep \/ LookupStep \/ PerformNothing
      BY Zenon, <3>1 DEF HostStep, LookupStep, PerformNothing, Perform, Run, Step, Begin, SetPC, Reset,
                  PickRSB, PickBlock, GetBlockFound, GetBlockSpace, TranslateBegin, Enter
    <3>2. CASE BlockStep \/ TermStep
      BY Zenon, <3>2 DEF BlockStep, TermStep, ConditionFailed, Execute, CallSupervisor, MemoryAbort, TermCheckHalt,
                  TermLink, TermLinkStop, TermPopRSB, TermDispatch, FastDispatchHandler, TermInterpret
    <3>3. CASE ExitStep
      BY Zenon, <3>3 DEF ExitStep, Interpret, Dispatch, DispatchExited, ForceReturn, ReturnToCaller
    <3> QED
      BY Zenon, <1>1, <3>1, <3>2, <3>3 DEF ControlStep
  <2> QED
    BY Zenon, <1>t, <2>1, <2>2 DEF RequestsQueued, Queued, requestVars
<1>2. CASE OtherThreads
  BY Zenon, <1>2, OthersRequests
<1>3. CASE PerformAll
  <2>1. ~locked /\ UNCHANGED <<locked, asked, published, mem, floor>>
    BY Zenon, <1>3 DEF PerformAll, Perform, PerformInvalidation
  <2> QED
    BY Zenon, <1>t, <2>1 DEF RequestsQueued
<1>4. CASE GetBlockEvict
  BY <1>4, <1>t DEF GetBlockEvict, RequestsQueued, Queued
<1>5. CASE EmitTranslation
  BY Zenon, <1>5, <1>t DEF EmitTranslation, RequestsQueued, Queued, requestVars
<1>6. CASE FastmemFault
  BY Zenon, <1>6, <1>t DEF FastmemFault, RequestsQueued, Queued, requestVars, runVars
<1> QED
  BY Zenon, <1>1, <1>2, <1>3, <1>4, <1>5, <1>6, NextCases

----------------------------------------------------------------------------

(* A step outside GetBlock that does not enter it. *)
LEMMA OutsideLookup ==
  ASSUME JitInv, ~LookingUp, ~LookingUp', UNCHANGED <<cont, missing>>, back' = "host" \/ ctl' = "perform",
         back' # "translate"
  PROVE  LookupConsistent'
BY Zenon, NotMissing DEF LookupConsistent, LookingUp

(* The steps of the JIT thread that leave the blocks alone keep what GetBlock*)
(* is called for.                                                          *)
LEMMA LookupControl == ASSUME JitInv, ControlStep PROVE LookupConsistent'
<1> USE DEF cacheVars, runVars
<1>l. LookupConsistent
  BY Zenon DEF JitInv
<1>b. ctl # "perform" => back = "host"
  BY Zenon, <1>l DEF LookupConsistent
<1>1. CASE HostStep
  BY Zenon, <1>1, <1>b, OutsideLookup DEF HostStep, Run, Step, Begin, SetPC, Reset, LookingUp
<1>2. CASE PerformNothing
  <2>1. back # "translate"
    BY Zenon, <1>2, <1>l DEF PerformNothing, LookupConsistent
  <2>2. ctl' \in {"pick", "host"}
    BY Zenon, <1>2, <2>1 DEF PerformNothing, Perform, JitInv, JitTypeOK
  <2> QED
    BY Zenon, <1>2, <2>1, <2>2, OutsideLookup DEF PerformNothing, Perform, LookingUp
<1>3. CASE LookupStep
  <2>1. CASE PickRSB
    BY Zenon, <2>1, <1>b, OutsideLookup DEF PickRSB, LookingUp
  <2>2. CASE PickBlock
    BY Zenon, <2>2, <1>l, <1>b DEF PickBlock, LookupConsistent, LookingUp
  <2>3. CASE GetBlockFound
    <3>1. missing' = NoDesc /\ cont' = "jump" /\ ctl' \in {"enter", "body", "dispatch"} /\ back' = "host"
      BY Zenon, <2>3, <1>l, <1>b DEF GetBlockFound, FastStore, Goto, LookupConsistent
    <3> QED
      BY Zenon, <3>1 DEF LookupConsistent
  <2>4. CASE GetBlockSpace
    BY Zenon, <2>4, <1>l, <1>b DEF GetBlockSpace, LookupConsistent, LookingUp, Full, Compiled, Want
  <2>5. CASE TranslateBegin
    BY Zenon, <2>5, <1>l, <1>b DEF TranslateBegin, LookupConsistent, LookingUp, Full, Compiled, Want
  <2>6. CASE Enter
    <3>1. ctl' \in {"exit_exited", "body", "dispatch"}
      BY Zenon, <2>6 DEF Enter, Goto
    <3> QED
      BY Zenon, <2>6, <3>1, <1>b, OutsideLookup DEF Enter, LookingUp
  <2> QED
    BY Zenon, <1>3, <2>1, <2>2, <2>3, <2>4, <2>5, <2>6 DEF LookupStep
<1>4. CASE BlockStep
  <2>1. ctl \in Executing /\ ctl' \in {"svc", "term", "exit"} /\ UNCHANGED <<cont, missing, back>>
    BY Zenon, <1>4 DEF BlockStep, ConditionFailed, Execute, CallSupervisor, MemoryAbort, Executing
  <2> QED
    BY Zenon, <2>1, <1>b, OutsideLookup DEF Executing, LookingUp
<1>5. CASE TermStep
  <2>1. CASE FastDispatchHandler /\ FastMiss(pc)
    BY Zenon, <2>1, <1>b, NotMissing DEF FastDispatchHandler, FastMiss, FastHit, LookupConsistent, LookingUp
  <2>2. CASE FastDispatchHandler /\ ~FastMiss(pc)
    <3>1. ctl' \in {"body", "dispatch"} /\ UNCHANGED <<cont, missing, back>>
      BY Zenon, <2>2 DEF FastDispatchHandler, Goto
    <3> QED
      BY Zenon, <2>2, <3>1, <1>b, OutsideLookup DEF FastDispatchHandler, LookingUp
  <2>3. CASE ~FastDispatchHandler
    <3>1. ctl = "term" /\ ctl' \in {"body", "dispatch", "fast", "exit", "interpret"} /\ UNCHANGED <<cont, missing, back>>
      BY Zenon, <1>5, <2>3 DEF TermStep, TermCheckHalt, TermLink, TermLinkStop, TermPopRSB, TermDispatch, TermInterpret, Goto
    <3> QED
      BY Zenon, <3>1, <1>b, OutsideLookup DEF LookingUp
  <2> QED
    BY Zenon, <2>1, <2>2, <2>3
<1>6. CASE ExitStep
  <2>1. CASE ctl' = "lookup"
    <3>1. cont' = "jump" /\ ctl \in {"dispatch", "dispatch_exited"} /\ UNCHANGED <<missing, back>>
      BY Zenon, <1>6, <2>1 DEF ExitStep, Interpret, Dispatch, DispatchExited, ForceReturn, ReturnToCaller
    <3> QED
      BY Zenon, <2>1, <3>1, <1>b, NotMissing DEF LookupConsistent, LookingUp
  <2>2. CASE ctl' # "lookup"
    <3>1. /\ ctl \in {"interpret", "dispatch", "dispatch_exited", "exit", "exit_exited"}
          /\ ctl' \in {"dispatch_exited", "exit", "exit_exited", "perform"}
          /\ UNCHANGED <<cont, missing>> /\ back' \in {back, "host"}
      BY Zenon, <1>6, <2>2 DEF ExitStep, Interpret, Dispatch, DispatchExited, ForceReturn, ReturnToCaller
    <3> QED
      BY Zenon, <3>1, <1>b, OutsideLookup DEF LookingUp
  <2> QED
    BY Zenon, <2>1, <2>2
<1> QED
  BY <1>1, <1>2, <1>3, <1>4, <1>5, <1>6 DEF ControlStep

(* GetBlock is called for a reason and emits only what is missing.         *)
LEMMA LookupKept == ASSUME JitInv, JitNext PROVE LookupConsistent'
<1>l. LookupConsistent
  BY Zenon DEF JitInv
<1>1. CASE ControlStep
  BY Zenon, <1>1, LookupControl
<1>2. CASE OtherThreads
  <2>1. UNCHANGED <<cacheVars, runVars>> /\ (invalidate_entire_cache => invalidate_entire_cache')
    <3>1. UNCHANGED <<cacheVars, runVars>>
      BY Zenon, <1>2, OthersFrame
    <3>2. CASE WriteCode
      BY Zenon, <3>1, <3>2 DEF WriteCode, requestVars
    <3>3. CASE HaltExecution
      BY Zenon, <3>1, <3>3 DEF HaltExecution, requestVars
    <3>4. CASE InvalidateCacheRange
      BY Zenon, <3>1, <3>4 DEF InvalidateCacheRange
    <3>5. CASE ClearCache
      BY Zenon, <3>1, <3>5 DEF ClearCache
    <3>6. CASE RequestHalt
      BY Zenon, <3>1, <3>6 DEF RequestHalt
    <3> QED
      BY Zenon, <1>2, <3>2, <3>3, <3>4, <3>5, <3>6 DEF OtherThreads
  <2> QED
    BY Zenon, <1>l, <2>1 DEF LookupConsistent, LookingUp, Full, Compiled, Want, cacheVars, runVars
<1>3. CASE PerformAll
  <2>1. CASE back = "translate"
    <3>1. Full /\ invalidate_entire_cache
      BY <1>l, <2>1 DEF LookupConsistent
    <3>2. InvalidateAll
      BY <1>3, <3>1 DEF PerformAll, PerformInvalidation, NothingRequested
    <3>3. next' = 1 /\ block_descriptors' = [d \in Desc |-> 0] /\ missing' = missing
      BY <3>2 DEF InvalidateAll, ClearBlocks
    <3>4. UNCHANGED <<pc, cont, stepping>> /\ ctl' = "translate" /\ back' = "host"
      BY <1>3, <2>1 DEF PerformAll, Perform
    <3>5. Want' = Want /\ Want \in Desc
      BY Zenon, <3>4, Locations DEF Want, JitInv
    <3>6. ~Full'
      BY <3>3, SizeAssumption DEF Full
    <3> QED
      BY <1>l, <3>3, <3>4, <3>5, <3>6 DEF LookupConsistent, LookingUp, Compiled
  <2>2. CASE back # "translate"
    <3>1. missing' = missing
      BY Zenon, <1>3 DEF PerformAll, PerformInvalidation, InvalidateAll, ClearBlocks, InvalidateRanges,
                  InvalidateBasicBlocks, cacheVars
    <3>2. ctl' \in {"pick", "host"}
      BY Zenon, <1>3, <2>2 DEF PerformAll, Perform, JitInv, JitTypeOK
    <3> QED
      BY Zenon, <1>3, <2>2, <3>1, <3>2, OutsideLookup DEF PerformAll, Perform, LookingUp
  <2> QED
    BY <2>1, <2>2
<1>4. CASE GetBlockEvict
  BY Zenon, <1>4, <1>l DEF GetBlockEvict, LookupConsistent, LookingUp, Full, Compiled, Want, cacheVars
<1>5. CASE EmitTranslation
  BY Zenon, <1>5, <1>l DEF EmitTranslation, EmitBlock, LookupConsistent, LookingUp
<1>6. CASE FastmemFault
  BY Zenon, <1>6, <1>l, OutsideLookup DEF FastmemFault, InvalidateBasicBlocks, LookupConsistent, LookingUp, runVars
<1> QED
  BY Zenon, <1>1, <1>2, <1>3, <1>4, <1>5, <1>6, NextCases

----------------------------------------------------------------------------
(* The blocks.                                                             *)

(* Where the control steps come from and lead to. *)
LEMMA Moves ==
  ASSUME JitInv
  PROVE  /\ HostStep => ctl = "host" /\ ctl' \in {"host", "perform"}
         /\ BlockStep => ctl \in Executing /\ ctl' \in {"svc", "term", "exit"}
         /\ TermStep => /\ ctl \in {"term", "fast"}
                        /\ ctl' \in {"body", "dispatch", "fast", "lookup", "exit", "interpret"}
         /\ ExitStep => /\ ctl \in {"interpret", "dispatch", "dispatch_exited", "exit", "exit_exited"}
                        /\ ctl' \in {"dispatch_exited", "exit", "exit_exited", "lookup", "perform"}
         /\ PerformNothing \/ PerformAll => ctl = "perform" /\ ctl' \in {"pick", "translate", "host"}
<1>1. HostStep => ctl = "host" /\ ctl' \in {"host", "perform"}
  BY Zenon DEF HostStep, Run, Step, Begin, SetPC, Reset
<1>2. BlockStep => ctl \in Executing /\ ctl' \in {"svc", "term", "exit"}
  BY Zenon DEF BlockStep, ConditionFailed, Execute, CallSupervisor, MemoryAbort, Executing
<1>3. TermStep => /\ ctl \in {"term", "fast"}
                  /\ ctl' \in {"body", "dispatch", "fast", "lookup", "exit", "interpret"}
  BY Zenon DEF TermStep, TermCheckHalt, TermLink, TermLinkStop, TermPopRSB, TermDispatch, FastDispatchHandler,
         TermInterpret, Goto
<1>4. ExitStep => /\ ctl \in {"interpret", "dispatch", "dispatch_exited", "exit", "exit_exited"}
                  /\ ctl' \in {"dispatch_exited", "exit", "exit_exited", "lookup", "perform"}
  BY Zenon DEF ExitStep, Interpret, Dispatch, DispatchExited, ForceReturn, ReturnToCaller
<1>5. PerformNothing \/ PerformAll => ctl = "perform" /\ ctl' \in {"pick", "translate", "host"}
  <2>1. PerformNothing \/ PerformAll => Perform
    BY Zenon DEF PerformNothing, PerformAll
  <2>2. Perform => ctl = "perform" /\ ctl' = back
    BY Zenon DEF Perform
  <2>3. back \in {"pick", "translate", "host"}
    BY Zenon DEF JitInv, JitTypeOK
  <2> QED
    BY Zenon, <2>1, <2>2, <2>3
<1> QED
  BY Zenon, <1>1, <1>2, <1>3, <1>4, <1>5

(* Only emission and a whole invalidation change which blocks there are. *)
LEMMA BlocksFrame ==
  ASSUME JitInv, JitNext
  PROVE  \/ UNCHANGED <<next, code, src>> /\ mem <= mem'
         \/ next' = 1 /\ PerformAll
         \/ EmitTranslation
<1>m. mem \in Nat
  BY Zenon, Versions DEF JitInv
<1>1. CASE ControlStep
  BY <1>1, <1>m, ControlFrame DEF emitVars
<1>2. CASE OtherThreads
  BY Zenon, <1>2, OthersFrame, OthersRequests DEF cacheVars, translateVars
<1>3. CASE PerformAll
  <2>1. mem' = mem
    BY Zenon, <1>3 DEF PerformAll, Perform
  <2>2. InvalidateAll => next' = 1
    BY Zenon DEF InvalidateAll, ClearBlocks
  <2>3. InvalidateRanges(invalid_cache_ranges) \/ UNCHANGED cacheVars => UNCHANGED <<next, code>>
    BY Zenon DEF InvalidateRanges, InvalidateBasicBlocks, cacheVars
  <2>4. InvalidateAll \/ ((InvalidateRanges(invalid_cache_ranges) \/ UNCHANGED cacheVars) /\ UNCHANGED src)
    BY Zenon, <1>3 DEF PerformAll, PerformInvalidation
  <2> QED
    BY <1>3, <1>m, <2>1, <2>2, <2>3, <2>4
<1>4. CASE GetBlockEvict
  BY <1>4, <1>m DEF GetBlockEvict, cacheVars, translateVars
<1>5. CASE FastmemFault
  BY <1>5, <1>m DEF FastmemFault, InvalidateBasicBlocks
<1> QED
  BY Zenon, <1>1, <1>2, <1>3, <1>4, <1>5, NextCases

(* Every block is a translation. *)
LEMMA CodeKept == ASSUME JitInv, JitNext PROVE CodeTranslated'
<1>c. CodeTranslated /\ mem \in Nat /\ src \in [Slot -> Nat]
  BY Zenon, Versions DEF JitInv
<1>s. next \in Nat /\ 1..next - 1 \subseteq Slot
  BY Zenon, Slots DEF JitInv
<1>1. CASE UNCHANGED <<next, code, src>> /\ mem <= mem'
  <2>1. mem' \in Nat
    <3>1. mem' \in Version
      BY Zenon, StepType DEF JitTypeOK
    <3> QED
      BY <3>1, Versions DEF JitInv
  <2> SUFFICES ASSUME NEW s \in 1..next - 1
               PROVE  src[s] <= mem'
    BY Zenon, <1>1, <1>c DEF CodeTranslated
  <2>2. PICK n : n = src[s]
    BY Zenon
  <2>3. n \in Nat /\ n <= mem
    BY Zenon, <1>c, <1>s, <2>2 DEF CodeTranslated
  <2>4. n <= mem'
    BY <1>1, <1>c, <2>1, <2>3
  <2> QED
    BY Zenon, <2>2, <2>4
<1>2. CASE next' = 1
  <2>1. 1..next' - 1 = {}
    BY <1>2
  <2> QED
    BY Zenon, <2>1 DEF CodeTranslated
<1>3. CASE EmitTranslation
  <2>1. PICK v \in lo..mem :
          EmitBlock(BlockOf(Want, Translate[Want][v])) /\ src' = [src EXCEPT ![next] = v]
          /\ BlockOf(Want, Translate[Want][v]).desc = Want
    BY Zenon, <1>3, Emitted
  <2>2. next \in Slot /\ next' = next + 1 /\ mem' = mem /\ code' = [code EXCEPT ![next] = BlockOf(Want, Translate[Want][v])]
    BY Zenon, <1>3, <2>1, Slots DEF EmitTranslation, EmitBlock, JitInv
  <2>3. code'[next] = BlockOf(Want, Translate[Want][v]) /\ src'[next] = v /\ v <= mem
    <3>1. DOMAIN code = Slot /\ DOMAIN src = Slot
      BY Zenon, <1>c DEF JitInv, JitTypeOK, CacheInv, CacheTypeOK
    <3>2. v <= mem
      BY <2>1
    <3> QED
      BY Zenon, <2>1, <2>2, <3>1, <3>2
  <2>4. \A s \in 1..next - 1 : code'[s] = code[s] /\ src'[s] = src[s]
    <3>1. DOMAIN code = Slot /\ DOMAIN src = Slot
      BY <1>c DEF JitInv, JitTypeOK, CacheInv, CacheTypeOK
    <3>2. \A s \in 1..next - 1 : s # next
      BY <1>s
    <3> QED
      BY Zenon, <1>s, <2>1, <2>2, <3>1, <3>2
  <2>5. 1..next' - 1 = (1..next - 1) \cup {next}
    <3>1. PICK n : n = next
      BY Zenon
    <3>2. n \in Nat \ {0}
      BY <2>2, <3>1 DEF Slot
    <3>3. 1..(n + 1) - 1 = (1..n - 1) \cup {n}
      BY <3>2
    <3> QED
      BY Zenon, <2>2, <3>1, <3>3
  <2> SUFFICES ASSUME NEW s \in 1..next' - 1
               PROVE  src'[s] <= mem /\ code'[s] = BlockOf(code'[s].desc, Translate[code'[s].desc][src'[s]])
    BY Zenon, <2>2 DEF CodeTranslated
  <2>6. CASE s = next
    BY Zenon, <2>1, <2>3, <2>6
  <2>7. CASE s \in 1..next - 1
    BY Zenon, <1>c, <2>4, <2>7 DEF CodeTranslated
  <2> QED
    BY Zenon, <2>5, <2>6, <2>7
<1> QED
  BY Zenon, <1>1, <1>2, <1>3, BlocksFrame

(* Run and Step enter a block of the PC. *)
LEMMA EntersKept == ASSUME JitInv, JitNext PROVE EntersGuest'
<1>e. EntersGuest
  BY Zenon DEF JitInv
<1>1. CASE ControlStep
  <2>f. UNCHANGED <<next, code>>
    BY Zenon, <1>1, ControlFrame DEF emitVars
  <2>1. CASE PickRSB
    BY Zenon, <2>f, <2>1, Predicted DEF PickRSB, EntersGuest, Holds
  <2>2. CASE GetBlockFound
    <3>1. CASE cont = "enter"
      <4>1. Want = IF stepping THEN SingleStep[pc] ELSE pc
        BY <3>1 DEF Want
      <4>2. Holds(block_descriptors[Want], Want) /\ block_descriptors[Want] # 0
        BY Zenon, <2>2, Locations, Found DEF GetBlockFound, JitInv, Compiled
      <4>3. ptr' = block_descriptors[Want] /\ UNCHANGED <<stepping, pc>>
        BY Zenon, <2>2, <3>1 DEF GetBlockFound
      <4> QED
        BY Zenon, <2>f, <4>1, <4>2, <4>3 DEF EntersGuest, Holds, ReturnFromRunCode
    <3>2. CASE cont # "enter"
      <4>1. ctl' \in {"body", "dispatch"}
        BY Zenon, <2>2, <3>2 DEF GetBlockFound, Goto
      <4> QED
        BY Zenon, <4>1 DEF EntersGuest
    <3> QED
      BY Zenon, <3>1, <3>2
  <2>3. CASE PickBlock \/ GetBlockSpace \/ TranslateBegin \/ Enter
    <3>1. ctl' # "enter"
      BY Zenon, <2>3 DEF PickBlock, GetBlockSpace, TranslateBegin, Enter, Goto
    <3> QED
      BY Zenon, <3>1 DEF EntersGuest
  <2>4. CASE ~LookupStep
    <3>1. ctl' # "enter"
      BY Zenon, <1>1, <2>4, Moves DEF ControlStep
    <3> QED
      BY Zenon, <3>1 DEF EntersGuest
  <2> QED
    BY Zenon, <2>1, <2>2, <2>3, <2>4 DEF LookupStep
<1>2. CASE OtherThreads
  <2>1. UNCHANGED <<next, code, ctl, ptr, stepping, pc>>
    BY Zenon, <1>2, OthersFrame DEF cacheVars, runVars
  <2> QED
    BY Zenon, <1>e, <2>1 DEF EntersGuest, Holds
<1>3. CASE PerformAll \/ GetBlockEvict \/ EmitTranslation \/ FastmemFault
  <2>1. ctl' # "enter"
    BY Zenon, <1>3, Moves DEF GetBlockEvict, EmitTranslation, FastmemFault, runVars
  <2> QED
    BY <2>1 DEF EntersGuest
<1> QED
  BY Zenon, <1>1, <1>2, <1>3, NextCases

(* A jump to a block or to the dispatcher. *)
LEMMA GotoKept ==
  ASSUME NEW p, NEW d, Goto(p), p = ReturnFromRunCode \/ Holds(p, d), UNCHANGED next
  PROVE  ExecutesBlock'
BY Zenon DEF Goto, Holds, ExecutesBlock, Executing

(* What is executed is an intact block, with a terminal of its own. *)
LEMMA ExecutesControl == ASSUME JitInv, ControlStep PROVE ExecutesBlock'
<1>f. UNCHANGED <<next, code>>
  BY Zenon, ControlFrame DEF emitVars
<1>o. ctl' \notin Executing => ExecutesBlock'
  BY Zenon DEF ExecutesBlock, Executing
<1>1. CASE LookupStep
  <2>1. CASE GetBlockFound
    <3>1. Holds(block_descriptors[Want], Want)
      BY Zenon, <2>1, Locations, Found DEF GetBlockFound, JitInv
    <3>2. cont # "enter" => Goto(block_descriptors[Want])
      BY Zenon, <2>1 DEF GetBlockFound
    <3>3. cont = "enter" => ctl' = "enter"
      BY Zenon, <2>1 DEF GetBlockFound
    <3> QED
      BY Zenon, <3>1, <3>2, <3>3, <1>f, <1>o, GotoKept DEF Executing
  <2>2. CASE Enter
    <3>1. ptr = ReturnFromRunCode \/ Holds(ptr, IF stepping THEN SingleStep[pc] ELSE pc)
      BY Zenon, <2>2 DEF Enter, JitInv, EntersGuest
    <3>2. ctl' = "exit_exited" \/ Goto(ptr)
      BY Zenon, <2>2 DEF Enter
    <3> QED
      BY Zenon, <3>1, <3>2, <1>f, <1>o, GotoKept DEF Executing
  <2>3. CASE PickRSB \/ PickBlock \/ GetBlockSpace \/ TranslateBegin
    BY Zenon, <2>3, <1>o DEF PickRSB, PickBlock, GetBlockSpace, TranslateBegin, Executing
  <2> QED
    BY Zenon, <1>1, <2>1, <2>2, <2>3 DEF LookupStep
<1>2. CASE BlockStep
  <2>b. /\ cur \in 1..next - 1 /\ CurDesc \in Desc /\ src[cur] \in Version /\ CurIR \in IR
        /\ code[cur] = BlockOf(CurDesc, CurIR) /\ cur' = cur
    BY Zenon, <1>2, Moves, CurrentBlock DEF BlockStep, ConditionFailed, Execute, CallSupervisor, MemoryAbort
  <2>p. IsA32 /\ Linked(CurDesc) => LinkTargets(CurIR, {"LinkBlock"}) \subseteq code[cur].pushes
    <3>1. IsA32 /\ Linked(CurDesc) => LinkTargets(CurIR, {"LinkBlock"}) \subseteq BlockOf(CurDesc, CurIR).pushes
      BY Zenon DEF BlockOf
    <3> QED
      BY Zenon, <2>b, <3>1
  <2>d. CurDesc' = CurDesc
    BY <2>b, <1>f DEF CurDesc
  <2>1. CASE ConditionFailed
    <3>1. PICK l \in CurIR.condfail : term' = [kind |-> "LinkBlock", next |-> l, check |-> FALSE]
      BY Zenon, <2>1 DEF ConditionFailed
    <3>2. l \in Loc /\ l \in LinkTargets(CurIR, {"LinkBlock"})
      BY Zenon, <2>b, <3>1 DEF IR, LinkTargets
    <3>3. term' \in Terminal /\ ctl' = "term"
      BY Zenon, <2>1, <3>1, <3>2 DEF ConditionFailed, Terminal, Terminals
    <3> QED
      BY Zenon, <2>b, <2>p, <2>d, <3>1, <3>2, <3>3, <1>f DEF ExecutesBlock, Linked
  <2>2. CASE Execute
    <3>1. term' \in CurIR.terms /\ ctl' = IF CurIR.svc THEN "svc" ELSE "term"
      BY Zenon, <2>2 DEF Execute
    <3>2. term' \in Terminal
      BY Zenon, <2>b, <3>1 DEF IR
    <3>3. term'.check \/ CurIR.svc => term'.kind \notin Links \cup {"Interpret"}
      BY Zenon, <2>b, <3>1, TerminalAssumption DEF CurIR
    <3>4. term'.kind = "LinkBlock" => term'.next \in LinkTargets(CurIR, {"LinkBlock"})
      BY Zenon, <3>1 DEF LinkTargets
    <3> QED
      BY Zenon, <2>b, <2>p, <2>d, <3>1, <3>2, <3>3, <3>4, <1>f DEF ExecutesBlock, Linked
  <2>3. CASE CallSupervisor
    BY Zenon, <2>3, <2>b, <2>d, <1>f DEF CallSupervisor, JitInv, ExecutesBlock, Linked
  <2>4. CASE MemoryAbort
    BY Zenon, <2>4, <1>o DEF MemoryAbort, Executing
  <2> QED
    BY <1>2, <2>1, <2>2, <2>3, <2>4 DEF BlockStep
<1>3. CASE TermStep
  <2>1. CASE TermLink
    <3> DEFINE site == IF Linked(CurDesc) THEN jump[cur][term.next] ELSE ReturnFromRunCode
    <3>1. term.next \in Desc
      BY Zenon, <2>1, LocAssumption DEF TermLink, JitInv, ExecutesBlock, Terminal
    <3>2. Goto(site)
      BY Zenon, <2>1 DEF TermLink
    <3>3. site = ReturnFromRunCode \/ Holds(site, term.next)
      BY Zenon, <2>1, <3>1, LinkedSite DEF TermLink, Executing
    <3> QED
      BY Zenon, <3>2, <3>3, <1>f, GotoKept
  <2>2. CASE TermPopRSB
    <3>1. RSBHit(pc) => Goto(rsb[RSBTop].ptr)
      BY Zenon, <2>2 DEF TermPopRSB
    <3>2. ~RSBHit(pc) => ctl' \notin Executing
      BY Zenon, <2>2 DEF TermPopRSB, Goto, Executing
    <3> QED
      BY Zenon, <3>1, <3>2, <1>f, <1>o, Predicted, GotoKept
  <2>3. CASE FastDispatchHandler
    <3>1. ctl' = "lookup" \/ (FastHit(pc) /\ Goto(fast_dispatch_table[Hash[pc]].ptr))
      BY Zenon, <2>3 DEF FastDispatchHandler
    <3>2. FastHit(pc) => Holds(fast_dispatch_table[Hash[pc]].ptr, pc)
      BY Zenon, <2>3, Dispatched DEF FastDispatchHandler, LookingUp
    <3> QED
      BY Zenon, <3>1, <3>2, <1>f, <1>o, GotoKept DEF Executing
  <2>4. CASE TermCheckHalt \/ TermLinkStop \/ TermDispatch \/ TermInterpret
    BY Zenon, <2>4, <1>o DEF TermCheckHalt, TermLinkStop, TermDispatch, TermInterpret, Goto, Executing
  <2> QED
    BY Zenon, <1>3, <2>1, <2>2, <2>3, <2>4 DEF TermStep
<1>4. CASE HostStep \/ ExitStep \/ PerformNothing
  BY Zenon, <1>4, <1>o, Moves DEF Executing
<1> QED
  BY Zenon, <1>1, <1>2, <1>3, <1>4 DEF ControlStep

(* So it is whatever the step; the cache is emptied only outside a block.  *)
LEMMA ExecutesKept == ASSUME JitInv, JitNext PROVE ExecutesBlock'
<1>e. ExecutesBlock
  BY Zenon DEF JitInv
<1>o. ctl' \notin Executing => ExecutesBlock'
  BY Zenon DEF ExecutesBlock, Executing
<1>1. CASE ControlStep
  BY Zenon, <1>1, ExecutesControl
<1>2. CASE OtherThreads
  BY Zenon, <1>2, <1>e, OthersFrame DEF ExecutesBlock, CurDesc, Linked, cacheVars, runVars
<1>3. CASE PerformAll \/ GetBlockEvict \/ EmitTranslation
  BY Zenon, <1>3, <1>o, Moves DEF GetBlockEvict, EmitTranslation, Executing
<1>4. CASE FastmemFault
  BY Zenon, <1>4, <1>e DEF FastmemFault, InvalidateBasicBlocks, ExecutesBlock, Executing, runVars
<1> QED
  BY Zenon, <1>1, <1>2, <1>3, <1>4, NextCases

(* The code comes to a stop only with a halt reason or without cycles. *)
LEMMA StopsKept == ASSUME JitInv, JitNext PROVE StopsForAReason'
<1>s. StopsForAReason /\ cycles \in 0..MaxTicks /\ counting \in BOOLEAN
  BY Zenon DEF JitInv, JitTypeOK
<1>o. ctl' \notin {"exit", "exit_exited"} => StopsForAReason'
  BY DEF StopsForAReason
<1>1. CASE HostStep \/ PerformNothing \/ PerformAll \/ GetBlockEvict \/ EmitTranslation \/ FastmemFault
  BY Zenon, <1>1, <1>o, Moves DEF GetBlockEvict, EmitTranslation, FastmemFault, runVars
<1>2. CASE LookupStep
  BY Zenon, <1>2, <1>o DEF LookupStep, PickRSB, PickBlock, GetBlockFound, GetBlockSpace, TranslateBegin, Enter,
                    Goto, StopsForAReason
<1>3. CASE BlockStep
  BY Zenon, <1>3, <1>o DEF BlockStep, ConditionFailed, Execute, CallSupervisor, MemoryAbort, Aborting, StopsForAReason
<1>4. CASE TermStep
  <2>1. CASE TermLinkStop
    <3>1. halt_reason # {} \/ (counting /\ cycles = 0)
      BY <2>1, <1>s, HostAssumption DEF TermLinkStop, MayLink
    <3> QED
      BY Zenon, <2>1, <3>1 DEF TermLinkStop, StopsForAReason, hostVars
  <2>2. CASE ~TermLinkStop
    BY Zenon, <1>4, <2>2, <1>o DEF TermStep, TermCheckHalt, TermLink, TermPopRSB, TermDispatch, FastDispatchHandler,
                            TermInterpret, Goto, Halting, StopsForAReason
  <2> QED
    BY Zenon, <2>1, <2>2
<1>5. CASE ExitStep
  BY Zenon, <1>5, <1>s, <1>o DEF ExitStep, Interpret, Dispatch, DispatchExited, ForceReturn, ReturnToCaller,
                          OutOfTime, hostVars, StopsForAReason
<1>6. CASE OtherThreads
  BY <1>6, <1>s, OthersFrame, OthersRequests DEF runVars, hostVars, StopsForAReason
<1> QED
  BY Zenon, <1>1, <1>2, <1>3, <1>4, <1>5, <1>6, NextCases DEF ControlStep

=============================================================================
