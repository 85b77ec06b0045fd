----------------------------- MODULE Jit_proofs -----------------------------
(***************************************************************************)
(* The x64 run loop loses no invalidation, executes no code older than the *)
(* invalidations before the run and runs the program of the guest, for any *)
(* guest program, any sizes and any configuration, as long as the host     *)
(* does not call Reset: Reset drops the halt reason but not the request.   *)
(* JitInv is the inductive invariant; what Step, the MXCSR and the version *)
(* of the blocks that a run can reach keep is shown with it.               *)
(***************************************************************************)
EXTENDS JitSteps_proofs

----------------------------------------------------------------------------
(* A new Jit satisfies JitInv ... *)
LEMMA JitInitInv == JitInit => JitInv
<1> SUFFICES ASSUME JitInit PROVE JitInv
  BY Zenon
<1>1. CacheInv /\ CacheTypeOK
  BY Zenon, InitInv DEF JitInit, CacheInv
<1>2. JitTypeOK /\ counting \in CycleCounting
  <2>1. 0 \in Version /\ 0 \in 0..MaxTicks /\ 0 \in CodePtr
    BY TranslateAssumption, HostAssumption DEF Version, CodePtr, ReturnFromRunCode
  <2>2. src \in [Slot -> Version] /\ mxcsr \in [reg: Mode, guest: Mode, saved: Mode]
    BY Zenon, <2>1 DEF JitInit, Mode
  <2>3. counting \in CycleCounting /\ counting \in BOOLEAN
    BY Zenon, HostAssumption DEF JitInit
  <2>4. stepping \in BOOLEAN /\ invalidate_entire_cache \in BOOLEAN /\ locked \in BOOLEAN
    BY Zenon DEF JitInit
  <2>5. /\ pc \in Loc /\ ctl \in Control
        /\ back \in {"pick", "translate", "host"} /\ cont \in {"enter", "jump", "fast"}
        /\ ptr \in CodePtr /\ cur \in Slot \cup {0} /\ term \in Terminal \cup {NoTerm}
    BY Zenon, <2>1 DEF JitInit, Control
  <2>6. /\ hr \subseteq HaltReason /\ halt_reason \subseteq HaltReason /\ cycles \in 0..MaxTicks
        /\ invalid_cache_ranges \subseteq Addr /\ do_not_fastmem \subseteq Desc /\ fastmem \subseteq Slot
        /\ mem \in Version /\ lo \in Version /\ asked \subseteq Version /\ published \subseteq Version
        /\ floor \subseteq Version /\ executed \in 0..2
    BY <2>1 DEF JitInit
  <2> QED
    BY <1>1, <2>2, <2>3, <2>4, <2>5, <2>6 DEF JitTypeOK
<1>3. LookupConsistent /\ EntersGuest /\ ExecutesBlock
  BY Zenon DEF JitInit, CacheInit, LookupConsistent, LookingUp, EntersGuest, ExecutesBlock, Executing
<1>4. CodeTranslated
  <2>1. 1..next - 1 = {}
    BY DEF JitInit, CacheInit
  <2> QED
    BY Zenon, <2>1 DEF CodeTranslated
<1>5. StopsForAReason /\ RequestsQueued
  BY DEF JitInit, StopsForAReason, RequestsQueued
<1> QED
  BY Zenon, <1>1, <1>2, <1>3, <1>4, <1>5 DEF JitInv

(* ... and every step keeps it. *)
LEMMA JitStepInv == JitInv /\ [JitNext]_jitVars => JitInv'
<1> SUFFICES ASSUME JitInv, [JitNext]_jitVars PROVE JitInv'
  BY Zenon
<1>1. CASE JitNext
  <2>1. JitTypeOK' /\ counting' \in CycleCounting /\ CacheInv' /\ RequestsQueued'
    BY Zenon, <1>1, StepType, CacheKept, QueuedStep
  <2>2. LookupConsistent' /\ CodeTranslated' /\ EntersGuest'
    BY Zenon, <1>1, LookupKept, CodeKept, EntersKept
  <2>3. ExecutesBlock' /\ StopsForAReason'
    BY Zenon, <1>1, ExecutesKept, StopsKept
  <2> QED
    BY Zenon, <2>1, <2>2, <2>3 DEF JitInv
<1>2. CASE UNCHANGED jitVars
  <2> USE <1>2 DEF JitInv, jitVars
  <2>1. CacheInv'
    BY Zenon, NextInv
  <2> USE DEF cacheVars, runVars, hostVars, requestVars, translateVars
  <2>2. JitTypeOK' /\ counting' \in CycleCounting
    <3>1. CacheTypeOK'
      BY Zenon, <2>1 DEF CacheInv
    <3> QED
      BY <3>1 DEF JitTypeOK
  <2>3. LookupConsistent' /\ RequestsQueued' /\ StopsForAReason'
    BY Zenon DEF LookupConsistent, LookingUp, Full, Compiled, Want, RequestsQueued, Queued, StopsForAReason
  <2>4. CodeTranslated' /\ EntersGuest' /\ ExecutesBlock'
    BY Zenon DEF CodeTranslated, EntersGuest, Holds, ExecutesBlock, CurDesc, Linked
  <2> QED
    BY Zenon, <2>1, <2>2, <2>3, <2>4
<1> QED
  BY Zenon, <1>1, <1>2

(* The run loop, GetBlock and the cache agree in every state of the x64    *)
(* run loop, whatever the host calls and the guest does.                   *)
THEOREM JitInvariant == JitSpec => []JitInv
BY JitInitInv, JitStepInv, PTL DEF JitSpec

(* The run loop drives the cache only as CodeCache allows: a block is      *)
(* emitted for a location that has none, a cache is evicted when it is     *)
(* full, nothing is invalidated under a fast dispatch miss.  So what is    *)
(* proved of CodeCache holds under the run loop.                           *)
THEOREM JitImplementsCache == JitSpec => CacheSpec
<1>1. JitInit => CacheInit
  BY DEF JitInit
<1>2. JitInv /\ [JitNext]_jitVars => [CacheNext]_cacheVars
  <2> SUFFICES ASSUME JitInv, [JitNext]_jitVars PROVE [CacheNext]_cacheVars
    BY Zenon
  <2>1. CASE JitNext
    BY Zenon, <2>1, CacheSteps
  <2>2. CASE UNCHANGED jitVars
    BY Zenon, <2>2 DEF jitVars
  <2> QED
    BY Zenon, <2>1, <2>2
<1> QED
  BY <1>1, <1>2, JitInvariant, PTL DEF JitSpec, CacheSpec

(* Whatever the run loop and other threads do: no way through the cache    *)
(* leads to overwritten code or another location, links and the fast       *)
(* dispatch table are current, and no trace of a dropped block is left.    *)
THEOREM JitCacheIsSound ==
  JitSpec => []CodePtrsValid /\ []LinksCurrent /\ []FastDispatchCurrent /\ InvalidateIsComplete
BY Zenon, JitImplementsCache, CodePointersAreValid, LinksAreCurrent, FastDispatchIsCurrent, InvalidationIsComplete

(* The state of the JIT thread, the cache and the requests keep their      *)
(* types; the cache has no more blocks than fit and the RSB wraps around.  *)
THEOREM JitTypesHold == JitSpec => []JitTypeOK
<1>1. JitInv => JitTypeOK
  BY DEF JitInv
<1> QED
  BY <1>1, JitInvariant, PTL

(* Run never comes back without a halt reason and with cycles left.        *)
THEOREM JitReturnsForAReason == JitSpec => []ReturnsForAReason
<1>1. JitInv => ReturnsForAReason
  BY DEF JitInv, StopsForAReason, ReturnsForAReason
<1> QED
  BY <1>1, JitInvariant, PTL

----------------------------------------------------------------------------
(* Step.                                                                   *)

(* The host and other threads give no other reason to stop as a step does. *)
LEMMA StepHostKept ==
  ASSUME JitInv, StepInv, "Step" \notin HostReasons, HostStep \/ OtherThreads
  PROVE  StepInv'
<1>t. stepping \in BOOLEAN
  BY Zenon DEF JitInv, JitTypeOK
<1> USE DEF StepInv, BeforeEntry, Returned, LookingUp, Executing
<1>1. CASE HostStep
  BY <1>1, <1>t DEF HostStep, Run, Step, Begin, SetPC, Reset
<1>2. CASE OtherThreads
  <2>1. UNCHANGED <<code, stepping, ctl, cont, back, cur, hr, executed>>
    BY Zenon, <1>2, OthersFrame DEF cacheVars, emitVars, runVars
  <2>2. "Step" \in halt_reason' <=> "Step" \in halt_reason
    BY Zenon, <1>2 DEF OtherThreads, WriteCode, HaltExecution, InvalidateCacheRange, ClearCache, RequestHalt
  <2> QED
    BY <2>1, <2>2 DEF CurDesc
<1> QED
  BY Zenon, <1>1, <1>2

(* A block is entered once, by a step the single-stepping one of the PC.   *)
LEMMA StepLookupKept ==
  ASSUME JitInv, StepInv, LookupStep \/ GetBlockEvict \/ EmitTranslation \/ PerformNothing \/ PerformAll
  PROVE  StepInv'
<1>t. stepping \in BOOLEAN /\ back \in {"pick", "translate", "host"} /\ ctl \in Control
  BY Zenon DEF JitInv, JitTypeOK
<1> USE DEF StepInv, BeforeEntry, Returned, LookingUp, Executing
<1>1. CASE PickRSB \/ PickBlock \/ GetBlockSpace \/ TranslateBegin \/ GetBlockEvict \/ EmitTranslation
  <2>1. CASE PickRSB
    BY Zenon, <2>1, <1>t DEF PickRSB
  <2>2. CASE PickBlock
    BY Zenon, <2>2, <1>t DEF PickBlock
  <2>3. CASE GetBlockSpace
    BY Zenon, <2>3, <1>t DEF GetBlockSpace
  <2>4. CASE TranslateBegin
    BY Zenon, <2>4, <1>t DEF TranslateBegin
  <2>5. CASE GetBlockEvict
    BY Zenon, <2>5, <1>t DEF GetBlockEvict
  <2>6. CASE EmitTranslation
    BY Zenon, <2>6, <1>t DEF EmitTranslation
  <2> QED
    BY Zenon, <1>1, <2>1, <2>2, <2>3, <2>4, <2>5, <2>6
<1>2. CASE GetBlockFound
  BY Zenon, <1>2, <1>t DEF GetBlockFound, Goto
<1>3. CASE Enter
  <2>1. UNCHANGED code
    BY Zenon, <1>3 DEF Enter, cacheVars, emitVars
  <2>2. stepping => CurDesc' \notin Loc \/ halt_reason # {}
    <3>1. SingleStep[pc] \notin Loc
      BY Zenon, Locations DEF JitInv
    <3> QED
      BY Zenon, <1>3, <2>1, <3>1 DEF Enter, Goto, CurDesc, JitInv, EntersGuest, Holds
  <2> QED
    BY Zenon, <1>3, <1>t, <2>1, <2>2 DEF Enter, Goto, JitInv, EntersGuest
<1>4. CASE PerformNothing \/ PerformAll
  <2>1. ctl = "perform" /\ ctl' = back /\ back' = "host" /\ hr' = (IF back = "host" THEN hr ELSE {})
        /\ UNCHANGED <<stepping, cont, executed>>
    BY Zenon, <1>4 DEF PerformNothing, PerformAll, Perform
  <2>2. "Step" \in halt_reason' <=> "Step" \in halt_reason
    BY Zenon, <1>4 DEF PerformNothing, PerformAll, Perform, PerformInvalidation
  <2> QED
    BY <1>t, <2>1, <2>2
<1> QED
  BY Zenon, <1>1, <1>2, <1>3, <1>4 DEF LookupStep

(* A single-stepping block links to none, and the dispatcher lets it out.  *)
LEMMA StepCodeKept ==
  ASSUME JitInv, StepInv, BlockStep \/ TermStep \/ ExitStep \/ FastmemFault
  PROVE  StepInv'
<1>t. stepping \in BOOLEAN /\ executed \in 0..2 /\ ctl \in Control
  BY Zenon DEF JitInv, JitTypeOK
<1> USE DEF StepInv, BeforeEntry, Returned, LookingUp, Executing
<1>c. UNCHANGED <<code, cur>> => UNCHANGED CurDesc
  BY Zenon DEF CurDesc
<1>1. CASE BlockStep
  <2>1. UNCHANGED <<CurDesc, stepping, halt_reason, hr>>
    BY Zenon, <1>1, <1>c DEF BlockStep, ConditionFailed, Execute, CallSupervisor, MemoryAbort, cacheVars, emitVars
  <2>2. ctl' \in {"svc", "term", "exit"} /\ ctl \in {"body", "svc"}
    BY Zenon, <1>1 DEF BlockStep, ConditionFailed, Execute, CallSupervisor, MemoryAbort
  <2>3. ASSUME stepping PROVE executed' = 1
    <3>1. CASE ctl = "body"
      <4>1. executed = 0 /\ Executed
        BY Zenon, <1>1, <2>3, <3>1 DEF BlockStep, ConditionFailed, Execute, CallSupervisor, MemoryAbort
      <4> QED
        BY <2>3, <4>1 DEF Executed
    <3>2. CASE ctl = "svc"
      BY Zenon, <1>1, <2>3, <3>2 DEF BlockStep, ConditionFailed, Execute, CallSupervisor, MemoryAbort
    <3> QED
      BY Zenon, <2>2, <3>1, <3>2
  <2> QED
    BY <1>t, <2>1, <2>2, <2>3
<1>2. CASE TermStep
  <2>1. CASE TermCheckHalt \/ TermLinkStop \/ TermInterpret
    <3>1. CASE TermCheckHalt
      BY Zenon, <3>1, <1>t DEF TermCheckHalt
    <3>2. CASE TermLinkStop
      BY Zenon, <3>2, <1>t DEF TermLinkStop
    <3>3. CASE TermInterpret
      BY Zenon, <3>3, <1>t DEF TermInterpret
    <3> QED
      BY Zenon, <2>1, <3>1, <3>2, <3>3
  <2>2. CASE TermLink
    <3>1. stepping => ctl' = "dispatch"
      BY Zenon, <2>2 DEF TermLink, Linked, Goto
    <3>2. ctl' \in {"dispatch", "body"}
      BY Zenon, <2>2 DEF TermLink, Goto
    <3> QED
      BY Zenon, <1>t, <2>2, <3>1, <3>2 DEF TermLink
  <2>3. CASE TermPopRSB \/ TermDispatch
    <3>1. stepping => ctl' = "dispatch"
      BY Zenon, <2>3 DEF TermPopRSB, TermDispatch, FastDispatch, UsesRSB, Goto
    <3>2. ctl' \in {"dispatch", "body", "fast"}
      BY Zenon, <2>3 DEF TermPopRSB, TermDispatch, Goto
    <3>3. CASE TermPopRSB
      BY Zenon, <1>t, <3>1, <3>2, <3>3 DEF TermPopRSB
    <3>4. CASE TermDispatch
      BY Zenon, <1>t, <3>1, <3>2, <3>4 DEF TermDispatch
    <3> QED
      BY Zenon, <2>3, <3>3, <3>4
  <2>4. CASE FastDispatchHandler
    BY Zenon, <1>t, <2>4 DEF FastDispatchHandler, Goto
  <2> QED
    BY Zenon, <1>2, <2>1, <2>2, <2>3, <2>4 DEF TermStep
<1>3. CASE ExitStep
  <2>1. CASE Interpret \/ ForceReturn
    BY <1>t, <2>1 DEF Interpret, ForceReturn
  <2>2. CASE Dispatch
    BY Zenon, <1>t, <2>2 DEF Dispatch, OutOfTime
  <2>3. CASE DispatchExited
    BY Zenon, <1>t, <2>3 DEF DispatchExited, OutOfTime
  <2>4. CASE ReturnToCaller
    BY Zenon, <1>t, <2>4 DEF ReturnToCaller
  <2> QED
    BY Zenon, <1>3, <2>1, <2>2, <2>3, <2>4 DEF ExitStep
<1>4. CASE FastmemFault
  BY Zenon, <1>4, <1>c DEF FastmemFault, InvalidateBasicBlocks, runVars
<1> QED
  BY Zenon, <1>1, <1>2, <1>3, <1>4

(* HaltReason::Step is set only in the middle of a Step, whose block links *)
(* to no other and which counts that one block, as long as nobody halts    *)
(* the JIT with that reason: StepInv is inductive, together with JitInv.   *)
THEOREM JitStepInvariant ==
  ASSUME "Step" \notin HostReasons PROVE JitSpec => []StepInv
<1>1. JitInit => StepInv
  BY Zenon DEF JitInit, StepInv
<1>2. JitInv /\ StepInv /\ [JitNext]_jitVars => StepInv'
  <2> SUFFICES ASSUME JitInv, StepInv, [JitNext]_jitVars PROVE StepInv'
    BY Zenon
  <2>1. CASE JitNext
    BY Zenon, <2>1, NextCases, StepHostKept, StepLookupKept, StepCodeKept DEF ControlStep
  <2>2. CASE UNCHANGED jitVars
    BY Zenon, <2>2 DEF jitVars, cacheVars, emitVars, runVars, StepInv, BeforeEntry, Returned, LookingUp, CurDesc
  <2> QED
    BY Zenon, <2>1, <2>2
<1> QED
  BY <1>1, <1>2, JitInvariant, PTL DEF JitSpec

(* Jit::Step executes one block if it returns Step, and none otherwise, as *)
(* long as nobody halts the JIT with HaltReason::Step.                     *)
THEOREM JitStepIsSingle ==
  ASSUME "Step" \notin HostReasons PROVE JitSpec => []StepIsSingle
<1>1. StepInv => StepIsSingle
  BY Zenon DEF StepInv, StepIsSingle, Returned
<1> QED
  BY <1>1, JitStepInvariant, PTL

----------------------------------------------------------------------------
(* The MXCSR.                                                              *)

(* A run enters and leaves the guest's MXCSR exactly when it enters and    *)
(* leaves the code.  An A32 call out of a block returns to it only when    *)
(* the JIT counts cycles.                                                  *)
LEMMA MxcsrKept ==
  ASSUME JitInv, MxcsrTracked, JitNext, IsA32 => CycleCounting \subseteq {TRUE}
  PROVE  MxcsrTracked'
<1>t. back \in {"pick", "translate", "host"} /\ ctl \in Control /\ counting \in CycleCounting
  BY Zenon DEF JitInv, JitTypeOK
<1>l. cont # "jump" => LookingUp
  BY Zenon DEF JitInv, LookupConsistent
<1>k. UNCHANGED <<mxcsr, InCode>> => MxcsrTracked'
  BY DEF MxcsrTracked
<1> DEFINE host == [reg |-> "host", guest |-> "guest", saved |-> "host"]
           guest == [reg |-> "guest", guest |-> "guest", saved |-> "host"]
<1>n. SwitchMxcsrOnEntry(host) = guest /\ SwitchMxcsrOnExit(guest) = host
  <2> DEFINE Registers == [reg: Mode, guest: Mode, saved: Mode]
  <2>1. /\ host \in Registers /\ host.reg = "host" /\ host.guest = "guest" /\ host.saved = "host"
        /\ guest \in Registers /\ guest.reg = "guest" /\ guest.guest = "guest" /\ guest.saved = "host"
    BY Zenon DEF Mode
  <2>2. ASSUME NEW m \in Registers
        PROVE  /\ m.reg = "host" /\ m.guest = "guest" /\ m.saved = "host" => m = host
               /\ m.reg = "guest" /\ m.guest = "guest" /\ m.saved = "host" => m = guest
    OBVIOUS
  <2> HIDE DEF host, guest
  <2>3. /\ SwitchMxcsrOnEntry(host) \in Registers /\ SwitchMxcsrOnEntry(host).reg = "guest"
        /\ SwitchMxcsrOnEntry(host).guest = "guest" /\ SwitchMxcsrOnEntry(host).saved = "host"
    BY Zenon, <2>1 DEF SwitchMxcsrOnEntry
  <2>4. /\ SwitchMxcsrOnExit(guest) \in Registers /\ SwitchMxcsrOnExit(guest).reg = "host"
        /\ SwitchMxcsrOnExit(guest).guest = "guest" /\ SwitchMxcsrOnExit(guest).saved = "host"
    BY Zenon, <2>1 DEF SwitchMxcsrOnExit
  <2> QED
    BY Zenon, <2>2, <2>3, <2>4
<1>v. MxcsrTracked /\ (InCode' => mxcsr' = guest) /\ (~InCode' => mxcsr' = host) => MxcsrTracked'
  BY Zenon DEF MxcsrTracked
<1>w. (InCode => mxcsr = guest) /\ (~InCode => mxcsr = host)
  BY Zenon DEF MxcsrTracked
<1> HIDE DEF host, guest
<1>e. ~InCode /\ mxcsr' = SwitchMxcsrOnEntry(mxcsr) /\ InCode' => MxcsrTracked'
  BY Zenon, <1>n, <1>v, <1>w
<1>x. InCode /\ mxcsr' = SwitchMxcsrOnExit(mxcsr) /\ ~InCode' => MxcsrTracked'
  BY Zenon, <1>n, <1>v, <1>w
<1> USE DEF InCode, LookingUp, Executing
<1>1. CASE HostStep
  BY <1>1, <1>k DEF HostStep, Run, Step, Begin, SetPC, Reset, hostVars, MxcsrTracked
<1>2. CASE LookupStep
  <2>1. CASE Enter
    BY Zenon, <1>e, <1>k, <1>l, <2>1 DEF Enter, Goto
  <2>2. CASE LookupStep /\ ~Enter
    BY Zenon, <1>k, <1>l, <2>2 DEF LookupStep, PickRSB, PickBlock, GetBlockFound, GetBlockSpace, TranslateBegin, Goto, hostVars
  <2> QED
    BY Zenon, <1>2, <2>1, <2>2
<1>3. CASE BlockStep
  <2>1. CASE CallSupervisor
    <3>1. ctl = "svc" /\ ctl' = "term"
          /\ mxcsr' = (IF IsA32 THEN SwitchMxcsrOnEntry(SwitchMxcsrOnExit(mxcsr)) ELSE mxcsr)
      BY Zenon, <1>t, <2>1 DEF CallSupervisor
    <3>2. SwitchMxcsrOnEntry(SwitchMxcsrOnExit(mxcsr)) = mxcsr
      BY Zenon, <1>n, <1>w, <3>1
    <3> QED
      BY Zenon, <1>k, <3>1, <3>2
  <2>2. CASE BlockStep /\ ~CallSupervisor
    BY Zenon, <1>k, <2>2 DEF BlockStep, ConditionFailed, Execute, MemoryAbort, hostVars
  <2> QED
    BY Zenon, <1>3, <2>1, <2>2
<1>4. CASE TermStep
  <2>1. CASE TermInterpret
    BY Zenon, <1>l, <1>x, <2>1 DEF TermInterpret
  <2>2. CASE TermStep /\ ~TermInterpret
    BY Zenon, <1>k, <2>2 DEF TermStep, TermCheckHalt, TermLink, TermLinkStop, TermPopRSB, TermDispatch,
                      FastDispatchHandler, Goto, hostVars
  <2> QED
    BY Zenon, <1>4, <2>1, <2>2
<1>5. CASE ExitStep
  BY Zenon, <1>5, <1>e, <1>k, <1>l, <1>x
     DEF ExitStep, Interpret, Dispatch, DispatchExited, ForceReturn, ReturnToCaller, hostVars
<1>6. CASE OtherThreads
  BY Zenon, <1>6, <1>k, OthersFrame DEF hostVars, runVars
<1>7. CASE PerformNothing \/ PerformAll
  BY <1>7, <1>k, <1>l, <1>t DEF PerformNothing, PerformAll, Perform, hostVars
<1>8. CASE GetBlockEvict \/ EmitTranslation \/ FastmemFault
  BY Zenon, <1>8, <1>k DEF GetBlockEvict, EmitTranslation, FastmemFault, hostVars, runVars
<1> QED
  BY Zenon, <1>1, <1>2, <1>3, <1>4, <1>5, <1>6, <1>7, <1>8, NextCases DEF ControlStep

(* The register holds the guest's MXCSR from run_code to return_from_run_  *)
(* code and the host's otherwise, with the other of the two saved.         *)
THEOREM JitMxcsrInvariant ==
  ASSUME IsA32 => CycleCounting \subseteq {TRUE} PROVE JitSpec => []MxcsrTracked
<1>1. JitInit => MxcsrTracked
  BY Zenon DEF JitInit, MxcsrTracked, InCode, LookingUp, Executing
<1>2. JitInv /\ MxcsrTracked /\ [JitNext]_jitVars => MxcsrTracked'
  <2> SUFFICES ASSUME JitInv, MxcsrTracked, UNCHANGED jitVars PROVE MxcsrTracked'
    BY Zenon, MxcsrKept
  <2> QED
    BY DEF jitVars, runVars, hostVars, MxcsrTracked, InCode, LookingUp
<1> QED
  BY <1>1, <1>2, JitInvariant, PTL DEF JitSpec

(* Blocks run with the guest's MXCSR, and host code between runs and in an *)
(* interpreter fallback with the host's.                                   *)
THEOREM JitMxcsrSwitched ==
  ASSUME IsA32 => CycleCounting \subseteq {TRUE} PROVE JitSpec => []MxcsrSwitched
<1>1. JitInv /\ MxcsrTracked => MxcsrSwitched
  BY DEF MxcsrTracked, MxcsrSwitched, InCode, LookingUp, Executing, JitInv, LookupConsistent
<1> QED
  BY <1>1, JitInvariant, JitMxcsrInvariant, PTL

----------------------------------------------------------------------------

(* A way to a block is never made but by emitting it: a push stores what   *)
(* its site holds, which is the entry of a compiled block.                 *)
LEMMA ReachPush ==
  ASSUME JitInv, ctl \in Executing, NEW d \in Desc, PushRSB(cur, d), UNCHANGED block_descriptors,
         NEW s \in 1..next - 1, Reachable(s)'
  PROVE  Reachable(s)
<1>1. CASE \E e \in Desc : block_descriptors[e] = s
  BY Zenon, <1>1 DEF Reachable
<1>2. CASE \E i \in RSBIndex : rsb'[i].ptr = s
  <2>1. PICK i \in RSBIndex : rsb'[i].ptr = s
    BY Zenon, <1>2
  <2>2. rsb'[i].ptr \in {rsb[i].ptr, movrcx[cur][d]}
    BY Zenon DEF PushRSB, JitInv, CacheInv, CacheTypeOK
  <2>3. movrcx[cur][d] \in {0, block_descriptors[d]} /\ s # 0
    BY LinkedSite DEF ReturnFromRunCode
  <2> QED
    BY Zenon, <2>1, <2>2, <2>3 DEF Reachable
<1> QED
  BY Zenon, <1>1, <1>2 DEF Reachable

(* So no step of the JIT thread between its calls of the cache makes one.  *)
LEMMA ReachControl ==
  ASSUME JitInv, ControlStep, NEW s \in 1..next - 1, Reachable(s)'
  PROVE  Reachable(s)
<1>b. UNCHANGED block_descriptors
  BY Zenon, ControlFrame DEF emitVars
<1>k. UNCHANGED rsb => Reachable(s)
  BY Zenon, <1>b DEF Reachable
<1> USE DEF cacheVars
<1>1. CASE Reset
  <2>1. \A i \in RSBIndex : rsb'[i].ptr # s
    BY <1>1 DEF Reset, Empty, nullptr
  <2> QED
    BY Zenon, <1>b, <2>1 DEF Reachable
<1>2. CASE Execute
  <2>1. CASE \E d \in CurIR.push \cap code[cur].pushes : PushRSB(cur, d)
    <3>1. PICK d \in CurIR.push : PushRSB(cur, d)
      BY Zenon, <2>1
    <3>2. ctl \in Executing
      BY Zenon, <1>2 DEF Execute, Executing
    <3>3. d \in Desc
      BY Zenon, <3>2, CurrentBlock DEF IR
    <3> QED
      BY Zenon, <1>b, <3>1, <3>2, <3>3, ReachPush
  <2> QED
    BY Zenon, <1>2, <1>k, <2>1 DEF Execute
<1>3. CASE TermLinkStop
  <2>1. CASE PushRSB(cur, term.next)
    <3>1. term.next \in Desc /\ ctl \in Executing
      BY Zenon, <1>3, LocAssumption DEF TermLinkStop, Executing, JitInv, ExecutesBlock, Terminal
    <3> QED
      BY Zenon, <1>b, <2>1, <3>1, ReachPush
  <2> QED
    BY Zenon, <1>3, <1>k, <2>1 DEF TermLinkStop
<1>4. CASE (HostStep /\ ~Reset) \/ LookupStep \/ PerformNothing
  BY Zenon, <1>4, <1>k DEF HostStep, Run, Step, Begin, SetPC, LookupStep, PickRSB, PickBlock, GetBlockFound,
                    GetBlockSpace, TranslateBegin, Enter, PerformNothing
<1>5. CASE (BlockStep /\ ~Execute) \/ (TermStep /\ ~TermLinkStop)
  BY Zenon, <1>5, <1>k DEF BlockStep, ConditionFailed, CallSupervisor, MemoryAbort, TermStep, TermCheckHalt, TermLink,
                    TermPopRSB, TermDispatch, FastDispatchHandler, TermInterpret
<1>6. CASE ExitStep
  BY Zenon, <1>6, <1>k DEF ExitStep, Interpret, Dispatch, DispatchExited, ForceReturn, ReturnToCaller
<1> QED
  BY Zenon, <1>1, <1>2, <1>3, <1>4, <1>5, <1>6 DEF ControlStep

(* Erasing blocks makes no way to one. *)
LEMMA ReachErase ==
  ASSUME NEW ds, InvalidateBasicBlocks(ds), ResetRSB \/ UNCHANGED rsb,
         NEW s \in 1..next - 1, Reachable(s)', next \in Nat
  PROVE  Reachable(s)
<1>1. s # 0 /\ s # nullptr
  BY DEF nullptr
<1>2. \A d \in Desc : block_descriptors'[d] \in {0, block_descriptors[d]}
  BY Zenon DEF InvalidateBasicBlocks
<1>3. \A i \in RSBIndex : rsb'[i].ptr \in {nullptr, rsb[i].ptr}
  BY DEF ResetRSB, Empty
<1> QED
  BY Zenon, <1>1, <1>2, <1>3 DEF Reachable

(* PerformRequestedCacheInvalidation leaves no way to what was published.  *)
LEMMA Performed ==
  ASSUME JitInv, ReachableIsPending, PerformAll,
         NEW v \in published, NEW s \in 1..next' - 1, Reachable(s)', Stale(s, v)'
  PROVE  FALSE
<1>1. CASE NothingRequested /\ UNCHANGED <<cacheVars, src>>
  <2>1. Reachable(s) /\ Stale(s, v) /\ s \in 1..next - 1
    BY Zenon, <1>1 DEF cacheVars, Reachable, Stale
  <2> QED
    BY Zenon, <1>1, <2>1 DEF ReachableIsPending, Queued, NothingRequested
<1>2. CASE InvalidateAll
  BY <1>2 DEF InvalidateAll, ClearBlocks
<1>3. CASE ~invalidate_entire_cache /\ InvalidateRanges(invalid_cache_ranges) /\ UNCHANGED src
  <2>1. InvalidateBasicBlocks(InRanges(invalid_cache_ranges)) /\ ResetRSB
    BY Zenon, <1>3 DEF InvalidateRanges
  <2>2. UNCHANGED <<next, code, block_ranges>> /\ next \in Nat
    BY Zenon, <2>1, Slots DEF InvalidateBasicBlocks, JitInv
  <2>3. s \in 1..next - 1 /\ Stale(s, v) /\ Reachable(s)
    BY Zenon, <1>3, <2>1, <2>2, ReachErase DEF Stale
  <2>4. Written[v] \in invalid_cache_ranges /\ Written[v] \in code[s].cover
    BY Zenon, <1>3, <2>3 DEF ReachableIsPending, Queued, Stale
  <2>5. \A i \in RSBIndex : rsb'[i].ptr # s
    BY <2>1, <2>3 DEF ResetRSB, Empty, nullptr
  <2>6. PICK d \in Desc : block_descriptors'[d] = s
    BY Zenon, <2>5 DEF Reachable
  <2>7. block_descriptors[d] = s /\ ~(d \in InRanges(invalid_cache_ranges) /\ Compiled(d)) /\ s # 0
    BY <2>1, <2>3, <2>6 DEF InvalidateBasicBlocks
  <2>8. <<d, Written[v]>> \in block_ranges
    BY Zenon, <2>4, <2>7 DEF JitInv, CacheInv, RangesCover, Compiled
  <2> QED
    BY Zenon, <2>4, <2>7, <2>8 DEF InRanges, Compiled
<1> QED
  BY Zenon, <1>1, <1>2, <1>3 DEF PerformAll, PerformInvalidation

(* A halt that is due stays due until it is served; only Reset drops it.   *)
LEMMA HaltControl == ASSUME JitInv, ControlStep, ~Reset, HaltDue PROVE HaltDue'
<1>1. CASE HostStep \/ PerformNothing
  BY Zenon, <1>1 DEF HostStep, Run, Step, Begin, SetPC, PerformNothing, Perform, HaltDue
<1>2. CASE LookupStep
  BY Zenon, <1>2 DEF LookupStep, PickRSB, PickBlock, GetBlockFound, GetBlockSpace, TranslateBegin, Enter, HaltDue
<1>3. CASE BlockStep
  BY Zenon, <1>3 DEF BlockStep, ConditionFailed, Execute, CallSupervisor, MemoryAbort, HaltDue
<1>4. CASE TermStep
  BY Zenon, <1>4 DEF TermStep, TermCheckHalt, TermLink, TermLinkStop, TermPopRSB, TermDispatch, FastDispatchHandler,
              TermInterpret, HaltDue
<1>5. CASE ExitStep
  BY Zenon, <1>5 DEF ExitStep, Interpret, Dispatch, DispatchExited, ForceReturn, ReturnToCaller, HaltDue
<1> QED
  BY Zenon, <1>1, <1>2, <1>3, <1>4, <1>5 DEF ControlStep

----------------------------------------------------------------------------
(* The four parts of FreshInv.                                             *)

(* What a step leaves of the blocks it does not emit or drop. *)
LEMMA StaleKept ==
  ASSUME UNCHANGED <<code, src>>, NEW s, NEW v PROVE Stale(s, v)' <=> Stale(s, v)
BY Zenon DEF Stale

(* An emitted block is no older than what was asked before it was begun.   *)
LEMMA EmittedFresh ==
  ASSUME JitInv, TranslationCurrent, EmitTranslation,
         NEW s \in 1..next' - 1, NEW v \in published
  PROVE  /\ s = next => (Stale(s, v)' => v > lo)
         /\ s # next => s \in 1..next - 1 /\ (Stale(s, v)' <=> Stale(s, v))
         /\ s # next /\ Reachable(s)' => Reachable(s)
         /\ UNCHANGED rsb
<1>1. PICK w \in lo..mem :
        /\ w \in Version /\ BlockOf(Want, Translate[Want][w]).desc = Want
        /\ EmitBlock(BlockOf(Want, Translate[Want][w])) /\ src' = [src EXCEPT ![next] = w]
  BY Zenon, Emitted
<1>2. ctl = "emit" /\ ~Full /\ next \in Slot /\ next \in Nat
  BY Zenon, Slots DEF EmitTranslation, JitInv, LookupConsistent
<1>3. next' = next + 1 /\ code' = [code EXCEPT ![next] = BlockOf(Want, Translate[Want][w])]
      /\ block_descriptors' = [block_descriptors EXCEPT ![Want] = next] /\ UNCHANGED rsb
  BY Zenon, <1>1 DEF EmitBlock
<1>4. code \in [Slot -> Block \cup {NoBlock}] /\ src \in [Slot -> Version] /\ src' \in [Slot -> Version]
      /\ block_descriptors \in [Desc -> Slot \cup {0}] /\ v \in Nat /\ lo \in Nat /\ w \in Nat
  <2>1. code \in [Slot -> Block \cup {NoBlock}] /\ src \in [Slot -> Version] /\ block_descriptors \in [Desc -> Slot \cup {0}]
    BY DEF JitInv, JitTypeOK, CacheTypeOK
  <2>2. v \in Nat /\ lo \in Nat /\ Version \subseteq Nat
    BY Zenon, Versions DEF JitInv
  <2>3. w \in Version /\ w \in Nat
    BY Zenon, <1>1, <2>2
  <2>4. src' \in [Slot -> Version]
    BY Zenon, <1>1, <2>1, <2>3
  <2> QED
    BY Zenon, <2>1, <2>2, <2>3, <2>4
<1>5. ASSUME s = next, Stale(s, v)' PROVE v > lo
  <2>1. src'[s] = w
    BY Zenon, <1>1, <1>2, <1>4, <1>5
  <2>2. v > w
    BY Zenon, <1>5, <2>1 DEF Stale
  <2> QED
    BY <1>4, <2>2, Versions DEF JitInv
<1>6. ASSUME s # next PROVE s \in 1..next - 1 /\ (Stale(s, v)' <=> Stale(s, v))
  <2>1. s \in 1..next - 1
    BY <1>2, <1>3, <1>6
  <2>2. src'[s] = src[s] /\ code'[s] = code[s]
    BY <1>1, <1>3, <1>4, <1>6
  <2> QED
    BY Zenon, <2>1, <2>2 DEF Stale
<1>7. ASSUME s # next, Reachable(s)' PROVE Reachable(s)
  BY Zenon, <1>3, <1>4, <1>7 DEF Reachable
<1> QED
  BY Zenon, <1>3, <1>5, <1>6, <1>7

(* What is stale and can be reached is queued, and its halt is due.        *)
LEMMA PendingKept ==
  ASSUME JitInv, FreshInv, JitNext, ~Reset PROVE ReachableIsPending'
<1> SUFFICES ASSUME NEW v \in published', NEW s \in 1..next' - 1, Reachable(s)', Stale(s, v)'
             PROVE  Queued(v)' /\ HaltDue'
  BY Zenon DEF ReachableIsPending
<1>1. CASE ControlStep
  <2>1. UNCHANGED <<next, code, src, published, invalid_cache_ranges, invalidate_entire_cache>>
    BY Zenon, <1>1, ControlFrame DEF emitVars, requestVars
  <2>2. Reachable(s) /\ Stale(s, v)
    BY Zenon, <1>1, <2>1, ReachControl, StaleKept
  <2>3. Queued(v) /\ HaltDue
    BY Zenon, <2>1, <2>2 DEF FreshInv, ReachableIsPending
  <2> QED
    BY Zenon, <1>1, <2>1, <2>3, HaltControl DEF Queued
<1>2. CASE OtherThreads
  <2>1. UNCHANGED <<next, code, src, ctl, hr, rsb, block_descriptors>>
    BY Zenon, <1>2, OthersFrame DEF cacheVars, emitVars, runVars, translateVars
  <2>2. Reachable(s) /\ Stale(s, v)
    BY Zenon, <2>1, StaleKept DEF Reachable
  <2>3. CASE v \in published
    <3>1. Queued(v) /\ HaltDue
      BY Zenon, <2>1, <2>2, <2>3 DEF FreshInv, ReachableIsPending
    <3>2. Queued(v)' /\ halt_reason \subseteq halt_reason'
      BY Zenon, <1>2, <2>3, <3>1, OthersRequests
    <3> QED
      BY Zenon, <2>1, <3>1, <3>2 DEF HaltDue
  <2>4. CASE v \notin published
    BY Zenon, <1>2, <2>4, OthersRequests DEF HaltDue
  <2> QED
    BY Zenon, <2>3, <2>4
<1>3. CASE PerformAll
  <2>1. v \in published
    BY Zenon, <1>3 DEF PerformAll, Perform
  <2> QED
    BY Zenon, <1>3, <2>1, Performed DEF FreshInv
<1>4. CASE GetBlockEvict
  BY Zenon, <1>4 DEF GetBlockEvict, Queued, HaltDue
<1>5. CASE EmitTranslation
  <2>1. UNCHANGED <<published, invalid_cache_ranges, invalidate_entire_cache, halt_reason, hr>> /\ ctl = "emit"
    BY Zenon, <1>5 DEF EmitTranslation, requestVars
  <2>2. Queued(v) /\ "CacheInvalidation" \in halt_reason
    BY Zenon, <1>5, <2>1, EmittedFresh DEF FreshInv, ReachableIsPending, TranslationCurrent, HaltDue
  <2> QED
    BY Zenon, <2>1, <2>2 DEF Queued, HaltDue
<1>6. CASE FastmemFault
  <2>1. UNCHANGED <<rsb, next, code, src, published, invalid_cache_ranges, invalidate_entire_cache, ctl, hr, halt_reason>>
        /\ InvalidateBasicBlocks({CurDesc})
    BY Zenon, <1>6 DEF FastmemFault, InvalidateBasicBlocks, requestVars, runVars
  <2>2. Reachable(s) /\ Stale(s, v)
    BY Zenon, <2>1, ReachErase, StaleKept, Slots DEF JitInv
  <2> QED
    BY Zenon, <2>1, <2>2 DEF FreshInv, ReachableIsPending, Queued, HaltDue
<1> QED
  BY Zenon, <1>1, <1>2, <1>3, <1>4, <1>5, <1>6, NextCases

(* Only TranslateBegin comes to Emit. *)
LEMMA TranslationKept ==
  ASSUME JitInv, FreshInv, JitNext PROVE TranslationCurrent'
<1> SUFFICES ASSUME ctl' = "emit"
             PROVE  /\ \A v \in floor' : v <= lo'
                    /\ \A v \in published' : v > lo' => Queued(v)' /\ "CacheInvalidation" \in halt_reason'
  BY Zenon DEF TranslationCurrent
<1>1. CASE TranslateBegin
  <2>1. UNCHANGED <<floor, published>> /\ lo' = mem
    BY Zenon, <1>1 DEF TranslateBegin, requestVars
  <2>2. published \subseteq 1..mem /\ floor \subseteq published /\ mem \in Nat
    BY Zenon, Versions DEF JitInv, RequestsQueued
  <2>3. \A v \in published : v <= mem /\ ~(v > mem)
    BY <2>2
  <2> QED
    BY Zenon, <2>1, <2>2, <2>3
<1>2. CASE OtherThreads
  <2>1. UNCHANGED <<ctl, floor, lo>>
    BY Zenon, <1>2, OthersFrame DEF runVars, translateVars
  <2>2. TranslationCurrent
    BY Zenon DEF FreshInv
  <2>3. ASSUME NEW v \in published', v > lo' PROVE Queued(v)' /\ "CacheInvalidation" \in halt_reason'
    BY Zenon, <1>2, <2>1, <2>2, <2>3, OthersRequests DEF TranslationCurrent
  <2> QED
    BY Zenon, <2>1, <2>2, <2>3 DEF TranslationCurrent
<1>3. ~HostStep /\ ~(LookupStep /\ ~TranslateBegin) /\ ~GetBlockEvict /\ ~EmitTranslation
  BY DEF HostStep, Run, Step, Begin, SetPC, Reset, LookupStep, PickRSB, PickBlock, GetBlockFound, GetBlockSpace,
         Enter, Goto, GetBlockEvict, EmitTranslation
<1>4. ~BlockStep /\ ~TermStep
  BY Zenon DEF BlockStep, ConditionFailed, Execute, CallSupervisor, MemoryAbort, TermStep, TermCheckHalt, TermLink,
         TermLinkStop, TermPopRSB, TermDispatch, FastDispatchHandler, TermInterpret, Goto
<1>5. ~ExitStep /\ ~PerformNothing /\ ~PerformAll /\ ~FastmemFault
  BY Zenon DEF ExitStep, Interpret, Dispatch, DispatchExited, ForceReturn, ReturnToCaller, PerformNothing, PerformAll,
         Perform, FastmemFault, runVars, JitInv, JitTypeOK
<1> QED
  BY Zenon, <1>1, <1>2, <1>3, <1>4, <1>5, NextCases DEF ControlStep

(* Only Run and Step come to the invalidation before the first block. *)
LEMMA FloorKept ==
  ASSUME JitInv, FreshInv, JitNext PROVE FloorPending'
<1> SUFFICES ASSUME ctl' = "perform", back' = "pick",
                    NEW v \in floor', NEW s \in 1..next' - 1, Reachable(s)', Stale(s, v)'
             PROVE  "CacheInvalidation" \in hr'
  BY Zenon DEF FloorPending
<1>1. CASE Run \/ Step
  <2>1. ctl = "host" /\ UNCHANGED <<rsb, block_descriptors, next, code, src>> /\ floor' = published /\ hr' = halt_reason
    BY Zenon, <1>1 DEF Run, Step, Begin, cacheVars, emitVars, translateVars
  <2>2. Reachable(s) /\ Stale(s, v)
    BY Zenon, <2>1, StaleKept DEF Reachable
  <2> QED
    BY Zenon, <2>1, <2>2 DEF FreshInv, ReachableIsPending, HaltDue
<1>2. CASE OtherThreads
  <2>1. UNCHANGED <<next, code, src, ctl, back, hr, rsb, block_descriptors, floor>>
    BY Zenon, <1>2, OthersFrame DEF cacheVars, emitVars, runVars, translateVars
  <2>2. Reachable(s) /\ Stale(s, v)
    BY Zenon, <2>1, StaleKept DEF Reachable
  <2> QED
    BY Zenon, <2>1, <2>2 DEF FreshInv, FloorPending
<1>3. ~SetPC /\ ~Reset /\ ~LookupStep /\ ~GetBlockEvict /\ ~EmitTranslation
  BY Zenon DEF SetPC, Reset, LookupStep, PickRSB, PickBlock, GetBlockFound, GetBlockSpace, TranslateBegin,
         Enter, Goto, GetBlockEvict, EmitTranslation
<1>4. ~BlockStep /\ ~TermStep
  BY Zenon DEF BlockStep, ConditionFailed, Execute, CallSupervisor, MemoryAbort, TermStep, TermCheckHalt, TermLink,
         TermLinkStop, TermPopRSB, TermDispatch, FastDispatchHandler, TermInterpret, Goto
<1>5. ~ExitStep /\ ~PerformNothing /\ ~PerformAll /\ ~FastmemFault
  BY Zenon DEF ExitStep, Interpret, Dispatch, DispatchExited, ForceReturn, ReturnToCaller, PerformNothing, PerformAll,
         Perform, FastmemFault, runVars
<1> QED
  BY Zenon, <1>1, <1>2, <1>3, <1>4, <1>5, NextCases DEF ControlStep, HostStep

(* What the JIT thread takes up next it could already reach. *)
LEMMA HeldControl ==
  ASSUME JitInv, ControlStep, InRun, InRun', NEW s \in 1..next - 1, Held(s)'
  PROVE  Held(s)
<1>s. s # ReturnFromRunCode
  BY DEF ReturnFromRunCode
<1>r. Reachable(s)' => Held(s)
  BY Zenon, ReachControl DEF Held
<1> USE DEF Held, Executing
<1>1. CASE LookupStep
  <2>1. CASE PickRSB
    <3>1. ptr' = s => rsb[RSBTop].ptr = s /\ RSBTop \in RSBIndex
      BY <2>1, SizeAssumption DEF PickRSB, JitInv, CacheInv, CacheTypeOK, RSBIndex, RSBTop
    <3> QED
      BY Zenon, <1>r, <2>1, <3>1 DEF PickRSB, Reachable
  <2>2. CASE GetBlockFound
    <3>1. Want \in Desc
      BY Zenon, Locations DEF JitInv
    <3> QED
      BY Zenon, <1>r, <2>2, <3>1 DEF GetBlockFound, Goto, Reachable
  <2>3. CASE Enter
    BY Zenon, <1>r, <1>s, <2>3 DEF Enter, Goto
  <2>4. CASE PickBlock \/ GetBlockSpace \/ TranslateBegin
    BY Zenon, <1>r, <2>4 DEF PickBlock, GetBlockSpace, TranslateBegin
  <2> QED
    BY Zenon, <1>1, <2>1, <2>2, <2>3, <2>4 DEF LookupStep
<1>2. CASE BlockStep
  BY Zenon, <1>2, <1>r DEF BlockStep, ConditionFailed, Execute, CallSupervisor, MemoryAbort
<1>3. CASE TermStep
  <2>1. CASE TermLink
    <3>1. term.next \in Desc /\ ctl \in Executing
      BY Zenon, <2>1, LocAssumption DEF TermLink, JitInv, ExecutesBlock, Terminal
    <3>2. cur' = s => block_descriptors[term.next] = s
      <4>1. jump[cur][term.next] \in {ReturnFromRunCode, block_descriptors[term.next]}
        BY Zenon, <3>1, LinkedSite
      <4> QED
        BY <1>s, <2>1, <4>1 DEF TermLink, Goto
    <3> QED
      BY Zenon, <1>r, <2>1, <3>1, <3>2 DEF TermLink, Goto, Reachable
  <2>2. CASE TermPopRSB
    <3>1. RSBTop \in RSBIndex
      BY SizeAssumption DEF JitInv, CacheInv, CacheTypeOK, RSBIndex, RSBTop
    <3> QED
      BY Zenon, <1>r, <1>s, <2>2, <3>1 DEF TermPopRSB, Goto, Reachable
  <2>3. CASE FastDispatchHandler
    <3>1. pc \in Desc /\ ~LookingUp
      BY Zenon, <2>3, Locations DEF JitInv, FastDispatchHandler, LookingUp
    <3>2. FastHit(pc) => fast_dispatch_table[Hash[pc]].ptr = block_descriptors[pc]
      BY Zenon, <3>1, Dispatched
    <3> QED
      BY Zenon, <1>r, <1>s, <2>3, <3>1, <3>2 DEF FastDispatchHandler, Goto, Reachable
  <2>4. CASE TermCheckHalt \/ TermLinkStop \/ TermDispatch \/ TermInterpret
    BY Zenon, <1>r, <1>s, <2>4 DEF TermCheckHalt, TermLinkStop, TermDispatch, TermInterpret, Goto
  <2> QED
    BY Zenon, <1>3, <2>1, <2>2, <2>3, <2>4 DEF TermStep
<1>4. CASE ExitStep
  BY Zenon, <1>4, <1>r DEF ExitStep, Interpret, Dispatch, DispatchExited, ForceReturn, ReturnToCaller
<1>5. ~HostStep /\ ~PerformNothing
  BY Zenon DEF HostStep, Run, Step, SetPC, Reset, Begin, PerformNothing, Perform, InRun, JitInv, LookupConsistent
<1> QED
  BY Zenon, <1>1, <1>2, <1>3, <1>4, <1>5 DEF ControlStep

(* Nothing a run can come to is older than the invalidations before it.    *)
LEMMA RunFreshKept ==
  ASSUME JitInv, FreshInv, JitNext PROVE RunFresh'
<1> SUFFICES ASSUME InRun', NEW v \in floor', NEW s \in 1..next' - 1, Held(s)', Stale(s, v)'
             PROVE  FALSE
  BY Zenon DEF RunFresh
<1>f. floor \subseteq published
  BY Zenon DEF JitInv, RequestsQueued
<1>o. ASSUME InRun, v \in floor, s \in 1..next - 1, Held(s), Stale(s, v) PROVE FALSE
  BY Zenon, <1>o DEF FreshInv, RunFresh
<1>1. CASE ControlStep
  <2>1. UNCHANGED <<next, code, src>>
    BY Zenon, <1>1, ControlFrame DEF emitVars
  <2>2. Stale(s, v)
    BY Zenon, <2>1, StaleKept
  <2>3. CASE InRun
    <3>1. UNCHANGED floor
      BY Zenon, <1>1, <2>3 DEF ControlStep, HostStep, Run, Step, SetPC, Reset, Begin, LookupStep, PickRSB, PickBlock,
           GetBlockFound, GetBlockSpace, TranslateBegin, Enter, BlockStep, ConditionFailed, Execute, CallSupervisor,
           MemoryAbort, TermStep, TermCheckHalt, TermLink, TermLinkStop, TermPopRSB, TermDispatch,
           FastDispatchHandler, TermInterpret, ExitStep, Interpret, Dispatch, DispatchExited, ForceReturn,
           ReturnToCaller, PerformNothing, Perform, InRun
    <3> QED
      BY Zenon, <1>o, <1>1, <2>1, <2>2, <2>3, <3>1, HeldControl
  <2>4. CASE ~InRun
    <3>1. ctl = "host" => HostStep
      BY Zenon, <1>1 DEF ControlStep, LookupStep, PickRSB, PickBlock,
           GetBlockFound, GetBlockSpace, TranslateBegin, Enter, BlockStep, ConditionFailed, Execute, CallSupervisor,
           MemoryAbort, TermStep, TermCheckHalt, TermLink, TermLinkStop, TermPopRSB, TermDispatch,
           FastDispatchHandler, TermInterpret, ExitStep, Interpret, Dispatch, DispatchExited, ForceReturn,
           ReturnToCaller, PerformNothing, Perform
    <3>2. ctl = "host" => FALSE
      BY Zenon, <3>1 DEF HostStep, Run, Step, SetPC, Reset, Begin, InRun
    <3>3. ctl = "perform" /\ back # "translate"
      BY Zenon, <2>4, <3>2 DEF InRun
    <3>4. PerformNothing
      BY Zenon, <1>1, <3>3 DEF ControlStep, HostStep, Run, Step, SetPC, Reset, Begin, LookupStep, PickRSB, PickBlock,
           GetBlockFound, GetBlockSpace, TranslateBegin, Enter, BlockStep, ConditionFailed, Execute, CallSupervisor,
           MemoryAbort, TermStep, TermCheckHalt, TermLink, TermLinkStop, TermPopRSB, TermDispatch,
           FastDispatchHandler, TermInterpret, ExitStep, Interpret, Dispatch, DispatchExited, ForceReturn,
           ReturnToCaller
    <3>5. ctl' = "pick" /\ back = "pick" /\ UNCHANGED floor /\ "CacheInvalidation" \notin hr
      BY Zenon, <3>3, <3>4 DEF PerformNothing, Perform, InRun, JitInv, JitTypeOK
    <3>6. Reachable(s)
      BY Zenon, <1>1, <2>1, <3>5, ReachControl DEF Held, Executing
    <3> QED
      BY Zenon, <2>1, <2>2, <3>3, <3>5, <3>6 DEF FreshInv, FloorPending
  <2> QED
    BY Zenon, <2>3, <2>4
<1>2. CASE OtherThreads
  <2>1. UNCHANGED <<next, code, src, ctl, back, ptr, cur, rsb, block_descriptors, floor>>
    BY Zenon, <1>2, OthersFrame DEF cacheVars, emitVars, runVars, translateVars
  <2> QED
    BY Zenon, <1>o, <2>1, StaleKept DEF InRun, Held, Reachable
<1>3. CASE PerformAll
  <2>1. UNCHANGED floor /\ ctl' \in {"pick", "translate"}
    BY Zenon, <1>3 DEF PerformAll, Perform, InRun, JitInv, JitTypeOK
  <2>2. Reachable(s)' /\ v \in published
    BY <1>f, <2>1 DEF Held, Executing
  <2> QED
    BY Zenon, <1>3, <2>2, Performed DEF FreshInv
<1>4. CASE GetBlockEvict
  <2>1. UNCHANGED <<next, code, src, ptr, cur, rsb, block_descriptors, floor>> /\ ctl = "lookup" /\ ctl' = "perform"
    BY Zenon, <1>4 DEF GetBlockEvict, cacheVars, emitVars, translateVars
  <2> QED
    BY Zenon, <1>o, <2>1, StaleKept DEF InRun, Held, Reachable, Executing
<1>5. CASE EmitTranslation
  <2>1. UNCHANGED floor /\ ctl = "emit" /\ ctl' = "lookup"
    BY Zenon, <1>5 DEF EmitTranslation
  <2>2. Reachable(s)' /\ v \in published /\ v <= lo /\ v \in Nat /\ lo \in Nat
    BY Zenon, <1>f, <2>1, Versions DEF Held, Executing, FreshInv, TranslationCurrent, JitInv
  <2>3. s # next /\ s \in 1..next - 1 /\ Stale(s, v) /\ Reachable(s)
    BY <1>5, <2>2, EmittedFresh DEF FreshInv
  <2> QED
    BY Zenon, <1>o, <2>1, <2>3 DEF InRun, Held
<1>6. CASE FastmemFault
  <2>1. UNCHANGED <<rsb, next, code, src, ctl, back, ptr, cur, floor>> /\ ctl = "body" /\ InvalidateBasicBlocks({CurDesc})
    BY Zenon, <1>6 DEF FastmemFault, InvalidateBasicBlocks, runVars
  <2>2. Reachable(s)' => Reachable(s)
    BY Zenon, <2>1, ReachErase, Slots DEF JitInv
  <2> QED
    BY Zenon, <1>o, <2>1, <2>2, StaleKept DEF InRun, Held
<1> QED
  BY Zenon, <1>1, <1>2, <1>3, <1>4, <1>5, <1>6, NextCases

(* All blocks older than a finished invalidation that a run could reach    *)
(* are queued for removal or gone before the run picks a block: FreshInv   *)
(* is inductive, together with JitInv, while nobody calls Reset.           *)
THEOREM JitFreshInvariant ==
  ASSUME "Reset" \notin HostCalls PROVE JitSpec => []FreshInv
<1>1. JitInit => FreshInv
  BY Zenon DEF JitInit, FreshInv, ReachableIsPending, TranslationCurrent, FloorPending, RunFresh, InRun
<1>2. JitInv /\ FreshInv /\ [JitNext]_jitVars => FreshInv'
  <2> SUFFICES ASSUME JitInv, FreshInv, [JitNext]_jitVars PROVE FreshInv'
    BY Zenon
  <2>1. CASE JitNext
    <3>1. ~Reset
      BY DEF Reset
    <3> QED
      BY Zenon, <2>1, <3>1, PendingKept, TranslationKept, FloorKept, RunFreshKept DEF FreshInv
  <2>2. CASE UNCHANGED jitVars
    BY Zenon, <2>2 DEF jitVars, cacheVars, emitVars, runVars, hostVars, requestVars, translateVars, FreshInv,
                ReachableIsPending, TranslationCurrent, FloorPending, RunFresh, InRun, Held, Reachable,
                Stale, Queued, HaltDue
  <2> QED
    BY Zenon, <2>1, <2>2
<1> QED
  BY <1>1, <1>2, JitInvariant, PTL DEF JitSpec

(* InvalidateCacheRange and ClearCache lose no request: a compiled block   *)
(* older than a finished request is queued, and the halt is due.           *)
THEOREM JitLosesNoInvalidation ==
  ASSUME "Reset" \notin HostCalls PROVE JitSpec => []StaleIsPending
<1>1. JitInv /\ FreshInv => StaleIsPending
  <2> SUFFICES ASSUME JitInv, FreshInv, NEW v \in published, NEW d \in Desc,
                      Compiled(d), Stale(block_descriptors[d], v)
               PROVE  Queued(v) /\ HaltDue
    BY Zenon DEF StaleIsPending, Queued, HaltDue
  <2>1. block_descriptors[d] \in 1..next - 1
    BY Zenon, Found DEF Holds
  <2> QED
    BY <2>1 DEF FreshInv, ReachableIsPending, Reachable
<1> QED
  BY <1>1, JitInvariant, JitFreshInvariant, PTL

(* No block Run or Step executes is older than an invalidation finished    *)
(* before the call, whichever way the run came to it.                      *)
THEOREM JitRunsFreshCode ==
  ASSUME "Reset" \notin HostCalls PROVE JitSpec => []RunSeesInvalidations
<1>1. JitInv /\ FreshInv => RunSeesInvalidations
  BY Zenon DEF RunSeesInvalidations, FreshInv, RunFresh, InRun, Held, Executing, JitInv, ExecutesBlock
<1> QED
  BY <1>1, JitInvariant, JitFreshInvariant, PTL

----------------------------------------------------------------------------
(* The run loop executes the guest's program.                              *)

(* The location of a descriptor. *)
LEMMA Bases ==
  /\ \A l \in Loc : Base(l) = l /\ Base(SingleStep[l]) = l
  /\ \A d \in Desc : Base(d) \in Loc /\ d \in {Base(d), SingleStep[Base(d)]}
<1>1. ASSUME NEW l \in Loc PROVE Base(l) = l /\ Base(SingleStep[l]) = l
  <2>1. SingleStep[l] \notin Loc
    BY Zenon, LocAssumption
  <2>2. \A k \in Loc : SingleStep[k] = SingleStep[l] => k = l
    BY Zenon, LocAssumption
  <2>3. (CHOOSE k \in Loc : SingleStep[k] = SingleStep[l]) = l
    BY Zenon, <2>2
  <2> QED
    BY Zenon, <2>1, <2>3 DEF Base
<1>2. ASSUME NEW d \in Desc PROVE Base(d) \in Loc /\ d \in {Base(d), SingleStep[Base(d)]}
  BY <1>1, LocAssumption
<1> QED
  BY Zenon, <1>1, <1>2

(* The end of the block being executed, for the guest. *)
LEMMA BlockExecuted ==
  ASSUME JitInv, RunFresh, ctl = "body", GuestLoc' \in Guest!Successors(CurIR),
         GuestWhere' \in {"between", "host"}, UNCHANGED <<mem, published, floor>>
  PROVE  Guest!ExecuteBlock
<1>1. cur \in 1..next - 1 /\ cur \in Slot /\ CurDesc \in Desc /\ code[cur].cover = CurIR.cover /\ src[cur] <= mem
  <2>1. /\ cur \in 1..next - 1 /\ cur \in Slot /\ CurDesc \in Desc /\ src[cur] <= mem
        /\ code[cur] = BlockOf(CurDesc, CurIR)
    BY Zenon, CurrentBlock DEF Executing
  <2>2. BlockOf(CurDesc, CurIR).cover = CurIR.cover
    BY Zenon DEF BlockOf
  <2> QED
    BY Zenon, <2>1, <2>2
<1>2. src[cur] \in 0..mem
  <2>1. src[cur] \in Nat /\ mem \in Nat
    BY Zenon, <1>1, Versions DEF JitInv
  <2>2. PICK n : n = src[cur]
    BY Zenon
  <2>3. n \in Nat /\ n <= mem
    BY Zenon, <1>1, <2>1, <2>2
  <2>4. n \in 0..mem
    BY <2>1, <2>3
  <2> QED
    BY Zenon, <2>2, <2>4
<1>3. Guest!Visible(CurDesc, src[cur])
  <2> SUFFICES ASSUME NEW w \in floor, ~(w <= src[cur])
               PROVE  Written[w] \notin Translate[CurDesc][src[cur]].cover
    BY Zenon DEF Guest!Visible
  <2>1. w \in Nat /\ src[cur] \in Nat
    BY Zenon, <1>1, Versions DEF JitInv
  <2>2. ~Stale(cur, w)
    BY Zenon, <1>1 DEF RunFresh, InRun, Held, Executing
  <2>3. w > src[cur]
    BY <2>1
  <2> QED
    BY Zenon, <1>1, <2>2, <2>3 DEF Stale, CurIR
<1>4. GuestLoc = Base(CurDesc) /\ GuestWhere = "block"
  BY Zenon DEF GuestLoc, GuestWhere
<1>5. CurDesc \in {GuestLoc, SingleStep[GuestLoc]}
  BY Zenon, <1>1, <1>4, Bases
<1> QED
  BY Zenon, <1>1, <1>2, <1>3, <1>4, <1>5 DEF Guest!ExecuteBlock, CurIR

(* A jump to a block of where the guest is. *)
LEMMA GotoGuest ==
  ASSUME NEW p, NEW d \in Desc, Goto(p), UNCHANGED <<code, mem, published, floor>>,
         GuestWhere = "between", GuestLoc = Base(d),
         p = ReturnFromRunCode => pc' = GuestLoc,
         p # ReturnFromRunCode => code[p].desc = d
  PROVE  [Guest!GuestNext]_(Guest!guestVars)
<1>1. CASE p = ReturnFromRunCode
  <2>1. GuestLoc' = GuestLoc /\ GuestWhere' = GuestWhere
    BY Zenon, <1>1 DEF Goto, GuestLoc, GuestWhere
  <2> QED
    BY <2>1 DEF Guest!guestVars
<1>2. CASE p # ReturnFromRunCode
  <2>1. ctl' = "body" /\ CurDesc' = d
    BY Zenon, <1>2 DEF Goto, CurDesc
  <2>2. GuestLoc' = GuestLoc /\ GuestWhere' = "block"
    BY Zenon, <2>1 DEF GuestLoc, GuestWhere, Base
  <2> QED
    BY Zenon, <2>2 DEF Guest!BeginBlock, Guest!GuestNext
<1> QED
  BY Zenon, <1>1, <1>2

(* The host, and the steps up to the first block. *)
LEMMA StartGuest ==
  ASSUME JitInv, HostStep \/ LookupStep \/ PerformNothing PROVE [Guest!GuestNext]_(Guest!guestVars)
<1>c. UNCHANGED <<mem, published, code>>
  BY Zenon, ControlFrame DEF ControlStep, emitVars, requestVars
<1>t. pc \in Loc /\ pc \in Desc /\ Want \in Desc
  BY Zenon, Locations DEF JitInv, JitTypeOK
<1>s. GuestLoc' = GuestLoc /\ GuestWhere' = GuestWhere /\ UNCHANGED floor => UNCHANGED Guest!guestVars
  BY Zenon, <1>c DEF Guest!guestVars
<1>1. CASE Run \/ Step
  <2>1. GuestWhere = "host" /\ GuestWhere' = "between" /\ GuestLoc' = GuestLoc /\ floor' = published
    BY Zenon, <1>1 DEF Run, Step, Begin, GuestLoc, GuestWhere
  <2> QED
    BY Zenon, <2>1, <1>c DEF Guest!RunBegins, Guest!GuestNext
<1>2. CASE SetPC \/ Reset
  <2>1. GuestWhere = "host" /\ GuestWhere' = "host" /\ GuestLoc' \in HostPC /\ UNCHANGED floor
    BY Zenon, <1>2 DEF SetPC, Reset, GuestLoc, GuestWhere
  <2> QED
    BY Zenon, <2>1, <1>c DEF Guest!HostMoves, Guest!GuestNext
<1>3. CASE PerformNothing
  <2>1. GuestWhere = "between" /\ GuestWhere' \in {"between", "host"} /\ GuestLoc' = GuestLoc /\ UNCHANGED floor
    BY Zenon, <1>3 DEF PerformNothing, Perform, GuestLoc, GuestWhere, JitInv, JitTypeOK
  <2> QED
    BY Zenon, <2>1, <1>c, <1>s DEF Guest!ToHost, Guest!GuestNext
<1>4. CASE PickRSB \/ PickBlock \/ GetBlockSpace \/ TranslateBegin
  BY Zenon, <1>4, <1>s DEF PickRSB, PickBlock, GetBlockSpace, TranslateBegin, GuestLoc, GuestWhere
<1>5. CASE GetBlockFound
  <2>1. ctl = "lookup" /\ UNCHANGED <<floor, pc>> /\ Compiled(Want)
    BY Zenon, <1>5 DEF GetBlockFound
  <2>2. CASE cont = "enter"
    BY Zenon, <1>5, <1>s, <2>2 DEF GetBlockFound, GuestLoc, GuestWhere
  <2>3. CASE cont # "enter"
    <3>1. Want = pc /\ Goto(block_descriptors[pc])
      BY <1>5, <2>3 DEF GetBlockFound, Want
    <3>2. GuestLoc = pc /\ GuestWhere = "between"
      BY Zenon, <2>1 DEF GuestLoc, GuestWhere
    <3>3. code[block_descriptors[pc]].desc = pc
      BY Zenon, <1>t, <2>1, <3>1, Found DEF Holds
    <3>4. Base(pc) = pc
      BY Zenon, <1>t, Bases
    <3> QED
      BY Zenon, <1>c, <1>t, <2>1, <3>1, <3>2, <3>3, <3>4, GotoGuest
  <2> QED
    BY Zenon, <2>2, <2>3
<1>6. CASE Enter
  <2>1. ctl = "enter" /\ UNCHANGED <<floor, pc>>
    BY <1>6 DEF Enter
  <2>2. GuestLoc = pc /\ GuestWhere = "between"
    BY <2>1 DEF GuestLoc, GuestWhere
  <2>3. CASE ctl' = "exit_exited"
    BY Zenon, <1>s, <2>1, <2>2, <2>3 DEF GuestLoc, GuestWhere
  <2>4. CASE Goto(ptr)
    <3> DEFINE d == IF stepping THEN SingleStep[pc] ELSE pc
    <3>1. d \in Desc /\ Base(d) = pc
      BY Zenon, <1>t, Bases, LocAssumption
    <3>2. ptr # ReturnFromRunCode => code[ptr].desc = d
      BY <2>1 DEF JitInv, EntersGuest, Holds
    <3> HIDE DEF d
    <3> QED
      BY Zenon, <1>c, <2>1, <2>2, <2>4, <3>1, <3>2, GotoGuest
  <2> QED
    BY Zenon, <1>6, <2>3, <2>4 DEF Enter
<1> QED
  BY Zenon, <1>1, <1>2, <1>3, <1>4, <1>5, <1>6 DEF HostStep, LookupStep

(* The instructions of a block. *)
LEMMA BlockGuest ==
  ASSUME JitInv, RunFresh, BlockStep PROVE Guest!GuestNext
<1>c. UNCHANGED <<mem, published, code>>
  BY Zenon, ControlFrame DEF ControlStep, emitVars, requestVars
<1> USE DEF Links
<1>1. CASE ConditionFailed
  <2>1. GuestLoc' \in CurIR.condfail /\ GuestWhere' = "between" /\ UNCHANGED floor /\ ctl = "body"
    BY <1>1 DEF ConditionFailed, GuestLoc, GuestWhere
  <2>2. GuestLoc' \in Guest!Successors(CurIR)
    BY Zenon, <2>1 DEF Guest!Successors
  <2> QED
    BY <2>1, <2>2, <1>c, BlockExecuted DEF Guest!GuestNext
<1>2. CASE Execute
  <2>1. PICK t \in CurIR.terms : term' = t /\ pc' = IF t.kind \in Links \cup {"Interpret"} THEN pc ELSE t.next
    BY <1>2 DEF Execute
  <2>2. CurDesc \in Desc /\ src[cur] \in Version
    BY Zenon, <1>2, CurrentBlock DEF Execute, Executing
  <2>3. CurIR.svc => t.kind \notin Links \cup {"Interpret"}
    BY <2>2, TerminalAssumption DEF CurIR
  <2>4. GuestLoc' = t.next /\ GuestWhere' \in {"between", "host"} /\ UNCHANGED floor /\ ctl = "body"
    BY Zenon, <1>2, <2>1, <2>3 DEF Execute, GuestLoc, GuestWhere
  <2>5. GuestLoc' \in Guest!Successors(CurIR)
    BY Zenon, <2>4 DEF Guest!Successors
  <2> QED
    BY Zenon, <2>4, <2>5, <1>c, BlockExecuted DEF Guest!GuestNext
<1>3. CASE CallSupervisor
  <2>1. term.kind \notin Links \cup {"Interpret"}
    BY <1>3 DEF CallSupervisor, JitInv, ExecutesBlock
  <2>2. GuestWhere = "host" /\ GuestWhere' = "between" /\ UNCHANGED floor /\ GuestLoc' \in HostPC \cup {GuestLoc}
    BY Zenon, <1>3, <2>1 DEF CallSupervisor, GuestLoc, GuestWhere
  <2> QED
    BY Zenon, <2>2, <1>c DEF Guest!HostMoves, Guest!GuestNext
<1>4. CASE MemoryAbort
  <2>1. GuestLoc' \in CurIR.mem /\ GuestWhere' = "between" /\ UNCHANGED floor /\ ctl = "body"
    BY Zenon, <1>4 DEF MemoryAbort, GuestLoc, GuestWhere
  <2>2. GuestLoc' \in Guest!Successors(CurIR)
    BY Zenon, <2>1 DEF Guest!Successors
  <2> QED
    BY <2>1, <2>2, <1>c, BlockExecuted DEF Guest!GuestNext
<1> QED
  BY Zenon, <1>1, <1>2, <1>3, <1>4 DEF BlockStep

(* The terminal of a block, and the ways out. *)
LEMMA ExitGuest ==
  ASSUME JitInv, TermStep \/ ExitStep PROVE [Guest!GuestNext]_(Guest!guestVars)
<1>c. UNCHANGED <<mem, published, code>>
  BY ControlFrame DEF ControlStep, emitVars, requestVars
<1>t. pc \in Loc /\ pc \in Desc /\ Base(pc) = pc
  BY Zenon, Locations, Bases DEF JitInv, JitTypeOK
<1>s. GuestLoc' = GuestLoc /\ GuestWhere' = GuestWhere /\ UNCHANGED floor => UNCHANGED Guest!guestVars
  BY Zenon, <1>c DEF Guest!guestVars
<1>g. ASSUME NEW p, Goto(p), GuestLoc = pc, GuestWhere = "between", UNCHANGED <<pc, floor>>,
             p = ReturnFromRunCode \/ Holds(p, pc)
      PROVE  [Guest!GuestNext]_(Guest!guestVars)
  BY <1>c, <1>g, <1>t, GotoGuest DEF Holds
<1> USE DEF Links
<1>1. CASE TermCheckHalt
  <2>1. term.kind \notin Links \cup {"Interpret"}
    BY Zenon, <1>1 DEF TermCheckHalt, Halting, JitInv, ExecutesBlock
  <2> QED
    BY Zenon, <1>1, <2>1, <1>s DEF TermCheckHalt, GuestLoc, GuestWhere
<1>2. CASE TermLink
  <2> DEFINE p == IF Linked(CurDesc) THEN jump[cur][term.next] ELSE ReturnFromRunCode
  <2>1. /\ Goto(p) /\ ctl = "term" /\ term.kind \in Links /\ UNCHANGED floor
        /\ pc' = IF p = ReturnFromRunCode THEN term.next ELSE pc
    BY <1>2 DEF TermLink
  <2>2. GuestLoc = term.next /\ GuestWhere = "between"
    BY Zenon, <2>1 DEF GuestLoc, GuestWhere
  <2>3. term.next \in Loc /\ term.next \in Desc
    BY <2>1, LocAssumption DEF JitInv, ExecutesBlock, Terminal
  <2>4. p # ReturnFromRunCode => code[p].desc = term.next
    BY Zenon, <2>1, <2>3, LinkedSite DEF Executing, Holds
  <2> HIDE DEF p
  <2>5. Base(term.next) = term.next
    BY <2>3, Bases
  <2> QED
    BY Zenon, <1>c, <2>1, <2>2, <2>3, <2>4, <2>5, GotoGuest
<1>3. CASE TermLinkStop
  BY Zenon, <1>3, <1>s DEF TermLinkStop, GuestLoc, GuestWhere
<1>4. CASE TermPopRSB
  <2>1. ctl = "term" /\ term.kind \notin Links \cup {"Interpret"} /\ UNCHANGED <<floor, pc>>
    BY Zenon, <1>4 DEF TermPopRSB
  <2>2. GuestLoc = pc /\ GuestWhere = "between"
    BY Zenon, <2>1 DEF GuestLoc, GuestWhere
  <2>3. CASE RSBHit(pc) /\ Goto(rsb[RSBTop].ptr)
    BY Zenon, <1>g, <2>1, <2>2, <2>3, Predicted
  <2>4. CASE ctl' = "fast"
    BY Zenon, <1>s, <2>1, <2>2, <2>4 DEF GuestLoc, GuestWhere
  <2>5. CASE Goto(ReturnFromRunCode)
    BY <1>g, <2>1, <2>2, <2>5
  <2> QED
    BY Zenon, <1>4, <2>3, <2>4, <2>5 DEF TermPopRSB
<1>5. CASE TermDispatch
  <2>1. ctl = "term" /\ term.kind \notin Links \cup {"Interpret"} /\ UNCHANGED <<floor, pc>>
    BY Zenon, <1>5 DEF TermDispatch
  <2>2. ctl' \in {"fast", "dispatch"}
    BY Zenon, <1>5 DEF TermDispatch, Goto
  <2> QED
    BY Zenon, <1>s, <2>1, <2>2 DEF GuestLoc, GuestWhere
<1>6. CASE FastDispatchHandler
  <2>1. ctl = "fast" /\ UNCHANGED <<floor, pc>>
    BY Zenon, <1>6 DEF FastDispatchHandler
  <2>2. GuestLoc = pc /\ GuestWhere = "between" /\ ~LookingUp
    BY Zenon, <2>1 DEF GuestLoc, GuestWhere, LookingUp
  <2>3. CASE FastHit(pc) /\ Goto(fast_dispatch_table[Hash[pc]].ptr)
    BY Zenon, <1>g, <2>1, <2>2, <2>3, Dispatched
  <2>4. CASE ctl' = "lookup"
    BY Zenon, <1>s, <2>1, <2>2, <2>4 DEF GuestLoc, GuestWhere
  <2> QED
    BY Zenon, <1>6, <2>3, <2>4 DEF FastDispatchHandler
<1>7. CASE TermInterpret
  <2>1. GuestWhere = "between" /\ GuestWhere' = "host" /\ GuestLoc' = GuestLoc /\ UNCHANGED floor
    BY Zenon, <1>7 DEF TermInterpret, GuestLoc, GuestWhere
  <2> QED
    BY <2>1, <1>c DEF Guest!ToHost, Guest!GuestNext
<1>8. CASE Interpret
  <2>1. GuestWhere = "host" /\ GuestWhere' = "between" /\ GuestLoc' \in HostPC /\ UNCHANGED floor
    BY Zenon, <1>8 DEF Interpret, GuestLoc, GuestWhere
  <2> QED
    BY <2>1, <1>c DEF Guest!HostMoves, Guest!GuestNext
<1>9. CASE Dispatch \/ DispatchExited \/ ForceReturn \/ ReturnToCaller
  BY Zenon, <1>9, <1>s DEF Dispatch, DispatchExited, ForceReturn, ReturnToCaller, GuestLoc, GuestWhere
<1> QED
  BY <1>1, <1>2, <1>3, <1>4, <1>5, <1>6, <1>7, <1>8, <1>9 DEF TermStep, ExitStep

(* So is every step. *)
LEMMA StepGuest == ASSUME JitInv, RunFresh, JitNext PROVE [Guest!GuestNext]_(Guest!guestVars)
<1>1. CASE ControlStep
  BY Zenon, <1>1, StartGuest, BlockGuest, ExitGuest DEF ControlStep
<1>2. CASE OtherThreads
  <2>1. GuestLoc' = GuestLoc /\ GuestWhere' = GuestWhere /\ UNCHANGED floor
    BY Zenon, <1>2, OthersFrame DEF runVars, cacheVars, emitVars, GuestLoc, GuestWhere, CurDesc
  <2>2. CASE WriteCode
    BY Zenon, <2>1, <2>2 DEF WriteCode, requestVars, Guest!Write, Guest!GuestNext
  <2>3. CASE RequestHalt
    <3>1. UNCHANGED mem /\ published \subseteq published' /\ published' \subseteq 1..mem
      BY Zenon, <2>3 DEF RequestHalt, JitInv, RequestsQueued
    <3> QED
      BY Zenon, <2>1, <3>1 DEF Guest!Invalidated, Guest!GuestNext
  <2>4. CASE HaltExecution \/ InvalidateCacheRange \/ ClearCache
    BY Zenon, <2>1, <2>4 DEF HaltExecution, InvalidateCacheRange, ClearCache, requestVars, Guest!guestVars
  <2> QED
    BY <1>2, <2>2, <2>3, <2>4 DEF OtherThreads
<1>3. CASE PerformAll
  <2>1. /\ GuestWhere = "between" /\ GuestWhere' \in {"between", "host"} /\ GuestLoc' = GuestLoc
        /\ UNCHANGED <<mem, published, floor>>
    BY Zenon, <1>3 DEF PerformAll, Perform, GuestLoc, GuestWhere, JitInv, JitTypeOK
  <2> QED
    BY Zenon, <2>1 DEF Guest!ToHost, Guest!GuestNext, Guest!guestVars
<1>4. CASE GetBlockEvict \/ EmitTranslation
  BY Zenon, <1>4 DEF GetBlockEvict, EmitTranslation, requestVars, GuestLoc, GuestWhere, Guest!guestVars
<1>5. CASE FastmemFault
  <2>1. UNCHANGED <<ctl, code, cur, pc, term, mem, published, floor>>
    BY Zenon, <1>5 DEF FastmemFault, InvalidateBasicBlocks, requestVars, runVars
  <2> QED
    BY Zenon, <2>1 DEF GuestLoc, GuestWhere, CurDesc, Guest!guestVars
<1> QED
  BY <1>1, <1>2, <1>3, <1>4, <1>5, NextCases

(* Patched links, RSB predictions, the fast dispatch table, callbacks, the *)
(* interpreter, aborts and recompilation included, what the x64 run loop   *)
(* executes is a behaviour of the guest processor.                         *)
THEOREM JitImplementsGuest ==
  ASSUME "Reset" \notin HostCalls PROVE JitSpec => RunsGuest
<1>1. JitInit => Guest!GuestInit
  BY Zenon DEF JitInit, Guest!GuestInit, GuestLoc, GuestWhere
<1>2. JitInv /\ FreshInv /\ [JitNext]_jitVars => [Guest!GuestNext]_(Guest!guestVars)
  <2> SUFFICES ASSUME JitInv, FreshInv, [JitNext]_jitVars
               PROVE  [Guest!GuestNext]_(Guest!guestVars)
    BY Zenon
  <2>1. CASE JitNext
    BY Zenon, <2>1, StepGuest DEF FreshInv
  <2>2. CASE UNCHANGED jitVars
    BY <2>2 DEF jitVars, cacheVars, emitVars, runVars, requestVars, GuestLoc, GuestWhere, CurDesc, Guest!guestVars
  <2> QED
    BY Zenon, <2>1, <2>2
<1> QED
  BY <1>1, <1>2, JitInvariant, JitFreshInvariant, PTL DEF JitSpec, RunsGuest, Guest!GuestSpec

=============================================================================
