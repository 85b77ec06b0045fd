-------------------------------- MODULE Jit --------------------------------
(***************************************************************************)
(* Jit::Run and Jit::Step of the x64 backend, A32 and A64: the run loop    *)
(* around the code cache, the emitted dispatcher and block terminals, and  *)
(* the requests other threads and callbacks make meanwhile: halting,       *)
(* invalidating and clearing the cache, writing guest code.                *)
(*                                                                         *)
(* Guest code is a sequence of versions; version v rewrites the word at    *)
(* Written[v].  Translate[d][v] abstracts the IR of location d at version  *)
(* v.  The JIT thread takes one step per control point ctl; everything the *)
(* other threads share with it is read or written at those points.         *)
(***************************************************************************)
EXTENDS CodeCache, FiniteSets

CONSTANTS Loc,                 \* location descriptors without the single-step bit
          SingleStep,          \* LocationDescriptor::SetSingleStepping(true)
          MaxVersion,          \* bound on the number of writes to guest code
          Written,             \* address each version rewrites
          Translate,           \* IR of a location at a version
          Optimizations,       \* enabled OptimizationFlags
          CycleCounting,       \* what conf.enable_cycle_counting may be
          IsA32,
          CheckHaltOnMemoryAccess,
          Fastmem_,            \* fastmem with recompile_on_fastmem_failure
          MaxTicks,            \* bound on GetTicksRemaining
          HostReasons,         \* what HaltExecution is called with
          HostPC,              \* what the host sets the PC to
          Ranges,              \* starts and lengths InvalidateCacheRange is called with
          HostCalls            \* what the host calls between runs

Version == 0..MaxVersion
HaltReason == {"Step", "CacheInvalidation", "MemoryAbort", "UserDefined"}

ASSUME HostAssumption ==
  /\ HostPC \subseteq Loc /\ HostReasons \subseteq HaltReason
  /\ CycleCounting \subseteq BOOLEAN /\ MaxTicks \in Nat \ {0}

Terminals == {"Interpret", "ReturnToDispatch", "LinkBlock", "LinkBlockFast",
              "PopRSBHint", "FastDispatchHint"}

(* A terminal, with the location the guest continues at, and whether it is *)
(* wrapped in a CheckHalt.  If and CheckBit are choices between terminals. *)
Terminal == [kind: Terminals, next: Loc, check: BOOLEAN]
Links == {"LinkBlock", "LinkBlockFast"}

(* A translated block: the guest addresses read, the return location       *)
(* pushed, the location a failed condition goes to (A32), the memory       *)
(* instruction that can abort, whether it ends in a call of the supervisor *)
(* or an exception, its terminals.                                         *)
IR == [cover: SUBSET Addr, push: SUBSET Desc, condfail: SUBSET Loc, mem: SUBSET Loc,
       svc: BOOLEAN, terms: SUBSET Terminal]

(* Every descriptor is a location, with or without the single-step bit.    *)
ASSUME LocAssumption ==
  /\ Desc = Loc \cup {SingleStep[l] : l \in Loc}
  /\ SingleStep \in [Loc -> Desc \ Loc]
  /\ \A k, l \in Loc : SingleStep[k] = SingleStep[l] => k = l

(* The host invalidates within the address space, possibly up to its end   *)
(* and possibly no address at all.                                         *)
ASSUME RangesAssumption ==
  /\ Cardinality(Addr) \in Nat /\ Addr = 0..Cardinality(Addr) - 1
  /\ Ranges \subseteq {r \in [start: Addr, length: 0..Cardinality(Addr)] : r.start + r.length <= Cardinality(Addr)}

ASSUME TranslateAssumption ==
  /\ MaxVersion \in Nat
  /\ Written \in [1..MaxVersion -> Addr]
  /\ Translate \in [Desc -> [Version -> IR]]
  /\ \A d \in Desc : \A v \in 1..MaxVersion :
       Written[v] \notin Translate[d][v - 1].cover => Translate[d][v] = Translate[d][v - 1]

(* The frontends put only a PopRSBHint or a ReturnToDispatch inside a      *)
(* CheckHalt, and end a block that calls the supervisor or raises an       *)
(* exception with one of these, having written the PC.                     *)
ASSUME TerminalAssumption ==
  \A d \in Desc, v \in Version : \A t \in Translate[d][v].terms :
    t.check \/ Translate[d][v].svc => t.kind \notin Links \cup {"Interpret"}

(* The location a descriptor, single-stepping or not, stands for. *)
Base(d) == IF d \in Loc THEN d ELSE CHOOSE l \in Loc : SingleStep[l] = d

Linked(d) == "BlockLinking" \in Optimizations /\ d \in Loc

LinkTargets(ir, kinds) == {t.next : t \in {u \in ir.terms : u.kind \in kinds}} \cup ir.condfail

(* The sites Emit leaves in a block: an A32 block predicts the target of a *)
(* link it could not take, and pushes whatever the optimizations are.      *)
BlockOf(d, ir) ==
  [desc   |-> d,
   cover  |-> ir.cover,
   links  |-> IF Linked(d) THEN LinkTargets(ir, Links) ELSE {},
   pushes |-> (IF IsA32 \/ "ReturnStackBuffer" \in Optimizations THEN ir.push ELSE {})
              \cup (IF IsA32 /\ Linked(d) THEN LinkTargets(ir, {"LinkBlock"}) ELSE {})]

ASSUME BlocksAreTranslations ==
  Blocks = {BlockOf(d, Translate[d][v]) : d \in Desc, v \in Version}

VARIABLES
  counting,                \* conf.enable_cycle_counting
  pc,                      \* jit_state: the location the PC and upper bits name
  ctl,                     \* where the JIT thread is
  back,                    \* what follows PerformRequestedCacheInvalidation
  cont,                    \* what follows GetBlock
  stepping,                \* Step rather than Run
  ptr, cur,                \* code pointer RunCode is given; slot being executed
  term,                    \* terminal being executed
  hr,                      \* the HaltReason in hand
  halt_reason,
  mxcsr,                   \* the register, guest_MXCSR and save_host_MXCSR
  cycles,                  \* cycles_remaining, 0 when not positive
  invalid_cache_ranges, invalidate_entire_cache,
  locked,                  \* a requesting thread holds invalidation_mutex
  do_not_fastmem, fastmem, \* locations not to use fastmem for; slots that use it
  mem,                     \* version of guest code memory
  lo,                      \* version when the translation in progress began
  src,                     \* version each slot was translated from
  asked, published,        \* versions the request in progress, the finished ones cover
  floor,                   \* what was published when the run began
  executed                 \* blocks a Step has executed

runVars == <<counting, pc, ctl, back, cont, stepping, ptr, cur, term, hr, floor, executed>>
hostVars == <<mxcsr, cycles>>
requestVars == <<invalid_cache_ranges, invalidate_entire_cache, locked, asked, published>>
translateVars == <<do_not_fastmem, fastmem, lo, src>>
jitVars == <<cacheVars, runVars, hostVars, requestVars, translateVars, halt_reason, mem>>

NoTerm == [kind |-> "ReturnToDispatch", next |-> NoDesc, check |-> FALSE]
Control == {"host", "perform", "pick", "lookup", "translate", "emit", "enter", "body", "svc",
            "term", "fast", "interpret", "dispatch", "dispatch_exited", "exit", "exit_exited"}
Mode == {"host", "guest"}

JitTypeOK ==
  /\ CacheTypeOK
  /\ counting \in BOOLEAN /\ pc \in Loc /\ ctl \in Control
  /\ back \in {"pick", "translate", "host"} /\ cont \in {"enter", "jump", "fast"}
  /\ stepping \in BOOLEAN /\ ptr \in CodePtr /\ cur \in Slot \cup {0}
  /\ term \in Terminal \cup {NoTerm}
  /\ hr \subseteq HaltReason /\ halt_reason \subseteq HaltReason
  /\ mxcsr \in [reg: Mode, guest: Mode, saved: Mode]
  /\ cycles \in 0..MaxTicks
  /\ invalid_cache_ranges \subseteq Addr /\ invalidate_entire_cache \in BOOLEAN
  /\ locked \in BOOLEAN /\ do_not_fastmem \subseteq Desc /\ fastmem \subseteq Slot
  /\ mem \in Version /\ lo \in Version /\ src \in [Slot -> Version]
  /\ asked \subseteq Version /\ published \subseteq Version /\ floor \subseteq Version
  /\ executed \in 0..2

JitInit ==
  /\ CacheInit
  /\ counting \in CycleCounting
  /\ pc \in Loc /\ ctl = "host" /\ back = "host" /\ cont = "jump" /\ stepping = FALSE
  /\ ptr = 0 /\ cur = 0 /\ term = NoTerm /\ hr = {} /\ halt_reason = {}
  /\ mxcsr = [reg |-> "host", guest |-> "guest", saved |-> "host"] /\ cycles = 0
  /\ invalid_cache_ranges = {} /\ invalidate_entire_cache = FALSE /\ locked = FALSE
  /\ do_not_fastmem = {} /\ fastmem = {} /\ mem = 0 /\ lo = 0 /\ src = [s \in Slot |-> 0]
  /\ asked = {} /\ published = {} /\ floor = {} /\ executed = 0

----------------------------------------------------------------------------
(* The host thread between runs: Jit::Run, Jit::Step, SetPC, Reset.        *)

Begin(step) ==
  /\ ctl = "host"
  /\ ctl' = "perform" /\ back' = "pick" /\ hr' = halt_reason
  /\ stepping' = step /\ floor' = published /\ executed' = 0
  /\ UNCHANGED <<cacheVars, hostVars, requestVars, translateVars, halt_reason, mem,
                 counting, pc, cont, ptr, cur, term>>

Run == "Run" \in HostCalls /\ Begin(FALSE)
Step == "Step" \in HostCalls /\ Begin(TRUE)

SetPC ==
  /\ "SetPC" \in HostCalls /\ ctl = "host"
  /\ pc' \in HostPC
  /\ UNCHANGED <<cacheVars, hostVars, requestVars, translateVars, halt_reason, mem,
                 ctl, back, cont, stepping, ptr, cur, term, hr, floor, executed, counting>>

(* jit_state = {}: the RSB, the MXCSR and halt_reason are part of it, the  *)
(* queue of invalidation requests is not.                                  *)
Reset ==
  /\ "Reset" \in HostCalls /\ ctl = "host"
  /\ pc' \in HostPC
  /\ halt_reason' = {}
  /\ rsb' = [i \in RSBIndex |-> Empty] /\ rsb_ptr' = 0
  /\ mxcsr' = [mxcsr EXCEPT !.guest = "guest"]
  /\ UNCHANGED <<emitVars, fast_dispatch_table, missing, cycles, requestVars, translateVars, mem,
                 ctl, back, cont, stepping, ptr, cur, term, hr, floor, executed, counting>>

----------------------------------------------------------------------------
(* Any thread, at any time.                                                *)

WriteCode ==
  /\ mem < MaxVersion
  /\ mem' = mem + 1
  /\ UNCHANGED <<cacheVars, runVars, hostVars, requestVars, translateVars, halt_reason>>

HaltExecution ==
  /\ \E r \in HostReasons : halt_reason' = halt_reason \cup {r}
  /\ UNCHANGED <<cacheVars, runVars, hostVars, requestVars, translateVars, mem>>

(* The interval of a range; the address of its end wraps around.           *)
RangeToOnePast(start, length) == start..(start + length) % Cardinality(Addr)
ClosedRange(start, length) == start..(start + length - 1) % Cardinality(Addr)

(* InvalidateCacheRange and ClearCache up to HaltExecution, with the mutex *)
InvalidateCacheRange ==
  /\ ~locked /\ locked' = TRUE
  /\ \E r \in Ranges :
       /\ invalid_cache_ranges' = invalid_cache_ranges \cup ClosedRange(r.start, r.length)
       /\ asked' = {v \in 1..mem : r.start <= Written[v] /\ Written[v] < r.start + r.length}
  /\ UNCHANGED <<cacheVars, runVars, hostVars, translateVars, halt_reason, mem,
                 invalidate_entire_cache, published>>

ClearCache ==
  /\ ~locked /\ locked' = TRUE
  /\ invalidate_entire_cache' = TRUE
  /\ asked' = 1..mem
  /\ UNCHANGED <<cacheVars, runVars, hostVars, translateVars, halt_reason, mem,
                 invalid_cache_ranges, published>>

RequestWithoutHalt ==
  /\ locked /\ locked' = FALSE
  /\ published' = published \cup asked /\ asked' = {}
  /\ UNCHANGED <<cacheVars, runVars, hostVars, translateVars, halt_reason, mem,
                 invalid_cache_ranges, invalidate_entire_cache>>

(* ... and their HaltExecution(CacheInvalidation), the mutex released.     *)
RequestHalt ==
  /\ locked /\ locked' = FALSE
  /\ halt_reason' = halt_reason \cup {"CacheInvalidation"}
  /\ published' = published \cup asked /\ asked' = {}
  /\ UNCHANGED <<cacheVars, runVars, hostVars, translateVars, mem,
                 invalid_cache_ranges, invalidate_entire_cache>>

----------------------------------------------------------------------------
(* PerformRequestedCacheInvalidation(hr) *)

NothingRequested == ~invalidate_entire_cache /\ invalid_cache_ranges = {}

PerformInvalidation ==
  /\ "CacheInvalidation" \in hr /\ ~locked
  /\ halt_reason' = halt_reason \ {"CacheInvalidation"}
  /\ \/ NothingRequested /\ UNCHANGED <<cacheVars, fastmem, src>>
     \/ invalidate_entire_cache /\ InvalidateAll /\ fastmem' = {} /\ src' = [s \in Slot |-> 0]
     \/ /\ ~invalidate_entire_cache /\ invalid_cache_ranges # {}
        /\ InvalidateRanges(invalid_cache_ranges) /\ UNCHANGED <<fastmem, src>>
  /\ invalid_cache_ranges' = {} /\ invalidate_entire_cache' = FALSE

Perform ==
  /\ ctl = "perform" /\ ctl' = back
  /\ \/ PerformInvalidation
     \/ /\ "CacheInvalidation" \notin hr
        /\ UNCHANGED <<cacheVars, halt_reason, fastmem, src, invalid_cache_ranges, invalidate_entire_cache>>
  /\ hr' = IF back = "host" THEN hr ELSE {}
  /\ back' = "host"
  /\ UNCHANGED <<hostVars, locked, asked, published, mem, do_not_fastmem, lo,
                 pc, cont, stepping, ptr, cur, term, floor, executed, counting>>

----------------------------------------------------------------------------
(* GetBlock and the code pointer RunCode starts from.                      *)

(* Run looks at the RSB first, whatever the optimizations are. *)
PickRSB ==
  /\ ctl = "pick" /\ ~stepping /\ RSBHit(pc)
  /\ rsb_ptr' = RSBTop
  /\ ptr' = rsb[RSBTop].ptr
  /\ ctl' = "enter"
  /\ UNCHANGED <<emitVars, rsb, fast_dispatch_table, missing, hostVars, requestVars, translateVars,
                 halt_reason, mem, pc, back, cont, stepping, cur, term, hr, floor, executed, counting>>

PickBlock ==
  /\ ctl = "pick" /\ (stepping \/ ~RSBHit(pc))
  /\ ctl' = "lookup" /\ cont' = "enter"
  /\ UNCHANGED <<cacheVars, hostVars, requestVars, translateVars, halt_reason, mem,
                 pc, back, stepping, ptr, cur, term, hr, floor, executed, counting>>

Want == IF stepping /\ cont = "enter" THEN SingleStep[pc] ELSE pc

(* A jump to p: to a block, or to the dispatcher. *)
Goto(p) ==
  /\ ctl' = (IF p = ReturnFromRunCode THEN "dispatch" ELSE "body")
  /\ cur' = p
  /\ term' = NoTerm

GetBlockFound ==
  /\ ctl = "lookup" /\ Compiled(Want)
  /\ LET p == block_descriptors[Want]
     IN \/ /\ cont = "enter"
           /\ ptr' = p /\ ctl' = "enter"
           /\ UNCHANGED <<cur, term, fast_dispatch_table, missing>>
        \/ cont = "jump" /\ Goto(p) /\ UNCHANGED <<ptr, fast_dispatch_table, missing>>
        \/ cont = "fast" /\ FastStore(p) /\ Goto(p) /\ UNCHANGED ptr
  /\ cont' = "jump"
  /\ UNCHANGED <<emitVars, rsb, rsb_ptr, hostVars, requestVars, translateVars, halt_reason, mem,
                 pc, back, stepping, hr, floor, executed, counting>>

(* The flag is written without the mutex; the invalidation then takes it.  *)
GetBlockEvict ==
  /\ ctl = "lookup" /\ ~Compiled(Want) /\ Full
  /\ invalidate_entire_cache' = TRUE
  /\ hr' = {"CacheInvalidation"} /\ ctl' = "perform" /\ back' = "translate"
  /\ UNCHANGED <<cacheVars, hostVars, translateVars, halt_reason, mem,
                 invalid_cache_ranges, locked, asked, published,
                 pc, cont, stepping, ptr, cur, term, floor, executed, counting>>

GetBlockSpace ==
  /\ ctl = "lookup" /\ ~Compiled(Want) /\ ~Full
  /\ ctl' = "translate"
  /\ UNCHANGED <<cacheVars, hostVars, requestVars, translateVars, halt_reason, mem,
                 pc, back, cont, stepping, ptr, cur, term, hr, floor, executed, counting>>

TranslateBegin ==
  /\ ctl = "translate" /\ ctl' = "emit"
  /\ lo' = mem
  /\ UNCHANGED <<cacheVars, hostVars, requestVars, halt_reason, mem, do_not_fastmem, fastmem, src,
                 pc, back, cont, stepping, ptr, cur, term, hr, floor, executed, counting>>

(* The code read is that of a version between the start and the end of the *)
(* translation.  What Emit returns is what a lookup now finds.             *)
EmitTranslation ==
  /\ ctl = "emit" /\ ctl' = "lookup"
  /\ \E v \in lo..mem :
       /\ EmitBlock(BlockOf(Want, Translate[Want][v]))
       /\ src' = [src EXCEPT ![next] = v]
       /\ fastmem' = IF Fastmem_ /\ Translate[Want][v].mem # {} /\ Want \notin do_not_fastmem
                     THEN fastmem \cup {next} ELSE fastmem
  /\ lo' = 0
  /\ UNCHANGED <<hostVars, requestVars, halt_reason, mem, do_not_fastmem,
                 pc, back, cont, stepping, ptr, cur, term, hr, floor, executed, counting>>

----------------------------------------------------------------------------
(* The emitted code: run_code and step_code up to the first block.         *)

SwitchMxcsrOnEntry(m) == [m EXCEPT !.saved = m.reg, !.reg = m.guest]
SwitchMxcsrLosingGuest(m) == [m EXCEPT !.reg = m.saved, !.guest = m.saved]
SwitchMxcsrOnExit(m) == [m EXCEPT !.guest = m.reg, !.reg = m.saved]

(* GetTicksRemaining *)
Ticks == IF counting THEN 0..MaxTicks ELSE {0}
AddCycles(n) == IF n > 0 THEN n - 1 ELSE 0

Enter ==
  /\ ctl = "enter"
  /\ cycles' \in IF stepping /\ counting THEN {1} ELSE Ticks
  /\ \/ /\ halt_reason # {}
        /\ ctl' = "exit_exited"
        /\ UNCHANGED <<halt_reason, mxcsr, cur, term>>
     \/ /\ halt_reason = {}
        /\ halt_reason' = IF stepping THEN {"Step"} ELSE {}
        /\ mxcsr' = SwitchMxcsrOnEntry(mxcsr)
        /\ Goto(ptr)
  /\ ptr' = 0
  /\ UNCHANGED <<cacheVars, requestVars, translateVars, mem, pc, back, cont, stepping, hr, floor, executed, counting>>

----------------------------------------------------------------------------
(* A block.                                                                *)

CurDesc == code[cur].desc
CurIR == Translate[CurDesc][src[cur]]

Executed == executed' = IF stepping /\ executed < 2 THEN executed + 1 ELSE executed

(* EmitCondPrelude: the block's condition fails. *)
ConditionFailed ==
  /\ ctl = "body" /\ ctl' = "term"
  /\ \E l \in CurIR.condfail : term' = [kind |-> "LinkBlock", next |-> l, check |-> FALSE]
  /\ cycles' = AddCycles(cycles)
  /\ Executed
  /\ UNCHANGED <<cacheVars, requestVars, translateVars, halt_reason, mem, mxcsr,
                 pc, back, cont, stepping, ptr, cur, hr, floor, counting>>

Aborting == CheckHaltOnMemoryAccess /\ "MemoryAbort" \in halt_reason /\ CurIR.mem # {}

(* The instructions of a block: the RSB push, the write to the PC before a *)
(* terminal that dispatches on it, and the choice of the terminal.         *)
Execute ==
  /\ ctl = "body" /\ ~Aborting
  /\ ctl' = (IF CurIR.svc THEN "svc" ELSE "term")
  /\ \E t \in CurIR.terms :
       /\ term' = t
       /\ pc' = IF t.kind \in Links \cup {"Interpret"} THEN pc ELSE t.next
  /\ \/ \E d \in CurIR.push \cap code[cur].pushes : PushRSB(cur, d)
     \/ CurIR.push \cap code[cur].pushes = {} /\ UNCHANGED <<rsb, rsb_ptr>>
  /\ cycles' = IF CurIR.svc THEN cycles ELSE AddCycles(cycles)
  /\ Executed
  /\ UNCHANGED <<emitVars, fast_dispatch_table, missing, requestVars, translateVars, halt_reason, mem,
                 mxcsr, back, cont, stepping, ptr, cur, hr, floor, counting>>

(* CallSVC and ExceptionRaised: A32 leaves the guest MXCSR for the call    *)
(* and, when it counts cycles, returns to it and reloads the ticks.        *)
CallSupervisor ==
  /\ ctl = "svc" /\ ctl' = "term"
  /\ pc' \in HostPC \cup {pc}
  /\ IF IsA32
     THEN /\ \E n \in (IF counting THEN Ticks ELSE {cycles}) : cycles' = AddCycles(n)
          /\ LET m == SwitchMxcsrOnExit(mxcsr)
             IN mxcsr' = IF counting THEN SwitchMxcsrOnEntry(m) ELSE m
     ELSE cycles' = AddCycles(cycles) /\ UNCHANGED mxcsr
  /\ UNCHANGED <<cacheVars, requestVars, translateVars, halt_reason, mem,
                 back, cont, stepping, ptr, cur, term, hr, floor, executed, counting>>

(* EmitCheckMemoryAbort *)
MemoryAbort ==
  /\ ctl = "body" /\ Aborting
  /\ pc' \in CurIR.mem
  /\ ctl' = "exit"
  /\ Executed
  /\ UNCHANGED <<cacheVars, hostVars, requestVars, translateVars, halt_reason, mem,
                 back, cont, stepping, ptr, cur, term, hr, floor, counting>>

(* FastmemCallback, in the signal handler of a fault in the block.         *)
FastmemFault ==
  /\ ctl = "body" /\ cur \in fastmem
  /\ do_not_fastmem' = do_not_fastmem \cup {CurDesc}
  /\ InvalidateBasicBlocks({CurDesc})
  /\ UNCHANGED <<rsb, rsb_ptr, runVars, hostVars, requestVars, halt_reason, mem, fastmem, lo, src>>

----------------------------------------------------------------------------
(* The terminal of a block.                                                *)

HaltingAnyway == term.check
Halting == term.check /\ halt_reason # {}

TermCheckHalt ==
  /\ ctl = "term" /\ Halting /\ ctl' = "exit"
  /\ UNCHANGED <<cacheVars, hostVars, requestVars, translateVars, halt_reason, mem,
                 pc, back, cont, stepping, ptr, cur, term, hr, floor, executed, counting>>

(* What LinkBlock compares before it takes the patched jump. *)
MayLinkUnchecked == term.kind = "LinkBlockFast" \/ ~counting \/ cycles > 0
MayLink ==
  \/ term.kind = "LinkBlockFast"
  \/ counting /\ cycles > 0
  \/ ~counting /\ halt_reason = {}

TermLinkWithoutPC ==
  /\ ctl = "term" /\ ~Halting /\ term.kind \in Links
  /\ LET site == IF Linked(CurDesc) THEN jump[cur][term.next] ELSE ReturnFromRunCode
     IN (Linked(CurDesc) => MayLink) /\ Goto(site)
  /\ UNCHANGED <<cacheVars, hostVars, requestVars, translateVars, halt_reason, mem,
                 pc, back, cont, stepping, ptr, hr, floor, executed, counting>>

(* LinkBlock, LinkBlockFast and what their sites were patched to: only an  *)
(* unpatched site writes the PC.                                           *)
TermLink ==
  /\ ctl = "term" /\ ~Halting /\ term.kind \in Links
  /\ LET site == IF Linked(CurDesc) THEN jump[cur][term.next] ELSE ReturnFromRunCode
     IN /\ Linked(CurDesc) => MayLink
        /\ pc' = IF site = ReturnFromRunCode THEN term.next ELSE pc
        /\ Goto(site)
  /\ UNCHANGED <<cacheVars, hostVars, requestVars, translateVars, halt_reason, mem,
                 back, cont, stepping, ptr, hr, floor, executed, counting>>

TermLinkStopWithoutPC ==
  /\ ctl = "term" /\ ~Halting /\ term.kind \in Links /\ Linked(CurDesc) /\ ~MayLink
  /\ IF IsA32 THEN PushRSB(cur, term.next) ELSE UNCHANGED <<rsb, rsb_ptr>>
  /\ ctl' = "exit"
  /\ UNCHANGED <<emitVars, fast_dispatch_table, missing, hostVars, requestVars, translateVars,
                 halt_reason, mem, pc, back, cont, stepping, ptr, cur, term, hr, floor, executed, counting>>

TermLinkStop ==
  /\ ctl = "term" /\ ~Halting /\ term.kind \in Links /\ Linked(CurDesc) /\ ~MayLink
  /\ pc' = term.next
  /\ IF IsA32 THEN PushRSB(cur, term.next) ELSE UNCHANGED <<rsb, rsb_ptr>>
  /\ ctl' = "exit"
  /\ UNCHANGED <<emitVars, fast_dispatch_table, missing, hostVars, requestVars, translateVars,
                 halt_reason, mem, back, cont, stepping, ptr, cur, term, hr, floor, executed, counting>>

FastDispatch == "FastDispatch" \in Optimizations /\ CurDesc \in Loc
UsesRSBStepping == "ReturnStackBuffer" \in Optimizations
UsesRSB == "ReturnStackBuffer" \in Optimizations /\ CurDesc \in Loc

TermPopRSB ==
  /\ ctl = "term" /\ ~Halting /\ term.kind = "PopRSBHint" /\ UsesRSB
  /\ rsb_ptr' = RSBTop
  /\ \/ RSBHit(pc) /\ Goto(rsb[RSBTop].ptr)
     \/ ~RSBHit(pc) /\ FastDispatch /\ ctl' = "fast" /\ UNCHANGED <<cur, term>>
     \/ ~RSBHit(pc) /\ ~FastDispatch /\ Goto(ReturnFromRunCode)
  /\ UNCHANGED <<emitVars, rsb, fast_dispatch_table, missing, hostVars, requestVars, translateVars,
                 halt_reason, mem, pc, back, cont, stepping, ptr, hr, floor, executed, counting>>

TermDispatch ==
  /\ ctl = "term" /\ ~Halting
  /\ \/ term.kind = "ReturnToDispatch" /\ Goto(ReturnFromRunCode)
     \/ term.kind = "PopRSBHint" /\ ~UsesRSB /\ Goto(ReturnFromRunCode)
     \/ term.kind = "FastDispatchHint" /\ ~FastDispatch /\ Goto(ReturnFromRunCode)
     \/ term.kind = "FastDispatchHint" /\ FastDispatch /\ ctl' = "fast" /\ UNCHANGED <<cur, term>>
  /\ UNCHANGED <<cacheVars, hostVars, requestVars, translateVars, halt_reason, mem,
                 pc, back, cont, stepping, ptr, hr, floor, executed, counting>>

(* terminal_handler_fast_dispatch_hint *)
FastDispatchWithoutStore ==
  /\ ctl = "fast"
  /\ \/ /\ FastHit(pc) /\ Goto(fast_dispatch_table[Hash[pc]].ptr)
        /\ UNCHANGED <<cont, fast_dispatch_table, missing>>
     \/ FastMiss(pc) /\ ctl' = "lookup" /\ cont' = "jump" /\ cur' = 0 /\ term' = NoTerm
  /\ UNCHANGED <<emitVars, rsb, rsb_ptr, hostVars, requestVars, translateVars, halt_reason, mem,
                 pc, back, stepping, ptr, hr, floor, executed, counting>>

FastDispatchHandler ==
  /\ ctl = "fast"
  /\ \/ /\ FastHit(pc) /\ Goto(fast_dispatch_table[Hash[pc]].ptr)
        /\ UNCHANGED <<cont, fast_dispatch_table, missing>>
     \/ FastMiss(pc) /\ ctl' = "lookup" /\ cont' = "fast" /\ cur' = 0 /\ term' = NoTerm
  /\ UNCHANGED <<emitVars, rsb, rsb_ptr, hostVars, requestVars, translateVars, halt_reason, mem,
                 pc, back, stepping, ptr, hr, floor, executed, counting>>

TermInterpret ==
  /\ ctl = "term" /\ ~Halting /\ term.kind = "Interpret"
  /\ mxcsr' = SwitchMxcsrOnExit(mxcsr)
  /\ pc' = term.next
  /\ ctl' = "interpret" /\ cur' = 0 /\ term' = NoTerm
  /\ UNCHANGED <<cacheVars, cycles, requestVars, translateVars, halt_reason, mem,
                 back, cont, stepping, ptr, hr, floor, executed, counting>>

(* InterpreterFallback, on the host *)
Interpret ==
  /\ ctl = "interpret" /\ ctl' = "dispatch_exited"
  /\ pc' \in HostPC
  /\ UNCHANGED <<cacheVars, hostVars, requestVars, translateVars, halt_reason, mem,
                 back, cont, stepping, ptr, cur, term, hr, floor, executed, counting>>

----------------------------------------------------------------------------
(* The dispatcher loop and the way out of it.                              *)

OutOfTime == halt_reason # {} \/ (counting /\ cycles = 0)

Dispatch ==
  /\ ctl = "dispatch"
  /\ \/ OutOfTime /\ ctl' = "exit" /\ UNCHANGED cont
     \/ ~OutOfTime /\ ctl' = "lookup" /\ cont' = "jump"
  /\ UNCHANGED <<cacheVars, hostVars, requestVars, translateVars, halt_reason, mem,
                 pc, back, stepping, ptr, cur, term, hr, floor, executed, counting>>

DispatchExited ==
  /\ ctl = "dispatch_exited"
  /\ \/ OutOfTime /\ ctl' = "exit_exited" /\ UNCHANGED <<cont, mxcsr>>
     \/ /\ ~OutOfTime /\ ctl' = "lookup" /\ cont' = "jump"
        /\ mxcsr' = SwitchMxcsrOnEntry(mxcsr)
  /\ UNCHANGED <<cacheVars, cycles, requestVars, translateVars, halt_reason, mem,
                 pc, back, stepping, ptr, cur, term, hr, floor, executed, counting>>

ForceReturn ==
  /\ ctl = "exit" /\ ctl' = "exit_exited"
  /\ mxcsr' = SwitchMxcsrOnExit(mxcsr)
  /\ UNCHANGED <<cacheVars, cycles, requestVars, translateVars, halt_reason, mem,
                 pc, back, cont, stepping, ptr, cur, term, hr, floor, executed, counting>>

ReturnToCaller ==
  /\ ctl = "exit_exited"
  /\ hr' = halt_reason /\ halt_reason' = {}
  /\ ctl' = "perform" /\ back' = "host"
  /\ cycles' = 0 /\ cur' = 0 /\ term' = NoTerm
  /\ UNCHANGED <<cacheVars, mxcsr, requestVars, translateVars, mem,
                 pc, cont, stepping, ptr, floor, executed, counting>>

----------------------------------------------------------------------------
JitThread ==
  \/ Perform \/ PickRSB \/ PickBlock
  \/ GetBlockFound \/ GetBlockEvict \/ GetBlockSpace \/ TranslateBegin \/ EmitTranslation
  \/ Enter \/ ConditionFailed \/ Execute \/ CallSupervisor \/ MemoryAbort
  \/ TermCheckHalt \/ TermLink \/ TermLinkStop \/ TermPopRSB \/ TermDispatch
  \/ FastDispatchHandler \/ TermInterpret \/ Interpret
  \/ Dispatch \/ DispatchExited \/ ForceReturn \/ ReturnToCaller

Host == Run \/ Step \/ SetPC \/ Reset

OtherThreads == WriteCode \/ HaltExecution \/ InvalidateCacheRange \/ ClearCache \/ RequestHalt

JitNext == JitThread \/ FastmemFault \/ Host \/ OtherThreads

JitSpec == JitInit /\ [][JitNext]_jitVars

(* The operating system runs the JIT thread, lets the holder of the mutex  *)
(* release it, and lets the JIT thread have it in the end; nobody has to   *)
(* call Run, to halt or to request anything.                               *)
JitFairness == WF_jitVars(JitThread) /\ SF_jitVars(Perform) /\ WF_jitVars(RequestHalt)
FairJitSpec == JitSpec /\ JitFairness

(* ... and the host calls Run again whenever it returns.                   *)
BusyJitSpec == FairJitSpec /\ WF_jitVars(Run)

----------------------------------------------------------------------------
(* The block in slot s was translated before version v was written over it *)
Stale(s, v) == v > src[s] /\ Written[v] \in code[s].cover

(* An invalidation is never lost: a compiled block older than a finished   *)
(* InvalidateCacheRange or ClearCache is still queued for removal, and the *)
(* halt that leads to PerformRequestedCacheInvalidation is still due.      *)
StaleIsPending ==
  \A v \in published, d \in Desc :
    Compiled(d) /\ Stale(block_descriptors[d], v) =>
      /\ invalidate_entire_cache \/ Written[v] \in invalid_cache_ranges
      /\ "CacheInvalidation" \in halt_reason \/ (ctl = "perform" /\ "CacheInvalidation" \in hr)

(* A run never executes guest code older than the invalidations finished   *)
(* before Run was called.                                                  *)
RunSeesInvalidations == ctl = "body" => \A v \in floor : ~Stale(cur, v)

(* Guest code runs with the guest's MXCSR, and the host gets its own back. *)
MxcsrSwitched ==
  /\ ctl = "body" => mxcsr.reg = "guest"
  /\ ctl \in {"host", "interpret"} => mxcsr = [reg |-> "host", guest |-> "guest", saved |-> "host"]

(* Step executes one block if it reports Step, and none otherwise.         *)
StepIsSingle == stepping /\ ctl = "host" => executed = (IF "Step" \in hr THEN 1 ELSE 0)

(* Run comes back with no halt reason only when the cycles are used up.    *)
ReturnsForAReason == ctl = "exit_exited" /\ halt_reason = {} => counting /\ cycles = 0

(* Once HaltExecution is called, Run returns.                              *)
HaltStopsRun == "UserDefined" \in halt_reason ~> ctl = "host"

(* While the host keeps calling Run, every invalidation request is served. *)
RequestsAreServed == ~NothingRequested ~> NothingRequested

----------------------------------------------------------------------------
(* The inductive invariants.                                               *)

(* In GetBlock, called by Run or Step (cont = "enter") or by the code.     *)
LookingUp == ctl \in {"lookup", "translate", "emit"} \/ (ctl = "perform" /\ back = "translate")
Executing == {"body", "svc", "term"}

(* GetBlock is called for a reason, evicts only a full cache, and emits    *)
(* only what is not compiled and fits.                                     *)
LookupConsistent ==
  /\ cont # "jump" => LookingUp
  /\ missing = (IF cont = "fast" THEN pc ELSE NoDesc)
  /\ back # "host" => ctl = "perform"
  /\ back = "translate" => Full /\ invalidate_entire_cache /\ hr = {"CacheInvalidation"}
  /\ ctl \in {"translate", "emit"} => ~Full
  /\ ctl \in {"translate", "emit"} \/ back = "translate" => ~Compiled(Want)

(* Every block in the cache is a translation of what memory once held.     *)
CodeTranslated ==
  \A s \in 1..next - 1 :
    src[s] <= mem /\ code[s] = BlockOf(code[s].desc, Translate[code[s].desc][src[s]])

(* Run and Step enter the block of the PC, Step always a block.            *)
EntersGuest ==
  ctl = "enter" => IF ptr = ReturnFromRunCode THEN ~stepping
                   ELSE Holds(ptr, IF stepping THEN SingleStep[pc] ELSE pc)

(* The block being executed is intact, and its terminal has its sites.     *)
ExecutesBlock ==
  /\ ctl \in Executing => cur \in 1..next - 1
  /\ ctl \in {"svc", "term"} =>
       /\ term \in Terminal
       /\ term.check \/ ctl = "svc" => term.kind \notin Links \cup {"Interpret"}
       /\ IsA32 /\ Linked(CurDesc) /\ term.kind = "LinkBlock" => term.next \in code[cur].pushes

(* The code stops for a reason. *)
StopsForAReason == ctl \in {"exit", "exit_exited"} /\ halt_reason = {} => counting /\ cycles = 0

(* A request is queued before it is published. *)
Queued(v) == invalidate_entire_cache \/ Written[v] \in invalid_cache_ranges

RequestsQueued ==
  /\ asked \subseteq 1..mem /\ published \subseteq 1..mem /\ floor \subseteq published
  /\ asked # {} => locked
  /\ \A v \in asked : Queued(v)

(* The run loop, GetBlock and the cache agree, also across a Reset.        *)
JitInv ==
  /\ JitTypeOK /\ counting \in CycleCounting /\ CacheInv
  /\ LookupConsistent /\ CodeTranslated /\ EntersGuest /\ ExecutesBlock
  /\ StopsForAReason /\ RequestsQueued

(* A way to the block in slot s that is not in the block itself: links and *)
(* table entries lead to what is compiled.                                 *)
Reachable(s) == (\E d \in Desc : block_descriptors[d] = s) \/ (\E i \in RSBIndex : rsb[i].ptr = s)

HaltDue == "CacheInvalidation" \in halt_reason \/ (ctl = "perform" /\ "CacheInvalidation" \in hr)

(* StaleIsPending, also of the blocks only the RSB knows. *)
ReachableIsPending ==
  \A v \in published, s \in 1..next - 1 : Reachable(s) /\ Stale(s, v) => Queued(v) /\ HaltDue

(* What is rewritten while it is translated is queued again. *)
TranslationCurrent ==
  ctl = "emit" =>
    /\ \A v \in floor : v <= lo
    /\ \A v \in published : v > lo => Queued(v) /\ "CacheInvalidation" \in halt_reason

(* What a run must not execute is removed before it picks a block ...      *)
FloorPending ==
  ctl = "perform" /\ back = "pick" =>
    \A v \in floor, s \in 1..next - 1 : Reachable(s) /\ Stale(s, v) => "CacheInvalidation" \in hr

(* ... and from then on nothing the run can come to is older.              *)
InRun == ctl # "host" /\ (ctl = "perform" => back = "translate")
Held(s) == Reachable(s) \/ (ctl = "enter" /\ ptr = s) \/ (ctl \in Executing /\ cur = s)
RunFresh == InRun => \A v \in floor, s \in 1..next - 1 : Held(s) => ~Stale(s, v)

(* No invalidation is lost; this is where Reset does not fit.              *)
FreshInv == ReachableIsPending /\ TranslationCurrent /\ FloorPending /\ RunFresh

(* Step enters the code once, and the one block leads out of it.           *)
BeforeEntry == ctl \in {"pick", "enter"} \/ (LookingUp /\ cont = "enter") \/ (ctl = "perform" /\ back = "pick")
Returned == ctl = "host" \/ (ctl = "perform" /\ back = "host")
StepInv ==
  /\ "Step" \in halt_reason => stepping /\ ~BeforeEntry /\ ~Returned
  /\ stepping =>
       /\ BeforeEntry \/ ctl = "body" => executed = 0
       /\ ctl \in Executing => CurDesc \notin Loc
       /\ Returned => executed = (IF "Step" \in hr THEN 1 ELSE 0)
       /\ ctl = "exit_exited" => executed = (IF "Step" \in halt_reason THEN 1 ELSE 0)
       /\ ~BeforeEntry /\ ~Returned /\ ctl # "exit_exited" =>
            /\ "Step" \in halt_reason /\ ~LookingUp /\ ctl # "fast"
            /\ ctl # "body" => executed = 1

(* The registers hold the guest's MXCSR exactly while emitted code runs.   *)
InCode == ctl \in Executing \cup {"fast", "dispatch", "exit"} \/ (LookingUp /\ cont # "enter")
MxcsrTracked ==
  mxcsr = IF InCode THEN [reg |-> "guest", guest |-> "guest", saved |-> "host"]
                    ELSE [reg |-> "host", guest |-> "guest", saved |-> "host"]

----------------------------------------------------------------------------
(* Where the guest is: in the block being executed, at the location its    *)
(* terminal leads to, and otherwise where the PC of the JIT state says.    *)
GuestLoc ==
  CASE ctl = "body" -> Base(CurDesc)
    [] ctl = "term" /\ term.kind \in Links \cup {"Interpret"} -> term.next
    [] OTHER -> pc

GuestWhere ==
  CASE ctl = "body" -> "block"
    [] ctl \in {"host", "svc", "interpret"} -> "host"
    [] OTHER -> "between"

Guest == INSTANCE GuestCPU WITH loc <- GuestLoc, where <- GuestWhere

(* The run loop, the patched links, the RSB and the fast dispatch table    *)
(* only ever execute the guest's program: JitSpec implements GuestCPU.     *)
RunsGuest == Guest!GuestSpec

=============================================================================
