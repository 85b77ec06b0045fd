------------------------------ MODULE Arm64Jit ------------------------------
(***************************************************************************)
(* Jit::Run of the arm64 backend: the run loop around the address space,   *)
(* the prelude's run_code, return_to_dispatcher and return_from_run_code,  *)
(* the block terminals, and the requests other threads make meanwhile.     *)
(* Step, whose blocks neither link nor predict, is left out.               *)
(*                                                                         *)
(* The return stack buffer is in the stack frame of run_code: a run starts *)
(* with an empty one, and nothing outside the frame can reset it.  Guest   *)
(* code and its translations are abstracted as in Jit.                     *)
(***************************************************************************)
EXTENDS AddressSpace

CONSTANTS MaxVersion, Written, Translate, Optimizations,
          EnableCycleCounting, CheckHaltOnMemoryAccess,
          Fastmem,             \* fastmem with recompile_on_fastmem_failure
          MaxTicks,            \* bound on GetTicksRemaining
          RSBCount,            \* entries of the return stack buffer
          Garbage,             \* what an uninitialised RSB target may hold
          HostReasons,         \* what HaltExecution is called with
          HostPC,              \* what the host sets the PC to
          Ranges               \* what InvalidateCacheRange is called with

Version == 0..MaxVersion
HaltReason == {"CacheInvalidation", "MemoryAbort", "UserDefined"}
RSBIndex == 0..RSBCount - 1

Links == {"LinkBlock", "LinkBlockFast"}
Terminal == [kind: Links \cup {"ReturnToDispatch", "PopRSBHint", "FastDispatchHint"},
             next: Desc, check: BOOLEAN]

(* EmitArm64 refuses an Interpret terminal: no block has one. *)
IR == [cover: SUBSET Addr, push: SUBSET Desc, condfail: SUBSET Desc, mem: SUBSET Desc,
       svc: BOOLEAN, terms: SUBSET Terminal]

ASSUME TranslateAssumption ==
  /\ MaxVersion \in Nat
  /\ Written \in [1..MaxVersion -> Addr]
  /\ Translate \in [Desc -> [Version -> IR]]
  /\ \A d \in Desc : \A v \in 1..MaxVersion :
       Written[v] \notin Translate[d][v - 1].cover => Translate[d][v] = Translate[d][v - 1]

Linked == "BlockLinking" \in Optimizations
UsesRSB == "ReturnStackBuffer" \in Optimizations

(* The relocations EmitArm64 leaves in a block. *)
BlockOf(d, ir) ==
  [desc   |-> d,
   cover  |-> ir.cover,
   links  |-> IF Linked THEN {t.next : t \in {u \in ir.terms : u.kind \in Links}} \cup ir.condfail
                           ELSE {},
   pushes |-> IF UsesRSB THEN ir.push ELSE {}]

ASSUME HostAssumption ==
  HostPC \subseteq Desc /\ Ranges \subseteq SUBSET Addr /\ HostReasons \subseteq HaltReason
ASSUME StackAssumption ==
  RSBCount \in Nat \ {0} /\ MaxTicks \in Nat /\ Garbage \subseteq Desc \cup {NoDesc}

(* The frontends put only a PopRSBHint or a ReturnToDispatch inside a      *)
(* CheckHalt, and end a block that calls the supervisor or raises an       *)
(* exception with one of these, having written the PC.                     *)
ASSUME TerminalAssumption ==
  \A d \in Desc, v \in Version : \A t \in Translate[d][v].terms :
    t.check \/ Translate[d][v].svc => t.kind \notin Links

ASSUME BlocksAreTranslations ==
  Blocks = {BlockOf(d, Translate[d][v]) : d \in Desc, v \in Version}

VARIABLES
  pc,                  \* current_state: the location the PC and FPCR name
  ctl,                 \* where the JIT thread is
  entering,            \* GetOrEmit is called by Run, not by the dispatcher
  cur,                 \* code pointer in hand, then slot being executed
  term,                \* terminal being executed
  hr,                  \* the HaltReason in hand
  rsb, rsb_ptr,        \* StackLayout
  Xticks,              \* 0 when not positive
  halt_reason, invalid_cache_ranges, invalidate_entire_cache,
  locked,              \* a requesting thread holds invalidation_mutex
  do_not_fastmem,
  fastmem,             \* the slots whose code uses fastmem
  mem, lo, src,        \* guest code versions: memory, GenerateIR began, of a slot
  asked, published,    \* versions the request in progress, the finished ones cover
  floor,               \* what was published when the run began
  overrun              \* Emit has cleared the cache during this run

runVars == <<pc, ctl, entering, cur, term, hr, floor, overrun>>
stackVars == <<rsb, rsb_ptr, Xticks>>
requestVars == <<invalid_cache_ranges, invalidate_entire_cache, locked, asked, published>>
translateVars == <<do_not_fastmem, fastmem, lo, src>>
armVars == <<spaceVars, runVars, stackVars, requestVars, translateVars, halt_reason, mem>>

NoTerm == [kind |-> "ReturnToDispatch", next |-> NoDesc, check |-> FALSE]
Entry == [loc: Desc \cup {NoDesc}, ptr: Slot \cup {ReturnToDispatcher}]
Control == {"host", "perform", "leave", "lookup", "emit", "enter", "body", "svc", "term",
            "dispatch", "exit", "abort"}

ArmTypeOK ==
  /\ SpaceTypeOK
  /\ pc \in Desc /\ ctl \in Control /\ entering \in BOOLEAN
  /\ cur \in Slot \cup {ReturnToDispatcher} /\ term \in Terminal \cup {NoTerm}
  /\ hr \subseteq HaltReason /\ halt_reason \subseteq HaltReason
  /\ rsb \in [RSBIndex -> Entry] /\ rsb_ptr \in RSBIndex /\ Xticks \in 0..MaxTicks
  /\ invalid_cache_ranges \subseteq Addr /\ invalidate_entire_cache \in BOOLEAN
  /\ locked \in BOOLEAN /\ do_not_fastmem \subseteq Desc /\ fastmem \subseteq Slot
  /\ mem \in Version /\ lo \in Version /\ src \in [Slot -> Version]
  /\ asked \subseteq Version /\ published \subseteq Version /\ floor \subseteq Version
  /\ overrun \in BOOLEAN

NoEntries == [i \in RSBIndex |-> [loc |-> NoDesc, ptr |-> ReturnToDispatcher]]

ArmInit ==
  /\ SpaceInit
  /\ pc \in Desc /\ ctl = "host" /\ entering = FALSE
  /\ cur = ReturnToDispatcher /\ term = NoTerm /\ hr = {} /\ halt_reason = {}
  /\ rsb = NoEntries /\ rsb_ptr = 0 /\ Xticks = 0
  /\ invalid_cache_ranges = {} /\ invalidate_entire_cache = FALSE /\ locked = FALSE
  /\ do_not_fastmem = {} /\ fastmem = {} /\ mem = 0 /\ lo = 0 /\ src = [s \in Slot |-> 0]
  /\ asked = {} /\ published = {} /\ floor = {} /\ overrun = FALSE

----------------------------------------------------------------------------
(* The host thread between runs.                                           *)

Run ==
  /\ ctl = "host" /\ ctl' = "perform"
  /\ hr' = halt_reason /\ floor' = published
  /\ UNCHANGED <<spaceVars, stackVars, requestVars, translateVars, halt_reason, mem,
                 pc, entering, cur, term, overrun>>

ResetWithHaltReason ==
  /\ ctl = "host"
  /\ pc' \in HostPC
  /\ halt_reason' = {}
  /\ UNCHANGED <<spaceVars, stackVars, requestVars, translateVars, mem,
                 ctl, entering, cur, term, hr, floor, overrun>>

(* SetPC, and Reset: current_state = {} leaves halt_reason, a member of    *)
(* Impl here, alone.                                                       *)
Reset ==
  /\ ctl = "host"
  /\ pc' \in HostPC
  /\ UNCHANGED <<spaceVars, stackVars, requestVars, translateVars, halt_reason, mem,
                 ctl, entering, cur, term, hr, floor, overrun>>

----------------------------------------------------------------------------
(* Any thread, at any time.                                                *)

WriteCode ==
  /\ mem < MaxVersion
  /\ mem' = mem + 1
  /\ UNCHANGED <<spaceVars, runVars, stackVars, requestVars, translateVars, halt_reason>>

HaltExecution ==
  /\ \E r \in HostReasons : halt_reason' = halt_reason \cup {r}
  /\ UNCHANGED <<spaceVars, runVars, stackVars, requestVars, translateVars, mem>>

(* InvalidateCacheRange and ClearCache of the interface up to              *)
(* HaltExecution, with the mutex.                                          *)
RequestRange ==
  /\ ~locked /\ locked' = TRUE
  /\ \E A \in Ranges :
       /\ invalid_cache_ranges' = invalid_cache_ranges \cup A
       /\ asked' = {v \in 1..mem : Written[v] \in A}
  /\ UNCHANGED <<spaceVars, runVars, stackVars, translateVars, halt_reason, mem,
                 invalidate_entire_cache, published>>

RequestClear ==
  /\ ~locked /\ locked' = TRUE
  /\ invalidate_entire_cache' = TRUE
  /\ asked' = 1..mem
  /\ UNCHANGED <<spaceVars, runVars, stackVars, translateVars, halt_reason, mem,
                 invalid_cache_ranges, published>>

(* ... and their HaltExecution(CacheInvalidation), the mutex released.     *)
RequestHalt ==
  /\ locked /\ locked' = FALSE
  /\ halt_reason' = halt_reason \cup {"CacheInvalidation"}
  /\ published' = published \cup asked /\ asked' = {}
  /\ UNCHANGED <<spaceVars, runVars, stackVars, translateVars, mem,
                 invalid_cache_ranges, invalidate_entire_cache>>

(* PerformRequestedCacheInvalidation(hr), before and after the run. *)
Perform ==
  /\ ctl \in {"perform", "leave"} /\ "CacheInvalidation" \in hr
  /\ ~locked
  /\ halt_reason' = halt_reason \ {"CacheInvalidation"}
  /\ \/ invalidate_entire_cache /\ ClearCache /\ fastmem' = {} /\ src' = [s \in Slot |-> 0]
     \/ ~invalidate_entire_cache /\ InvalidateCacheRanges(invalid_cache_ranges) /\ UNCHANGED <<fastmem, src>>
  /\ invalid_cache_ranges' = {} /\ invalidate_entire_cache' = FALSE
  /\ hr' = {}
  /\ ctl' = (IF ctl = "perform" THEN "lookup" ELSE "host")
  /\ entering' = (ctl = "perform")
  /\ UNCHANGED <<stackVars, locked, asked, published, do_not_fastmem, lo, mem,
                 pc, cur, term, floor, overrun>>

PerformNothing ==
  /\ ctl \in {"perform", "leave"} /\ "CacheInvalidation" \notin hr
  /\ hr' = {}
  /\ ctl' = (IF ctl = "perform" THEN "lookup" ELSE "host")
  /\ entering' = (ctl = "perform")
  /\ UNCHANGED <<spaceVars, stackVars, requestVars, translateVars, halt_reason, mem,
                 pc, cur, term, floor, overrun>>

----------------------------------------------------------------------------
(* GetOrEmit, for Run and for the dispatcher.                             *)

(* A jump to p: to a block, or to the dispatcher. *)
Goto(p) ==
  /\ ctl' = (IF p = ReturnToDispatcher THEN "dispatch" ELSE "body")
  /\ cur' = p
  /\ term' = NoTerm

GetFound ==
  /\ ctl = "lookup" /\ Get(pc) # nullptr
  /\ ctl' = (IF entering THEN "enter" ELSE "body")
  /\ cur' = Get(pc)
  /\ UNCHANGED <<spaceVars, stackVars, requestVars, translateVars, halt_reason, mem,
                 pc, entering, term, hr, floor, overrun>>

GenerateIRAlways ==
  /\ ctl = "lookup" /\ (Get(pc) = nullptr \/ ~entering)
  /\ ctl' = "emit"
  /\ lo' = mem
  /\ UNCHANGED <<spaceVars, stackVars, requestVars, halt_reason, mem, do_not_fastmem, fastmem, src,
                 pc, entering, cur, term, hr, floor, overrun>>

GenerateIR ==
  /\ ctl = "lookup" /\ Get(pc) = nullptr
  /\ ctl' = "emit"
  /\ lo' = mem
  /\ UNCHANGED <<spaceVars, stackVars, requestVars, halt_reason, mem, do_not_fastmem, fastmem, src,
                 pc, entering, cur, term, hr, floor, overrun>>

(* The code read is that of a version between the start and the end of the *)
(* translation.  What Emit returns is what Get now finds.                  *)
EmitTranslation ==
  /\ ctl = "emit" /\ ctl' = "lookup"
  /\ \E v \in lo..mem :
       LET s == IF Full THEN 1 ELSE offset
       IN /\ Emit(BlockOf(pc, Translate[pc][v]))
          /\ src' = [src EXCEPT ![s] = v]
          /\ fastmem' = IF Fastmem /\ Translate[pc][v].mem # {} /\ pc \notin do_not_fastmem
                        THEN fastmem \cup {s} ELSE fastmem \ {s}
  /\ overrun' = (overrun \/ (Full /\ ~entering))
  /\ lo' = 0
  /\ UNCHANGED <<stackVars, requestVars, halt_reason, mem, do_not_fastmem,
                 pc, entering, cur, term, hr, floor>>

----------------------------------------------------------------------------
(* run_code.  The code pointers of the RSB are initialised,                *)
(* its targets and its index are not.                                      *)
Ticks == IF EnableCycleCounting THEN 0..MaxTicks ELSE {0}

StackWithoutRSB ==
  /\ rsb' \in [RSBIndex -> [loc: Garbage, ptr: Slot \cup {ReturnToDispatcher}]]
  /\ rsb_ptr' \in RSBIndex

InitialStack ==
  IF UsesRSB
  THEN /\ rsb' \in [RSBIndex -> [loc: Garbage, ptr: {ReturnToDispatcher}]]
       /\ rsb_ptr' \in RSBIndex
  ELSE UNCHANGED <<rsb, rsb_ptr>>

Enter ==
  /\ ctl = "enter"
  /\ InitialStack
  /\ Xticks' \in Ticks
  /\ \/ halt_reason # {} /\ ctl' = "exit" /\ UNCHANGED <<cur, term>>
     \/ halt_reason = {} /\ Goto(cur)
  /\ entering' = FALSE /\ overrun' = FALSE
  /\ UNCHANGED <<spaceVars, requestVars, translateVars, halt_reason, mem, pc, hr, floor>>

----------------------------------------------------------------------------
(* A block.                                                                *)

CurDesc == code[cur].desc
CurIR == Translate[CurDesc][src[cur]]

AddCycles(n) == IF n > 0 THEN n - 1 ELSE 0

(* The conditional prelude of EmitArm64: the block's condition fails. *)
ConditionFailed ==
  /\ ctl = "body" /\ ctl' = "term"
  /\ \E l \in CurIR.condfail : term' = [kind |-> "LinkBlock", next |-> l, check |-> FALSE]
  /\ Xticks' = AddCycles(Xticks)
  /\ UNCHANGED <<spaceVars, rsb, rsb_ptr, requestVars, translateVars, halt_reason, mem,
                 pc, entering, cur, hr, floor, overrun>>

(* EmitIR<PushRSB>: the index is advanced first. *)
PushRSB(d) ==
  LET i == (rsb_ptr + 1) % RSBCount
  IN /\ rsb' = [rsb EXCEPT ![i] = [loc |-> d, ptr |-> scratch1[cur][d]]]
     /\ rsb_ptr' = i

Aborting == CheckHaltOnMemoryAccess /\ "MemoryAbort" \in halt_reason /\ CurIR.mem # {}

(* The instructions of a block: the RSB push, the write to the PC before a *)
(* terminal that dispatches on it, and the choice of the terminal.         *)
Execute ==
  /\ ctl = "body" /\ ~Aborting
  /\ ctl' = (IF CurIR.svc THEN "svc" ELSE "term")
  /\ \E t \in CurIR.terms :
       /\ term' = t
       /\ pc' = IF t.kind \in Links THEN pc ELSE t.next
  /\ \/ \E d \in code[cur].pushes : PushRSB(d)
     \/ code[cur].pushes = {} /\ UNCHANGED <<rsb, rsb_ptr>>
  /\ Xticks' = IF CurIR.svc THEN Xticks ELSE AddCycles(Xticks)
  /\ UNCHANGED <<spaceVars, requestVars, translateVars, halt_reason, mem,
                 entering, cur, hr, floor, overrun>>

(* A64CallSupervisor and A64ExceptionRaised: the ticks are reloaded. *)
CallSupervisor ==
  /\ ctl = "svc" /\ ctl' = "term"
  /\ pc' \in HostPC \cup {pc}
  /\ \E n \in Ticks : Xticks' = AddCycles(n)
  /\ UNCHANGED <<spaceVars, rsb, rsb_ptr, requestVars, translateVars, halt_reason, mem,
                 entering, cur, term, hr, floor, overrun>>

(* EmitA64CheckMemoryAbort *)
MemoryAbort ==
  /\ ctl = "body" /\ Aborting
  /\ pc' \in CurIR.mem
  /\ ctl' = "exit"
  /\ UNCHANGED <<spaceVars, stackVars, requestVars, translateVars, halt_reason, mem,
                 entering, cur, term, hr, floor, overrun>>

(* FastmemCallback: the block of the faulting instruction is looked up by  *)
(* its address; without one the process is aborted.                        *)
FastmemFault ==
  /\ ctl = "body" /\ cur \in fastmem
  /\ \/ /\ cur < offset
        /\ do_not_fastmem' = do_not_fastmem \cup {CurDesc}
        /\ InvalidateBasicBlocks({CurDesc})
        /\ UNCHANGED ctl
     \/ cur >= offset /\ ctl' = "abort" /\ UNCHANGED <<spaceVars, do_not_fastmem>>
  /\ UNCHANGED <<stackVars, requestVars, halt_reason, mem, fastmem, lo, src,
                 pc, entering, cur, term, hr, floor, overrun>>

----------------------------------------------------------------------------
(* The terminal of a block.                                                *)

Halting == term.check /\ halt_reason # {}

TermCheckHalt ==
  /\ ctl = "term" /\ Halting /\ Goto(ReturnToDispatcher)
  /\ UNCHANGED <<spaceVars, stackVars, requestVars, translateVars, halt_reason, mem,
                 pc, entering, hr, floor, overrun>>

(* What LinkBlock compares before its branch. *)
MayLink ==
  \/ term.kind = "LinkBlockFast"
  \/ EnableCycleCounting /\ Xticks > 0
  \/ ~EnableCycleCounting /\ halt_reason = {}

TermLinkWithoutPC ==
  /\ ctl = "term" /\ ~Halting /\ term.kind \in Links
  /\ Goto(IF Linked /\ MayLink THEN branch[cur][term.next] ELSE ReturnToDispatcher)
  /\ UNCHANGED <<spaceVars, stackVars, requestVars, translateVars, halt_reason, mem,
                 pc, entering, hr, floor, overrun>>

(* LinkBlock and LinkBlockFast: an unresolved branch is a NOP, and falls   *)
(* through to the write of the PC.                                         *)
TermLink ==
  /\ ctl = "term" /\ ~Halting /\ term.kind \in Links
  /\ LET p == IF Linked /\ MayLink THEN branch[cur][term.next] ELSE ReturnToDispatcher
     IN /\ pc' = IF p = ReturnToDispatcher THEN term.next ELSE pc
        /\ Goto(p)
  /\ UNCHANGED <<spaceVars, stackVars, requestVars, translateVars, halt_reason, mem,
                 entering, hr, floor, overrun>>

(* PopRSBHint: the entry at the index is compared, the index steps back.   *)
TermPopRSB ==
  /\ ctl = "term" /\ ~Halting /\ term.kind = "PopRSBHint" /\ UsesRSB
  /\ rsb_ptr' = (rsb_ptr + RSBCount - 1) % RSBCount
  /\ Goto(IF rsb[rsb_ptr].loc = pc THEN rsb[rsb_ptr].ptr ELSE ReturnToDispatcher)
  /\ UNCHANGED <<spaceVars, rsb, Xticks, requestVars, translateVars, halt_reason, mem,
                 pc, entering, hr, floor, overrun>>

TermDispatch ==
  /\ ctl = "term" /\ ~Halting
  /\ \/ term.kind \in {"ReturnToDispatch", "FastDispatchHint"}
     \/ term.kind = "PopRSBHint" /\ ~UsesRSB
  /\ Goto(ReturnToDispatcher)
  /\ UNCHANGED <<spaceVars, stackVars, requestVars, translateVars, halt_reason, mem,
                 pc, entering, hr, floor, overrun>>

----------------------------------------------------------------------------
(* return_to_dispatcher and return_from_run_code.                          *)

Dispatch ==
  /\ ctl = "dispatch"
  /\ ctl' = IF halt_reason # {} \/ (EnableCycleCounting /\ Xticks = 0) THEN "exit" ELSE "lookup"
  /\ UNCHANGED <<spaceVars, stackVars, requestVars, translateVars, halt_reason, mem,
                 pc, entering, cur, term, hr, floor, overrun>>

ExitKeepingRSB ==
  /\ ctl = "exit" /\ ctl' = "leave"
  /\ hr' = halt_reason /\ halt_reason' = {}
  /\ Xticks' = 0
  /\ cur' = ReturnToDispatcher /\ term' = NoTerm /\ overrun' = FALSE
  /\ UNCHANGED <<spaceVars, requestVars, translateVars, mem, pc, entering, floor, rsb, rsb_ptr>>

Exit ==
  /\ ctl = "exit" /\ ctl' = "leave"
  /\ hr' = halt_reason /\ halt_reason' = {}
  /\ rsb' = NoEntries /\ rsb_ptr' = 0 /\ Xticks' = 0
  /\ cur' = ReturnToDispatcher /\ term' = NoTerm /\ overrun' = FALSE
  /\ UNCHANGED <<spaceVars, requestVars, translateVars, mem, pc, entering, floor>>

----------------------------------------------------------------------------
ArmThread ==
  \/ Perform \/ PerformNothing \/ GetFound \/ GenerateIR \/ EmitTranslation
  \/ Enter \/ ConditionFailed \/ Execute \/ CallSupervisor \/ MemoryAbort
  \/ TermCheckHalt \/ TermLink \/ TermPopRSB \/ TermDispatch \/ Dispatch \/ Exit

OtherThreads == WriteCode \/ HaltExecution \/ RequestRange \/ RequestClear \/ RequestHalt

ArmNext == ArmThread \/ FastmemFault \/ Run \/ Reset \/ OtherThreads

ArmSpec == ArmInit /\ [][ArmNext]_armVars

----------------------------------------------------------------------------
Stale(s, v) == v > src[s] /\ Written[v] \in code[s].cover

(* An invalidation is never lost, not even by Reset: a compiled block      *)
(* older than a finished InvalidateCacheRange or ClearCache is still       *)
(* queued for removal, and the halt that leads to                          *)
(* PerformRequestedCacheInvalidation is still due.                         *)
ArmStaleIsPending ==
  \A v \in published, d \in Desc :
    Get(d) # nullptr /\ Stale(Get(d), v) =>
      /\ invalidate_entire_cache \/ Written[v] \in invalid_cache_ranges
      /\ "CacheInvalidation" \in halt_reason \/ (ctl \in {"perform", "leave"} /\ "CacheInvalidation" \in hr)

(* A run never executes guest code older than the invalidations finished   *)
(* before Run was called.                                                  *)
ArmRunSeesInvalidations == ctl = "body" => \A v \in floor : ~Stale(cur, v)

(* A prediction that would hit leads to a block of its own location, as    *)
(* long as Emit has not cleared the cache under the run.                   *)
PredictionsValid ==
  overrun \/ \A i \in RSBIndex : rsb[i].ptr = ReturnToDispatcher \/ Holds(rsb[i].ptr, rsb[i].loc)

----------------------------------------------------------------------------
(* The inductive invariant.                                                *)

(* A request is queued before it is published. *)
Queued(v) == invalidate_entire_cache \/ Written[v] \in invalid_cache_ranges

RequestsQueued ==
  /\ asked \subseteq 1..mem /\ published \subseteq 1..mem /\ floor \subseteq published
  /\ asked # {} => locked
  /\ \A v \in asked : Queued(v)

(* What is rewritten while it is translated is queued again. *)
TranslationCurrent ==
  ctl = "emit" =>
    /\ Get(pc) = nullptr /\ lo <= mem
    /\ \A v \in floor : v <= lo
    /\ \A v \in published : v > lo => Queued(v) /\ "CacheInvalidation" \in halt_reason

FloorPending ==
  ctl = "perform" =>
    \A v \in floor, d \in Desc : Get(d) # nullptr /\ Stale(Get(d), v) => "CacheInvalidation" \in hr

CodeTranslated ==
  \A s \in Slot : code[s] \in Block => code[s] = BlockOf(code[s].desc, Translate[code[s].desc][src[s]])

Outside == {"host", "perform", "leave"}
Executing == {"body", "svc", "term"}

(* Outside the frame of run_code there is no RSB, and no run to overrun.   *)
FrameEmpty ==
  /\ entering => ctl \in {"lookup", "emit", "enter"}
  /\ entering \/ ctl \in Outside => ~overrun
  /\ entering \/ ctl \in Outside \cup {"enter"} \/ ~UsesRSB => rsb = NoEntries

(* p is a block no older than what the run must see, or the dispatcher.    *)
Fresh(p) == p # nullptr => code[p] \in Block /\ \A v \in floor : ~Stale(p, v)

(* All that a run can reach is fresh: also, when Emit has cleared a full   *)
(* cache under it, everything the old blocks refer to.                     *)
ReachableFresh ==
  ctl \notin Outside =>
    /\ \A d \in Desc : Fresh(Get(d))
    /\ \A i \in RSBIndex : Fresh(rsb[i].ptr)
    /\ ctl \in Executing \cup {"enter"} => cur # nullptr /\ Fresh(cur)
    /\ overrun => \A s \in Slot : /\ \A d \in code[s].links : Fresh(branch[s][d])
                                  /\ \A d \in code[s].pushes : Fresh(scratch1[s][d])

CurrentKnown == ctl = "enter" \/ (~overrun /\ ctl \in Executing) => cur < offset

TerminalLinked ==
  ctl \in {"svc", "term"} =>
    /\ term \in Terminal /\ (Linked /\ term.kind \in Links => term.next \in code[cur].links)
    /\ term.check \/ ctl = "svc" => term.kind \notin Links

(* Run enters the block of the PC; no block is newer than memory. *)
EntersGuest ==
  /\ ctl = "enter" => CurDesc = pc
  /\ \A s \in Slot : src[s] <= mem

(* Requests, translations, the blocks in the cache and the pointers of a   *)
(* run agree: what the safety of the arm64 run loop rests on.              *)
ArmInv ==
  /\ ArmTypeOK /\ SpaceInv
  /\ RequestsQueued /\ ArmStaleIsPending /\ TranslationCurrent /\ FloorPending
  /\ CodeTranslated /\ FrameEmpty /\ ReachableFresh
  /\ CurrentKnown /\ TerminalLinked /\ EntersGuest /\ PredictionsValid

----------------------------------------------------------------------------
GuestLoc ==
  CASE ctl = "body" -> CurDesc
    [] ctl = "term" /\ term.kind \in Links -> term.next
    [] OTHER -> pc

GuestWhere ==
  CASE ctl = "body" -> "block"
    [] ctl \in {"host", "svc"} -> "host"
    [] OTHER -> "between"

Guest == INSTANCE GuestCPU WITH loc <- GuestLoc, where <- GuestWhere,
                                Loc <- Desc, SingleStep <- [d \in Desc |-> d]

(* The arm64 run loop executes the guest's program.                        *)
ArmRunsGuest == Guest!GuestSpec

(* ... until Emit clears the cache under a run whose RSB has predictions.  *)
ArmRunsGuestUntilOverrun ==
  Guest!GuestInit /\ [][overrun \/ Guest!GuestNext]_Guest!guestVars
=============================================================================
