----------------------------- MODULE CodeCache -----------------------------
(***************************************************************************)
(* The code cache of the x64 backend: EmitX64 with its A32 and A64         *)
(* subclasses, BlockOfCode, BlockRangeInformation and the two structures   *)
(* that hold host code pointers outside the cache, the return stack buffer *)
(* (RSB) of the JIT state and the fast dispatch table.                     *)
(*                                                                         *)
(* Host code is abstracted to slots: the n-th block emitted since the last *)
(* BlockOfCode::ClearCache occupies slot n, and clearing the cache moves   *)
(* the emission point back to slot 1, so the same host addresses are used  *)
(* again for other blocks.  Of the emitted bytes only the patchable sites  *)
(* are kept: the jumps to other blocks and the "mov rcx" that loads the    *)
(* code pointer an RSB push will store.                                    *)
(***************************************************************************)
EXTENDS Integers

CONSTANTS Desc,       \* IR::LocationDescriptor values
          NoDesc,     \* the all-ones descriptor of an empty entry
          Addr,       \* guest code addresses
          CacheSize,  \* how many blocks the code cache holds
          RSBSize,    \* entries of the return stack buffer
          Bucket,     \* entries of the fast dispatch table
          Hash,       \* crc32 of a descriptor, masked: its table entry
          Blocks      \* the blocks the translator can produce

ASSUME DescAssumption == NoDesc \notin Desc
ASSUME SizeAssumption == CacheSize \in Nat \ {0} /\ RSBSize \in Nat \ {0}
ASSUME HashAssumption == Hash \in [Desc -> Bucket]

VARIABLES next,               \* BlockOfCode::getCurr, as a slot
          code,               \* the block emitted in each slot
          jump,               \* target of the jump sites of a slot, by descriptor
          movrcx,             \* immediate of the mov rcx sites of a slot
          block_descriptors,  \* entry point of each compiled descriptor, or 0
          patch_information,  \* the slots with a site for each descriptor
          block_ranges,       \* the guest addresses each descriptor was read from
          rsb, rsb_ptr,       \* return stack buffer
          fast_dispatch_table,
          missing             \* descriptor a fast dispatch miss is looking up

cacheVars == <<next, code, jump, movrcx, block_descriptors, patch_information,
               block_ranges, rsb, rsb_ptr, fast_dispatch_table, missing>>

emitVars == <<next, code, jump, movrcx, block_descriptors, patch_information, block_ranges>>

----------------------------------------------------------------------------
Slot == 1..CacheSize
RSBIndex == 0..RSBSize - 1

ReturnFromRunCode == 0   \* entry of the dispatcher loop, in the prelude
nullptr == -1
CodePtr == Slot \cup {ReturnFromRunCode, nullptr}

(* What the emitter keeps of a block: the descriptors it has a jump site   *)
(* for, those it has a mov rcx site for, and the guest addresses it covers *)
Block == [desc: Desc, links: SUBSET Desc, pushes: SUBSET Desc, cover: SUBSET Addr]
NoBlock == [desc |-> NoDesc, links |-> {}, pushes |-> {}, cover |-> {}]

ASSUME BlocksAssumption == Blocks \subseteq Block

Empty == [loc |-> NoDesc, ptr |-> nullptr]
Entry == [loc: Desc \cup {NoDesc}, ptr: CodePtr]

CacheTypeOK ==
  /\ next \in 1..CacheSize + 1
  /\ code \in [Slot -> Block \cup {NoBlock}]
  /\ jump \in [Slot -> [Desc -> CodePtr]]
  /\ movrcx \in [Slot -> [Desc -> CodePtr]]
  /\ block_descriptors \in [Desc -> Slot \cup {0}]
  /\ patch_information \in [Desc -> [jmp: SUBSET Slot, mov_rcx: SUBSET Slot]]
  /\ block_ranges \subseteq Desc \X Addr
  /\ rsb \in [RSBIndex -> Entry]
  /\ rsb_ptr \in RSBIndex
  /\ fast_dispatch_table \in [Bucket -> Entry]
  /\ missing \in Desc \cup {NoDesc}

CacheInit ==
  /\ next = 1
  /\ code = [s \in Slot |-> NoBlock]
  /\ jump = [s \in Slot |-> [d \in Desc |-> ReturnFromRunCode]]
  /\ movrcx = [s \in Slot |-> [d \in Desc |-> ReturnFromRunCode]]
  /\ block_descriptors = [d \in Desc |-> 0]
  /\ patch_information = [d \in Desc |-> [jmp |-> {}, mov_rcx |-> {}]]
  /\ block_ranges = {}
  /\ rsb = [i \in RSBIndex |-> Empty]
  /\ rsb_ptr = 0
  /\ fast_dispatch_table = [b \in Bucket |-> Empty]
  /\ missing = NoDesc

----------------------------------------------------------------------------
Compiled(d) == block_descriptors[d] # 0

(* SpaceRemaining below MINIMUM_REMAINING_CODESIZE *)
Full == next > CacheSize

(* The sites of `value` listed for the descriptors ds now hold p. *)
Patched(value, sites, ds, p) ==
  [s \in Slot |-> [d \in Desc |-> IF d \in ds /\ s \in sites[d] THEN p ELSE value[s][d]]]

(* A new block's own sites: each goes to the target's entry point when the *)
(* target is compiled and to the dispatcher otherwise.                     *)
OwnSites(value, targets) ==
  [value EXCEPT ![next] = [d \in Desc |-> IF d \in targets THEN block_descriptors[d]
                                                           ELSE ReturnFromRunCode]]

JmpSites(pi) == [d \in Desc |-> pi[d].jmp]
RcxSitesForgotten(pi) == [d \in Desc |-> {}]
RcxSites(pi) == [d \in Desc |-> pi[d].mov_rcx]

WithUnresolvedSites(b) ==
  [d \in Desc |->
    [jmp     |-> patch_information[d].jmp     \cup (IF d \in b.links /\ ~Compiled(d) THEN {next} ELSE {}),
     mov_rcx |-> patch_information[d].mov_rcx \cup (IF d \in b.pushes THEN {next} ELSE {})]]

(* Sites are registered whether or not the target is compiled yet.         *)
WithSites(b) ==
  [d \in Desc |->
    [jmp     |-> patch_information[d].jmp     \cup (IF d \in b.links  THEN {next} ELSE {}),
     mov_rcx |-> patch_information[d].mov_rcx \cup (IF d \in b.pushes THEN {next} ELSE {})]]

(* A32EmitX64::Emit, A64EmitX64::Emit and RegisterBlock: the block is      *)
(* written at the emission point, its range is recorded, every site that   *)
(* waits for its descriptor (its own included) is patched to it.           *)
EmitBlock(b) ==
  /\ ~Full
  /\ ~Compiled(b.desc)
  /\ next' = next + 1
  /\ code' = [code EXCEPT ![next] = b]
  /\ patch_information' = WithSites(b)
  /\ jump' = Patched(OwnSites(jump, b.links), JmpSites(WithSites(b)), {b.desc}, next)
  /\ movrcx' = Patched(OwnSites(movrcx, b.pushes), RcxSites(WithSites(b)), {b.desc}, next)
  /\ block_ranges' = block_ranges \cup ({b.desc} \X b.cover)
  /\ block_descriptors' = [block_descriptors EXCEPT ![b.desc] = next]
  /\ UNCHANGED <<rsb, rsb_ptr, fast_dispatch_table, missing>>

(* The subclasses' Unpatch: the table entry a descriptor hashes to is      *)
(* reset, whatever descriptor it holds.                                    *)
KeepEntries(gone) == fast_dispatch_table
ResetEntries(gone) ==
  [b \in Bucket |-> IF \E d \in gone : Hash[d] = b THEN Empty ELSE fast_dispatch_table[b]]

(* EmitX64::InvalidateBasicBlocks.  The patch sites inside an erased block *)
(* stay registered.                                                        *)
InvalidateBasicBlocks(ds) ==
  LET gone == {d \in ds : Compiled(d)}
  IN /\ jump' = Patched(jump, JmpSites(patch_information), gone, ReturnFromRunCode)
     /\ movrcx' = Patched(movrcx, RcxSites(patch_information), gone, ReturnFromRunCode)
     /\ fast_dispatch_table' = ResetEntries(gone)
     /\ block_descriptors' = [d \in Desc |-> IF d \in gone THEN 0 ELSE block_descriptors[d]]
     /\ UNCHANGED <<next, code, patch_information, block_ranges, missing>>

(* BlockRangeInformation::InvalidateRanges *)
WithinRanges(ranges) == {d \in Desc : \A a \in Addr : <<d, a>> \in block_ranges => a \in ranges}
InRanges(ranges) == {d \in Desc : \E a \in ranges : <<d, a>> \in block_ranges}

ResetRSB ==
  /\ rsb' = [i \in RSBIndex |-> Empty]
  /\ UNCHANGED rsb_ptr

(* BlockOfCode::ClearCache and the emitters' ClearCache: the emission point *)
(* moves back, and what it moved over counts as overwritten.               *)
ClearBlocks ==
  /\ next' = 1
  /\ code' = [s \in Slot |-> NoBlock]
  /\ jump' = [s \in Slot |-> [d \in Desc |-> ReturnFromRunCode]]
  /\ movrcx' = [s \in Slot |-> [d \in Desc |-> ReturnFromRunCode]]
  /\ block_descriptors' = [d \in Desc |-> 0]
  /\ patch_information' = [d \in Desc |-> [jmp |-> {}, mov_rcx |-> {}]]
  /\ block_ranges' = {}
  /\ fast_dispatch_table' = [b \in Bucket |-> Empty]
  /\ UNCHANGED missing

(* The two ways PerformRequestedCacheInvalidation empties the cache. *)
InvalidateAllButRSB == ClearBlocks /\ UNCHANGED <<rsb, rsb_ptr>>
InvalidateAll == ResetRSB /\ ClearBlocks

InvalidateRangesButRSB(ranges) == InvalidateBasicBlocks(InRanges(ranges)) /\ UNCHANGED <<rsb, rsb_ptr>>
InvalidateRanges(ranges) == ResetRSB /\ InvalidateBasicBlocks(InRanges(ranges))

----------------------------------------------------------------------------
(* PushRSBHelper, executed by the block in slot s. *)
PushRSB(s, d) ==
  /\ rsb' = [rsb EXCEPT ![rsb_ptr] = [loc |-> d, ptr |-> movrcx[s][d]]]
  /\ rsb_ptr' = (rsb_ptr + 1) % RSBSize

(* terminal_handler_pop_rsb_hint and the start of Run: the index steps     *)
(* back and only the entry it reaches is compared.                         *)
RSBTop == (rsb_ptr + RSBSize - 1) % RSBSize
RSBAlwaysHit(d) == rsb[RSBTop].loc # NoDesc
RSBHit(d) == rsb[RSBTop].loc = d

(* terminal_handler_fast_dispatch_hint: on a miss the descriptor is stored *)
(* in the entry before LookupBlock is called, the code pointer after.      *)
FastHit(d) == fast_dispatch_table[Hash[d]].loc = d
FastMiss(d) ==
  /\ ~FastHit(d)
  /\ missing' = d
  /\ fast_dispatch_table' = [fast_dispatch_table EXCEPT ![Hash[d]] = [loc |-> d, ptr |-> @.ptr]]
FastStore(p) ==
  /\ missing # NoDesc
  /\ fast_dispatch_table' = [fast_dispatch_table EXCEPT ![Hash[missing]] = [loc |-> @.loc, ptr |-> p]]
  /\ missing' = NoDesc
----------------------------------------------------------------------------
(* The cache on its own, used in every way the run loop can use it.        *)

Running == missing = NoDesc

Lookup ==
  \E b \in Blocks : EmitBlock(b) /\ (Running \/ b.desc = missing)

Evict == Full /\ InvalidateAll

Invalidate == Running /\ (InvalidateAll \/ \E A \in SUBSET Addr : InvalidateRanges(A))

(* FastmemCallback recompiles the faulting block without touching the RSB. *)
Fastmem ==
  /\ Running
  /\ \E s \in 1..next - 1 : InvalidateBasicBlocks({code[s].desc})
  /\ UNCHANGED <<rsb, rsb_ptr>>

Call ==
  /\ Running
  /\ \E s \in 1..next - 1 : \E d \in code[s].pushes : PushRSB(s, d)
  /\ UNCHANGED <<emitVars, fast_dispatch_table, missing>>

Return ==
  /\ Running
  /\ rsb_ptr' = RSBTop
  /\ UNCHANGED <<emitVars, rsb, fast_dispatch_table, missing>>

(* jit_state = {}: the RSB is part of it. *)
ResetState ==
  /\ Running
  /\ rsb' = [i \in RSBIndex |-> Empty] /\ rsb_ptr' = 0
  /\ UNCHANGED <<emitVars, fast_dispatch_table, missing>>

IndirectBranch ==
  /\ Running
  /\ \E d \in Desc : FastMiss(d)
  /\ UNCHANGED <<emitVars, rsb, rsb_ptr>>

IndirectBranchFound ==
  /\ missing # NoDesc
  /\ Compiled(missing)
  /\ FastStore(block_descriptors[missing])
  /\ UNCHANGED <<emitVars, rsb, rsb_ptr>>

CacheNext == Lookup \/ Evict \/ Invalidate \/ Fastmem \/ Call \/ Return
             \/ ResetState \/ IndirectBranch \/ IndirectBranchFound

CacheSpec == CacheInit /\ [][CacheNext]_cacheVars

----------------------------------------------------------------------------
(* p is the address of an intact block that was compiled for d.            *)
Holds(p, d) == p \in 1..next - 1 /\ code[p].desc = d

(* No code path of the cache ever jumps to overwritten code or to the code *)
(* of another guest location: every entry point, every RSB prediction and  *)
(* every fast dispatch entry leads to a block of its own descriptor.       *)
CodePtrsValid ==
  /\ \A d \in Desc : Compiled(d) => Holds(block_descriptors[d], d)
  /\ \A i \in RSBIndex : rsb[i].loc # NoDesc =>
       rsb[i].ptr = ReturnFromRunCode \/ Holds(rsb[i].ptr, rsb[i].loc)
  /\ \A b \in Bucket : LET e == fast_dispatch_table[b]
                       IN e.loc \notin {NoDesc, missing} => Holds(e.ptr, e.loc)
  /\ \A s \in 1..next - 1 : \A d \in Desc :
       /\ jump[s][d] = ReturnFromRunCode \/ Holds(jump[s][d], d)
       /\ movrcx[s][d] = ReturnFromRunCode \/ Holds(movrcx[s][d], d)

(* Block linking is exact: the jumps and RSB predictions written in any    *)
(* emitted block, a dead one included, go to the current translation of    *)
(* their target and to the dispatcher when it has none (EmitX64::Patch and *)
(* Unpatch).                                                               *)
LinksCurrent ==
  \A s \in 1..next - 1 :
    /\ \A d \in code[s].links  : jump[s][d]   = block_descriptors[d]
    /\ \A d \in code[s].pushes : movrcx[s][d] = block_descriptors[d]

(* A fast dispatch entry is never older than the block map: outside the    *)
(* lookup of a miss it names the current translation of its descriptor.    *)
FastDispatchCurrent ==
  \A b \in Bucket : LET e == fast_dispatch_table[b]
                    IN e.loc \notin {NoDesc, missing} => e.ptr = block_descriptors[e.loc]

(* The patch lists are exact: they name the sites of the emitted blocks,   *)
(* dead ones included, and nothing beyond the emission point.              *)
SitesExact ==
  \A d \in Desc :
    /\ patch_information[d].jmp     = {s \in 1..next - 1 : d \in code[s].links}
    /\ patch_information[d].mov_rcx = {s \in 1..next - 1 : d \in code[s].pushes}

LinksExact ==
  \A s \in 1..next - 1 : \A d \in Desc :
    /\ jump[s][d]   = (IF d \in code[s].links  THEN block_descriptors[d] ELSE ReturnFromRunCode)
    /\ movrcx[s][d] = (IF d \in code[s].pushes THEN block_descriptors[d] ELSE ReturnFromRunCode)

EntriesValid ==
  /\ \A s \in 1..next - 1 : code[s] \in Block
  /\ \A d \in Desc : Compiled(d) => Holds(block_descriptors[d], d)

RSBValid ==
  \A i \in RSBIndex : rsb[i].loc # NoDesc =>
    rsb[i].ptr = ReturnFromRunCode \/ Holds(rsb[i].ptr, rsb[i].loc)

TableValid ==
  \A b \in Bucket : LET e == fast_dispatch_table[b]
                    IN /\ e.loc # NoDesc => Hash[e.loc] = b
                       /\ e.loc \notin {NoDesc, missing} =>
                            Compiled(e.loc) /\ e.ptr = block_descriptors[e.loc]

MissValid == missing # NoDesc => fast_dispatch_table[Hash[missing]].loc \in {missing, NoDesc}

RangesCover ==
  \A d \in Desc : Compiled(d) => \A a \in code[block_descriptors[d]].cover : <<d, a>> \in block_ranges

(* The inductive invariant behind the properties above: the block map, the *)
(* patch lists, the ranges and the written sites agree with one another.   *)
CacheInv == /\ CacheTypeOK
            /\ SitesExact
            /\ LinksExact
            /\ EntriesValid
            /\ RSBValid
            /\ TableValid
            /\ MissValid
            /\ RangesCover

(* After a range invalidation nothing leads to a block that was translated *)
(* from the range: no entry point, link, table entry or RSB entry.         *)
InvalidateIsComplete ==
  [][\A A \in SUBSET Addr : InvalidateRanges(A) =>
       \A s \in {x \in 1..next - 1 : code[x].cover \cap A # {}} :
         /\ \A d \in Desc : block_descriptors'[d] # s
         /\ \A i \in RSBIndex : rsb'[i].ptr # s
         /\ \A b \in Bucket : fast_dispatch_table'[b].loc # NoDesc =>
                              fast_dispatch_table'[b].ptr # s
         /\ \A x \in 1..next - 1 : \A d \in Desc : jump'[x][d] # s /\ movrcx'[x][d] # s]_cacheVars

=============================================================================
