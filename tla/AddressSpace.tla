---------------------------- MODULE AddressSpace ----------------------------
(***************************************************************************)
(* AddressSpace, the code cache of the arm64 backend: block entries,       *)
(* relocations and the references that relink them.                        *)
(*                                                                         *)
(* Host code is abstracted to slots as in CodeCache, with one difference   *)
(* that the code of this backend makes: ClearCache only moves the emission *)
(* point back.  When Emit clears the cache the old instructions stay where *)
(* they were until a new block is written over them; when the interface    *)
(* does, no run is left to execute them and they are forgotten at once.    *)
(***************************************************************************)
EXTENDS Integers

CONSTANTS Desc,       \* IR::LocationDescriptor values
          NoDesc,     \* a descriptor of no block
          Addr,       \* guest code addresses
          CacheSize,  \* how many blocks fit before less than 1 MiB remains
          Blocks      \* the blocks GenerateIR can produce

ASSUME DescAssumption == NoDesc \notin Desc
ASSUME SizeAssumption == CacheSize \in Nat \ {0}

VARIABLES offset,            \* code.offset(), as the slot written next
          code,              \* the block in each slot
          branch,            \* Branch relocations of a slot, by target
          scratch1,          \* MoveToScratch1 relocations of a slot, by target
          block_entries,     \* entry point of each compiled descriptor, or nullptr
          block_references,  \* the blocks with a relocation for each descriptor
          block_ranges       \* the guest addresses each descriptor was read from

spaceVars == <<offset, code, branch, scratch1, block_entries, block_references, block_ranges>>

Slot == 1..CacheSize
nullptr == 0

(* A NOP'd branch falls through to the dispatcher; an unresolved move      *)
(* loads its address.  Both are this pointer.                              *)
ReturnToDispatcher == nullptr

Block == [desc: Desc, links: SUBSET Desc, pushes: SUBSET Desc, cover: SUBSET Addr]
NoBlock == [desc |-> NoDesc, links |-> {}, pushes |-> {}, cover |-> {}]

ASSUME BlocksAssumption == Blocks \subseteq Block

SpaceTypeOK ==
  /\ offset \in 1..CacheSize + 1
  /\ code \in [Slot -> Block \cup {NoBlock}]
  /\ branch \in [Slot -> [Desc -> Slot \cup {nullptr}]]
  /\ scratch1 \in [Slot -> [Desc -> Slot \cup {nullptr}]]
  /\ block_entries \in [Desc -> Slot \cup {nullptr}]
  /\ block_references \in [Desc -> SUBSET Slot]
  /\ block_ranges \subseteq Desc \X Addr

SpaceInit ==
  /\ offset = 1
  /\ code = [s \in Slot |-> NoBlock]
  /\ branch = [s \in Slot |-> [d \in Desc |-> nullptr]]
  /\ scratch1 = [s \in Slot |-> [d \in Desc |-> nullptr]]
  /\ block_entries = [d \in Desc |-> nullptr]
  /\ block_references = [d \in Desc |-> {}]
  /\ block_ranges = {}

----------------------------------------------------------------------------
Get(d) == block_entries[d]

(* GetRemainingSize() < 1024 * 1024 *)
Full == offset > CacheSize

(* ClearCache by the interface: the maps are emptied, block_ranges stay.   *)
ClearCacheKeepingReferences ==
  /\ offset' = 1
  /\ code' = [s \in Slot |-> NoBlock]
  /\ branch' = [s \in Slot |-> [d \in Desc |-> nullptr]]
  /\ scratch1' = [s \in Slot |-> [d \in Desc |-> nullptr]]
  /\ block_entries' = [d \in Desc |-> nullptr]
  /\ UNCHANGED <<block_references, block_ranges>>

ClearCache ==
  /\ offset' = 1
  /\ code' = [s \in Slot |-> NoBlock]
  /\ branch' = [s \in Slot |-> [d \in Desc |-> nullptr]]
  /\ scratch1' = [s \in Slot |-> [d \in Desc |-> nullptr]]
  /\ block_entries' = [d \in Desc |-> nullptr]
  /\ block_references' = [d \in Desc |-> {}]
  /\ UNCHANGED block_ranges

(* RelinkForDescriptor: the relocations for the descriptors ds, in every   *)
(* block that refers to one and that block_infos knows, hold p.            *)
Relinked(site, kept, references, ds, p) ==
  [s \in Slot |-> [d \in Desc |-> IF d \in ds /\ s \in references[d] \cap kept[d] THEN p
                                                                              ELSE site[s][d]]]

(* The blocks below top with a Branch, a MoveToScratch1 relocation for d.  *)
Branching(blocks, top) == [d \in Desc |-> {s \in 1..top - 1 : d \in blocks[s].links}]
Moving(blocks, top) == [d \in Desc |-> {s \in 1..top - 1 : d \in blocks[s].pushes}]

(* Link: the relocations of the block written at s. *)
Link(site, s, targets, entries) ==
  [site EXCEPT ![s] = [d \in Desc |-> IF d \in targets THEN entries[d] ELSE nullptr]]

UnresolvedReferences(references, b, s, entries) ==
  [d \in Desc |-> IF d \in b.links \cup b.pushes /\ entries[d] = nullptr
                  THEN references[d] \cup {s} ELSE references[d]]

(* A block refers to its targets whether or not they are compiled yet.     *)
WithReferences(references, b, s, entries) ==
  [d \in Desc |-> IF d \in b.links \cup b.pushes THEN references[d] \cup {s} ELSE references[d]]

(* Emit after its check for room: the block is written at s, entered in    *)
(* the maps, its relocations and those that wait for its descriptor are    *)
(* linked, its range is recorded.                                          *)
EmitAt(b, s, entries, references) ==
  LET blocks == [code EXCEPT ![s] = b]
      entered == [entries EXCEPT ![b.desc] = s]
      referring == WithReferences(references, b, s, entered)
  IN /\ offset' = s + 1
     /\ code' = blocks
     /\ block_entries' = entered
     /\ block_references' = referring
     /\ branch' = Relinked(Link(branch, s, b.links, entered),
                           Branching(blocks, s + 1), referring, {b.desc}, s)
     /\ scratch1' = Relinked(Link(scratch1, s, b.pushes, entered),
                             Moving(blocks, s + 1), referring, {b.desc}, s)
     /\ block_ranges' = block_ranges \cup ({b.desc} \X b.cover)

(* Emit: a cache without room is cleared first. *)
Emit(b) ==
  IF Full THEN EmitAt(b, 1, [d \in Desc |-> nullptr], [d \in Desc |-> {}])
          ELSE EmitAt(b, offset, block_entries, block_references)

(* The blocks stay in block_infos and block_references, and their own      *)
(* relocations are still relinked.                                         *)
InvalidateBasicBlocks(ds) ==
  LET gone == {d \in ds : Get(d) # nullptr}
  IN /\ branch' = Relinked(branch, Branching(code, offset), block_references, gone, nullptr)
     /\ scratch1' = Relinked(scratch1, Moving(code, offset), block_references, gone, nullptr)
     /\ block_entries' = [d \in Desc |-> IF d \in gone THEN nullptr ELSE block_entries[d]]
     /\ UNCHANGED <<offset, code, block_references, block_ranges>>

(* BlockRangeInformation::InvalidateRanges: the ranges themselves stay.    *)
WithinRanges(ranges) == {d \in Desc : \A a \in Addr : <<d, a>> \in block_ranges => a \in ranges}
InRanges(ranges) == {d \in Desc : \E a \in ranges : <<d, a>> \in block_ranges}

InvalidateCacheRanges(ranges) == InvalidateBasicBlocks(InRanges(ranges))

----------------------------------------------------------------------------
(* The address space on its own, used in every way the run loop uses it.   *)
EmitBlock == \E b \in Blocks : Get(b.desc) = nullptr /\ Emit(b)
InvalidateRange == \E A \in SUBSET Addr : InvalidateCacheRanges(A)
RecompileBlock == \E s \in 1..offset - 1 : InvalidateBasicBlocks({code[s].desc})

SpaceNext == EmitBlock \/ InvalidateRange \/ RecompileBlock \/ ClearCache
SpaceSpec == SpaceInit /\ [][SpaceNext]_spaceVars

----------------------------------------------------------------------------
(* p is the entry point of a block of d that block_infos knows. *)
Holds(p, d) == p \in 1..offset - 1 /\ code[p].desc = d

EntriesValid ==
  /\ \A s \in 1..offset - 1 : code[s] \in Block
  /\ \A d \in Desc : Get(d) # nullptr => Holds(Get(d), d)

ReferencesExact ==
  \A d \in Desc :
    block_references[d] = {s \in 1..offset - 1 : d \in code[s].links \cup code[s].pushes}

(* Linking is exact: the branches and RSB predictions of every block that  *)
(* block_infos knows, an invalidated one included, go to the current entry *)
(* point of their target, and to the dispatcher when it has none.          *)
RelocationsCurrent ==
  \A s \in 1..offset - 1 :
    /\ \A d \in code[s].links  : branch[s][d]   = Get(d)
    /\ \A d \in code[s].pushes : scratch1[s][d] = Get(d)

(* A compiled block is found by every address it was translated from, also *)
(* after ClearCache, which leaves the ranges of forgotten blocks behind.   *)
RangesCover ==
  \A d \in Desc : Get(d) # nullptr => \A a \in code[Get(d)].cover : <<d, a>> \in block_ranges

(* The inductive invariant of the address space.                           *)
SpaceInv == /\ SpaceTypeOK
            /\ EntriesValid
            /\ ReferencesExact
            /\ RelocationsCurrent
            /\ RangesCover
=============================================================================
