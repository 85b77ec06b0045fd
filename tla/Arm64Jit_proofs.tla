-------------------------- MODULE Arm64Jit_proofs ---------------------------
(***************************************************************************)
(* The relocations of the arm64 address space are current, and the arm64   *)
(* run loop loses no invalidation, executes no code older than the         *)
(* invalidations before the run and runs the program of the guest: for any *)
(* guest program, any cache and RSB size and any number of rewrites.       *)
(*                                                                         *)
(* SpaceInv is inductive over the operations of the address space, ArmInv  *)
(* over the steps of the run loop, which uses the address space only as    *)
(* AddressSpace allows; all that a run can reach is fresh, whether or not  *)
(* Emit clears the cache under it.                                         *)
(***************************************************************************)
EXTENDS Arm64Jit, TLAPS

----------------------------------------------------------------------------
(* The address space.                                                      *)

(* A block links and pushes descriptors, and no block does neither. *)
LEMMA BlockSites ==
  ASSUME NEW b \in Block \cup {NoBlock}
  PROVE  b.links \subseteq Desc /\ b.pushes \subseteq Desc
BY DEF Block, NoBlock

(* A block pushes nothing if the RSB is not used. *)
LEMMA BlockPushes == ASSUME NEW d, NEW ir, ~UsesRSB PROVE BlockOf(d, ir).pushes = {}
BY DEF BlockOf

(* The pointer of an entry of the RSB. *)
LEMMA EntryPtr == ASSUME NEW l, NEW p PROVE [loc |-> l, ptr |-> p].ptr = p
OBVIOUS

(* The empty address space satisfies the invariant. *)
LEMMA SpaceInitInv == SpaceInit => SpaceInv
<1> SUFFICES ASSUME SpaceInit PROVE SpaceInv
  OBVIOUS
<1> USE DescAssumption, SizeAssumption DEF SpaceInit, nullptr
<1>1. SpaceTypeOK
  BY DEF SpaceTypeOK, Slot
<1>2. 1..offset - 1 = {}
  OBVIOUS
<1>3. EntriesValid /\ RangesCover
  BY <1>2 DEF EntriesValid, RangesCover, Get
<1>4. ReferencesExact /\ RelocationsCurrent
  BY <1>2 DEF ReferencesExact, RelocationsCurrent
<1> QED
  BY <1>1, <1>3, <1>4 DEF SpaceInv

(* What EmitAt needs of the blocks below the slot s it writes to.          *)
Below(s, entries, references) ==
  /\ entries \in [Desc -> Slot \cup {nullptr}]
  /\ \A t \in 1..s - 1 : code[t] \in Block
  /\ \A d \in Desc : entries[d] # nullptr => entries[d] \in 1..s - 1 /\ code[entries[d]].desc = d
  /\ \A d \in Desc : references[d] = {t \in 1..s - 1 : d \in code[t].links \cup code[t].pushes}
  /\ \A t \in 1..s - 1 : /\ \A d \in code[t].links : branch[t][d] = entries[d]
                         /\ \A d \in code[t].pushes : scratch1[t][d] = entries[d]
  /\ \A d \in Desc : entries[d] # nullptr => \A a \in code[entries[d]].cover : <<d, a>> \in block_ranges

(* EmitAt leaves the whole address space consistent if it was so below     *)
(* the slot it writes to, whatever is left above.                          *)
LEMMA EmitAtInv ==
  ASSUME SpaceTypeOK, NEW b \in Blocks, NEW s \in Slot, NEW entries, NEW references,
         Below(s, entries, references), EmitAt(b, s, entries, references)
  PROVE  SpaceInv'
<1> USE DescAssumption, SizeAssumption
<1> DEFINE entered == [entries EXCEPT ![b.desc] = s]
           blocks == [code EXCEPT ![s] = b]
           referring == WithReferences(references, b, s, entered)
<1>b. /\ b \in Block
      /\ b.desc \in Desc /\ b.links \subseteq Desc /\ b.pushes \subseteq Desc /\ b.cover \subseteq Addr
  BY BlocksAssumption DEF Block
<1>n. /\ offset' = s + 1 /\ s \in Nat
      /\ 1..offset' - 1 = (1..s - 1) \cup {s}
      /\ s \notin 1..s - 1
      /\ 1..s - 1 \subseteq Slot
      /\ s # nullptr
  BY DEF EmitAt, Slot, nullptr
<1>c. /\ code' \in [Slot -> Block \cup {NoBlock}]
      /\ code' = blocks
      /\ code'[s] = b
      /\ \A t \in 1..s - 1 : code'[t] = code[t]
  BY Zenon, <1>b, <1>n DEF EmitAt, SpaceTypeOK
<1>e. /\ block_entries' = entered
      /\ entered \in [Desc -> Slot \cup {nullptr}]
      /\ block_entries'[b.desc] = s
      /\ \A d \in Desc : d # b.desc => block_entries'[d] = entries[d]
  BY <1>b DEF EmitAt, Below
<1>r. /\ block_references' = referring
      /\ \A d \in Desc : block_references'[d] =
           IF d \in b.links \cup b.pushes THEN references[d] \cup {s} ELSE references[d]
  BY Zenon DEF EmitAt, WithReferences
<1>f. /\ \A t \in 1..s - 1 : code[t] \in Block
      /\ \A d \in Desc : entries[d] # nullptr => entries[d] \in 1..s - 1 /\ code[entries[d]].desc = d
      /\ \A d \in Desc : references[d] = {t \in 1..s - 1 : d \in code[t].links \cup code[t].pushes}
      /\ \A t \in 1..s - 1 : /\ \A d \in code[t].links : branch[t][d] = entries[d]
                             /\ \A d \in code[t].pushes : scratch1[t][d] = entries[d]
      /\ \A d \in Desc : entries[d] # nullptr => \A a \in code[entries[d]].cover : <<d, a>> \in block_ranges
  BY DEF Below
<1>g. block_ranges' = block_ranges \cup ({b.desc} \X b.cover)
  BY Zenon DEF EmitAt
<1>j. /\ branch' \in [Slot -> [Desc -> Slot \cup {nullptr}]]
      /\ \A t \in Slot, d \in Desc : branch'[t][d] =
           IF d = b.desc /\ t \in block_references'[d] \cap Branching(code', s + 1)[d] THEN s
           ELSE IF t # s THEN branch[t][d] ELSE IF d \in b.links THEN entered[d] ELSE nullptr
  <2> DEFINE linked == Link(branch, s, b.links, entered)
  <2>1. branch \in [Slot -> [Desc -> Slot \cup {nullptr}]] /\ entered \in [Desc -> Slot \cup {nullptr}]
    BY Zenon, <1>e DEF SpaceTypeOK
  <2>2. branch' = [t \in Slot |-> [d \in Desc |->
                  IF d \in {b.desc} /\ t \in block_references'[d] \cap Branching(code', s + 1)[d] THEN s
                  ELSE linked[t][d]]]
    BY <1>c, <1>r DEF EmitAt, Relinked
  <2> HIDE DEF entered
  <2>3. linked \in [Slot -> [Desc -> Slot \cup {nullptr}]]
    BY <2>1 DEF Link
  <2>4. \A t \in Slot, d \in Desc : linked[t][d] =
          IF t # s THEN branch[t][d] ELSE IF d \in b.links THEN entered[d] ELSE nullptr
    BY Zenon, <2>1 DEF Link
  <2> HIDE DEF linked
  <2> QED
    BY <2>2, <2>3, <2>4
<1>m. /\ scratch1' \in [Slot -> [Desc -> Slot \cup {nullptr}]]
      /\ \A t \in Slot, d \in Desc : scratch1'[t][d] =
           IF d = b.desc /\ t \in block_references'[d] \cap Moving(code', s + 1)[d] THEN s
           ELSE IF t # s THEN scratch1[t][d] ELSE IF d \in b.pushes THEN entered[d] ELSE nullptr
  <2> DEFINE linked == Link(scratch1, s, b.pushes, entered)
  <2>1. scratch1 \in [Slot -> [Desc -> Slot \cup {nullptr}]] /\ entered \in [Desc -> Slot \cup {nullptr}]
    BY Zenon, <1>e DEF SpaceTypeOK
  <2>2. scratch1' = [t \in Slot |-> [d \in Desc |->
                  IF d \in {b.desc} /\ t \in block_references'[d] \cap Moving(code', s + 1)[d] THEN s
                  ELSE linked[t][d]]]
    BY <1>c, <1>r DEF EmitAt, Relinked
  <2> HIDE DEF entered
  <2>3. linked \in [Slot -> [Desc -> Slot \cup {nullptr}]]
    BY Zenon, <2>1 DEF Link
  <2>4. \A t \in Slot, d \in Desc : linked[t][d] =
          IF t # s THEN scratch1[t][d] ELSE IF d \in b.pushes THEN entered[d] ELSE nullptr
    BY <2>1 DEF Link
  <2> HIDE DEF linked
  <2> QED
    BY <2>2, <2>3, <2>4
<1>k. block_entries' \in [Desc -> Slot \cup {nullptr}] /\ \A d \in Desc : entered[d] = block_entries'[d]
  BY Zenon, <1>e
<1> HIDE DEF entered, blocks, referring
<1>1. SpaceTypeOK'
  <2>1. offset' \in 1..CacheSize + 1
    BY <1>n DEF Slot
  <2>2. block_references' \in [Desc -> SUBSET Slot]
    <3>1. DOMAIN block_references' = Desc /\ block_references' = [d \in Desc |-> block_references'[d]]
      BY <1>r DEF referring, WithReferences
    <3>2. ASSUME NEW d \in Desc PROVE block_references'[d] \in SUBSET Slot
      <4>1. references[d] \subseteq 1..s - 1
        BY <1>f
      <4>2. references[d] \subseteq Slot
        BY Zenon, <4>1, <1>n
      <4> QED
        BY Zenon, <1>r, <4>2
    <3> QED
      BY Zenon, <3>1, <3>2
  <2>3. block_ranges' \subseteq Desc \X Addr
    BY Zenon, <1>g, <1>b DEF SpaceTypeOK
  <2> QED
    BY Zenon, <1>c, <1>k, <1>j, <1>m, <2>1, <2>2, <2>3 DEF SpaceTypeOK
<1>2. EntriesValid'
  <2>1. \A t \in 1..offset' - 1 : code'[t] \in Block
    BY Zenon, <1>b, <1>n, <1>c, <1>f
  <2>2. \A d \in Desc : block_entries'[d] # nullptr =>
          block_entries'[d] \in 1..offset' - 1 /\ code'[block_entries'[d]].desc = d
    BY <1>b, <1>n, <1>c, <1>e, <1>f
  <2> QED
    BY Zenon, <2>1, <2>2 DEF EntriesValid, Get, Holds
<1>3. ReferencesExact'
  <2> SUFFICES ASSUME NEW d \in Desc
               PROVE  block_references'[d] = {t \in 1..offset' - 1 : d \in code'[t].links \cup code'[t].pushes}
    BY Zenon DEF ReferencesExact
  <2>1. block_references'[d] = (IF d \in b.links \cup b.pushes THEN references[d] \cup {s} ELSE references[d])
    BY Zenon, <1>r
  <2>2. references[d] = {t \in 1..s - 1 : d \in code'[t].links \cup code'[t].pushes}
    BY <1>c, <1>f
  <2> QED
    BY <2>1, <2>2, <1>n, <1>c
<1>4. RelocationsCurrent'
  <2> SUFFICES ASSUME NEW t \in 1..offset' - 1
               PROVE  /\ \A d \in code'[t].links  : branch'[t][d] = block_entries'[d]
                      /\ \A d \in code'[t].pushes : scratch1'[t][d] = block_entries'[d]
    BY Zenon DEF RelocationsCurrent, Get
  <2>t. t \in Slot /\ code'[t].links \subseteq Desc /\ code'[t].pushes \subseteq Desc /\ t \in 1..(s + 1) - 1
    BY Zenon, <1>n, <1>2 DEF EntriesValid, Block
  <2>1. ASSUME NEW d \in code'[t].links PROVE branch'[t][d] = block_entries'[d]
    <3>1. d \in Desc /\ t \in block_references'[d] /\ t \in Branching(code', s + 1)[d]
      BY Zenon, <1>3, <2>t DEF ReferencesExact, Branching
    <3>2. CASE d = b.desc
      BY Zenon, <3>1, <3>2, <2>t, <1>j, <1>e
    <3>3. CASE d # b.desc /\ t = s
      BY <3>1, <3>3, <2>t, <1>j, <1>k, <1>c
    <3>4. CASE d # b.desc /\ t # s
      <4>1. t \in 1..s - 1 /\ code'[t] = code[t]
        BY Zenon, <3>4, <1>n, <1>c
      <4> QED
        BY <4>1, <3>1, <3>4, <2>t, <1>j, <1>e, <1>f
    <3> QED
      BY Zenon, <3>2, <3>3, <3>4
  <2>2. ASSUME NEW d \in code'[t].pushes PROVE scratch1'[t][d] = block_entries'[d]
    <3>1. d \in Desc /\ t \in block_references'[d] /\ t \in Moving(code', s + 1)[d]
      BY Zenon, <1>3, <2>t DEF ReferencesExact, Moving
    <3>2. CASE d = b.desc
      BY Zenon, <3>1, <3>2, <2>t, <1>m, <1>e
    <3>3. CASE d # b.desc /\ t = s
      BY <3>1, <3>3, <2>t, <1>m, <1>k, <1>c
    <3>4. CASE d # b.desc /\ t # s
      <4>1. t \in 1..s - 1 /\ code'[t] = code[t]
        BY Zenon, <3>4, <1>n, <1>c
      <4> QED
        BY <4>1, <3>1, <3>4, <2>t, <1>m, <1>e, <1>f
    <3> QED
      BY Zenon, <3>2, <3>3, <3>4
  <2> QED
    BY Zenon, <2>1, <2>2
<1>5. RangesCover'
  <2> SUFFICES ASSUME NEW d \in Desc, block_entries'[d] # nullptr, NEW a \in code'[block_entries'[d]].cover
               PROVE  <<d, a>> \in block_ranges'
    BY Zenon DEF RangesCover, Get
  <2>1. CASE d = b.desc
    BY Zenon, <2>1, <1>c, <1>e, <1>g
  <2>2. CASE d # b.desc
    BY <2>2, <1>c, <1>e, <1>f, <1>g
  <2> QED
    BY Zenon, <2>1, <2>2
<1> QED
  BY <1>1, <1>2, <1>3, <1>4, <1>5 DEF SpaceInv

(* Emit, whether or not the cache is full. *)
LEMMA EmitInv ==
  ASSUME SpaceInv, NEW b \in Blocks, Emit(b)
  PROVE  SpaceInv'
<1>1. CASE Full
  <2> DEFINE none == [d \in Desc |-> nullptr]
             nowhere == [d \in Desc |-> {}]
  <2>1. 1 \in Slot /\ 1..1 - 1 = {}
    BY SizeAssumption DEF Slot
  <2>2. Below(1, none, nowhere)
    BY <2>1 DEF Below
  <2>3. EmitAt(b, 1, none, nowhere)
    BY Zenon, <1>1 DEF Emit
  <2> QED
    BY <2>1, <2>2, <2>3, EmitAtInv DEF SpaceInv
<1>2. CASE ~Full
  <2>1. offset \in Slot
    BY <1>2, SizeAssumption DEF Full, Slot, SpaceInv, SpaceTypeOK
  <2>2. Below(offset, block_entries, block_references)
    BY DEF Below, SpaceInv, SpaceTypeOK, EntriesValid, ReferencesExact, RelocationsCurrent, RangesCover, Get, Holds
  <2>3. EmitAt(b, offset, block_entries, block_references)
    BY <1>2 DEF Emit
  <2> QED
    BY Zenon, <2>1, <2>2, <2>3, EmitAtInv DEF SpaceInv
<1> QED
  BY Zenon, <1>1, <1>2

(* Invalidating blocks sends every relocation for them to the dispatcher,  *)
(* and leaves the others.                                                  *)
LEMMA InvalidateInv ==
  ASSUME SpaceInv, NEW ds, InvalidateBasicBlocks(ds)
  PROVE  SpaceInv'
<1> DEFINE gone == {d \in ds : Get(d) # nullptr}
<1> USE SizeAssumption
<1>t. SpaceTypeOK /\ EntriesValid /\ ReferencesExact /\ RelocationsCurrent /\ RangesCover
  BY DEF SpaceInv
<1>u. UNCHANGED <<offset, code, block_references, block_ranges>>
  BY Zenon DEF InvalidateBasicBlocks
<1>e. /\ block_entries' \in [Desc -> Slot \cup {nullptr}]
      /\ \A d \in Desc : block_entries'[d] = IF d \in gone THEN nullptr ELSE block_entries[d]
  BY Zenon, <1>t DEF InvalidateBasicBlocks, SpaceTypeOK
<1>j. /\ branch' \in [Slot -> [Desc -> Slot \cup {nullptr}]]
      /\ \A t \in Slot, d \in Desc : branch'[t][d] =
           IF d \in gone /\ t \in block_references[d] \cap Branching(code, offset)[d] THEN nullptr
           ELSE branch[t][d]
  BY <1>t DEF InvalidateBasicBlocks, Relinked, SpaceTypeOK
<1>m. /\ scratch1' \in [Slot -> [Desc -> Slot \cup {nullptr}]]
      /\ \A t \in Slot, d \in Desc : scratch1'[t][d] =
           IF d \in gone /\ t \in block_references[d] \cap Moving(code, offset)[d] THEN nullptr
           ELSE scratch1[t][d]
  BY <1>t DEF InvalidateBasicBlocks, Relinked, SpaceTypeOK
<1> HIDE DEF gone
<1>1. SpaceTypeOK'
  BY Zenon, <1>t, <1>u, <1>e, <1>j, <1>m DEF SpaceTypeOK
<1>2. EntriesValid'
  BY Zenon, <1>t, <1>u, <1>e DEF EntriesValid, Get, Holds
<1>3. ReferencesExact'
  BY <1>t, <1>u DEF ReferencesExact
<1>4. RelocationsCurrent'
  <2> SUFFICES ASSUME NEW t \in 1..offset - 1
               PROVE  /\ \A d \in code[t].links  : branch'[t][d] = block_entries'[d]
                      /\ \A d \in code[t].pushes : scratch1'[t][d] = block_entries'[d]
    BY <1>u DEF RelocationsCurrent, Get
  <2>t. t \in Slot /\ code[t].links \subseteq Desc /\ code[t].pushes \subseteq Desc
    BY <1>t DEF EntriesValid, Block, SpaceTypeOK, Slot
  <2>1. ASSUME NEW d \in code[t].links PROVE branch'[t][d] = block_entries'[d]
    <3>1. d \in Desc /\ t \in block_references[d] /\ t \in Branching(code, offset)[d] /\ branch[t][d] = block_entries[d]
      BY <1>t, <2>t DEF ReferencesExact, RelocationsCurrent, Branching, Get
    <3> QED
      BY <3>1, <2>t, <1>e, <1>j
  <2>2. ASSUME NEW d \in code[t].pushes PROVE scratch1'[t][d] = block_entries'[d]
    <3>1. d \in Desc /\ t \in block_references[d] /\ t \in Moving(code, offset)[d] /\ scratch1[t][d] = block_entries[d]
      BY <1>t, <2>t DEF ReferencesExact, RelocationsCurrent, Moving, Get
    <3> QED
      BY <3>1, <2>t, <1>e, <1>m
  <2> QED
    BY Zenon, <2>1, <2>2
<1>5. RangesCover'
  BY Zenon, <1>t, <1>u, <1>e DEF RangesCover, Get
<1> QED
  BY Zenon, <1>1, <1>2, <1>3, <1>4, <1>5 DEF SpaceInv

(* ClearCache: what is left of the ranges does no harm. *)
LEMMA ClearCacheInv ==
  ASSUME SpaceInv, ClearCache
  PROVE  SpaceInv'
<1> USE DescAssumption, SizeAssumption DEF ClearCache, nullptr
<1>1. SpaceTypeOK'
  BY DEF SpaceInv, SpaceTypeOK, Slot
<1>2. 1..offset' - 1 = {}
  OBVIOUS
<1>3. (EntriesValid /\ RangesCover)'
  BY Zenon, <1>2 DEF EntriesValid, RangesCover, Get
<1>4. (ReferencesExact /\ RelocationsCurrent)'
  BY <1>2 DEF ReferencesExact, RelocationsCurrent
<1> QED
  BY Zenon, <1>1, <1>3, <1>4 DEF SpaceInv

(* SpaceInv is preserved by every step of the address space. *)
LEMMA SpaceStepInv == SpaceInv /\ [SpaceNext]_spaceVars => SpaceInv'
<1> SUFFICES ASSUME SpaceInv, [SpaceNext]_spaceVars PROVE SpaceInv'
  OBVIOUS
<1>1. CASE EmitBlock
  BY <1>1, EmitInv DEF EmitBlock
<1>2. CASE InvalidateRange
  BY <1>2, InvalidateInv DEF InvalidateRange, InvalidateCacheRanges
<1>3. CASE RecompileBlock
  BY <1>3, InvalidateInv DEF RecompileBlock
<1>4. CASE ClearCache
  BY Zenon, <1>4, ClearCacheInv
<1>5. CASE UNCHANGED spaceVars
  BY <1>5 DEF spaceVars, SpaceInv, SpaceTypeOK, EntriesValid, ReferencesExact, RelocationsCurrent,
              RangesCover, Get, Holds
<1> QED
  BY Zenon, <1>1, <1>2, <1>3, <1>4, <1>5 DEF SpaceNext

(* Block entries, references, relocations and ranges of the arm64 address  *)
(* space agree, however blocks are emitted, invalidated and recompiled,    *)
(* also after the cache was cleared.                                       *)
THEOREM SpaceInvariant == SpaceSpec => []SpaceInv
BY SpaceInitInv, SpaceStepInv, PTL DEF SpaceSpec

(* Every relocation of a block that is known goes to the current entry     *)
(* point of its target.                                                    *)
THEOREM RelocationsAreCurrent == SpaceSpec => []RelocationsCurrent
<1>1. SpaceInv => RelocationsCurrent
  BY DEF SpaceInv
<1> QED
  BY <1>1, SpaceInvariant, PTL

----------------------------------------------------------------------------
(* The steps of the run loop.                                              *)

(* Versions are numbers. *)
LEMMA Versions ==
  ASSUME ArmTypeOK
  PROVE  /\ Version \subseteq Nat /\ 0 \in Version /\ mem \in Nat /\ lo \in Nat
         /\ lo..mem \subseteq Version /\ src \in [Slot -> Nat]
         /\ floor \subseteq Nat /\ published \subseteq Nat
<1>1. MaxVersion \in Nat
  BY TranslateAssumption
<1>2. Version \subseteq Nat /\ 0 \in Version
  BY <1>1 DEF Version
<1>3. mem \in Version /\ lo \in Version /\ src \in [Slot -> Version]
      /\ floor \subseteq Version /\ published \subseteq Version
  BY DEF ArmTypeOK
<1>4. lo..mem \subseteq Version
  BY <1>1, <1>3 DEF Version
<1> QED
  BY Zenon, <1>2, <1>3, <1>4

(* The block being executed, and what it was translated from. *)
LEMMA CurrentBlock ==
  ASSUME ArmInv, ctl \in Executing \cup {"enter"}
  PROVE  /\ cur \in Slot /\ code[cur] \in Block
         /\ CurDesc \in Desc /\ CurIR \in IR
         /\ code[cur] = BlockOf(CurDesc, CurIR)
<1>1. ctl \notin Outside
  BY Zenon DEF Executing, Outside
<1>2. cur \in Slot /\ code[cur] \in Block
  BY Zenon, <1>1 DEF ArmInv, ArmTypeOK, ReachableFresh, Fresh, ReturnToDispatcher
<1>3. CurDesc \in Desc /\ src[cur] \in Version
  BY Zenon, <1>2 DEF CurDesc, Block, ArmInv, ArmTypeOK
<1>4. CurIR \in IR
  BY <1>3, TranslateAssumption DEF CurIR
<1>5. code[cur] = BlockOf(CurDesc, CurIR)
  BY Zenon, <1>2 DEF ArmInv, CodeTranslated, CurDesc, CurIR
<1> QED
  BY Zenon, <1>2, <1>3, <1>4, <1>5

(* The steps of other threads. *)
LEMMA OthersType == ASSUME ArmInv, OtherThreads PROVE ArmTypeOK'
<1> USE DEF ArmInv, spaceVars, runVars, stackVars, requestVars, translateVars
<1>s. UNCHANGED spaceVars => (SpaceTypeOK => SpaceTypeOK')
  BY Zenon DEF SpaceTypeOK
<1>v. 1..mem \subseteq Version /\ mem \in Nat
  BY TranslateAssumption DEF ArmTypeOK, Version
<1>1. CASE WriteCode
  BY <1>1, <1>s, TranslateAssumption DEF WriteCode, ArmTypeOK, Version
<1>2. CASE HaltExecution
  BY Zenon, <1>2, <1>s, HostAssumption DEF HaltExecution, ArmTypeOK
<1>3. CASE RequestRange
  <2>1. invalid_cache_ranges' \subseteq Addr /\ asked' \subseteq Version
    BY Zenon, <1>3, <1>v, HostAssumption DEF RequestRange, ArmTypeOK
  <2> QED
    BY Zenon, <1>3, <2>1, <1>s DEF RequestRange, ArmTypeOK
<1>4. CASE RequestClear
  BY <1>4, <1>s, <1>v DEF RequestClear, ArmTypeOK
<1>5. CASE RequestHalt
  BY Zenon, <1>5, <1>s DEF RequestHalt, ArmTypeOK, HaltReason
<1> QED
  BY Zenon, <1>1, <1>2, <1>3, <1>4, <1>5 DEF OtherThreads

----------------------------------------------------------------------------
(* The steps of the JIT thread that leave the cache and the requests. *)
ControlStep ==
  \/ Run \/ Reset \/ PerformNothing \/ GetFound \/ GenerateIR \/ Enter
  \/ ConditionFailed \/ Execute \/ CallSupervisor \/ MemoryAbort
  \/ TermCheckHalt \/ TermLink \/ TermPopRSB \/ TermDispatch \/ Dispatch \/ Exit

(* The cases of every proof about a step. *)
LEMMA NextCases ==
  ArmNext => ControlStep \/ OtherThreads \/ Perform \/ EmitTranslation \/ FastmemFault
BY Zenon DEF ArmNext, ArmThread, ControlStep

(* ... do leave them. *)
LEMMA ControlFrame ==
  ASSUME ControlStep
  PROVE  UNCHANGED <<spaceVars, requestVars, do_not_fastmem, fastmem, src, mem>>
<1> USE DEF spaceVars, requestVars, translateVars, stackVars
<1>1. CASE Run \/ Reset \/ PerformNothing \/ GetFound \/ GenerateIR \/ Enter
  BY <1>1 DEF Run, Reset, PerformNothing, GetFound, GenerateIR, Enter
<1>2. CASE ConditionFailed \/ Execute \/ CallSupervisor \/ MemoryAbort
  BY Zenon, <1>2 DEF ConditionFailed, Execute, CallSupervisor, MemoryAbort
<1>3. CASE TermCheckHalt \/ TermLink \/ TermPopRSB \/ TermDispatch \/ Dispatch \/ Exit
  BY Zenon, <1>3 DEF TermCheckHalt, TermLink, TermPopRSB, TermDispatch, Dispatch, Exit
<1> QED
  BY Zenon, <1>1, <1>2, <1>3 DEF ControlStep

(* An entry of the stack frame. *)
LEMMA NoEntriesType == NoEntries \in [RSBIndex -> Entry] /\ 0 \in RSBIndex
BY StackAssumption DEF NoEntries, RSBIndex, Entry

(* The variables of a step that only moves on. *)
LEMMA ControlType == ASSUME ArmInv, ControlStep PROVE ArmTypeOK'
<1> DEFINE Rest == /\ pc' \in Desc /\ ctl' \in Control /\ entering' \in BOOLEAN
                   /\ cur' \in Slot \cup {ReturnToDispatcher} /\ term' \in Terminal \cup {NoTerm}
                   /\ hr' \subseteq HaltReason /\ halt_reason' \subseteq HaltReason
                   /\ rsb' \in [RSBIndex -> Entry] /\ rsb_ptr' \in RSBIndex /\ Xticks' \in 0..MaxTicks
                   /\ lo' \in Version /\ floor' \subseteq Version /\ overrun' \in BOOLEAN
<1>r. Rest => ArmTypeOK'
  BY ControlFrame DEF ArmInv, ArmTypeOK, SpaceTypeOK, spaceVars, requestVars
<1>t. ArmTypeOK
  BY DEF ArmInv
<1> USE <1>t, StackAssumption, HostAssumption DEF stackVars, runVars, requestVars, translateVars, Control
<1>a. \A n \in 0..MaxTicks : AddCycles(n) \in 0..MaxTicks
  BY DEF AddCycles
<1>k. Ticks \subseteq 0..MaxTicks
  BY DEF Ticks
<1>g. \A p \in Slot \cup {ReturnToDispatcher} : Goto(p) =>
        ctl' \in Control /\ cur' \in Slot \cup {ReturnToDispatcher} /\ term' \in Terminal \cup {NoTerm}
  BY Zenon DEF Goto
<1> SUFFICES Rest
  BY Zenon, <1>r
<1>1. CASE Run
  BY Zenon, <1>1 DEF Run, ArmTypeOK
<1>2. CASE Reset
  BY Zenon, <1>2 DEF Reset, ArmTypeOK
<1>3. CASE PerformNothing
  BY Zenon, <1>3 DEF PerformNothing, ArmTypeOK
<1>4. CASE GetFound
  <2>1. Get(pc) \in Slot \cup {ReturnToDispatcher}
    BY Zenon DEF ArmTypeOK, SpaceTypeOK, Get, ReturnToDispatcher
  <2> QED
    BY Zenon, <1>4, <2>1 DEF GetFound, ArmTypeOK
<1>5. CASE GenerateIR
  BY <1>5 DEF GenerateIR, ArmTypeOK
<1>6. CASE Enter
  <2>1. rsb' \in [RSBIndex -> Entry] /\ rsb_ptr' \in RSBIndex
    <3>1. CASE UsesRSB
      <4>1. [loc: Garbage, ptr: {ReturnToDispatcher}] \subseteq Entry
        BY Zenon DEF Entry
      <4>2. /\ rsb' \in [RSBIndex -> [loc: Garbage, ptr: {ReturnToDispatcher}]]
            /\ rsb_ptr' \in RSBIndex
        BY Zenon, <1>6, <3>1 DEF Enter, InitialStack
      <4> QED
        BY <4>1, <4>2
    <3>2. CASE ~UsesRSB
      BY Zenon, <1>6, <3>2 DEF Enter, InitialStack, ArmTypeOK
    <3> QED
      BY Zenon, <3>1, <3>2
  <2>2. ctl' \in Control /\ cur' \in Slot \cup {ReturnToDispatcher} /\ term' \in Terminal \cup {NoTerm}
    BY Zenon, <1>6, <1>g DEF Enter, ArmTypeOK
  <2> QED
    BY Zenon, <1>6, <2>1, <2>2, <1>k DEF Enter, ArmTypeOK
<1>7. CASE ConditionFailed
  <2>1. CurIR.condfail \subseteq Desc
    BY Zenon, <1>7, CurrentBlock DEF ConditionFailed, Executing, IR
  <2>2. term' \in Terminal
    <3>1. PICK l \in CurIR.condfail : term' = [kind |-> "LinkBlock", next |-> l, check |-> FALSE]
      BY Zenon, <1>7 DEF ConditionFailed
    <3>2. l \in Desc
      BY Zenon, <2>1
    <3> QED
      BY Zenon, <3>1, <3>2 DEF Terminal, Links
  <2> QED
    BY Zenon, <1>7, <2>2, <1>a DEF ConditionFailed, ArmTypeOK
<1>8. CASE Execute
  <2>1. CurIR.terms \subseteq Terminal /\ cur \in Slot /\ code[cur] \in Block
    BY Zenon, <1>8, CurrentBlock DEF Execute, Executing, IR
  <2>2. term' \in Terminal /\ pc' \in Desc
    BY Zenon, <1>8, <2>1 DEF Execute, Terminal, ArmTypeOK
  <2>3. ASSUME NEW d \in code[cur].pushes, PushRSB(d)
        PROVE  rsb' \in [RSBIndex -> Entry] /\ rsb_ptr' \in RSBIndex
    <3>1. d \in Desc /\ scratch1[cur][d] \in Slot \cup {nullptr}
      <4>1. d \in Desc
        BY Zenon, <2>1 DEF Block
      <4>2. scratch1 \in [Slot -> [Desc -> Slot \cup {nullptr}]]
        BY Zenon DEF ArmTypeOK, SpaceTypeOK
      <4> QED
        BY <2>1, <4>1, <4>2
    <3>2. [loc |-> d, ptr |-> scratch1[cur][d]] \in Entry
      BY Zenon, <3>1 DEF Entry, ReturnToDispatcher
    <3>3. (rsb_ptr + 1) % RSBCount \in RSBIndex
      BY DEF ArmTypeOK, RSBIndex
    <3> QED
      BY Zenon, <2>3, <3>2, <3>3 DEF PushRSB, ArmTypeOK
  <2>4. rsb' \in [RSBIndex -> Entry] /\ rsb_ptr' \in RSBIndex
    BY Zenon, <1>8, <2>3 DEF Execute, ArmTypeOK
  <2> QED
    BY Zenon, <1>8, <2>2, <2>4, <1>a DEF Execute, ArmTypeOK
<1>9. CASE CallSupervisor
  <2>1. Xticks' \in 0..MaxTicks
    BY Zenon, <1>9, <1>a, <1>k DEF CallSupervisor
  <2> QED
    BY Zenon, <1>9, <2>1 DEF CallSupervisor, ArmTypeOK
<1>10. CASE MemoryAbort
  <2>1. CurIR.mem \subseteq Desc
    BY Zenon, <1>10, CurrentBlock DEF MemoryAbort, Executing, IR
  <2> QED
    BY Zenon, <1>10, <2>1 DEF MemoryAbort, ArmTypeOK
<1>11. CASE TermCheckHalt
  BY Zenon, <1>11, <1>g DEF TermCheckHalt, ArmTypeOK
<1>12. CASE TermLink
  <2> DEFINE p == IF Linked /\ MayLink THEN branch[cur][term.next] ELSE ReturnToDispatcher
  <2>1. term.next \in Desc /\ cur \in Slot
    BY Zenon, <1>12, CurrentBlock DEF TermLink, Executing, ArmInv, TerminalLinked, Terminal
  <2>2. p \in Slot \cup {ReturnToDispatcher}
    BY <2>1 DEF ArmTypeOK, SpaceTypeOK, ReturnToDispatcher
  <2> QED
    BY Zenon, <1>12, <2>1, <2>2, <1>g DEF TermLink, ArmTypeOK
<1>13. CASE TermPopRSB
  <2>1. rsb_ptr' \in RSBIndex
    BY <1>13 DEF TermPopRSB, ArmTypeOK, RSBIndex
  <2>2. rsb[rsb_ptr].ptr \in Slot \cup {ReturnToDispatcher}
    BY Zenon DEF ArmTypeOK, Entry
  <2> QED
    BY Zenon, <1>13, <2>1, <2>2, <1>g DEF TermPopRSB, ArmTypeOK
<1>14. CASE TermDispatch
  BY Zenon, <1>14, <1>g DEF TermDispatch, ArmTypeOK
<1>15. CASE Dispatch
  BY <1>15 DEF Dispatch, ArmTypeOK
<1>16. CASE Exit
  <2>1. rsb' \in [RSBIndex -> Entry] /\ rsb_ptr' \in RSBIndex /\ Xticks' \in 0..MaxTicks
    BY <1>16, NoEntriesType DEF Exit
  <2> QED
    BY Zenon, <1>16, <2>1 DEF Exit, ArmTypeOK
<1> QED
  BY Zenon, <1>1, <1>2, <1>3, <1>4, <1>5, <1>6, <1>7, <1>8, <1>9, <1>10, <1>11, <1>12, <1>13, <1>14, <1>15, <1>16
     DEF ControlStep

----------------------------------------------------------------------------
(* The run loop uses the address space only as AddressSpace allows.        *)
LEMMA SpaceSteps == ASSUME ArmInv, ArmNext PROVE [SpaceNext]_spaceVars
<1>1. CASE ControlStep
  BY <1>1, ControlFrame
<1>2. CASE OtherThreads
  BY Zenon, <1>2 DEF OtherThreads, WriteCode, HaltExecution, RequestRange, RequestClear, RequestHalt
<1>3. CASE Perform
  <2>1. invalid_cache_ranges \in SUBSET Addr
    BY Zenon DEF ArmInv, ArmTypeOK
  <2>2. ClearCache \/ InvalidateCacheRanges(invalid_cache_ranges)
    BY <1>3 DEF Perform
  <2> QED
    BY Zenon, <2>1, <2>2 DEF SpaceNext, InvalidateRange
<1>4. CASE EmitTranslation
  <2>1. PICK v \in lo..mem : Emit(BlockOf(pc, Translate[pc][v]))
    BY Zenon, <1>4 DEF EmitTranslation
  <2>2. v \in Version /\ pc \in Desc
    BY <2>1, TranslateAssumption DEF ArmInv, ArmTypeOK, Version
  <2>3. BlockOf(pc, Translate[pc][v]) \in Blocks
    BY <2>2, BlocksAreTranslations
  <2>4. Get(BlockOf(pc, Translate[pc][v]).desc) = nullptr
    BY Zenon, <1>4 DEF EmitTranslation, ArmInv, TranslationCurrent, BlockOf
  <2> QED
    BY Zenon, <2>1, <2>3, <2>4 DEF SpaceNext, EmitBlock
<1>5. CASE FastmemFault
  <2>1. cur \in 1..CacheSize
    BY <1>5, CurrentBlock DEF FastmemFault, Executing, Slot
  <2>2. cur < offset /\ offset \in Int => cur \in 1..offset - 1
    BY <2>1, SizeAssumption
  <2>3. offset \in Int
    BY SizeAssumption DEF ArmInv, ArmTypeOK, SpaceTypeOK
  <2> QED
    BY Zenon, <1>5, <2>2, <2>3 DEF FastmemFault, SpaceNext, RecompileBlock, CurDesc
<1> QED
  BY Zenon, <1>1, <1>2, <1>3, <1>4, <1>5, NextCases

(* So the invariant of the address space is kept. *)
LEMMA SpaceKept == ASSUME ArmInv, ArmNext PROVE SpaceInv'
BY Zenon, SpaceSteps, SpaceStepInv DEF ArmInv

(* Every step keeps the types. *)
LEMMA StepType == ASSUME ArmInv, ArmNext PROVE ArmTypeOK'
<1>s. SpaceTypeOK'
  BY SpaceKept DEF SpaceInv
<1>1. CASE ControlStep
  BY <1>1, ControlType
<1>2. CASE OtherThreads
  BY <1>2, OthersType
<1>t. ArmTypeOK /\ TranslationCurrent /\ 0 \in Version
  BY Versions DEF ArmInv
<1> USE <1>s, <1>t DEF stackVars, Control
<1>3. CASE Perform
  <2>1. fastmem' \subseteq Slot /\ src' \in [Slot -> Version]
    BY <1>3 DEF Perform, ArmTypeOK
  <2> QED
    BY Zenon, <1>3, <2>1 DEF Perform, ArmTypeOK
<1>4. CASE EmitTranslation
  <2>1. (IF Full THEN 1 ELSE offset) \in Slot
    BY SizeAssumption DEF ArmTypeOK, SpaceTypeOK, Slot, Full
  <2>2. lo..mem \subseteq Version
    BY Versions
  <2>3. fastmem' \subseteq Slot /\ src' \in [Slot -> Version]
    BY Zenon, <1>4, <2>1, <2>2 DEF EmitTranslation, ArmTypeOK
  <2>4. overrun' \in BOOLEAN
    BY Zenon, <1>4 DEF EmitTranslation
  <2> QED
    BY Zenon, <1>4, <2>3, <2>4 DEF EmitTranslation, ArmTypeOK, requestVars
<1>5. CASE FastmemFault
  <2>1. CurDesc \in Desc
    BY Zenon, <1>5, CurrentBlock DEF FastmemFault, Executing
  <2>2. do_not_fastmem' \subseteq Desc
    BY Zenon, <1>5, <2>1 DEF FastmemFault, ArmTypeOK
  <2>3. ctl' \in Control
    BY Zenon, <1>5 DEF FastmemFault, ArmTypeOK
  <2> QED
    BY Zenon, <1>5, <2>2, <2>3 DEF FastmemFault, ArmTypeOK, requestVars
<1> QED
  BY Zenon, <1>1, <1>2, <1>3, <1>4, <1>5, NextCases

----------------------------------------------------------------------------
(* What the steps that write the cache do to it, entry by entry.           *)
(* PerformRequestedCacheInvalidation. *)
LEMMA PerformFacts ==
  ASSUME ArmInv, Perform
  PROVE  /\ UNCHANGED <<stackVars, locked, asked, published, lo, mem, pc, cur, term, floor, overrun>>
         /\ halt_reason' = halt_reason \ {"CacheInvalidation"} /\ asked = {}
         /\ ctl \in {"perform", "leave"} /\ ctl' \in {"lookup", "host"}
         /\ \/ \A d \in Desc : Get(d)' = nullptr
            \/ /\ UNCHANGED <<offset, code, src>>
               /\ ~invalidate_entire_cache
               /\ \A d \in Desc : /\ Get(d)' \in {Get(d), nullptr}
                                  /\ d \in InRanges(invalid_cache_ranges) => Get(d)' = nullptr
<1>1. CASE ClearCache
  <2>1. \A d \in Desc : Get(d)' = nullptr
    BY Zenon, <1>1 DEF ClearCache, Get
  <2> QED
    BY <2>1 DEF Perform, ArmInv, RequestsQueued
<1>2. CASE /\ ~invalidate_entire_cache /\ InvalidateCacheRanges(invalid_cache_ranges)
           /\ UNCHANGED <<fastmem, src>>
  <2>1. InvalidateBasicBlocks(InRanges(invalid_cache_ranges)) /\ SpaceTypeOK
    BY Zenon, <1>2 DEF InvalidateCacheRanges, ArmInv, SpaceInv
  <2>2. \A d \in Desc : /\ Get(d)' \in {Get(d), nullptr}
                        /\ d \in InRanges(invalid_cache_ranges) => Get(d)' = nullptr
    BY Zenon, <2>1 DEF InvalidateBasicBlocks, Get
  <2>3. UNCHANGED <<offset, code>>
    BY <2>1 DEF InvalidateBasicBlocks
  <2> QED
    BY <1>2, <2>2, <2>3 DEF Perform, ArmInv, RequestsQueued
<1> QED
  BY Zenon, <1>1, <1>2 DEF Perform

(* GetOrEmit of a location without a block. *)
LEMMA EmitFacts ==
  ASSUME ArmInv, EmitTranslation
  PROVE  \E v \in lo..mem, s \in Slot :
           /\ s = (IF Full THEN 1 ELSE offset) /\ offset' = s + 1
           /\ v \in Version /\ BlockOf(pc, Translate[pc][v]) \in Block
           /\ code' = [code EXCEPT ![s] = BlockOf(pc, Translate[pc][v])]
           /\ src' = [src EXCEPT ![s] = v]
           /\ Get(pc)' = s
           /\ \A d \in Desc \ {pc} : Get(d)' = IF Full THEN nullptr ELSE Get(d)
           /\ \A t \in Slot, d \in Desc :
                /\ branch[t][d]' \in {IF t = s THEN Get(d)' ELSE branch[t][d], s, nullptr}
                /\ scratch1[t][d]' \in {IF t = s THEN Get(d)' ELSE scratch1[t][d], s, nullptr}
<1>t. ArmTypeOK /\ SpaceTypeOK
  BY DEF ArmInv, ArmTypeOK
<1>1. PICK v \in lo..mem : /\ Emit(BlockOf(pc, Translate[pc][v]))
                           /\ src' = [src EXCEPT ![IF Full THEN 1 ELSE offset] = v]
  BY Zenon DEF EmitTranslation
<1>2. v \in Version /\ pc \in Desc
  BY Zenon, <1>1, <1>t, Versions DEF ArmTypeOK
<1> DEFINE s == IF Full THEN 1 ELSE offset
           b == BlockOf(pc, Translate[pc][v])
           entries == IF Full THEN [d \in Desc |-> nullptr] ELSE block_entries
           references == IF Full THEN [d \in Desc |-> {}] ELSE block_references
           entered == [entries EXCEPT ![pc] = s]
<1>3. s \in Slot
  BY <1>t, SizeAssumption DEF SpaceTypeOK, Full, Slot
<1>4. b \in Block /\ b.desc = pc
  <2>1. b \in Blocks
    BY <1>2, BlocksAreTranslations
  <2>2. b.desc = pc
    BY Zenon DEF BlockOf
  <2> QED
    BY Zenon, <2>1, <2>2, BlocksAssumption
<1>5. entries \in [Desc -> Slot \cup {nullptr}]
  BY Zenon, <1>t DEF SpaceTypeOK
<1>6. EmitAt(b, s, entries, references)
  BY <1>1 DEF Emit
<1>7. code' = [code EXCEPT ![s] = b] /\ offset' = s + 1 /\ block_entries' = entered
  BY Zenon, <1>4, <1>6 DEF EmitAt
<1>8. Get(pc)' = s /\ \A d \in Desc \ {pc} : Get(d)' = IF Full THEN nullptr ELSE Get(d)
  <2>1. UNCHANGED pc
    BY Zenon DEF EmitTranslation
  <2>2. entered[pc] = s /\ \A d \in Desc \ {pc} : entered[d] = IF Full THEN nullptr ELSE block_entries[d]
    BY Zenon, <1>2, <1>5
  <2> QED
    BY Zenon, <1>7, <2>1, <2>2 DEF Get
<1>9. \A t \in Slot, d \in Desc :
        branch[t][d]' \in {IF t = s THEN Get(d)' ELSE branch[t][d], s, nullptr}
  <2> DEFINE linked == Link(branch, s, b.links, entered)
  <2>1. branch' = Relinked(linked, Branching([code EXCEPT ![s] = b], s + 1),
                           WithReferences(references, b, s, entered), {pc}, s)
    BY Zenon, <1>4, <1>6 DEF EmitAt
  <2>2. \A t \in Slot, d \in Desc :
          linked[t][d] \in {IF t = s THEN entered[d] ELSE branch[t][d], nullptr}
    BY Zenon, <1>t, <1>3 DEF Link, SpaceTypeOK
  <2> HIDE DEF linked, entered, s, b, references
  <2>3. \A t \in Slot, d \in Desc : branch[t][d]' \in {linked[t][d], s}
    BY Zenon, <2>1 DEF Relinked
  <2> QED
    BY <2>2, <2>3, <1>7 DEF Get
<1>10. \A t \in Slot, d \in Desc :
         scratch1[t][d]' \in {IF t = s THEN Get(d)' ELSE scratch1[t][d], s, nullptr}
  <2> DEFINE linked == Link(scratch1, s, b.pushes, entered)
  <2>1. scratch1' = Relinked(linked, Moving([code EXCEPT ![s] = b], s + 1),
                             WithReferences(references, b, s, entered), {pc}, s)
    BY Zenon, <1>4, <1>6 DEF EmitAt
  <2>2. \A t \in Slot, d \in Desc :
          linked[t][d] \in {IF t = s THEN entered[d] ELSE scratch1[t][d], nullptr}
    BY Zenon, <1>t, <1>3 DEF Link, SpaceTypeOK
  <2> HIDE DEF linked, entered, s, b, references
  <2>3. \A t \in Slot, d \in Desc : scratch1[t][d]' \in {linked[t][d], s}
    BY Zenon, <2>1 DEF Relinked
  <2> QED
    BY <2>2, <2>3, <1>7 DEF Get
<1>11. s = (IF Full THEN 1 ELSE offset) /\ src' = [src EXCEPT ![s] = v] /\ b = BlockOf(pc, Translate[pc][v])
  BY Zenon, <1>1
<1> HIDE DEF s, b, entries, references, entered
<1>12. /\ s = (IF Full THEN 1 ELSE offset) /\ offset' = s + 1 /\ v \in Version /\ b \in Block
       /\ code' = [code EXCEPT ![s] = b] /\ src' = [src EXCEPT ![s] = v] /\ Get(pc)' = s
       /\ \A d \in Desc \ {pc} : Get(d)' = IF Full THEN nullptr ELSE Get(d)
  BY Zenon, <1>2, <1>4, <1>7, <1>8, <1>11
<1> WITNESS v \in lo..mem, s \in Slot
<1> QED
  BY Zenon, <1>9, <1>10, <1>11, <1>12

----------------------------------------------------------------------------

(* Every step keeps requests queued until they are performed: only         *)
(* PerformRequestedCacheInvalidation empties the queue, under the mutex.   *)
LEMMA QueuedStep == ASSUME ArmInv, ArmNext PROVE RequestsQueued'
<1>i. RequestsQueued /\ mem \in Nat
      /\ locked \in BOOLEAN /\ locked' \in BOOLEAN
      /\ invalidate_entire_cache \in BOOLEAN /\ invalidate_entire_cache' \in BOOLEAN
  BY Versions, StepType DEF ArmInv, ArmTypeOK
<1> USE <1>i
<1>1. CASE ControlStep
  <2>1. floor' = floor \/ floor' = published
    BY Zenon, <1>1 DEF ControlStep, Run, Reset, PerformNothing, GetFound, GenerateIR, Enter,
         ConditionFailed, Execute, CallSupervisor, MemoryAbort,
         TermCheckHalt, TermLink, TermPopRSB, TermDispatch, Dispatch, Exit
  <2> QED
    BY Zenon, <1>1, <2>1, ControlFrame DEF RequestsQueued, Queued, requestVars
<1>2. CASE OtherThreads
  <2> USE DEF RequestsQueued, Queued, runVars, requestVars
  <2>1. CASE WriteCode \/ HaltExecution
    <3>1. mem' \in {mem, mem + 1} /\ UNCHANGED <<requestVars, floor>>
      BY Zenon, <2>1 DEF WriteCode, HaltExecution
    <3>2. 1..mem \subseteq 1..mem'
      BY <3>1
    <3> QED
      BY Zenon, <3>1, <3>2
  <2>2. CASE RequestRange
    BY Zenon, <2>2 DEF RequestRange
  <2>3. CASE RequestClear
    BY Zenon, <2>3 DEF RequestClear
  <2>4. CASE RequestHalt
    BY <2>4 DEF RequestHalt
  <2> QED
    BY Zenon, <1>2, <2>1, <2>2, <2>3, <2>4 DEF OtherThreads
<1>3. CASE Perform
  BY Zenon, <1>3, PerformFacts DEF RequestsQueued
<1>4. CASE EmitTranslation \/ FastmemFault
  BY Zenon, <1>4 DEF EmitTranslation, FastmemFault, RequestsQueued, Queued, requestVars
<1> QED
  BY Zenon, <1>1, <1>2, <1>3, <1>4, NextCases

(* Every step keeps the translation in progress covered by the queue. *)
LEMMA TranslationStep == ASSUME ArmInv, ArmNext PROVE TranslationCurrent'
<1>i. RequestsQueued /\ TranslationCurrent /\ mem \in Nat /\ lo \in Nat
      /\ published \subseteq Nat /\ floor \subseteq Nat
      /\ invalidate_entire_cache \in BOOLEAN /\ invalidate_entire_cache' \in BOOLEAN
  BY Zenon, Versions, StepType DEF ArmInv, ArmTypeOK
<1> USE <1>i
<1>1. CASE GenerateIR
  BY <1>1 DEF GenerateIR, TranslationCurrent, RequestsQueued, requestVars, spaceVars, Get
<1>2. CASE ControlStep /\ ~GenerateIR
  <2>1. ctl' # "emit"
    <3>1. Run \/ PerformNothing \/ GetFound \/ Enter \/ ConditionFailed \/ Execute => ctl' # "emit"
      BY Zenon DEF Run, PerformNothing, GetFound, Enter, ConditionFailed, Execute, Goto
    <3>2. Reset \/ CallSupervisor \/ MemoryAbort \/ TermCheckHalt \/ TermLink => ctl' # "emit"
      BY Zenon DEF Reset, CallSupervisor, MemoryAbort, TermCheckHalt, TermLink, Goto
    <3>3. TermPopRSB \/ TermDispatch \/ Dispatch \/ Exit => ctl' # "emit"
      BY Zenon DEF TermPopRSB, TermDispatch, Dispatch, Exit, Goto
    <3> QED
      BY Zenon, <1>2, <3>1, <3>2, <3>3 DEF ControlStep
  <2> QED
    BY Zenon, <2>1 DEF TranslationCurrent
<1>3. CASE OtherThreads
  <2> USE DEF TranslationCurrent, Queued, runVars, requestVars, translateVars, spaceVars, Get
  <2>1. CASE WriteCode \/ HaltExecution
    <3>1. /\ mem' \in {mem, mem + 1} /\ UNCHANGED <<requestVars, floor, ctl, pc, lo, block_entries>>
          /\ halt_reason \subseteq halt_reason'
      BY Zenon, <2>1 DEF WriteCode, HaltExecution
    <3>2. lo <= mem => lo <= mem'
      BY <3>1
    <3> QED
      BY Zenon, <3>1, <3>2
  <2>2. CASE RequestRange \/ RequestClear
    BY Zenon, <2>2 DEF RequestRange, RequestClear
  <2>3. CASE RequestHalt
    BY Zenon, <2>3 DEF RequestHalt, RequestsQueued
  <2> QED
    BY Zenon, <1>3, <2>1, <2>2, <2>3 DEF OtherThreads
<1>4. CASE Perform \/ EmitTranslation \/ FastmemFault
  BY Zenon, <1>4 DEF Perform, EmitTranslation, FastmemFault, TranslationCurrent
<1> QED
  BY Zenon, <1>1, <1>2, <1>3, <1>4, NextCases

(* A halt that is due stays due: nothing but PerformRequestedCache-        *)
(* Invalidation consumes it.                                               *)
Due == "CacheInvalidation" \in halt_reason \/ (ctl \in {"perform", "leave"} /\ "CacheInvalidation" \in hr)

(* ... and no control step of the JIT thread. *)
LEMMA ControlDue == ASSUME Due, ControlStep PROVE Due'
<1> USE DEF Due
<1>1. CASE Run \/ PerformNothing \/ Exit
  BY Zenon, <1>1 DEF Run, PerformNothing, Exit
<1>2. CASE Reset
  BY Zenon, <1>2 DEF Reset
<1>3. CASE GetFound \/ GenerateIR \/ Enter \/ ConditionFailed \/ Execute \/ CallSupervisor
  BY Zenon, <1>3 DEF GetFound, GenerateIR, Enter, ConditionFailed, Execute, CallSupervisor
<1>4. CASE MemoryAbort \/ TermCheckHalt \/ TermLink \/ TermPopRSB \/ TermDispatch \/ Dispatch
  BY Zenon, <1>4 DEF MemoryAbort, TermCheckHalt, TermLink, TermPopRSB, TermDispatch, Dispatch
<1> QED
  BY Zenon, <1>1, <1>2, <1>3, <1>4 DEF ControlStep

(* Every step keeps the removal of stale blocks pending. *)
LEMMA PendingStep == ASSUME ArmInv, ArmNext PROVE ArmStaleIsPending'
<1> SUFFICES ASSUME NEW v \in published', NEW d \in Desc, (Get(d) # nullptr)', Stale(Get(d), v)'
             PROVE  Queued(v)' /\ Due'
  BY Zenon DEF ArmStaleIsPending, Queued, Due
<1>a. published \subseteq Nat /\ ArmTypeOK /\ SpaceInv /\ RequestsQueued /\ TranslationCurrent
  BY DEF ArmInv, ArmTypeOK, Version
<1>b. v \in published /\ Get(d) # nullptr /\ Stale(Get(d), v) => Queued(v) /\ Due
  BY Zenon DEF ArmInv, ArmStaleIsPending, Queued, Due
<1>1. CASE ControlStep
  <2>1. v \in published /\ Get(d) # nullptr /\ Stale(Get(d), v)
    BY Zenon, <1>1, ControlFrame DEF spaceVars, requestVars, Get, Stale
  <2>2. Queued(v)'
    BY Zenon, <2>1, <1>b, <1>1, ControlFrame DEF Queued, requestVars
  <2> QED
    BY Zenon, <2>1, <2>2, <1>b, <1>1, ControlDue
<1>2. CASE OtherThreads
  <2>1. Get(d) # nullptr /\ Stale(Get(d), v)
    BY Zenon, <1>2 DEF OtherThreads, WriteCode, HaltExecution, RequestRange, RequestClear, RequestHalt,
         spaceVars, translateVars, Get, Stale
  <2>2. CASE v \in published
    <3>1. Queued(v) /\ Due
      BY Zenon, <1>b, <2>1, <2>2
    <3> USE <3>1 DEF Queued, Due, runVars, requestVars
    <3>2. CASE WriteCode \/ HaltExecution
      BY Zenon, <3>2 DEF WriteCode, HaltExecution
    <3>3. CASE RequestRange \/ RequestClear
      BY Zenon, <3>3 DEF RequestRange, RequestClear
    <3>4. CASE RequestHalt
      BY Zenon, <3>4 DEF RequestHalt
    <3> QED
      BY Zenon, <1>2, <3>2, <3>3, <3>4 DEF OtherThreads
  <2>3. CASE v \notin published
    <3>1. RequestHalt /\ v \in asked
      BY Zenon, <1>2, <2>3 DEF OtherThreads, WriteCode, HaltExecution, RequestRange, RequestClear,
           RequestHalt, requestVars
    <3> QED
      BY Zenon, <3>1, <1>a DEF RequestHalt, RequestsQueued, Queued, Due
  <2> QED
    BY Zenon, <2>2, <2>3
<1>3. CASE Perform
  <2>1. /\ UNCHANGED <<offset, code, src, published>> /\ ~invalidate_entire_cache
        /\ Get(d)' = Get(d) /\ d \notin InRanges(invalid_cache_ranges)
    BY Zenon, <1>3, PerformFacts
  <2>2. v \in published /\ Get(d) # nullptr /\ Stale(Get(d), v)
    BY Zenon, <2>1 DEF Stale
  <2>3. Written[v] \in invalid_cache_ranges /\ Written[v] \in code[Get(d)].cover
    BY Zenon, <2>1, <2>2, <1>b DEF Queued, Stale
  <2>4. <<d, Written[v]>> \in block_ranges
    BY Zenon, <2>2, <2>3, <1>a DEF SpaceInv, RangesCover
  <2> QED
    BY Zenon, <2>1, <2>3, <2>4 DEF InRanges
<1>4. CASE EmitTranslation
  <2>1. PICK w \in lo..mem, s \in Slot :
          /\ s = (IF Full THEN 1 ELSE offset)
          /\ code' = [code EXCEPT ![s] = BlockOf(pc, Translate[pc][w])]
          /\ src' = [src EXCEPT ![s] = w]
          /\ Get(pc)' = s
          /\ \A e \in Desc \ {pc} : Get(e)' = IF Full THEN nullptr ELSE Get(e)
    BY Zenon, <1>4, EmitFacts
  <2>2. UNCHANGED <<published, invalidate_entire_cache, invalid_cache_ranges, halt_reason, pc, hr>> /\ ctl = "emit"
    BY Zenon, <1>4 DEF EmitTranslation, requestVars
  <2>3. CASE d = pc
    <3>1. v > w
      BY Zenon, <2>1, <2>2, <2>3, <1>a DEF Stale, ArmTypeOK
    <3>2. v > lo /\ v \in published
      BY <3>1, <2>2, <1>a, Versions
    <3> QED
      BY Zenon, <3>2, <2>2, <1>a DEF TranslationCurrent, Queued, Due
  <2>4. CASE d # pc
    <3>1. Get(d)' = Get(d) /\ ~Full
      BY Zenon, <2>1, <2>4
    <3>2. Get(d) \in 1..offset - 1 /\ s = offset /\ Get(d) \in Slot /\ offset \in Int
      <4>1. Get(d) # nullptr /\ s = offset
        BY Zenon, <3>1, <2>1
      <4>2. Get(d) \in Slot /\ offset \in Int
        BY <4>1, <1>a, SizeAssumption DEF SpaceInv, Get, SpaceTypeOK
      <4> QED
        BY Zenon, <4>1, <4>2, <1>a DEF SpaceInv, EntriesValid, Holds
    <3>3. code'[Get(d)] = code[Get(d)] /\ src'[Get(d)] = src[Get(d)]
      <4>1. code \in [Slot -> Block \cup {NoBlock}] /\ src \in [Slot -> Version]
        BY Zenon, <1>a DEF ArmTypeOK, SpaceTypeOK
      <4>2. Get(d) # s /\ Get(d) \in Slot
        BY <3>2
      <4> QED
        BY Zenon, <4>1, <4>2, <2>1
    <3>4. Stale(Get(d), v)
      BY Zenon, <3>1, <3>3 DEF Stale
    <3> QED
      BY Zenon, <3>1, <3>4, <2>2, <1>b DEF Queued, Due
  <2> QED
    BY Zenon, <2>3, <2>4
<1>5. CASE FastmemFault
  <2>1. UNCHANGED <<published, invalidate_entire_cache, invalid_cache_ranges, halt_reason, src, hr>>
        /\ ctl = "body"
    BY Zenon, <1>5 DEF FastmemFault, requestVars
  <2>2. UNCHANGED code /\ Get(d)' \in {Get(d), nullptr}
    <3>1. CASE UNCHANGED spaceVars
      BY Zenon, <3>1 DEF spaceVars, Get
    <3>2. CASE InvalidateBasicBlocks({CurDesc})
      BY Zenon, <3>2 DEF InvalidateBasicBlocks, Get
    <3> QED
      BY Zenon, <1>5, <3>1, <3>2 DEF FastmemFault
  <2>3. Stale(Get(d), v)
    BY Zenon, <2>1, <2>2 DEF Stale
  <2> QED
    BY Zenon, <2>1, <2>2, <2>3, <1>b DEF Queued, Due
<1> QED
  BY Zenon, <1>1, <1>2, <1>3, <1>4, <1>5, NextCases

(* Run starts with a halt reason for every stale block it must not see. *)
LEMMA FloorStep == ASSUME ArmInv, ArmNext PROVE FloorPending'
<1> SUFFICES ASSUME ctl' = "perform", NEW v \in floor', NEW d \in Desc,
                    (Get(d) # nullptr)', Stale(Get(d), v)'
             PROVE  "CacheInvalidation" \in hr'
  BY Zenon DEF FloorPending
<1>1. CASE Run
  <2>1. v \in published /\ Get(d) # nullptr /\ Stale(Get(d), v) /\ ctl = "host"
    BY Zenon, <1>1 DEF Run, spaceVars, translateVars, Get, Stale
  <2> QED
    BY <1>1, <2>1 DEF Run, ArmInv, ArmStaleIsPending
<1>2. CASE OtherThreads
  <2>1. v \in floor /\ Get(d) # nullptr /\ Stale(Get(d), v) /\ ctl = "perform" /\ UNCHANGED hr
    BY Zenon, <1>2 DEF OtherThreads, WriteCode, HaltExecution, RequestRange, RequestClear, RequestHalt,
         spaceVars, translateVars, runVars, Get, Stale
  <2> QED
    BY <2>1 DEF ArmInv, FloorPending
<1>3. ~(ControlStep /\ ~Run)
  <2>1. Reset \/ PerformNothing \/ GetFound \/ GenerateIR \/ Enter \/ ConditionFailed => ctl' # "perform"
    BY Zenon DEF Reset, PerformNothing, GetFound, GenerateIR, Enter, ConditionFailed, Goto
  <2>2. Execute \/ CallSupervisor \/ MemoryAbort \/ TermCheckHalt \/ TermLink => ctl' # "perform"
    BY Zenon DEF Execute, CallSupervisor, MemoryAbort, TermCheckHalt, TermLink, Goto
  <2>3. TermPopRSB \/ TermDispatch \/ Dispatch \/ Exit => ctl' # "perform"
    BY Zenon DEF TermPopRSB, TermDispatch, Dispatch, Exit, Goto
  <2> QED
    BY <2>1, <2>2, <2>3 DEF ControlStep
<1>4. ~(Perform \/ EmitTranslation \/ FastmemFault)
  BY Zenon DEF Perform, EmitTranslation, FastmemFault
<1> QED
  BY Zenon, <1>1, <1>2, <1>3, <1>4, NextCases

----------------------------------------------------------------------------
(* The blocks, the frame and its pointers.                                 *)

(* Every block in the cache is what EmitArm64 makes of the version in src. *)
LEMMA CodeStep == ASSUME ArmInv, ArmNext PROVE CodeTranslated'
<1>t. CodeTranslated /\ code \in [Slot -> Block \cup {NoBlock}] /\ src \in [Slot -> Version]
  BY DEF ArmInv, ArmTypeOK, SpaceTypeOK
<1>u. UNCHANGED <<code, src>> => CodeTranslated'
  BY <1>t DEF CodeTranslated
<1>1. CASE ControlStep
  BY Zenon, <1>1, <1>u, ControlFrame DEF spaceVars
<1>2. CASE OtherThreads
  BY Zenon, <1>2, <1>u DEF OtherThreads, WriteCode, HaltExecution, RequestRange, RequestClear, RequestHalt,
       spaceVars, translateVars
<1>3. CASE Perform
  <2>1. CASE ClearCache
    <3>1. NoBlock \notin Block
      BY DescAssumption DEF NoBlock, Block
    <3> QED
      BY <2>1, <3>1 DEF ClearCache, CodeTranslated
  <2>2. CASE InvalidateCacheRanges(invalid_cache_ranges) /\ UNCHANGED src
    BY Zenon, <2>2, <1>u DEF InvalidateCacheRanges, InvalidateBasicBlocks
  <2> QED
    BY <1>3, <2>1, <2>2 DEF Perform
<1>4. CASE EmitTranslation
  <2>1. PICK v \in lo..mem, s \in Slot :
          /\ code' = [code EXCEPT ![s] = BlockOf(pc, Translate[pc][v])]
          /\ src' = [src EXCEPT ![s] = v]
    BY <1>4, EmitFacts
  <2>2. BlockOf(pc, Translate[pc][v]).desc = pc
    BY DEF BlockOf
  <2>3. \A t \in Slot : code'[t] = (IF t = s THEN BlockOf(pc, Translate[pc][v]) ELSE code[t])
                        /\ src'[t] = (IF t = s THEN v ELSE src[t])
    BY Zenon, <1>t, <2>1
  <2> QED
    BY <1>t, <2>2, <2>3 DEF CodeTranslated
<1>5. CASE FastmemFault
  BY Zenon, <1>5, <1>u DEF FastmemFault, InvalidateBasicBlocks, spaceVars
<1> QED
  BY <1>1, <1>2, <1>3, <1>4, <1>5, NextCases

(* The RSB is empty outside run_code: Exit drops the frame. *)
LEMMA FrameStep == ASSUME ArmInv, ArmNext PROVE FrameEmpty'
<1>t. FrameEmpty /\ entering \in BOOLEAN /\ overrun \in BOOLEAN
  BY Zenon DEF ArmInv, ArmTypeOK
<1> USE <1>t DEF FrameEmpty, Outside, Goto
<1>1. CASE ControlStep
  <2>1. CASE Run \/ Reset \/ PerformNothing \/ GetFound \/ GenerateIR
    BY <2>1 DEF Run, Reset, PerformNothing, GetFound, GenerateIR, stackVars
  <2>2. CASE Enter
    BY Zenon, <2>2 DEF Enter, InitialStack
  <2>3. CASE ConditionFailed \/ CallSupervisor \/ MemoryAbort
    <3>1. CASE ConditionFailed
      BY Zenon, <3>1 DEF ConditionFailed, stackVars
    <3>2. CASE CallSupervisor
      BY Zenon, <3>2 DEF CallSupervisor
    <3>3. CASE MemoryAbort
      BY Zenon, <3>3 DEF MemoryAbort, stackVars
    <3> QED
      BY Zenon, <2>3, <3>1, <3>2, <3>3
  <2>4. CASE Execute
    <3>1. ~UsesRSB => UNCHANGED rsb
      <4>1. code[cur] = BlockOf(CurDesc, CurIR)
        BY Zenon, <2>4, CurrentBlock DEF Execute, Executing
      <4>2. ~UsesRSB => code[cur].pushes = {}
        BY Zenon, <4>1, BlockPushes
      <4> QED
        BY Zenon, <2>4, <4>2 DEF Execute
    <3> QED
      BY Zenon, <2>4, <3>1 DEF Execute
  <2>5. CASE TermCheckHalt \/ TermLink
    <3>1. CASE TermCheckHalt
      BY <3>1 DEF TermCheckHalt, stackVars
    <3>2. CASE TermLink
      BY Zenon, <3>2 DEF TermLink, stackVars
    <3> QED
      BY <2>5, <3>1, <3>2
  <2>6. CASE TermPopRSB \/ TermDispatch \/ Dispatch
    BY <2>6 DEF TermPopRSB, TermDispatch, Dispatch, stackVars
  <2>7. CASE Exit
    BY Zenon, <2>7 DEF Exit
  <2> QED
    BY Zenon, <1>1, <2>1, <2>2, <2>3, <2>4, <2>5, <2>6, <2>7 DEF ControlStep
<1>2. CASE OtherThreads
  BY <1>2 DEF OtherThreads, WriteCode, HaltExecution, RequestRange, RequestClear, RequestHalt,
       runVars, stackVars
<1>3. CASE Perform
  BY Zenon, <1>3 DEF Perform, stackVars
<1>4. CASE EmitTranslation
  BY Zenon, <1>4 DEF EmitTranslation, stackVars
<1>5. CASE FastmemFault
  BY Zenon, <1>5 DEF FastmemFault, stackVars
<1> QED
  BY Zenon, <1>1, <1>2, <1>3, <1>4, <1>5, NextCases

(* A terminal being executed is one of the block being executed. *)
LEMMA TerminalStep == ASSUME ArmInv, ArmNext PROVE TerminalLinked'
<1>t. TerminalLinked
  BY Zenon DEF ArmInv
<1> USE <1>t DEF TerminalLinked
<1>1. CASE ControlStep
  <2>c. UNCHANGED code
    BY Zenon, <1>1, ControlFrame DEF spaceVars
  <2>1. CASE ConditionFailed
    <3>1. PICK l \in CurIR.condfail : term' = [kind |-> "LinkBlock", next |-> l, check |-> FALSE]
      BY Zenon, <2>1 DEF ConditionFailed
    <3>2. CurIR \in IR /\ code[cur] = BlockOf(CurDesc, CurIR)
      BY <2>1, CurrentBlock DEF ConditionFailed, Executing
    <3>3. term' \in Terminal /\ term'.next = l /\ ~term'.check
      BY Zenon, <3>1, <3>2 DEF IR, Terminal, Links
    <3>4. Linked => l \in code[cur].links
      BY <3>2 DEF BlockOf
    <3> QED
      BY <2>1, <2>c, <3>3, <3>4 DEF ConditionFailed
  <2>2. CASE Execute
    <3>1. PICK t \in CurIR.terms : term' = t
      BY Zenon, <2>2 DEF Execute
    <3>2. CurIR \in IR /\ code[cur] = BlockOf(CurDesc, CurIR)
      BY Zenon, <2>2, CurrentBlock DEF Execute, Executing
    <3>3. term' \in Terminal
      BY Zenon, <3>1, <3>2 DEF IR
    <3>4. Linked /\ t.kind \in Links => t.next \in code[cur].links
      BY <3>2 DEF BlockOf
    <3>5. t.check \/ CurIR.svc => t.kind \notin Links
      <4>1. CurDesc \in Desc /\ src[cur] \in Version
        BY Zenon, <2>2, CurrentBlock DEF Execute, Executing, ArmInv, ArmTypeOK
      <4> QED
        BY <4>1, TerminalAssumption DEF CurIR
    <3> QED
      BY Zenon, <2>2, <2>c, <3>1, <3>3, <3>4, <3>5 DEF Execute
  <2>3. CASE CallSupervisor
    BY Zenon, <2>3, <2>c DEF CallSupervisor
  <2>4. CASE Run \/ Reset \/ PerformNothing \/ GetFound \/ GenerateIR \/ Enter
    BY <2>4 DEF Run, Reset, PerformNothing, GetFound, GenerateIR, Enter, Goto
  <2>5. CASE MemoryAbort \/ TermCheckHalt \/ TermLink \/ TermPopRSB \/ TermDispatch \/ Dispatch \/ Exit
    BY Zenon, <2>5 DEF MemoryAbort, TermCheckHalt, TermLink, TermPopRSB, TermDispatch, Dispatch, Exit, Goto
  <2> QED
    BY Zenon, <1>1, <2>1, <2>2, <2>3, <2>4, <2>5 DEF ControlStep
<1>2. CASE OtherThreads
  BY Zenon, <1>2 DEF OtherThreads, WriteCode, HaltExecution, RequestRange, RequestClear, RequestHalt,
       spaceVars, runVars
<1>3. CASE Perform \/ EmitTranslation \/ FastmemFault
  BY Zenon, <1>3 DEF Perform, EmitTranslation, FastmemFault
<1> QED
  BY <1>1, <1>2, <1>3, NextCases

----------------------------------------------------------------------------
(* Where the pointers of a run lead.                                       *)

(* The relocations of the block being executed. *)
LEMMA CurrentPointers ==
  ASSUME ArmInv, ctl \in Executing, NEW d \in Desc
  PROVE  /\ d \in code[cur].links => /\ Fresh(branch[cur][d])
                                     /\ ~overrun => branch[cur][d] = Get(d)
         /\ d \in code[cur].pushes => /\ Fresh(scratch1[cur][d])
                                      /\ ~overrun => scratch1[cur][d] = Get(d)
<1>1. cur \in Slot /\ ctl \notin Outside /\ overrun \in BOOLEAN
  BY Zenon, CurrentBlock DEF Executing, Outside, ArmInv, ArmTypeOK
<1>2. CASE overrun
  BY Zenon, <1>1, <1>2 DEF ArmInv, ReachableFresh
<1>3. CASE ~overrun
  <2>1. cur \in 1..offset - 1
    BY <1>1, <1>3, SizeAssumption DEF ArmInv, CurrentKnown, ArmTypeOK, SpaceTypeOK, Slot
  <2> QED
    BY Zenon, <1>1, <1>3, <2>1 DEF ArmInv, SpaceInv, RelocationsCurrent, ReachableFresh
<1> QED
  BY Zenon, <1>2, <1>3

(* An entry point found in the cache is one of a known block. *)
LEMMA FoundKnown ==
  ASSUME ArmInv, NEW d \in Desc, Get(d) # nullptr
  PROVE  Holds(Get(d), d) /\ Get(d) \in Slot /\ Get(d) < offset
<1>1. Holds(Get(d), d) /\ offset \in Int
  BY SizeAssumption DEF ArmInv, SpaceInv, EntriesValid, SpaceTypeOK
<1>2. Get(d) \in Slot
  BY Zenon DEF ArmInv, SpaceInv, SpaceTypeOK, Get
<1> QED
  BY <1>1, <1>2 DEF Holds

(* Without an overrun, the block being executed is one block_infos knows.  *)
LEMMA KnownStep == ASSUME ArmInv, ArmNext PROVE CurrentKnown'
<1>t. CurrentKnown /\ overrun \in BOOLEAN /\ entering \in BOOLEAN /\ pc \in Desc
  BY Zenon DEF ArmInv, ArmTypeOK
<1> USE <1>t DEF CurrentKnown, Executing
<1>1. CASE ControlStep
  <2>c. UNCHANGED offset
    BY Zenon, <1>1, ControlFrame DEF spaceVars
  <2>1. CASE GetFound
    BY Zenon, <2>1, <2>c, FoundKnown DEF GetFound
  <2>2. CASE Enter
    BY Zenon, <2>2, <2>c DEF Enter, Goto
  <2>3. CASE ConditionFailed \/ Execute \/ CallSupervisor
    BY Zenon, <2>3, <2>c DEF ConditionFailed, Execute, CallSupervisor
  <2>4. CASE TermLink
    <3> DEFINE p == IF Linked /\ MayLink THEN branch[cur][term.next] ELSE ReturnToDispatcher
    <3>1. Goto(p) /\ UNCHANGED overrun /\ ctl = "term" /\ term.kind \in Links
      BY Zenon, <2>4 DEF TermLink
    <3>2. SUFFICES ASSUME p # ReturnToDispatcher, ~overrun PROVE p < offset
      BY Zenon, <3>1, <2>c DEF Goto
    <3>3. term.next \in Desc /\ term.next \in code[cur].links /\ p = branch[cur][term.next]
      BY Zenon, <3>1, <3>2 DEF ArmInv, TerminalLinked, Terminal
    <3>4. p = Get(term.next)
      BY Zenon, <3>1, <3>2, <3>3, CurrentPointers
    <3> QED
      BY <3>2, <3>3, <3>4, FoundKnown DEF ReturnToDispatcher
  <2>5. CASE TermPopRSB
    <3> DEFINE p == IF rsb[rsb_ptr].loc = pc THEN rsb[rsb_ptr].ptr ELSE ReturnToDispatcher
    <3>1. Goto(p) /\ UNCHANGED overrun
      BY Zenon, <2>5 DEF TermPopRSB
    <3>2. SUFFICES ASSUME p # ReturnToDispatcher, ~overrun PROVE p < offset
      BY Zenon, <3>1, <2>c DEF Goto
    <3>3. Holds(p, rsb[rsb_ptr].loc) /\ offset \in Int
      BY <3>2, SizeAssumption DEF ArmInv, PredictionsValid, ArmTypeOK, SpaceTypeOK
    <3> QED
      BY <3>3 DEF Holds
  <2>6. CASE Run \/ Reset \/ PerformNothing \/ GenerateIR
    BY <2>6 DEF Run, Reset, PerformNothing, GenerateIR
  <2>7. CASE MemoryAbort \/ TermCheckHalt \/ TermDispatch \/ Dispatch \/ Exit
    BY Zenon, <2>7 DEF MemoryAbort, TermCheckHalt, TermDispatch, Dispatch, Exit, Goto
  <2> QED
    BY <1>1, <2>1, <2>2, <2>3, <2>4, <2>5, <2>6, <2>7 DEF ControlStep
<1>2. CASE OtherThreads
  BY Zenon, <1>2 DEF OtherThreads, WriteCode, HaltExecution, RequestRange, RequestClear, RequestHalt,
       spaceVars, runVars
<1>3. CASE Perform \/ EmitTranslation
  BY Zenon, <1>3 DEF Perform, EmitTranslation
<1>4. CASE FastmemFault
  BY Zenon, <1>4 DEF FastmemFault, InvalidateBasicBlocks, spaceVars
<1> QED
  BY Zenon, <1>1, <1>2, <1>3, <1>4, NextCases

(* Run enters the block of the PC. *)
LEMMA EntersStep == ASSUME ArmInv, ArmNext PROVE EntersGuest'
<1>t. /\ EntersGuest /\ src \in [Slot -> Version] /\ mem \in Nat /\ lo \in Nat /\ pc \in Desc
      /\ src \in [Slot -> Nat]
  BY Zenon, Versions DEF ArmInv, ArmTypeOK
<1>u. UNCHANGED <<src, mem>> => \A s \in Slot : src'[s] <= mem'
  BY <1>t DEF EntersGuest
<1>1. CASE ControlStep
  <2>1. UNCHANGED <<code, src, mem>>
    BY Zenon, <1>1, ControlFrame DEF spaceVars
  <2>2. CASE GetFound
    <3>1. Holds(Get(pc), pc)
      BY Zenon, <2>2, <1>t, FoundKnown DEF GetFound
    <3> QED
      BY Zenon, <2>1, <2>2, <3>1, <1>u DEF GetFound, EntersGuest, CurDesc, Holds
  <2>3. CASE ~GetFound
    <3>1. Run \/ Reset \/ PerformNothing \/ GenerateIR \/ Enter \/ ConditionFailed => ctl' # "enter"
      BY Zenon DEF Run, Reset, PerformNothing, GenerateIR, Enter, ConditionFailed, Goto
    <3>2. Execute \/ CallSupervisor \/ MemoryAbort \/ TermCheckHalt \/ TermLink => ctl' # "enter"
      BY Zenon DEF Execute, CallSupervisor, MemoryAbort, TermCheckHalt, TermLink, Goto
    <3>3. TermPopRSB \/ TermDispatch \/ Dispatch \/ Exit => ctl' # "enter"
      BY Zenon DEF TermPopRSB, TermDispatch, Dispatch, Exit, Goto
    <3> QED
      BY Zenon, <1>1, <1>u, <2>1, <2>3, <3>1, <3>2, <3>3 DEF ControlStep, EntersGuest
  <2> QED
    BY Zenon, <2>2, <2>3
<1>2. CASE OtherThreads
  <2>1. UNCHANGED <<code, src, ctl, cur, pc>> /\ mem' \in {mem, mem + 1}
    BY Zenon, <1>2 DEF OtherThreads, WriteCode, HaltExecution, RequestRange, RequestClear, RequestHalt,
         spaceVars, runVars, translateVars
  <2>2. \A s \in Slot : src'[s] <= mem'
    BY <2>1, <1>t DEF EntersGuest
  <2> QED
    BY Zenon, <2>1, <2>2, <1>t DEF EntersGuest, CurDesc
<1>3. CASE Perform
  <2>1. UNCHANGED mem /\ src' \in {src, [s \in Slot |-> 0]} /\ ctl' # "enter"
    BY <1>3 DEF Perform
  <2>2. \A s \in Slot : src'[s] <= mem'
    BY <2>1, <1>t DEF EntersGuest
  <2> QED
    BY Zenon, <2>1, <2>2 DEF EntersGuest
<1>4. CASE EmitTranslation
  <2>1. UNCHANGED mem /\ ctl' = "lookup"
    BY Zenon, <1>4 DEF EmitTranslation
  <2>2. PICK v \in lo..mem, s \in Slot : src' = [src EXCEPT ![s] = v]
    BY Zenon, <1>4, EmitFacts
  <2>3. \A t \in Slot : src'[t] <= mem'
    BY <2>1, <2>2, <1>t DEF EntersGuest
  <2> QED
    BY <2>1, <2>3 DEF EntersGuest
<1>5. CASE FastmemFault
  BY <1>5, <1>u DEF FastmemFault, EntersGuest
<1> QED
  BY Zenon, <1>1, <1>2, <1>3, <1>4, <1>5, NextCases

(* Without an overrun, pushed predictions stay those of their locations.   *)
LEMMA PredictStep == ASSUME ArmInv, ArmNext PROVE PredictionsValid'
<1>t. /\ PredictionsValid /\ overrun \in BOOLEAN /\ entering \in BOOLEAN
      /\ rsb \in [RSBIndex -> Entry] /\ offset \in 1..CacheSize + 1
      /\ code \in [Slot -> Block \cup {NoBlock}]
  BY Zenon DEF ArmInv, ArmTypeOK, SpaceTypeOK
<1>e. rsb' = NoEntries => PredictionsValid'
  BY DEF PredictionsValid, NoEntries
<1>u. UNCHANGED <<rsb, offset, code, overrun>> => PredictionsValid'
  BY <1>t DEF PredictionsValid, Holds
<1>1. CASE ControlStep
  <2>c. UNCHANGED <<offset, code>>
    BY Zenon, <1>1, ControlFrame DEF spaceVars
  <2>1. CASE Enter
    <3>1. CASE UsesRSB
      <4>1. rsb' \in [RSBIndex -> [loc: Garbage, ptr: {ReturnToDispatcher}]]
        BY Zenon, <2>1, <3>1 DEF Enter, InitialStack
      <4> QED
        BY Zenon, <4>1 DEF PredictionsValid
    <3>2. CASE ~UsesRSB
      BY Zenon, <2>1, <3>2, <1>e DEF Enter, InitialStack, ArmInv, FrameEmpty
    <3> QED
      BY Zenon, <3>1, <3>2
  <2>2. CASE Execute
    <3>1. UNCHANGED overrun /\ ctl \in Executing /\ cur \in Slot
      BY Zenon, <2>2, CurrentBlock DEF Execute, Executing
    <3>2. CASE UNCHANGED rsb
      BY Zenon, <3>1, <3>2, <2>c, <1>u
    <3>3. ASSUME NEW d \in code[cur].pushes, PushRSB(d)
          PROVE  PredictionsValid'
      <4>1. d \in Desc
        BY Zenon, <3>1, <2>2, CurrentBlock DEF Execute, Executing, Block
      <4>2. ~overrun => \/ scratch1[cur][d] = ReturnToDispatcher
                        \/ Holds(scratch1[cur][d], d)
        BY Zenon, <3>1, <4>1, CurrentPointers, FoundKnown DEF ReturnToDispatcher
      <4>3. \A i \in RSBIndex : rsb'[i] \in {rsb[i], [loc |-> d, ptr |-> scratch1[cur][d]]}
        BY Zenon, <3>3, <1>t DEF PushRSB
      <4>4. \A q, e : Holds(q, e)' <=> Holds(q, e)
        BY Zenon, <2>c DEF Holds
      <4> QED
        <5> SUFFICES ASSUME ~overrun, NEW i \in RSBIndex
                     PROVE  rsb'[i].ptr = ReturnToDispatcher \/ Holds(rsb'[i].ptr, rsb'[i].loc)
          BY <3>1, <4>4 DEF PredictionsValid, Holds
        <5>1. rsb[i].ptr = ReturnToDispatcher \/ Holds(rsb[i].ptr, rsb[i].loc)
          BY Zenon, <1>t DEF PredictionsValid
        <5>2. CASE rsb'[i] = rsb[i]
          BY Zenon, <5>1, <5>2
        <5>3. CASE rsb'[i] = [loc |-> d, ptr |-> scratch1[cur][d]]
          <6>1. rsb'[i].ptr = scratch1[cur][d] /\ rsb'[i].loc = d
            BY <5>3
          <6> QED
            BY Zenon, <4>2, <6>1
        <5> QED
          BY Zenon, <5>2, <5>3, <4>3
    <3> QED
      BY Zenon, <2>2, <3>2, <3>3 DEF Execute
  <2>3. CASE Exit
    BY <2>3, <1>e DEF Exit
  <2>4. CASE Run \/ Reset \/ PerformNothing \/ GetFound \/ GenerateIR \/ ConditionFailed \/ CallSupervisor
    BY Zenon, <2>4, <2>c, <1>u DEF Run, Reset, PerformNothing, GetFound, GenerateIR, ConditionFailed,
         CallSupervisor, stackVars
  <2>5. CASE MemoryAbort \/ TermCheckHalt \/ TermLink \/ TermPopRSB \/ TermDispatch \/ Dispatch
    BY Zenon, <2>5, <2>c, <1>u DEF MemoryAbort, TermCheckHalt, TermLink, TermPopRSB, TermDispatch,
         Dispatch, stackVars
  <2> QED
    BY Zenon, <1>1, <2>1, <2>2, <2>3, <2>4, <2>5 DEF ControlStep
<1>2. CASE OtherThreads
  BY Zenon, <1>2, <1>u DEF OtherThreads, WriteCode, HaltExecution, RequestRange, RequestClear, RequestHalt,
       spaceVars, runVars, stackVars
<1>3. CASE Perform
  BY <1>3, <1>e DEF Perform, stackVars, ArmInv, FrameEmpty, Outside
<1>4. CASE EmitTranslation
  <2>1. UNCHANGED rsb /\ overrun' = (overrun \/ (Full /\ ~entering))
    BY Zenon, <1>4 DEF EmitTranslation, stackVars
  <2>2. CASE overrun'
    BY Zenon, <2>2 DEF PredictionsValid
  <2>3. CASE entering
    BY Zenon, <2>1, <2>3, <1>e DEF ArmInv, FrameEmpty
  <2>4. CASE ~overrun /\ ~Full
    <3>1. PICK v \in lo..mem, s \in Slot :
            /\ s = offset /\ offset' = s + 1
            /\ code' = [code EXCEPT ![s] = BlockOf(pc, Translate[pc][v])]
      BY Zenon, <1>4, <2>4, EmitFacts
    <3>2. \A q \in Slot, e \in Desc \cup {NoDesc} : Holds(q, e) => Holds(q, e)'
      <4>1. \A q \in 1..offset - 1 : q \in 1..offset' - 1 /\ q # s
        BY <3>1, <1>t, SizeAssumption
      <4>2. \A q \in Slot : q # s => code'[q] = code[q]
        BY Zenon, <3>1, <1>t
      <4> QED
        BY Zenon, <4>1, <4>2 DEF Holds
    <3>3. \A i \in RSBIndex : rsb[i].ptr \in Slot \cup {ReturnToDispatcher}
                              /\ rsb[i].loc \in Desc \cup {NoDesc}
      BY Zenon, <1>t DEF Entry
    <3> QED
      BY <2>1, <2>4, <3>2, <3>3, <1>t DEF PredictionsValid
  <2> QED
    BY Zenon, <2>1, <2>2, <2>3, <2>4, <1>t
<1>5. CASE FastmemFault
  BY Zenon, <1>5, <1>u DEF FastmemFault, InvalidateBasicBlocks, spaceVars, stackVars
<1> QED
  BY Zenon, <1>1, <1>2, <1>3, <1>4, <1>5, NextCases

----------------------------------------------------------------------------

(* ReachableFresh, as a set of pointers that the steps keep. *)
FreshSet == {p \in Slot \cup {nullptr} : Fresh(p)}

ReachSet ==
  ctl \notin Outside =>
    /\ \A d \in Desc : Get(d) \in FreshSet
    /\ \A i \in RSBIndex : rsb[i].ptr \in FreshSet
    /\ ctl \in Executing \cup {"enter"} => cur # nullptr /\ cur \in FreshSet
    /\ overrun => \A s \in Slot : /\ \A d \in code[s].links : branch[s][d] \in FreshSet
                                  /\ \A d \in code[s].pushes : scratch1[s][d] \in FreshSet

(* The two forms agree. *)
LEMMA ReachSetSame == ArmTypeOK => (ReachableFresh <=> ReachSet)
<1> SUFFICES ASSUME ArmTypeOK PROVE ReachableFresh <=> ReachSet
  BY Zenon
<1>1. \A d \in Desc : Get(d) \in Slot \cup {nullptr}
  BY Zenon DEF ArmTypeOK, SpaceTypeOK, Get
<1>2. \A i \in RSBIndex : rsb[i].ptr \in Slot \cup {nullptr}
  BY Zenon DEF ArmTypeOK, Entry, ReturnToDispatcher
<1>3. cur \in Slot \cup {nullptr}
  BY Zenon DEF ArmTypeOK, ReturnToDispatcher
<1>4. \A s \in Slot : code[s].links \subseteq Desc /\ code[s].pushes \subseteq Desc
  <2>1. \A s \in Slot : code[s] \in Block \cup {NoBlock}
    BY Zenon DEF ArmTypeOK, SpaceTypeOK
  <2> QED
    BY Zenon, <2>1, BlockSites
<1>5. \A s \in Slot, d \in Desc : branch[s][d] \in Slot \cup {nullptr} /\ scratch1[s][d] \in Slot \cup {nullptr}
  BY DEF ArmTypeOK, SpaceTypeOK
<1> QED
  BY Zenon, <1>1, <1>2, <1>3, <1>4, <1>5 DEF ReachableFresh, ReachSet, FreshSet

(* Freshness depends on the blocks, their versions and the floor only. *)
LEMMA FreshKept == UNCHANGED <<floor, code, src>> => FreshSet' = FreshSet
BY Zenon DEF FreshSet, Fresh, Stale

(* No control step but Run changes it. *)
LEMMA ControlFresh == ASSUME ControlStep, ~Run PROVE FreshSet' = FreshSet
<1>1. UNCHANGED floor
  <2>1. Reset \/ PerformNothing \/ GetFound \/ GenerateIR \/ Enter \/ ConditionFailed => UNCHANGED floor
    BY Zenon DEF Reset, PerformNothing, GetFound, GenerateIR, Enter, ConditionFailed
  <2>2. Execute \/ CallSupervisor \/ MemoryAbort \/ TermCheckHalt \/ TermLink => UNCHANGED floor
    BY Zenon DEF Execute, CallSupervisor, MemoryAbort, TermCheckHalt, TermLink
  <2>3. TermPopRSB \/ TermDispatch \/ Dispatch \/ Exit => UNCHANGED floor
    BY Zenon DEF TermPopRSB, TermDispatch, Dispatch, Exit
  <2> QED
    BY Zenon, <2>1, <2>2, <2>3 DEF ControlStep
<1> QED
  BY <1>1, ControlFrame, FreshKept DEF spaceVars

(* The steps that leave the cache. *)
LEMMA ControlReach == ASSUME ArmInv, ReachSet, ControlStep PROVE ReachSet'
<1>c. UNCHANGED <<offset, code, src, branch, scratch1, block_entries>>
  BY Zenon, ControlFrame DEF spaceVars
<1>n. nullptr \in FreshSet
  BY Zenon DEF FreshSet, Fresh
<1>t. overrun \in BOOLEAN /\ entering \in BOOLEAN /\ rsb \in [RSBIndex -> Entry] /\ pc \in Desc
  BY Zenon DEF ArmInv, ArmTypeOK
<1>1. CASE Run
  BY Zenon, <1>1 DEF Run, ReachSet, Outside
<1> SUFFICES ASSUME ~Run PROVE ReachSet'
  BY <1>1
<1>f. FreshSet' = FreshSet
  BY Zenon, ControlFresh
<1> HIDE DEF FreshSet
<1> USE <1>c, <1>n, <1>t, <1>f DEF ReachSet, Get, Outside, Executing
<1>2. CASE PerformNothing
  <2>1. ctl = "perform" => \A d \in Desc : Get(d) \in FreshSet
    <3> SUFFICES ASSUME ctl = "perform", NEW d \in Desc, Get(d) # nullptr
                 PROVE  Get(d) \in FreshSet
      BY Zenon
    <3>1. \A v \in floor : ~Stale(Get(d), v)
      BY Zenon, <1>2 DEF PerformNothing, ArmInv, FloorPending
    <3>2. Get(d) \in Slot /\ code[Get(d)] \in Block
      BY Zenon, FoundKnown DEF ArmInv, SpaceInv, EntriesValid, Holds
    <3> QED
      BY Zenon, <3>1, <3>2 DEF FreshSet, Fresh
  <2>2. rsb = NoEntries /\ ~overrun
    BY Zenon, <1>2 DEF PerformNothing, ArmInv, FrameEmpty
  <2>3. \A i \in RSBIndex : rsb[i].ptr = nullptr
    BY Zenon, <2>2 DEF NoEntries, ReturnToDispatcher
  <2> QED
    BY Zenon, <1>2, <2>1, <2>2, <2>3 DEF PerformNothing, stackVars
<1>3. CASE GetFound \/ GenerateIR
  BY Zenon, <1>3 DEF GetFound, GenerateIR, stackVars
<1>4. CASE Enter
  <2>1. \A i \in RSBIndex : rsb'[i].ptr \in FreshSet
    <3>1. CASE UsesRSB
      <4>1. rsb' \in [RSBIndex -> [loc: Garbage, ptr: {ReturnToDispatcher}]]
        BY Zenon, <1>4, <3>1 DEF Enter, InitialStack
      <4> QED
        BY Zenon, <4>1 DEF ReturnToDispatcher
    <3>2. CASE ~UsesRSB
      BY Zenon, <1>4, <3>2 DEF Enter, InitialStack
    <3> QED
      BY Zenon, <3>1, <3>2
  <2> QED
    BY Zenon, <1>4, <2>1 DEF Enter, Goto
<1>5. CASE Execute
  <2>1. \A i \in RSBIndex : rsb'[i].ptr \in FreshSet
    <3>1. ASSUME NEW d \in code[cur].pushes, PushRSB(d), NEW i \in RSBIndex
          PROVE  rsb'[i].ptr \in FreshSet
      <4>1. d \in Desc /\ cur \in Slot
        BY Zenon, <1>5, CurrentBlock DEF Execute, Block
      <4>2. scratch1[cur][d] \in FreshSet
        BY Zenon, <1>5, <4>1, CurrentPointers DEF Execute, FreshSet, ArmInv, ArmTypeOK, SpaceTypeOK
      <4>3. rsb'[i] \in {rsb[i], [loc |-> d, ptr |-> scratch1[cur][d]]}
        BY Zenon, <3>1 DEF PushRSB
      <4>4. rsb[i].ptr \in FreshSet
        BY Zenon, <1>5 DEF Execute
      <4>5. CASE rsb'[i] = rsb[i]
        BY Zenon, <4>4, <4>5
      <4>6. CASE rsb'[i] = [loc |-> d, ptr |-> scratch1[cur][d]]
        <5>1. rsb'[i].ptr = scratch1[cur][d]
          BY Zenon, <4>6, EntryPtr
        <5> QED
          BY Zenon, <4>2, <5>1
      <4> QED
        BY Zenon, <4>3, <4>5, <4>6
    <3> QED
      BY Zenon, <1>5, <3>1 DEF Execute
  <2> QED
    BY Zenon, <1>5, <2>1 DEF Execute
<1>6. CASE ConditionFailed \/ CallSupervisor \/ MemoryAbort
  BY Zenon, <1>6 DEF ConditionFailed, CallSupervisor, MemoryAbort, stackVars
<1>7. CASE TermLink
  <2> DEFINE p == IF Linked /\ MayLink THEN branch[cur][term.next] ELSE ReturnToDispatcher
  <2>1. Goto(p) /\ UNCHANGED <<overrun, stackVars>> /\ ctl = "term" /\ term.kind \in Links
    BY Zenon, <1>7 DEF TermLink
  <2>2. p \in FreshSet
    <3>1. SUFFICES ASSUME Linked PROVE branch[cur][term.next] \in FreshSet
      BY Zenon DEF ReturnToDispatcher
    <3>2. term.next \in Desc /\ term.next \in code[cur].links /\ cur \in Slot
      BY Zenon, <2>1, <3>1, CurrentBlock DEF ArmInv, TerminalLinked, Terminal
    <3> QED
      BY Zenon, <2>1, <3>2, CurrentPointers DEF FreshSet, ArmInv, ArmTypeOK, SpaceTypeOK
  <2> HIDE DEF p
  <2> QED
    BY Zenon, <2>1, <2>2 DEF Goto, stackVars, ReturnToDispatcher
<1>8. CASE TermPopRSB
  <2> DEFINE p == IF rsb[rsb_ptr].loc = pc THEN rsb[rsb_ptr].ptr ELSE ReturnToDispatcher
  <2>1. Goto(p) /\ UNCHANGED <<overrun, rsb>> /\ ctl = "term"
    BY Zenon, <1>8 DEF TermPopRSB
  <2>2. p \in FreshSet
    BY Zenon, <2>1 DEF ReturnToDispatcher, ArmInv, ArmTypeOK
  <2> HIDE DEF p
  <2> QED
    BY Zenon, <2>1, <2>2 DEF Goto, ReturnToDispatcher
<1>9. CASE TermCheckHalt \/ TermDispatch
  BY Zenon, <1>9 DEF TermCheckHalt, TermDispatch, Goto, stackVars
<1>10. CASE Dispatch
  BY Zenon, <1>10 DEF Dispatch, stackVars
<1>11. CASE Reset \/ Exit
  BY Zenon, <1>11 DEF Reset, Exit
<1> QED
  BY Zenon, <1>2, <1>3, <1>4, <1>5, <1>6, <1>7, <1>8, <1>9, <1>10, <1>11 DEF ControlStep

(* PerformRequestedCacheInvalidation leaves nothing the run must not see.  *)
LEMMA PerformReach == ASSUME ArmInv, Perform PROVE ReachSet'
<1> SUFFICES ASSUME ctl' \notin Outside PROVE ReachSet'
  BY Zenon DEF ReachSet
<1>1. /\ ctl = "perform" /\ ctl' = "lookup" /\ UNCHANGED <<rsb, floor, overrun>>
  BY Zenon, PerformFacts DEF Perform, Outside, stackVars
<1>2. rsb = NoEntries /\ ~overrun
  BY Zenon, <1>1 DEF ArmInv, FrameEmpty, Outside
<1>3. (nullptr \in FreshSet)'
  BY Zenon DEF FreshSet, Fresh
<1>4. ASSUME NEW d \in Desc PROVE (Get(d) \in FreshSet)'
  <2>1. CASE Get(d)' = nullptr
    BY Zenon, <2>1, <1>3
  <2>2. CASE Get(d)' # nullptr
    <3>1. /\ UNCHANGED <<offset, code, src, floor>> /\ ~invalidate_entire_cache
          /\ Get(d)' = Get(d) /\ d \notin InRanges(invalid_cache_ranges)
      BY Zenon, <2>2, <1>1, PerformFacts
    <3>2. Get(d) \in Slot /\ code[Get(d)] \in Block
      BY Zenon, <2>2, <3>1, FoundKnown DEF ArmInv, SpaceInv, EntriesValid, Holds
    <3>3. ASSUME NEW v \in floor, Stale(Get(d), v) PROVE FALSE
      <4>1. Written[v] \in invalid_cache_ranges /\ Written[v] \in code[Get(d)].cover
        BY Zenon, <3>1, <3>3, <2>2 DEF ArmInv, RequestsQueued, ArmStaleIsPending, Stale
      <4>2. <<d, Written[v]>> \in block_ranges
        BY Zenon, <4>1, <2>2, <3>1 DEF ArmInv, SpaceInv, RangesCover
      <4> QED
        BY Zenon, <3>1, <4>1, <4>2 DEF InRanges
    <3>4. Get(d) \in FreshSet
      BY Zenon, <3>2, <3>3 DEF FreshSet, Fresh
    <3> QED
      BY <3>1, <3>4, FreshKept
  <2> QED
    BY Zenon, <2>1, <2>2
<1>5. \A i \in RSBIndex : rsb'[i].ptr = nullptr
  BY Zenon, <1>1, <1>2 DEF NoEntries, ReturnToDispatcher
<1> HIDE DEF FreshSet
<1> QED
  BY Zenon, <1>1, <1>2, <1>3, <1>4, <1>5 DEF ReachSet, Executing

(* A new block is no older than its translation, which began in this run.  *)
LEMMA EmitReach == ASSUME ArmInv, ReachSet, EmitTranslation PROVE ReachSet'
<1>1. PICK v \in lo..mem, s \in Slot :
        /\ s = (IF Full THEN 1 ELSE offset)
        /\ BlockOf(pc, Translate[pc][v]) \in Block
        /\ code' = [code EXCEPT ![s] = BlockOf(pc, Translate[pc][v])]
        /\ src' = [src EXCEPT ![s] = v]
        /\ Get(pc)' = s
        /\ \A d \in Desc \ {pc} : Get(d)' = IF Full THEN nullptr ELSE Get(d)
        /\ \A t \in Slot, d \in Desc :
             /\ branch[t][d]' \in {IF t = s THEN Get(d)' ELSE branch[t][d], s, nullptr}
             /\ scratch1[t][d]' \in {IF t = s THEN Get(d)' ELSE scratch1[t][d], s, nullptr}
  BY Zenon, EmitFacts
<1>2. /\ ctl = "emit" /\ ctl' = "lookup" /\ UNCHANGED <<rsb, floor, pc>>
      /\ overrun' = (overrun \/ (Full /\ ~entering))
  BY Zenon DEF EmitTranslation, stackVars
<1>t. /\ code \in [Slot -> Block \cup {NoBlock}] /\ src \in [Slot -> Version] /\ overrun \in BOOLEAN
      /\ lo \in Nat /\ mem \in Nat /\ floor \subseteq Nat /\ offset \in 1..CacheSize + 1 /\ CacheSize \in Nat
  <2>1. ArmTypeOK
    BY Zenon DEF ArmInv
  <2> QED
    BY Zenon, <2>1, Versions, SizeAssumption DEF ArmTypeOK, SpaceTypeOK
<1>3. s \in FreshSet'
  <2>1. \A w \in floor : w <= v
    <3>1. \A w \in floor : w <= lo
      BY Zenon, <1>2 DEF ArmInv, TranslationCurrent
    <3> QED
      BY <3>1, <1>t
  <2>2. code'[s] \in Block /\ src'[s] = v
    BY Zenon, <1>1, <1>t
  <2> QED
    <3>1. \A w \in floor' : ~(w > src'[s])
      <4>1. \A w \in floor : ~(w > v)
        <5> SUFFICES ASSUME NEW w \in floor PROVE ~(w > v)
          BY Zenon
        <5>1. w \in Nat /\ v \in Int /\ w <= v
          BY <1>t, <2>1
        <5> QED
          BY <5>1
      <4> QED
        BY Zenon, <1>2, <2>2, <4>1
    <3> QED
      BY Zenon, <2>2, <3>1 DEF FreshSet, Fresh, Stale
<1>4. FreshSet \subseteq FreshSet'
  <2> SUFFICES ASSUME NEW p \in FreshSet, p # s PROVE p \in FreshSet'
    BY Zenon, <1>3
  <2>1. p \in Slot => code'[p] = code[p] /\ src'[p] = src[p]
    BY Zenon, <1>1, <1>t
  <2> QED
    BY Zenon, <2>1, <1>2 DEF FreshSet, Fresh, Stale
<1>n. nullptr \in FreshSet
  BY Zenon DEF FreshSet, Fresh
<1>i. /\ \A d \in Desc : Get(d) \in FreshSet
      /\ \A i \in RSBIndex : rsb[i].ptr \in FreshSet
      /\ overrun => \A t \in Slot : /\ \A d \in code[t].links : branch[t][d] \in FreshSet
                                    /\ \A d \in code[t].pushes : scratch1[t][d] \in FreshSet
  BY <1>2 DEF ReachSet, Outside
<1> HIDE DEF FreshSet
<1>5. \A d \in Desc : Get(d)' \in FreshSet'
  BY Zenon, <1>1, <1>2, <1>3, <1>4, <1>n, <1>i DEF Get
<1>6. \A i \in RSBIndex : rsb'[i].ptr \in FreshSet'
  BY Zenon, <1>2, <1>4, <1>i
<1>7. ASSUME overrun', NEW t \in Slot
      PROVE  /\ \A d \in code'[t].links : branch'[t][d] \in FreshSet'
             /\ \A d \in code'[t].pushes : scratch1'[t][d] \in FreshSet'
  <2>1. code'[t].links \subseteq Desc /\ code'[t].pushes \subseteq Desc
    <3>1. code'[t] \in Block \cup {NoBlock}
      BY Zenon, <1>1, <1>t
    <3> QED
      BY Zenon, <3>1, BlockSites
  <2>2. CASE t = s
    BY <2>1, <2>2, <1>1, <1>3, <1>4, <1>5, <1>n
  <2>3. CASE t # s
    <3>1. code'[t] = code[t]
      BY Zenon, <1>1, <1>t, <2>3
    <3>2. /\ \A d \in code[t].links : branch[t][d] \in FreshSet
          /\ \A d \in code[t].pushes : scratch1[t][d] \in FreshSet
      <4>1. CASE overrun
        BY Zenon, <4>1, <1>i
      <4>2. CASE ~overrun
        <5>1. t \in 1..offset - 1
          BY <4>2, <1>2, <1>7, <1>t DEF Full, Slot
        <5> QED
          BY Zenon, <5>1, <1>i, <2>1, <3>1 DEF ArmInv, SpaceInv, RelocationsCurrent
      <4> QED
        BY Zenon, <4>1, <4>2
    <3> QED
      BY Zenon, <2>1, <2>3, <3>1, <3>2, <1>1, <1>3, <1>4, <1>n
  <2> QED
    BY Zenon, <2>2, <2>3
<1> QED
  BY Zenon, <1>2, <1>5, <1>6, <1>7 DEF ReachSet, Executing

(* Unlinking a block only turns pointers to the dispatcher. *)
LEMMA FaultReach == ASSUME ArmInv, ReachSet, FastmemFault PROVE ReachSet'
<1>1. /\ ctl = "body" /\ ctl' \in {"body", "abort"} /\ UNCHANGED <<rsb, floor, src, cur, overrun>>
  BY Zenon DEF FastmemFault, stackVars
<1>2. /\ UNCHANGED code
      /\ \A d \in Desc : Get(d)' \in {Get(d), nullptr}
      /\ \A s \in Slot, d \in Desc : /\ branch[s][d]' \in {branch[s][d], nullptr}
                                     /\ scratch1[s][d]' \in {scratch1[s][d], nullptr}
  <2>1. CASE UNCHANGED spaceVars
    BY Zenon, <2>1 DEF spaceVars, Get
  <2>2. CASE InvalidateBasicBlocks({CurDesc})
    <3>1. UNCHANGED code /\ \A d \in Desc : Get(d)' \in {Get(d), nullptr}
      BY Zenon, <2>2 DEF InvalidateBasicBlocks, Get
    <3>2. \A s \in Slot, d \in Desc : branch[s][d]' \in {branch[s][d], nullptr}
      BY Zenon, <2>2 DEF InvalidateBasicBlocks, Relinked
    <3>3. \A s \in Slot, d \in Desc : scratch1[s][d]' \in {scratch1[s][d], nullptr}
      BY Zenon, <2>2 DEF InvalidateBasicBlocks, Relinked
    <3> QED
      BY Zenon, <3>1, <3>2, <3>3
  <2> QED
    BY Zenon, <2>1, <2>2 DEF FastmemFault
<1>3. FreshSet' = FreshSet
  BY Zenon, <1>1, <1>2, FreshKept
<1>4. nullptr \in FreshSet
  BY Zenon DEF FreshSet, Fresh
<1>5. \A s \in Slot : code[s].links \subseteq Desc /\ code[s].pushes \subseteq Desc
  <2>1. \A s \in Slot : code[s] \in Block \cup {NoBlock}
    BY Zenon DEF ArmInv, SpaceInv, SpaceTypeOK
  <2> QED
    BY <2>1 DEF Block, NoBlock
<1>i. /\ \A d \in Desc : Get(d) \in FreshSet
      /\ \A i \in RSBIndex : rsb[i].ptr \in FreshSet
      /\ cur # nullptr /\ cur \in FreshSet
      /\ overrun => \A t \in Slot : /\ \A d \in code[t].links : branch[t][d] \in FreshSet
                                    /\ \A d \in code[t].pushes : scratch1[t][d] \in FreshSet
  BY Zenon, <1>1 DEF ReachSet, Outside, Executing
<1> HIDE DEF FreshSet
<1>6. \A d \in Desc : Get(d)' \in FreshSet'
  BY Zenon, <1>2, <1>3, <1>4, <1>i
<1>7. overrun' => \A t \in Slot : /\ \A d \in code'[t].links : branch'[t][d] \in FreshSet'
                                  /\ \A d \in code'[t].pushes : scratch1'[t][d] \in FreshSet'
  BY Zenon, <1>1, <1>2, <1>3, <1>4, <1>5, <1>i
<1> QED
  BY Zenon, <1>1, <1>3, <1>6, <1>7, <1>i DEF ReachSet, Outside, Executing

(* Every step keeps all that a run can reach fresh. *)
LEMMA ReachStep == ASSUME ArmInv, ArmNext PROVE ReachableFresh'
<1>1. ReachSet
  BY Zenon, ReachSetSame DEF ArmInv
<1>2. ReachSet'
  <2>1. CASE OtherThreads
    <3>1. UNCHANGED <<runVars, stackVars, spaceVars, src>>
      BY Zenon, <2>1 DEF OtherThreads, WriteCode, HaltExecution, RequestRange, RequestClear, RequestHalt,
           translateVars
    <3>2. FreshSet' = FreshSet
      BY Zenon, <3>1, FreshKept DEF runVars, spaceVars
    <3> QED
      BY Zenon, <1>1, <3>1, <3>2 DEF ReachSet, Get, runVars, stackVars, spaceVars
  <2> QED
    BY Zenon, <1>1, <2>1, ControlReach, PerformReach, EmitReach, FaultReach, NextCases
<1>3. ArmTypeOK'
  BY StepType
<1>4. ArmTypeOK' => (ReachableFresh' <=> ReachSet')
  BY ReachSetSame, PTL
<1> QED
  BY <1>2, <1>3, <1>4

----------------------------------------------------------------------------
(* The theorems.                                                           *)

(* A new Jit satisfies ArmInv ... *)
LEMMA ArmInitInv == ArmInit => ArmInv
<1> SUFFICES ASSUME ArmInit PROVE ArmInv
  BY Zenon
<1>1. SpaceInv /\ SpaceTypeOK
  BY SpaceInitInv DEF ArmInit, SpaceInv
<1>2. \A d \in Desc : Get(d) = nullptr
  BY Zenon DEF ArmInit, SpaceInit, Get
<1>3. ArmTypeOK
  <2>1. 0 \in Version /\ 0 \in 0..MaxTicks
    <3>1. MaxVersion \in Nat /\ MaxTicks \in Nat
      BY Zenon, TranslateAssumption, StackAssumption
    <3> QED
      BY <3>1 DEF Version
  <2> QED
    BY Zenon, <1>1, <2>1, NoEntriesType DEF ArmInit, ArmTypeOK, Control
<1>4. RequestsQueued
  BY Zenon DEF ArmInit, RequestsQueued
<1>5. ArmStaleIsPending /\ TranslationCurrent /\ FloorPending
  BY Zenon DEF ArmInit, ArmStaleIsPending, TranslationCurrent, FloorPending
<1>6. CodeTranslated
  <2>1. NoBlock \notin Block
    BY Zenon, DescAssumption DEF NoBlock, Block
  <2> QED
    BY Zenon, <2>1 DEF ArmInit, SpaceInit, CodeTranslated
<1>9. EntersGuest
  BY DEF ArmInit, EntersGuest
<1>7. FrameEmpty /\ ReachableFresh /\ CurrentKnown /\ TerminalLinked
  BY Zenon DEF ArmInit, FrameEmpty, ReachableFresh, CurrentKnown, TerminalLinked, Outside, Executing
<1>8. PredictionsValid
  BY Zenon DEF ArmInit, PredictionsValid, NoEntries
<1> QED
  BY Zenon, <1>1, <1>3, <1>4, <1>5, <1>6, <1>7, <1>8, <1>9 DEF ArmInv

(* ... and every step keeps it. *)
LEMMA ArmStepInv == ArmInv /\ [ArmNext]_armVars => ArmInv'
<1> SUFFICES ASSUME ArmInv, [ArmNext]_armVars PROVE ArmInv'
  BY Zenon
<1>1. CASE ArmNext
  <2>1. ArmTypeOK' /\ SpaceInv' /\ RequestsQueued'
    BY Zenon, <1>1, StepType, SpaceKept, QueuedStep
  <2>2. ArmStaleIsPending' /\ TranslationCurrent' /\ FloorPending'
    BY Zenon, <1>1, PendingStep, TranslationStep, FloorStep
  <2>3. CodeTranslated' /\ FrameEmpty' /\ ReachableFresh'
    BY Zenon, <1>1, CodeStep, FrameStep, ReachStep
  <2>4. CurrentKnown' /\ TerminalLinked' /\ EntersGuest' /\ PredictionsValid'
    BY Zenon, <1>1, KnownStep, TerminalStep, EntersStep, PredictStep
  <2> QED
    BY Zenon, <2>1, <2>2, <2>3, <2>4 DEF ArmInv
<1>2. CASE UNCHANGED armVars
  <2> USE <1>2 DEF ArmInv, armVars, spaceVars, runVars, stackVars, requestVars, translateVars
  <2>1. ArmTypeOK' /\ RequestsQueued'
    BY Zenon DEF ArmTypeOK, SpaceTypeOK, RequestsQueued, Queued
  <2>2. SpaceInv'
    BY Zenon, SpaceStepInv
  <2>3. ArmStaleIsPending' /\ TranslationCurrent' /\ FloorPending'
    BY Zenon DEF ArmStaleIsPending, TranslationCurrent, FloorPending, Stale, Get, Queued
  <2>4. CodeTranslated' /\ FrameEmpty'
    BY Zenon DEF CodeTranslated, FrameEmpty
  <2>5. ReachableFresh'
    BY Zenon DEF ReachableFresh, Fresh, Stale, Get
  <2>6. CurrentKnown' /\ TerminalLinked' /\ EntersGuest' /\ PredictionsValid'
    BY Zenon DEF CurrentKnown, TerminalLinked, EntersGuest, CurDesc, PredictionsValid, Holds
  <2> QED
    BY Zenon, <2>1, <2>2, <2>3, <2>4, <2>5, <2>6
<1> QED
  BY <1>1, <1>2

(* Requests, translations, blocks and pointers agree in every state of the *)
(* arm64 run loop.                                                         *)
THEOREM ArmInvariant == ArmSpec => []ArmInv
BY ArmInitInv, ArmStepInv, PTL DEF ArmSpec

(* The run loop drives the address space only as AddressSpace allows: a    *)
(* block is emitted for a location that has none, a faulting block is one  *)
(* that block_infos knows.  What is proved of AddressSpace holds in it.    *)
THEOREM ArmImplementsSpace == ArmSpec => SpaceSpec
<1>1. ArmInit => SpaceInit
  BY Zenon DEF ArmInit
<1>2. ArmInv /\ [ArmNext]_armVars => [SpaceNext]_spaceVars
  <2> SUFFICES ASSUME ArmInv, [ArmNext]_armVars PROVE [SpaceNext]_spaceVars
    BY Zenon
  <2>1. CASE ArmNext
    BY Zenon, <2>1, SpaceSteps
  <2>2. CASE UNCHANGED armVars
    BY <2>2 DEF armVars
  <2> QED
    BY Zenon, <2>1, <2>2
<1> QED
  BY <1>1, <1>2, ArmInvariant, PTL DEF ArmSpec, SpaceSpec

(* The state of the JIT thread, the address space and the requests keep    *)
(* their types.                                                            *)
THEOREM ArmTypesHold == ArmSpec => []ArmTypeOK
<1>1. ArmInv => ArmTypeOK
  BY DEF ArmInv
<1> QED
  BY <1>1, ArmInvariant, PTL

(* No InvalidateCacheRange or ClearCache is lost, whatever the JIT thread  *)
(* is doing when it is made.                                               *)
THEOREM ArmNoInvalidationLost == ArmSpec => []ArmStaleIsPending
<1>1. ArmInv => ArmStaleIsPending
  BY DEF ArmInv
<1> QED
  BY <1>1, ArmInvariant, PTL

(* Run never executes guest code older than the invalidations finished     *)
(* before it was called, overrun or not.                                   *)
THEOREM ArmRunsFreshCode == ArmSpec => []ArmRunSeesInvalidations
<1>1. ArmInv => ArmRunSeesInvalidations
  <2> SUFFICES ASSUME ArmInv, ctl = "body", NEW v \in floor PROVE ~Stale(cur, v)
    BY DEF ArmRunSeesInvalidations
  <2> QED
    BY Zenon DEF ArmInv, ReachableFresh, Fresh, Executing, Outside
<1> QED
  BY <1>1, ArmInvariant, PTL

(* While Emit has not cleared the cache under a run, a prediction of its   *)
(* RSB that hits leads to a block of its own location.                     *)
THEOREM ArmPredictionsAreValid == ArmSpec => []PredictionsValid
<1>1. ArmInv => PredictionsValid
  BY Zenon DEF ArmInv
<1> QED
  BY <1>1, ArmInvariant, PTL

----------------------------------------------------------------------------
(* The run loop executes the guest's program.                              *)

(* The end of the block being executed, for the guest. *)
LEMMA BlockExecuted ==
  ASSUME ArmInv, ctl = "body", GuestLoc' \in Guest!Successors(CurIR),
         GuestWhere' \in {"between", "host"}, UNCHANGED <<mem, published, floor>>
  PROVE  Guest!ExecuteBlock
<1>1. cur \in Slot /\ CurDesc \in Desc /\ code[cur].cover = CurIR.cover
  <2>1. cur \in Slot /\ CurDesc \in Desc /\ code[cur] = BlockOf(CurDesc, CurIR)
    BY Zenon, CurrentBlock DEF Executing
  <2>2. BlockOf(CurDesc, CurIR).cover = CurIR.cover
    BY Zenon DEF BlockOf
  <2> QED
    BY Zenon, <2>1, <2>2
<1>2. src[cur] \in 0..mem
  <2>1. src[cur] \in Nat /\ mem \in Nat /\ src[cur] <= mem
    BY Zenon, <1>1, Versions DEF ArmInv, EntersGuest
  <2>2. PICK n : n = src[cur]
    BY Zenon
  <2>3. n \in Nat /\ n <= mem
    BY Zenon, <2>1, <2>2
  <2>4. n \in 0..mem
    BY <2>1, <2>3
  <2> QED
    BY Zenon, <2>2, <2>4
<1>3. Guest!Visible(CurDesc, src[cur])
  <2> SUFFICES ASSUME NEW w \in floor, ~(w <= src[cur])
               PROVE  Written[w] \notin Translate[CurDesc][src[cur]].cover
    BY Zenon DEF Guest!Visible
  <2>1. w \in Nat /\ src[cur] \in Nat
    BY Zenon, <1>1, Versions DEF ArmInv
  <2>2. ~Stale(cur, w)
    BY Zenon DEF ArmInv, ReachableFresh, Fresh, Executing, Outside
  <2>3. w > src[cur]
    BY <2>1
  <2> QED
    BY Zenon, <1>1, <2>2, <2>3 DEF Stale, CurIR
<1>4. GuestLoc = CurDesc /\ GuestWhere = "block"
  BY Zenon DEF GuestLoc, GuestWhere
<1> QED
  BY Zenon, <1>1, <1>2, <1>3, <1>4 DEF Guest!ExecuteBlock, CurIR

(* A control step of the JIT thread is a step of the guest or a stutter. *)
LEMMA ControlGuest == ASSUME ArmInv, ControlStep, ~overrun PROVE [Guest!GuestNext]_(Guest!guestVars)
<1>c. UNCHANGED <<mem, published, code, src>>
  BY Zenon, ControlFrame DEF spaceVars, requestVars
<1>t. pc \in Desc
  BY Zenon DEF ArmInv, ArmTypeOK
<1>s. GuestLoc' = GuestLoc /\ GuestWhere' = GuestWhere /\ UNCHANGED floor => UNCHANGED Guest!guestVars
  BY Zenon, <1>c DEF Guest!guestVars
<1>b. GuestWhere = "between" /\ GuestWhere' = "block" /\ GuestLoc' = GuestLoc /\ UNCHANGED floor
        => Guest!BeginBlock
  BY Zenon, <1>c DEF Guest!BeginBlock
<1> USE DEF Links
<1>1. CASE Run
  <2>1. /\ GuestWhere = "host" /\ GuestWhere' = "between" /\ GuestLoc' = GuestLoc /\ floor' = published
    BY Zenon, <1>1 DEF Run, GuestLoc, GuestWhere
  <2> QED
    BY <2>1, <1>c DEF Guest!RunBegins, Guest!GuestNext
<1>2. CASE Reset
  <2>1. /\ GuestWhere = "host" /\ GuestWhere' = "host" /\ GuestLoc' \in HostPC /\ UNCHANGED floor
    BY Zenon, <1>2 DEF Reset, GuestLoc, GuestWhere
  <2> QED
    BY <2>1, <1>c DEF Guest!HostMoves, Guest!GuestNext
<1>3. CASE PerformNothing
  <2>1. /\ GuestWhere = "between" /\ GuestWhere' \in {"between", "host"}
        /\ GuestLoc' = GuestLoc /\ UNCHANGED floor
    BY Zenon, <1>3 DEF PerformNothing, GuestLoc, GuestWhere
  <2> QED
    BY <2>1, <1>c, <1>s DEF Guest!ToHost, Guest!GuestNext
<1>4. CASE GetFound
  <2>1. Holds(Get(pc), pc)
    BY <1>4, <1>t, FoundKnown DEF GetFound
  <2>2. /\ GuestWhere = "between" /\ GuestWhere' \in {"between", "block"}
        /\ GuestLoc' = GuestLoc /\ UNCHANGED floor
    BY <1>4, <1>c, <2>1 DEF GetFound, GuestLoc, GuestWhere, CurDesc, Holds
  <2> QED
    BY Zenon, <2>2, <1>b, <1>s DEF Guest!GuestNext
<1>5. CASE GenerateIR \/ Dispatch \/ Exit
  BY Zenon, <1>5, <1>s DEF GenerateIR, Dispatch, Exit, GuestLoc, GuestWhere
<1>6. CASE Enter
  <2>1. CurDesc = pc
    BY <1>6 DEF Enter, ArmInv, EntersGuest
  <2>2. /\ GuestWhere = "between" /\ GuestWhere' \in {"between", "block"}
        /\ GuestLoc' = GuestLoc /\ UNCHANGED floor
    BY Zenon, <1>6, <1>c, <2>1 DEF Enter, Goto, GuestLoc, GuestWhere, CurDesc
  <2> QED
    BY Zenon, <2>2, <1>b, <1>s DEF Guest!GuestNext
<1>7. CASE ConditionFailed
  <2>1. GuestLoc' \in CurIR.condfail /\ GuestWhere' = "between" /\ UNCHANGED floor /\ ctl = "body"
    BY <1>7 DEF ConditionFailed, GuestLoc, GuestWhere
  <2>2. GuestLoc' \in Guest!Successors(CurIR)
    BY Zenon, <2>1 DEF Guest!Successors
  <2> QED
    BY <2>1, <2>2, <1>c, BlockExecuted DEF Guest!GuestNext
<1>8. CASE Execute
  <2>1. PICK t \in CurIR.terms : term' = t /\ pc' = IF t.kind \in Links THEN pc ELSE t.next
    BY <1>8 DEF Execute
  <2>2. CurDesc \in Desc /\ src[cur] \in Version
    BY Zenon, <1>8, CurrentBlock DEF Execute, Executing, ArmInv, ArmTypeOK
  <2>3. CurIR.svc => t.kind \notin Links
    BY <2>2, TerminalAssumption DEF CurIR
  <2>4. /\ GuestLoc' = t.next /\ GuestWhere' \in {"between", "host"} /\ UNCHANGED floor /\ ctl = "body"
    BY Zenon, <1>8, <2>1, <2>3 DEF Execute, GuestLoc, GuestWhere
  <2>5. GuestLoc' \in Guest!Successors(CurIR)
    BY Zenon, <2>4 DEF Guest!Successors
  <2> QED
    BY Zenon, <2>4, <2>5, <1>c, BlockExecuted DEF Guest!GuestNext
<1>9. CASE CallSupervisor
  <2>1. term.kind \notin Links
    BY <1>9 DEF CallSupervisor, ArmInv, TerminalLinked
  <2>2. /\ GuestWhere = "host" /\ GuestWhere' = "between" /\ UNCHANGED floor
        /\ GuestLoc' \in HostPC \cup {GuestLoc}
    BY Zenon, <1>9, <2>1 DEF CallSupervisor, GuestLoc, GuestWhere
  <2> QED
    BY Zenon, <2>2, <1>c DEF Guest!HostMoves, Guest!GuestNext
<1>10. CASE MemoryAbort
  <2>1. GuestLoc' \in CurIR.mem /\ GuestWhere' = "between" /\ UNCHANGED floor /\ ctl = "body"
    BY Zenon, <1>10 DEF MemoryAbort, GuestLoc, GuestWhere
  <2>2. GuestLoc' \in Guest!Successors(CurIR)
    BY <2>1 DEF Guest!Successors
  <2> QED
    BY <2>1, <2>2, <1>c, BlockExecuted DEF Guest!GuestNext
<1>11. CASE TermCheckHalt
  <2>1. term.kind \notin Links
    BY Zenon, <1>11 DEF TermCheckHalt, Halting, ArmInv, TerminalLinked
  <2> QED
    BY Zenon, <1>11, <2>1, <1>s DEF TermCheckHalt, Goto, GuestLoc, GuestWhere, ReturnToDispatcher
<1>12. CASE TermLink
  <2> DEFINE p == IF Linked /\ MayLink THEN branch[cur][term.next] ELSE ReturnToDispatcher
  <2>1. /\ Goto(p) /\ ctl = "term" /\ term.kind \in Links /\ UNCHANGED floor
        /\ pc' = IF p = ReturnToDispatcher THEN term.next ELSE pc
    BY Zenon, <1>12 DEF TermLink
  <2>2. GuestLoc = term.next /\ GuestWhere = "between"
    BY Zenon, <2>1 DEF GuestLoc, GuestWhere
  <2>3. CASE p = ReturnToDispatcher
    BY Zenon, <2>1, <2>2, <2>3, <1>s DEF Goto, GuestLoc, GuestWhere
  <2>4. CASE p # ReturnToDispatcher
    <3>1. term.next \in Desc /\ term.next \in code[cur].links /\ p = branch[cur][term.next]
      BY Zenon, <2>1, <2>4 DEF ArmInv, TerminalLinked, Terminal
    <3>2. p = Get(term.next)
      BY Zenon, <2>1, <3>1, CurrentPointers DEF Executing
    <3>3. code[p].desc = term.next
      BY <2>4, <3>1, <3>2, FoundKnown DEF ReturnToDispatcher, Holds
    <3> HIDE DEF p
    <3>4. GuestLoc' = term.next /\ GuestWhere' = "block"
      BY Zenon, <2>1, <2>4, <3>3, <1>c DEF Goto, GuestLoc, GuestWhere, CurDesc
    <3> QED
      BY Zenon, <2>1, <2>2, <3>4, <1>b DEF Guest!GuestNext
  <2> QED
    BY <2>3, <2>4
<1>13. CASE TermPopRSB
  <2> DEFINE p == IF rsb[rsb_ptr].loc = pc THEN rsb[rsb_ptr].ptr ELSE ReturnToDispatcher
  <2>1. Goto(p) /\ ctl = "term" /\ term.kind \notin Links /\ UNCHANGED <<floor, pc>>
    BY <1>13 DEF TermPopRSB
  <2>2. GuestLoc = pc /\ GuestWhere = "between"
    BY <2>1 DEF GuestLoc, GuestWhere
  <2>3. CASE p = ReturnToDispatcher
    BY Zenon, <2>1, <2>2, <2>3, <1>s DEF Goto, GuestLoc, GuestWhere
  <2>4. CASE p # ReturnToDispatcher
    <3>1. code[p].desc = pc
      BY Zenon, <2>4 DEF ArmInv, PredictionsValid, ArmTypeOK, Holds
    <3> HIDE DEF p
    <3>2. GuestLoc' = pc /\ GuestWhere' = "block"
      BY <2>1, <2>4, <3>1, <1>c DEF Goto, GuestLoc, GuestWhere, CurDesc
    <3> QED
      BY Zenon, <2>1, <2>2, <3>2, <1>b DEF Guest!GuestNext
  <2> QED
    BY Zenon, <2>3, <2>4
<1>14. CASE TermDispatch
  BY <1>14, <1>s DEF TermDispatch, Goto, GuestLoc, GuestWhere, ReturnToDispatcher
<1> QED
  BY Zenon, <1>1, <1>2, <1>3, <1>4, <1>5, <1>6, <1>7, <1>8, <1>9, <1>10, <1>11, <1>12, <1>13, <1>14 DEF ControlStep

(* So is every step. *)
LEMMA StepGuest == ASSUME ArmInv, ArmNext, ~overrun PROVE [Guest!GuestNext]_(Guest!guestVars)
<1>1. CASE ControlStep
  BY Zenon, <1>1, ControlGuest
<1>2. CASE OtherThreads
  <2>1. GuestLoc' = GuestLoc /\ GuestWhere' = GuestWhere /\ UNCHANGED floor
    BY Zenon, <1>2 DEF OtherThreads, WriteCode, HaltExecution, RequestRange, RequestClear, RequestHalt,
         runVars, spaceVars, GuestLoc, GuestWhere, CurDesc
  <2>2. CASE WriteCode
    BY Zenon, <2>1, <2>2 DEF WriteCode, requestVars, Guest!Write, Guest!GuestNext
  <2>3. CASE RequestHalt
    <3>1. UNCHANGED mem /\ published \subseteq published' /\ published' \subseteq 1..mem
      BY Zenon, <2>3 DEF RequestHalt, ArmInv, RequestsQueued
    <3> QED
      BY Zenon, <2>1, <3>1 DEF Guest!Invalidated, Guest!GuestNext
  <2>4. CASE HaltExecution \/ RequestRange \/ RequestClear
    BY Zenon, <2>1, <2>4 DEF HaltExecution, RequestRange, RequestClear, requestVars, Guest!guestVars
  <2> QED
    BY Zenon, <1>2, <2>2, <2>3, <2>4 DEF OtherThreads
<1>3. CASE Perform
  <2>1. /\ GuestWhere = "between" /\ GuestWhere' \in {"between", "host"} /\ GuestLoc' = GuestLoc
        /\ UNCHANGED <<mem, published, floor>>
    BY <1>3 DEF Perform, GuestLoc, GuestWhere
  <2> QED
    BY <2>1 DEF Guest!ToHost, Guest!GuestNext, Guest!guestVars
<1>4. CASE EmitTranslation
  BY <1>4 DEF EmitTranslation, requestVars, GuestLoc, GuestWhere, Guest!guestVars
<1>5. CASE FastmemFault
  <2>1. cur < offset /\ cur \in Slot /\ offset \in Int /\ ~(cur >= offset)
    <3>1. ctl = "body" /\ cur \in 1..CacheSize
      BY Zenon, <1>5, CurrentBlock DEF FastmemFault, Executing, Slot
    <3>2. cur < offset /\ offset \in Int
      BY <3>1, SizeAssumption DEF Executing, ArmInv, CurrentKnown, ArmTypeOK, SpaceTypeOK
    <3> QED
      BY <3>1, <3>2, SizeAssumption DEF Slot
  <2>2. UNCHANGED <<ctl, code, cur, pc, term, mem, published, floor>>
    BY Zenon, <1>5, <2>1 DEF FastmemFault, InvalidateBasicBlocks, requestVars
  <2> QED
    BY Zenon, <2>2 DEF GuestLoc, GuestWhere, CurDesc, Guest!guestVars
<1> QED
  BY <1>1, <1>2, <1>3, <1>4, <1>5, NextCases

(* Until Emit clears the cache under a run, what the arm64 run loop        *)
(* executes is a behaviour of the guest processor: linked branches, RSB    *)
(* predictions, callbacks, aborts and recompilation included.              *)
THEOREM ArmImplementsGuest == ArmSpec => ArmRunsGuestUntilOverrun
<1>1. ArmInit => Guest!GuestInit
  BY DEF ArmInit, Guest!GuestInit, GuestLoc, GuestWhere
<1>2. ArmInv /\ [ArmNext]_armVars => [overrun \/ Guest!GuestNext]_(Guest!guestVars)
  <2> SUFFICES ASSUME ArmInv, [ArmNext]_armVars, ~overrun
               PROVE  [Guest!GuestNext]_(Guest!guestVars)
    OBVIOUS
  <2>1. CASE ArmNext
    BY <2>1, StepGuest
  <2>2. CASE UNCHANGED armVars
    BY <2>2 DEF armVars, runVars, requestVars, spaceVars, GuestLoc, GuestWhere, CurDesc, Guest!guestVars
  <2> QED
    BY <2>1, <2>2
<1> QED
  BY <1>1, <1>2, ArmInvariant, PTL DEF ArmSpec, ArmRunsGuestUntilOverrun

=============================================================================
