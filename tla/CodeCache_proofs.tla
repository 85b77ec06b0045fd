-------------------------- MODULE CodeCache_proofs --------------------------
(***************************************************************************)
(* The code cache never leads to overwritten code, for any set of guest    *)
(* locations, any cache size and any hash function.  CacheInv is the       *)
(* inductive invariant; one lemma per action shows that it is preserved.   *)
(***************************************************************************)
EXTENDS CodeCache, TLAPS

(* The empty cache satisfies the invariant. *)
LEMMA InitInv == CacheInit => CacheInv
<1> SUFFICES ASSUME CacheInit PROVE CacheInv
  OBVIOUS
<1> USE DescAssumption, SizeAssumption, HashAssumption DEF CacheInit
<1>1. CacheTypeOK
  BY DEF CacheTypeOK, Slot, RSBIndex, CodePtr, Entry, Empty, NoBlock, ReturnFromRunCode, nullptr
<1>2. 1..next - 1 = {}
  OBVIOUS
<1>3. SitesExact /\ LinksExact
  BY <1>2 DEF SitesExact, LinksExact
<1>4. EntriesValid /\ RangesCover
  BY DEF EntriesValid, RangesCover, Compiled
<1>5. RSBValid /\ TableValid /\ MissValid
  BY DEF RSBValid, TableValid, MissValid, Empty
<1> QED
  BY <1>1, <1>3, <1>4, <1>5 DEF CacheInv

(* Emitting an uncompiled block keeps every pointer of the cache valid:    *)
(* it only patches the sites that wait for its descriptor.                 *)
LEMMA EmitInv ==
  ASSUME CacheInv, NEW b \in Blocks, EmitBlock(b), Running \/ b.desc = missing
  PROVE  CacheInv'
<1> USE DescAssumption, SizeAssumption, HashAssumption DEF EmitBlock
<1> DEFINE n == next
<1>b. /\ b \in Block
      /\ b.desc \in Desc /\ b.links \subseteq Desc /\ b.pushes \subseteq Desc /\ b.cover \subseteq Addr
  BY BlocksAssumption DEF Block
<1>n. /\ next \in Slot /\ next' = next + 1 /\ next \in Nat
      /\ 1..next' - 1 = (1..next - 1) \cup {next}
      /\ next \notin 1..next - 1
      /\ 1..next - 1 \subseteq Slot
  BY DEF CacheInv, CacheTypeOK, Slot, Full
<1>c. /\ code' \in [Slot -> Block \cup {NoBlock}]
      /\ code'[next] = b
      /\ \A s \in 1..next - 1 : code'[s] = code[s]
  BY <1>b, <1>n DEF CacheInv, CacheTypeOK
<1>d. /\ block_descriptors' \in [Desc -> Slot \cup {0}]
      /\ block_descriptors'[b.desc] = next
      /\ \A d \in Desc : d # b.desc => block_descriptors'[d] = block_descriptors[d]
      /\ block_descriptors[b.desc] = 0
  BY <1>b, <1>n DEF CacheInv, CacheTypeOK, Compiled
<1>p. /\ patch_information' \in [Desc -> [jmp: SUBSET Slot, mov_rcx: SUBSET Slot]]
      /\ \A d \in Desc : patch_information'[d].jmp =
           patch_information[d].jmp \cup (IF d \in b.links THEN {next} ELSE {})
      /\ \A d \in Desc : patch_information'[d].mov_rcx =
           patch_information[d].mov_rcx \cup (IF d \in b.pushes THEN {next} ELSE {})
  BY <1>n DEF CacheInv, CacheTypeOK, WithSites
<1>j. /\ jump' \in [Slot -> [Desc -> CodePtr]]
      /\ \A s \in Slot, d \in Desc : jump'[s][d] =
           IF d = b.desc /\ s \in patch_information'[d].jmp THEN next
           ELSE IF s # next THEN jump[s][d]
           ELSE IF d \in b.links THEN block_descriptors[d] ELSE ReturnFromRunCode
  <2>1. OwnSites(jump, b.links) \in [Slot -> [Desc -> CodePtr]]
    BY <1>n DEF CacheInv, CacheTypeOK, OwnSites, CodePtr, ReturnFromRunCode
  <2>2. \A s \in Slot, d \in Desc : OwnSites(jump, b.links)[s][d] =
           IF s # next THEN jump[s][d]
           ELSE IF d \in b.links THEN block_descriptors[d] ELSE ReturnFromRunCode
    BY <1>n DEF CacheInv, CacheTypeOK, OwnSites
  <2>3. jump' = [s \in Slot |-> [d \in Desc |->
                  IF d = b.desc /\ s \in patch_information'[d].jmp THEN next
                  ELSE OwnSites(jump, b.links)[s][d]]]
    BY DEF Patched, JmpSites
  <2> HIDE DEF EmitBlock
  <2>4. next \in CodePtr
    BY <1>n DEF CodePtr
  <2> QED
    BY <2>1, <2>2, <2>3, <2>4
<1>m. /\ movrcx' \in [Slot -> [Desc -> CodePtr]]
      /\ \A s \in Slot, d \in Desc : movrcx'[s][d] =
           IF d = b.desc /\ s \in patch_information'[d].mov_rcx THEN next
           ELSE IF s # next THEN movrcx[s][d]
           ELSE IF d \in b.pushes THEN block_descriptors[d] ELSE ReturnFromRunCode
  <2>1. OwnSites(movrcx, b.pushes) \in [Slot -> [Desc -> CodePtr]]
    BY <1>n DEF CacheInv, CacheTypeOK, OwnSites, CodePtr, ReturnFromRunCode
  <2>2. \A s \in Slot, d \in Desc : OwnSites(movrcx, b.pushes)[s][d] =
           IF s # next THEN movrcx[s][d]
           ELSE IF d \in b.pushes THEN block_descriptors[d] ELSE ReturnFromRunCode
    BY <1>n DEF CacheInv, CacheTypeOK, OwnSites
  <2>3. movrcx' = [s \in Slot |-> [d \in Desc |->
                  IF d = b.desc /\ s \in patch_information'[d].mov_rcx THEN next
                  ELSE OwnSites(movrcx, b.pushes)[s][d]]]
    BY DEF Patched, RcxSites
  <2> HIDE DEF EmitBlock
  <2>4. next \in CodePtr
    BY <1>n DEF CodePtr
  <2> QED
    BY <2>1, <2>2, <2>3, <2>4
<1> HIDE DEF EmitBlock
<1>u. UNCHANGED <<rsb, rsb_ptr, fast_dispatch_table, missing>>
      /\ block_ranges' = block_ranges \cup ({b.desc} \X b.cover)
  BY DEF EmitBlock
<1>1. CacheTypeOK'
  <2>1. next' \in 1..CacheSize + 1
    BY <1>n DEF Slot
  <2>2. block_ranges' \subseteq Desc \X Addr
    BY <1>u, <1>b DEF CacheInv, CacheTypeOK
  <2> QED
    BY <1>c, <1>d, <1>p, <1>j, <1>m, <1>u, <2>1, <2>2 DEF CacheInv, CacheTypeOK
<1>2. SitesExact'
  BY <1>n, <1>c, <1>p DEF CacheInv, SitesExact
<1>3. LinksExact'
  <2> SUFFICES ASSUME NEW s \in 1..next' - 1, NEW d \in Desc
               PROVE  /\ jump'[s][d] = (IF d \in code'[s].links THEN block_descriptors'[d] ELSE ReturnFromRunCode)
                      /\ movrcx'[s][d] = (IF d \in code'[s].pushes THEN block_descriptors'[d] ELSE ReturnFromRunCode)
    BY DEF LinksExact
  <2>1. /\ s \in patch_information'[d].jmp <=> d \in code'[s].links
        /\ s \in patch_information'[d].mov_rcx <=> d \in code'[s].pushes
    BY <1>2 DEF SitesExact
  <2>2. CASE s = next
    BY <2>1, <2>2, <1>n, <1>c, <1>d, <1>j, <1>m
  <2>3. CASE s # next
    <3>1. s \in 1..next - 1 /\ s \in Slot
      BY <1>n, <2>3
    <3>2. /\ jump[s][d] = (IF d \in code[s].links THEN block_descriptors[d] ELSE ReturnFromRunCode)
          /\ movrcx[s][d] = (IF d \in code[s].pushes THEN block_descriptors[d] ELSE ReturnFromRunCode)
      BY <3>1 DEF CacheInv, LinksExact
    <3> QED
      BY <2>1, <2>3, <3>1, <3>2, <1>c, <1>d, <1>j, <1>m
  <2> QED
    BY <2>2, <2>3
<1>4. \A p, d : Holds(p, d) => Holds(p, d)'
  BY <1>n, <1>c DEF Holds
<1>5. EntriesValid'
  <2>1. \A s \in 1..next' - 1 : code'[s] \in Block
    BY <1>b, <1>n, <1>c DEF CacheInv, EntriesValid
  <2>2. \A d \in Desc : block_descriptors'[d] # 0 =>
          block_descriptors'[d] \in 1..next' - 1 /\ code'[block_descriptors'[d]].desc = d
    BY <1>4, <1>n, <1>c, <1>d DEF CacheInv, EntriesValid, Compiled, Holds
  <2> QED
    BY <2>1, <2>2 DEF EntriesValid, Compiled, Holds
<1>6. RSBValid'
  BY <1>4, <1>u DEF CacheInv, RSBValid, Holds
<1>7. TableValid' /\ MissValid'
  <2>1. \A e \in Entry : e.loc \notin {NoDesc, missing} /\ Compiled(e.loc) => e.loc \in Desc /\ e.loc # b.desc
    BY <1>d DEF Entry, Compiled
  <2> QED
    BY <1>u, <1>d, <2>1 DEF CacheInv, CacheTypeOK, TableValid, MissValid, Compiled
<1>8. RangesCover'
  BY <1>u, <1>b, <1>c, <1>d DEF CacheInv, RangesCover, EntriesValid, Compiled, Holds
<1> QED
  BY <1>1, <1>2, <1>3, <1>5, <1>6, <1>7, <1>8 DEF CacheInv

(* Erasing blocks unpatches every site that leads to them and resets their *)
(* table entries; the code itself stays, so the RSB may keep its entries.  *)
LEMMA EraseInv ==
  ASSUME CacheInv, NEW ds \in SUBSET Desc, InvalidateBasicBlocks(ds),
         ResetRSB \/ UNCHANGED <<rsb, rsb_ptr>>
  PROVE  CacheInv'
<1> USE DescAssumption, SizeAssumption, HashAssumption
<1> DEFINE gone == {d \in ds : Compiled(d)}
<1>u. UNCHANGED <<next, code, patch_information, block_ranges, missing>>
  BY DEF InvalidateBasicBlocks
<1>d. /\ block_descriptors' \in [Desc -> Slot \cup {0}]
      /\ \A d \in Desc : block_descriptors'[d] = IF d \in gone THEN 0 ELSE block_descriptors[d]
  BY DEF InvalidateBasicBlocks, CacheInv, CacheTypeOK
<1>j. /\ jump' \in [Slot -> [Desc -> CodePtr]]
      /\ \A s \in Slot, d \in Desc : jump'[s][d] =
           IF d \in gone /\ s \in patch_information[d].jmp THEN ReturnFromRunCode ELSE jump[s][d]
  BY DEF InvalidateBasicBlocks, CacheInv, CacheTypeOK, Patched, JmpSites, CodePtr, ReturnFromRunCode
<1>m. /\ movrcx' \in [Slot -> [Desc -> CodePtr]]
      /\ \A s \in Slot, d \in Desc : movrcx'[s][d] =
           IF d \in gone /\ s \in patch_information[d].mov_rcx THEN ReturnFromRunCode ELSE movrcx[s][d]
  BY DEF InvalidateBasicBlocks, CacheInv, CacheTypeOK, Patched, RcxSites, CodePtr, ReturnFromRunCode
<1>t. /\ fast_dispatch_table' \in [Bucket -> Entry]
      /\ \A b \in Bucket : fast_dispatch_table'[b] =
           IF \E d \in gone : Hash[d] = b THEN Empty ELSE fast_dispatch_table[b]
  BY DEF InvalidateBasicBlocks, ResetEntries, CacheInv, CacheTypeOK, Entry, Empty, CodePtr, nullptr
<1>r. /\ rsb' \in [RSBIndex -> Entry] /\ rsb_ptr' \in RSBIndex
      /\ \A i \in RSBIndex : rsb'[i] \in {rsb[i], Empty}
  BY DEF ResetRSB, CacheInv, CacheTypeOK, Entry, Empty, CodePtr, nullptr
<1> HIDE DEF gone
<1>1. CacheTypeOK'
  BY <1>u, <1>d, <1>j, <1>m, <1>t, <1>r DEF CacheInv, CacheTypeOK
<1>2. SitesExact'
  BY <1>u DEF CacheInv, SitesExact
<1>3. LinksExact'
  <2>1. 1..next - 1 \subseteq Slot
    BY DEF CacheInv, CacheTypeOK, Slot
  <2>2. \A s \in 1..next - 1, d \in Desc :
          /\ s \in patch_information[d].jmp <=> d \in code[s].links
          /\ s \in patch_information[d].mov_rcx <=> d \in code[s].pushes
    BY DEF CacheInv, SitesExact
  <2> QED
    BY <1>u, <1>d, <1>j, <1>m, <2>1, <2>2 DEF CacheInv, LinksExact, ReturnFromRunCode
<1>4. EntriesValid' /\ RangesCover'
  BY <1>u, <1>d DEF CacheInv, EntriesValid, RangesCover, Compiled, Holds
<1>5. RSBValid'
  BY <1>u, <1>r DEF CacheInv, RSBValid, Holds, Empty
<1>6. TableValid' /\ MissValid'
  <2>1. \A b \in Bucket : fast_dispatch_table[b] \in Entry
    BY DEF CacheInv, CacheTypeOK
  <2>2. ASSUME NEW b \in Bucket, fast_dispatch_table'[b] # Empty
        PROVE  fast_dispatch_table'[b] = fast_dispatch_table[b] /\ ~ \E d \in gone : Hash[d] = b
    BY <1>t, <2>2
  <2>3. TableValid'
    BY <1>u, <1>d, <2>1, <2>2 DEF CacheInv, TableValid, Compiled, Entry, Empty
  <2>4. MissValid'
    <3> SUFFICES ASSUME missing # NoDesc
                 PROVE  fast_dispatch_table'[Hash[missing]].loc \in {missing, NoDesc}
      BY <1>u DEF MissValid
    <3>1. Hash[missing] \in Bucket
      BY DEF CacheInv, CacheTypeOK
    <3> QED
      BY <1>t, <3>1 DEF CacheInv, MissValid, Empty
  <2> QED
    BY <2>3, <2>4
<1> QED
  BY <1>1, <1>2, <1>3, <1>4, <1>5, <1>6 DEF CacheInv

(* What a step that emits and retires nothing keeps. *)
LEMMA EmitFrame ==
  ASSUME CacheInv, UNCHANGED emitVars
  PROVE  SitesExact' /\ LinksExact' /\ EntriesValid' /\ RangesCover'
<1> USE DEF emitVars, CacheInv
<1>1. SitesExact'
  BY DEF SitesExact
<1>2. LinksExact'
  BY DEF LinksExact
<1>3. EntriesValid'
  BY DEF EntriesValid, Compiled, Holds
<1>4. RangesCover'
  BY DEF RangesCover, Compiled
<1> QED
  BY <1>1, <1>2, <1>3, <1>4

(* What a step that leaves the RSB alone keeps of it. *)
LEMMA RSBFrame == ASSUME CacheInv, UNCHANGED <<emitVars, rsb>> PROVE RSBValid'
  BY DEF CacheInv, emitVars, RSBValid, Holds

(* What a step that leaves the fast dispatch table alone keeps of it. *)
LEMMA TableFrame ==
  ASSUME CacheInv, UNCHANGED <<emitVars, fast_dispatch_table, missing>>
  PROVE  TableValid' /\ MissValid'
<1> USE DEF emitVars, CacheInv
<1>1. TableValid'
  BY DEF TableValid, Compiled
<1>2. MissValid'
  BY DEF MissValid
<1> QED
  BY <1>1, <1>2

(* Clearing the whole cache is safe because the RSB is reset with it: the  *)
(* slots are about to be overwritten.                                      *)
LEMMA ClearInv == ASSUME CacheInv, InvalidateAll PROVE CacheInv'
<1> USE DescAssumption, SizeAssumption, HashAssumption DEF InvalidateAll, ClearBlocks, ResetRSB
<1>1. CacheTypeOK'
  <2>1. Empty \in Entry
    BY DEF Empty, Entry, CodePtr
  <2>2. ReturnFromRunCode \in CodePtr
    BY DEF CodePtr
  <2>3. /\ next' \in 1..CacheSize + 1
        /\ code' \in [Slot -> Block \cup {NoBlock}]
        /\ block_descriptors' \in [Desc -> Slot \cup {0}]
        /\ patch_information' \in [Desc -> [jmp: SUBSET Slot, mov_rcx: SUBSET Slot]]
        /\ block_ranges' \subseteq Desc \X Addr
    OBVIOUS
  <2>4. jump' \in [Slot -> [Desc -> CodePtr]] /\ movrcx' \in [Slot -> [Desc -> CodePtr]]
    BY <2>2
  <2>5. rsb' \in [RSBIndex -> Entry] /\ fast_dispatch_table' \in [Bucket -> Entry]
    BY <2>1
  <2>6. rsb_ptr' \in RSBIndex /\ missing' \in Desc \cup {NoDesc}
    BY DEF CacheInv, CacheTypeOK
  <2> QED
    BY <2>3, <2>4, <2>5, <2>6 DEF CacheTypeOK
<1>2. 1..next' - 1 = {}
  OBVIOUS
<1>3. SitesExact' /\ LinksExact'
  BY <1>2 DEF SitesExact, LinksExact
<1>4. EntriesValid' /\ RangesCover'
  BY DEF EntriesValid, RangesCover, Compiled
<1>5. RSBValid' /\ TableValid' /\ MissValid'
  BY DEF RSBValid, TableValid, MissValid, Empty, CacheInv, CacheTypeOK
<1> QED
  BY <1>1, <1>3, <1>4, <1>5 DEF CacheInv

(* A push stores the pointer its mov rcx site holds, which is the current  *)
(* translation of the return address or the dispatcher.                    *)
LEMMA CallInv == ASSUME CacheInv, Call PROVE CacheInv'
<1> USE DescAssumption, SizeAssumption, HashAssumption
<1>s. PICK s \in 1..next - 1 : \E d \in code[s].pushes : PushRSB(s, d)
  BY DEF Call
<1>1. PICK d \in code[s].pushes : PushRSB(s, d)
  BY <1>s
<1>u. UNCHANGED <<next, code, jump, movrcx, block_descriptors, patch_information, block_ranges,
                  fast_dispatch_table, missing>>
  BY DEF Call, emitVars
<1>2. s \in Slot /\ code[s] \in Block \cup {NoBlock}
  BY DEF CacheInv, CacheTypeOK, Slot
<1>3. d \in Desc
  BY <1>2 DEF Block, NoBlock
<1>4. movrcx[s][d] = block_descriptors[d]
  BY <1>3 DEF CacheInv, LinksExact
<1>5. movrcx[s][d] = ReturnFromRunCode \/ Holds(movrcx[s][d], d)
  BY <1>3, <1>4 DEF CacheInv, EntriesValid, Compiled, ReturnFromRunCode
<1>6. rsb_ptr \in RSBIndex /\ (rsb_ptr + 1) % RSBSize \in RSBIndex
  BY DEF CacheInv, CacheTypeOK, RSBIndex
<1>7. [loc |-> d, ptr |-> movrcx[s][d]] \in Entry
  BY <1>2, <1>3 DEF CacheInv, CacheTypeOK, Entry
<1>8. /\ rsb' \in [RSBIndex -> Entry] /\ rsb_ptr' \in RSBIndex
      /\ \A i \in RSBIndex : rsb'[i] = IF i = rsb_ptr THEN [loc |-> d, ptr |-> movrcx[s][d]] ELSE rsb[i]
  BY <1>1, <1>6, <1>7 DEF PushRSB, CacheInv, CacheTypeOK
<1>9. CacheTypeOK'
  BY <1>u, <1>8 DEF CacheInv, CacheTypeOK
<1>10. RSBValid'
  <2> SUFFICES ASSUME NEW i \in RSBIndex, rsb'[i].loc # NoDesc
               PROVE  rsb'[i].ptr = ReturnFromRunCode \/ Holds(rsb'[i].ptr, rsb'[i].loc)
    BY <1>u DEF RSBValid, Holds
  <2>1. CASE i = rsb_ptr
    BY <1>5, <1>8, <2>1
  <2>2. CASE i # rsb_ptr
    BY <1>8, <2>2 DEF CacheInv, RSBValid
  <2> QED
    BY <2>1, <2>2
<1>11. SitesExact' /\ LinksExact' /\ EntriesValid' /\ RangesCover'
  BY <1>u, EmitFrame DEF emitVars
<1>12. TableValid' /\ MissValid'
  BY <1>u, TableFrame DEF emitVars
<1> QED
  BY <1>9, <1>10, <1>11, <1>12 DEF CacheInv

(* Popping only moves the index. *)
LEMMA ReturnInv == ASSUME CacheInv, Return PROVE CacheInv'
<1> USE DescAssumption, SizeAssumption
<1>1. RSBTop \in RSBIndex
  BY DEF CacheInv, CacheTypeOK, RSBIndex, RSBTop
<1>u. UNCHANGED <<emitVars, rsb, fast_dispatch_table, missing>> /\ rsb_ptr' = RSBTop
  BY DEF Return
<1>2. CacheTypeOK'
  BY <1>u, <1>1 DEF emitVars, CacheInv, CacheTypeOK
<1> QED
  BY <1>u, <1>2, EmitFrame, RSBFrame, TableFrame DEF CacheInv

(* A new JIT state has an empty RSB. *)
LEMMA ResetInv == ASSUME CacheInv, ResetState PROVE CacheInv'
<1> USE DescAssumption, SizeAssumption
<1>u. UNCHANGED <<emitVars, fast_dispatch_table, missing>> /\ rsb' = [i \in RSBIndex |-> Empty] /\ rsb_ptr' = 0
  BY DEF ResetState
<1>1. rsb' \in [RSBIndex -> Entry] /\ rsb_ptr' \in RSBIndex
  BY <1>u DEF Entry, Empty, CodePtr, nullptr, RSBIndex
<1>2. CacheTypeOK'
  BY <1>u, <1>1 DEF emitVars, CacheInv, CacheTypeOK
<1>3. RSBValid'
  BY <1>u DEF RSBValid, Empty
<1> QED
  BY <1>u, <1>2, <1>3, EmitFrame, TableFrame DEF CacheInv

(* A miss marks its entry before the lookup; the entry is not trusted      *)
(* until the lookup is over.                                               *)
LEMMA MissInv == ASSUME CacheInv, IndirectBranch PROVE CacheInv'
<1> USE DescAssumption, SizeAssumption, HashAssumption
<1>1. PICK d \in Desc : FastMiss(d)
  BY DEF IndirectBranch
<1>u. UNCHANGED <<next, code, jump, movrcx, block_descriptors, patch_information, block_ranges, rsb, rsb_ptr>>
  BY DEF IndirectBranch, emitVars
<1>2. missing = NoDesc /\ missing' = d
  BY <1>1 DEF IndirectBranch, Running, FastMiss
<1>3. Hash[d] \in Bucket
  OBVIOUS
<1>t. /\ fast_dispatch_table' \in [Bucket -> Entry]
      /\ \A b \in Bucket : b # Hash[d] => fast_dispatch_table'[b] = fast_dispatch_table[b]
      /\ fast_dispatch_table'[Hash[d]].loc = d
  BY <1>1, <1>3 DEF FastMiss, CacheInv, CacheTypeOK, Entry
<1>4. CacheTypeOK'
  BY <1>u, <1>2, <1>t DEF CacheInv, CacheTypeOK
<1>5. TableValid' /\ MissValid'
  BY <1>u, <1>2, <1>3, <1>t DEF CacheInv, TableValid, MissValid, Compiled
<1>6. UNCHANGED <<emitVars, rsb>>
  BY <1>u DEF emitVars
<1> QED
  BY <1>4, <1>5, <1>6, EmitFrame, RSBFrame DEF CacheInv

(* The entry a miss fills is its own, or one a clear has emptied meanwhile. *)
LEMMA FoundInv == ASSUME CacheInv, IndirectBranchFound PROVE CacheInv'
<1> USE DescAssumption, SizeAssumption, HashAssumption
<1>u. UNCHANGED <<next, code, jump, movrcx, block_descriptors, patch_information, block_ranges, rsb, rsb_ptr>>
  BY DEF IndirectBranchFound, emitVars
<1>1. missing \in Desc /\ missing' = NoDesc /\ Compiled(missing)
  BY DEF IndirectBranchFound, FastStore, CacheInv, CacheTypeOK
<1>2. Hash[missing] \in Bucket
  BY <1>1
<1>3. block_descriptors[missing] \in CodePtr
  BY <1>1 DEF CacheInv, CacheTypeOK, CodePtr, ReturnFromRunCode
<1>t. /\ fast_dispatch_table' \in [Bucket -> Entry]
      /\ \A b \in Bucket : b # Hash[missing] => fast_dispatch_table'[b] = fast_dispatch_table[b]
      /\ fast_dispatch_table'[Hash[missing]].loc = fast_dispatch_table[Hash[missing]].loc
      /\ fast_dispatch_table'[Hash[missing]].ptr = block_descriptors[missing]
  BY <1>2, <1>3 DEF IndirectBranchFound, FastStore, CacheInv, CacheTypeOK, Entry
<1>4. CacheTypeOK'
  BY <1>u, <1>1, <1>t DEF CacheInv, CacheTypeOK
<1>5. TableValid'
  <2> SUFFICES ASSUME NEW b \in Bucket, fast_dispatch_table'[b].loc # NoDesc
               PROVE  LET e == fast_dispatch_table'[b]
                      IN Hash[e.loc] = b /\ block_descriptors'[e.loc] # 0 /\ e.ptr = block_descriptors'[e.loc]
    BY DEF TableValid, Compiled
  <2>1. CASE b = Hash[missing]
    BY <1>u, <1>1, <1>t, <2>1 DEF CacheInv, MissValid, Compiled
  <2>2. CASE b # Hash[missing]
    BY <1>u, <1>1, <1>t, <2>2 DEF CacheInv, TableValid, Compiled
  <2> QED
    BY <2>1, <2>2
<1>6. MissValid'
  BY <1>1 DEF MissValid
<1>7. UNCHANGED <<emitVars, rsb>>
  BY <1>u DEF emitVars
<1> QED
  BY <1>4, <1>5, <1>6, <1>7, EmitFrame, RSBFrame DEF CacheInv

(* Every step of the cache preserves the invariant. *)
LEMMA NextInv == CacheInv /\ [CacheNext]_cacheVars => CacheInv'
<1> SUFFICES ASSUME CacheInv, [CacheNext]_cacheVars PROVE CacheInv'
  OBVIOUS
<1>1. CASE Lookup
  BY <1>1, EmitInv DEF Lookup
<1>2. CASE Evict
  BY <1>2, ClearInv DEF Evict
<1>3. CASE Invalidate
  <2>1. \A A : InRanges(A) \in SUBSET Desc
    BY DEF InRanges
  <2> QED
    BY <1>3, <2>1, ClearInv, EraseInv DEF Invalidate, InvalidateRanges
<1>4. CASE Fastmem
  <2>1. PICK s \in 1..next - 1 : InvalidateBasicBlocks({code[s].desc})
    BY <1>4 DEF Fastmem
  <2>2. UNCHANGED <<rsb, rsb_ptr>>
    BY <1>4 DEF Fastmem
  <2>3. InvalidateBasicBlocks({code[s].desc} \cap Desc)
    <3>1. code[s].desc \in Desc
      BY DEF CacheInv, EntriesValid, Block
    <3>2. {code[s].desc} \cap Desc = {code[s].desc}
      BY <3>1
    <3> QED
      BY <2>1, <3>2
  <2> QED
    BY <2>2, <2>3, EraseInv
<1>5. CASE Call
  BY <1>5, CallInv
<1>6. CASE Return
  BY <1>6, ReturnInv
<1>7. CASE IndirectBranch
  BY <1>7, MissInv
<1>8. CASE IndirectBranchFound
  BY <1>8, FoundInv
<1>10. CASE ResetState
  BY <1>10, ResetInv
<1>9. CASE UNCHANGED cacheVars
  <2>1. UNCHANGED <<emitVars, rsb, rsb_ptr, fast_dispatch_table, missing>>
    BY <1>9 DEF cacheVars, emitVars
  <2>2. CacheTypeOK'
    BY <2>1 DEF emitVars, CacheInv, CacheTypeOK
  <2> QED
    BY <2>1, <2>2, EmitFrame, RSBFrame, TableFrame DEF CacheInv
<1> QED
  BY <1>1, <1>2, <1>3, <1>4, <1>5, <1>6, <1>7, <1>8, <1>9, <1>10 DEF CacheNext

(* The invariant holds of every reachable state of the cache. *)
THEOREM CacheInvariant == CacheSpec => []CacheInv
  BY InitInv, NextInv, PTL DEF CacheSpec

(* No entry point, RSB prediction, fast dispatch entry or patched site of  *)
(* the cache leads to overwritten code or to another location's block,     *)
(* whatever the order of emissions, evictions, invalidations, fastmem      *)
(* recompilations, calls, returns and indirect branches.                   *)
THEOREM CodePointersAreValid == CacheSpec => []CodePtrsValid
<1>1. CacheInv => CodePtrsValid
  <2> SUFFICES ASSUME CacheInv PROVE CodePtrsValid
    OBVIOUS
  <2>1. \A d \in Desc : Compiled(d) => Holds(block_descriptors[d], d)
    BY DEF CacheInv, EntriesValid
  <2>2. \A i \in RSBIndex : rsb[i].loc # NoDesc =>
          rsb[i].ptr = ReturnFromRunCode \/ Holds(rsb[i].ptr, rsb[i].loc)
    BY DEF CacheInv, RSBValid
  <2>3. \A b \in Bucket : LET e == fast_dispatch_table[b]
                         IN e.loc \notin {NoDesc, missing} => Holds(e.ptr, e.loc)
    BY <2>1 DEF CacheInv, CacheTypeOK, Entry, TableValid
  <2>4. \A s \in 1..next - 1 : \A d \in Desc :
          /\ jump[s][d] = ReturnFromRunCode \/ Holds(jump[s][d], d)
          /\ movrcx[s][d] = ReturnFromRunCode \/ Holds(movrcx[s][d], d)
    BY <2>1 DEF CacheInv, LinksExact, Compiled, ReturnFromRunCode
  <2> QED
    BY <2>1, <2>2, <2>3, <2>4 DEF CodePtrsValid
<1> QED
  BY <1>1, CacheInvariant, PTL

(* Block linking is exact: a site always leads to the current translation. *)
THEOREM LinksAreCurrent == CacheSpec => []LinksCurrent
<1>1. CacheInv => LinksCurrent
  BY DEF CacheInv, LinksExact, LinksCurrent, EntriesValid, Block
<1> QED
  BY <1>1, CacheInvariant, PTL

(* The fast dispatch table never lags behind the block map. *)
THEOREM FastDispatchIsCurrent == CacheSpec => []FastDispatchCurrent
<1>1. CacheInv => FastDispatchCurrent
  BY DEF CacheInv, TableValid, FastDispatchCurrent
<1> QED
  BY <1>1, CacheInvariant, PTL

(* A range invalidation removes every way to reach a block that was        *)
(* translated from the range.                                              *)
THEOREM InvalidationIsComplete == CacheSpec => InvalidateIsComplete
<1> DEFINE Unreachable(s) ==
      /\ \A d \in Desc : block_descriptors'[d] # s
      /\ \A i \in RSBIndex : rsb'[i].ptr # s
      /\ \A b \in Bucket : fast_dispatch_table'[b].loc # NoDesc => fast_dispatch_table'[b].ptr # s
      /\ \A x \in 1..next - 1 : \A d \in Desc : jump'[x][d] # s /\ movrcx'[x][d] # s
<1>1. ASSUME CacheInv, CacheNext, NEW A \in SUBSET Addr, InvalidateRanges(A),
             NEW s \in 1..next - 1, code[s].cover \cap A # {}
      PROVE  Unreachable(s)
  <2> PICK a \in A : a \in code[s].cover
    BY <1>1
  <2>1. CacheInv'
    BY <1>1, NextInv
  <2>2. UNCHANGED <<next, code, missing>> /\ missing \in Desc \cup {NoDesc}
    BY <1>1 DEF InvalidateRanges, InvalidateBasicBlocks, CacheInv, CacheTypeOK
  <2>3. s # 0 /\ s # nullptr
    BY <1>1 DEF CacheInv, CacheTypeOK, Slot, nullptr
  <2>4. ASSUME NEW d \in Desc PROVE block_descriptors'[d] # s
    <3> SUFFICES ASSUME block_descriptors'[d] = s PROVE FALSE
      OBVIOUS
    <3>1. block_descriptors[d] = s /\ d \notin {e \in InRanges(A) : Compiled(e)}
      BY <1>1, <2>3 DEF InvalidateRanges, InvalidateBasicBlocks
    <3>2. <<d, a>> \in block_ranges
      BY <1>1, <2>3, <3>1 DEF CacheInv, RangesCover, Compiled
    <3> QED
      BY <2>3, <3>1, <3>2 DEF InRanges, Compiled
  <2>5. \A i \in RSBIndex : rsb'[i].ptr # s
    BY <1>1, <2>3 DEF InvalidateRanges, ResetRSB, Empty
  <2>6. \A x \in 1..next - 1 : \A d \in Desc : jump'[x][d] # s /\ movrcx'[x][d] # s
    BY <2>1, <2>2, <2>3, <2>4 DEF CacheInv, LinksExact, ReturnFromRunCode
  <2>7. ASSUME NEW b \in Bucket, fast_dispatch_table'[b].loc # NoDesc
        PROVE  fast_dispatch_table'[b].ptr # s
    <3>1. fast_dispatch_table'[b] \in Entry
      BY <2>1 DEF CacheInv, CacheTypeOK
    <3>2. missing = NoDesc
      <4>1. next \in Nat /\ (Full => next # 1)
        BY <1>1, SizeAssumption DEF CacheInv, CacheTypeOK, Full
      <4>2. next' = next
        BY <2>2
      <4>3. Lookup => next' = next + 1
        BY DEF Lookup, EmitBlock
      <4>4. Evict => Full /\ next' = 1
        BY DEF Evict, InvalidateAll, ClearBlocks
      <4>5. ~Lookup /\ ~Evict
        BY <4>1, <4>2, <4>3, <4>4
      <4>6. ~IndirectBranchFound
        BY <2>2 DEF IndirectBranchFound, FastStore
      <4> QED
        BY <1>1, <4>5, <4>6 DEF CacheNext, Invalidate, Fastmem, Call, Return, ResetState, IndirectBranch, Running
    <3> QED
      BY <2>1, <2>2, <2>4, <2>7, <3>1, <3>2 DEF CacheInv, TableValid, Entry
  <2> QED
    BY <2>4, <2>5, <2>6, <2>7
<1>2. ASSUME CacheInv, [CacheNext]_cacheVars
      PROVE  [\A A \in SUBSET Addr : InvalidateRanges(A) =>
               \A s \in {x \in 1..next - 1 : code[x].cover \cap A # {}} : Unreachable(s)]_cacheVars
  BY <1>1, <1>2
<1> QED
  BY <1>2, CacheInvariant, PTL DEF CacheSpec, InvalidateIsComplete

=============================================================================
