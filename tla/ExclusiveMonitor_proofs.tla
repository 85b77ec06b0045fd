----------------------- MODULE ExclusiveMonitor_proofs -----------------------
(***************************************************************************)
(* The monitor keeps store-exclusive exclusive for any number of           *)
(* processors, any memory and any set of accesses, whichever processors    *)
(* use the inline code.                                                    *)
(***************************************************************************)
EXTENDS ExclusiveMonitor, TLAPS

(* What the marks promise, apart from types: the part of MonitorInv that   *)
(* each action of the lock's holder could disturb.                         *)
Marks ==
  /\ MutualExclusion
  /\ StoreIsExclusive
  /\ \A p \in Proc : ctl[p] = "read" => exclusive_addresses[p] = acc[p].address
  /\ \A p, q \in Proc : ctl[p] = "swap" /\ q # p => exclusive_addresses[q] # acc[p].address
  /\ \A p \in Proc : ctl[p] # "read" /\ exclusive_addresses[p] # INVALID_EXCLUSIVE_ADDRESS =>
       /\ exclusive_addresses[p] = lastLoad[p].address
       /\ \A b \in overtaken[p] : b.address # lastLoad[p].address

Arms ==
  \A p \in Proc \ Inline :
    /\ ctl[p] = "store" /\ exclusive_addresses[p] # INVALID_EXCLUSIVE_ADDRESS => armed[p]
    /\ ctl[p] = "swap" => armed[p]
    /\ ctl[p] \in {"store", "swap"} => ~exclusive_state[p]
    /\ ctl[p] = "idle" /\ exclusive_state[p]
         /\ exclusive_addresses[p] # INVALID_EXCLUSIVE_ADDRESS => armed[p]

(* The address of an access is a unit, never the invalid address.          *)
LEMMA AddressIsValid ==
  \A a \in Access : a.address \in Unit /\ a.address # INVALID_EXCLUSIVE_ADDRESS
BY AccessAssumption, InvalidAssumption

(* The constructor and reset JIT states satisfy the invariant.             *)
LEMMA InitInv == Init => MonitorInv
BY ProcAssumption DEF Init, MonitorInv, TypeOK, MutualExclusion, StoreIsExclusive

(* Every step of every processor and of the host keeps the types.          *)
LEMMA TypeInv == TypeOK /\ [Next]_vars => TypeOK'
<1> SUFFICES ASSUME TypeOK, [Next]_vars PROVE TypeOK'
  OBVIOUS
<1> USE DEF TypeOK, monitorVars, ghostVars
<1>1. ASSUME NEW p \in Proc, NEW a \in Access, Load(p, a) PROVE TypeOK'
  BY <1>1 DEF Load
<1>2. ASSUME NEW p \in Proc, NEW a \in Access, Store(p, a) PROVE TypeOK'
  BY <1>2 DEF Store
<1>3. ASSUME NEW p \in Proc, Mark(p) PROVE TypeOK'
  BY <1>3, AddressIsValid DEF Mark
<1>4. ASSUME NEW p \in Proc, Read(p) PROVE TypeOK'
  <2>1. ASSUME NEW i \in Buffer, i < acc[p].size PROVE mem[acc[p].address + i] \in Value
    <3>1. acc[p] \in Access /\ i \in Nat
      BY DEF Buffer
    <3>2. acc[p].address \in Nat /\ acc[p].size \in Nat
      BY <3>1, AccessAssumption
    <3>3. acc[p].address + i \in acc[p].address..acc[p].address + acc[p].size - 1
      BY <3>1, <3>2, <2>1
    <3> QED BY <3>1, <3>3, AccessAssumption
  <2> DEFINE val == [i \in Buffer |-> IF i < acc[p].size THEN mem[acc[p].address + i]
                                      ELSE exclusive_values[p][i]]
  <2>2. val \in [Buffer -> Value]
    BY <2>1
  <2>3. exclusive_values' = [exclusive_values EXCEPT ![p] = val]
    BY <1>4 DEF Read
  <2> HIDE DEF val
  <2>4. exclusive_values' \in [Proc -> [Buffer -> Value]]
    BY <2>2, <2>3
  <2> QED BY <1>4, <2>4 DEF Read
<1>5. ASSUME NEW p \in Proc, CheckAndClear(p) PROVE TypeOK'
  BY <1>5 DEF CheckAndClear, Unmark
<1>6. ASSUME NEW p \in Proc, CheckFails(p) PROVE TypeOK'
  BY <1>6 DEF CheckFails
<1>7. ASSUME NEW p \in Proc, Swap(p) PROVE TypeOK'
  <2>1. mem' \in [Unit -> Value]
    BY <1>7 DEF Swap
  <2>2. overtaken' \in [Proc -> SUBSET Access]
    BY <1>7, SMTT(30) DEF Swap
  <2> QED BY <1>7, <2>1, <2>2 DEF Swap
<1>8. ASSUME NEW p \in Proc, ClearExclusive(p) \/ ClearProcessor(p) PROVE TypeOK'
  BY <1>8 DEF ClearExclusive, ClearProcessor
<1>9. ASSUME NEW u \in Unit, NEW v \in Value, PlainStore(u, v) PROVE TypeOK'
  BY <1>9 DEF PlainStore
<1>10. CASE Clear
  BY <1>10 DEF Clear
<1>11. CASE UNCHANGED vars
  BY <1>11 DEF vars
<1> QED BY <1>1, <1>2, <1>3, <1>4, <1>5, <1>6, <1>7, <1>8, <1>9, <1>10, <1>11 DEF Next, Holding

(* Every step keeps the meaning of the marks: only the holder of the lock  *)
(* marks, unmarks or stores exclusively.                                   *)
LEMMA MarksInv == TypeOK /\ Marks /\ [Next]_vars => Marks'
<1> SUFFICES ASSUME TypeOK, Marks, [Next]_vars PROVE Marks'
  OBVIOUS
<1> USE ProcAssumption DEF TypeOK, Marks, MutualExclusion, StoreIsExclusive, monitorVars, ghostVars
<1>1. ASSUME NEW p \in Proc, NEW a \in Access, Load(p, a) PROVE Marks'
  BY <1>1 DEF Load
<1>2. ASSUME NEW p \in Proc, NEW a \in Access, Store(p, a) PROVE Marks'
  BY <1>2 DEF Store
<1>3. ASSUME NEW p \in Proc, Mark(p) PROVE Marks'
  BY <1>3 DEF Mark
<1>4. ASSUME NEW p \in Proc, Read(p) PROVE Marks'
  BY <1>4 DEF Read
<1>5. ASSUME NEW p \in Proc, CheckAndClear(p) PROVE Marks'
  <2>1. acc[p].address # INVALID_EXCLUSIVE_ADDRESS
    BY AddressIsValid
  <2>2. acc[p].address = lastLoad[p].address /\ \A b \in overtaken[p] : b.address # lastLoad[p].address
    BY <1>5, <2>1 DEF CheckAndClear, Has
  <2>3. \A q \in Proc : \/ exclusive_addresses'[q] = exclusive_addresses[q]
                        \/ exclusive_addresses'[q] = INVALID_EXCLUSIVE_ADDRESS
    BY <1>5 DEF CheckAndClear, Unmark
  <2>4. MutualExclusion'
    BY <1>5 DEF CheckAndClear
  <2>5. StoreIsExclusive'
    BY <1>5, <2>2 DEF CheckAndClear
  <2>6. \A q \in Proc : ctl'[q] # "read"
    BY <1>5 DEF CheckAndClear
  <2>7. \A r, q \in Proc : ctl'[r] = "swap" /\ q # r => exclusive_addresses'[q] # acc'[r].address
    BY <1>5, <2>1 DEF CheckAndClear, Unmark
  <2> QED BY <1>5, <2>2, <2>3, <2>4, <2>5, <2>6, <2>7 DEF CheckAndClear
<1>6. ASSUME NEW p \in Proc, CheckFails(p) PROVE Marks'
  BY <1>6 DEF CheckFails
<1>7. ASSUME NEW p \in Proc, Swap(p) PROVE Marks'
  <2>1. \A q \in Proc : q # p => ctl[q] \notin {"read", "swap"} /\ exclusive_addresses[q] # acc[p].address
    BY <1>7 DEF Swap
  <2>2. \A q \in Proc : ctl'[q] \notin {"read", "swap"}
    BY <1>7, <2>1 DEF Swap
  <2>3. \A q \in Proc : \A b \in overtaken'[q] : b \in overtaken[q] \/ (q # p /\ b = acc[p])
    BY <1>7 DEF Swap
  <2>4. lock' = Nobody /\ exclusive_addresses' = exclusive_addresses /\ lastLoad' = lastLoad
        /\ ctl[p] = "swap"
    BY <1>7 DEF Swap
  <2> QED BY <2>1, <2>2, <2>3, <2>4
<1>8. ASSUME NEW p \in Proc, ClearExclusive(p) \/ ClearProcessor(p) PROVE Marks'
  BY <1>8 DEF ClearExclusive, ClearProcessor
<1>9. ASSUME NEW u \in Unit, NEW v \in Value, PlainStore(u, v) PROVE Marks'
  BY <1>9 DEF PlainStore
<1>10. CASE Clear
  BY <1>10 DEF Clear
<1>11. CASE UNCHANGED vars
  BY <1>11 DEF vars
<1> QED BY <1>1, <1>2, <1>3, <1>4, <1>5, <1>6, <1>7, <1>8, <1>9, <1>10, <1>11 DEF Next, Holding

(* Every step keeps a processor armed while its mark could let it store.   *)
LEMMA ArmsInv == TypeOK /\ Marks /\ Arms /\ [Next]_vars => Arms'
<1> SUFFICES ASSUME TypeOK, Marks, Arms, [Next]_vars PROVE Arms'
  OBVIOUS
<1> USE DEF TypeOK, Arms, monitorVars, ghostVars
<1>1. ASSUME NEW p \in Proc, NEW a \in Access, Load(p, a) PROVE Arms'
  BY <1>1 DEF Load
<1>2. ASSUME NEW p \in Proc, NEW a \in Access, Store(p, a) PROVE Arms'
  BY <1>2 DEF Store
<1>3. ASSUME NEW p \in Proc, Mark(p) PROVE Arms'
  BY <1>3 DEF Mark
<1>4. ASSUME NEW p \in Proc, Read(p) PROVE Arms'
  BY <1>4 DEF Read
<1>5. ASSUME NEW p \in Proc, CheckAndClear(p) PROVE Arms'
  BY <1>5, AddressIsValid DEF CheckAndClear, Unmark, Has
<1>6. ASSUME NEW p \in Proc, CheckFails(p) PROVE Arms'
  BY <1>6 DEF CheckFails, Has
<1>7. ASSUME NEW p \in Proc, Swap(p) PROVE Arms'
  BY <1>7 DEF Swap
<1>8. ASSUME NEW p \in Proc, ClearExclusive(p) \/ ClearProcessor(p) PROVE Arms'
  BY <1>8 DEF ClearExclusive, ClearProcessor
<1>9. ASSUME NEW u \in Unit, NEW v \in Value, PlainStore(u, v) PROVE Arms'
  BY <1>9 DEF PlainStore
<1>10. CASE Clear
  BY <1>10 DEF Clear
<1>11. CASE UNCHANGED vars
  BY <1>11 DEF vars
<1> QED BY <1>1, <1>2, <1>3, <1>4, <1>5, <1>6, <1>7, <1>8, <1>9, <1>10, <1>11 DEF Next, Holding

(* The inductive invariant of the monitor and of both emitted paths.       *)
THEOREM MonitorInvariant == Spec => []MonitorInv
<1>1. MonitorInv <=> TypeOK /\ Marks /\ Arms
  BY DEF MonitorInv, Marks, Arms
<1>2. MonitorInv /\ [Next]_vars => MonitorInv'
  <2>1. MonitorInv' <=> TypeOK' /\ Marks' /\ Arms'
    BY DEF MonitorInv, Marks, Arms
  <2> QED BY <1>1, <2>1, TypeInv, MarksInv, ArmsInv
<1> QED BY <1>2, InitInv, PTL DEF Spec

(* A store-exclusive succeeds only at the address the processor last       *)
(* loaded exclusively, with no exclusive store by another in between.      *)
THEOREM StoresAreExclusive == Spec => []StoreIsExclusive
<1>1. MonitorInv => StoreIsExclusive
  BY DEF MonitorInv
<1> QED BY <1>1, MonitorInvariant, PTL

(* On the callback path a load-exclusive pays for one store-exclusive.     *)
THEOREM StoresArePaidFor == Spec => []OneStorePerLoad
<1>1. MonitorInv => OneStorePerLoad
  BY DEF MonitorInv, OneStorePerLoad
<1> QED BY <1>1, MonitorInvariant, PTL
=============================================================================
