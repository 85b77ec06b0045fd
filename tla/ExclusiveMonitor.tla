-------------------------- MODULE ExclusiveMonitor --------------------------
(***************************************************************************)
(* The global exclusive monitor and the two ways the x64 backend emits     *)
(* load-exclusive and store-exclusive: through callbacks (ReadAndMark and  *)
(* DoExclusiveOperation) and inline, where the emitted code takes the      *)
(* monitor's spin lock itself.  Several processors share one monitor and   *)
(* one memory; the host may clear the monitor at any time.                 *)
(*                                                                         *)
(* Memory is a set of units.  An access is the first unit and the number   *)
(* of units; the value buffer of a processor keeps the units of the last   *)
(* load that reached them.  What the lock protects is changed in the step  *)
(* that takes it; memory, which plain stores also change, in a step after. *)
(***************************************************************************)
EXTENDS Integers

CONSTANTS Proc,    \* processors, one JIT each
          Inline,  \* the processors with fastmem_exclusive_access
          Unit,    \* addresses of memory
          Value,
          Access,  \* [address, size] of the exclusive accesses
          INVALID_EXCLUSIVE_ADDRESS,
          Nobody   \* the spin lock is free

ASSUME AccessAssumption ==
  /\ Unit \subseteq Nat
  /\ Access \subseteq [address: Unit, size: Nat \ {0}]
  /\ \A a \in Access : a.address..a.address + a.size - 1 \subseteq Unit
ASSUME InvalidAssumption == INVALID_EXCLUSIVE_ADDRESS \notin Unit
ASSUME ProcAssumption == Inline \subseteq Proc /\ Nobody \notin Proc

VARIABLES lock, exclusive_addresses, exclusive_values,
          exclusive_state,  \* of each JIT state
          mem,
          ctl, acc,         \* the exclusive access each processor is in
          lastLoad,         \* the access of the last load-exclusive
          overtaken,        \* accesses others have stored to since then
          armed             \* no store-exclusive has been tried since then

monitorVars == <<lock, exclusive_addresses, exclusive_values>>
ghostVars == <<lastLoad, overtaken, armed>>
vars == <<monitorVars, exclusive_state, mem, ctl, acc, ghostVars>>

Region(a) == a.address..a.address + a.size - 1
Buffer == {i - j : i \in Unit, j \in Unit} \cap Nat

TypeOK ==
  /\ lock \in Proc \cup {Nobody}
  /\ exclusive_addresses \in [Proc -> Unit \cup {INVALID_EXCLUSIVE_ADDRESS}]
  /\ exclusive_values \in [Proc -> [Buffer -> Value]]
  /\ exclusive_state \in [Proc -> BOOLEAN]
  /\ mem \in [Unit -> Value]
  /\ ctl \in [Proc -> {"idle", "load", "read", "store", "swap"}]
  /\ acc \in [Proc -> Access]
  /\ lastLoad \in [Proc -> Access]
  /\ overtaken \in [Proc -> SUBSET Access]
  /\ armed \in [Proc -> BOOLEAN]

Init ==
  /\ lock = Nobody
  /\ exclusive_addresses = [p \in Proc |-> INVALID_EXCLUSIVE_ADDRESS]
  /\ exclusive_state = [p \in Proc |-> FALSE]
  /\ \E v \in Value : /\ exclusive_values = [p \in Proc |-> [i \in Buffer |-> v]]
                      /\ mem = [u \in Unit |-> v]
  /\ ctl = [p \in Proc |-> "idle"]
  /\ \E a \in Access : acc = [p \in Proc |-> a] /\ lastLoad = [p \in Proc |-> a]
  /\ overtaken = [p \in Proc |-> {}]
  /\ armed = [p \in Proc |-> FALSE]

----------------------------------------------------------------------------
Load(p, a) ==
  /\ ctl[p] = "idle"
  /\ ctl' = [ctl EXCEPT ![p] = "load"] /\ acc' = [acc EXCEPT ![p] = a]
  /\ exclusive_state' = IF p \in Inline THEN exclusive_state ELSE [exclusive_state EXCEPT ![p] = TRUE]
  /\ UNCHANGED <<monitorVars, mem, ghostVars>>

(* ReadAndMark under the lock: the mark is set before the value is read.   *)
Mark(p) ==
  /\ ctl[p] = "load" /\ lock = Nobody
  /\ lock' = p
  /\ exclusive_addresses' = [exclusive_addresses EXCEPT ![p] = acc[p].address]
  /\ exclusive_state' = [exclusive_state EXCEPT ![p] = TRUE]
  /\ ctl' = [ctl EXCEPT ![p] = "read"]
  /\ UNCHANGED <<exclusive_values, mem, acc, ghostVars>>

Read(p) ==
  /\ ctl[p] = "read"
  /\ exclusive_values' = [exclusive_values EXCEPT ![p] =
       [i \in Buffer |-> IF i < acc[p].size THEN mem[acc[p].address + i] ELSE @[i]]]
  /\ lock' = Nobody
  /\ ctl' = [ctl EXCEPT ![p] = "idle"]
  /\ lastLoad' = [lastLoad EXCEPT ![p] = acc[p]]
  /\ overtaken' = [overtaken EXCEPT ![p] = {}]
  /\ armed' = [armed EXCEPT ![p] = TRUE]
  /\ UNCHANGED <<exclusive_addresses, exclusive_state, mem, acc>>

StoreKeepingState(p, a) ==
  /\ ctl[p] = "idle"
  /\ acc' = [acc EXCEPT ![p] = a]
  /\ p \in Inline \/ exclusive_state[p]
  /\ ctl' = [ctl EXCEPT ![p] = "store"]
  /\ UNCHANGED <<monitorVars, exclusive_state, mem, ghostVars>>

(* The store begins.  With callbacks it fails at once without the local    *)
(* exclusive state, which it consumes; inline the lock is taken first.     *)
Store(p, a) ==
  /\ ctl[p] = "idle"
  /\ acc' = [acc EXCEPT ![p] = a]
  /\ IF p \in Inline \/ exclusive_state[p]
     THEN ctl' = [ctl EXCEPT ![p] = "store"] /\ UNCHANGED armed
     ELSE armed' = [armed EXCEPT ![p] = FALSE] /\ UNCHANGED ctl
  /\ exclusive_state' = IF p \in Inline THEN exclusive_state ELSE [exclusive_state EXCEPT ![p] = FALSE]
  /\ UNCHANGED <<monitorVars, mem, lastLoad, overtaken>>

Has(p) == exclusive_addresses[p] = acc[p].address /\ (p \in Inline => exclusive_state[p])

UnmarkOwn(p) == [exclusive_addresses EXCEPT ![p] = INVALID_EXCLUSIVE_ADDRESS]

(* CheckAndClear, or EmitExclusiveTestAndClear, which leaves the own mark. *)
Unmark(p) ==
  [q \in Proc |-> IF exclusive_addresses[q] = acc[p].address /\ ~(q = p /\ p \in Inline)
                  THEN INVALID_EXCLUSIVE_ADDRESS ELSE exclusive_addresses[q]]

CheckAndClear(p) ==
  /\ ctl[p] = "store" /\ lock = Nobody /\ Has(p)
  /\ lock' = p
  /\ exclusive_addresses' = Unmark(p)
  /\ exclusive_state' = [exclusive_state EXCEPT ![p] = FALSE]
  /\ ctl' = [ctl EXCEPT ![p] = "swap"]
  /\ UNCHANGED <<exclusive_values, mem, acc, ghostVars>>

CheckFailsLocked(p) ==
  /\ ctl[p] = "store" /\ lock = Nobody /\ ~Has(p)
  /\ lock' = p
  /\ ctl' = [ctl EXCEPT ![p] = "idle"]
  /\ armed' = [armed EXCEPT ![p] = FALSE]
  /\ UNCHANGED <<exclusive_addresses, exclusive_values, exclusive_state, mem, acc, lastLoad, overtaken>>

CheckFails(p) ==
  /\ ctl[p] = "store" /\ lock = Nobody /\ ~Has(p)
  /\ ctl' = [ctl EXCEPT ![p] = "idle"]
  /\ armed' = [armed EXCEPT ![p] = FALSE]
  /\ UNCHANGED <<monitorVars, exclusive_state, mem, acc, lastLoad, overtaken>>

Expected(p) == \A i \in 0..acc[p].size - 1 : mem[acc[p].address + i] = exclusive_values[p][i]

(* The compare and swap, of the MemoryWriteExclusive callback or inline,   *)
(* and the release of the lock.                                            *)
Swap(p) ==
  /\ ctl[p] = "swap"
  /\ lock' = Nobody
  /\ ctl' = [ctl EXCEPT ![p] = "idle"]
  /\ armed' = [armed EXCEPT ![p] = FALSE]
  /\ \/ /\ Expected(p)
        /\ \E f \in [Region(acc[p]) -> Value] :
             mem' = [u \in Unit |-> IF u \in Region(acc[p]) THEN f[u] ELSE mem[u]]
        /\ overtaken' = [q \in Proc |-> IF q = p THEN overtaken[q] ELSE overtaken[q] \cup {acc[p]}]
     \/ ~Expected(p) /\ UNCHANGED <<mem, overtaken>>
  /\ UNCHANGED <<exclusive_addresses, exclusive_values, exclusive_state, acc, lastLoad>>

----------------------------------------------------------------------------
(* A store that is not exclusive: the monitor does not hear of it. *)
PlainStore(u, v) ==
  /\ mem' = [mem EXCEPT ![u] = v]
  /\ UNCHANGED <<monitorVars, exclusive_state, ctl, acc, ghostVars>>

(* CLREX, a supervisor call (A64), Jit::ClearExclusiveState *)
ClearExclusive(p) ==
  /\ ctl[p] = "idle"
  /\ exclusive_state' = [exclusive_state EXCEPT ![p] = FALSE]
  /\ UNCHANGED <<monitorVars, mem, ctl, acc, ghostVars>>

ClearProcessorUnlocked(p) ==
  /\ exclusive_addresses' = [exclusive_addresses EXCEPT ![p] = INVALID_EXCLUSIVE_ADDRESS]
  /\ UNCHANGED <<lock, exclusive_values, exclusive_state, mem, ctl, acc, ghostVars>>

ClearProcessor(p) ==
  /\ lock = Nobody
  /\ exclusive_addresses' = [exclusive_addresses EXCEPT ![p] = INVALID_EXCLUSIVE_ADDRESS]
  /\ UNCHANGED <<lock, exclusive_values, exclusive_state, mem, ctl, acc, ghostVars>>

Clear ==
  /\ lock = Nobody
  /\ exclusive_addresses' = [p \in Proc |-> INVALID_EXCLUSIVE_ADDRESS]
  /\ UNCHANGED <<lock, exclusive_values, exclusive_state, mem, ctl, acc, ghostVars>>

Holding(p) == Read(p) \/ Swap(p)

Next ==
  \/ \E p \in Proc :
       \/ \E a \in Access : Load(p, a) \/ Store(p, a)
       \/ Mark(p) \/ CheckAndClear(p) \/ CheckFails(p) \/ Holding(p)
       \/ ClearExclusive(p) \/ ClearProcessor(p)
  \/ \E u \in Unit, v \in Value : PlainStore(u, v)
  \/ Clear

Spec == Init /\ [][Next]_vars

(* A thread that holds the spin lock keeps running. *)
FairSpec == Spec /\ \A p \in Proc : WF_vars(Holding(p))

----------------------------------------------------------------------------
(* A store-exclusive that passes the check is to the address of the        *)
(* processor's last load-exclusive, and no other processor has stored      *)
(* exclusively to that address since.                                      *)
StoreIsExclusive ==
  \A p \in Proc : ctl[p] = "swap" =>
    /\ acc[p].address = lastLoad[p].address
    /\ \A b \in overtaken[p] : b.address # lastLoad[p].address

(* With callbacks, one load-exclusive allows one store-exclusive.          *)
OneStorePerLoad == \A p \in Proc \ Inline : ctl[p] = "swap" => armed[p]

(* Only one processor is inside the monitor, and it holds the lock.        *)
MutualExclusion == \A p \in Proc : ctl[p] \in {"read", "swap"} <=> lock = p

(* Nobody keeps the lock: in particular a failing check has released it.   *)
LockIsReleased == \A p \in Proc : lock = p ~> lock # p

(* The exclusive state is cleared for a processor whose exclusive region   *)
(* contains the region another processor has stored to exclusively.        *)
RegionIsExclusive ==
  \A p \in Proc : ctl[p] = "swap" =>
    \A b \in overtaken[p] : ~(Region(b) \subseteq Region(lastLoad[p]))

(* The inductive invariant: a mark always names the last load, and nobody  *)
(* has stored exclusively to a marked address since the load.              *)
MonitorInv ==
  /\ TypeOK
  /\ MutualExclusion
  /\ StoreIsExclusive
  /\ \A p \in Proc : ctl[p] = "read" => exclusive_addresses[p] = acc[p].address
  /\ \A p, q \in Proc : ctl[p] = "swap" /\ q # p => exclusive_addresses[q] # acc[p].address
  /\ \A p \in Proc : ctl[p] # "read" /\ exclusive_addresses[p] # INVALID_EXCLUSIVE_ADDRESS =>
       /\ exclusive_addresses[p] = lastLoad[p].address
       /\ \A b \in overtaken[p] : b.address # lastLoad[p].address
  /\ \A p \in Proc \ Inline :
       /\ ctl[p] = "store" /\ exclusive_addresses[p] # INVALID_EXCLUSIVE_ADDRESS => armed[p]
       /\ ctl[p] = "swap" => armed[p]
       /\ ctl[p] \in {"store", "swap"} => ~exclusive_state[p]
       /\ ctl[p] = "idle" /\ exclusive_state[p]
            /\ exclusive_addresses[p] # INVALID_EXCLUSIVE_ADDRESS => armed[p]
=============================================================================
