------------------------------ MODULE GuestCPU ------------------------------
(***************************************************************************)
(* What the JIT promises of the guest: a processor that executes one block *)
(* of guest code at a time, through an instruction cache that is not       *)
(* coherent with memory.  The code a location executes may be any version  *)
(* ever written, except that a run sees every write invalidated before it  *)
(* began.  The host moves the PC between runs and in callbacks.            *)
(***************************************************************************)
EXTENDS Integers

CONSTANTS Loc, Desc, SingleStep, MaxVersion, Written, Translate, HostPC

VARIABLES loc,        \* where the guest executes
          where,      \* in a block, between two blocks, or with the host
          mem,        \* version of guest code memory
          published,  \* versions whose invalidation is complete
          floor       \* the ones complete when the run began

guestVars == <<loc, where, mem, published, floor>>

(* The version v of d may still be executed. *)
Visible(d, v) == \A w \in floor : w <= v \/ Written[w] \notin Translate[d][v].cover

Successors(ir) == {t.next : t \in ir.terms} \cup ir.condfail \cup ir.mem

GuestInit == loc \in Loc /\ where = "host" /\ mem = 0 /\ published = {} /\ floor = {}

BeginBlock == where = "between" /\ where' = "block" /\ UNCHANGED <<loc, mem, published, floor>>

ExecuteBlock ==
  /\ where = "block" /\ where' \in {"between", "host"}
  /\ \E d \in {loc, SingleStep[loc]}, v \in 0..mem :
       Visible(d, v) /\ loc' \in Successors(Translate[d][v])
  /\ UNCHANGED <<mem, published, floor>>

ToHost == where = "between" /\ where' = "host" /\ UNCHANGED <<loc, mem, published, floor>>

(* The host may move the PC; a callback then goes on between two blocks.   *)
HostMoves ==
  /\ where = "host" /\ where' \in {"host", "between"}
  /\ loc' \in HostPC \cup {loc}
  /\ UNCHANGED <<mem, published, floor>>

RunBegins ==
  /\ where = "host" /\ where' = "between"
  /\ floor' = published
  /\ UNCHANGED <<loc, mem, published>>

Write == mem < MaxVersion /\ mem' = mem + 1 /\ UNCHANGED <<loc, where, published, floor>>

Invalidated ==
  /\ published' \in SUBSET (1..mem) /\ published \subseteq published'
  /\ UNCHANGED <<loc, where, mem, floor>>

GuestNext ==
  BeginBlock \/ ExecuteBlock \/ ToHost \/ HostMoves \/ RunBegins \/ Write \/ Invalidated

GuestSpec == GuestInit /\ [][GuestNext]_guestVars
=============================================================================
