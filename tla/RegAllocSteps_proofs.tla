------------------------ MODULE RegAllocSteps_proofs ------------------------
(***************************************************************************)
(* What the operations of the x64 register allocator keep of its invariant *)
(* Sound: references, moves, spills, exchanges and reloads, a register     *)
(* taken to be read or written, a value defined in a register or added to  *)
(* one.  Each lemma is about one operation on an allocator r; the steps of *)
(* the emitters are put together from them in RegAlloc_proofs.             *)
(***************************************************************************)
EXTENDS RegAlloc, FiniteSetTheorems, WellFoundedInduction, NaturalsInduction, TLAPS

----------------------------------------------------------------------------
(* Counts of uses.                                                         *)

(* When the one reference left is the last use, no use is to come.         *)
LEMMA NothingLeft ==
  ASSUME NEW i, NEW c \in Nat, i.acc \in Nat, i.refs = 1, i.acc + 1 = i.total,
         i.total = i.acc + i.refs + c
  PROVE  c = 0 /\ i.total = i.acc + i.refs
  OBVIOUS

(* When no use is to come, all are counted.                                *)
LEMMA NothingMore ==
  ASSUME NEW i, NEW c, i.acc \in Nat, i.refs \in Nat, c = 0, i.total = i.acc + i.refs + c
  PROVE  c = 0 /\ i.total = i.acc + i.refs
  OBVIOUS

(* c uses of a location are to come, and j has b uses more than i.         *)
Counted(i, c) == i.acc \in Nat /\ i.refs \in Nat /\ c \in Nat /\ i.total = i.acc + i.refs + c
MoreUses(i, j, b) == b \in Nat /\ j.total = i.total + b /\ j.acc = i.acc /\ j.refs = i.refs

(* A value that is added to a location brings its uses.                    *)
LEMMA UsesAdded ==
  ASSUME NEW i, NEW j, NEW a, NEW b, Counted(i, a), MoreUses(i, j, b)
  PROVE  Counted(j, a + b)
  BY DEF Counted, MoreUses

Widths == {0, 32, 64, 128}

(* The larger of two widths is at least the second.                        *)
LEMMA LargerIsLarger ==
  ASSUME NEW m \in Widths, NEW n \in Widths
  PROVE  n <= Larger(m, n)
  BY DEF Larger, Widths

----------------------------------------------------------------------------
(* Numbers of arguments.                                                   *)

(* Number is a number, 0 for the empty set and at least 1 for any other.   *)
LEMMA NumberFacts ==
  ASSUME NEW S
  PROVE  /\ Number(S) \in Nat
         /\ S \cap (1..4) = {} => Number(S) = 0
         /\ \A k \in S \cap (1..4) : Number(S) >= 1
  BY DEF Number

(* Number counts one less without one of the arguments. *)
LEMMA NumberRemoved ==
  ASSUME NEW S, NEW k \in S \cap (1..4)
  PROVE  Number(S \ {k}) = Number(S) - 1
  BY DEF Number

(* A set with more arguments has a larger Number. *)
LEMMA NumberSubset ==
  ASSUME NEW S, NEW T, S \subseteq T
  PROVE  Number(S) <= Number(T)
  BY DEF Number

(* If Number is at most 1 there are no two arguments in the set. *)
LEMMA NumberOne ==
  ASSUME NEW S, Number(S) <= 1, NEW j \in S \cap (1..4), NEW k \in S \cap (1..4)
  PROVE  j = k
  BY DEF Number

(* Two sets with no argument in common are counted apart. *)
LEMMA NumberDisjoint ==
  ASSUME NEW S, NEW T, S \cap T = {}
  PROVE  Number(S \cup T) = Number(S) + Number(T)
  BY DEF Number

----------------------------------------------------------------------------
(* There is a first free spill location. *)
LEMMA FirstExists ==
  ASSUME NEW S, S \subseteq Nat, S # {}
  PROVE  \E s \in S : \A t \in S : s <= t
<1>1. IsWellFoundedOn(OpToRel(<, Nat), Nat)
  BY NatLessThanWellFounded, Zenon
<1>2. PICK s \in S : \A t \in S : ~ (<<t, s>> \in OpToRel(<, Nat))
  BY <1>1, WFMin, Zenon
<1>3. \A t \in S : ~ (t < s)
  BY Zenon, <1>2 DEF OpToRel
<1> QED  BY <1>3

----------------------------------------------------------------------------
(* Uses to come.                                                           *)

(* The uses to come of a set of values are finitely many. *)
LEMMA UsesFinite ==
  ASSUME Len(block) \in Nat, NEW n \in Nat, NEW S
  PROVE  /\ IsFiniteSet(UsesFrom(S, n))
         /\ Cardinality(UsesFrom(S, n)) \in Nat
         /\ Cardinality(UsesFrom(S, n)) = 0 <=> UsesFrom(S, n) = {}
<1> DEFINE T == 0..4 * Len(block) + 4
           f == [u \in UsesFrom(S, n) |-> 4 * u[1] + u[2]]
<1>1. \A u \in UsesFrom(S, n) : u = <<u[1], u[2]>> /\ u[1] \in n..Len(block) /\ u[2] \in 1..4
  BY DEF UsesFrom
<1>2. f \in [UsesFrom(S, n) -> T]
  BY <1>1
<1>3. \A a, b \in UsesFrom(S, n) : f[a] = f[b] => a = b
  <2>1. SUFFICES ASSUME NEW a \in UsesFrom(S, n), NEW b \in UsesFrom(S, n), f[a] = f[b]
                 PROVE  a = b
    OBVIOUS
  <2>2. 4 * a[1] + a[2] = 4 * b[1] + b[2]
    BY Zenon, <2>1
  <2>3. a[1] = b[1] /\ a[2] = b[2]
    <3>1. a[1] \in Int /\ b[1] \in Int /\ a[2] \in 1..4 /\ b[2] \in 1..4
      BY <1>1
    <3> DEFINE x == a[1]
               y == b[1]
               i == a[2]
               j == b[2]
    <3>2. x \in Int /\ y \in Int /\ i \in 1..4 /\ j \in 1..4 /\ 4 * x + i = 4 * y + j
      BY Zenon, <2>2, <3>1
    <3> HIDE DEF f, T, x, y, i, j
    <3>3. x = y /\ i = j
      BY <3>2
    <3> QED  BY <3>3, Zenon DEF x, y, i, j
  <2> QED  BY <1>1, <2>3
<1>4. f \in Injection(UsesFrom(S, n), T)
  BY <1>2, <1>3 DEF Injection, IsInjective
<1>5. IsFiniteSet(T)
  BY FS_Interval
<1>6. IsFiniteSet(UsesFrom(S, n))
  <2> HIDE DEF f, T
  <2> QED  BY Zenon, <1>4, <1>5, FS_Injection
<1> QED  BY Zenon, <1>6, FS_CardinalityType, FS_EmptySet

(* Values of two disjoint sets are used apart. *)
LEMMA UsesUnion ==
  ASSUME Len(block) \in Nat, NEW n \in Nat, NEW S, NEW T, S \cap T = {}
  PROVE  Cardinality(UsesFrom(S \cup T, n)) = Cardinality(UsesFrom(S, n)) + Cardinality(UsesFrom(T, n))
<1>1. UsesFrom(S \cup T, n) = UsesFrom(S, n) \cup UsesFrom(T, n)
  BY DEF UsesFrom
<1>2. UsesFrom(S, n) \cap UsesFrom(T, n) = {}
  BY DEF UsesFrom
<1>3. IsFiniteSet(UsesFrom(S, n)) /\ IsFiniteSet(UsesFrom(T, n))
  BY Zenon, UsesFinite
<1>4. Cardinality(UsesFrom(S, n) \cup UsesFrom(T, n))
        = Cardinality(UsesFrom(S, n)) + Cardinality(UsesFrom(T, n))
            - Cardinality(UsesFrom(S, n) \cap UsesFrom(T, n))
  BY Zenon, <1>3, FS_Union
<1>5. Cardinality(UsesFrom(S, n)) \in Nat /\ Cardinality(UsesFrom(T, n)) \in Nat
  BY Zenon, UsesFinite
<1>6. Cardinality(UsesFrom(S, n) \cap UsesFrom(T, n)) = 0
  BY Zenon, <1>2, FS_EmptySet
<1> DEFINE c == Cardinality(UsesFrom(S \cup T, n))
           a == Cardinality(UsesFrom(S, n))
           b == Cardinality(UsesFrom(T, n))
<1>7. c = a + b - 0
  BY <1>1, <1>4, <1>6, Zenon
<1>8. a \in Nat /\ b \in Nat
  BY Zenon, <1>5
<1> HIDE DEF a, b, c
<1>9. c = a + b
  BY <1>7, <1>8
<1> QED  BY Zenon, <1>9 DEF a, b, c

(* No value has no uses. *)
LEMMA UsesOfNothing ==
  ASSUME NEW n
  PROVE  UsesFrom({}, n) = {} /\ Cardinality(UsesFrom({}, n)) = 0
  BY FS_EmptySet DEF UsesFrom

(* Positions of the arguments of instruction n with a value of S. *)
At(S, n) == {k \in 1..Len(block[n].args) : Arg(n, k) \in S}

(* They are at most four. *)
LEMMA AtFacts ==
  ASSUME NEW S, NEW n, Len(block[n].args) \in 0..4, NEW k \in At(S, n)
  PROVE  k \in 1..4 /\ k <= Len(block[n].args) /\ Arg(n, k) \in S
<1>1. k \in 1..Len(block[n].args) /\ Arg(n, k) \in S
  BY Zenon DEF At
<1> DEFINE m == Len(block[n].args)
<1>2. m \in 0..4 /\ k \in 1..m
  BY Zenon, <1>1
<1>3. k \in 1..4 /\ k <= m
  <2> HIDE DEF m
  <2> QED  BY <1>2
<1> QED  BY <1>1, <1>3, Zenon

(* The uses of one instruction are as many as its arguments. *)
LEMMA UsesOfOne ==
  ASSUME NEW A, A \subseteq 1..4, NEW n
  PROVE  IsFiniteSet({n} \X A) /\ Cardinality({n} \X A) = Number(A)
<1> DEFINE B(j) == {n} \X (A \cap (1..j))
           one(j) == IF j \in A THEN 1 ELSE 0
<1>1. IsFiniteSet(B(0)) /\ Cardinality(B(0)) = 0
  <2>1. B(0) = {}
    OBVIOUS
  <2> QED  BY Zenon, <2>1, FS_EmptySet
<1>2. ASSUME NEW j \in 0..3, IsFiniteSet(B(j)), Cardinality(B(j)) \in Nat
      PROVE  IsFiniteSet(B(j + 1)) /\ Cardinality(B(j + 1)) = Cardinality(B(j)) + one(j + 1)
  <2>1. CASE j + 1 \in A
    <3>1. B(j + 1) = B(j) \cup {<<n, j + 1>>}
      BY <2>1
    <3>2. <<n, j + 1>> \notin B(j)
      OBVIOUS
    <3> HIDE DEF B
    <3> QED  BY <1>2, <2>1, <3>1, <3>2, FS_AddElement
  <2>2. CASE j + 1 \notin A
    <3>1. B(j + 1) = B(j)
      BY <2>2
    <3> HIDE DEF B
    <3> QED  BY <1>2, <2>2, <3>1
  <2> QED  BY Zenon, <2>1, <2>2
<1>3. B(4) = {n} \X A
  BY Zenon
<1> HIDE DEF B
<1>4. IsFiniteSet(B(1)) /\ Cardinality(B(1)) = one(1)
  BY <1>1, <1>2
<1>5. IsFiniteSet(B(2)) /\ Cardinality(B(2)) = one(1) + one(2)
  BY <1>2, <1>4
<1>6. IsFiniteSet(B(3)) /\ Cardinality(B(3)) = one(1) + one(2) + one(3)
  BY <1>2, <1>5
<1>7. IsFiniteSet(B(4)) /\ Cardinality(B(4)) = one(1) + one(2) + one(3) + one(4)
  BY <1>2, <1>6
<1> QED  BY <1>3, <1>7 DEF Number

(* The uses from n on are those of n and those from n + 1 on. *)
LEMMA UsesSplit ==
  ASSUME Len(block) \in Nat, NEW n \in 1..Len(block), NEW S,
         Len(block[n].args) \in 0..4
  PROVE  Cardinality(UsesFrom(S, n)) = Cardinality(UsesFrom(S, n + 1)) + Number(At(S, n))
<1>1. UsesFrom(S, n) = UsesFrom(S, n + 1) \cup ({n} \X At(S, n))
  <2>1. UsesFrom(S, n) \subseteq UsesFrom(S, n + 1) \cup ({n} \X At(S, n))
    <3>1. SUFFICES ASSUME NEW u \in UsesFrom(S, n)
                   PROVE  u \in UsesFrom(S, n + 1) \/ u \in {n} \X At(S, n)
      BY Zenon
    <3>2. /\ u \in (n..Len(block)) \X (1..4) /\ u = <<u[1], u[2]>>
          /\ u[2] <= Len(block[u[1]].args) /\ Arg(u[1], u[2]) \in S
      BY DEF UsesFrom
    <3>3. CASE u[1] = n
      <4>1. u[2] \in At(S, n)
        BY <3>2, <3>3 DEF At
      <4> QED  BY Zenon, <3>2, <3>3, <4>1
    <3>4. CASE u[1] # n
      <4>1. u[1] \in n + 1..Len(block)
        BY <3>2, <3>4
      <4> QED  BY Zenon, <3>2, <4>1 DEF UsesFrom
    <3> QED  BY Zenon, <3>3, <3>4
  <2>2. UsesFrom(S, n + 1) \subseteq UsesFrom(S, n)
    BY DEF UsesFrom
  <2>3. ({n} \X At(S, n)) \subseteq UsesFrom(S, n)
    <3>1. SUFFICES ASSUME NEW k \in At(S, n)
                   PROVE  <<n, k>> \in UsesFrom(S, n)
      OBVIOUS
    <3>2. k \in 1..4 /\ k <= Len(block[n].args) /\ Arg(n, k) \in S
      BY Zenon, AtFacts
    <3> QED  BY <3>2 DEF UsesFrom
  <2> QED  BY Zenon, <2>1, <2>2, <2>3
<1>2. UsesFrom(S, n + 1) \cap ({n} \X At(S, n)) = {}
  BY DEF UsesFrom
<1>3. IsFiniteSet({n} \X At(S, n)) /\ Cardinality({n} \X At(S, n)) = Number(At(S, n))
  <2>1. At(S, n) \subseteq 1..4
    BY Zenon, AtFacts
  <2> QED  BY Zenon, <2>1, UsesOfOne
<1>4. IsFiniteSet(UsesFrom(S, n + 1)) /\ Cardinality(UsesFrom(S, n + 1)) \in Nat
  BY UsesFinite
<1>5. Number(At(S, n)) \in Nat
  BY Zenon, NumberFacts
<1>6. Cardinality(UsesFrom(S, n + 1) \cup ({n} \X At(S, n)))
        = Cardinality(UsesFrom(S, n + 1)) + Cardinality({n} \X At(S, n))
            - Cardinality(UsesFrom(S, n + 1) \cap ({n} \X At(S, n)))
  BY Zenon, <1>3, <1>4, FS_Union
<1>7. Cardinality(UsesFrom(S, n + 1) \cap ({n} \X At(S, n))) = 0
  BY Zenon, <1>2, FS_EmptySet
<1> QED  BY <1>1, <1>3, <1>4, <1>5, <1>6, <1>7

(* What a block of instructions is. *)
LEMMA BlockFacts ==
  ASSUME WellFormed(block)
  PROVE  /\ Len(block) \in Nat
         /\ \A i \in 1..Len(block) :
              /\ block[i].kind \in Kind /\ block[i].width \in {0, 32, 64, 128}
              /\ Len(block[i].args) \in 0..4
              /\ \A k \in 1..Len(block[i].args) : Arg(i, k) \in Nat /\ Arg(i, k) < i
              /\ block[i].kind \in {"pseudo", "nz", "id"} => Len(block[i].args) = 1
<1>1. block \in Seq(Inst) /\ Len(block) \in Nat
  BY DEF WellFormed
<1>2. SUFFICES ASSUME NEW i \in 1..Len(block)
               PROVE  /\ block[i].kind \in Kind /\ block[i].width \in {0, 32, 64, 128}
                      /\ Len(block[i].args) \in 0..4
                      /\ \A k \in 1..Len(block[i].args) : Arg(i, k) \in Nat /\ Arg(i, k) < i
                      /\ block[i].kind \in {"pseudo", "nz", "id"} => Len(block[i].args) = 1
  BY Zenon, <1>1
<1>3. block[i] \in Inst
  BY <1>1
<1>4. block[i].kind \in Kind /\ block[i].width \in {0, 32, 64, 128} /\ block[i].args \in Seq(Nat)
  BY Zenon, <1>3 DEF Inst
<1>5. /\ Len(block[i].args) <= 4
      /\ \A k \in 1..Len(block[i].args) : block[i].args[k] < i
      /\ block[i].kind \in {"pseudo", "nz", "id"} => Len(block[i].args) = 1
  BY Zenon DEF WellFormed
<1>6. Len(block[i].args) \in Nat /\ \A k \in 1..Len(block[i].args) : block[i].args[k] \in Nat
  BY <1>4
<1>7. Len(block[i].args) \in 0..4
  <2> DEFINE m == Len(block[i].args)
  <2>1. m \in Nat /\ m <= 4
    BY Zenon, <1>5, <1>6
  <2> HIDE DEF m
  <2>2. m \in 0..4
    BY <2>1
  <2> QED  BY Zenon, <2>2 DEF m
<1>8. \A k \in 1..Len(block[i].args) : Arg(i, k) \in Nat /\ Arg(i, k) < i
  BY <1>5, <1>6, Zenon DEF Arg
<1> QED  BY <1>4, <1>5, <1>7, <1>8, Zenon

(* All uses of a value come after it. *)
LEMMA UsesAfter ==
  ASSUME WellFormed(block), NEW n \in Nat \ {0}, NEW v \in Nat, n - 1 <= v
  PROVE  UsesOf(v) = UsesFrom({v}, n)
<1>1. /\ Len(block) \in Nat
      /\ \A i \in 1..Len(block) : /\ Len(block[i].args) \in 0..4
                                  /\ \A k \in 1..Len(block[i].args) : Arg(i, k) \in Nat /\ Arg(i, k) < i
  BY BlockFacts
<1>2. ASSUME NEW i \in 1..Len(block), NEW k \in 1..4, k <= Len(block[i].args), Arg(i, k) = v
      PROVE  i \in n..Len(block)
  BY <1>1, <1>2
<1> QED  BY <1>1, <1>2 DEF UsesOf, UsesFrom

----------------------------------------------------------------------------
(* Locations that change places.                                           *)

(* What r has in one location, q has in the other with all its bits, or    *)
(* there was nothing to have.                                              *)
Carried(r, from, q, to) ==
  \/ /\ q.info[to] = r.info[from]
     /\ \A v \in r.info[from].values : HasBits(r, from, v) => HasBits(q, to, v)
  \/ IsEmpty(r, from) /\ q.info[to] = NoInfo

Relocated(r, q, a, b) ==
  /\ q \in Allocator /\ ~IsLocked(r, a) /\ ~IsLocked(r, b)
  /\ Carried(r, a, q, b) /\ Carried(r, b, q, a)
  /\ \A l \in HostLoc \ {a, b} : q.info[l] = r.info[l] /\ q.content[l] = r.content[l]

(* An unlocked location is nobody's: no emitter holds it. *)
LEMMA UnlockedIsFree ==
  ASSUME WellFormed(block), NEW r, NEW n, NEW pending, NEW handles, NEW args, NEW l \in HostLoc,
         pos \in 1..Len(block),
         LocationsInv(r, n, pending), HandlesInv(r, handles, args), ~IsLocked(r, l)
  PROVE  (\A h \in handles : h.loc # l) /\ Reading(l, handles) = {}
<1>1. /\ r.info[l].used \in Nat /\ ~(r.info[l].used > 0)
      /\ r.info[l].scratch => r.info[l].used > 0
      /\ r.info[l].used >= Number(Reading(l, handles))
  <2>1. r.info[l] \in LocInfo
    BY Zenon DEF LocationsInv, Allocator
  <2>2. r.info[l].used \in Nat
    BY Zenon, <2>1 DEF LocInfo
  <2>3. LocationInv(r, l, n, pending) /\ LockInv(r, l, handles, args)
    BY Zenon DEF LocationsInv, HandlesInv
  <2> QED  BY Zenon, <2>2, <2>3 DEF IsLocked, LocationInv, LockInv
<1>2. ASSUME NEW h \in handles, h.loc = l  PROVE FALSE
  <2>1. HandleInv(r, h, handles, args) /\ h \in Handles
    BY DEF HandlesInv
  <2>2. h.write \in BOOLEAN
    BY Zenon, <2>1 DEF Handles
  <2>3. ~h.write
    BY Zenon, <1>1, <1>2, <2>1 DEF HandleInv
  <2>4. h.arg \in 1..Len(block[pos].args)
    BY Zenon, <2>1, <2>3 DEF HandleInv
  <2>5. h.arg \in 1..4
    <3> DEFINE m == Len(block[pos].args)
    <3>1. m \in 0..4 /\ h.arg \in 1..m
      BY <2>4, BlockFacts
    <3> HIDE DEF m
    <3> QED  BY <3>1
  <2>6. h.arg \in Reading(l, handles)
    BY Zenon, <1>2, <2>3 DEF Reading
  <2>7. Number(Reading(l, handles)) \in Nat /\ Number(Reading(l, handles)) >= 1
    BY Zenon, <2>5, <2>6, NumberFacts
  <2> QED  BY <1>1, <2>7
<1> QED  BY Zenon, <1>2 DEF Reading

(* A location's invariant goes with what it holds. *)
LEMMA LocationInvCarried ==
  ASSUME NEW r, NEW q, NEW n, NEW pending, NEW l, NEW m,
         LocationInv(r, l, n, pending), q.info[m] = r.info[l],
         \A v \in r.info[l].values : HasBits(r, l, v) => HasBits(q, m, v)
  PROVE  LocationInv(q, m, n, pending)
  BY Zenon DEF LocationInv

(* An empty location has nothing to keep. *)
LEMMA LocationInvNoInfo ==
  ASSUME NEW q, NEW n, NEW pending, NEW l, q.info[l] = NoInfo
  PROVE  LocationInv(q, l, n, pending)
<1>1. Cardinality(UsesFrom({}, n)) = 0
  BY Zenon, UsesOfNothing
<1> QED  BY <1>1 DEF LocationInv, NoInfo

(* A location without handles has as many references as arguments that     *)
(* are still to be taken from it.                                          *)
LEMMA LockInvCarried ==
  ASSUME NEW r, NEW q, NEW handles, NEW args, NEW l, NEW m,
         LockInv(r, l, handles, args), q.info[m] = r.info[l], r.info[l].used \in Nat,
         Reading(l, handles) = {}, Reading(m, handles) = {}
  PROVE  LockInv(q, m, handles, args)
<1>1. Waiting(q, m, args) = Waiting(r, l, args)
  BY Zenon DEF Waiting
<1> QED  BY Zenon, <1>1 DEF LockInv

(* Nobody waits for an empty location. *)
LEMMA LockInvNoInfo ==
  ASSUME NEW q, NEW handles, NEW args, NEW l, q.info[l] = NoInfo, Reading(l, handles) = {}
  PROVE  LockInv(q, l, handles, args)
<1>1. Waiting(q, l, args) = {}
  BY DEF Waiting, NoInfo
<1>2. Number({}) = 0
  BY Zenon, NumberFacts
<1> QED  BY <1>1, <1>2 DEF LockInv, NoInfo

(* Locations may change places as long as they are not locked. *)
LEMMA RelocatedInv ==
  ASSUME WellFormed(block), pos \in 1..Len(block),
         NEW r, NEW q, NEW n, NEW pending, NEW handles, NEW args, NEW a \in HostLoc, NEW b \in HostLoc,
         LocationsInv(r, n, pending), HandlesInv(r, handles, args), Relocated(r, q, a, b)
  PROVE  /\ LocationsInv(q, n, pending) /\ HandlesInv(q, handles, args)
         /\ \A v : IsValueLive(r, v) => IsValueLive(q, v)
<1>1. /\ \A h \in handles : h.loc # a /\ h.loc # b
      /\ Reading(a, handles) = {} /\ Reading(b, handles) = {}
  BY UnlockedIsFree DEF Relocated
<1>2. \A l \in HostLoc \ {a, b} : q.info[l] = r.info[l] /\ q.content[l] = r.content[l]
  BY Zenon DEF Relocated
<1>3. \A l \in HostLoc : LocationInv(r, l, n, pending) /\ LockInv(r, l, handles, args) /\ r.info[l].used \in Nat
  <2>1. \A l \in HostLoc : r.info[l] \in LocInfo
    BY Zenon DEF LocationsInv, Allocator
  <2> QED  BY <2>1 DEF LocationsInv, HandlesInv, LocInfo
<1>4. \A l \in HostLoc : LocationInv(q, l, n, pending)
  <2>1. SUFFICES ASSUME NEW l \in HostLoc  PROVE LocationInv(q, l, n, pending)
    BY Zenon
  <2>2. CASE l \notin {a, b}
    <3>1. \A v \in r.info[l].values : HasBits(r, l, v) => HasBits(q, l, v)
      BY Zenon, <1>2, <2>2 DEF HasBits
    <3> QED  BY Zenon, <1>2, <1>3, <2>2, <3>1, LocationInvCarried
  <2>3. CASE l = a
    <3>1. CASE q.info[a] = NoInfo
      BY Zenon, <2>3, <3>1, LocationInvNoInfo
    <3>2. CASE q.info[a] = r.info[b] /\ \A v \in r.info[b].values : HasBits(r, b, v) => HasBits(q, a, v)
      BY Zenon, <1>3, <2>3, <3>2, LocationInvCarried
    <3> QED  BY Zenon, <3>1, <3>2 DEF Relocated, Carried
  <2>4. CASE l = b
    <3>1. CASE q.info[b] = NoInfo
      BY Zenon, <2>4, <3>1, LocationInvNoInfo
    <3>2. CASE q.info[b] = r.info[a] /\ \A v \in r.info[a].values : HasBits(r, a, v) => HasBits(q, b, v)
      BY Zenon, <1>3, <2>4, <3>2, LocationInvCarried
    <3> QED  BY Zenon, <3>1, <3>2 DEF Relocated, Carried
  <2> QED  BY Zenon, <2>2, <2>3, <2>4
<1>5. \A l \in HostLoc : LockInv(q, l, handles, args)
  <2>1. SUFFICES ASSUME NEW l \in HostLoc  PROVE LockInv(q, l, handles, args)
    BY Zenon
  <2>2. CASE l \notin {a, b}
    BY Zenon, <1>2, <1>3, <2>2 DEF LockInv, Waiting
  <2>3. CASE l = a
    <3>1. CASE q.info[a] = NoInfo
      BY Zenon, <1>1, <2>3, <3>1, LockInvNoInfo
    <3>2. CASE q.info[a] = r.info[b]
      BY Zenon, <1>1, <1>3, <2>3, <3>2, LockInvCarried
    <3> QED  BY Zenon, <3>1, <3>2 DEF Relocated, Carried
  <2>4. CASE l = b
    <3>1. CASE q.info[b] = NoInfo
      BY Zenon, <1>1, <2>4, <3>1, LockInvNoInfo
    <3>2. CASE q.info[b] = r.info[a]
      BY Zenon, <1>1, <1>3, <2>4, <3>2, LockInvCarried
    <3> QED  BY Zenon, <3>1, <3>2 DEF Relocated, Carried
  <2> QED  BY Zenon, <2>2, <2>3, <2>4
<1>6. \A l, m \in HostLoc : q.info[l].values \cap q.info[m].values # {} => l = m
  <2>1. \A l, m \in HostLoc : r.info[l].values \cap r.info[m].values # {} => l = m
    BY Zenon DEF LocationsInv
  <2>2. q.info[a].values \in {{}, r.info[b].values} /\ q.info[b].values \in {{}, r.info[a].values}
    BY DEF Relocated, Carried, NoInfo
  <2> QED  BY <1>2, <2>1, <2>2
<1>7. \A v : IsValueLive(r, v) => IsValueLive(q, v)
  <2>1. SUFFICES ASSUME NEW v, NEW l \in HostLoc, v \in r.info[l].values
                 PROVE  \E m \in HostLoc : v \in q.info[m].values
    BY Zenon DEF IsValueLive, ValueLocations
  <2>2. CASE l \notin {a, b}
    BY Zenon, <1>2, <2>1, <2>2
  <2>3. CASE l = a
    BY Zenon, <2>1, <2>3 DEF Relocated, Carried, IsEmpty
  <2>4. CASE l = b
    BY Zenon, <2>1, <2>4 DEF Relocated, Carried, IsEmpty
  <2> QED  BY Zenon, <2>2, <2>3, <2>4
<1>8. \A h \in handles : HandleInv(q, h, handles, args)
  <2>1. SUFFICES ASSUME NEW h \in handles  PROVE HandleInv(q, h, handles, args)
    BY Zenon
  <2>2. HandleInv(r, h, handles, args) /\ h \in Handles
    BY Zenon DEF HandlesInv
  <2>3. q.info[h.loc] = r.info[h.loc] /\ q.content[h.loc] = r.content[h.loc]
    BY Zenon, <1>1, <1>2, <2>2 DEF Handles
  <2> QED  BY Zenon, <2>2, <2>3 DEF HandleInv, HasBits
<1>9. LocationsInv(q, n, pending)
  BY Zenon, <1>4, <1>6 DEF LocationsInv, Relocated
<1>10. HandlesInv(q, handles, args)
  BY Zenon, <1>5, <1>7, <1>8 DEF HandlesInv
<1> QED  BY Zenon, <1>7, <1>9, <1>10

----------------------------------------------------------------------------
(* Moves.                                                                  *)

(* An ASSERT changes nothing but whether one has failed. *)
LEMMA AssertingFacts ==
  ASSUME NEW r \in Allocator, NEW P \in BOOLEAN
  PROVE  /\ Asserting(r, P) \in Allocator
         /\ Asserting(r, P).info = r.info /\ Asserting(r, P).content = r.content
         /\ Asserting(r, P).ok <=> r.ok /\ P
  BY Zenon DEF Asserting, Allocator

(* The width of a value is one of an instruction's. *)
LEMMA WidthFacts ==
  ASSUME WellFormed(block), NEW v \in 1..Len(block)
  PROVE  Width(v) \in {0, 32, 64, 128}
  BY BlockFacts DEF Width, Imm

(* In e the low bits of a location have been copied to another. *)
Copied(r, e, width, to, from) ==
  /\ e \in Allocator /\ e.info = r.info /\ (e.ok => r.ok)
  /\ \A l \in HostLoc \ {to} : e.content[l] = r.content[l]
  /\ \A v \in 1..Len(block) :
       Width(v) <= width /\ HasBits(r, from, v) => HasBits(e, to, v)

(* A move copies the bits of every value that is no wider than the move. *)
LEMMA EmitMoveFacts ==
  ASSUME WellFormed(block), NEW r \in Allocator, NEW width \in {0, 32, 64, 128},
         NEW to \in HostLoc, NEW from \in HostLoc, NEW e, e = EmitMove(r, width, to, from)
  PROVE  Copied(r, e, width, to, from)
<1> DEFINE bits == CASE to \in XMM /\ from \in XMM -> 128
                     [] width < 64 -> 32
                     [] OTHER -> width
           valid == (GPR \cap {to, from} # {} => width # 128) /\ ~({to, from} \subseteq Spill)
           s == Asserting(r, valid)
           c == Low(bits, r.content[from])
           q == [s EXCEPT !.content[to] = c]
<1>1. s \in Allocator /\ s.info = r.info /\ s.content = r.content /\ (s.ok <=> r.ok /\ valid)
  BY AssertingFacts
<1>2. bits \in {32, 64, 128} /\ \A w \in {0, 32, 64, 128} : w <= width => w <= bits
  OBVIOUS
<1>3. r.content[from] \in SUBSET (Nat \X Nat)
  BY DEF Allocator
<1>4. c \in SUBSET (Nat \X Nat)
  <2> HIDE DEF bits
  <2>1. ASSUME NEW p \in r.content[from]
        PROVE  <<p[1], IF p[2] < bits THEN p[2] ELSE bits>> \in Nat \X Nat
    <3>1. p[1] \in Nat /\ p[2] \in Nat
      BY <1>3
    <3> QED  BY <1>2, <3>1
  <2> QED  BY <2>1 DEF Low
<1>5. ASSUME NEW v \in 1..Len(block), Width(v) <= width, HasBits(r, from, v)
      PROVE  \E p \in c : p[1] = v /\ p[2] >= Width(v)
  <2> HIDE DEF bits
  <2>1. PICK p \in r.content[from] : p[1] = v /\ p[2] >= Width(v)
    BY <1>5 DEF HasBits
  <2> DEFINE b == IF p[2] < bits THEN p[2] ELSE bits
  <2>2. p[2] \in Nat
    BY <1>3
  <2>3. b >= Width(v)
    BY <1>2, <1>5, <2>1, <2>2, WidthFacts
  <2>4. <<p[1], b>> \in c
    BY DEF Low
  <2> HIDE DEF b, c
  <2>5. <<p[1], b>>[1] = v /\ <<p[1], b>>[2] >= Width(v)
    BY Zenon, <2>1, <2>3
  <2> QED  BY <2>4, <2>5
<1> HIDE DEF s, c
<1>6. /\ q \in Allocator /\ q.info = r.info /\ q.ok = s.ok /\ q.content[to] = c
      /\ \A l \in HostLoc \ {to} : q.content[l] = r.content[l]
  BY <1>1, <1>4 DEF Allocator
<1>7. \A v \in 1..Len(block) : Width(v) <= width /\ HasBits(r, from, v) => HasBits(q, to, v)
  <2> HIDE DEF q
  <2> QED  BY Zenon, <1>5, <1>6 DEF HasBits
<1>8. q = e
  BY Zenon DEF EmitMove, s, c
<1>9. q.ok \in BOOLEAN /\ (q.ok => r.ok)
  BY Zenon, <1>1, <1>6 DEF Allocator
<1> HIDE DEF q
<1> QED  BY Zenon, <1>6, <1>7, <1>8, <1>9 DEF Copied

(* The invariant is about locations and their content only. *)
LEMMA SameInv ==
  ASSUME NEW r, NEW q \in Allocator, q.info = r.info, q.content = r.content, NEW n, NEW pending,
         NEW handles, NEW args, LocationsInv(r, n, pending), HandlesInv(r, handles, args)
  PROVE  LocationsInv(q, n, pending) /\ HandlesInv(q, handles, args)
<1>1. \A l, v : HasBits(q, l, v) <=> HasBits(r, l, v)
  BY Zenon DEF HasBits
<1>2. \A l \in HostLoc : LocationInv(q, l, n, pending)
  BY <1>1 DEF LocationsInv, LocationInv
<1>3. \A l \in HostLoc : LockInv(q, l, handles, args)
  BY Zenon DEF HandlesInv, LockInv, Waiting
<1>4. \A h \in handles : HandleInv(q, h, handles, args)
  BY Zenon, <1>1 DEF HandlesInv, HandleInv
<1>5. \A v : IsValueLive(q, v) <=> IsValueLive(r, v)
  BY Zenon DEF IsValueLive, ValueLocations
<1>6. LocationsInv(q, n, pending)
  BY Zenon, <1>2 DEF LocationsInv
<1>7. HandlesInv(q, handles, args)
  BY Zenon, <1>3, <1>4, <1>5 DEF HandlesInv
<1> QED  BY Zenon, <1>6, <1>7

(* Move leaves the source empty and brings what it had to the destination. *)
LEMMA MoveRelocates ==
  ASSUME WellFormed(block), NEW r, NEW n, NEW pending, LocationsInv(r, n, pending),
         NEW to \in HostLoc, NEW from \in HostLoc, to # from, ~IsEmpty(r, from),
         NEW q, q = Move(r, to, from), q.ok
  PROVE  /\ r.ok /\ IsEmpty(r, to) /\ ~IsLocked(r, from)
         /\ Relocated(r, q, to, from)
         /\ q.info[to] = r.info[from] /\ q.info[from] = NoInfo /\ q.content[from] = r.content[from]
<1> DEFINE i == r.info[from]
           P == IsEmpty(r, to) /\ ~IsLocked(r, from) /\ i.width <= HostLocBitWidth(to)
           c == Asserting(r, P)
           e == EmitMove(c, i.width, to, from)
<1>1. r \in Allocator /\ \A l \in HostLoc : r.info[l] \in LocInfo /\ LocationInv(r, l, n, pending)
  BY Zenon DEF LocationsInv, Allocator
<1>2. i.width \in {0, 32, 64, 128} /\ i.values \subseteq 1..Len(block)
  BY Zenon, <1>1 DEF LocInfo
<1>3. c \in Allocator /\ c.info = r.info /\ c.content = r.content /\ (c.ok <=> r.ok /\ P)
  BY Zenon, <1>1, AssertingFacts
<1>4. q = [e EXCEPT !.info[to] = i, !.info[from] = NoInfo]
  BY Zenon DEF Move
<1>5. NoInfo \in LocInfo
  BY Zenon DEF NoInfo, LocInfo
<1> HIDE DEF c, i
<1>14. e = EmitMove(c, i.width, to, from)
  BY Zenon
<1> HIDE DEF e
<1>6. /\ e \in Allocator /\ e.info = c.info /\ (e.ok => c.ok)
      /\ \A l \in HostLoc \ {to} : e.content[l] = c.content[l]
      /\ \A v \in 1..Len(block) : Width(v) <= i.width /\ HasBits(c, from, v) => HasBits(e, to, v)
  <2>1. c \in Allocator /\ i.width \in {0, 32, 64, 128}
    BY Zenon, <1>2, <1>3
  <2>2. Copied(c, e, i.width, to, from)
    BY <2>1, <1>14, EmitMoveFacts
  <2> QED  BY Zenon, <2>2 DEF Copied
<1>7. q \in Allocator /\ q.content = e.content /\ q.ok = e.ok
  <2>1. i \in LocInfo
    BY Zenon, <1>1 DEF i
  <2>2. /\ q = [info |-> q.info, content |-> q.content, ok |-> q.ok]
        /\ q.info = [e.info EXCEPT ![to] = i, ![from] = NoInfo] /\ q.content = e.content /\ q.ok = e.ok
    BY Zenon, <1>4, <1>6 DEF Allocator
  <2>3. e.info \in [HostLoc -> LocInfo] /\ e.content \in [HostLoc -> SUBSET (Nat \X Nat)] /\ e.ok \in BOOLEAN
    BY Zenon, <1>6 DEF Allocator
  <2>4. q.info \in [HostLoc -> LocInfo]
    BY Zenon, <1>5, <2>1, <2>2, <2>3
  <2> QED  BY Zenon, <2>2, <2>3, <2>4 DEF Allocator
<1>8. /\ q.info[to] = i /\ q.info[from] = NoInfo
      /\ \A l \in HostLoc \ {to, from} : q.info[l] = r.info[l]
  BY <1>3, <1>4, <1>6 DEF Allocator
<1>9. r.ok /\ P
  BY Zenon, <1>3, <1>6, <1>7
<1> USE DEF i
<1>10. \A v \in i.values : HasBits(r, from, v) => HasBits(q, to, v)
  <2>1. SUFFICES ASSUME NEW v \in i.values, HasBits(r, from, v)  PROVE HasBits(q, to, v)
    BY Zenon
  <2>2. v \in 1..Len(block) /\ Width(v) <= i.width
    BY Zenon, <1>1, <1>2 DEF LocationInv
  <2>3. HasBits(c, from, v)
    BY Zenon, <1>3, <2>1 DEF HasBits
  <2>4. HasBits(e, to, v)
    BY Zenon, <1>6, <2>2, <2>3
  <2> QED  BY Zenon, <1>7, <2>4 DEF HasBits
<1>11. Carried(r, from, q, to) /\ Carried(r, to, q, from)
  BY Zenon, <1>8, <1>9, <1>10 DEF Carried
<1>12. ~IsLocked(r, to)
  <2>1. r.info[to].used = 0
    BY Zenon, <1>9 DEF IsEmpty
  <2> QED  BY <2>1 DEF IsLocked
<1>13. Relocated(r, q, to, from)
  BY <1>3, <1>6, <1>7, <1>8, <1>9, <1>11, <1>12 DEF Relocated
<1>15. q.content[from] = r.content[from]
  BY Zenon, <1>3, <1>6, <1>7
<1> QED  BY Zenon, <1>8, <1>9, <1>13, <1>15

(* Exchange brings to the one location what the other had. *)
LEMMA ExchangeRelocates ==
  ASSUME WellFormed(block), NEW r, NEW n, NEW pending, LocationsInv(r, n, pending),
         NEW a \in HostLoc, NEW b \in HostLoc, a # b, ~IsEmpty(r, b),
         NEW q, q = Exchange(r, a, b), q.ok
  PROVE  r.ok /\ Relocated(r, q, a, b) /\ q.info[a] = r.info[b]
<1> DEFINE P == /\ ~IsLocked(r, a) /\ ~IsLocked(r, b)
                /\ r.info[a].width <= HostLocBitWidth(b)
                /\ r.info[b].width <= HostLocBitWidth(a)
           c == Asserting(r, P)
<1>1. r \in Allocator /\ \A l \in HostLoc : r.info[l] \in LocInfo /\ LocationInv(r, l, n, pending)
  BY Zenon DEF LocationsInv, Allocator
<1>2. c \in Allocator /\ c.info = r.info /\ c.content = r.content /\ (c.ok <=> r.ok /\ P)
  BY Zenon, <1>1, AssertingFacts
<1>3. q = IF IsEmpty(r, a) THEN Move(c, a, b)
          ELSE [c EXCEPT !.content[a] = r.content[b], !.content[b] = r.content[a],
                         !.info[a] = r.info[b], !.info[b] = r.info[a]]
  BY DEF Exchange
<1> HIDE DEF c
<1>4. CASE IsEmpty(r, a)
  <2>1. LocationsInv(c, n, pending)
    <3>1. \A l \in HostLoc : LocationInv(c, l, n, pending)
      BY Zenon, <1>1, <1>2, LocationInvCarried DEF HasBits
    <3> QED  BY Zenon, <1>2, <3>1 DEF LocationsInv
  <2>2. ~IsEmpty(c, b)
    BY Zenon, <1>2 DEF IsEmpty
  <2>3. c.ok /\ Relocated(c, q, a, b) /\ q.info[a] = c.info[b]
    BY <1>3, <1>4, <2>1, <2>2, MoveRelocates
  <2>4. Relocated(r, q, a, b)
    <3>1. Carried(r, a, q, b) /\ Carried(r, b, q, a)
      BY Zenon, <1>2, <2>3 DEF Relocated, Carried, IsEmpty, HasBits
    <3>2. ~IsLocked(r, a) /\ ~IsLocked(r, b)
      BY Zenon, <1>2, <2>3 DEF Relocated, IsLocked
    <3> QED  BY Zenon, <1>2, <2>3, <3>1, <3>2 DEF Relocated
  <2> QED  BY <1>2, <2>3, <2>4
<1>5. CASE ~IsEmpty(r, a)
  <2>1. q = [c EXCEPT !.content[a] = r.content[b], !.content[b] = r.content[a],
                      !.info[a] = r.info[b], !.info[b] = r.info[a]]
    BY Zenon, <1>3, <1>5
  <2> DEFINE ci == [c.info EXCEPT ![a] = r.info[b], ![b] = r.info[a]]
             cc == [c.content EXCEPT ![a] = r.content[b], ![b] = r.content[a]]
  <2>6. c.info \in [HostLoc -> LocInfo] /\ c.content \in [HostLoc -> SUBSET (Nat \X Nat)] /\ c.ok \in BOOLEAN
    BY Zenon, <1>2 DEF Allocator
  <2>7. /\ ci \in [HostLoc -> LocInfo] /\ cc \in [HostLoc -> SUBSET (Nat \X Nat)]
        /\ ci[a] = r.info[b] /\ ci[b] = r.info[a] /\ cc[a] = r.content[b] /\ cc[b] = r.content[a]
        /\ \A l \in HostLoc \ {a, b} : ci[l] = r.info[l] /\ cc[l] = r.content[l]
    BY Zenon, <1>2, <2>6
  <2>8. /\ q = [info |-> q.info, content |-> q.content, ok |-> q.ok]
        /\ q.info = ci /\ q.content = cc /\ q.ok = c.ok
    BY Zenon, <1>2, <2>1 DEF Allocator
  <2> HIDE DEF ci, cc
  <2>2. q \in Allocator
    BY Zenon, <2>6, <2>7, <2>8 DEF Allocator
  <2>3. /\ q.info[a] = r.info[b] /\ q.info[b] = r.info[a] /\ q.ok = c.ok
        /\ q.content[a] = r.content[b] /\ q.content[b] = r.content[a]
        /\ \A l \in HostLoc \ {a, b} : q.info[l] = r.info[l] /\ q.content[l] = r.content[l]
    BY Zenon, <2>7, <2>8
  <2>4. r.ok /\ P
    BY Zenon, <1>2, <2>3
  <2>5. Carried(r, a, q, b) /\ Carried(r, b, q, a)
    BY Zenon, <2>3 DEF Carried, HasBits
  <2> QED  BY Zenon, <2>2, <2>3, <2>4, <2>5 DEF Relocated
<1> QED  BY Zenon, <1>4, <1>5

(* MoveOutOfTheWay spills what is in a register; whatever is elsewhere     *)
(* stays where it is.                                                      *)
LEMMA MoveOutOfTheWayFacts ==
  ASSUME WellFormed(block), pos \in 1..Len(block),
         NEW r, NEW n, NEW pending, NEW handles, NEW args,
         LocationsInv(r, n, pending), HandlesInv(r, handles, args),
         NEW l \in GPR \cup XMM, NEW q, q = MoveOutOfTheWay(r, l), q.ok
  PROVE  /\ r.ok /\ ~IsLocked(r, l) /\ IsEmpty(q, l) /\ q.content[l] = r.content[l]
         /\ LocationsInv(q, n, pending) /\ HandlesInv(q, handles, args)
         /\ \A v : IsValueLive(r, v) => IsValueLive(q, v)
         /\ \A m \in HostLoc \ {l} : ~IsEmpty(r, m) => q.info[m] = r.info[m] /\ q.content[m] = r.content[m]
<1> DEFINE free == {s \in Spill : IsEmpty(r, s)}
           u == Asserting(r, ~IsLocked(r, l))
           s0 == CHOOSE s \in free : \A t \in free : s <= t
<1>1. r \in Allocator /\ l \in HostLoc
  BY Zenon DEF LocationsInv, HostLoc
<1>2. u \in Allocator /\ u.info = r.info /\ u.content = r.content /\ (u.ok <=> r.ok /\ ~IsLocked(r, l))
  BY Zenon, <1>1, AssertingFacts
<1>3. LocationsInv(u, n, pending) /\ HandlesInv(u, handles, args)
  BY Zenon, <1>2, SameInv
<1>4. q = IF IsEmpty(r, l) THEN u ELSE IF free = {} THEN Asserting(u, FALSE) ELSE Move(u, s0, l)
  BY Zenon DEF MoveOutOfTheWay
<1> HIDE DEF u
<1>5. CASE IsEmpty(r, l)
  BY Zenon, <1>2, <1>3, <1>4, <1>5 DEF IsEmpty, IsValueLive, ValueLocations
<1>6. CASE ~IsEmpty(r, l)
  <2>1. free # {}
    <3>1. ~Asserting(u, FALSE).ok
      BY Zenon, <1>2, AssertingFacts
    <3> QED  BY Zenon, <1>4, <1>6, <3>1
  <2>2. s0 \in free
    <3>1. Spill \subseteq Nat
      BY HostAssumption DEF Spill
    <3>2. \E s \in free : \A t \in free : s <= t
      BY Zenon, <2>1, <3>1, FirstExists
    <3> QED  BY <3>2
  <2> HIDE DEF s0
  <2>3. s0 \in HostLoc /\ s0 # l /\ IsEmpty(r, s0)
    BY <1>6, <2>2 DEF HostLoc
  <2>4. q = Move(u, s0, l) /\ ~IsEmpty(u, l)
    BY Zenon, <1>2, <1>4, <1>6, <2>1 DEF IsEmpty
  <2>5. u.ok /\ Relocated(u, q, s0, l) /\ q.info[l] = NoInfo /\ q.content[l] = u.content[l]
    BY <1>1, <1>3, <2>3, <2>4, MoveRelocates
  <2>6. LocationsInv(q, n, pending) /\ HandlesInv(q, handles, args)
        /\ \A v : IsValueLive(u, v) => IsValueLive(q, v)
    BY Zenon, <1>1, <1>3, <2>3, <2>5, RelocatedInv
  <2>7. \A v : IsValueLive(r, v) => IsValueLive(q, v)
    BY Zenon, <1>2, <2>6 DEF IsValueLive, ValueLocations
  <2>8. \A m \in HostLoc \ {l} : ~IsEmpty(r, m) => q.info[m] = r.info[m] /\ q.content[m] = r.content[m]
    BY Zenon, <1>2, <2>3, <2>5 DEF Relocated
  <2>9. IsEmpty(q, l)
    BY <2>5 DEF IsEmpty, NoInfo
  <2> QED  BY <1>2, <2>5, <2>6, <2>7, <2>8, <2>9
<1> QED  BY Zenon, <1>5, <1>6

----------------------------------------------------------------------------
(* An instruction being emitted.                                           *)

(* The allocator r while instruction pos is emitted. *)
Sound(r, pending, handles, args) ==
  /\ WellFormed(block) /\ pos \in 1..Len(block) /\ pending \subseteq {pos}
  /\ LocationsInv(r, pos + 1, pending) /\ HandlesInv(r, handles, args)

LiveKept(r, q) == \A v : IsValueLive(r, v) => IsValueLive(q, v)
LockedKept(r, q) == \A m \in HostLoc : IsLocked(r, m) => q.info[m] = r.info[m]

(* q differs from r in one location. *)
OnlyAt(r, q, d) ==
  /\ q \in Allocator
  /\ \A m \in HostLoc \ {d} : q.info[m] = r.info[m] /\ q.content[m] = r.content[m]

(* q has cleared a register that was not locked. *)
Cleared(r, q, l) ==
  /\ ~IsLocked(r, l) /\ IsEmpty(q, l) /\ q.content[l] = r.content[l]
  /\ LiveKept(r, q)
  /\ \A m \in HostLoc \ {l} : ~IsEmpty(r, m) => q.info[m] = r.info[m] /\ q.content[m] = r.content[m]

TypedInfo(i) ==
  /\ i.used \in Nat /\ i.refs \in Nat /\ i.acc \in Nat /\ i.total \in Nat
  /\ i.scratch \in BOOLEAN /\ i.last_use \in BOOLEAN
  /\ i.values \subseteq 1..Len(block) /\ i.width \in {0, 32, 64, 128}
  /\ i = [used |-> i.used, scratch |-> i.scratch, last_use |-> i.last_use, refs |-> i.refs,
          acc |-> i.acc, total |-> i.total, values |-> i.values, width |-> i.width]

(* The fields of a location. *)
LEMMA TypedInfoFacts ==
  ASSUME NEW i
  PROVE  i \in LocInfo <=> TypedInfo(i)
  BY Zenon DEF LocInfo, TypedInfo

(* What holds at one location. *)
LEMMA SoundLocation ==
  ASSUME NEW r, NEW pending, NEW handles, NEW args, Sound(r, pending, handles, args), NEW l \in HostLoc
  PROVE  /\ TypedInfo(r.info[l]) /\ r.info[l] \in LocInfo
         /\ LocationInv(r, l, pos + 1, pending) /\ LockInv(r, l, handles, args)
<1>1. r.info[l] \in LocInfo
  BY Zenon DEF Sound, LocationsInv, Allocator
<1> QED  BY Zenon, <1>1, TypedInfoFacts DEF Sound, LocationsInv, HandlesInv

(* Arguments are numbers from 1 to 4 whose values come before pos. *)
LEMMA SoundArgument ==
  ASSUME NEW r, NEW pending, NEW handles, NEW args, Sound(r, pending, handles, args), NEW k \in args
  PROVE  /\ k \in 1..4 /\ k \in 1..Len(block[pos].args)
         /\ Arg(pos, k) \in Nat /\ Arg(pos, k) < pos /\ Arg(pos, k) \notin Results
         /\ Arg(pos, k) # Imm => IsValueLive(r, Arg(pos, k)) /\ Arg(pos, k) \in 1..Len(block)
<1>1. k \in 1..Len(block[pos].args) /\ (Arg(pos, k) # Imm => IsValueLive(r, Arg(pos, k)))
  BY Zenon DEF Sound, HandlesInv
<1> DEFINE m == Len(block[pos].args)
           v == Arg(pos, k)
<1>2. /\ Len(block) \in Nat /\ m \in 0..4 /\ v \in Nat /\ v < pos
      /\ \A j \in 1..Len(block) : block[j].kind \in {"pseudo", "nz"} => 1 \in 1..Len(block[j].args)
      /\ \A j \in 1..Len(block) : \A i \in 1..Len(block[j].args) : Arg(j, i) < j
  <2>1. WellFormed(block) /\ pos \in 1..Len(block)
    BY DEF Sound
  <2>2. /\ Len(block) \in Nat
        /\ \A i \in 1..Len(block) :
              /\ Len(block[i].args) \in 0..4
              /\ \A j \in 1..Len(block[i].args) : Arg(i, j) \in Nat /\ Arg(i, j) < i
              /\ block[i].kind \in {"pseudo", "nz", "id"} => Len(block[i].args) = 1
    BY <2>1, BlockFacts, Zenon
  <2>3. m \in 0..4 /\ v \in Nat /\ v < pos
    BY <1>1, <2>1, <2>2, Zenon
  <2>4. 1 \in 1..1
    OBVIOUS
  <2> HIDE DEF m, v
  <2> QED  BY Zenon, <2>2, <2>3, <2>4
<1>3. k \in 1..4
  <2>1. k \in 1..m
    BY Zenon, <1>1
  <2> HIDE DEF m
  <2> QED  BY <1>2, <2>1
<1>4. v \notin Results
  <2>1. ASSUME NEW j \in 1..Len(block), block[j].kind \in {"pseudo", "nz"}, Arg(j, 1) = pos  PROVE pos < j
    BY Zenon, <1>2, <2>1
  <2> HIDE DEF v
  <2> QED  BY <1>2, <2>1 DEF Results, PseudosOf, Sound
<1>5. v # Imm => v \in 1..Len(block)
  <2> HIDE DEF v
  <2> QED  BY <1>2 DEF Imm, Sound
<1> QED  BY Zenon, <1>1, <1>2, <1>3, <1>4, <1>5

(* Moving a register out of the way keeps the allocator sound. *)
LEMMA SoundCleared ==
  ASSUME NEW r, NEW pending, NEW handles, NEW args, Sound(r, pending, handles, args),
         NEW l \in GPR \cup XMM, NEW q, q = MoveOutOfTheWay(r, l), q.ok
  PROVE  Sound(q, pending, handles, args) /\ Cleared(r, q, l)
  BY MoveOutOfTheWayFacts DEF Sound, Cleared, LiveKept

(* One location has changed: the others keep their invariant. *)
LEMMA OnlyAtLocations ==
  ASSUME NEW r, NEW q, NEW n, NEW pending, NEW d \in HostLoc, LocationsInv(r, n, pending),
         OnlyAt(r, q, d), LocationInv(q, d, n, pending),
         \A m \in HostLoc \ {d} : q.info[d].values \cap r.info[m].values = {}
  PROVE  LocationsInv(q, n, pending)
<1>1. \A m \in HostLoc \ {d} : LocationInv(q, m, n, pending)
  <2>1. SUFFICES ASSUME NEW m \in HostLoc \ {d}  PROVE LocationInv(q, m, n, pending)
    BY Zenon
  <2>2. LocationInv(r, m, n, pending) /\ q.info[m] = r.info[m] /\ q.content[m] = r.content[m]
    BY Zenon DEF LocationsInv, OnlyAt
  <2> QED  BY Zenon, <2>2, LocationInvCarried DEF HasBits
<1>2. \A l, m \in HostLoc : q.info[l].values \cap q.info[m].values # {} => l = m
  <2>1. \A l, m \in HostLoc : r.info[l].values \cap r.info[m].values # {} => l = m
    BY Zenon DEF LocationsInv
  <2>2. \A m \in HostLoc \ {d} : q.info[m].values = r.info[m].values
    BY Zenon DEF OnlyAt
  <2> QED  BY <2>1, <2>2
<1> QED  BY Zenon, <1>1, <1>2 DEF LocationsInv, OnlyAt

(* A register elsewhere stays what it is for its emitter. *)
LEMMA HandleKept ==
  ASSUME NEW r, NEW q, NEW g, NEW handles, NEW args, NEW handles2, NEW args2,
         HandleInv(r, g, handles, args), args2 \subseteq args,
         q.info[g.loc] = r.info[g.loc], q.content[g.loc] = r.content[g.loc],
         \A x \in handles2 : x = g \/ x \in handles \/ (x.loc # g.loc /\ x.arg # g.arg)
  PROVE  HandleInv(q, g, handles2, args2)
  BY Zenon DEF HandleInv, HasBits

(* A location with no new reader and nobody new waiting stays locked as    *)
(* it must be.                                                             *)
LEMMA LockKept ==
  ASSUME NEW r, NEW q, NEW m, NEW handles, NEW args, NEW handles2, NEW args2,
         LockInv(r, m, handles, args), args2 \subseteq args, q.info[m] = r.info[m],
         TypedInfo(r.info[m]), Reading(m, handles2) \subseteq Reading(m, handles)
  PROVE  LockInv(q, m, handles2, args2)
<1> DEFINE A == Reading(m, handles)
           B == Reading(m, handles) \cup Waiting(r, m, args)
           C == Reading(m, handles2)
           D == Reading(m, handles2) \cup Waiting(q, m, args2)
<1>1. Waiting(q, m, args2) \subseteq Waiting(r, m, args)
  BY Zenon DEF Waiting
<1>2. Number(C) <= Number(A) /\ Number(D) <= Number(B)
  BY Zenon, <1>1, NumberSubset
<1>3. Number(A) \in Nat /\ Number(B) \in Nat /\ Number(C) \in Nat /\ Number(D) \in Nat
  BY Zenon, NumberFacts
<1>4. r.info[m].used >= Number(A) /\ r.info[m].refs >= Number(B) /\ (r.info[m].last_use => Waiting(r, m, args) = {})
  BY Zenon DEF LockInv
<1>5. r.info[m].used \in Nat /\ r.info[m].refs \in Nat
  BY Zenon DEF TypedInfo
<1>6. r.info[m].used >= Number(C) /\ r.info[m].refs >= Number(D)
  <2> HIDE DEF A, B, C, D
  <2> QED  BY <1>2, <1>3, <1>4, <1>5
<1> QED  BY Zenon, <1>1, <1>4, <1>6 DEF LockInv

----------------------------------------------------------------------------
(* Registers that are given to an emitter.                                 *)

(* The counts and the values of a location are the same. *)
SameUses(i, j) ==
  j.refs = i.refs /\ j.acc = i.acc /\ j.total = i.total /\ j.values = i.values /\ j.width = i.width

(* d is now locked for writing, for the register h of the emitter. *)
LockedToWrite(r, q, h, args) ==
  /\ h \in Handles /\ h.write /\ h.loc \in HostLoc /\ (h.arg > 0 => h.arg \in args)
  /\ h.val # None => HasBits(q, h.loc, h.val)
  /\ ~IsLocked(r, h.loc) /\ OnlyAt(r, q, h.loc)
  /\ q.info[h.loc].scratch /\ q.info[h.loc].used = 1 /\ SameUses(r.info[h.loc], q.info[h.loc])
  /\ \/ r.info[h.loc].values = {} /\ q.info[h.loc].last_use = r.info[h.loc].last_use
     \/ /\ q.info[h.loc].last_use /\ IsLastUse(r, h.loc) /\ h.arg \in args
        /\ Arg(pos, h.arg) \in r.info[h.loc].values

Given(r, q, h, pending, handles, args) ==
  /\ Sound(q, pending, handles \cup {h}, args \ {h.arg})
  /\ LiveKept(r, q) /\ LockedKept(r, q)

(* An emitter is given a location nobody has, to write it: an empty one,   *)
(* or one with the last use of its value.                                  *)
LEMMA GivenToWrite ==
  ASSUME NEW r, NEW q, NEW h, NEW pending, NEW handles, NEW args,
         Sound(r, pending, handles, args), LockedToWrite(r, q, h, args)
  PROVE  Given(r, q, h, pending, handles, args)
<1> DEFINE d == h.loc
           i == r.info[d]
           j == q.info[d]
           handles2 == handles \cup {h}
           args2 == args \ {h.arg}
<1>1. d \in HostLoc /\ OnlyAt(r, q, d) /\ ~IsLocked(r, d) /\ h \in Handles
  BY Zenon DEF LockedToWrite
<1>2. TypedInfo(i) /\ LocationInv(r, d, pos + 1, pending) /\ LockInv(r, d, handles, args)
  BY Zenon, <1>1, SoundLocation
<1>3. /\ \A g \in handles : g.loc # d
      /\ Reading(d, handles) = {}
  BY Zenon, <1>1, UnlockedIsFree DEF Sound
<1>4. ~i.scratch /\ ~i.last_use
  BY Zenon, <1>1, <1>2 DEF LocationInv, IsLocked
<1>5. j.scratch /\ j.used = 1 /\ SameUses(i, j)
  BY Zenon DEF LockedToWrite
<1>6. \/ i.values = {} /\ ~j.last_use
      \/ j.last_use /\ IsLastUse(r, d) /\ h.arg \in args /\ Arg(pos, h.arg) \in i.values
  BY Zenon, <1>4 DEF LockedToWrite
<1>7. \A m \in HostLoc \ {d} : q.info[m] = r.info[m] /\ q.content[m] = r.content[m]
  BY Zenon, <1>1 DEF OnlyAt
<1>8. Reading(d, handles2) = {} /\ \A m \in HostLoc : Reading(m, handles2) = Reading(m, handles)
  BY Zenon, <1>3 DEF Reading, LockedToWrite
<1>9. LocationInv(q, d, pos + 1, pending)
  <2>1. /\ j.refs = i.refs /\ j.acc = i.acc /\ j.total = i.total /\ j.values = i.values
        /\ j.width = i.width /\ j.scratch /\ j.used = 1
    BY Zenon, <1>5 DEF SameUses
  <2>2. j.total = j.acc + j.refs + Cardinality(UsesFrom(j.values, pos + 1))
    BY Zenon, <1>2, <2>1 DEF LocationInv
  <2>3. j.used > 0
    BY <2>1
  <2>4. \A v \in j.values : Width(v) <= j.width
    BY Zenon, <1>2, <2>1 DEF LocationInv
  <2>5. (j.values = {} /\ ~j.last_use) \/ (j.last_use /\ j.refs = 1 /\ j.acc + 1 = j.total)
    BY Zenon, <1>6, <2>1 DEF IsLastUse
  <2> HIDE DEF i, j
  <2>6. /\ \A v \in j.values : v \notin pending /\ ~j.last_use => HasBits(q, d, v)
        /\ j.scratch => j.used > 0 /\ (j.last_use \/ j.values \subseteq Results)
        /\ j.last_use => j.scratch /\ j.refs = 1 /\ j.acc + 1 = j.total
    BY Zenon, <2>1, <2>3, <2>5
  <2> QED  BY Zenon, <2>2, <2>4, <2>6 DEF LocationInv, j
<1>10. LocationsInv(q, pos + 1, pending)
  <2>1. LocationsInv(r, pos + 1, pending)
    BY Zenon DEF Sound
  <2>2. \A m \in HostLoc \ {d} : j.values \cap r.info[m].values = {}
    BY Zenon, <1>1, <1>5, <2>1 DEF LocationsInv, SameUses
  <2> HIDE DEF d
  <2> QED  BY Zenon, <1>1, <1>9, <2>1, <2>2, OnlyAtLocations
<1>11. Waiting(q, d, args2) = {}
  <2>1. CASE i.values = {}
    BY Zenon, <1>5, <2>1 DEF Waiting, SameUses
  <2>2. CASE IsLastUse(r, d) /\ h.arg \in args /\ Arg(pos, h.arg) \in i.values
    <3> DEFINE W == Waiting(r, d, args)
    <3>1. h.arg \in W /\ \A k \in W : k \in 1..4
      BY Zenon, <2>2, SoundArgument DEF Waiting
    <3>2. Number(W) <= 1
      BY Zenon, <1>2, <1>3, <2>2, NumberFacts DEF LockInv, IsLastUse
    <3>3. \A k \in W : k = h.arg
      BY <3>1, <3>2, NumberOne
    <3> QED  BY Zenon, <1>5, <3>3 DEF Waiting, SameUses
  <2> QED  BY Zenon, <1>6, <2>1, <2>2
<1>12. \A m \in HostLoc : LockInv(q, m, handles2, args2)
  <2>1. SUFFICES ASSUME NEW m \in HostLoc  PROVE LockInv(q, m, handles2, args2)
    BY Zenon
  <2>2. CASE m = d
    <3>1. Number({}) = 0
      BY Zenon, NumberFacts
    <3>2. j.refs \in Nat /\ j.used = 1
      BY Zenon, <1>2, <1>5 DEF SameUses, TypedInfo
    <3>3. Reading(d, handles2) \cup Waiting(q, d, args2) = {}
      BY Zenon, <1>8, <1>11
    <3> HIDE DEF handles2, args2
    <3>4. j.used >= Number(Reading(d, handles2)) /\ j.refs >= Number(Reading(d, handles2) \cup Waiting(q, d, args2))
      BY <1>8, <3>1, <3>2, <3>3
    <3> QED  BY Zenon, <1>11, <2>2, <3>4 DEF LockInv
  <2>3. CASE m # d
    <3>1. TypedInfo(r.info[m]) /\ LockInv(r, m, handles, args)
      BY Zenon, SoundLocation
    <3>2. q.info[m] = r.info[m] /\ args2 \subseteq args /\ Reading(m, handles2) \subseteq Reading(m, handles)
      BY Zenon, <1>7, <1>8, <2>3
    <3> HIDE DEF handles2, args2
    <3> QED  BY Zenon, <3>1, <3>2, LockKept
  <2> QED  BY Zenon, <2>2, <2>3
<1>13. \A v : IsValueLive(r, v) <=> IsValueLive(q, v)
  BY Zenon, <1>1, <1>5, <1>7 DEF IsValueLive, ValueLocations, SameUses
<1>14. \A g \in handles : HandleInv(q, g, handles2, args2)
  <2>1. SUFFICES ASSUME NEW g \in handles  PROVE HandleInv(q, g, handles2, args2)
    BY Zenon
  <2>2. HandleInv(r, g, handles, args) /\ g \in Handles
    BY Zenon DEF Sound, HandlesInv
  <2>3. g.loc # d /\ q.info[g.loc] = r.info[g.loc] /\ q.content[g.loc] = r.content[g.loc]
    BY Zenon, <1>3, <1>7, <2>2 DEF Handles
  <2>4. g.arg > 0 => h.arg # g.arg
    BY Zenon, <2>2 DEF HandleInv, LockedToWrite
  <2> QED  BY Zenon, <2>2, <2>3, <2>4 DEF HandleInv, HasBits
<1>15. HandleInv(q, h, handles2, args2)
  <2>1. h.arg > 0 => h.arg \in 1..Len(block[pos].args)
    BY Zenon, SoundArgument DEF LockedToWrite
  <2>2. \A g \in handles : h.arg > 0 => g.arg # h.arg
    <3>1. \A g \in handles : g.arg > 0 => g.arg \notin args
      BY Zenon DEF Sound, HandlesInv, HandleInv
    <3> QED  BY Zenon, <3>1 DEF LockedToWrite
  <2>3. j.last_use \/ j.values = {}
    BY Zenon, <1>5, <1>6 DEF SameUses
  <2>4. h.write /\ (h.val # None => HasBits(q, d, h.val))
    BY Zenon DEF LockedToWrite
  <2> QED  BY Zenon, <1>3, <1>5, <2>1, <2>2, <2>3, <2>4 DEF HandleInv
<1>16. HandlesInv(q, handles2, args2)
  <2>1. handles \subseteq Handles /\ \A k \in args : /\ k \in 1..Len(block[pos].args)
                                                     /\ Arg(pos, k) # Imm => IsValueLive(r, Arg(pos, k))
    BY Zenon DEF Sound, HandlesInv
  <2>2. handles2 \subseteq Handles /\ \A g \in handles2 : HandleInv(q, g, handles2, args2)
    BY Zenon, <1>1, <1>14, <1>15, <2>1
  <2>3. \A k \in args2 : /\ k \in 1..Len(block[pos].args)
                         /\ Arg(pos, k) # Imm => IsValueLive(q, Arg(pos, k))
    BY <1>13, <2>1, Zenon
  <2> HIDE DEF handles2, args2
  <2> QED  BY Zenon, <1>12, <2>2, <2>3 DEF HandlesInv
<1>17. LockedKept(r, q)
  BY Zenon, <1>1, <1>7 DEF LockedKept
<1> QED  BY Zenon, <1>10, <1>13, <1>16, <1>17 DEF Given, Sound, LiveKept

(* h.loc has one more reader, the register h of the emitter. *)
LockedToRead(r, q, h, args) ==
  /\ h \in Handles /\ ~h.write /\ h.loc \in HostLoc /\ h.arg \in args
  /\ Arg(pos, h.arg) \in r.info[h.loc].values /\ h.val = Arg(pos, h.arg)
  /\ OnlyAt(r, q, h.loc) /\ q.content[h.loc] = r.content[h.loc]
  /\ ~r.info[h.loc].scratch /\ q.info[h.loc] = [r.info[h.loc] EXCEPT !.used = @ + 1]

GivenToBeRead(r, q, h, pending, handles, args) ==
  Sound(q, pending, handles \cup {h}, args \ {h.arg}) /\ LiveKept(r, q)

(* An emitter is given a location with an argument, to read it: the        *)
(* argument that was waiting is now reading.                               *)
LEMMA GivenToRead ==
  ASSUME NEW r, NEW q, NEW h, NEW pending, NEW handles, NEW args,
         Sound(r, pending, handles, args), LockedToRead(r, q, h, args)
  PROVE  GivenToBeRead(r, q, h, pending, handles, args)
<1> DEFINE d == h.loc
           i == r.info[d]
           j == q.info[d]
           k == h.arg
           handles2 == handles \cup {h}
           args2 == args \ {k}
<1>1. d \in HostLoc /\ OnlyAt(r, q, d) /\ h \in Handles /\ k \in args /\ h.val = Arg(pos, k)
  BY Zenon DEF LockedToRead
<1>2. TypedInfo(i) /\ LocationInv(r, d, pos + 1, pending) /\ LockInv(r, d, handles, args)
  BY Zenon, <1>1, SoundLocation
<1>3. k \in 1..4 /\ k \in 1..Len(block[pos].args) /\ Arg(pos, k) \in Nat /\ Arg(pos, k) < pos
  BY Zenon, <1>1, SoundArgument
<1>4. ~i.scratch /\ ~i.last_use /\ Arg(pos, k) \in i.values
  BY Zenon, <1>2 DEF LocationInv, LockedToRead
<1>5. j.used = i.used + 1 /\ j.scratch = i.scratch /\ j.last_use = i.last_use /\ SameUses(i, j)
  BY <1>2 DEF LockedToRead, SameUses, TypedInfo
<1>6. \A m \in HostLoc : q.content[m] = r.content[m] /\ (m # d => q.info[m] = r.info[m])
  BY Zenon, <1>1 DEF OnlyAt, LockedToRead
<1>7. \A g \in handles : g \in Handles /\ HandleInv(r, g, handles, args)
  BY Zenon DEF Sound, HandlesInv
<1>8. \A g \in handles : g.arg > 0 => g.arg # k
  BY Zenon, <1>1, <1>7 DEF HandleInv
<1>9. k \notin Reading(d, handles)
  <2>1. \A g \in handles : g.arg # k
    BY <1>3, <1>8
  <2> QED  BY Zenon, <2>1 DEF Reading
<1>10. /\ Reading(d, handles2) = Reading(d, handles) \cup {k}
       /\ \A m \in HostLoc \ {d} : Reading(m, handles2) = Reading(m, handles)
  BY DEF Reading, LockedToRead
<1>11. LocationInv(q, d, pos + 1, pending)
  <2>1. \A v : HasBits(r, d, v) => HasBits(q, d, v)
    BY Zenon, <1>1, <1>6 DEF HasBits
  <2> QED  BY Zenon, <1>2, <1>4, <1>5, <2>1 DEF LocationInv, SameUses
<1>12. LocationsInv(q, pos + 1, pending)
  <2>1. LocationsInv(r, pos + 1, pending)
    BY Zenon DEF Sound
  <2>2. \A m \in HostLoc \ {d} : j.values \cap r.info[m].values = {}
    BY Zenon, <1>1, <1>5, <2>1 DEF LocationsInv, SameUses
  <2> HIDE DEF d
  <2> QED  BY Zenon, <1>1, <1>11, <2>1, <2>2, OnlyAtLocations
<1>13. LockInv(q, d, handles2, args2)
  <2> DEFINE A == Reading(d, handles)
             B == Reading(d, handles2)
             C == Reading(d, handles) \cup Waiting(r, d, args)
             D == Reading(d, handles2) \cup Waiting(q, d, args2)
  <2>1. A = B \ {k} /\ k \in B
    BY Zenon, <1>9, <1>10
  <2>2. Number(A) = Number(B) - 1 /\ Number(A) \in Nat /\ Number(B) \in Nat
    BY Zenon, <1>3, <2>1, NumberRemoved, NumberFacts
  <2>3. C = D
    BY Zenon, <1>1, <1>4, <1>5, <1>10 DEF Waiting, SameUses
  <2>4. i.used >= Number(A) /\ i.refs >= Number(C)
    BY Zenon, <1>2 DEF LockInv
  <2>5. i.used \in Nat
    BY Zenon, <1>2 DEF TypedInfo
  <2>6. j.used >= Number(B)
    <3> HIDE DEF A, B, i, j
    <3> QED  BY <1>5, <2>2, <2>4, <2>5
  <2>7. j.refs >= Number(D) /\ ~j.last_use
    BY Zenon, <1>4, <1>5, <2>3, <2>4 DEF SameUses
  <2> HIDE DEF handles2, args2
  <2> QED  BY Zenon, <2>6, <2>7 DEF LockInv
<1>14. \A m \in HostLoc : LockInv(q, m, handles2, args2)
  <2>1. SUFFICES ASSUME NEW m \in HostLoc, m # d  PROVE LockInv(q, m, handles2, args2)
    BY Zenon, <1>13
  <2>2. TypedInfo(r.info[m]) /\ LockInv(r, m, handles, args)
    BY Zenon, SoundLocation
  <2>3. q.info[m] = r.info[m] /\ args2 \subseteq args /\ Reading(m, handles2) \subseteq Reading(m, handles)
    BY Zenon, <1>6, <1>10, <2>1
  <2> HIDE DEF handles2, args2
  <2> QED  BY Zenon, <2>2, <2>3, LockKept
<1>15. \A v : IsValueLive(r, v) <=> IsValueLive(q, v)
  BY Zenon, <1>1, <1>5, <1>6 DEF IsValueLive, ValueLocations, SameUses
<1>16. \A g \in handles : HandleInv(q, g, handles2, args2)
  <2>1. SUFFICES ASSUME NEW g \in handles  PROVE HandleInv(q, g, handles2, args2)
    BY Zenon
  <2>2. HandleInv(r, g, handles, args) /\ g.loc \in HostLoc
    BY Zenon, <1>7 DEF Handles
  <2>3. q.content[g.loc] = r.content[g.loc] /\ (g.loc # d => q.info[g.loc] = r.info[g.loc])
    BY Zenon, <1>6, <2>2
  <2>4. \A v : HasBits(r, g.loc, v) => HasBits(q, g.loc, v)
    BY Zenon, <2>3 DEF HasBits
  <2>5. g.write => g.loc # d
    BY Zenon, <1>4, <2>2 DEF HandleInv
  <2>6. q.info[g.loc].scratch = r.info[g.loc].scratch
    BY Zenon, <1>5, <2>3
  <2> QED  BY Zenon, <1>8, <2>2, <2>3, <2>4, <2>5, <2>6 DEF HandleInv
<1>17. HandleInv(q, h, handles2, args2)
  <2>1. HasBits(q, d, h.val)
    <3>1. Arg(pos, k) \notin pending
      BY <1>3 DEF Sound
    <3>2. HasBits(r, d, Arg(pos, k))
      BY Zenon, <1>2, <1>4, <3>1 DEF LocationInv
    <3> QED  BY Zenon, <1>1, <1>6, <3>2 DEF HasBits
  <2>2. ~h.write /\ h.arg > 0 /\ ~j.scratch
    BY <1>3, <1>4, <1>5 DEF LockedToRead
  <2> QED  BY Zenon, <1>3, <1>8, <2>1, <2>2 DEF HandleInv
<1>18. HandlesInv(q, handles2, args2)
  <2>1. handles \subseteq Handles /\ \A x \in args : /\ x \in 1..Len(block[pos].args)
                                                     /\ Arg(pos, x) # Imm => IsValueLive(r, Arg(pos, x))
    BY Zenon DEF Sound, HandlesInv
  <2>2. handles2 \subseteq Handles /\ \A g \in handles2 : HandleInv(q, g, handles2, args2)
    BY Zenon, <1>1, <1>16, <1>17, <2>1
  <2>3. \A x \in args2 : /\ x \in 1..Len(block[pos].args)
                         /\ Arg(pos, x) # Imm => IsValueLive(q, Arg(pos, x))
    BY <1>15, <2>1, Zenon
  <2> HIDE DEF handles2, args2
  <2> QED  BY Zenon, <1>14, <2>2, <2>3 DEF HandlesInv
<1> QED  BY Zenon, <1>12, <1>15, <1>18 DEF GivenToBeRead, Sound, LiveKept

----------------------------------------------------------------------------
(* The allocation calls.                                                   *)

(* x has locked d for writing, whatever d contains. *)
WriteLocked(q, x, d) ==
  /\ OnlyAt(q, x, d) /\ x.info[d].scratch /\ x.info[d].used = q.info[d].used + 1
  /\ x.info[d].last_use = q.info[d].last_use /\ SameUses(q.info[d], x.info[d])

(* WriteLock locks one location for writing. *)
LEMMA WriteLockFacts ==
  ASSUME NEW q \in Allocator, NEW d \in HostLoc, NEW w, w = WriteLock(q, d)
  PROVE  /\ WriteLocked(q, w, d) /\ (w.ok => q.ok /\ ~IsLocked(q, d))
         /\ \A m \in HostLoc : w.content[m] = q.content[m]
<1> DEFINE c == Asserting(q, ~IsLocked(q, d))
           i == q.info[d]
           j == [i EXCEPT !.used = @ + 1, !.scratch = TRUE]
<1>1. c \in Allocator /\ c.info = q.info /\ c.content = q.content /\ (c.ok <=> q.ok /\ ~IsLocked(q, d))
  BY Zenon, AssertingFacts
<1>2. w = [c EXCEPT !.info[d].used = @ + 1, !.info[d].scratch = TRUE]
  BY Zenon DEF WriteLock
<1>3. q.info \in [HostLoc -> LocInfo] /\ i \in LocInfo
  BY DEF Allocator
<1>4. j \in LocInfo /\ j.used = i.used + 1 /\ j.scratch = TRUE /\ j.last_use = i.last_use /\ SameUses(i, j)
  <2> DEFINE u == i.used + 1
  <2>1. u \in Nat
    BY <1>3 DEF LocInfo
  <2>2. j = [i EXCEPT !.used = u, !.scratch = TRUE]
    BY Zenon
  <2>3. j.used = i.used + 1 /\ j.scratch = TRUE /\ j.last_use = i.last_use /\ SameUses(i, j)
    BY <1>3 DEF SameUses, LocInfo
  <2>4. j \in LocInfo
    <3> HIDE DEF i, j, u
    <3> QED  BY <1>3, <2>1, <2>2, Zenon DEF LocInfo
  <2> QED  BY Zenon, <2>3, <2>4
<1> HIDE DEF c
<1>5. w.info = [c.info EXCEPT ![d] = j] /\ w.content = c.content /\ w.ok = c.ok
      /\ w = [info |-> w.info, content |-> w.content, ok |-> w.ok]
  <2>1. c.info \in [HostLoc -> LocInfo] /\ c.info[d] = i
    BY Zenon, <1>1 DEF Allocator
  <2>2. /\ w.info = [c.info EXCEPT ![d].used = @ + 1, ![d].scratch = TRUE] /\ w.content = c.content /\ w.ok = c.ok
        /\ w = [info |-> w.info, content |-> w.content, ok |-> w.ok]
    BY Zenon, <1>1, <1>2 DEF Allocator
  <2>3. [c.info EXCEPT ![d].used = @ + 1, ![d].scratch = TRUE] = [c.info EXCEPT ![d] = j]
    <3> HIDE DEF i
    <3> QED  BY Zenon, <2>1
  <2> QED  BY Zenon, <2>2, <2>3
<1> HIDE DEF j
<1>6. w.info \in [HostLoc -> LocInfo] /\ w.info[d] = j /\ \A m \in HostLoc \ {d} : w.info[m] = q.info[m]
  BY <1>1, <1>3, <1>4, <1>5
<1>7. w \in Allocator
  BY Zenon, <1>1, <1>5, <1>6 DEF Allocator
<1> QED  BY Zenon, <1>1, <1>4, <1>5, <1>6, <1>7 DEF WriteLocked, OnlyAt

(* An emptied register has been locked for writing. *)
TakenAt(r, x, d, pending, handles, args) ==
  /\ d \in GPR \cup XMM
  /\ \E q : Sound(q, pending, handles, args) /\ Cleared(r, q, d) /\ WriteLocked(q, x, d)

(* y is x with other content in d. *)
Refilled(x, y, d) ==
  /\ y \in Allocator /\ y.info = x.info
  /\ \A m \in HostLoc \ {d} : y.content[m] = x.content[m]

(* y has C there. *)
Filled(x, y, d, C) == Refilled(x, y, d) /\ y.content[d] = C /\ y.ok = x.ok

(* Setting the content of one location. *)
LEMMA RefilledFacts ==
  ASSUME NEW x \in Allocator, NEW d \in HostLoc, NEW C \in SUBSET (Nat \X Nat),
         NEW y, y = [x EXCEPT !.content[d] = C]
  PROVE  Filled(x, y, d, C)
<1>1. /\ y.info = x.info /\ y.content = [x.content EXCEPT ![d] = C] /\ y.ok = x.ok
      /\ y = [info |-> y.info, content |-> y.content, ok |-> y.ok]
  BY Zenon DEF Allocator
<1>2. /\ x.info \in [HostLoc -> LocInfo] /\ x.ok \in BOOLEAN
      /\ x.content \in [HostLoc -> SUBSET (Nat \X Nat)]
  BY Zenon DEF Allocator
<1>3. y.content \in [HostLoc -> SUBSET (Nat \X Nat)] /\ y.content[d] = C
      /\ \A m \in HostLoc \ {d} : y.content[m] = x.content[m]
  BY Zenon, <1>1, <1>2
<1>4. y \in Allocator
  BY Zenon, <1>1, <1>2, <1>3 DEF Allocator
<1> QED  BY Zenon, <1>1, <1>3, <1>4 DEF Refilled, Filled

(* Write puts all bits of a value there. *)
LEMMA WriteFacts ==
  ASSUME WellFormed(block), NEW x \in Allocator, NEW d \in HostLoc, NEW v \in 0..Len(block),
         NEW y, y = Write(x, d, v)
  PROVE  Refilled(x, y, d) /\ HasBits(y, d, v) /\ y.ok = x.ok
<1> DEFINE w == Larger(Width(v), 32)
           C == {<<v, w>>}
<1>1. w \in Nat /\ w >= Width(v)
  <2>1. Width(v) \in {0, 32, 64, 128}
    <3>1. CASE v = 0
      BY Zenon, <3>1 DEF Width, Imm
    <3>2. CASE v # 0
      BY <3>2, BlockFacts, WidthFacts
    <3> QED  BY Zenon, <3>1, <3>2
  <2> HIDE DEF Width
  <2> QED  BY <2>1 DEF Larger
<1>2. y = [x EXCEPT !.content[d] = C]
  BY Zenon DEF Write
<1> HIDE DEF w
<1>3. C \in SUBSET (Nat \X Nat) /\ <<v, w>> \in C
  BY <1>1, BlockFacts
<1> HIDE DEF C
<1>7. Filled(x, y, d, C)
  BY Zenon, <1>2, <1>3, RefilledFacts
<1>4. Refilled(x, y, d) /\ <<v, w>> \in y.content[d] /\ y.ok = x.ok
  BY Zenon, <1>3, <1>7 DEF Filled
<1>5. <<v, w>>[1] = v /\ <<v, w>>[2] >= Width(v)
  BY Zenon, <1>1
<1>6. HasBits(y, d, v)
  BY Zenon, <1>4, <1>5 DEF HasBits
<1> QED  BY Zenon, <1>4, <1>6

(* What a taken register contains may change. *)
LEMMA TakenRefilled ==
  ASSUME NEW r, NEW x, NEW y, NEW d, NEW pending, NEW handles, NEW args,
         TakenAt(r, x, d, pending, handles, args), Refilled(x, y, d)
  PROVE  TakenAt(r, y, d, pending, handles, args)
<1>1. PICK q : Sound(q, pending, handles, args) /\ Cleared(r, q, d) /\ WriteLocked(q, x, d)
  BY Zenon DEF TakenAt
<1>2. WriteLocked(q, y, d)
  BY Zenon, <1>1 DEF WriteLocked, OnlyAt, Refilled
<1> QED  BY Zenon, <1>1, <1>2 DEF TakenAt

(* A taken register is given to the emitter. *)
LEMMA TakenGiven ==
  ASSUME NEW r, NEW x, NEW pending, NEW handles, NEW args, NEW h \in Handles,
         TakenAt(r, x, h.loc, pending, handles, args),
         h.write, h.arg > 0 => h.arg \in args, h.val # None => HasBits(x, h.loc, h.val)
  PROVE  Given(r, x, h, pending, handles, args)
<1>1. PICK q : Sound(q, pending, handles, args) /\ Cleared(r, q, h.loc) /\ WriteLocked(q, x, h.loc)
  BY DEF TakenAt
<1>2. h.loc \in HostLoc
  BY Zenon DEF Handles
<1>3. q.info[h.loc].used = 0 /\ q.info[h.loc].values = {} /\ ~IsLocked(q, h.loc)
  BY <1>1 DEF Cleared, IsEmpty, IsLocked
<1>4. LockedToWrite(q, x, h, args)
  <2>1. x.info[h.loc].used = 1
    <3>1. PICK n : n = q.info[h.loc].used
      BY Zenon
    <3>2. n = 0 /\ x.info[h.loc].used = n + 1
      BY Zenon, <1>1, <1>3, <3>1 DEF WriteLocked
    <3> QED  BY <3>2
  <2> QED  BY Zenon, <1>1, <1>2, <1>3, <2>1 DEF LockedToWrite, WriteLocked
<1>5. Given(q, x, h, pending, handles, args)
  BY Zenon, <1>1, <1>4, GivenToWrite
<1>6. LiveKept(r, x)
  BY Zenon, <1>1, <1>5 DEF Given, Cleared, LiveKept
<1>7. LockedKept(r, x)
  <2>1. SUFFICES ASSUME NEW m \in HostLoc, IsLocked(r, m)  PROVE x.info[m] = r.info[m]
    BY Zenon DEF LockedKept
  <2>2. m # h.loc /\ ~IsEmpty(r, m)
    BY <1>1, <2>1 DEF Cleared, IsLocked, IsEmpty
  <2> QED  BY Zenon, <1>1, <2>2 DEF Cleared, WriteLocked, OnlyAt
<1> QED  BY Zenon, <1>5, <1>6, <1>7 DEF Given

(* The moves make an allocator from an allocator. *)
LEMMA MoveType ==
  ASSUME WellFormed(block), NEW r \in Allocator, NEW to \in HostLoc, NEW from \in HostLoc
  PROVE  Move(r, to, from) \in Allocator /\ (Move(r, to, from).ok => r.ok)
<1> DEFINE i == r.info[from]
           P == IsEmpty(r, to) /\ ~IsLocked(r, from) /\ i.width <= HostLocBitWidth(to)
           c == Asserting(r, P)
           e == EmitMove(c, i.width, to, from)
           q == [e EXCEPT !.info[to] = i, !.info[from] = NoInfo]
<1>1. c \in Allocator /\ (c.ok => r.ok)
  BY Zenon, AssertingFacts
<1>2. i \in LocInfo /\ i.width \in {0, 32, 64, 128} /\ NoInfo \in LocInfo
  BY DEF Allocator, LocInfo, NoInfo
<1>3. Move(r, to, from) = IF IsEmpty(r, from) THEN c ELSE q
  BY Zenon DEF Move
<1> HIDE DEF c, i
<1>4. Copied(c, e, i.width, to, from)
  BY <1>1, <1>2, EmitMoveFacts
<1> HIDE DEF e
<1>6. q = [e EXCEPT !.info[to] = i, !.info[from] = NoInfo]
  BY Zenon
<1> HIDE DEF q
<1>5. q \in Allocator /\ (q.ok => c.ok)
  <2>1. e.info \in [HostLoc -> LocInfo] /\ e.content \in [HostLoc -> SUBSET (Nat \X Nat)] /\ e.ok \in BOOLEAN
    BY Zenon, <1>4 DEF Copied, Allocator
  <2>2. /\ q = [info |-> q.info, content |-> q.content, ok |-> q.ok]
        /\ q.info = [e.info EXCEPT ![to] = i, ![from] = NoInfo] /\ q.content = e.content /\ q.ok = e.ok
    BY Zenon, <1>4, <1>6 DEF Copied, Allocator
  <2>3. q.info \in [HostLoc -> LocInfo]
    BY <1>2, <2>1, <2>2
  <2>4. q \in Allocator
    BY Zenon, <2>1, <2>2, <2>3 DEF Allocator
  <2> QED  BY Zenon, <1>4, <2>2, <2>4 DEF Copied
<1> QED  BY Zenon, <1>1, <1>3, <1>5

(* Exchange as well. *)
LEMMA ExchangeType ==
  ASSUME WellFormed(block), NEW r \in Allocator, NEW a \in HostLoc, NEW b \in HostLoc
  PROVE  Exchange(r, a, b) \in Allocator
<1> DEFINE P == /\ ~IsLocked(r, a) /\ ~IsLocked(r, b)
                /\ r.info[a].width <= HostLocBitWidth(b)
                /\ r.info[b].width <= HostLocBitWidth(a)
           c == Asserting(r, P)
           q == [c EXCEPT !.content[a] = r.content[b], !.content[b] = r.content[a],
                          !.info[a] = r.info[b], !.info[b] = r.info[a]]
           ci == [c.info EXCEPT ![a] = r.info[b], ![b] = r.info[a]]
           cc == [c.content EXCEPT ![a] = r.content[b], ![b] = r.content[a]]
<1>1. c \in Allocator /\ c.info = r.info /\ c.content = r.content
  BY Zenon, AssertingFacts
<1>2. Exchange(r, a, b) = IF IsEmpty(r, a) THEN Move(c, a, b) ELSE IF IsEmpty(r, b) THEN Move(c, b, a) ELSE q
  BY Zenon DEF Exchange
<1> HIDE DEF c
<1>3. Move(c, a, b) \in Allocator /\ Move(c, b, a) \in Allocator
  BY Zenon, <1>1, MoveType
<1>4. c.info \in [HostLoc -> LocInfo] /\ c.content \in [HostLoc -> SUBSET (Nat \X Nat)] /\ c.ok \in BOOLEAN
  BY Zenon, <1>1 DEF Allocator
<1>5. ci \in [HostLoc -> LocInfo] /\ cc \in [HostLoc -> SUBSET (Nat \X Nat)]
  BY Zenon, <1>1, <1>4
<1>6. /\ q = [info |-> q.info, content |-> q.content, ok |-> q.ok]
      /\ q.info = ci /\ q.content = cc /\ q.ok = c.ok
  <2>1. q = [c EXCEPT !.content[a] = r.content[b], !.content[b] = r.content[a],
                      !.info[a] = r.info[b], !.info[b] = r.info[a]]
    BY Zenon
  <2> HIDE DEF q
  <2> QED  BY Zenon, <1>1, <2>1 DEF Allocator
<1> HIDE DEF ci, cc, q
<1>7. q \in Allocator
  BY Zenon, <1>4, <1>5, <1>6 DEF Allocator
<1> QED  BY Zenon, <1>2, <1>3, <1>7

(* MoveOutOfTheWay as well. *)
LEMMA MoveOutOfTheWayType ==
  ASSUME WellFormed(block), NEW r \in Allocator, NEW l \in HostLoc
  PROVE  MoveOutOfTheWay(r, l) \in Allocator
<1> DEFINE free == {s \in Spill : IsEmpty(r, s)}
           u == Asserting(r, ~IsLocked(r, l))
           s0 == CHOOSE s \in free : \A t \in free : s <= t
<1>1. u \in Allocator /\ Asserting(u, FALSE) \in Allocator
  BY Zenon, AssertingFacts
<1>2. MoveOutOfTheWay(r, l)
        = IF IsEmpty(r, l) THEN u ELSE IF free = {} THEN Asserting(u, FALSE) ELSE Move(u, s0, l)
  BY Zenon DEF MoveOutOfTheWay
<1>3. ASSUME free # {}  PROVE s0 \in HostLoc
  <2>1. Spill \subseteq Nat
    BY HostAssumption DEF Spill
  <2>2. \E s \in free : \A t \in free : s <= t
    BY Zenon, <1>3, <2>1, FirstExists
  <2>3. s0 \in free
    BY Zenon, <2>2
  <2> QED  BY Zenon, <2>3 DEF HostLoc
<1> HIDE DEF u, s0
<1>4. free # {} => Move(u, s0, l) \in Allocator
  BY <1>1, <1>3, MoveType
<1> QED  BY Zenon, <1>1, <1>2, <1>4

(* A register is selected among those asked for that are not locked. *)
LEMMA SelectFacts ==
  ASSUME NEW r, NEW desired, NEW l \in SelectARegister(r, desired)
  PROVE  l \in desired /\ ~IsLocked(r, l)
  BY Zenon DEF SelectARegister

(* ScratchImpl takes an emptied register. *)
LEMMA ScratchTakes ==
  ASSUME NEW r, NEW pending, NEW handles, NEW args, Sound(r, pending, handles, args),
         NEW desired, desired \subseteq GPR \cup XMM, NEW o \in ScratchImpl(r, desired), o[1].ok
  PROVE  o[2] \in desired /\ TakenAt(r, o[1], o[2], pending, handles, args)
<1>1. PICK l \in SelectARegister(r, desired) : o = <<WriteLock(MoveOutOfTheWay(r, l), l), l>>
  BY DEF ScratchImpl
<1>2. l \in desired /\ l \in GPR \cup XMM /\ l \in HostLoc
  BY Zenon, SelectFacts DEF HostLoc
<1> DEFINE q == MoveOutOfTheWay(r, l)
           w == WriteLock(q, l)
<1>3. o[1] = w /\ o[2] = l
  BY Zenon, <1>1
<1>4. q \in Allocator
  BY Zenon, <1>2, MoveOutOfTheWayType DEF Sound, LocationsInv
<1> HIDE DEF q
<1>5. q.ok /\ WriteLocked(q, w, l)
  BY Zenon, <1>2, <1>3, <1>4, WriteLockFacts
<1>6. Sound(q, pending, handles, args) /\ Cleared(r, q, l)
  BY Zenon, <1>2, <1>5, SoundCleared DEF q
<1> HIDE DEF w
<1> QED  BY Zenon, <1>2, <1>3, <1>5, <1>6 DEF TakenAt

(* An immediate is loaded into a taken register. *)
LEMMA LoadImmediateTakes ==
  ASSUME NEW r, NEW pending, NEW handles, NEW args, Sound(r, pending, handles, args),
         NEW desired, desired \subseteq GPR \cup XMM, NEW o \in LoadImmediate(r, desired), o[1].ok
  PROVE  /\ o[2] \in desired /\ TakenAt(r, o[1], o[2], pending, handles, args)
         /\ HasBits(o[1], o[2], Imm)
<1>1. PICK p \in ScratchImpl(r, desired) : o = <<Write(p[1], p[2], Imm), p[2]>>
  BY Zenon DEF LoadImmediate
<1> DEFINE x == p[1]
           d == p[2]
           y == Write(x, d, Imm)
<1>2. o[1] = y /\ o[2] = d
  BY Zenon, <1>1
<1>3. x \in Allocator /\ d \in desired
  <2>1. PICK l \in SelectARegister(r, desired) : p = <<WriteLock(MoveOutOfTheWay(r, l), l), l>>
    BY Zenon DEF ScratchImpl
  <2>2. l \in desired /\ l \in HostLoc
    BY Zenon, SelectFacts DEF HostLoc
  <2>3. MoveOutOfTheWay(r, l) \in Allocator
    BY Zenon, <2>2, MoveOutOfTheWayType DEF Sound, LocationsInv
  <2>4. WriteLock(MoveOutOfTheWay(r, l), l) \in Allocator
    BY Zenon, <2>2, <2>3, WriteLockFacts DEF WriteLocked, OnlyAt
  <2> QED  BY Zenon, <2>1, <2>2, <2>4
<1>4. d \in HostLoc /\ WellFormed(block) /\ Imm \in 0..Len(block)
  BY <1>3, BlockFacts DEF HostLoc, Sound, Imm
<1> HIDE DEF x, d
<1>5. Refilled(x, y, d) /\ HasBits(y, d, Imm) /\ y.ok = x.ok
  BY <1>3, <1>4, WriteFacts
<1> HIDE DEF y
<1>6. x.ok
  BY Zenon, <1>2, <1>5
<1>7. TakenAt(r, x, d, pending, handles, args)
  BY Zenon, <1>6, ScratchTakes DEF x, d
<1>8. TakenAt(r, y, d, pending, handles, args)
  BY Zenon, <1>5, <1>7, TakenRefilled
<1> QED  BY Zenon, <1>2, <1>3, <1>5, <1>8

(* A live value is at its location. *)
LEMMA LocationOf ==
  ASSUME NEW r, NEW v, IsValueLive(r, v)
  PROVE  ValueLocation(r, v) \in HostLoc /\ v \in r.info[ValueLocation(r, v)].values
  BY Zenon DEF IsValueLive, ValueLocation, ValueLocations

(* An argument that is still to be taken has all its bits where it is, and *)
(* no emitter may write there.                                             *)
LEMMA WaitingHasBits ==
  ASSUME NEW r, NEW pending, NEW handles, NEW args, Sound(r, pending, handles, args),
         NEW k \in args, NEW l \in HostLoc, Arg(pos, k) \in r.info[l].values
  PROVE  HasBits(r, l, Arg(pos, k)) /\ ~r.info[l].last_use /\ ~r.info[l].scratch /\ ~IsEmpty(r, l)
<1>1. LocationInv(r, l, pos + 1, pending) /\ LockInv(r, l, handles, args)
  BY Zenon, SoundLocation
<1>2. Arg(pos, k) \notin Results /\ Arg(pos, k) \in Nat /\ Arg(pos, k) < pos
  BY Zenon, SoundArgument
<1>3. Arg(pos, k) \notin pending
  BY <1>2 DEF Sound
<1>4. ~r.info[l].last_use
  BY Zenon, <1>1 DEF LockInv, Waiting
<1>5. HasBits(r, l, Arg(pos, k))
  BY Zenon, <1>1, <1>3, <1>4 DEF LocationInv
<1>6. ~r.info[l].scratch
  BY Zenon, <1>1, <1>2, <1>4 DEF LocationInv
<1> QED  BY Zenon, <1>4, <1>5, <1>6 DEF IsEmpty

(* The register a call has led to. *)
LEMMA HandleFacts ==
  ASSUME NEW k \in Int, NEW d \in HostLoc, NEW b \in BOOLEAN, NEW v \in Int,
         NEW h, h = [arg |-> k, loc |-> d, write |-> b, val |-> v]
  PROVE  h \in Handles /\ h.arg = k /\ h.loc = d /\ h.write = b /\ h.val = v
  BY Zenon DEF Handles

(* On the last use of its value a location is given as it is. *)
LEMMA LastUseGiven ==
  ASSUME NEW r, NEW pending, NEW handles, NEW args, Sound(r, pending, handles, args),
         NEW h \in Handles, h.write, h.arg \in args, h.val = Arg(pos, h.arg),
         Arg(pos, h.arg) \in r.info[h.loc].values, ~IsLocked(r, h.loc), IsLastUse(r, h.loc),
         NEW w, w = WriteLock([r EXCEPT !.info[h.loc].last_use = TRUE], h.loc)
  PROVE  Given(r, w, h, pending, handles, args)
<1> DEFINE l == h.loc
           i == r.info[l]
           j == [i EXCEPT !.last_use = TRUE]
           x == [r EXCEPT !.info[l].last_use = TRUE]
<1>1. l \in HostLoc /\ r \in Allocator
  BY Zenon DEF Handles, Sound, LocationsInv
<1>2. i \in LocInfo /\ r.info \in [HostLoc -> LocInfo]
  BY Zenon, <1>1 DEF Allocator
<1>3. j \in LocInfo /\ j.last_use /\ j.used = i.used /\ j.scratch = i.scratch /\ SameUses(i, j)
  BY Zenon, <1>2 DEF LocInfo, SameUses
<1>4. /\ x.info = [r.info EXCEPT ![l] = j] /\ x.content = r.content /\ x.ok = r.ok
      /\ x = [info |-> x.info, content |-> x.content, ok |-> x.ok]
  <2>1. x = [r EXCEPT !.info[l].last_use = TRUE]
    BY Zenon
  <2> HIDE DEF x
  <2> QED  BY Zenon, <1>1, <1>2, <2>1 DEF Allocator
<1> HIDE DEF j
<1>5. x.info \in [HostLoc -> LocInfo] /\ x.info[l] = j /\ \A m \in HostLoc \ {l} : x.info[m] = r.info[m]
  BY Zenon, <1>1, <1>2, <1>3, <1>4
<1>6. x \in Allocator
  BY Zenon, <1>1, <1>4, <1>5 DEF Allocator
<1>7. w = WriteLock(x, l)
  BY Zenon
<1> HIDE DEF x
<1>8. WriteLocked(x, w, l) /\ \A m \in HostLoc : w.content[m] = x.content[m]
  BY <1>1, <1>6, <1>7, WriteLockFacts
<1>9. OnlyAt(r, w, l)
  BY Zenon, <1>4, <1>5, <1>8 DEF WriteLocked, OnlyAt
<1>10. w.info[l].scratch /\ w.info[l].used = 1 /\ w.info[l].last_use /\ SameUses(i, w.info[l])
  <2>1. i.used = 0
    BY Zenon DEF IsLastUse
  <2>2. x.info[l] = j /\ j.used = 0 /\ j.last_use /\ SameUses(i, j)
    BY Zenon, <1>3, <1>5, <2>1
  <2>3. /\ w.info[l].scratch /\ w.info[l].used = j.used + 1 /\ w.info[l].last_use = j.last_use
        /\ SameUses(j, w.info[l])
    BY Zenon, <1>8, <2>2 DEF WriteLocked
  <2> HIDE DEF i
  <2>4. SameUses(i, w.info[l])
    BY Zenon, <2>2, <2>3 DEF SameUses
  <2>5. w.info[l].used = 1
    BY <2>2, <2>3
  <2>6. w.info[l].last_use
    BY <2>2, <2>3, Zenon
  <2> QED  BY Zenon, <2>3, <2>4, <2>5, <2>6
<1>11. HasBits(w, l, h.val)
  <2>1. HasBits(r, l, Arg(pos, h.arg))
    BY <1>1, WaitingHasBits
  <2> QED  BY Zenon, <1>1, <1>4, <1>8, <2>1 DEF HasBits
<1>12. LockedToWrite(r, w, h, args)
  BY Zenon, <1>1, <1>9, <1>10, <1>11 DEF LockedToWrite
<1> QED  BY Zenon, <1>12, GivenToWrite

(* A value is copied to an emptied register. *)
LEMMA CopyGiven ==
  ASSUME NEW r, NEW pending, NEW handles, NEW args, Sound(r, pending, handles, args),
         NEW h \in Handles, h.write, h.arg \in args, h.val = Arg(pos, h.arg), h.loc \in GPR \cup XMM,
         NEW l \in HostLoc, l # h.loc, Arg(pos, h.arg) \in r.info[l].values, Arg(pos, h.arg) # Imm,
         NEW q, q = MoveOutOfTheWay(r, h.loc), NEW e, e = CopyToScratch(q, Width(h.val), h.loc, l),
         NEW w, w = WriteLock(e, h.loc), w.ok
  PROVE  Given(r, w, h, pending, handles, args)
<1> DEFINE d == h.loc
           v == h.val
           c == Asserting(q, IsEmpty(q, d) /\ ~IsEmpty(q, l))
<1>1. d \in HostLoc /\ r \in Allocator /\ WellFormed(block)
  BY Zenon DEF Handles, Sound, LocationsInv
<1>2. q \in Allocator
  BY Zenon, <1>1, MoveOutOfTheWayType
<1>3. c \in Allocator /\ c.info = q.info /\ c.content = q.content /\ (c.ok => q.ok)
  BY Zenon, <1>2, AssertingFacts
<1>4. e = EmitMove(c, Width(v), d, l)
  BY Zenon DEF CopyToScratch
<1> HIDE DEF c
<1>5. v \in 1..Len(block)
  BY Zenon, SoundArgument
<1>6. Width(v) \in {0, 32, 64, 128}
  BY Zenon, <1>1, <1>5, WidthFacts
<1> HIDE DEF d, v
<1>7. Copied(c, e, Width(v), d, l)
  BY <1>1, <1>3, <1>4, <1>6, EmitMoveFacts
<1>8. WriteLocked(e, w, d) /\ (w.ok => e.ok) /\ \A m \in HostLoc : w.content[m] = e.content[m]
  BY <1>1, <1>7, WriteLockFacts DEF Copied, d
<1>9. q.ok
  BY Zenon, <1>3, <1>7, <1>8 DEF Copied
<1>10. Sound(q, pending, handles, args) /\ Cleared(r, q, d)
  BY Zenon, <1>9, SoundCleared DEF d
<1>11. WriteLocked(q, w, d)
  <2>1. e.info[d] = q.info[d] /\ \A m \in HostLoc \ {d} : e.info[m] = q.info[m] /\ e.content[m] = q.content[m]
    BY Zenon, <1>3, <1>7 DEF Copied
  <2>2. OnlyAt(q, w, d)
    <3>1. OnlyAt(e, w, d)
      BY <1>8, Zenon DEF WriteLocked
    <3>2. w \in Allocator /\ \A m \in HostLoc \ {d} : w.info[m] = e.info[m] /\ w.content[m] = e.content[m]
      BY <3>1, Zenon DEF OnlyAt
    <3>3. ASSUME NEW m \in HostLoc \ {d}  PROVE w.info[m] = q.info[m] /\ w.content[m] = q.content[m]
      BY <2>1, <3>2
    <3> QED  BY Zenon, <3>2, <3>3 DEF OnlyAt
  <2> QED  BY Zenon, <1>8, <2>1, <2>2 DEF WriteLocked
<1>12. TakenAt(r, w, d, pending, handles, args)
  BY Zenon, <1>10, <1>11 DEF TakenAt, d
<1>13. HasBits(w, d, v)
  <2>1. HasBits(r, l, v) /\ ~IsEmpty(r, l)
    BY Zenon, WaitingHasBits DEF v
  <2>2. HasBits(c, l, v)
    BY <1>3, <1>10, <2>1 DEF Cleared, HasBits, d
  <2>3. HasBits(e, d, v)
    BY <1>5, <1>6, <1>7, <2>2 DEF Copied
  <2> QED  BY Zenon, <1>1, <1>8, <2>3 DEF HasBits
<1> QED  BY Zenon, <1>12, <1>13, TakenGiven DEF d, v

(* h is a register among those asked for. *)
GivenFrom(r, o, h, desired, pending, handles, args) ==
  o[2] \in desired /\ h \in Handles /\ h.loc = o[2] /\ Given(r, o[1], h, pending, handles, args)

(* UseScratchImpl gives a register with the argument, to be written. *)
LEMMA UseScratchGiven ==
  ASSUME NEW r, NEW pending, NEW handles, NEW args, Sound(r, pending, handles, args),
         NEW k \in args, NEW desired, desired \subseteq GPR \cup XMM,
         NEW o \in UseScratchImpl(r, Arg(pos, k), desired), o[1].ok,
         NEW h, h = Handle(k, o, TRUE, Arg(pos, k))
  PROVE  GivenFrom(r, o, h, desired, pending, handles, args)
<1> DEFINE v == Arg(pos, k)
           l == ValueLocation(r, v)
<1>1. /\ k \in Int /\ v \in Int /\ v \in Nat
      /\ v # Imm => IsValueLive(r, v)
  BY SoundArgument
<1>2. ASSUME o[2] \in desired
      PROVE  h \in Handles /\ h.arg = k /\ h.loc = o[2] /\ h.write /\ h.val = v
  <2>1. o[2] \in HostLoc
    BY Zenon, <1>2 DEF HostLoc
  <2> HIDE DEF v
  <2>2. h = Handle(k, o, TRUE, v)
    BY Zenon DEF v
  <2> QED  BY <1>1, <2>1, <2>2 DEF Handle, Handles
<1>3. CASE v = Imm
  <2>1. o \in LoadImmediate(r, desired)
    BY Zenon, <1>3 DEF UseScratchImpl
  <2>2. o[2] \in desired /\ TakenAt(r, o[1], o[2], pending, handles, args) /\ HasBits(o[1], o[2], Imm)
    BY Zenon, <2>1, LoadImmediateTakes
  <2>3. h \in Handles /\ h.arg = k /\ h.loc = o[2] /\ h.write /\ h.val = v
    BY Zenon, <1>2, <2>2
  <2>4. Given(r, o[1], h, pending, handles, args)
    BY Zenon, <1>3, <2>2, <2>3, TakenGiven
  <2> QED  BY Zenon, <2>2, <2>3, <2>4 DEF GivenFrom
<1>4. ASSUME v # Imm  PROVE l \in HostLoc /\ v \in r.info[l].values
  <2> HIDE DEF v
  <2> QED  BY Zenon, <1>1, <1>4, LocationOf
<1>5. CASE v # Imm /\ l \in desired /\ ~IsLocked(r, l) /\ IsLastUse(r, l)
  <2> DEFINE x == [r EXCEPT !.info[l].last_use = TRUE]
             w == WriteLock(x, l)
  <2>1. o = <<w, l>>
    BY Zenon, <1>5 DEF UseScratchImpl
  <2>2. o[1] = w /\ o[2] = l
    BY Zenon, <2>1
  <2>3. h \in Handles /\ h.arg = k /\ h.loc = l /\ h.write /\ h.val = v
    BY Zenon, <1>2, <1>5, <2>2
  <2>4. w = WriteLock([r EXCEPT !.info[h.loc].last_use = TRUE], h.loc)
    BY Zenon, <2>3
  <2> HIDE DEF w, l
  <2>5. Given(r, w, h, pending, handles, args)
    BY Zenon, <1>4, <1>5, <2>3, <2>4, LastUseGiven
  <2> QED  BY Zenon, <1>5, <2>2, <2>3, <2>5 DEF GivenFrom
<1>6. CASE v # Imm /\ l \in desired /\ ~IsLocked(r, l) /\ ~IsLastUse(r, l)
  <2> DEFINE q == MoveOutOfTheWay(r, l)
             w == WriteLock(q, l)
  <2>1. o = <<w, l>>
    BY Zenon, <1>6 DEF UseScratchImpl
  <2>2. o[1] = w /\ o[2] = l /\ l \in HostLoc /\ l \in GPR \cup XMM
    BY Zenon, <1>6, <2>1 DEF HostLoc
  <2>3. h \in Handles /\ h.arg = k /\ h.loc = l /\ h.write /\ h.val = v
    BY Zenon, <1>2, <1>6, <2>2
  <2> HIDE DEF l
  <2>4. q \in Allocator
    BY Zenon, <2>2, MoveOutOfTheWayType DEF Sound, LocationsInv
  <2> HIDE DEF q
  <2>5. WriteLocked(q, w, l) /\ (w.ok => q.ok) /\ \A m \in HostLoc : w.content[m] = q.content[m]
    BY <2>2, <2>4, WriteLockFacts
  <2> HIDE DEF w
  <2>6. Sound(q, pending, handles, args) /\ Cleared(r, q, l)
    BY <2>2, <2>5, SoundCleared DEF q
  <2>7. TakenAt(r, w, l, pending, handles, args)
    BY Zenon, <2>2, <2>5, <2>6 DEF TakenAt
  <2>8. HasBits(w, l, v)
    <3>1. HasBits(r, l, v)
      BY Zenon, <1>4, <1>6, WaitingHasBits
    <3>2. w.content[l] = r.content[l]
      BY Zenon, <2>2, <2>5, <2>6 DEF Cleared
    <3> QED  BY Zenon, <3>1, <3>2 DEF HasBits
  <2>9. Given(r, w, h, pending, handles, args)
    BY Zenon, <2>3, <2>7, <2>8, TakenGiven
  <2> QED  BY Zenon, <1>6, <2>2, <2>3, <2>9 DEF GivenFrom
<1>7. CASE v # Imm /\ ~(l \in desired /\ ~IsLocked(r, l))
  <2>1. PICK d \in SelectARegister(r, desired) :
               o = <<WriteLock(CopyToScratch(MoveOutOfTheWay(r, d), Width(v), d, l), d), d>>
    BY Zenon, <1>7 DEF UseScratchImpl
  <2> DEFINE q == MoveOutOfTheWay(r, d)
             e == CopyToScratch(q, Width(v), d, l)
             w == WriteLock(e, d)
  <2>2. o[1] = w /\ o[2] = d
    BY Zenon, <2>1
  <2>3. d \in desired /\ ~IsLocked(r, d) /\ d # l /\ d \in GPR \cup XMM
    BY Zenon, <1>7, SelectFacts
  <2>4. h \in Handles /\ h.arg = k /\ h.loc = d /\ h.write /\ h.val = v
    BY Zenon, <1>2, <2>2, <2>3
  <2> HIDE DEF l
  <2>5. /\ q = MoveOutOfTheWay(r, h.loc) /\ e = CopyToScratch(q, Width(h.val), h.loc, l)
        /\ w = WriteLock(e, h.loc)
    BY Zenon, <2>4
  <2> HIDE DEF q, e, w, v
  <2>6. Given(r, w, h, pending, handles, args)
    <3>1. h.val = Arg(pos, h.arg) /\ Arg(pos, h.arg) = v
      BY Zenon, <2>4 DEF v
    <3>2. /\ h \in Handles /\ h.write /\ h.arg \in args /\ h.loc \in GPR \cup XMM /\ l \in HostLoc
          /\ l # h.loc /\ Arg(pos, h.arg) \in r.info[l].values /\ Arg(pos, h.arg) # Imm /\ w.ok
      BY Zenon, <1>4, <1>7, <2>2, <2>3, <2>4, <3>1
    <3> QED  BY Zenon, <2>5, <3>1, <3>2, CopyGiven
  <2> QED  BY Zenon, <2>2, <2>3, <2>4, <2>6 DEF GivenFrom
<1> QED  BY Zenon, <1>3, <1>5, <1>6, <1>7

(* ReadLock adds a reader to one location. *)
LEMMA ReadLockFacts ==
  ASSUME NEW q \in Allocator, NEW d \in HostLoc, NEW w, w = ReadLock(q, d)
  PROVE  /\ OnlyAt(q, w, d) /\ w.info[d] = [q.info[d] EXCEPT !.used = @ + 1] /\ w.content[d] = q.content[d]
         /\ w.info[d].scratch = q.info[d].scratch
         /\ w.ok => q.ok /\ ~q.info[d].scratch
<1> DEFINE c == Asserting(q, ~q.info[d].scratch)
           i == q.info[d]
           u == i.used + 1
           j == [i EXCEPT !.used = u]
<1>1. c \in Allocator /\ c.info = q.info /\ c.content = q.content /\ (c.ok <=> q.ok /\ ~q.info[d].scratch)
  BY Zenon, AssertingFacts
<1>2. w = [c EXCEPT !.info[d].used = @ + 1]
  BY Zenon DEF ReadLock
<1>3. q.info \in [HostLoc -> LocInfo] /\ i \in LocInfo
  BY Zenon DEF Allocator
<1>4. u \in Nat
  BY <1>3 DEF LocInfo
<1>5. j \in LocInfo /\ j.scratch = i.scratch
  BY Zenon, <1>3, <1>4 DEF LocInfo
<1> HIDE DEF c
<1>6. w.info = [c.info EXCEPT ![d] = j] /\ w.content = c.content /\ w.ok = c.ok
      /\ w = [info |-> w.info, content |-> w.content, ok |-> w.ok]
  <2>1. c.info \in [HostLoc -> LocInfo] /\ c.info[d] = i
    BY Zenon, <1>1 DEF Allocator
  <2>2. /\ w.info = [c.info EXCEPT ![d].used = @ + 1] /\ w.content = c.content /\ w.ok = c.ok
        /\ w = [info |-> w.info, content |-> w.content, ok |-> w.ok]
    BY Zenon, <1>1, <1>2 DEF Allocator
  <2>3. [c.info EXCEPT ![d].used = @ + 1] = [c.info EXCEPT ![d] = j]
    <3> HIDE DEF i
    <3> QED  BY Zenon, <2>1
  <2> QED  BY Zenon, <2>2, <2>3
<1>8. j = [i EXCEPT !.used = @ + 1]
  BY Zenon
<1> HIDE DEF j
<1>7. w.info \in [HostLoc -> LocInfo] /\ w.info[d] = j /\ \A m \in HostLoc \ {d} : w.info[m] = q.info[m]
  BY <1>1, <1>3, <1>5, <1>6
<1>9. w \in Allocator
  BY Zenon, <1>1, <1>6, <1>7 DEF Allocator
<1> QED  BY Zenon, <1>1, <1>5, <1>6, <1>7, <1>8, <1>9 DEF OnlyAt

(* A register that was given to be written is marked as such. *)
LEMMA GivenIsScratch ==
  ASSUME NEW r, NEW q, NEW h \in Handles, NEW pending, NEW handles, NEW args,
         Given(r, q, h, pending, handles, args), h.write
  PROVE  q.info[h.loc].scratch = TRUE /\ GivenToBeRead(r, q, h, pending, handles, args)
<1>1. Sound(q, pending, handles \cup {h}, args \ {h.arg})
  BY Zenon DEF Given
<1>2. HandleInv(q, h, handles \cup {h}, args \ {h.arg})
  BY Zenon, <1>1 DEF Sound, HandlesInv
<1>3. TypedInfo(q.info[h.loc])
  BY Zenon, <1>1, SoundLocation DEF Handles
<1>4. q.info[h.loc].scratch = TRUE
  BY Zenon, <1>2, <1>3 DEF HandleInv, TypedInfo
<1> QED  BY Zenon, <1>4 DEF Given, GivenToBeRead

(* An argument is read where it is. *)
LEMMA ReadGiven ==
  ASSUME NEW r, NEW pending, NEW handles, NEW args, Sound(r, pending, handles, args),
         NEW k \in args, NEW d \in HostLoc, Arg(pos, k) \in r.info[d].values,
         NEW w, w = ReadLock(r, d), w.ok,
         NEW h, h = [arg |-> k, loc |-> d, write |-> w.info[d].scratch, val |-> Arg(pos, k)]
  PROVE  GivenToBeRead(r, w, h, pending, handles, args)
<1>1. r \in Allocator
  BY Zenon DEF Sound, LocationsInv
<1>2. /\ OnlyAt(r, w, d) /\ w.info[d] = [r.info[d] EXCEPT !.used = @ + 1] /\ w.content[d] = r.content[d]
      /\ w.info[d].scratch = r.info[d].scratch /\ ~r.info[d].scratch
  BY <1>1, ReadLockFacts
<1>3. TypedInfo(r.info[d])
  BY Zenon, SoundLocation
<1>4. w.info[d].scratch = FALSE
  BY Zenon, <1>2, <1>3 DEF TypedInfo
<1>5. k \in Int /\ Arg(pos, k) \in Int
  BY SoundArgument
<1> DEFINE v == Arg(pos, k)
<1>6. h = [arg |-> k, loc |-> d, write |-> FALSE, val |-> v]
  BY Zenon, <1>4
<1> HIDE DEF v
<1>7. h \in Handles /\ h.arg = k /\ h.loc = d /\ ~h.write /\ h.val = v
  <2>1. v \in Int
    BY Zenon, <1>5 DEF v
  <2> DEFINE b == FALSE
  <2>2. b \in BOOLEAN /\ ~b
    BY Zenon
  <2>3. h = [arg |-> k, loc |-> d, write |-> b, val |-> v]
    BY Zenon, <1>6
  <2> HIDE DEF b
  <2>4. h \in Handles /\ h.arg = k /\ h.loc = d /\ h.write = b /\ h.val = v
    BY <1>5, <2>1, <2>2, <2>3, HandleFacts
  <2> QED  BY Zenon, <2>2, <2>4
<1>8. LockedToRead(r, w, h, args)
  BY Zenon, <1>2, <1>7 DEF LockedToRead, v
<1> QED  BY Zenon, <1>8, GivenToRead

(* q has brought what is in l to d. *)
Brought(r, q, d, l, pending, handles, args) ==
  Sound(q, pending, handles, args) /\ LiveKept(r, q) /\ q.info[d] = r.info[l]

(* A value is brought to a register by an exchange. *)
LEMMA ExchangeBrings ==
  ASSUME NEW r, NEW pending, NEW handles, NEW args, Sound(r, pending, handles, args),
         NEW d \in HostLoc, NEW l \in HostLoc, d # l, ~IsEmpty(r, l), NEW q, q = Exchange(r, d, l), q.ok
  PROVE  Brought(r, q, d, l, pending, handles, args)
<1>1. WellFormed(block) /\ pos \in 1..Len(block) /\ LocationsInv(r, pos + 1, pending) /\ HandlesInv(r, handles, args)
  BY Zenon DEF Sound
<1>2. Relocated(r, q, d, l) /\ q.info[d] = r.info[l]
  BY <1>1, ExchangeRelocates
<1>3. /\ LocationsInv(q, pos + 1, pending) /\ HandlesInv(q, handles, args)
      /\ \A v : IsValueLive(r, v) => IsValueLive(q, v)
  BY Zenon, <1>1, <1>2, RelocatedInv
<1> QED  BY Zenon, <1>2, <1>3 DEF Brought, Sound, LiveKept

(* Or by a move to a register that has been emptied. *)
LEMMA MoveBrings ==
  ASSUME NEW r, NEW pending, NEW handles, NEW args, Sound(r, pending, handles, args),
         NEW d \in GPR \cup XMM, NEW l \in HostLoc, d # l, ~IsEmpty(r, l),
         NEW e, e = MoveOutOfTheWay(r, d), NEW q, q = Move(e, d, l), q.ok
  PROVE  Brought(r, q, d, l, pending, handles, args)
<1>1. d \in HostLoc /\ r \in Allocator /\ WellFormed(block) /\ pos \in 1..Len(block)
  BY Zenon DEF HostLoc, Sound, LocationsInv
<1>2. e \in Allocator
  BY Zenon, <1>1, MoveOutOfTheWayType
<1>3. e.ok
  BY Zenon, <1>1, <1>2, MoveType
<1>4. Sound(e, pending, handles, args) /\ Cleared(r, e, d)
  BY Zenon, <1>3, SoundCleared
<1>5. ~IsEmpty(e, l) /\ e.info[l] = r.info[l] /\ LiveKept(r, e)
  BY Zenon, <1>4 DEF Cleared, IsEmpty
<1>6. LocationsInv(e, pos + 1, pending) /\ HandlesInv(e, handles, args)
  BY Zenon, <1>4 DEF Sound
<1>7. Relocated(e, q, d, l) /\ q.info[d] = e.info[l]
  BY <1>1, <1>5, <1>6, MoveRelocates
<1>8. /\ LocationsInv(q, pos + 1, pending) /\ HandlesInv(q, handles, args)
      /\ \A v : IsValueLive(e, v) => IsValueLive(q, v)
  BY Zenon, <1>1, <1>6, <1>7, RelocatedInv
<1>9. Sound(q, pending, handles, args)
  BY <1>4, <1>8 DEF Sound
<1>10. LiveKept(r, q)
  BY Zenon, <1>5, <1>8 DEF LiveKept
<1> QED  BY Zenon, <1>5, <1>7, <1>9, <1>10 DEF Brought

(* UseImpl gives a register with the argument: one that may only be read,  *)
(* unless the value had to be copied.                                      *)
LEMMA UseGiven ==
  ASSUME NEW r, NEW pending, NEW handles, NEW args, Sound(r, pending, handles, args),
         NEW k \in args, NEW desired, desired \subseteq GPR \cup XMM,
         NEW o \in UseImpl(r, Arg(pos, k), desired), o[1].ok,
         NEW h, h = Handle(k, o, o[1].info[o[2]].scratch, Arg(pos, k))
  PROVE  GivenToBeRead(r, o[1], h, pending, handles, args)
<1> DEFINE v == Arg(pos, k)
           l == ValueLocation(r, v)
           bring(d) == IF d \in GPR /\ l \in GPR THEN Exchange(r, d, l)
                       ELSE Move(MoveOutOfTheWay(r, d), d, l)
<1>1. h = [arg |-> k, loc |-> o[2], write |-> o[1].info[o[2]].scratch, val |-> v]
  BY Zenon DEF Handle
<1>2. v # Imm => l \in HostLoc /\ v \in r.info[l].values
  <2>1. v # Imm => IsValueLive(r, v)
    BY SoundArgument
  <2> HIDE DEF v
  <2> QED  BY Zenon, <2>1, LocationOf
<1>3. ASSUME o \in UseScratchImpl(r, v, desired)
      PROVE  GivenToBeRead(r, o[1], h, pending, handles, args)
  <2> DEFINE g == Handle(k, o, TRUE, v)
  <2>1. g \in Handles /\ g.loc = o[2] /\ Given(r, o[1], g, pending, handles, args)
    <3>1. g = Handle(k, o, TRUE, Arg(pos, k)) /\ o \in UseScratchImpl(r, Arg(pos, k), desired)
      BY <1>3
    <3> HIDE DEF g
    <3>2. GivenFrom(r, o, g, desired, pending, handles, args)
      BY Zenon, <3>1, UseScratchGiven
    <3> QED  BY Zenon, <3>2 DEF GivenFrom
  <2>2. g.write
    BY Zenon DEF Handle
  <2>3. o[1].info[o[2]].scratch = TRUE /\ GivenToBeRead(r, o[1], g, pending, handles, args)
    <3> HIDE DEF g
    <3> QED  BY Zenon, <2>1, <2>2, GivenIsScratch
  <2>4. h = g
    BY <2>3, Zenon
  <2> QED  BY <2>3, <2>4, Zenon
<1>4. CASE v = Imm
  <2>1. o \in UseScratchImpl(r, v, desired)
    BY Zenon, <1>4 DEF UseImpl, UseScratchImpl
  <2> QED  BY <1>3, <2>1
<1>5. CASE v # Imm /\ l \in desired
  <2> DEFINE w == ReadLock(r, l)
  <2>1. o = <<w, l>>
    BY <1>5 DEF UseImpl
  <2>2. o[1] = w /\ o[2] = l
    BY Zenon, <2>1
  <2> HIDE DEF w, l, v
  <2>3. h = [arg |-> k, loc |-> l, write |-> w.info[l].scratch, val |-> v] /\ w.ok
    BY Zenon, <1>1, <2>2
  <2>4. GivenToBeRead(r, w, h, pending, handles, args)
    BY Zenon, <1>2, <1>5, <2>3, ReadGiven DEF w, v
  <2> QED  BY Zenon, <2>2, <2>4
<1>6. CASE v # Imm /\ l \notin desired /\ IsLocked(r, l)
  BY Zenon, <1>3, <1>6 DEF UseImpl
<1>7. CASE v # Imm /\ l \notin desired /\ ~IsLocked(r, l)
  <2>1. PICK d \in SelectARegister(r, desired) :
               o \in IF r.info[l].width > HostLocBitWidth(d) THEN UseScratchImpl(r, v, desired)
                     ELSE {<<ReadLock(bring(d), d), d>>}
    BY Zenon, <1>7 DEF UseImpl
  <2>2. CASE o \in UseScratchImpl(r, v, desired)
    BY Zenon, <1>3, <2>2
  <2>3. CASE o = <<ReadLock(bring(d), d), d>>
    <3> DEFINE b == bring(d)
               w == ReadLock(b, d)
    <3>1. o[1] = w /\ o[2] = d
      BY Zenon, <2>3
    <3>2. d \in desired /\ d \in GPR \cup XMM /\ d \in HostLoc /\ d # l
      BY Zenon, <1>7, SelectFacts DEF HostLoc
    <3>3. ~IsEmpty(r, l) /\ l \in HostLoc /\ v \in r.info[l].values
      BY Zenon, <1>2, <1>7, WaitingHasBits
    <3>4. b = Exchange(r, d, l) \/ b = Move(MoveOutOfTheWay(r, d), d, l)
      BY Zenon
    <3> HIDE DEF b, l, v
    <3>5. b \in Allocator
      <4>1. r \in Allocator /\ WellFormed(block)
        BY Zenon DEF Sound, LocationsInv
      <4>2. Exchange(r, d, l) \in Allocator
        BY Zenon, <3>2, <3>3, <4>1, ExchangeType
      <4>3. MoveOutOfTheWay(r, d) \in Allocator
        BY Zenon, <3>2, <4>1, MoveOutOfTheWayType
      <4>4. Move(MoveOutOfTheWay(r, d), d, l) \in Allocator
        BY Zenon, <3>2, <3>3, <4>1, <4>3, MoveType
      <4> QED  BY Zenon, <3>4, <4>2, <4>4
    <3>6. w.ok /\ b.ok
      <4>1. w = ReadLock(b, d)
        BY Zenon
      <4> HIDE DEF w
      <4>2. w.ok => b.ok
        BY Zenon, <3>2, <3>5, <4>1, ReadLockFacts
      <4> QED  BY Zenon, <3>1, <4>2
    <3>7. Brought(r, b, d, l, pending, handles, args)
      <4>1. CASE b = Exchange(r, d, l)
        BY Zenon, <3>2, <3>3, <3>6, <4>1, ExchangeBrings
      <4>2. CASE b = Move(MoveOutOfTheWay(r, d), d, l)
        BY Zenon, <3>2, <3>3, <3>6, <4>2, MoveBrings
      <4> QED  BY <3>4, <4>1, <4>2
    <3>8. Sound(b, pending, handles, args) /\ LiveKept(r, b) /\ v \in b.info[d].values
      BY Zenon, <3>3, <3>7 DEF Brought
    <3> HIDE DEF w
    <3>9. h = [arg |-> k, loc |-> d, write |-> w.info[d].scratch, val |-> v]
      BY Zenon, <1>1, <3>1
    <3>10. GivenToBeRead(b, w, h, pending, handles, args)
      BY Zenon, <3>2, <3>6, <3>8, <3>9, ReadGiven DEF w, v
    <3>11. GivenToBeRead(r, w, h, pending, handles, args)
      BY Zenon, <3>8, <3>10 DEF GivenToBeRead, LiveKept
    <3> QED  BY Zenon, <3>1, <3>11
  <2> QED  BY Zenon, <2>1, <2>2, <2>3
<1> QED  BY Zenon, <1>4, <1>5, <1>6, <1>7

----------------------------------------------------------------------------
(* Definitions.                                                            *)

(* q is r with the value v defined in l. *)
Defined(r, q, l, v) ==
  /\ OnlyAt(r, q, l) /\ q.content[l] = r.content[l]
  /\ q.info[l].values = (IF r.info[l].last_use THEN {} ELSE r.info[l].values) \cup {v}
  /\ q.info[l].last_use = FALSE /\ q.info[l].scratch = r.info[l].scratch
  /\ q.info[l].used = r.info[l].used /\ q.info[l].refs = r.info[l].refs /\ q.info[l].acc = r.info[l].acc
  /\ q.info[l].total = r.info[l].total + Cardinality(UsesFrom({v}, pos + 1))
  /\ q.info[l].width = Larger(r.info[l].width, Width(v))
  /\ q.ok => r.ok /\ ~IsValueLive(r, v)

(* The results of an instruction come from it on. *)
LEMMA ResultFacts ==
  ASSUME WellFormed(block), pos \in 1..Len(block), NEW v \in Results
  PROVE  v \in 1..Len(block) /\ v >= pos
<1>1. /\ Len(block) \in Nat
      /\ \A i \in 1..Len(block) :
           /\ \A j \in 1..Len(block[i].args) : Arg(i, j) \in Nat /\ Arg(i, j) < i
           /\ block[i].kind \in {"pseudo", "nz", "id"} => Len(block[i].args) = 1
  BY BlockFacts, Zenon
<1>2. CASE v = pos
  BY <1>1, <1>2
<1>3. CASE v \in PseudosOf(pos)
  <2>1. v \in 1..Len(block) /\ Len(block[v].args) = 1 /\ Arg(v, 1) = pos
    BY <1>1, <1>3 DEF PseudosOf
  <2>2. 1 \in 1..1
    OBVIOUS
  <2>3. pos < v
    BY Zenon, <1>1, <2>1, <2>2
  <2> QED  BY <1>1, <2>1, <2>3
<1> QED  BY <1>2, <1>3 DEF Results

(* DefineValueImpl adds a value and its uses to a location. *)
LEMMA DefineFacts ==
  ASSUME WellFormed(block), pos \in 1..Len(block), NEW r \in Allocator, NEW l \in HostLoc, NEW v \in Results,
         NEW q, q = DefineValueImpl(r, v, l)
  PROVE  Defined(r, q, l, v)
<1> DEFINE c == Asserting(r, ~IsValueLive(r, v))
           i == r.info[l]
           vs == (IF i.last_use THEN {} ELSE i.values) \cup {v}
           t == i.total + UseCount(v)
           w == Larger(i.width, Width(v))
           j == [i EXCEPT !.values = vs, !.last_use = FALSE, !.total = t, !.width = w]
<1>1. c \in Allocator /\ c.info = r.info /\ c.content = r.content /\ (c.ok <=> r.ok /\ ~IsValueLive(r, v))
  BY Zenon, AssertingFacts
<1>2. r.info \in [HostLoc -> LocInfo] /\ i \in LocInfo
  BY Zenon DEF Allocator
<1>3. v \in 1..Len(block) /\ v >= pos /\ pos + 1 \in Nat /\ Len(block) \in Nat
  BY ResultFacts, BlockFacts
<1>4. UseCount(v) = Cardinality(UsesFrom({v}, pos + 1)) /\ UseCount(v) \in Nat
  <2>1. UsesOf(v) = UsesFrom({v}, pos + 1)
    BY <1>3, UsesAfter
  <2>2. Cardinality(UsesFrom({v}, pos + 1)) \in Nat
    BY Zenon, <1>3, UsesFinite
  <2> QED  BY Zenon, <2>1, <2>2 DEF UseCount
<1>5. vs \in SUBSET (1..Len(block)) /\ t \in Nat /\ w \in {0, 32, 64, 128}
  <2>1. i.values \subseteq 1..Len(block) /\ i.total \in Nat /\ i.width \in {0, 32, 64, 128}
    BY Zenon, <1>2 DEF LocInfo
  <2>2. Width(v) \in {0, 32, 64, 128}
    BY Zenon, <1>3, WidthFacts
  <2> HIDE DEF i
  <2> QED  BY <1>3, <1>4, <2>1, <2>2 DEF Larger
<1>6. q = [c EXCEPT !.info[l].values = (IF c.info[l].last_use THEN {} ELSE @) \cup {v},
                    !.info[l].last_use = FALSE,
                    !.info[l].total = @ + UseCount(v),
                    !.info[l].width = Larger(@, Width(v))]
  BY Zenon DEF DefineValueImpl, AddValue
<1> HIDE DEF c
<1>7. /\ q.info = [c.info EXCEPT ![l].values = (IF c.info[l].last_use THEN {} ELSE @) \cup {v},
                                 ![l].last_use = FALSE,
                                 ![l].total = @ + UseCount(v),
                                 ![l].width = Larger(@, Width(v))]
      /\ q.content = c.content /\ q.ok = c.ok
      /\ q = [info |-> q.info, content |-> q.content, ok |-> q.ok]
  BY Zenon, <1>1, <1>6 DEF Allocator
<1>8. q.info = [c.info EXCEPT ![l] = j]
  <2>1. c.info \in [HostLoc -> LocInfo] /\ c.info[l] = i
    BY <1>1 DEF Allocator
  <2> HIDE DEF i
  <2> QED  BY Zenon, <1>2, <1>7, <2>1 DEF LocInfo
<1>9. j.values = vs /\ j.last_use = FALSE /\ j.total = t /\ j.width = w
      /\ j.used = i.used /\ j.scratch = i.scratch /\ j.refs = i.refs /\ j.acc = i.acc
  <2> HIDE DEF i, vs, t, w
  <2> QED  BY <1>2 DEF LocInfo
<1>10. j \in LocInfo
  <2> HIDE DEF i, vs, t, w
  <2> QED  BY <1>2, <1>5, Zenon DEF LocInfo
<1> HIDE DEF j
<1>11. q.info \in [HostLoc -> LocInfo] /\ q.info[l] = j /\ \A m \in HostLoc \ {l} : q.info[m] = r.info[m]
  BY <1>1, <1>2, <1>8, <1>10
<1>12. q \in Allocator
  BY Zenon, <1>1, <1>7, <1>11 DEF Allocator
<1>13. OnlyAt(r, q, l) /\ q.content[l] = r.content[l] /\ (q.ok => r.ok /\ ~IsValueLive(r, v))
  BY Zenon, <1>1, <1>7, <1>11, <1>12 DEF OnlyAt
<1> HIDE DEF w
<1> QED  BY <1>4, <1>9, <1>11, <1>13 DEF Defined, w

(* Values that are used from n on stay somewhere. *)
NeededKept(r, q, n) ==
  \A v : IsValueLive(r, v) /\ UsesFrom({v}, n) # {} => IsValueLive(q, v)

(* Nothing is lost with values that have no uses to come. *)
LEMMA NoUsesOf ==
  ASSUME WellFormed(block), NEW n \in Nat, NEW S, Cardinality(UsesFrom(S, n)) = 0, NEW v \in S
  PROVE  UsesFrom({v}, n) = {}
<1>1. UsesFrom(S, n) = {}
  BY UsesFinite, BlockFacts
<1> QED  BY Zenon, <1>1 DEF UsesFrom

(* Fewer arguments to take ask for less. *)
LEMMA SoundFewer ==
  ASSUME NEW r, NEW pending, NEW handles, NEW args, NEW args2, args2 \subseteq args,
         Sound(r, pending, handles, args)
  PROVE  Sound(r, pending, handles, args2)
<1>1. \A l \in HostLoc : LockInv(r, l, handles, args2)
  <2>1. SUFFICES ASSUME NEW l \in HostLoc  PROVE LockInv(r, l, handles, args2)
    BY Zenon
  <2>2. TypedInfo(r.info[l]) /\ LockInv(r, l, handles, args)
    BY Zenon, SoundLocation
  <2>3. r.info[l] = r.info[l] /\ Reading(l, handles) \subseteq Reading(l, handles)
    BY Zenon
  <2> QED  BY Zenon, <2>2, <2>3, LockKept
<1>2. \A h \in handles : HandleInv(r, h, handles, args2)
  BY Zenon DEF Sound, HandlesInv, HandleInv
<1> QED  BY Zenon, <1>1, <1>2 DEF Sound, HandlesInv

(* What an emitter holds once v is defined in the location l it may write. *)
DefinedHandle(x, g, l, handles) ==
  \/ g \in handles /\ g.loc # l
  \/ /\ g \in Handles /\ g.loc = l /\ g.write /\ g.arg < 0
     /\ g.val # None => HasBits(x, l, g.val)

(* v is defined in l, and the values that are needed are kept. *)
DefinedIn(r, x, l, v, pending, handles, args) ==
  /\ Sound(x, pending, handles, args) /\ IsValueLive(x, v)
  /\ NeededKept(r, x, pos + 1) /\ x.info[l].values = {v}

(* A result is defined in a location that may be written: the value given  *)
(* up there had no uses to come.                                           *)
LEMMA DefinedInScratch ==
  ASSUME NEW r, NEW pending, NEW handles, NEW args, Sound(r, pending, handles, args),
         NEW l \in HostLoc, NEW v \in Results, NEW q, Defined(r, q, l, v), q.ok, NEW x, Refilled(q, x, l),
         r.info[l].scratch, r.info[l].last_use \/ r.info[l].values = {}, Reading(l, handles) = {},
         NEW pending2, pending \subseteq pending2, pending2 \subseteq {pos}, v \in pending2 \/ HasBits(x, l, v),
         NEW handles2, \A g \in handles2 : DefinedHandle(x, g, l, handles),
         \A g, h \in handles2 : g.loc = l /\ h.loc = l => g = h
  PROVE  DefinedIn(r, x, l, v, pending2, handles2, args)
<1> DEFINE i == r.info[l]
           j == x.info[l]
           n == pos + 1
<1>1. WellFormed(block) /\ pos \in 1..Len(block) /\ n \in Nat /\ Len(block) \in Nat
  BY BlockFacts DEF Sound
<1>2. TypedInfo(i) /\ LocationInv(r, l, n, pending) /\ LockInv(r, l, handles, args)
  BY Zenon, SoundLocation
<1>3. v \in 1..Len(block) /\ v >= pos
  BY Zenon, <1>1, ResultFacts
<1>4. /\ j.values = {v} /\ j.last_use = FALSE /\ j.scratch = i.scratch /\ j.used = i.used
      /\ j.refs = i.refs /\ j.acc = i.acc /\ j.total = i.total + Cardinality(UsesFrom({v}, n))
      /\ j.width = Larger(i.width, Width(v)) /\ ~IsValueLive(r, v)
  BY Zenon DEF Defined, Refilled
<1>5. x \in Allocator /\ \A m \in HostLoc \ {l} : x.info[m] = r.info[m] /\ x.content[m] = r.content[m]
  BY Zenon DEF Defined, Refilled, OnlyAt
<1>6. Cardinality(UsesFrom(i.values, n)) = 0 /\ i.total = i.acc + i.refs
  <2>1. i.total = i.acc + i.refs + Cardinality(UsesFrom(i.values, n))
    BY Zenon, <1>2 DEF LocationInv
  <2>2. Cardinality(UsesFrom(i.values, n)) \in Nat
    BY Zenon, <1>1, UsesFinite
  <2>3. CASE i.last_use
    <3>1. i.refs = 1 /\ i.acc + 1 = i.total
      BY Zenon, <1>2, <2>3 DEF LocationInv
    <3>2. i.acc \in Nat
      BY Zenon, <1>2 DEF TypedInfo
    <3> QED  BY Zenon, <2>1, <2>2, <3>1, <3>2, NothingLeft
  <2>4. CASE i.values = {}
    <3>1. Cardinality(UsesFrom(i.values, n)) = 0
      BY Zenon, <2>4, UsesOfNothing
    <3>2. i.acc \in Nat /\ i.refs \in Nat
      BY Zenon, <1>2 DEF TypedInfo
    <3> QED  BY Zenon, <2>1, <3>1, <3>2, NothingMore
  <2> QED  BY Zenon, <2>3, <2>4
<1>7. LocationInv(x, l, n, pending2)
  <2>1. Width(v) <= j.width
    <3>1. Width(v) \in Widths /\ i.width \in Widths
      BY Zenon, <1>1, <1>2, <1>3, WidthFacts DEF TypedInfo, Widths
    <3>2. Width(v) <= Larger(i.width, Width(v))
      BY Zenon, <3>1, LargerIsLarger
    <3> QED  BY Zenon, <1>4, <3>2
  <2>2. i.scratch => i.used > 0
    BY Zenon, <1>2 DEF LocationInv
  <2>3. j.total = j.acc + j.refs + Cardinality(UsesFrom(j.values, n))
    BY Zenon, <1>4, <1>6
  <2> QED  BY Zenon, <1>4, <2>1, <2>2, <2>3 DEF LocationInv
<1>8. LocationsInv(x, n, pending2)
  <2>1. LocationsInv(r, n, pending2)
    BY Zenon DEF Sound, LocationsInv, LocationInv
  <2>2. \A m \in HostLoc \ {l} : j.values \cap r.info[m].values = {}
    BY Zenon, <1>4 DEF IsValueLive, ValueLocations
  <2>3. OnlyAt(r, x, l)
    BY Zenon, <1>5 DEF OnlyAt
  <2> QED  BY Zenon, <1>7, <2>1, <2>2, <2>3, OnlyAtLocations
<1>9. Reading(l, handles2) = {} /\ \A m \in HostLoc \ {l} : Reading(m, handles2) \subseteq Reading(m, handles)
  BY Zenon DEF Reading, DefinedHandle
<1>10. Waiting(x, l, args) = {} /\ Waiting(r, l, args) = {}
  <2>1. \A k \in args : Arg(pos, k) # v
    BY Zenon, SoundArgument
  <2>2. CASE i.last_use
    BY Zenon, <1>2, <1>4, <2>1, <2>2 DEF LockInv, Waiting
  <2>3. CASE i.values = {}
    BY Zenon, <1>4, <2>1, <2>3 DEF Waiting
  <2> QED  BY Zenon, <2>2, <2>3
<1>11. \A m \in HostLoc : LockInv(x, m, handles2, args)
  <2>1. SUFFICES ASSUME NEW m \in HostLoc  PROVE LockInv(x, m, handles2, args)
    BY Zenon
  <2>2. CASE m = l
    <3>1. Number({}) = 0
      BY Zenon, NumberFacts
    <3>2. j.used \in Nat /\ j.refs \in Nat
      BY Zenon, <1>2, <1>4 DEF TypedInfo
    <3>3. Reading(l, handles2) \cup Waiting(x, l, args) = {}
      BY Zenon, <1>9, <1>10
    <3>4. j.used >= 0 /\ j.refs >= 0
      <4> HIDE DEF j
      <4> QED  BY <3>2
    <3>5. j.used >= Number(Reading(l, handles2)) /\ j.refs >= Number(Reading(l, handles2) \cup Waiting(x, l, args))
      BY Zenon, <1>9, <3>1, <3>3, <3>4
    <3> QED  BY Zenon, <1>10, <2>2, <3>5 DEF LockInv
  <2>3. CASE m # l
    <3>1. TypedInfo(r.info[m]) /\ LockInv(r, m, handles, args)
      BY Zenon, SoundLocation
    <3> QED  BY Zenon, <1>5, <1>9, <2>3, <3>1, LockKept
  <2> QED  BY Zenon, <2>2, <2>3
<1>12. \A g \in handles2 : HandleInv(x, g, handles2, args) /\ g \in Handles
  <2>1. SUFFICES ASSUME NEW g \in handles2  PROVE HandleInv(x, g, handles2, args) /\ g \in Handles
    BY Zenon
  <2>2. CASE g \in handles /\ g.loc # l
    <3>1. HandleInv(r, g, handles, args) /\ g \in Handles
      BY Zenon, <2>2 DEF Sound, HandlesInv
    <3>2. x.info[g.loc] = r.info[g.loc] /\ x.content[g.loc] = r.content[g.loc]
      BY Zenon, <1>5, <2>2, <3>1 DEF Handles
    <3>3. \A y \in handles2 : y \in handles \/ (y.loc # g.loc /\ y.arg < 0)
      BY Zenon, <2>2 DEF DefinedHandle
    <3>4. \A y \in handles2 : g.arg > 0 /\ y.arg < 0 => y.arg # g.arg
      BY <3>1 DEF Handles
    <3> QED  BY Zenon, <3>1, <3>2, <3>3, <3>4 DEF HandleInv, HasBits
  <2>3. CASE g \in Handles /\ g.loc = l /\ g.write /\ g.arg < 0 /\ (g.val # None => HasBits(x, l, g.val))
    <3>1. ~(g.arg > 0) /\ ~(g.arg >= 0)
      BY <2>3 DEF Handles
    <3>2. \A y \in handles2 : y # g => y.loc # g.loc
      BY Zenon, <2>3
    <3>3. x.info[g.loc].scratch
      BY Zenon, <1>4, <2>3
    <3> QED  BY Zenon, <2>3, <3>1, <3>2, <3>3 DEF HandleInv
  <2> QED  BY Zenon, <2>2, <2>3 DEF DefinedHandle
<1>13. \A k \in args : k \in 1..Len(block[pos].args) /\ (Arg(pos, k) # Imm => IsValueLive(x, Arg(pos, k)))
  <2>1. SUFFICES ASSUME NEW k \in args  PROVE k \in 1..Len(block[pos].args) /\ (Arg(pos, k) # Imm => IsValueLive(x, Arg(pos, k)))
    BY Zenon
  <2>2. k \in 1..Len(block[pos].args) /\ (Arg(pos, k) # Imm => IsValueLive(r, Arg(pos, k)))
    BY Zenon, SoundArgument
  <2>3. Arg(pos, k) \notin i.values
    BY Zenon, <1>10 DEF Waiting
  <2> QED  BY Zenon, <1>5, <2>2, <2>3 DEF IsValueLive, ValueLocations
<1>14. NeededKept(r, x, n)
  <2>1. SUFFICES ASSUME NEW u, IsValueLive(r, u), UsesFrom({u}, n) # {}  PROVE IsValueLive(x, u)
    BY Zenon DEF NeededKept
  <2>2. u \notin i.values
    BY Zenon, <1>1, <1>6, <2>1, NoUsesOf
  <2> QED  BY Zenon, <1>5, <2>1, <2>2 DEF IsValueLive, ValueLocations
<1>15. IsValueLive(x, v)
  BY Zenon, <1>4 DEF IsValueLive, ValueLocations
<1>16. HandlesInv(x, handles2, args)
  BY Zenon, <1>11, <1>12, <1>13 DEF HandlesInv
<1> QED  BY Zenon, <1>1, <1>4, <1>8, <1>14, <1>15, <1>16 DEF Sound, DefinedIn

(* v is defined and nothing is given up. *)
DefinedToo(r, x, v, pending, handles, args) ==
  Sound(x, pending, handles, args) /\ LiveKept(r, x) /\ IsValueLive(x, v)

(* A result that is an argument shares its location. *)
LEMMA DefinedAsArgument ==
  ASSUME NEW r, NEW pending, NEW handles, NEW args, Sound(r, pending, handles, args), NEW k \in args,
         NEW l \in HostLoc, Arg(pos, k) \in r.info[l].values, NEW v \in Results,
         NEW q, Defined(r, q, l, v), q.ok, NEW x, Refilled(q, x, l), HasBits(x, l, v),
         \A u : HasBits(q, l, u) => HasBits(x, l, u)
  PROVE  DefinedToo(r, x, v, pending, handles, args)
<1> DEFINE i == r.info[l]
           j == x.info[l]
           n == pos + 1
<1>1. WellFormed(block) /\ pos \in 1..Len(block) /\ n \in Nat /\ Len(block) \in Nat
  BY BlockFacts DEF Sound
<1>2. TypedInfo(i) /\ LocationInv(r, l, n, pending) /\ LockInv(r, l, handles, args)
  BY Zenon, SoundLocation
<1>3. v \in 1..Len(block) /\ v >= pos
  BY Zenon, <1>1, ResultFacts
<1>4. ~i.last_use /\ ~i.scratch
  BY Zenon, WaitingHasBits
<1>5. /\ j.values = i.values \cup {v} /\ j.last_use = FALSE /\ j.scratch = i.scratch /\ j.used = i.used
      /\ j.refs = i.refs /\ j.acc = i.acc /\ j.total = i.total + Cardinality(UsesFrom({v}, n))
      /\ j.width = Larger(i.width, Width(v)) /\ ~IsValueLive(r, v)
  BY Zenon, <1>4 DEF Defined, Refilled
<1>6. x \in Allocator /\ \A m \in HostLoc \ {l} : x.info[m] = r.info[m] /\ x.content[m] = r.content[m]
  BY Zenon DEF Defined, Refilled, OnlyAt
<1>7. v \notin i.values
  BY Zenon, <1>5 DEF IsValueLive, ValueLocations
<1>8. \A u : HasBits(r, l, u) => HasBits(x, l, u)
  BY Zenon DEF Defined, HasBits
<1>9. LocationInv(x, l, n, pending)
  <2>1. \A u \in j.values : Width(u) <= j.width
    <3>1. Width(v) \in {0, 32, 64, 128} /\ i.width \in {0, 32, 64, 128}
      BY Zenon, <1>1, <1>2, <1>3, WidthFacts DEF TypedInfo
    <3>2. \A u \in i.values : Width(u) <= i.width /\ Width(u) \in {0, 32, 64, 128}
      BY Zenon, <1>1, <1>2, WidthFacts DEF LocationInv, TypedInfo
    <3> HIDE DEF i, j
    <3> QED  BY <1>5, <3>1, <3>2 DEF Larger
  <2>2. \A u \in j.values : u \notin pending => HasBits(x, l, u)
    BY Zenon, <1>2, <1>4, <1>5, <1>8 DEF LocationInv
  <2>3. j.total = j.acc + j.refs + Cardinality(UsesFrom(j.values, n))
    <3> DEFINE a == Cardinality(UsesFrom(i.values, n))
               b == Cardinality(UsesFrom({v}, n))
               c == Cardinality(UsesFrom(j.values, n))
    <3>1. c = a + b
      <4>1. i.values \cap {v} = {}
        BY Zenon, <1>7
      <4>2. Cardinality(UsesFrom(i.values \cup {v}, n)) = a + b
        BY Zenon, <1>1, <4>1, UsesUnion
      <4> QED  BY Zenon, <1>5, <4>2
    <3>2. a \in Nat /\ b \in Nat
      BY Zenon, <1>1, UsesFinite
    <3>3. i.total = i.acc + i.refs + a /\ i.total \in Nat /\ i.acc \in Nat /\ i.refs \in Nat
      BY Zenon, <1>2 DEF LocationInv, TypedInfo
    <3>4. j.total = i.total + b /\ j.acc = i.acc /\ j.refs = i.refs
      BY Zenon, <1>5
    <3> HIDE DEF a, b, c, i, j
    <3>5. Counted(i, a) /\ MoreUses(i, j, b)
      BY Zenon, <3>2, <3>3, <3>4 DEF Counted, MoreUses
    <3>6. Counted(j, c)
      BY Zenon, <3>1, <3>5, UsesAdded
    <3> QED  BY Zenon, <3>6 DEF Counted, c
  <2> HIDE DEF i
  <2> QED  BY Zenon, <1>4, <1>5, <2>1, <2>2, <2>3 DEF LocationInv
<1>10. LocationsInv(x, n, pending)
  <2>1. LocationsInv(r, n, pending)
    BY Zenon DEF Sound
  <2>2. \A m \in HostLoc \ {l} : j.values \cap r.info[m].values = {}
    <3>1. \A m \in HostLoc : v \notin r.info[m].values
      BY Zenon, <1>5 DEF IsValueLive, ValueLocations
    <3>2. \A m \in HostLoc \ {l} : i.values \cap r.info[m].values = {}
      BY Zenon, <2>1 DEF LocationsInv
    <3>3. j.values = i.values \cup {v}
      BY Zenon, <1>5
    <3> QED  BY Zenon, <3>1, <3>2, <3>3
  <2>3. OnlyAt(r, x, l)
    BY Zenon, <1>6 DEF OnlyAt
  <2> QED  BY Zenon, <1>9, <2>1, <2>2, <2>3, OnlyAtLocations
<1>11. \A m \in HostLoc : LockInv(x, m, handles, args)
  <2>1. SUFFICES ASSUME NEW m \in HostLoc  PROVE LockInv(x, m, handles, args)
    BY Zenon
  <2>2. CASE m = l
    <3>1. Waiting(x, l, args) = Waiting(r, l, args)
      <4>1. \A y \in args : Arg(pos, y) # v
        BY Zenon, SoundArgument
      <4> QED  BY Zenon, <1>5, <4>1 DEF Waiting
    <3> QED  BY Zenon, <1>2, <1>5, <2>2, <3>1 DEF LockInv
  <2>3. CASE m # l
    BY Zenon, <1>6, <2>3 DEF LockInv, Waiting, Sound, HandlesInv
  <2> QED  BY Zenon, <2>2, <2>3
<1>12. \A g \in handles : HandleInv(x, g, handles, args)
  <2>1. SUFFICES ASSUME NEW g \in handles  PROVE HandleInv(x, g, handles, args)
    BY Zenon
  <2>2. HandleInv(r, g, handles, args) /\ g.loc \in HostLoc
    BY Zenon DEF Sound, HandlesInv, Handles
  <2>3. CASE g.loc # l
    <3>1. x.info[g.loc] = r.info[g.loc] /\ x.content[g.loc] = r.content[g.loc]
      BY Zenon, <1>6, <2>2, <2>3
    <3> QED  BY Zenon, <2>2, <3>1 DEF HandleInv, HasBits
  <2>4. CASE g.loc = l
    <3>1. ~g.write
      BY Zenon, <1>4, <2>2, <2>4 DEF HandleInv
    <3> QED  BY Zenon, <1>4, <1>5, <1>8, <2>2, <2>4, <3>1 DEF HandleInv
  <2> QED  BY Zenon, <2>3, <2>4
<1>13. LiveKept(r, x) /\ IsValueLive(x, v)
  BY Zenon, <1>5, <1>6 DEF LiveKept, IsValueLive, ValueLocations
<1>14. HandlesInv(x, handles, args)
  BY Zenon, <1>11, <1>12, <1>13 DEF HandlesInv, Sound, LiveKept
<1> QED  BY Zenon, <1>10, <1>13, <1>14 DEF DefinedToo, Sound

=============================================================================
