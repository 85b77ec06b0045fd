------------------------ MODULE RegAllocEmit_proofs -------------------------
(***************************************************************************)
(* The end of an allocation scope, the references of an instruction, and   *)
(* the steps of an emitter that takes registers, releases them and defines *)
(* its result: each preserves AllocInv.                                    *)
(***************************************************************************)
EXTENDS RegAllocSteps_proofs

----------------------------------------------------------------------------
(* Releases.                                                               *)

Unlocked(j) == j.used = 0 /\ j.scratch = FALSE /\ j.last_use = FALSE /\ j.refs = 0

(* j is i once the references of the instruction are counted as uses. *)
AllReleased(i, j) ==
  /\ j \in LocInfo
  /\ i.total = i.acc + i.refs => j = NoInfo
  /\ i.total # i.acc + i.refs =>
       /\ Unlocked(j) /\ j.acc = i.acc + i.refs
       /\ j.total = i.total /\ j.values = i.values /\ j.width = i.width

(* ReleaseAll gives up a location whose uses have all been counted. *)
LEMMA ReleaseAllFacts ==
  ASSUME NEW i \in LocInfo, NEW j, j = ReleaseAll(i)
  PROVE  AllReleased(i, j)
<1> DEFINE a == i.acc + i.refs
           f == [i EXCEPT !.acc = a, !.refs = 0, !.last_use = FALSE, !.used = 0, !.scratch = FALSE]
<1>1. a \in Nat
  BY DEF LocInfo
<1>2. j = IF i.total = a THEN NoInfo ELSE f
  BY Zenon DEF ReleaseAll
<1>3. NoInfo \in LocInfo
  BY DEF NoInfo, LocInfo
<1> HIDE DEF a
<1>4. f \in LocInfo
  BY <1>1, Zenon DEF LocInfo
<1>5. /\ f.acc = a /\ f.refs = 0 /\ f.last_use = FALSE /\ f.used = 0 /\ f.scratch = FALSE
      /\ f.total = i.total /\ f.values = i.values /\ f.width = i.width
  BY Zenon DEF LocInfo
<1> HIDE DEF f
<1> QED  BY Zenon, <1>2, <1>3, <1>4, <1>5 DEF AllReleased, Unlocked, a

(* j is i with one of its users gone. *)
OneReleased(i, j) ==
  /\ j \in LocInfo
  /\ \/ /\ i.refs = 0 /\ j.used = i.used - 1 /\ j.scratch = FALSE /\ j.last_use = i.last_use
        /\ j.refs = 0 /\ j.acc = i.acc /\ j.total = i.total /\ j.values = i.values /\ j.width = i.width
     \/ i.refs = 1 /\ i.total = i.acc + 1 /\ j = NoInfo
     \/ /\ i.refs = 1 /\ i.total # i.acc + 1 /\ Unlocked(j)
        /\ j.acc = i.acc + 1 /\ j.total = i.total /\ j.values = i.values /\ j.width = i.width
     \/ /\ i.refs > 1 /\ j.used = i.used - 1 /\ j.scratch = FALSE /\ j.last_use = i.last_use
        /\ j.refs = i.refs - 1 /\ j.acc = i.acc + 1 /\ j.total = i.total /\ j.values = i.values
        /\ j.width = i.width

CountsTyped(i) == i.used \in Nat /\ i.refs \in Nat /\ i.acc \in Nat /\ i.total \in Nat

(* A register given with the last use of its value is given up. *)
LEMMA LastIsReleased ==
  ASSUME NEW i, NEW j, OneReleased(i, j), CountsTyped(i), i.last_use => i.refs = 1 /\ i.total = i.acc + 1
  PROVE  j = NoInfo \/ ~i.last_use
  BY DEF OneReleased, CountsTyped

(* The counts of a location that is kept are those of the uses to come. *)
LEMMA OneReleasedUses ==
  ASSUME NEW i, NEW j, OneReleased(i, j), NEW c, Counted(i, c), j # NoInfo
  PROVE  Counted(j, c)
  BY DEF OneReleased, Counted, Unlocked

(* A location is given up when no use is to come. *)
LEMMA OneReleasedUnused ==
  ASSUME NEW i, NEW j, OneReleased(i, j), NEW c, Counted(i, c), i.values # {}, j.values = {}, i.refs # 0
  PROVE  c = 0
  BY DEF OneReleased, Counted

(* The locks that are left are enough for the a readers that are left, and *)
(* the references for the x arguments that are left.                       *)
LEMMA OneReleasedLocks ==
  ASSUME NEW i, NEW j, OneReleased(i, j), CountsTyped(i), NEW a \in Nat, NEW b \in Nat, NEW x \in Nat,
         x <= b, a <= b, i.used > 0, a <= i.used - 1, b = 0 \/ b <= i.refs - 1
  PROVE  j.used >= a /\ j.refs >= x
  BY DEF OneReleased, CountsTyped, Unlocked, NoInfo

(* ReleaseOne counts one reference as a use. *)
LEMMA ReleaseOneFacts ==
  ASSUME NEW i \in LocInfo, i.used > 0, NEW j, j = ReleaseOne(i)
  PROVE  OneReleased(i, j)
<1> DEFINE u == i.used - 1
           a == i.acc + 1
           m == i.refs - 1
           one == [i EXCEPT !.used = u, !.scratch = FALSE]
           counted == [one EXCEPT !.acc = @ + 1, !.refs = @ - 1]
           flat == [i EXCEPT !.used = u, !.scratch = FALSE, !.acc = a, !.refs = m]
<1>1. u \in Nat /\ a \in Nat /\ i.refs \in Nat /\ (i.refs # 0 => m \in Nat)
  BY DEF LocInfo
<1>2. j = IF i.refs = 0 THEN one ELSE IF i.refs = 1 THEN ReleaseAll(counted) ELSE counted
  BY DEF ReleaseOne
<1>3. one \in LocInfo
  <2> HIDE DEF u
  <2> QED  BY <1>1, Zenon DEF LocInfo
<1>4. /\ one.used = u /\ one.scratch = FALSE /\ one.last_use = i.last_use /\ one.refs = i.refs
      /\ one.acc = i.acc /\ one.total = i.total /\ one.values = i.values /\ one.width = i.width
  <2> HIDE DEF u
  <2> QED  BY Zenon DEF LocInfo
<1>5. counted = [one EXCEPT !.acc = a, !.refs = m]
  <2> HIDE DEF one
  <2> QED  BY <1>3, <1>4
<1> HIDE DEF one
<1>6. i.refs # 0 => counted \in LocInfo
  <2> HIDE DEF counted, a, m
  <2> QED  BY <1>1, <1>3, <1>5, Zenon DEF LocInfo
<1>7. /\ counted.used = u /\ counted.scratch = FALSE /\ counted.last_use = i.last_use /\ counted.refs = m
      /\ counted.acc = a /\ counted.total = i.total /\ counted.values = i.values /\ counted.width = i.width
  <2> HIDE DEF counted, a, m, u
  <2> QED  BY <1>3, <1>4, <1>5 DEF LocInfo
<1> HIDE DEF counted
<1>8. CASE i.refs = 0
  BY Zenon, <1>1, <1>2, <1>3, <1>4, <1>8 DEF OneReleased
<1>9. CASE i.refs = 1
  <2>1. AllReleased(counted, j)
    BY <1>2, <1>6, <1>9, ReleaseAllFacts
  <2>2. counted.total = i.total /\ counted.acc = i.acc + 1 /\ counted.refs = 0 /\ counted.acc + counted.refs = i.acc + 1
    BY <1>1, <1>7, <1>9
  <2> QED  BY Zenon, <1>7, <1>9, <2>1, <2>2 DEF OneReleased, AllReleased, Unlocked
<1>10. CASE i.refs > 1
  <2>1. j = counted /\ counted \in LocInfo
    BY <1>1, <1>2, <1>6, <1>10
  <2> QED  BY Zenon, <1>7, <1>10, <2>1 DEF OneReleased
<1> QED  BY <1>1, <1>8, <1>9, <1>10

(* What is left at a location when one of its users is gone: the other     *)
(* readers and the arguments that wait still have their references.        *)
LEMMA ReleaseCounts ==
  ASSUME NEW r, NEW pending, NEW handles, NEW args, Sound(r, pending, handles, args),
         NEW h \in handles, h.arg >= 0
  PROVE  /\ r.info[h.loc].used > 0
         /\ Number(Reading(h.loc, handles \ {h})) <= r.info[h.loc].used - 1
         /\ \/ Number(Reading(h.loc, handles \ {h}) \cup Waiting(r, h.loc, args)) = 0
            \/ Number(Reading(h.loc, handles \ {h}) \cup Waiting(r, h.loc, args)) <= r.info[h.loc].refs - 1
         /\ r.info[h.loc].refs = 0 => r.info[h.loc].values = {}
<1> DEFINE l == h.loc
           i == r.info[l]
           A == Reading(l, handles)
           A2 == Reading(l, handles \ {h})
           W == Waiting(r, l, args)
<1>1. HandleInv(r, h, handles, args) /\ h \in Handles /\ l \in HostLoc
  BY Zenon DEF Sound, HandlesInv, Handles
<1>2. TypedInfo(i) /\ LocationInv(r, l, pos + 1, pending) /\ LockInv(r, l, handles, args)
  BY Zenon, <1>1, SoundLocation
<1>3. i.used \in Nat /\ i.refs \in Nat /\ i.used >= Number(A) /\ i.refs >= Number(A \cup W)
  BY <1>2 DEF TypedInfo, LockInv
<1>4. h.write \in BOOLEAN /\ h.arg \in Int
  BY Zenon, <1>1 DEF Handles
<1>5. CASE h.write
  <2>1. i.scratch /\ i.used > 0 /\ (i.last_use \/ i.values = {})
    BY Zenon, <1>1, <1>2, <1>5 DEF HandleInv, LocationInv
  <2>2. A2 = {}
    BY Zenon, <1>1, <1>5 DEF HandleInv, Reading
  <2>3. W = {}
    BY Zenon, <1>2, <2>1 DEF LockInv, Waiting
  <2>4. Number({}) = 0
    BY NumberFacts
  <2>5. A2 \cup W = {}
    BY Zenon, <2>2, <2>3
  <2>6. i.last_use => i.refs = 1
    BY Zenon, <1>2 DEF LocationInv
  <2>7. Number(A2) = 0 /\ Number(A2 \cup W) = 0
    BY <2>2, <2>4, <2>5, Zenon
  <2>8. i.refs = 0 => i.values = {}
    BY <2>1, <2>6
  <2> DEFINE a == Number(A2)
             u == i.used
  <2>9. a = 0 /\ u \in Nat /\ u > 0
    BY Zenon, <1>3, <2>1, <2>7
  <2> HIDE DEF a, u
  <2>10. a <= u - 1
    BY <2>9
  <2> QED  BY Zenon, <2>1, <2>7, <2>8, <2>10 DEF a, u
<1>6. CASE ~h.write
  <2>1. h.arg > 0 /\ h.arg \in 1..Len(block[pos].args) /\ h.arg \notin args
    BY Zenon, <1>1, <1>6 DEF HandleInv
  <2>2. h.arg \in 1..4
    <3> DEFINE m == Len(block[pos].args)
    <3>1. m \in 0..4 /\ h.arg \in 1..m
      BY Zenon, <2>1, BlockFacts DEF Sound
    <3> HIDE DEF m
    <3> QED  BY <3>1
  <2>3. h.arg \in A /\ A2 = A \ {h.arg}
    <3>1. \A g \in handles : g # h => g.arg # h.arg
      BY Zenon, <1>1, <2>1 DEF HandleInv
    <3> QED  BY Zenon, <1>6, <3>1 DEF Reading
  <2>4. h.arg \notin W
    BY Zenon, <2>1 DEF Waiting
  <2>5. A2 \cup W = (A \cup W) \ {h.arg}
    BY Zenon, <2>3, <2>4
  <2>6. h.arg \in A \cap (1..4) /\ h.arg \in (A \cup W) \cap (1..4)
    BY Zenon, <2>2, <2>3
  <2> DEFINE B == A \cup W
  <2>7. Number(A \ {h.arg}) = Number(A) - 1 /\ Number(B \ {h.arg}) = Number(B) - 1
    BY Zenon, <2>6, NumberRemoved
  <2>8. Number(A) \in Nat /\ Number(B) \in Nat /\ Number(A) >= 1 /\ Number(B) >= 1
    BY Zenon, <2>6, NumberFacts
  <2> DEFINE a == Number(A)
             b == Number(B)
             a2 == Number(A2)
             b2 == Number(A2 \cup W)
             u == i.used
             n == i.refs
  <2>9. a2 = a - 1
    BY Zenon, <2>3, <2>7
  <2>10. b2 = b - 1
    BY Zenon, <2>5, <2>7
  <2>11. a \in Nat /\ b \in Nat /\ a >= 1 /\ b >= 1 /\ u \in Nat /\ n \in Nat /\ u >= a /\ n >= b
    BY Zenon, <1>3, <2>8
  <2> HIDE DEF a, b, a2, b2, u, n
  <2>12. u > 0 /\ a2 <= u - 1 /\ b2 <= n - 1 /\ n # 0
    BY <2>9, <2>10, <2>11
  <2> QED  BY Zenon, <2>12 DEF a2, b2, u, n
<1> QED  BY Zenon, <1>4, <1>5, <1>6

Released(r, q, h, pending, handles, args) ==
  Sound(q, pending, handles \ {h}, args) /\ NeededKept(r, q, pos + 1)

(* A register is given back: its location is given up when no uses are     *)
(* left, and what others read there stays.                                 *)
LEMMA ReleaseSound ==
  ASSUME NEW r, NEW pending, NEW handles, NEW args, Sound(r, pending, handles, args),
         NEW h \in handles, h.arg >= 0, NEW q, OnlyAt(r, q, h.loc), OneReleased(r.info[h.loc], q.info[h.loc]),
         h.write \/ q.content[h.loc] = r.content[h.loc]
  PROVE  Released(r, q, h, pending, handles, args)
<1> DEFINE l == h.loc
           i == r.info[l]
           j == q.info[l]
           n == pos + 1
           handles2 == handles \ {h}
           A == Reading(l, handles2)
           W == Waiting(r, l, args)
<1>20. OneReleased(i, j)
  BY Zenon
<1>1. HandleInv(r, h, handles, args) /\ h \in Handles /\ l \in HostLoc /\ h.write \in BOOLEAN
  BY DEF Sound, HandlesInv, Handles
<1>2. TypedInfo(i) /\ LocationInv(r, l, n, pending) /\ LockInv(r, l, handles, args)
  BY Zenon, <1>1, SoundLocation
<1>3. WellFormed(block) /\ pos \in 1..Len(block) /\ n \in Nat /\ Len(block) \in Nat
  BY BlockFacts DEF Sound
<1>4. /\ i.used > 0 /\ Number(A) <= i.used - 1
      /\ Number(A \cup W) = 0 \/ Number(A \cup W) <= i.refs - 1
      /\ i.refs = 0 => i.values = {}
  BY Zenon, ReleaseCounts
<1>5. Number(A) \in Nat /\ Number(A \cup W) \in Nat /\ Number(A) <= Number(A \cup W)
  <2>1. A \subseteq A \cup W
    BY Zenon
  <2> QED  BY <2>1, NumberFacts, NumberSubset
<1>6. i.last_use => i.refs = 1 /\ i.total = i.acc + 1
  BY <1>2 DEF LocationInv
<1>7. \A v \in i.values : v \notin pending /\ ~i.last_use => HasBits(q, l, v)
  <2>1. CASE h.write
    BY Zenon, <1>1, <2>1 DEF HandleInv
  <2>2. CASE ~h.write
    <3>1. q.content[l] = r.content[l]
      BY Zenon, <2>2
    <3> QED  BY Zenon, <1>2, <3>1 DEF LocationInv, HasBits
  <2> QED  BY Zenon, <2>1, <2>2
<1> DEFINE c == Cardinality(UsesFrom(i.values, n))
<1>8. Counted(i, c)
  BY Zenon, <1>2, <1>3, UsesFinite DEF LocationInv, TypedInfo, Counted
<1>9. \A v \in i.values : Width(v) <= i.width
  BY Zenon, <1>2 DEF LocationInv
<1>10. i.used \in Nat /\ i.refs \in Nat /\ i.acc \in Nat /\ i.total \in Nat /\ CountsTyped(i)
  BY Zenon, <1>2 DEF TypedInfo, CountsTyped
<1>11. Number({}) = 0
  BY Zenon, NumberFacts
<1>12. j = NoInfo \/ (j.values = i.values /\ j.width = i.width /\ ~j.scratch)
  BY Zenon DEF OneReleased, Unlocked
<1>13. j = NoInfo \/ ~i.last_use
  BY Zenon, <1>6, <1>10, <1>20, LastIsReleased
<1>14. j # NoInfo => ~j.last_use
  BY Zenon, <1>13 DEF OneReleased, Unlocked
<1>15. LocationInv(q, l, n, pending)
  <2>1. CASE j = NoInfo
    BY Zenon, <2>1, LocationInvNoInfo
  <2>2. CASE j # NoInfo
    <3>1. j.total = j.acc + j.refs + c
      <4> HIDE DEF i, j, c
      <4>1. Counted(j, c)
        BY Zenon, <1>8, <1>20, <2>2, OneReleasedUses
      <4> QED  BY Zenon, <4>1 DEF Counted
    <3>2. Cardinality(UsesFrom(j.values, n)) = c
      BY Zenon, <1>12, <2>2
    <3> QED  BY Zenon, <1>7, <1>9, <1>12, <1>13, <1>14, <2>2, <3>1, <3>2 DEF LocationInv
  <2> QED  BY Zenon, <2>1, <2>2
<1>16. Waiting(q, l, args) \subseteq W /\ (j = NoInfo => Waiting(q, l, args) = {})
  BY <1>12 DEF Waiting, NoInfo
<1>17. LockInv(q, l, handles2, args)
  <2> DEFINE X == A \cup Waiting(q, l, args)
  <2>1. Number(X) \in Nat /\ Number(X) <= Number(A \cup W)
    <3>1. X \subseteq A \cup W
      BY Zenon, <1>16
    <3> QED  BY Zenon, <3>1, NumberFacts, NumberSubset
  <2> DEFINE a == Number(A)
             b == Number(A \cup W)
             x == Number(X)
  <2>2. a \in Nat /\ b \in Nat /\ x \in Nat /\ x <= b /\ a <= b /\ i.used > 0 /\ a <= i.used - 1 /\ (b = 0 \/ b <= i.refs - 1)
    BY Zenon, <1>4, <1>5, <2>1
  <2>3. j.used >= a /\ j.refs >= x
    <3> HIDE DEF a, b, x, i, j
    <3> QED  BY Zenon, <1>10, <1>20, <2>2, OneReleasedLocks
  <2>4. j.last_use => Waiting(q, l, args) = {}
    BY Zenon, <1>14, <1>16
  <2> HIDE DEF handles2
  <2> QED  BY Zenon, <2>3, <2>4 DEF LockInv
<1>18. W = {} \/ j # NoInfo
  <2>1. j = NoInfo => Number(A \cup W) = 0
    <3> DEFINE b == Number(A \cup W)
    <3>1. b \in Nat /\ (b = 0 \/ b <= i.refs - 1) /\ (i.refs = 0 => i.values = {})
      BY Zenon, <1>4, <1>5
    <3>2. j = NoInfo => i.refs = 1 \/ i.refs = 0 \/ (j.total = i.total /\ j.acc = i.acc + 1)
      <4> HIDE DEF i, j
      <4> QED  BY Zenon, <1>10, <1>20 DEF OneReleased
    <3>3. NoInfo.total = 0 /\ NoInfo.acc = 0
      BY Zenon DEF NoInfo
    <3>4. j = NoInfo => i.refs <= 1
      <4> HIDE DEF i, j
      <4> QED  BY <1>10, <3>2, <3>3
    <3> HIDE DEF b, i, j
    <3>5. j = NoInfo => b = 0
      BY <1>10, <3>1, <3>4
    <3> QED  BY Zenon, <3>5 DEF b
  <2>2. \A k \in W : k \in (A \cup W) \cap (1..4)
    BY Zenon, SoundArgument DEF Waiting
  <2>3. ASSUME NEW k \in W, Number(A \cup W) = 0  PROVE FALSE
    BY <2>2, <2>3, NumberFacts
  <2> HIDE DEF W, A
  <2> QED  BY Zenon, <2>1, <2>3
<1> HIDE DEF c
<1>19. QED
  <2>1. \A m \in HostLoc \ {l} : q.info[m] = r.info[m] /\ q.content[m] = r.content[m]
    BY Zenon DEF OnlyAt
  <2>2. LocationsInv(q, n, pending)
    <3>1. LocationsInv(r, n, pending)
      BY Zenon DEF Sound
    <3>2. j.values \subseteq i.values
      BY <1>12 DEF NoInfo
    <3>3. \A m \in HostLoc \ {l} : j.values \cap r.info[m].values = {}
      BY Zenon, <1>1, <3>1, <3>2 DEF LocationsInv
    <3> HIDE DEF l
    <3> QED  BY Zenon, <1>1, <1>15, <3>1, <3>3, OnlyAtLocations DEF l
  <2>3. \A m \in HostLoc : LockInv(q, m, handles2, args)
    <3>1. SUFFICES ASSUME NEW m \in HostLoc, m # l  PROVE LockInv(q, m, handles2, args)
      BY Zenon, <1>17
    <3>2. TypedInfo(r.info[m]) /\ LockInv(r, m, handles, args)
      BY Zenon, SoundLocation
    <3>3. q.info[m] = r.info[m] /\ Reading(m, handles2) \subseteq Reading(m, handles)
      BY Zenon, <2>1, <3>1 DEF Reading
    <3> HIDE DEF handles2
    <3> QED  BY Zenon, <3>2, <3>3, LockKept
  <2>4. \A g \in handles2 : HandleInv(q, g, handles2, args) /\ g \in Handles
    <3>1. SUFFICES ASSUME NEW g \in handles2  PROVE HandleInv(q, g, handles2, args) /\ g \in Handles
      OBVIOUS
    <3>2. HandleInv(r, g, handles, args) /\ g \in Handles /\ g \in handles /\ g # h
      BY Zenon DEF Sound, HandlesInv
    <3>3. CASE g.loc # l
      <4>1. q.info[g.loc] = r.info[g.loc] /\ q.content[g.loc] = r.content[g.loc]
        BY Zenon, <2>1, <3>2, <3>3 DEF Handles
      <4> QED  BY Zenon, <3>2, <4>1 DEF HandleInv, HasBits
    <3>4. CASE g.loc = l
      <4>1. ~g.write /\ ~h.write
        BY Zenon, <1>1, <3>2, <3>4 DEF HandleInv, Handles
      <4>2. q.content[g.loc] = r.content[g.loc] /\ ~j.scratch
        BY <1>12, <3>4, <4>1 DEF NoInfo
      <4> QED  BY Zenon, <3>2, <3>4, <4>1, <4>2 DEF HandleInv, HasBits
    <3> QED  BY Zenon, <3>3, <3>4
  <2>5. \A k \in args : k \in 1..Len(block[pos].args) /\ (Arg(pos, k) # Imm => IsValueLive(q, Arg(pos, k)))
    <3>1. SUFFICES ASSUME NEW k \in args
                   PROVE  k \in 1..Len(block[pos].args) /\ (Arg(pos, k) # Imm => IsValueLive(q, Arg(pos, k)))
      OBVIOUS
    <3>2. k \in 1..Len(block[pos].args) /\ (Arg(pos, k) # Imm => IsValueLive(r, Arg(pos, k)))
      BY Zenon, SoundArgument
    <3>3. Arg(pos, k) \in i.values => j.values = i.values
      BY Zenon, <1>12, <1>18 DEF Waiting
    <3> QED  BY Zenon, <2>1, <3>2, <3>3 DEF IsValueLive, ValueLocations
  <2>6. NeededKept(r, q, n)
    <3>1. SUFFICES ASSUME NEW u, IsValueLive(r, u), UsesFrom({u}, n) # {}  PROVE IsValueLive(q, u)
      BY Zenon DEF NeededKept
    <3>2. CASE j # NoInfo
      BY Zenon, <1>12, <2>1, <3>1, <3>2 DEF IsValueLive, ValueLocations
    <3>3. CASE j = NoInfo
      <4>1. CASE i.values = {}
        BY Zenon, <2>1, <3>1, <4>1 DEF IsValueLive, ValueLocations
      <4>2. CASE i.values # {}
        <5>1. c = 0
          <6>1. j.values = {} /\ i.refs # 0
            BY <1>4, <3>3, <4>2 DEF NoInfo
          <6> QED  BY Zenon, <1>8, <1>20, <4>2, <6>1, OneReleasedUnused
        <5>2. u \notin i.values
          BY Zenon, <1>3, <3>1, <5>1, NoUsesOf DEF c
        <5> QED  BY Zenon, <2>1, <3>1, <5>2 DEF IsValueLive, ValueLocations
      <4> QED  BY Zenon, <4>1, <4>2
    <3> QED  BY Zenon, <3>2, <3>3
  <2>7. HandlesInv(q, handles2, args)
    BY Zenon, <2>3, <2>4, <2>5 DEF HandlesInv
  <2> QED  BY Zenon, <1>3, <2>2, <2>6, <2>7 DEF Sound, Released

(* The allocator between two instructions. *)
AtRest(q, n) == LocationsInv(q, n, {}) /\ Idle(q, n)

(* At the end of an instruction its references are uses that have been     *)
(* counted: a value given up or overwritten has no uses to come.           *)
LEMMA EndOfAllocScopeFacts ==
  ASSUME WellFormed(block), NEW n \in Nat, NEW r, LocationsInv(r, n, {}), NEW handles,
         \A h \in handles : h.write /\ h.arg >= 0 => r.info[h.loc].last_use \/ r.info[h.loc].values = {},
         NEW q, q = EndOfAllocScope(r, handles)
  PROVE  AtRest(q, n) /\ NeededKept(r, q, n) /\ q.ok = r.ok
<1>1. r \in Allocator /\ Len(block) \in Nat
  BY Zenon, BlockFacts DEF LocationsInv
<1> DEFINE f == [l \in HostLoc |-> ReleaseAll(r.info[l])]
           C == [l \in HostLoc |-> IF \E h \in handles : h.loc = l /\ h.write /\ h.arg >= 0
                                   THEN {} ELSE r.content[l]]
<1>2. q = [r EXCEPT !.info = f, !.content = C]
  BY Zenon, <1>1 DEF EndOfAllocScope, Allocator
<1>3. \A l \in HostLoc : r.info[l] \in LocInfo /\ AllReleased(r.info[l], f[l])
  BY Zenon, <1>1, ReleaseAllFacts DEF Allocator
<1>4. f \in [HostLoc -> LocInfo]
  BY Zenon, <1>3 DEF AllReleased
<1>5. C \in [HostLoc -> SUBSET (Nat \X Nat)]
  BY Zenon, <1>1 DEF Allocator
<1> HIDE DEF f, C
<1>6. q \in Allocator /\ q.info = f /\ q.content = C /\ q.ok = r.ok
  <2>1. q \in Allocator
    BY <1>1, <1>2, <1>4, <1>5, Zenon DEF Allocator
  <2> QED  BY Zenon, <1>1, <1>2, <2>1 DEF Allocator
<1>7. ASSUME NEW l \in HostLoc
      PROVE  /\ LocationInv(q, l, n, {}) /\ q.info[l].scratch = FALSE /\ q.info[l].used = 0
             /\ q.info[l].values # {} => UsesFrom(q.info[l].values, n) # {}
             /\ q.info[l].values = r.info[l].values
                  \/ (q.info[l].values = {} /\ Cardinality(UsesFrom(r.info[l].values, n)) = 0)
  <2> DEFINE i == r.info[l]
             j == q.info[l]
             c == Cardinality(UsesFrom(i.values, n))
  <2>1. AllReleased(i, j) /\ LocationInv(r, l, n, {}) /\ TypedInfo(i)
    BY Zenon, <1>3, <1>6, TypedInfoFacts DEF LocationsInv
  <2>2. c \in Nat /\ i.total = i.acc + i.refs + c /\ i.total \in Nat /\ i.acc \in Nat /\ i.refs \in Nat
    BY Zenon, <1>1, <2>1, UsesFinite DEF LocationInv, TypedInfo
  <2>3. CASE i.total = i.acc + i.refs
    <3>1. j = NoInfo
      BY Zenon, <2>1, <2>3 DEF AllReleased
    <3>2. c = 0
      <4> HIDE DEF c, i
      <4> QED  BY <2>2, <2>3
    <3>3. j.values = {} /\ j.scratch = FALSE /\ j.used = 0
      BY <3>1 DEF NoInfo
    <3>4. LocationInv(q, l, n, {})
      BY Zenon, <3>1, LocationInvNoInfo
    <3> QED  BY Zenon, <3>2, <3>3, <3>4
  <2>4. CASE i.total # i.acc + i.refs
    <3>1. /\ Unlocked(j) /\ j.acc = i.acc + i.refs /\ j.total = i.total /\ j.values = i.values
          /\ j.width = i.width
      BY Zenon, <2>1, <2>4 DEF AllReleased
    <3>2. ~i.last_use /\ i.values # {}
      <4>1. i.last_use => i.refs = 1 /\ i.acc + 1 = i.total
        BY Zenon, <2>1 DEF LocationInv
      <4>2. i.values = {} => c = 0
        BY Zenon, UsesOfNothing
      <4> HIDE DEF c, i
      <4> QED  BY <2>2, <2>4, <4>1, <4>2
    <3>3. C[l] = r.content[l]
      BY Zenon, <3>2 DEF C
    <3>4. \A v \in j.values : Width(v) <= j.width /\ HasBits(q, l, v)
      BY Zenon, <1>6, <2>1, <3>1, <3>2, <3>3 DEF LocationInv, HasBits
    <3>5. j.total = j.acc + j.refs + c
      <4> HIDE DEF c, i, j
      <4> QED  BY <2>2, <3>1 DEF Unlocked
    <3>6. Cardinality(UsesFrom(j.values, n)) = c
      BY Zenon, <3>1
    <3>7. LocationInv(q, l, n, {})
      BY Zenon, <3>1, <3>4, <3>5, <3>6 DEF LocationInv, Unlocked
    <3>8. c # 0
      <4> HIDE DEF c, i
      <4> QED  BY <2>2, <2>4
    <3>9. UsesFrom(j.values, n) # {}
      BY Zenon, <1>1, <3>6, <3>8, UsesFinite
    <3> QED  BY Zenon, <3>1, <3>7, <3>9 DEF Unlocked
  <2> QED  BY Zenon, <2>3, <2>4
<1>8. LocationsInv(q, n, {})
  <2>1. \A l, m \in HostLoc : r.info[l].values \cap r.info[m].values # {} => l = m
    BY Zenon DEF LocationsInv
  <2>2. \A l \in HostLoc : q.info[l].values \subseteq r.info[l].values
    BY Zenon, <1>7
  <2> QED  BY Zenon, <1>6, <1>7, <2>1, <2>2 DEF LocationsInv
<1>9. NeededKept(r, q, n)
  <2>1. SUFFICES ASSUME NEW u, IsValueLive(r, u), UsesFrom({u}, n) # {}  PROVE IsValueLive(q, u)
    BY Zenon DEF NeededKept
  <2>2. PICK l \in HostLoc : u \in r.info[l].values
    BY Zenon, <2>1 DEF IsValueLive, ValueLocations
  <2>3. ~(Cardinality(UsesFrom(r.info[l].values, n)) = 0)
    BY Zenon, <2>1, <2>2, NoUsesOf
  <2> QED  BY Zenon, <1>7, <2>2, <2>3 DEF IsValueLive, ValueLocations
<1> QED  BY Zenon, <1>6, <1>7, <1>8, <1>9 DEF AtRest, Idle

(* The references of an instruction are counted: q's locations have as     *)
(* many more of them as arguments of the instruction with their values.    *)
Referenced(q) ==
  /\ q.content = alloc.content
  /\ \A l \in HostLoc :
       /\ q.info[l] \in LocInfo
       /\ q.info[l].refs = alloc.info[l].refs + Number(At(alloc.info[l].values, pos))
       /\ q.info[l].used = alloc.info[l].used /\ q.info[l].scratch = alloc.info[l].scratch
       /\ q.info[l].last_use = alloc.info[l].last_use /\ q.info[l].acc = alloc.info[l].acc
       /\ q.info[l].total = alloc.info[l].total /\ q.info[l].values = alloc.info[l].values
       /\ q.info[l].width = alloc.info[l].width

(* Each argument is found where its value is. *)
LEMMA LocatedFacts ==
  ASSUME WellFormed(block), pos \in 1..Len(block), NEW n, NEW pending, LocationsInv(alloc, n, pending),
         NEW l \in HostLoc
  PROVE  Located(l) = At(alloc.info[l].values, pos)
<1> DEFINE S == alloc.info[l].values
<1>1. S \subseteq 1..Len(block) /\ Len(block) \in Nat
  BY BlockFacts DEF LocationsInv, Allocator, LocInfo
<1>2. \A l1, l2 \in HostLoc : alloc.info[l1].values \cap alloc.info[l2].values # {} => l1 = l2
  BY Zenon DEF LocationsInv
<1>3. ASSUME NEW k \in Located(l)  PROVE k \in At(S, pos)
  <2>1. k \in 1..Len(block[pos].args) /\ ValueLocations(alloc, Arg(pos, k)) # {} /\ ValueLocation(alloc, Arg(pos, k)) = l
    BY Zenon DEF Located, Args, IsValueLive
  <2>2. l \in ValueLocations(alloc, Arg(pos, k))
    BY <2>1, Zenon DEF ValueLocation
  <2> QED  BY <2>1, <2>2, Zenon DEF ValueLocations, At
<1>4. ASSUME NEW k \in At(S, pos)  PROVE k \in Located(l)
  <2>1. k \in 1..Len(block[pos].args) /\ Arg(pos, k) \in S
    BY Zenon DEF At
  <2>2. Arg(pos, k) # Imm
    <3> DEFINE v == Arg(pos, k)
    <3>1. v \in 1..Len(block)
      BY Zenon, <1>1, <2>1
    <3> HIDE DEF v
    <3>2. v # Imm
      BY <1>1, <3>1 DEF Imm
    <3> QED  BY Zenon, <3>2 DEF v
  <2>3. l \in ValueLocations(alloc, Arg(pos, k))
    BY <2>1, Zenon DEF ValueLocations
  <2>4. ValueLocation(alloc, Arg(pos, k)) \in ValueLocations(alloc, Arg(pos, k))
    BY <2>3, Zenon DEF ValueLocation
  <2>5. ValueLocation(alloc, Arg(pos, k)) = l
    BY Zenon, <1>2, <2>3, <2>4 DEF ValueLocations
  <2>6. IsValueLive(alloc, Arg(pos, k))
    BY <2>3, Zenon DEF IsValueLive
  <2> QED  BY <2>1, <2>2, <2>5, <2>6, Zenon DEF Located, Args
<1> QED  BY Zenon, <1>3, <1>4

(* References counts them. *)
LEMMA ReferencesFacts ==
  ASSUME WellFormed(block), pos \in 1..Len(block), LocationsInv(alloc, pos, {}), NEW q, q = References
  PROVE  q \in Allocator /\ Referenced(q) /\ (q.ok => alloc.ok)
<1> DEFINE f == [l \in HostLoc |-> AddArgReferences(alloc.info[l], Number(Located(l)))]
           P == \A l \in HostLoc : Located(l) # {} => f[l].acc + f[l].refs <= f[l].total
           w == [alloc EXCEPT !.info = f]
<1>1. alloc \in Allocator
  BY Zenon DEF LocationsInv
<1>2. q = Asserting(w, P)
  BY Zenon DEF References
<1>3. ASSUME NEW l \in HostLoc
      PROVE  /\ f[l] \in LocInfo
             /\ f[l].refs = alloc.info[l].refs + Number(At(alloc.info[l].values, pos))
             /\ f[l].used = alloc.info[l].used /\ f[l].scratch = alloc.info[l].scratch
             /\ f[l].last_use = alloc.info[l].last_use /\ f[l].acc = alloc.info[l].acc
             /\ f[l].total = alloc.info[l].total /\ f[l].values = alloc.info[l].values
             /\ f[l].width = alloc.info[l].width
  <2> DEFINE i == alloc.info[l]
             m == Number(Located(l))
             u == i.refs + m
             j == [i EXCEPT !.refs = u]
  <2>1. i \in LocInfo
    BY Zenon, <1>1 DEF Allocator
  <2>2. m = Number(At(i.values, pos)) /\ m \in Nat
    <3>1. Located(l) = At(i.values, pos)
      BY Zenon, LocatedFacts
    <3> QED  BY Zenon, <3>1, NumberFacts
  <2>3. f[l] = j
    BY Zenon, <2>1 DEF AddArgReferences
  <2>4. u \in Nat
    BY <2>1, <2>2 DEF LocInfo
  <2> HIDE DEF i, m, f
  <2>5. u = i.refs + m
    OBVIOUS
  <2> HIDE DEF u
  <2>6. j \in LocInfo
    BY <2>1, <2>4, Zenon DEF LocInfo
  <2>7. /\ j.refs = u /\ j.used = i.used /\ j.scratch = i.scratch /\ j.last_use = i.last_use
        /\ j.acc = i.acc /\ j.total = i.total /\ j.values = i.values /\ j.width = i.width
    BY Zenon, <2>1 DEF LocInfo
  <2> HIDE DEF j
  <2> QED  BY Zenon, <2>2, <2>3, <2>5, <2>6, <2>7 DEF i
<1>4. f \in [HostLoc -> LocInfo]
  BY Zenon, <1>3
<1>5. P \in BOOLEAN
  BY Zenon
<1> HIDE DEF f, P
<1>6. w \in Allocator
  BY <1>1, <1>4, Zenon DEF Allocator
<1>7. w.info = f /\ w.content = alloc.content /\ w.ok = alloc.ok
  BY Zenon, <1>1 DEF Allocator
<1> HIDE DEF w
<1>8. q \in Allocator /\ q.info = w.info /\ q.content = w.content /\ (q.ok <=> w.ok /\ P)
  BY <1>2, <1>5, <1>6, AssertingFacts
<1>9. Referenced(q)
  BY <1>3, <1>7, <1>8 DEF Referenced
<1> QED  BY Zenon, <1>7, <1>8, <1>9

(* The instruction's uses have become its references. *)
LEMMA ReferencesSound ==
  ASSUME WellFormed(block), pos \in 1..Len(block), LocationsInv(alloc, pos, {}),
         \A l \in HostLoc : ~alloc.info[l].scratch, NEW q \in Allocator, Referenced(q)
  PROVE  /\ LocationsInv(q, pos + 1, {}) /\ LiveKept(alloc, q)
         /\ \A l \in HostLoc : ~q.info[l].scratch /\ LockInv(q, l, {}, 1..Len(block[pos].args))
<1>1. /\ Len(block) \in Nat /\ Len(block[pos].args) \in 0..4 /\ pos \in Nat /\ pos + 1 \in Nat
  BY BlockFacts
<1>2. ASSUME NEW l \in HostLoc
      PROVE  /\ LocationInv(q, l, pos + 1, {}) /\ ~q.info[l].scratch
             /\ LockInv(q, l, {}, 1..Len(block[pos].args))
  <2> DEFINE i == alloc.info[l]
             j == q.info[l]
             a == Cardinality(UsesFrom(i.values, pos))
             b == Cardinality(UsesFrom(i.values, pos + 1))
             m == Number(At(i.values, pos))
  <2>1. /\ j.refs = i.refs + m /\ j.used = i.used /\ j.scratch = i.scratch /\ j.last_use = i.last_use
        /\ j.acc = i.acc /\ j.total = i.total /\ j.values = i.values /\ j.width = i.width
        /\ q.content[l] = alloc.content[l]
    BY Zenon DEF Referenced
  <2>2. LocationInv(alloc, l, pos, {}) /\ TypedInfo(i)
    BY Zenon, TypedInfoFacts DEF LocationsInv, Allocator
  <2>3. ~j.scratch /\ ~i.last_use /\ ~j.last_use
    BY Zenon, <2>1, <2>2 DEF LocationInv
  <2>4. a = b + m /\ b \in Nat /\ m \in Nat
    BY Zenon, <1>1, UsesSplit, UsesFinite, NumberFacts
  <2>5. i.total = i.acc + i.refs + a /\ i.acc \in Nat /\ i.refs \in Nat /\ i.used \in Nat
    BY Zenon, <2>2 DEF LocationInv, TypedInfo
  <2>6. j.total = j.acc + j.refs + b
    <3> HIDE DEF i, j, a, b, m
    <3> QED  BY <2>1, <2>4, <2>5
  <2>7. Cardinality(UsesFrom(j.values, pos + 1)) = b
    BY Zenon, <2>1
  <2>8. \A v \in j.values : Width(v) <= j.width /\ HasBits(q, l, v)
    BY Zenon, <2>1, <2>2, <2>3 DEF LocationInv, HasBits
  <2>9. LocationInv(q, l, pos + 1, {})
    BY Zenon, <2>3, <2>6, <2>7, <2>8 DEF LocationInv
  <2>10. Reading(l, {}) = {} /\ Waiting(q, l, 1..Len(block[pos].args)) = At(i.values, pos)
    BY Zenon, <2>1 DEF Reading, Waiting, At
  <2>11. Number({}) = 0 /\ {} \cup At(i.values, pos) = At(i.values, pos)
    BY Zenon, NumberFacts
  <2>12. j.used >= 0 /\ j.refs >= m
    <3> HIDE DEF i, j, m
    <3> QED  BY <2>1, <2>4, <2>5
  <2>13. LockInv(q, l, {}, 1..Len(block[pos].args))
    BY Zenon, <2>3, <2>10, <2>11, <2>12 DEF LockInv
  <2> QED  BY Zenon, <2>3, <2>9, <2>13
<1>3. \A l \in HostLoc : q.info[l].values = alloc.info[l].values
  BY Zenon DEF Referenced
<1>4. LocationsInv(q, pos + 1, {})
  <2>1. \A l, m \in HostLoc : alloc.info[l].values \cap alloc.info[m].values # {} => l = m
    BY Zenon DEF LocationsInv
  <2> QED  BY Zenon, <1>2, <1>3, <2>1 DEF LocationsInv
<1>5. LiveKept(alloc, q)
  BY Zenon, <1>3 DEF LiveKept, IsValueLive, ValueLocations
<1> QED  BY Zenon, <1>2, <1>4, <1>5

(* What depends on the block only is the same in the next state. *)
LEMMA SameBlock ==
  ASSUME block' = block
  PROVE  /\ \A S, n : UsesFrom(S, n)' = UsesFrom(S, n)
         /\ \A v : Width(v)' = Width(v)
         /\ \A r, l, v : HasBits(r, l, v)' <=> HasBits(r, l, v)
         /\ LocInfo' = LocInfo /\ Allocator' = Allocator
         /\ \A r, n : Idle(r, n)' <=> Idle(r, n)
<1>1. \A S, n : UsesFrom(S, n)' = UsesFrom(S, n)
  BY Zenon DEF UsesFrom, Arg
<1>2. \A v : Width(v)' = Width(v)
  BY Zenon DEF Width
<1>3. \A r, l, v : HasBits(r, l, v)' <=> HasBits(r, l, v)
  BY Zenon, <1>2 DEF HasBits
<1>4. LocInfo' = LocInfo
  BY Zenon DEF LocInfo
<1>5. Allocator' = Allocator
  BY Zenon, <1>4 DEF Allocator
<1>6. \A r, n : Idle(r, n)' <=> Idle(r, n)
  BY Zenon, <1>1 DEF Idle
<1> QED  BY Zenon, <1>1, <1>2, <1>3, <1>4, <1>5, <1>6

(* What depends on the instruction is the same while it is emitted. *)
LEMMA SameInstruction ==
  ASSUME block' = block, pos' = pos, NEW r, NEW n, NEW pending, NEW handles, NEW args,
         Sound(r, pending, handles, args), n = pos + 1
  PROVE  LocationsInv(r, n, pending)' /\ HandlesInv(r, handles, args)'
<1>1. Results' = Results
  BY Zenon DEF Results, PseudosOf, Arg
<1>2. ASSUME NEW l \in HostLoc  PROVE LocationInv(r, l, n, pending)'
  <2>1. LocationInv(r, l, n, pending)
    BY Zenon DEF Sound, LocationsInv
  <2> QED  BY Zenon, <1>1, <2>1, SameBlock DEF LocationInv
<1>3. LocationsInv(r, n, pending)'
  BY Zenon, <1>2, SameBlock DEF Sound, LocationsInv
<1>4. ASSUME NEW l \in HostLoc  PROVE LockInv(r, l, handles, args)'
  <2>1. LockInv(r, l, handles, args)
    BY Zenon DEF Sound, HandlesInv
  <2>2. Waiting(r, l, args)' = Waiting(r, l, args)
    BY Zenon DEF Waiting, Arg
  <2> QED  BY Zenon, <2>1, <2>2 DEF LockInv
<1>5. ASSUME NEW h \in handles  PROVE HandleInv(r, h, handles, args)'
  <2>1. HandleInv(r, h, handles, args)
    BY Zenon DEF Sound, HandlesInv
  <2>2. HasBits(r, h.loc, h.val)' <=> HasBits(r, h.loc, h.val)
    BY Zenon, SameBlock
  <2> QED  BY Zenon, <2>1, <2>2 DEF HandleInv
<1>6. HandlesInv(r, handles, args)'
  BY Zenon, <1>4, <1>5 DEF Sound, HandlesInv, Arg
<1> QED  BY Zenon, <1>3, <1>6

(* With no registers given and no arguments to take there is nothing to    *)
(* ask for.                                                                *)
LEMMA NothingHeld ==
  ASSUME NEW r \in Allocator
  PROVE  HandlesInv(r, {}, {})
<1>1. \A l \in HostLoc : r.info[l].used \in Nat /\ r.info[l].refs \in Nat
  <2>1. \A l \in HostLoc : r.info[l] \in LocInfo
    BY Zenon DEF Allocator
  <2> QED  BY Zenon, <2>1 DEF LocInfo
<1>2. \A l \in HostLoc : Reading(l, {}) = {} /\ Waiting(r, l, {}) = {}
  BY Zenon DEF Reading, Waiting
<1>3. Number({}) = 0
  BY Zenon, NumberFacts
<1>4. ASSUME NEW l \in HostLoc  PROVE LockInv(r, l, {}, {})
  <2>1. Reading(l, {}) \cup Waiting(r, l, {}) = {}
    BY Zenon, <1>2
  <2> QED  BY <1>1, <1>2, <1>3, <2>1 DEF LockInv
<1> QED  BY Zenon, <1>4 DEF HandlesInv

(* Between instructions only the block matters. *)
LEMMA RestKept ==
  ASSUME block' = block, NEW r, NEW n, NEW pending, LocationsInv(r, n, pending),
         \A l \in HostLoc : ~r.info[l].scratch
  PROVE  LocationsInv(r, n, pending)' /\ HandlesInv(r, {}, {})'
<1>1. ASSUME NEW l \in HostLoc  PROVE LocationInv(r, l, n, pending)'
  <2>1. LocationInv(r, l, n, pending)
    BY Zenon DEF LocationsInv
  <2> QED  BY Zenon, <2>1, SameBlock DEF LocationInv
<1>2. LocationsInv(r, n, pending)'
  BY Zenon, <1>1, SameBlock DEF LocationsInv
<1>3. \A l \in HostLoc : r.info[l].used \in Nat /\ r.info[l].refs \in Nat
  <2>1. \A l \in HostLoc : r.info[l] \in LocInfo
    BY Zenon DEF LocationsInv, Allocator
  <2> QED  BY Zenon, <2>1 DEF LocInfo
<1>4. \A l \in HostLoc : Reading(l, {}) = {} /\ Waiting(r, l, {})' = {}
  BY Zenon DEF Reading, Waiting
<1>5. Number({}) = 0
  BY Zenon, NumberFacts
<1>6. ASSUME NEW l \in HostLoc  PROVE LockInv(r, l, {}, {})'
  <2>1. Reading(l, {}) \cup Waiting(r, l, {})' = {}
    BY Zenon, <1>4
  <2> QED  BY <1>3, <1>4, <1>5, <2>1 DEF LockInv, Reading, Waiting, Number
<1>7. HandlesInv(r, {}, {})'
  BY Zenon, <1>6 DEF HandlesInv
<1> QED  BY Zenon, <1>2, <1>7

(* The state of an instruction after one more call of the allocator. *)
LEMMA EmitKept ==
  ASSUME block' = block, pos' = pos, stage' \in {"emit", "call", "called"}, StageInv',
         NEW q, q = alloc', NEW pending, pending = Pending', NEW handles, handles = held',
         NEW args, args = todo', Sound(q, pending, handles, args),
         \A v \in defined' : UsesFrom({v}, pos + 1) # {} => IsValueLive(q, v)
  PROVE  AllocInv'
<1>0. PICK n : n = pos + 1
  BY Zenon
<1>1. n = NextUse'
  BY Zenon, <1>0 DEF NextUse
<1>2. LocationsInv(q, n, pending)' /\ HandlesInv(q, handles, args)'
  BY Zenon, <1>0, SameInstruction
<1>3. LocationsInv(alloc, NextUse, Pending)'
  BY Zenon, <1>1, <1>2
<1>4. HandlesInv(alloc, held, todo)'
  BY <1>2
<1>5. LiveInv(alloc, defined, NextUse)'
  <2>1. \A v : IsValueLive(alloc, v)' <=> IsValueLive(q, v)
    BY Zenon DEF IsValueLive, ValueLocations
  <2>2. \A v : UsesFrom({v}, n)' = UsesFrom({v}, n)
    BY Zenon, SameBlock
  <2> QED  BY Zenon, <1>0, <1>1, <2>1, <2>2 DEF LiveInv
<1> QED  BY Zenon, <1>3, <1>4, <1>5 DEF AllocInv

(* The state between two instructions. *)
LEMMA RestStep ==
  ASSUME block' = block, stage' \in {"next", "done"}, StageInv',
         NEW n, n = pos', NEW q, q = alloc', LocationsInv(q, n, {}),
         \A v \in defined' : UsesFrom({v}, n) # {} => IsValueLive(q, v)
  PROVE  AllocInv'
<1>1. n = NextUse' /\ {} = Pending' /\ {} = held' /\ {} = todo'
  BY DEF NextUse, Pending, StageInv
<1>2. \A l \in HostLoc : ~q.info[l].scratch
  <2>1. Idle(alloc, pos)'
    BY Zenon DEF StageInv
  <2> QED  BY <2>1, Zenon DEF Idle
<1>3. LocationsInv(q, n, {})' /\ HandlesInv(q, {}, {})'
  BY Zenon, <1>2, RestKept
<1>4. LocationsInv(alloc, NextUse, Pending)'
  BY Zenon, <1>1, <1>3
<1>5. HandlesInv(alloc, held, todo)'
  BY Zenon, <1>1, <1>3
<1>6. LiveInv(alloc, defined, NextUse)'
  <2>1. \A v : IsValueLive(alloc, v)' <=> IsValueLive(q, v)
    BY Zenon DEF IsValueLive, ValueLocations
  <2>2. \A v : UsesFrom({v}, n)' = UsesFrom({v}, n)
    BY Zenon, SameBlock
  <2> QED  BY Zenon, <1>1, <2>1, <2>2 DEF LiveInv
<1> QED  BY Zenon, <1>4, <1>5, <1>6 DEF AllocInv

(* The invariant while an instruction is emitted. *)
LEMMA Emitting ==
  ASSUME AllocInv, alloc.ok, stage \in {"emit", "call", "called"}
  PROVE  /\ StageInv /\ Sound(alloc, Pending, held, todo)
         /\ \A v \in defined : UsesFrom({v}, pos + 1) # {} => IsValueLive(alloc, v)
<1>1. StageInv /\ LocationsInv(alloc, pos + 1, Pending) /\ HandlesInv(alloc, held, todo) /\ LiveInv(alloc, defined, pos + 1)
  BY Zenon DEF AllocInv, AssertsHold, NextUse
<1>2. Len(block) \in Nat
  BY Zenon, <1>1, BlockFacts DEF StageInv
<1>3. pos \in 1..Len(block) /\ Pending \subseteq {pos}
  BY <1>1, <1>2 DEF StageInv, Pending
<1> QED  BY Zenon, <1>1, <1>3 DEF Sound, LiveInv, StageInv

(* The invariant between instructions. *)
LEMMA Resting ==
  ASSUME AllocInv, alloc.ok, stage \in {"next", "done"}
  PROVE  /\ StageInv /\ LocationsInv(alloc, pos, {}) /\ (\A l \in HostLoc : ~alloc.info[l].scratch)
         /\ \A v \in defined : UsesFrom({v}, pos) # {} => IsValueLive(alloc, v)
<1>1. StageInv /\ LocationsInv(alloc, pos, {}) /\ LiveInv(alloc, defined, pos)
  BY Zenon DEF AllocInv, AssertsHold, NextUse, Pending
<1>2. Idle(alloc, pos)
  BY Zenon, <1>1 DEF StageInv
<1>3. \A l \in HostLoc : ~alloc.info[l].scratch
  BY <1>2, Zenon DEF Idle
<1> QED  BY Zenon, <1>1, <1>3 DEF LiveInv

(* An emitter other than a call's has made one of its calls. *)
LEMMA EmitStep ==
  ASSUME AllocInv, alloc.ok, stage = "emit", block[pos].kind # "call",
         block' = block, pos' = pos, stage' = stage, defined' \subseteq defined \cup Results,
         NEW q, q = alloc', NEW handles, handles = held', NEW args, args = todo',
         Sound(q, {}, handles, args), NeededKept(alloc, q, pos + 1),
         \A v \in defined' \ defined : IsValueLive(q, v)
  PROVE  AllocInv'
<1>1. StageInv /\ \A v \in defined : UsesFrom({v}, pos + 1) # {} => IsValueLive(alloc, v)
  BY Zenon, Emitting
<1>2. StageInv'
  <2>1. WellFormed(block) /\ pos \in Nat \ {0} /\ defined \subseteq 1..Len(block) /\ pos <= Len(block) /\ pos \in 1..Len(block)
    BY <1>1, BlockFacts DEF StageInv
  <2>2. \A v \in Results : v \in 1..Len(block) /\ (v < pos + 1 \/ block[v].kind \in {"pseudo", "nz"})
    BY <2>1, ResultFacts DEF Results, PseudosOf
  <2>3. \A v \in defined : v < pos + 1 \/ block[v].kind \in {"pseudo", "nz"}
    BY Zenon, <1>1 DEF StageInv, NextUse
  <2>4. NextUse' = pos + 1
    BY Zenon DEF NextUse
  <2>5. \A v \in defined' : v \in 1..Len(block) /\ (v < pos + 1 \/ block[v].kind \in {"pseudo", "nz"})
    BY Zenon, <2>1, <2>2, <2>3
  <2> QED  BY Zenon, <2>1, <2>4, <2>5 DEF StageInv
<1>3. {} = Pending'
  BY Zenon DEF Pending
<1>4. \A v \in defined' : UsesFrom({v}, pos + 1) # {} => IsValueLive(q, v)
  BY Zenon, <1>1 DEF NeededKept
<1> QED  BY Zenon, <1>2, <1>3, <1>4, EmitKept

(* Registers of either kind are registers. *)
LEMMA DesiredFacts ==
  ASSUME NEW w, NEW desired \in Desired(w)
  PROVE  desired \subseteq GPR \cup XMM
  BY Zenon, HostAssumption DEF Desired

(* What ScratchImpl leads to is an allocator, whether an ASSERT fails or not. *)
LEMMA ScratchType ==
  ASSUME WellFormed(block), NEW r \in Allocator, NEW desired, desired \subseteq GPR \cup XMM,
         NEW o \in ScratchImpl(r, desired)
  PROVE  o[1] \in Allocator /\ o[2] \in desired /\ o[2] \in HostLoc
<1>1. PICK l \in SelectARegister(r, desired) : o = <<WriteLock(MoveOutOfTheWay(r, l), l), l>>
  BY Zenon DEF ScratchImpl
<1>2. l \in desired /\ l \in GPR \cup XMM /\ l \in HostLoc
  BY Zenon, SelectFacts DEF HostLoc
<1>3. MoveOutOfTheWay(r, l) \in Allocator
  BY Zenon, <1>2, MoveOutOfTheWayType
<1>4. WriteLocked(MoveOutOfTheWay(r, l), WriteLock(MoveOutOfTheWay(r, l), l), l)
  BY Zenon, <1>2, <1>3, WriteLockFacts
<1> QED  BY Zenon, <1>1, <1>2, <1>4 DEF WriteLocked, OnlyAt

(* Keeping all values keeps those that are needed. *)
LEMMA KeptIsNeeded ==
  ASSUME NEW r, NEW q, NEW n, LiveKept(r, q)
  PROVE  NeededKept(r, q, n)
  BY Zenon DEF LiveKept, NeededKept

(* UseReg preserves the invariant. *)
LEMMA UseRegInv ==
  ASSUME AllocInv, alloc.ok, NEW k \in todo, UseReg(k), alloc'.ok
  PROVE  AllocInv'
<1>1. PICK desired \in Desired(Width(Arg(pos, k))) : \E o \in UseImpl(alloc, Arg(pos, k), desired) :
        alloc' = o[1] /\ held' = held \cup {Handle(k, o, o[1].info[o[2]].scratch, Arg(pos, k))}
  BY Zenon DEF UseReg
<1>2. PICK o \in UseImpl(alloc, Arg(pos, k), desired) :
        alloc' = o[1] /\ held' = held \cup {Handle(k, o, o[1].info[o[2]].scratch, Arg(pos, k))}
  BY Zenon, <1>1
<1>3. /\ stage = "emit" /\ block[pos].kind # "call" /\ block' = block /\ pos' = pos /\ stage' = stage
      /\ defined' = defined /\ todo' = todo \ {k}
  BY Zenon DEF UseReg
<1>4. Sound(alloc, {}, held, todo)
  BY Zenon, <1>3, Emitting DEF Pending
<1>5. PICK h : h = Handle(k, o, o[1].info[o[2]].scratch, Arg(pos, k))
  BY Zenon
<1>6. GivenToBeRead(alloc, o[1], h, {}, held, todo)
  BY Zenon, <1>2, <1>4, <1>5, DesiredFacts, UseGiven
<1>7. h.arg = k
  BY Zenon, <1>5 DEF Handle
<1>8. Sound(o[1], {}, held \cup {h}, todo \ {k}) /\ LiveKept(alloc, o[1])
  BY Zenon, <1>6, <1>7 DEF GivenToBeRead
<1>9. NeededKept(alloc, o[1], pos + 1)
  BY Zenon, <1>8, KeptIsNeeded
<1> QED  BY Zenon, <1>2, <1>3, <1>5, <1>8, <1>9, EmitStep

(* UseScratch preserves the invariant. *)
LEMMA UseScratchInv ==
  ASSUME AllocInv, alloc.ok, NEW k \in todo, UseScratch(k), alloc'.ok
  PROVE  AllocInv'
<1>1. PICK desired \in Desired(Width(Arg(pos, k))) : \E o \in UseScratchImpl(alloc, Arg(pos, k), desired) :
        alloc' = o[1] /\ held' = held \cup {Handle(k, o, TRUE, Arg(pos, k))}
  BY Zenon DEF UseScratch
<1>2. PICK o \in UseScratchImpl(alloc, Arg(pos, k), desired) :
        alloc' = o[1] /\ held' = held \cup {Handle(k, o, TRUE, Arg(pos, k))}
  BY Zenon, <1>1
<1>3. /\ stage = "emit" /\ block[pos].kind # "call" /\ block' = block /\ pos' = pos /\ stage' = stage
      /\ defined' = defined /\ todo' = todo \ {k}
  BY Zenon DEF UseScratch
<1>4. Sound(alloc, {}, held, todo)
  BY Zenon, <1>3, Emitting DEF Pending
<1>5. PICK h : h = Handle(k, o, TRUE, Arg(pos, k))
  BY Zenon
<1>6. GivenFrom(alloc, o, h, desired, {}, held, todo)
  BY Zenon, <1>2, <1>4, <1>5, DesiredFacts, UseScratchGiven
<1>7. h.arg = k
  BY Zenon, <1>5 DEF Handle
<1>8. Sound(o[1], {}, held \cup {h}, todo \ {k}) /\ LiveKept(alloc, o[1])
  BY Zenon, <1>6, <1>7 DEF GivenFrom, Given
<1>9. NeededKept(alloc, o[1], pos + 1)
  BY Zenon, <1>8, KeptIsNeeded
<1> QED  BY Zenon, <1>2, <1>3, <1>5, <1>8, <1>9, EmitStep

(* The register h, for no argument, has been given in the location taken. *)
TakenFor(r, x, h, pending, handles, args) ==
  /\ Sound(x, pending, handles \cup {h}, args) /\ LiveKept(r, x) /\ LockedKept(r, x)
  /\ h \in Handles /\ h.arg <= 0 /\ h.write /\ h.val = None
  /\ x.info[h.loc].scratch /\ x.info[h.loc].values = {} /\ x \in Allocator
  /\ \A g \in handles : g.loc # h.loc

(* A location that was taken is given for no argument. *)
LEMMA TakenForNothing ==
  ASSUME NEW r, NEW x, NEW d, NEW a \in Int, a <= 0, NEW pending, NEW handles, NEW args, Sound(r, pending, handles, args),
         TakenAt(r, x, d, pending, handles, args),
         NEW h, h = [arg |-> a, loc |-> d, write |-> TRUE, val |-> None]
  PROVE  TakenFor(r, x, h, pending, handles, args) /\ h.loc = d
<1>1. PICK q : Sound(q, pending, handles, args) /\ Cleared(r, q, d) /\ WriteLocked(q, x, d)
  BY Zenon DEF TakenAt
<1>2. d \in HostLoc
  BY Zenon DEF TakenAt, HostLoc
<1>3. x \in Allocator /\ x.info[d].scratch /\ x.info[d].values = {}
  BY Zenon, <1>1 DEF WriteLocked, OnlyAt, SameUses, Cleared, IsEmpty
<1>4. \A g \in handles : g.loc # d
  BY <1>1, <1>2, UnlockedIsFree DEF Cleared, Sound
<1>5. None \in Int
  BY DEF None
<1>6. h \in Handles /\ h.arg = a /\ h.loc = d /\ h.write = TRUE /\ h.val = None
  BY Zenon, <1>2, <1>5 DEF Handles
<1>7. ~(h.arg > 0)
  BY <1>6
<1>8. Given(r, x, h, pending, handles, args)
  BY Zenon, <1>6, <1>7, TakenGiven
<1>9. args \ {h.arg} = args
  <2>1. \A k \in args : k \in 1..4
    BY Zenon, SoundArgument
  <2> QED  BY <1>6, <2>1
<1> QED  BY Zenon, <1>2, <1>3, <1>4, <1>6, <1>8, <1>9 DEF Given, TakenFor

(* Scratch preserves the invariant. *)
LEMMA ScratchInv ==
  ASSUME AllocInv, alloc.ok, Scratch, alloc'.ok
  PROVE  AllocInv'
<1>1. PICK desired \in Desired(64) : \E o \in ScratchImpl(alloc, desired) :
        alloc' = [o[1] EXCEPT !.content[o[2]] = {}] /\ held' = held \cup {Handle(0, o, TRUE, None)}
  BY Zenon DEF Scratch
<1>2. PICK o \in ScratchImpl(alloc, desired) :
        alloc' = [o[1] EXCEPT !.content[o[2]] = {}] /\ held' = held \cup {Handle(0, o, TRUE, None)}
  BY Zenon, <1>1
<1>3. /\ stage = "emit" /\ block[pos].kind # "call" /\ block' = block /\ pos' = pos /\ stage' = stage
      /\ defined' = defined /\ todo' = todo
  BY Zenon DEF Scratch
<1>4. Sound(alloc, {}, held, todo)
  BY Zenon, <1>3, Emitting DEF Pending
<1> DEFINE x == o[1]
           d == o[2]
<1>5. x \in Allocator /\ d \in HostLoc
  BY <1>4, DesiredFacts, ScratchType DEF Sound, LocationsInv
<1>6. PICK y : y = alloc'
  BY Zenon
<1>7. Filled(x, y, d, {})
  BY Zenon, <1>2, <1>5, <1>6, RefilledFacts
<1>8. x.ok
  BY <1>6, <1>7 DEF Filled
<1>9. TakenAt(alloc, x, d, {}, held, todo)
  BY Zenon, <1>4, <1>8, DesiredFacts, ScratchTakes
<1>10. TakenAt(alloc, y, d, {}, held, todo)
  BY Zenon, <1>7, <1>9, TakenRefilled DEF Filled
<1>11. PICK h : h = [arg |-> 0, loc |-> d, write |-> TRUE, val |-> None]
  BY Zenon
<1>12. Sound(y, {}, held \cup {h}, todo) /\ LiveKept(alloc, y)
  <2>1. TakenFor(alloc, y, h, {}, held, todo)
    <3>1. 0 \in Int /\ 0 <= 0
      OBVIOUS
    <3> HIDE DEF d
    <3> QED  BY <1>4, <1>10, <1>11, <3>1, TakenForNothing
  <2> QED  BY Zenon, <2>1 DEF TakenFor
<1>13. held' = held \cup {h}
  BY Zenon, <1>2, <1>11 DEF Handle
<1>14. NeededKept(alloc, y, pos + 1)
  BY Zenon, <1>12, KeptIsNeeded
<1> QED  BY Zenon, <1>3, <1>6, <1>12, <1>13, <1>14, EmitStep

(* Release preserves the invariant. *)
LEMMA ReleaseInv ==
  ASSUME AllocInv, alloc.ok, Release, alloc'.ok
  PROVE  AllocInv'
<1>1. PICK h \in held :
       /\ h.arg >= 0
       /\ held' = held \ {h}
       /\ alloc' = [alloc EXCEPT !.info[h.loc] = ReleaseOne(@), !.content[h.loc] = IF h.write THEN {} ELSE @]
  BY Zenon DEF Release
<1>2. stage = "emit" /\ block' = block /\ pos' = pos /\ stage' = stage /\ defined' = defined /\ todo' = todo
  BY Zenon DEF Release
<1>3. StageInv /\ Sound(alloc, {}, held, todo)
  BY Zenon, <1>2, Emitting DEF Pending
<1>4. block[pos].kind # "call"
  BY Zenon, <1>1, <1>2, <1>3 DEF StageInv
<1>5. h \in Handles /\ h.loc \in HostLoc /\ alloc \in Allocator /\ h.write \in BOOLEAN
  BY Zenon, <1>3 DEF Sound, HandlesInv, LocationsInv, Handles
<1> DEFINE l == h.loc
           i == alloc.info[l]
           j == ReleaseOne(i)
           C == IF h.write THEN {} ELSE alloc.content[l]
<1>6. PICK q : q = alloc'
  BY Zenon
<1>7. /\ q.info = [alloc.info EXCEPT ![l] = j] /\ q.content = [alloc.content EXCEPT ![l] = C] /\ q.ok = alloc.ok
      /\ q = [info |-> q.info, content |-> q.content, ok |-> q.ok]
  BY Zenon, <1>1, <1>5, <1>6 DEF Allocator
<1>8. /\ alloc.info \in [HostLoc -> LocInfo] /\ alloc.content \in [HostLoc -> SUBSET (Nat \X Nat)]
      /\ alloc.ok \in BOOLEAN /\ i \in LocInfo
  BY Zenon, <1>5 DEF Allocator
<1>9. i.used > 0
  BY Zenon, <1>1, <1>3, ReleaseCounts
<1>10. OneReleased(i, j)
  BY Zenon, <1>8, <1>9, ReleaseOneFacts
<1>11. j \in LocInfo /\ C \in SUBSET (Nat \X Nat)
  BY Zenon, <1>5, <1>8, <1>10 DEF OneReleased
<1> HIDE DEF j, C
<1>12. q.info \in [HostLoc -> LocInfo] /\ q.content \in [HostLoc -> SUBSET (Nat \X Nat)]
  BY Zenon, <1>7, <1>8, <1>11
<1>13. q \in Allocator
  BY Zenon, <1>7, <1>8, <1>12 DEF Allocator
<1>14. OnlyAt(alloc, q, l) /\ q.info[l] = j /\ q.content[l] = C
  BY <1>5, <1>7, <1>8, <1>13 DEF OnlyAt
<1>15. h.write \/ q.content[l] = alloc.content[l]
  BY Zenon, <1>14 DEF C
<1>16. Released(alloc, q, h, {}, held, todo)
  BY Zenon, <1>1, <1>3, <1>10, <1>14, <1>15, ReleaseSound
<1>17. Sound(q, {}, held \ {h}, todo) /\ NeededKept(alloc, q, pos + 1)
  BY Zenon, <1>16 DEF Released
<1> QED  BY Zenon, <1>1, <1>2, <1>4, <1>6, <1>17, EmitStep

(* A register that may be written is the only one in its location. *)
LEMMA WritableFacts ==
  ASSUME NEW r, NEW pending, NEW handles, NEW args, Sound(r, pending, handles, args), NEW h \in handles, h.write
  PROVE  /\ h \in Handles /\ h.loc \in HostLoc /\ r.info[h.loc].scratch /\ IsLocked(r, h.loc)
         /\ h.arg >= 0 => r.info[h.loc].last_use \/ r.info[h.loc].values = {}
         /\ Reading(h.loc, handles) = {} /\ \A g \in handles : g # h => g.loc # h.loc
<1>1. h \in Handles /\ h.loc \in HostLoc /\ HandleInv(r, h, handles, args)
  BY Zenon DEF Sound, HandlesInv, Handles
<1>2. LocationInv(r, h.loc, pos + 1, pending)
  BY Zenon, <1>1, SoundLocation
<1>3. r.info[h.loc].scratch /\ IsLocked(r, h.loc)
  BY Zenon, <1>1, <1>2 DEF HandleInv, LocationInv, IsLocked
<1>4. \A g \in handles : g # h => g.loc # h.loc
  BY <1>1 DEF HandleInv
<1>5. Reading(h.loc, handles) = {}
  BY Zenon, <1>4 DEF Reading
<1> QED  BY Zenon, <1>1, <1>3, <1>4, <1>5 DEF HandleInv

(* DefineValue preserves the invariant. *)
LEMMA DefineValueInv ==
  ASSUME AllocInv, alloc.ok, DefineValue, alloc'.ok
  PROVE  AllocInv'
<1>1. PICK v \in Results \ defined : \E h \in held :
       /\ h.write /\ h.arg >= 0
       /\ alloc' = Write(DefineValueImpl(alloc, v, h.loc), h.loc, v)
       /\ held' = (held \ {h}) \cup {[h EXCEPT !.val = v, !.arg = -v]}
       /\ defined' = defined \cup {v}
  BY Zenon DEF DefineValue
<1>2. PICK h \in held :
       /\ h.write /\ h.arg >= 0
       /\ alloc' = Write(DefineValueImpl(alloc, v, h.loc), h.loc, v)
       /\ held' = (held \ {h}) \cup {[h EXCEPT !.val = v, !.arg = -v]}
       /\ defined' = defined \cup {v}
  BY Zenon, <1>1
<1>3. /\ stage = "emit" /\ block[pos].kind # "call" /\ block' = block /\ pos' = pos /\ stage' = stage
      /\ todo' = todo
  BY Zenon DEF DefineValue
<1>4. Sound(alloc, {}, held, todo)
  BY Zenon, <1>3, Emitting DEF Pending
<1>5. WellFormed(block) /\ pos \in 1..Len(block) /\ alloc \in Allocator /\ Len(block) \in Nat
  BY Zenon, <1>4, BlockFacts DEF Sound, LocationsInv
<1>6. v \in 1..Len(block) /\ v \in 0..Len(block) /\ v \in Results
  BY <1>5, ResultFacts
<1>7. /\ h \in Handles /\ h.loc \in HostLoc /\ alloc.info[h.loc].scratch
      /\ alloc.info[h.loc].last_use \/ alloc.info[h.loc].values = {}
      /\ Reading(h.loc, held) = {} /\ \A g \in held : g # h => g.loc # h.loc
  BY Zenon, <1>2, <1>4, WritableFacts
<1>8. PICK l : l = h.loc
  OBVIOUS
<1>9. PICK q : q = DefineValueImpl(alloc, v, l)
  BY Zenon
<1>10. PICK x : x = alloc'
  BY Zenon
<1>11. Defined(alloc, q, l, v)
  BY Zenon, <1>5, <1>6, <1>7, <1>8, <1>9, DefineFacts
<1>12. q \in Allocator
  BY Zenon, <1>11 DEF Defined, OnlyAt
<1>13. Refilled(q, x, l) /\ HasBits(x, l, v) /\ x.ok = q.ok
  BY <1>2, <1>5, <1>6, <1>7, <1>8, <1>9, <1>10, <1>12, WriteFacts
<1>14. q.ok
  BY Zenon, <1>10, <1>13
<1>15. PICK g0 : g0 = [h EXCEPT !.val = v, !.arg = -v]
  BY Zenon
<1>16. g0 \in Handles /\ g0.loc = l /\ g0.write /\ g0.arg = -v /\ g0.val = v /\ g0.arg < 0
  <2>1. -v \in Int /\ v \in Int /\ -v < 0
    BY <1>5, <1>6
  <2>2. g0 = [arg |-> -v, loc |-> h.loc, write |-> h.write, val |-> v]
    BY Zenon, <1>7, <1>15 DEF Handles
  <2> DEFINE w == -v
  <2> HIDE DEF w
  <2>3. w \in Int /\ g0 = [arg |-> w, loc |-> h.loc, write |-> h.write, val |-> v] /\ h.write \in BOOLEAN
    BY Zenon, <1>7, <2>1, <2>2 DEF w, Handles
  <2>4. g0 \in Handles /\ g0.loc = h.loc /\ g0.write = h.write /\ g0.arg = w /\ g0.val = v
    BY <1>7, <2>1, <2>3, HandleFacts
  <2> QED  BY Zenon, <1>2, <1>8, <2>1, <2>4 DEF w
<1> DEFINE handles2 == (held \ {h}) \cup {g0}
<1>17. \A g \in handles2 : DefinedHandle(x, g, l, held)
  BY Zenon, <1>7, <1>8, <1>13, <1>16 DEF DefinedHandle
<1>18. \A g, g1 \in handles2 : g.loc = l /\ g1.loc = l => g = g1
  BY Zenon, <1>7, <1>8
<1>19. {} \subseteq {pos} /\ {} \subseteq {}
  BY Zenon
<1> HIDE DEF handles2
<1>22. /\ l \in HostLoc /\ alloc.info[l].scratch /\ Reading(l, held) = {}
       /\ alloc.info[l].last_use \/ alloc.info[l].values = {}
  BY Zenon, <1>7, <1>8
<1>23. DefinedIn(alloc, x, l, v, {}, handles2, todo)
  BY Zenon, <1>4, <1>6, <1>11, <1>13, <1>14, <1>17, <1>18, <1>19, <1>22, DefinedInScratch
<1>20. Sound(x, {}, handles2, todo) /\ IsValueLive(x, v) /\ NeededKept(alloc, x, pos + 1)
  BY Zenon, <1>23 DEF DefinedIn
<1>21. held' = handles2 /\ defined' \subseteq defined \cup Results /\ \A u \in defined' \ defined : IsValueLive(x, u)
  BY Zenon, <1>2, <1>15, <1>20 DEF handles2
<1> QED  BY Zenon, <1>3, <1>10, <1>20, <1>21, EmitStep

(* An argument's bits are those of the identity's result. *)
LEMMA IdentityBits ==
  ASSUME WellFormed(block), pos \in 1..Len(block), block[pos].kind = "id", NEW v, v = Arg(pos, 1), v # Imm,
         NEW r \in Allocator, NEW l \in HostLoc, HasBits(r, l, v),
         NEW C, C = r.content[l] \cup {<<pos, p[2]>> : p \in {q \in r.content[l] : q[1] = v}}
  PROVE  /\ C \in SUBSET (Nat \X Nat) /\ \E p \in C : p[1] = pos /\ p[2] >= Width(pos)
<1>1. r.content[l] \in SUBSET (Nat \X Nat) /\ pos \in Nat
  BY BlockFacts DEF Allocator
<1>2. \A p \in r.content[l] : p[2] \in Nat
  BY Zenon, <1>1
<1>3. C \in SUBSET (Nat \X Nat)
  BY <1>1, <1>2
<1>4. PICK p \in r.content[l] : p[1] = v /\ p[2] >= Width(v)
  BY Zenon DEF HasBits
<1>5. Width(pos) = Width(v)
  BY DEF WellFormed, Width, Arg, Imm
<1>6. <<pos, p[2]>> \in C
  BY Zenon, <1>4
<1>7. <<pos, p[2]>>[1] = pos /\ <<pos, p[2]>>[2] >= Width(pos)
  BY Zenon, <1>4, <1>5
<1> QED  BY Zenon, <1>3, <1>6, <1>7

(* DefineAsArgument preserves the invariant. *)
LEMMA DefineAsArgumentInv ==
  ASSUME AllocInv, alloc.ok, DefineAsArgument, alloc'.ok
  PROVE  AllocInv'
<1>1. /\ stage = "emit" /\ block[pos].kind = "id" /\ block' = block /\ pos' = pos /\ stage' = stage
      /\ defined' = defined \cup {pos} /\ todo' = todo \ {1} /\ held' = held /\ 1 \in todo
  BY Zenon DEF DefineAsArgument
<1>2. Sound(alloc, {}, held, todo)
  BY Zenon, <1>1, Emitting DEF Pending
<1>3. WellFormed(block) /\ pos \in 1..Len(block) /\ alloc \in Allocator /\ Len(block) \in Nat
  BY Zenon, <1>2, BlockFacts DEF Sound, LocationsInv
<1>4. pos \in Results /\ pos \in 0..Len(block)
  BY <1>3 DEF Results
<1>5. PICK x : x = alloc'
  BY Zenon
<1>6. PICK v : v = Arg(pos, 1)
  BY Zenon
<1>7. SUFFICES Sound(x, {}, held, todo \ {1}) /\ IsValueLive(x, pos) /\ NeededKept(alloc, x, pos + 1)
  <2>1. block[pos].kind # "call" /\ defined' \subseteq defined \cup Results
        /\ \A u \in defined' \ defined : IsValueLive(x, u)
    BY Zenon, <1>1, <1>4, <1>7
  <2> QED  BY Zenon, <1>1, <1>5, <1>7, <2>1, EmitStep
<1>8. CASE v # Imm
  <2>1. PICK l : l = ValueLocation(alloc, v)
    BY Zenon
  <2>2. PICK q : q = DefineValueImpl(alloc, pos, l)
    BY Zenon
  <2>3. x = [q EXCEPT !.content[l] = @ \cup {<<pos, p[2]>> : p \in {c \in @ : c[1] = v}}]
    BY Zenon, <1>5, <1>6, <1>8, <2>1, <2>2 DEF DefineAsArgument
  <2>4. l \in HostLoc /\ v \in alloc.info[l].values
    <3>1. IsValueLive(alloc, v)
      BY Zenon, <1>1, <1>2, <1>6, <1>8, SoundArgument
    <3> QED  BY Zenon, <2>1, <3>1, LocationOf
  <2>5. Defined(alloc, q, l, pos)
    BY Zenon, <1>3, <1>4, <2>2, <2>4, DefineFacts
  <2>6. q \in Allocator /\ q.content[l] = alloc.content[l]
    BY Zenon, <2>5 DEF Defined, OnlyAt
  <2>7. HasBits(alloc, l, v)
    BY Zenon, <1>1, <1>2, <1>6, <2>4, WaitingHasBits
  <2>8. PICK C : C = alloc.content[l] \cup {<<pos, p[2]>> : p \in {c \in alloc.content[l] : c[1] = v}}
    BY Zenon
  <2>9. x = [q EXCEPT !.content[l] = C]
    BY Zenon, <2>3, <2>4, <2>6, <2>8 DEF Allocator
  <2>10. C \in SUBSET (Nat \X Nat) /\ \E p \in C : p[1] = pos /\ p[2] >= Width(pos)
    BY <1>1, <1>3, <1>6, <1>8, <2>4, <2>7, <2>8, IdentityBits
  <2>11. Filled(q, x, l, C)
    BY Zenon, <2>4, <2>6, <2>9, <2>10, RefilledFacts
  <2>12. HasBits(x, l, pos) /\ Refilled(q, x, l) /\ q.ok
    BY Zenon, <1>5, <2>10, <2>11 DEF HasBits, Filled
  <2>13. \A u : HasBits(q, l, u) => HasBits(x, l, u)
    BY Zenon, <2>6, <2>8, <2>11 DEF HasBits, Filled
  <2>14. Arg(pos, 1) \in alloc.info[l].values
    BY Zenon, <1>6, <2>4
  <2>15. DefinedToo(alloc, x, pos, {}, held, todo)
    BY Zenon, <1>1, <1>2, <1>4, <2>4, <2>5, <2>12, <2>13, <2>14, DefinedAsArgument
  <2>16. Sound(x, {}, held, todo) /\ LiveKept(alloc, x) /\ IsValueLive(x, pos)
    BY Zenon, <2>15 DEF DefinedToo
  <2>17. todo \ {1} \subseteq todo
    BY Zenon
  <2>18. Sound(x, {}, held, todo \ {1})
    BY Zenon, <2>16, <2>17, SoundFewer
  <2> QED  BY Zenon, <2>16, <2>18, KeptIsNeeded
<1>9. CASE v = Imm
  <2>1. PICK o \in LoadImmediate(alloc, GPR) : x = Write(DefineValueImpl(o[1], pos, o[2]), o[2], pos)
    BY Zenon, <1>5, <1>6, <1>9 DEF DefineAsArgument
  <2>2. PICK r : r = o[1]
    BY Zenon
  <2>3. PICK l : l = o[2]
    BY Zenon
  <2>4. r \in Allocator /\ l \in HostLoc
    <3>1. PICK p \in ScratchImpl(alloc, GPR) : o = <<Write(p[1], p[2], Imm), p[2]>>
      BY Zenon DEF LoadImmediate
    <3>2. p[1] \in Allocator /\ p[2] \in HostLoc
      BY Zenon, <1>3, ScratchType
    <3>3. r = Write(p[1], p[2], Imm) /\ l = p[2] /\ Imm \in 0..Len(block)
      BY <1>3, <2>2, <2>3, <3>1 DEF Imm
    <3>4. Refilled(p[1], r, p[2])
      BY Zenon, <1>3, <3>2, <3>3, WriteFacts
    <3> QED  BY Zenon, <3>2, <3>3, <3>4 DEF Refilled
  <2>5. PICK q : q = DefineValueImpl(r, pos, l)
    BY Zenon
  <2>6. Defined(r, q, l, pos)
    BY Zenon, <1>3, <1>4, <2>4, <2>5, DefineFacts
  <2>7. q \in Allocator
    BY Zenon, <2>6 DEF Defined, OnlyAt
  <2>8. Refilled(q, x, l) /\ HasBits(x, l, pos) /\ x.ok = q.ok
    BY <1>3, <1>4, <2>1, <2>2, <2>3, <2>4, <2>5, <2>7, WriteFacts
  <2>9. q.ok /\ r.ok
    BY Zenon, <1>5, <2>6, <2>8 DEF Defined
  <2>10. TakenAt(alloc, r, l, {}, held, todo)
    <3>1. GPR \subseteq GPR \cup XMM
      BY Zenon
    <3> QED  BY Zenon, <1>2, <2>2, <2>3, <2>9, <3>1, LoadImmediateTakes
  <2>11. PICK h : h = [arg |-> 0, loc |-> l, write |-> TRUE, val |-> None]
    BY Zenon
  <2>12. TakenFor(alloc, r, h, {}, held, todo) /\ h.loc = l
    <3>1. 0 \in Int /\ 0 <= 0
      OBVIOUS
    <3> QED  BY <1>2, <2>10, <2>11, <3>1, TakenForNothing
  <2>13. PICK handles : handles = held \cup {h}
    BY Zenon
  <2>14. /\ Sound(r, {}, handles, todo) /\ LiveKept(alloc, r) /\ r.info[l].scratch /\ r.info[l].values = {}
         /\ \A g \in held : g.loc # l
    BY Zenon, <2>12, <2>13 DEF TakenFor
  <2>15. Reading(l, handles) = {}
    BY Zenon, <2>12, <2>13, <2>14 DEF Reading, TakenFor
  <2>16. \A g \in held : DefinedHandle(x, g, l, handles)
    BY Zenon, <2>13, <2>14 DEF DefinedHandle
  <2>17. /\ \A g, g1 \in held : g.loc = l /\ g1.loc = l => g = g1
         /\ {} \subseteq {pos} /\ {} \subseteq {}
    BY Zenon, <2>14
  <2>18. DefinedIn(r, x, l, pos, {}, held, todo)
    BY Zenon, <1>4, <2>4, <2>6, <2>8, <2>9, <2>14, <2>15, <2>16, <2>17, DefinedInScratch
  <2>19. Sound(x, {}, held, todo) /\ IsValueLive(x, pos) /\ NeededKept(r, x, pos + 1)
    BY Zenon, <2>18 DEF DefinedIn
  <2>20. NeededKept(alloc, x, pos + 1)
    BY Zenon, <2>14, <2>19 DEF NeededKept, LiveKept
  <2>21. todo \ {1} \subseteq todo
    BY Zenon
  <2>22. Sound(x, {}, held, todo \ {1})
    BY Zenon, <2>19, <2>21, SoundFewer
  <2> QED  BY Zenon, <2>19, <2>20, <2>22
<1> QED  BY Zenon, <1>8, <1>9

=============================================================================
