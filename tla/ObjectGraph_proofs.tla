------------------------- MODULE ObjectGraph_proofs -------------------------
(* Proofs about groups, their members and faults. Whatever the merge policies *)
(* and the liberties of the client: what a group holds is stored, and a group *)
(* that holds a fault knows it. With a careful client, who takes no liberty,  *)
(* and whatever the policies: the members of a group are current, those of    *)
(* past versions are kept, and the context is a versioned graph.              *)
EXTENDS ObjectGraph, FiniteSetTheorems, WellFoundedInduction, TLAPS

------------------------------------------------------------------------------
(* Numbers. *)

(* A set of numbers that has 0 and, with each number, the next one has all.   *)
LEMMA Induction ==
  ASSUME NEW S \in SUBSET Nat, 0 \in S, \A n \in S : n + 1 \in S
  PROVE  S = Nat
<1> SUFFICES ASSUME Nat \ S # {} PROVE FALSE
  OBVIOUS
<1> DEFINE R == OpToRel(<, Nat)
<1>1. IsWellFoundedOn(R, Nat)
  BY NatLessThanWellFounded
<1>2. \A x, y \in Nat : y < x => <<y, x>> \in R
  BY DEF OpToRel
<1> HIDE DEF R
<1>3. \E x \in Nat \ S : \A y \in Nat \ S : ~ (<<y, x>> \in R)
  BY <1>1, WFMin
<1>4. PICK x \in Nat \ S : \A y \in Nat \ S : <<y, x>> \notin R
  BY <1>3
<1>5. x # 0 /\ x - 1 \in Nat /\ x - 1 < x
  OBVIOUS
<1>6. x - 1 \in S
  BY <1>2, <1>4, <1>5
<1>7. QED
  BY <1>5, <1>6

(* A set of numbers with a bound has a greatest element, which is Max. *)
LEMMA MaxIs ==
  ASSUME NEW n \in Nat, NEW S \in SUBSET (0..n), S # {}
  PROVE  Max(S) \in S /\ \A x \in S : x <= Max(S)
<1> DEFINE T == {k \in Nat : (\E x \in S : x >= n - k) =>
                   \E m \in S : \A x \in S : x <= m}
<1>1. 0 \in T
  OBVIOUS
<1>2. ASSUME NEW k \in T PROVE k + 1 \in T
  <2> SUFFICES ASSUME NEW x \in S, x >= n - (k + 1), \A y \in S : ~(y >= n - k)
               PROVE  \E m \in S : \A y \in S : y <= m
    OBVIOUS
  <2>1. \A y \in S : y \in Int /\ y < n - k
    OBVIOUS
  <2>2. \A y \in S : y <= x
    BY <2>1
  <2>3. QED
    BY <2>2
<1> HIDE DEF T
<1>3. T = Nat
  <2>1. T \in SUBSET Nat
    BY DEF T
  <2>2. QED
    BY <1>1, <1>2, <2>1, Induction
<1>4. \E x \in S : x >= n - n
  <2>1. PICK x \in S : x \in 0..n
    OBVIOUS
  <2>2. x >= n - n
    BY <2>1
  <2>3. QED
    BY <2>2
<1>5. \E m \in S : \A x \in S : x <= m
  BY <1>3, <1>4 DEF T
<1>6. \E m \in S : \A x \in S : m >= x
  BY <1>5
<1>7. Max(S) \in S /\ \A x \in S : Max(S) >= x
  BY <1>6 DEF Max
<1>8. QED
  BY <1>7
------------------------------------------------------------------------------
(* What may be stored and held. *)

AnyRef == [of : Objects, is : {"instance", "fault", "stale"}, version : Int]
AnyFile == [is : {"snapshot", "addMember", "removeMember", "change"}, members : SUBSET AnyRef]

\* A member of o is one the client may put there and has stored.
MayHold(o) == {r \in AnyRef : <<o, r.of>> \in MayContain /\ IsStored(r.of)}

FilesOK(o, files) ==
  /\ files \in Seq(AnyFile)
  /\ files # <<>> => files[1].is = "snapshot"
  /\ \A n \in 1..Len(files) : files[n].members \subseteq MayHold(o)

StoredInv ==
  /\ stored = [o \in Objects |-> stored[o]]
  /\ \A o \in Objects : FilesOK(o, stored[o])

\* An instance of o, which knows the faults it holds.
KnowsFaults(i) == (\E r \in i.members : r.is = "fault") => i.hasFaults
IsLoaded(o, i) ==
  /\ i = [version |-> i.version, members |-> i.members, hasFaults |-> i.hasFaults]
  /\ i.version \in Int /\ i.members \subseteq MayHold(o) /\ i.hasFaults \in BOOLEAN
  /\ IsStored(o) /\ KnowsFaults(i)

InstancesOK(inst) ==
  /\ inst = [o \in Objects |-> inst[o]]
  /\ \A o \in Objects : inst[o] = nil \/ IsLoaded(o, inst[o])

\* No instance is lost between two states of the context.
Keeps(inst, later) == \A o \in Objects : IsLoaded(o, inst[o]) => IsLoaded(o, later[o])

\* A leaf has no members.
LEMMA LeafHoldsNothing == \A o \in Objects : o \notin Groups => MayHold(o) = {}
<1>1. ASSUME NEW o \in Objects, NEW r \in MayHold(o) PROVE o \in Groups
  BY MayContainAssumption DEF MayHold
<1>2. QED
  BY <1>1

LEMMA RefsHeld ==
  ASSUME NEW o \in Objects, NEW r \in MayHold(o)
  PROVE  Instance(r.of) \in MayHold(o) /\ Fault(r.of) \in MayHold(o)
         /\ \A v \in Int : Stale(r.of, v) \in MayHold(o)
BY DEF MayHold, AnyRef, Instance, Fault, Stale

LEMMA ReadHeld ==
  ASSUME NEW o \in Objects, NEW r \in MayHold(o), NEW inst
  PROVE  Read(inst, r) \in MayHold(o)
BY RefsHeld DEF Read

LEMMA PlayedHeld ==
  ASSUME NEW o \in Objects, NEW inst, NEW refs \in SUBSET MayHold(o),
         NEW file \in AnyFile, file.members \subseteq MayHold(o)
  PROVE  Played(inst, refs, file) \in SUBSET MayHold(o)
<1> DEFINE member == {Read(inst, r) : r \in file.members}
<1>1. member \subseteq MayHold(o)
  BY ReadHeld
<1>2. /\ file.is = "snapshot" => Played(inst, refs, file) = member
      /\ file.is = "addMember" => Played(inst, refs, file) = refs \cup {r \in member : ~HasEqual(inst, refs, r)}
      /\ file.is = "removeMember" => Played(inst, refs, file) = {s \in refs : \A r \in member : ~IsEqual(inst, s, r)}
      /\ file.is = "change" => Played(inst, refs, file) = refs
  BY DEF Played
<1>3. file.is \in {"snapshot", "addMember", "removeMember", "change"}
  BY DEF AnyFile
<1> HIDE DEF member
<1>4. QED
  BY <1>1, <1>2, <1>3

------------------------------------------------------------------------------
(* The playback of the files. *)

Base(files, v) == Max({s \in 0..v : files[s + 1].is = "snapshot"})

\* f is the members after each file, up to the one of version n.
IsPlayback(f, inst, files, b, n) ==
  f = [k \in b..n |-> Played(inst, IF k = b THEN {} ELSE f[k - 1], files[k + 1])]

LEMMA PlaybackExists ==
  ASSUME NEW inst, NEW files, NEW b \in Nat
  PROVE  \A n \in Nat : \E f : IsPlayback(f, inst, files, b, b + n)
<1> DEFINE S == {n \in Nat : \E f : IsPlayback(f, inst, files, b, b + n)}
<1>1. 0 \in S
  <2> DEFINE f == [k \in b..b + 0 |-> Played(inst, {}, files[k + 1])]
  <2>1. f = [k \in b..b + 0 |-> Played(inst, IF k = b THEN {} ELSE f[k - 1], files[k + 1])]
    OBVIOUS
  <2>2. IsPlayback(f, inst, files, b, b + 0)
    BY <2>1 DEF IsPlayback
  <2> HIDE DEF f
  <2>3. QED
    BY <2>2
<1>2. ASSUME NEW n \in S PROVE n + 1 \in S
  <2>1. PICK f : IsPlayback(f, inst, files, b, b + n)
    OBVIOUS
  <2> DEFINE g == [k \in b..b + (n + 1) |->
                     IF k = b + (n + 1) THEN Played(inst, f[k - 1], files[k + 1]) ELSE f[k]]
  <2>2. n \in Nat
    OBVIOUS
  <2>3. \A k \in b..b + n : g[k] = f[k]
    BY <2>2
  <2>4. \A k \in b..b + n : f[k] = Played(inst, IF k = b THEN {} ELSE f[k - 1], files[k + 1])
    BY <2>1 DEF IsPlayback
  <2>5. ASSUME NEW k \in b..b + (n + 1)
        PROVE  g[k] = Played(inst, IF k = b THEN {} ELSE g[k - 1], files[k + 1])
    <3>1. CASE k = b + (n + 1)
      <4>1. k # b /\ k - 1 \in b..b + n
        BY <3>1, <2>2
      <4>2. g[k - 1] = f[k - 1]
        BY <4>1, <2>3
      <4>3. g[k] = Played(inst, f[k - 1], files[k + 1])
        BY <3>1
      <4>4. QED
        BY <4>1, <4>2, <4>3
    <3>2. CASE k = b
      <4>1. k \in b..b + n
        BY <3>2, <2>2
      <4>2. QED
        BY <3>2, <4>1, <2>3, <2>4
    <3>3. CASE k \in b..b + n /\ k # b
      <4>1. k - 1 \in b..b + n
        BY <3>3, <2>2
      <4>2. g[k - 1] = f[k - 1] /\ g[k] = f[k]
        BY <4>1, <3>3, <2>3
      <4>3. QED
        BY <4>2, <3>3, <2>4
    <3>4. QED
      BY <3>1, <3>2, <3>3, <2>2
  <2>6. g = [k \in b..b + (n + 1) |-> g[k]]
    OBVIOUS
  <2> HIDE DEF g
  <2>7. IsPlayback(g, inst, files, b, b + (n + 1))
    BY <2>5, <2>6 DEF IsPlayback
  <2>8. QED
    BY <2>7
<1>3. S \in SUBSET Nat
  OBVIOUS
<1> HIDE DEF S
<1>4. S = Nat
  BY <1>1, <1>2, <1>3, Induction
<1>5. QED
  BY <1>4 DEF S

(* Whatever is in memory when an object is read, what it holds may be held:   *)
(* -lookUpObjectForUUID: makes faults of it, nothing else.                    *)
LEMMA PlaybackHeld ==
  ASSUME StoredInv, NEW o \in Objects, NEW v \in 0..LastVersion(o), NEW inst
  PROVE  Playback(inst, o, v) \in SUBSET MayHold(o)
<1>1. PICK files : files = stored[o]
  OBVIOUS
<1>2. FilesOK(o, files)
  BY <1>1 DEF StoredInv
<1>3. v \in Nat /\ Len(files) \in Nat /\ v + 1 \in 1..Len(files) /\ files # <<>>
  BY <1>1, <1>2 DEF LastVersion, FilesOK
<1> DEFINE S == {s \in 0..v : files[s + 1].is = "snapshot"}
<1>4. 0 \in S
  BY <1>2, <1>3 DEF FilesOK
<1>5. PICK b : b = Base(files, v) /\ b \in 0..v
  <2>1. S \in SUBSET (0..v) /\ S # {}
    BY <1>4
  <2>2. Max(S) \in S
    BY <1>3, <2>1, MaxIs
  <2>3. Max(S) \in 0..v
    BY <2>2
  <2>4. QED
    BY <2>3 DEF Base
<1>6. \E f : IsPlayback(f, inst, files, b, v)
  <2>1. b \in Nat /\ v - b \in Nat /\ v = b + (v - b)
    BY <1>3, <1>5
  <2>2. \E f : IsPlayback(f, inst, files, b, b + (v - b))
    BY <2>1, PlaybackExists
  <2>3. QED
    BY <2>1, <2>2
<1>7. PICK f : IsPlayback(f, inst, files, b, v) /\ Playback(inst, o, v) = f[v]
  <2>1. PICK f : f = CHOOSE h : IsPlayback(h, inst, files, b, v)
    OBVIOUS
  <2>2. IsPlayback(f, inst, files, b, v)
    BY <1>6, <2>1
  <2>3. Playback(inst, o, v) = f[v]
    BY <1>1, <1>5, <2>1 DEF Playback, IsPlayback, Base
  <2>4. QED
    BY <2>2, <2>3
<1>8. \A k \in b..v : f[k] = Played(inst, IF k = b THEN {} ELSE f[k - 1], files[k + 1])
  BY <1>7 DEF IsPlayback
<1> DEFINE T == {n \in Nat : b + n <= v => f[b + n] \in SUBSET MayHold(o)}
<1>9. ASSUME NEW k \in b..v, NEW refs \in SUBSET MayHold(o), f[k] = Played(inst, refs, files[k + 1])
      PROVE  f[k] \in SUBSET MayHold(o)
  <2>1. k + 1 \in 1..Len(files)
    BY <1>3, <1>5
  <2>2. files[k + 1] \in AnyFile /\ files[k + 1].members \subseteq MayHold(o)
    BY <1>2, <2>1 DEF FilesOK
  <2>3. QED
    BY <1>9, <2>2, PlayedHeld
<1>10. 0 \in T
  <2>1. b \in b..v /\ b + 0 = b
    BY <1>3, <1>5
  <2>2. f[b] = Played(inst, {}, files[b + 1])
    BY <2>1, <1>8
  <2>3. QED
    BY <2>1, <2>2, <1>9
<1>11. ASSUME NEW n \in T PROVE n + 1 \in T
  <2> SUFFICES ASSUME b + (n + 1) <= v PROVE f[b + (n + 1)] \in SUBSET MayHold(o)
    OBVIOUS
  <2>1. PICK k : k = b + (n + 1) /\ k \in b..v /\ k # b /\ k - 1 = b + n /\ b + n <= v
    BY <1>3, <1>5
  <2>2. f[k - 1] \in SUBSET MayHold(o)
    BY <2>1
  <2>3. f[k] = Played(inst, f[k - 1], files[k + 1])
    BY <2>1, <1>8
  <2>4. QED
    BY <2>1, <2>2, <2>3, <1>9
<1> HIDE DEF T
<1>12. T = Nat
  <2>1. T \in SUBSET Nat
    BY DEF T
  <2>2. QED
    BY <1>10, <1>11, <2>1, Induction
<1>13. v - b \in T /\ b + (v - b) = v
  BY <1>3, <1>5, <1>12
<1>14. QED
  BY <1>7, <1>13 DEF T

------------------------------------------------------------------------------
(* What happens to the instances. *)

LEMMA LoadKeeps ==
  ASSUME StoredInv, NEW inst, InstancesOK(inst), NEW o \in Objects, IsStored(o)
  PROVE  InstancesOK(Load(inst, o)) /\ IsLoaded(o, Load(inst, o)[o]) /\ Keeps(inst, Load(inst, o))
<1>1. PICK v : v = LastVersion(o) /\ v \in 0..LastVersion(o)
  <2>1. FilesOK(o, stored[o])
    BY DEF StoredInv
  <2>2. Len(stored[o]) \in Nat /\ Len(stored[o]) # 0
    BY <2>1 DEF FilesOK, IsStored
  <2>3. LastVersion(o) \in 0..LastVersion(o)
    BY <2>2 DEF LastVersion
  <2>4. QED
    BY <2>3
<1>2. PICK refs : refs = Playback(inst, o, v) /\ refs \in SUBSET MayHold(o)
  BY <1>1, PlaybackHeld
<1>3. PICK i : i = [version |-> v, members |-> refs, hasFaults |-> o \in Groups]
  OBVIOUS
<1>4. IsLoaded(o, i)
  <2>1. i.version = v /\ i.members = refs /\ i.hasFaults = (o \in Groups)
    BY <1>3
  <2>2. o \notin Groups => refs = {}
    BY <1>2, LeafHoldsNothing
  <2>3. KnowsFaults(i)
    BY <2>1, <2>2 DEF KnowsFaults
  <2>4. v \in Int
    BY <1>1
  <2>5. QED
    BY <1>2, <1>3, <2>1, <2>3, <2>4 DEF IsLoaded
<1>5. Load(inst, o) = [inst EXCEPT ![o] = i]
  BY <1>1, <1>2, <1>3 DEF Load
<1>6. PICK j : j = [inst EXCEPT ![o] = i]
  OBVIOUS
<1>7. j = [q \in Objects |-> j[q]] /\ j[o] = i /\ \A q \in Objects : q # o => j[q] = inst[q]
  BY <1>6 DEF InstancesOK
<1>8. QED
  BY <1>4, <1>5, <1>6, <1>7 DEF InstancesOK, Keeps

\* f is the instances after each of the first n objects of an order was met.
Meet(i, faults, x) == IF x \in faults /\ i[x] = nil THEN Load(i, x) ELSE i
IsMet(f, inst, faults, order, n) ==
  f = [k \in 0..n |-> IF k = 0 THEN inst
                      ELSE IF order[k] \in faults /\ f[k - 1][order[k]] = nil THEN Load(f[k - 1], order[k])
                      ELSE f[k - 1]]

LEMMA MetExists ==
  ASSUME NEW inst, NEW faults, NEW order
  PROVE  \A n \in Nat : \E f : IsMet(f, inst, faults, order, n)
<1> DEFINE S == {n \in Nat : \E f : IsMet(f, inst, faults, order, n)}
<1>1. 0 \in S
  <2> DEFINE f == [k \in 0..0 |-> inst]
  <2>1. f = [k \in 0..0 |-> IF k = 0 THEN inst
                            ELSE IF order[k] \in faults /\ f[k - 1][order[k]] = nil THEN Load(f[k - 1], order[k])
                            ELSE f[k - 1]]
    OBVIOUS
  <2>2. IsMet(f, inst, faults, order, 0)
    BY <2>1 DEF IsMet
  <2> HIDE DEF f
  <2>3. QED
    BY <2>2
<1>2. ASSUME NEW n \in S PROVE n + 1 \in S
  <2>1. PICK f : IsMet(f, inst, faults, order, n)
    OBVIOUS
  <2> DEFINE g == [k \in 0..n + 1 |-> IF k = n + 1 THEN Meet(f[k - 1], faults, order[k]) ELSE f[k]]
  <2>2. n \in Nat
    OBVIOUS
  <2>3. \A k \in 0..n : g[k] = f[k]
    BY <2>2
  <2>4. \A k \in 0..n : f[k] = IF k = 0 THEN inst ELSE Meet(f[k - 1], faults, order[k])
    BY <2>1 DEF IsMet, Meet
  <2>5. ASSUME NEW k \in 0..n + 1
        PROVE  g[k] = IF k = 0 THEN inst ELSE Meet(g[k - 1], faults, order[k])
    <3>1. CASE k = n + 1
      <4>1. k # 0 /\ k - 1 \in 0..n
        BY <3>1, <2>2
      <4>2. g[k - 1] = f[k - 1]
        BY <4>1, <2>3
      <4>3. g[k] = Meet(f[k - 1], faults, order[k])
        BY <3>1
      <4>4. QED
        BY <4>1, <4>2, <4>3
    <3>2. CASE k = 0
      <4>1. k \in 0..n
        BY <3>2, <2>2
      <4>2. QED
        BY <3>2, <4>1, <2>3, <2>4
    <3>3. CASE k \in 0..n /\ k # 0
      <4>1. k - 1 \in 0..n
        BY <3>3, <2>2
      <4>2. g[k - 1] = f[k - 1] /\ g[k] = f[k]
        BY <4>1, <3>3, <2>3
      <4>3. QED
        BY <4>2, <3>3, <2>4
    <3>4. QED
      BY <3>1, <3>2, <3>3, <2>2
  <2>6. g = [k \in 0..n + 1 |-> g[k]]
    OBVIOUS
  <2> HIDE DEF g
  <2>7. g = [k \in 0..n + 1 |-> IF k = 0 THEN inst ELSE Meet(g[k - 1], faults, order[k])]
    BY <2>5, <2>6
  <2>8. IsMet(g, inst, faults, order, n + 1)
    BY <2>7 DEF IsMet, Meet
  <2>9. QED
    BY <2>8
<1>3. S \in SUBSET Nat
  OBVIOUS
<1> HIDE DEF S
<1>4. S = Nat
  BY <1>1, <1>2, <1>3, Induction
<1>5. QED
  BY <1>4 DEF S

(* Every fault that is met and not in memory is loaded, the others stay. *)
LEMMA MetKeeps ==
  ASSUME StoredInv, NEW inst, InstancesOK(inst), NEW faults, \A x \in faults : x \in Objects /\ IsStored(x),
         NEW order, NEW n \in Nat
  PROVE  InstancesOK(Met(inst, faults, order, n)) /\ Keeps(inst, Met(inst, faults, order, n))
<1>1. PICK f : IsMet(f, inst, faults, order, n) /\ Met(inst, faults, order, n) = f[n]
  <2>1. \E f : IsMet(f, inst, faults, order, n)
    BY MetExists
  <2>2. PICK f : f = CHOOSE h : IsMet(h, inst, faults, order, n)
    OBVIOUS
  <2>3. IsMet(f, inst, faults, order, n)
    BY <2>1, <2>2
  <2>4. Met(inst, faults, order, n) = f[n]
    BY <2>2 DEF Met, IsMet
  <2>5. QED
    BY <2>3, <2>4
<1>2. \A k \in 0..n : f[k] = IF k = 0 THEN inst ELSE Meet(f[k - 1], faults, order[k])
  BY <1>1 DEF IsMet, Meet
<1> DEFINE T == {k \in Nat : k <= n => InstancesOK(f[k]) /\ Keeps(inst, f[k])}
<1>3. 0 \in T
  <2>1. f[0] = inst
    BY <1>2
  <2>2. QED
    BY <2>1 DEF Keeps
<1>4. ASSUME NEW k \in T PROVE k + 1 \in T
  <2> SUFFICES ASSUME k + 1 <= n PROVE InstancesOK(f[k + 1]) /\ Keeps(inst, f[k + 1])
    OBVIOUS
  <2>1. k + 1 \in 0..n /\ k + 1 # 0 /\ (k + 1) - 1 = k /\ k <= n
    OBVIOUS
  <2>2. PICK i, x : i = f[k] /\ x = order[k + 1] /\ f[k + 1] = Meet(i, faults, x)
    BY <1>2, <2>1
  <2>3. InstancesOK(i) /\ Keeps(inst, i)
    BY <2>1, <2>2
  <2>4. CASE x \in faults /\ i[x] = nil
    <3>1. InstancesOK(Load(i, x)) /\ Keeps(i, Load(i, x))
      BY <2>3, <2>4, LoadKeeps
    <3>2. f[k + 1] = Load(i, x)
      BY <2>2, <2>4 DEF Meet
    <3>3. QED
      BY <2>3, <3>1, <3>2 DEF Keeps
  <2>5. CASE ~(x \in faults /\ i[x] = nil)
    BY <2>2, <2>3, <2>5 DEF Meet
  <2>6. QED
    BY <2>4, <2>5
<1> HIDE DEF T
<1>5. T = Nat
  <2>1. T \in SUBSET Nat
    BY DEF T
  <2>2. QED
    BY <1>3, <1>4, <2>1, Induction
<1>6. QED
  BY <1>1, <1>5 DEF T

LEMMA CountIs == Cardinality(Objects) \in Nat
BY KindsAssumption, FS_CardinalityType

\* i with other members, and what it says of its faults.
LEMMA LoadedWith ==
  ASSUME NEW o \in Objects, NEW i, IsLoaded(o, i), NEW refs \in SUBSET MayHold(o), NEW b \in BOOLEAN,
         (\E r \in refs : r.is = "fault") => b,
         NEW j, j = [version |-> i.version, members |-> refs, hasFaults |-> b]
  PROVE  IsLoaded(o, j) /\ j.members = refs /\ j.hasFaults = b /\ j.version = i.version
<1>1. j.version = i.version /\ j.members = refs /\ j.hasFaults = b
  OBVIOUS
<1>2. QED
  BY <1>1 DEF IsLoaded, KnowsFaults

(* -resolveFaults leaves no fault in the group. *)
LEMMA ResolveKeeps ==
  ASSUME StoredInv, NEW inst, InstancesOK(inst), NEW g \in Objects, IsLoaded(g, inst[g]), NEW order
  PROVE  /\ InstancesOK(Resolve(inst, g, order)) /\ Keeps(inst, Resolve(inst, g, order))
         /\ \A r \in Resolve(inst, g, order)[g].members : r.is # "fault"
<1>1. CASE ~inst[g].hasFaults
  <2>1. Resolve(inst, g, order) = inst
    BY <1>1 DEF Resolve
  <2>2. \A r \in inst[g].members : r.is # "fault"
    BY <1>1 DEF IsLoaded, KnowsFaults
  <2>3. QED
    BY <2>1, <2>2 DEF Keeps
<1>2. CASE inst[g].hasFaults
  <2>1. PICK faults : /\ faults = {r.of : r \in {s \in inst[g].members : s.is = "fault"}}
                      /\ \A x \in faults : x \in Objects /\ IsStored(x)
    <3>1. \A r \in inst[g].members : r.of \in Objects /\ IsStored(r.of)
      BY DEF IsLoaded, MayHold, AnyRef
    <3>2. \A x \in {r.of : r \in {s \in inst[g].members : s.is = "fault"}} : x \in Objects /\ IsStored(x)
      BY <3>1
    <3>3. QED
      BY <3>2
  <2>2. PICK i : i = Met(inst, faults, order, Cardinality(Objects)) /\ InstancesOK(i) /\ Keeps(inst, i)
    BY <2>1, CountIs, MetKeeps
  <2>3. IsLoaded(g, i[g])
    BY <2>2 DEF Keeps
  <2>4. PICK refs : refs = {IF r.is = "fault" THEN Instance(r.of) ELSE r : r \in i[g].members}
    OBVIOUS
  <2>5. refs \in SUBSET MayHold(g) /\ \A r \in refs : r.is # "fault"
    <3>1. ASSUME NEW r \in i[g].members
          PROVE  /\ (IF r.is = "fault" THEN Instance(r.of) ELSE r) \in MayHold(g)
                 /\ (IF r.is = "fault" THEN Instance(r.of) ELSE r).is # "fault"
      <4>1. r \in MayHold(g)
        BY <2>3 DEF IsLoaded
      <4>2. Instance(r.of) \in MayHold(g) /\ Instance(r.of).is # "fault"
        BY <4>1, RefsHeld DEF Instance
      <4>3. QED
        BY <4>1, <4>2
    <3>2. QED
      BY <2>4, <3>1
  <2>6. PICK h : /\ h = [version |-> i[g].version, members |-> refs, hasFaults |-> FALSE]
                 /\ IsLoaded(g, h) /\ h.members = refs
    <3>1. PICK l, h : l = i[g] /\ h = [version |-> l.version, members |-> refs, hasFaults |-> FALSE]
      OBVIOUS
    <3>2. IsLoaded(g, l)
      BY <3>1, <2>3
    <3>3. IsLoaded(g, h) /\ h.members = refs
      <4>1. h.version = l.version /\ h.members = refs /\ h.hasFaults = FALSE
        BY <3>1
      <4>2. KnowsFaults(h)
        BY <4>1, <2>5 DEF KnowsFaults
      <4>3. QED
        BY <4>1, <4>2, <3>1, <3>2, <2>5 DEF IsLoaded
    <3>4. QED
      BY <3>1, <3>3
  <2>7. PICK j : j = [i EXCEPT ![g] = h]
    OBVIOUS
  <2>8. Resolve(inst, g, order) = j
    <3>1. Resolve(inst, g, order) = [i EXCEPT ![g] = [[@ EXCEPT !.members = refs] EXCEPT !.hasFaults = FALSE]]
      BY <1>2, <2>1, <2>2, <2>4 DEF Resolve, InstancesOK
    <3>2. [[i[g] EXCEPT !.members = refs] EXCEPT !.hasFaults = FALSE] = h
      BY <2>3, <2>6 DEF IsLoaded
    <3>3. QED
      BY <3>1, <3>2, <2>7
  <2>9. j = [q \in Objects |-> j[q]] /\ j[g] = h /\ \A q \in Objects : q # g => j[q] = i[q]
    BY <2>2, <2>7 DEF InstancesOK
  <2>10. InstancesOK(j) /\ Keeps(inst, j)
    BY <2>2, <2>6, <2>9 DEF InstancesOK, Keeps
  <2>11. QED
    BY <2>5, <2>6, <2>8, <2>9, <2>10
<1>3. QED
  BY <1>1, <1>2

(* The references to what leaves the context become stale, no more. *)
LEMMA LeftKeeps ==
  ASSUME NEW inst, InstancesOK(inst), NEW objects \in SUBSET Objects,
         \A q \in objects : IsLoaded(q, inst[q])
  PROVE  InstancesOK(Left(inst, objects)) /\ Keeps(inst, Left(inst, objects))
<1> DEFINE j == Left(inst, objects)
<1>1. /\ j = [o \in Objects |-> j[o]]
      /\ \A o \in Objects : j[o] = IF inst[o] = nil THEN nil ELSE
           [inst[o] EXCEPT !.members =
              {IF r.is = "instance" /\ r.of \in objects THEN Stale(r.of, inst[r.of].version) ELSE r : r \in @}]
  BY DEF Left
<1> HIDE DEF j
<1>2. ASSUME NEW o \in Objects, inst[o] # nil, IsLoaded(o, inst[o])
      PROVE  IsLoaded(o, j[o])
  <2>1. PICK refs : refs = {IF r.is = "instance" /\ r.of \in objects THEN Stale(r.of, inst[r.of].version) ELSE r :
                            r \in inst[o].members}
    OBVIOUS
  <2>2. ASSUME NEW r \in inst[o].members, NEW s,
               s = IF r.is = "instance" /\ r.of \in objects THEN Stale(r.of, inst[r.of].version) ELSE r
        PROVE  s \in MayHold(o) /\ (s.is = "fault" => r.is = "fault")
    <3>1. r \in MayHold(o)
      BY <1>2 DEF IsLoaded
    <3>2. CASE r.is = "instance" /\ r.of \in objects
      <4>1. PICK v : v = inst[r.of].version /\ v \in Int
        BY <3>2 DEF IsLoaded
      <4>2. s = Stale(r.of, v)
        BY <2>2, <3>2, <4>1
      <4>3. Stale(r.of, v) \in MayHold(o) /\ Stale(r.of, v).is # "fault"
        BY <3>1, <4>1, RefsHeld DEF Stale
      <4>4. QED
        BY <4>2, <4>3
    <3>3. CASE ~(r.is = "instance" /\ r.of \in objects)
      BY <2>2, <3>1, <3>3
    <3>4. QED
      BY <3>2, <3>3
  <2>3. refs \in SUBSET MayHold(o)
        /\ ((\E s \in refs : s.is = "fault") => \E r \in inst[o].members : r.is = "fault")
    BY <2>1, <2>2
  <2>4. PICK i, h : /\ i = inst[o] /\ IsLoaded(o, i)
                    /\ h = [version |-> i.version, members |-> refs, hasFaults |-> i.hasFaults]
    BY <1>2
  <2>5. i.hasFaults \in BOOLEAN /\ ((\E s \in refs : s.is = "fault") => i.hasFaults)
    BY <2>3, <2>4 DEF IsLoaded, KnowsFaults
  <2>6. IsLoaded(o, h)
    BY <2>3, <2>4, <2>5, LoadedWith
  <2>7. j[o] = [i EXCEPT !.members = refs]
    BY <1>1, <1>2, <2>1, <2>4
  <2>8. [i EXCEPT !.members = refs] = h
    BY <2>4 DEF IsLoaded
  <2>9. QED
    BY <2>6, <2>7, <2>8
<1>3. \A o \in Objects : inst[o] = nil => j[o] = inst[o]
  BY <1>1
<1>4. QED
  BY <1>1, <1>2, <1>3 DEF InstancesOK, Keeps, j

(* The groups that held the instance that was replaced hold the new one, and  *)
(* no fault they did not hold.                                                *)
LEMMA UpdateKeeps ==
  ASSUME NEW inst, InstancesOK(inst), NEW o \in Objects, IsStored(o), NEW old
  PROVE  /\ InstancesOK(Update(inst, o, old)) /\ Keeps(inst, Update(inst, o, old))
         /\ \A g \in Objects : IsLoaded(g, inst[g]) /\ (\A r \in inst[g].members : r.is # "fault") =>
              \A r \in Update(inst, o, old)[g].members : r.is # "fault"
<1> DEFINE j == Update(inst, o, old)
           s == Stale(o, old.version)
<1>1. /\ j = [g \in Objects |-> j[g]]
      /\ \A g \in Objects : j[g] =
           IF inst[g] = nil \/ ~HasEqual(inst, inst[g].members, s) THEN inst[g]
           ELSE [inst[g] EXCEPT !.members = Without(inst, @, s) \cup {Instance(o)}]
  BY DEF Update
<1> HIDE DEF j, s
<1>2. ASSUME NEW g \in Objects, IsLoaded(g, inst[g])
      PROVE  /\ IsLoaded(g, j[g])
             /\ (\A r \in inst[g].members : r.is # "fault") => \A r \in j[g].members : r.is # "fault"
  <2>1. CASE inst[g] = nil \/ ~HasEqual(inst, inst[g].members, s)
    BY <1>1, <1>2, <2>1
  <2>2. CASE inst[g] # nil /\ HasEqual(inst, inst[g].members, s)
    <3>1. PICK r \in inst[g].members : r.of = o
      BY <2>2 DEF HasEqual, IsEqual, s, Stale
    <3>2. r \in MayHold(g)
      BY <1>2 DEF IsLoaded
    <3>3. Instance(o) \in MayHold(g) /\ Instance(o).is # "fault"
      BY <3>1, <3>2, RefsHeld DEF Instance
    <3>4. PICK refs : refs = Without(inst, inst[g].members, s) \cup {Instance(o)}
      OBVIOUS
    <3>5. Without(inst, inst[g].members, s) \subseteq inst[g].members
      BY DEF Without
    <3>6. refs \in SUBSET MayHold(g)
          /\ ((\E q \in refs : q.is = "fault") => \E q \in inst[g].members : q.is = "fault")
      BY <1>2, <3>3, <3>4, <3>5 DEF IsLoaded
    <3>7. PICK i, h : /\ i = inst[g] /\ IsLoaded(g, i)
                      /\ h = [version |-> i.version, members |-> refs, hasFaults |-> i.hasFaults]
      BY <1>2
    <3>8. i.hasFaults \in BOOLEAN /\ ((\E q \in refs : q.is = "fault") => i.hasFaults)
      BY <3>6, <3>7 DEF IsLoaded, KnowsFaults
    <3>9. IsLoaded(g, h) /\ h.members = refs
      BY <3>6, <3>7, <3>8, LoadedWith
    <3>10. j[g] = [i EXCEPT !.members = refs]
      BY <1>1, <2>2, <3>4, <3>7
    <3>11. [i EXCEPT !.members = refs] = h
      BY <3>7 DEF IsLoaded
    <3>12. QED
      BY <3>6, <3>9, <3>10, <3>11
  <2>3. QED
    BY <2>1, <2>2
<1>3. \A g \in Objects : inst[g] = nil => j[g] = inst[g]
  BY <1>1
<1>4. QED
  BY <1>1, <1>2, <1>3 DEF InstancesOK, Keeps, j

PolicyInv == policy \in {"old", "existing", "union", "intersection"}

LEMMA MergeWithin ==
  ASSUME PolicyInv, NEW inst, NEW existing, NEW old
  PROVE  Merge(inst, existing, old) \subseteq existing \cup old
<1>1. /\ policy = "old" => Merge(inst, existing, old) = old
      /\ policy = "existing" => Merge(inst, existing, old) = existing
      /\ policy = "union" => Merge(inst, existing, old) = old \cup {r \in existing : ~HasEqual(inst, old, r)}
      /\ policy = "intersection" => Merge(inst, existing, old) = {r \in old : HasEqual(inst, existing, r)}
  BY DEF Merge
<1>2. QED
  BY <1>1 DEF PolicyInv

LEMMA ResolveIfGroupKeeps ==
  ASSUME StoredInv, NEW inst, InstancesOK(inst), NEW o \in Objects, IsLoaded(o, inst[o]), NEW order
  PROVE  /\ InstancesOK(ResolveIfGroup(inst, o, order)) /\ Keeps(inst, ResolveIfGroup(inst, o, order))
         /\ IsLoaded(o, ResolveIfGroup(inst, o, order)[o])
         /\ o \in Groups => \A r \in ResolveIfGroup(inst, o, order)[o].members : r.is # "fault"
BY ResolveKeeps DEF ResolveIfGroup, Keeps

(* The replacement of an instance, with its merge and the version it gets. *)
LEMMA ReplaceKeeps ==
  ASSUME StoredInv, PolicyInv, NEW inst, InstancesOK(inst), NEW o \in Objects, IsLoaded(o, inst[o]),
         NEW v \in Int, NEW refs \in SUBSET MayHold(o), NEW order
  PROVE  InstancesOK(Replace(inst, o, v, refs, order)) /\ IsLoaded(o, Replace(inst, o, v, refs, order)[o])
<1>1. PICK resolved : resolved = ResolveIfGroup(inst, o, order)
  OBVIOUS
<1>2. /\ InstancesOK(resolved) /\ IsLoaded(o, resolved[o])
      /\ o \in Groups => \A r \in resolved[o].members : r.is # "fault"
  BY <1>1, ResolveIfGroupKeeps
<1>3. PICK old, i : old = resolved[o] /\ i = [version |-> v, members |-> refs, hasFaults |-> o \in Groups]
  OBVIOUS
<1>4. IsLoaded(o, i)
  <2>1. i.version = v /\ i.members = refs /\ i.hasFaults = (o \in Groups)
    BY <1>3
  <2>2. o \notin Groups => refs = {}
    BY LeafHoldsNothing
  <2>3. KnowsFaults(i)
    BY <2>1, <2>2 DEF KnowsFaults
  <2>4. QED
    BY <1>3, <2>1, <2>3 DEF IsLoaded
<1>5. PICK swapped : swapped = [Left(resolved, {o}) EXCEPT ![o] = i]
  OBVIOUS
<1>6. InstancesOK(swapped) /\ IsLoaded(o, swapped[o])
  <2>1. PICK l : l = Left(resolved, {o}) /\ InstancesOK(l)
    BY <1>2, LeftKeeps
  <2>2. /\ swapped = [q \in Objects |-> swapped[q]] /\ swapped[o] = i
        /\ \A q \in Objects : q # o => swapped[q] = l[q]
    BY <1>5, <2>1 DEF InstancesOK
  <2>3. QED
    BY <1>4, <2>1, <2>2 DEF InstancesOK
<1>7. PICK again : again = ResolveIfGroup(swapped, o, order)
  OBVIOUS
<1>8. /\ InstancesOK(again) /\ IsLoaded(o, again[o])
      /\ o \in Groups => \A r \in again[o].members : r.is # "fault"
  BY <1>6, <1>7, ResolveIfGroupKeeps
<1>9. PICK linked : linked = Update(again, o, old)
  OBVIOUS
<1>10. /\ InstancesOK(linked) /\ IsLoaded(o, linked[o])
       /\ o \in Groups => \A r \in linked[o].members : r.is # "fault"
  <2>1. IsStored(o)
    BY <1>2 DEF IsLoaded
  <2>2. /\ InstancesOK(linked) /\ Keeps(again, linked)
        /\ \A g \in Objects : IsLoaded(g, again[g]) /\ (\A r \in again[g].members : r.is # "fault") =>
             \A r \in linked[g].members : r.is # "fault"
    BY <1>8, <1>9, <2>1, UpdateKeeps
  <2>3. QED
    BY <1>8, <2>2 DEF Keeps
<1>11. PICK merged : merged = IF o \in Groups THEN Merge(linked, old.members, linked[o].members) ELSE linked[o].members
  OBVIOUS
<1>12. merged \in SUBSET MayHold(o) /\ ((\E r \in merged : r.is = "fault") => linked[o].hasFaults)
  <2>1. old.members \subseteq MayHold(o) /\ linked[o].members \subseteq MayHold(o)
    BY <1>2, <1>3, <1>10 DEF IsLoaded
  <2>2. CASE o \in Groups
    <3>1. merged \subseteq old.members \cup linked[o].members
      BY <1>11, <2>2, MergeWithin
    <3>2. \A r \in old.members \cup linked[o].members : r.is # "fault"
      BY <1>2, <1>3, <1>10, <2>2
    <3>3. QED
      BY <2>1, <3>1, <3>2
  <2>3. CASE o \notin Groups
    <3>1. KnowsFaults(linked[o])
      BY <1>10 DEF IsLoaded
    <3>2. QED
      BY <1>11, <2>1, <2>3, <3>1 DEF KnowsFaults
  <2>4. QED
    BY <2>2, <2>3
<1>13. PICK l, h : /\ l = linked[o] /\ IsLoaded(o, l)
                   /\ h = [version |-> old.version + 1, members |-> merged, hasFaults |-> l.hasFaults]
  BY <1>10
<1>14. IsLoaded(o, h)
  <2>1. h.version = old.version + 1 /\ h.members = merged /\ h.hasFaults = l.hasFaults
    BY <1>13
  <2>2. old.version + 1 \in Int
    BY <1>2, <1>3 DEF IsLoaded
  <2>3. KnowsFaults(h)
    BY <1>12, <1>13, <2>1 DEF KnowsFaults
  <2>4. QED
    BY <1>12, <1>13, <2>1, <2>2, <2>3 DEF IsLoaded
<1>15. Replace(inst, o, v, refs, order) = [linked EXCEPT ![o] = h]
  <2>1. Replace(inst, o, v, refs, order) =
          [linked EXCEPT ![o].members = IF o \in Groups THEN Merge(linked, old.members, @) ELSE @,
                         ![o].version = old.version + 1]
    BY <1>1, <1>3, <1>5, <1>7, <1>9 DEF Replace
  <2>2. Replace(inst, o, v, refs, order) =
          [linked EXCEPT ![o] = [[l EXCEPT !.members = merged] EXCEPT !.version = old.version + 1]]
    BY <2>1, <1>10, <1>11, <1>13 DEF InstancesOK
  <2>3. [[l EXCEPT !.members = merged] EXCEPT !.version = old.version + 1] = h
    <3>1. PICK n, m, b : l = [version |-> n, members |-> m, hasFaults |-> b]
      BY <1>13 DEF IsLoaded
    <3>2. l.hasFaults = b
      BY <3>1
    <3>3. [l EXCEPT !.members = merged] = [version |-> n, members |-> merged, hasFaults |-> b]
      BY <3>1
    <3>4. h = [version |-> old.version + 1, members |-> merged, hasFaults |-> b]
      BY <1>13, <3>2
    <3>5. PICK c : c = old.version + 1
      OBVIOUS
    <3>6. [[version |-> n, members |-> merged, hasFaults |-> b] EXCEPT !.version = c]
            = [version |-> c, members |-> merged, hasFaults |-> b]
      OBVIOUS
    <3>7. QED
      BY <3>3, <3>4, <3>5, <3>6
  <2>4. QED
    BY <2>2, <2>3
<1>16. PICK j : j = [linked EXCEPT ![o] = h]
  OBVIOUS
<1>17. j = [q \in Objects |-> j[q]] /\ j[o] = h /\ \A q \in Objects : q # o => j[q] = linked[q]
  BY <1>10, <1>16 DEF InstancesOK
<1>18. QED
  BY <1>10, <1>14, <1>15, <1>16, <1>17 DEF InstancesOK

LEMMA SnapshotHeld ==
  ASSUME NEW o \in Objects, NEW inst, IsLoaded(o, inst[o])
  PROVE  Snapshot(inst, o) \in AnyFile /\ Snapshot(inst, o).members \subseteq MayHold(o)
<1>1. \A r \in inst[o].members : Written(r) \in MayHold(o)
  BY RefsHeld DEF IsLoaded, Written
<1>2. {Written(r) : r \in inst[o].members} \subseteq MayHold(o)
  BY <1>1
<1>3. MayHold(o) \subseteq AnyRef
  BY DEF MayHold
<1>4. QED
  BY <1>2, <1>3 DEF Snapshot, AnyFile

------------------------------------------------------------------------------
(* The invariant. *)

AnyFound == UNION {[S -> Nat] : S \in SUBSET Objects}
AnyVersion == [found : AnyFound, origin : Int]

\* f names stored versions.
FoundOK(f) == f \in AnyFound /\ \A o \in DOMAIN f : o \in Objects /\ f[o] \in 0..LastVersion(o)

HistoryInv ==
  /\ history \in Seq(AnyVersion)
  /\ \A v \in 0..Len(history) : FoundOK(Found(v))

RestoringOK(r) ==
  /\ r = [to |-> r.to, todo |-> r.todo, rows |-> r.rows]
  /\ r.to \in 0..Len(history) /\ r.todo \subseteq DOMAIN Found(r.to) /\ FoundOK(r.rows)
RestoringInv == restoring = nil \/ RestoringOK(restoring)

GraphInv == StoredInv /\ InstancesOK(instance) /\ PolicyInv /\ HistoryInv /\ RestoringInv

LEMMA GraphInit == Init => GraphInv
<1> SUFFICES ASSUME Init PROVE GraphInv
  OBVIOUS
<1>1. StoredInv
  <2>1. \A o \in Objects : stored[o] = <<>>
    BY DEF Init
  <2>2. PICK none : none = <<>>
    OBVIOUS
  <2>3. none \in Seq(AnyFile) /\ Len(none) = 0
    BY <2>2
  <2>4. \A o \in Objects : FilesOK(o, none)
    BY <2>2, <2>3 DEF FilesOK
  <2>5. stored = [o \in Objects |-> stored[o]]
    BY DEF Init
  <2>6. QED
    BY <2>1, <2>2, <2>4, <2>5 DEF StoredInv
<1>2. InstancesOK(instance)
  BY DEF Init, InstancesOK
<1>3. HistoryInv
  <2>1. history = <<>> /\ history \in Seq(AnyVersion) /\ Len(history) = 0
    BY DEF Init
  <2>2. Found(0) = [o \in {} |-> 0]
    BY DEF Found
  <2>3. [o \in {} |-> 0] \in [{} -> Nat] /\ {} \in SUBSET Objects
    OBVIOUS
  <2>4. FoundOK(Found(0))
    BY <2>2, <2>3 DEF FoundOK, AnyFound
  <2>5. QED
    BY <2>1, <2>4 DEF HistoryInv
<1>4. QED
  BY <1>1, <1>2, <1>3 DEF Init, GraphInv, PolicyInv, RestoringInv

\* What was stored stays.
StoreGrows ==
  \A o \in Objects : /\ IsStored(o) => IsStored(o)'
                     /\ LastVersion(o) \in Int /\ LastVersion(o)' \in Int /\ LastVersion(o) <= LastVersion(o)'

LEMMA StoreSame == StoredInv /\ UNCHANGED stored => StoredInv' /\ StoreGrows
<1> SUFFICES ASSUME StoredInv, UNCHANGED stored PROVE StoredInv' /\ StoreGrows
  OBVIOUS
<1>1. StoredInv'
  BY DEF StoredInv, FilesOK, MayHold, IsStored
<1>2. \A o \in Objects : Len(stored[o]) \in Nat
  BY DEF StoredInv, FilesOK
<1>3. QED
  BY <1>1, <1>2 DEF StoreGrows, IsStored, LastVersion

LEMMA HeldStays == StoreGrows => \A o \in Objects : MayHold(o) \subseteq MayHold(o)'
BY DEF StoreGrows, MayHold, AnyRef

LEMMA LoadedStays ==
  ASSUME StoreGrows, NEW i, InstancesOK(i)
  PROVE  InstancesOK(i)'
<1>1. ASSUME NEW o \in Objects, IsLoaded(o, i[o]) PROVE IsLoaded(o, i[o])'
  BY <1>1, HeldStays DEF IsLoaded, StoreGrows, KnowsFaults
<1>2. QED
  BY <1>1 DEF InstancesOK

LEMMA FoundStays ==
  ASSUME StoreGrows, NEW f, FoundOK(f)
  PROVE  FoundOK(f)'
BY DEF StoreGrows, FoundOK

LEMMA Stores ==
  ASSUME StoredInv, NEW o \in Objects, NEW file \in AnyFile, file.members \subseteq MayHold(o),
         IsStored(o) \/ file.is = "snapshot",
         stored' = [stored EXCEPT ![o] = Append(@, file)]
  PROVE  StoredInv' /\ StoreGrows /\ IsStored(o)' /\ LastVersion(o)' = Len(stored[o])
<1>1. PICK files, more : files = stored[o] /\ more = Append(files, file)
  OBVIOUS
<1>2. FilesOK(o, files)
  BY <1>1 DEF StoredInv
<1>3. /\ stored' = [q \in Objects |-> stored'[q]] /\ stored'[o] = more
      /\ \A q \in Objects : q # o => stored'[q] = stored[q]
  BY <1>1 DEF StoredInv
<1>4. /\ more \in Seq(AnyFile) /\ more # <<>> /\ Len(more) = Len(files) + 1 /\ Len(files) \in Nat
      /\ more[Len(files) + 1] = file /\ \A n \in 1..Len(files) : more[n] = files[n]
  BY <1>1, <1>2 DEF FilesOK
<1>5. StoreGrows
  <2> SUFFICES ASSUME NEW q \in Objects
               PROVE  /\ IsStored(q) => IsStored(q)'
                      /\ LastVersion(q) \in Int /\ LastVersion(q)' \in Int /\ LastVersion(q) <= LastVersion(q)'
    BY DEF StoreGrows
  <2>1. Len(stored[q]) \in Nat
    BY DEF StoredInv, FilesOK
  <2>2. CASE q = o
    BY <1>1, <1>3, <1>4, <2>2 DEF IsStored, LastVersion
  <2>3. CASE q # o
    BY <1>3, <2>1, <2>3 DEF IsStored, LastVersion
  <2>4. QED
    BY <2>2, <2>3
<1>6. FilesOK(o, more)'
  <2>1. file.members \subseteq MayHold(o)' /\ \A n \in 1..Len(files) : files[n].members \subseteq MayHold(o)'
    BY <1>2, <1>5, HeldStays DEF FilesOK
  <2>2. \A n \in 1..Len(more) : more[n].members \subseteq MayHold(o)'
    <3> SUFFICES ASSUME NEW n \in 1..Len(more) PROVE more[n].members \subseteq MayHold(o)'
      OBVIOUS
    <3>1. n \in 1..Len(files) \/ n = Len(files) + 1
      BY <1>4
    <3>2. QED
      BY <3>1, <1>4, <2>1
  <2>3. more[1].is = "snapshot"
    <3>1. CASE files = <<>>
      <4>1. Len(files) + 1 = 1 /\ file.is = "snapshot"
        BY <3>1, <1>1 DEF IsStored
      <4>2. QED
        BY <4>1, <1>4
    <3>2. CASE files # <<>>
      <4>1. 1 \in 1..Len(files)
        BY <3>2, <1>2, <1>4 DEF FilesOK
      <4>2. QED
        BY <3>2, <4>1, <1>2, <1>4 DEF FilesOK
    <3>3. QED
      BY <3>1, <3>2
  <2>4. QED
    BY <1>4, <2>2, <2>3 DEF FilesOK
<1>7. ASSUME NEW q \in Objects PROVE FilesOK(q, stored[q])'
  <2>1. CASE q = o
    BY <1>3, <1>6, <2>1 DEF FilesOK
  <2>2. CASE q # o
    <3>1. PICK same : same = stored[q] /\ stored'[q] = same /\ FilesOK(q, same)
      BY <1>3, <2>2 DEF StoredInv
    <3>2. FilesOK(q, same)'
      BY <3>1, <1>5, HeldStays DEF FilesOK
    <3>3. QED
      BY <3>1, <3>2 DEF FilesOK
  <2>3. QED
    BY <2>1, <2>2
<1>8. StoredInv'
  BY <1>3, <1>7 DEF StoredInv
<1>9. QED
  BY <1>1, <1>3, <1>4, <1>5, <1>8 DEF IsStored, LastVersion

LEMMA HistorySame ==
  ASSUME StoreGrows, HistoryInv, RestoringInv, UNCHANGED history
  PROVE  HistoryInv' /\ (UNCHANGED restoring => RestoringInv')
<1>1. \A v : Found(v)' = Found(v)
  BY DEF Found
<1>2. HistoryInv'
  <2> SUFFICES ASSUME NEW v \in 0..Len(history) PROVE FoundOK(Found(v))'
    BY DEF HistoryInv
  <2>1. PICK f : f = Found(v) /\ FoundOK(f)
    BY DEF HistoryInv
  <2>2. FoundOK(f)'
    BY <2>1, FoundStays
  <2>3. QED
    BY <1>1, <2>1, <2>2
<1>3. ASSUME UNCHANGED restoring, restoring # nil PROVE RestoringOK(restoring)'
  <2>1. PICK rows : rows = restoring.rows /\ FoundOK(rows)
    BY <1>3 DEF RestoringInv, RestoringOK
  <2>2. FoundOK(rows)'
    BY <2>1, FoundStays
  <2>3. QED
    BY <1>1, <1>3, <2>1, <2>2 DEF RestoringInv, RestoringOK
<1>4. QED
  BY <1>2, <1>3 DEF RestoringInv

LEMMA HistoryGrows ==
  ASSUME StoreGrows, HistoryInv, NEW f, FoundOK(f)', NEW n \in Int,
         history' = Append(history, [found |-> f, origin |-> n])
  PROVE  /\ HistoryInv' /\ Len(history') = Len(history) + 1
         /\ \A v \in 0..Len(history) : Found(v)' = Found(v)
<1>1. [found |-> f, origin |-> n] \in AnyVersion /\ [found |-> f, origin |-> n].found = f
  BY DEF FoundOK, AnyVersion
<1>2. /\ history' \in Seq(AnyVersion) /\ Len(history') = Len(history) + 1 /\ Len(history) \in Nat
      /\ history'[Len(history) + 1].found = f
      /\ \A v \in 1..Len(history) : history'[v] = history[v]
  BY <1>1 DEF HistoryInv
<1>3. \A v \in 0..Len(history) : Found(v)' = Found(v)
  BY <1>2 DEF Found
<1>4. \A c : c = Len(history) + 1 => Found(c)' = f
  BY <1>2 DEF Found
<1>5. ASSUME NEW v \in 0..Len(history) + 1 PROVE FoundOK(Found(v))'
  <2>1. CASE v = Len(history) + 1
    <3>1. Found(v)' = f
      BY <2>1, <1>4
    <3>2. QED
      BY <3>1
  <2>2. CASE v \in 0..Len(history)
    <3>1. PICK g : g = Found(v) /\ FoundOK(g)
      BY <2>2 DEF HistoryInv
    <3>2. FoundOK(g)'
      BY <3>1, FoundStays
    <3>3. QED
      BY <2>2, <3>1, <3>2, <1>3
  <2>3. QED
    BY <2>1, <2>2, <1>2
<1>6. QED
  BY <1>2, <1>3, <1>5 DEF HistoryInv

LEMMA FoundOver ==
  ASSUME NEW f, FoundOK(f), NEW g, FoundOK(g)
  PROVE  FoundOK(Over(f, g))
<1>1. DOMAIN Over(f, g) = DOMAIN f \cup DOMAIN g
  BY DEF Over
<1>2. \A o \in DOMAIN Over(f, g) : o \in Objects /\ Over(f, g)[o] \in 0..LastVersion(o) /\ Over(f, g)[o] \in Nat
  BY <1>1 DEF Over, FoundOK
<1>3. PICK h, D : h = Over(f, g) /\ D = DOMAIN f \cup DOMAIN g
  OBVIOUS
<1>4. h = [o \in D |-> h[o]] /\ D \in SUBSET Objects
  BY <1>1, <1>2, <1>3 DEF Over
<1>5. h \in [D -> Nat]
  BY <1>1, <1>2, <1>3, <1>4
<1>6. h \in AnyFound
  BY <1>4, <1>5 DEF AnyFound
<1>7. QED
  BY <1>2, <1>3, <1>6 DEF FoundOK

LEMMA FoundEntry ==
  ASSUME NEW o \in Objects, NEW n \in 0..LastVersion(o)
  PROVE  FoundOK(Entry(o, n))
<1>1. PICK h, D : h = Entry(o, n) /\ D = {o} /\ D \in SUBSET Objects
  OBVIOUS
<1>2. h \in [D -> Nat] /\ DOMAIN h = {o} /\ h[o] = n
  BY <1>1 DEF Entry
<1>3. h \in AnyFound
  BY <1>1, <1>2 DEF AnyFound
<1>4. QED
  BY <1>1, <1>2, <1>3 DEF FoundOK

\* What the two lemmas say, in the next state as well.
Builds ==
  /\ \A o \in Objects : \A n \in 0..LastVersion(o) : FoundOK(Entry(o, n))
  /\ \A f, g : FoundOK(f) /\ FoundOK(g) => FoundOK(Over(f, g))

LEMMA FoundBuilds == Builds
BY FoundEntry, FoundOver DEF Builds

------------------------------------------------------------------------------
(* The operations. *)

LEMMA PutKeeps ==
  ASSUME NEW i, InstancesOK(i), NEW o \in Objects, NEW h, IsLoaded(o, h), NEW j, j = [i EXCEPT ![o] = h]
  PROVE  InstancesOK(j) /\ j[o] = h
<1>1. j = [q \in Objects |-> j[q]] /\ j[o] = h /\ \A q \in Objects : q # o => j[q] = i[q]
  BY DEF InstancesOK
<1>2. QED
  BY <1>1 DEF InstancesOK

LEMMA CachedLoaded == GraphInv => \A o \in Cached : o \in Objects /\ IsLoaded(o, instance[o]) /\ IsStored(o)
BY DEF GraphInv, InstancesOK, Cached, IsLoaded

(* A logged change of one object: its file, its version and its row. *)
LEMMA LogKeeps ==
  ASSUME GraphInv, NEW o \in Objects, NEW file \in AnyFile, file.members \subseteq MayHold(o),
         IsStored(o) \/ file.is = "snapshot", Log(o, file)
  PROVE  StoredInv' /\ StoreGrows /\ IsStored(o)' /\ PolicyInv' /\ HistoryInv' /\ RestoringInv'
<1>1. StoredInv' /\ StoreGrows /\ IsStored(o)' /\ LastVersion(o)' = Len(stored[o])
  BY Stores DEF GraphInv, Log
<1>2. PICK n, here, f : n = Len(stored[o]) /\ here = Here /\ f = Over(Entry(o, n), here)
  OBVIOUS
<1>3. n \in Nat
  BY <1>2 DEF GraphInv, StoredInv, FilesOK
<1>4. FoundOK(here)
  BY <1>2 DEF GraphInv, HistoryInv, Here
<1>5. FoundOK(f)'
  <2>1. FoundOK(here)'
    BY <1>1, <1>4, FoundStays
  <2>2. n \in 0..LastVersion(o)'
    BY <1>1, <1>2, <1>3
  <2>3. PICK e : e = Entry(o, n) /\ f = Over(e, here)
    BY <1>2
  <2>4. FoundOK(Entry(o, n))'
    <3>1. Builds'
      BY FoundBuilds, PTL
    <3>2. QED
      BY <2>2, <3>1 DEF Builds
  <2>5. FoundOK(e)'
    BY <2>3, <2>4
  <2>6. FoundOK(Over(e, here))'
    <3>1. Builds'
      BY FoundBuilds, PTL
    <3>2. QED
      BY <2>1, <2>5, <3>1 DEF Builds
  <2>7. QED
    BY <2>3, <2>6
<1>6. history' = Append(history, [found |-> f, origin |-> -1])
  BY <1>2 DEF Log
<1>7. /\ HistoryInv' /\ Len(history') = Len(history) + 1 /\ Len(history) \in Nat
      /\ \A v \in 0..Len(history) : Found(v)' = Found(v)
  BY <1>1, <1>5, <1>6, HistoryGrows DEF GraphInv, HistoryInv
<1>8. RestoringInv'
  <2> SUFFICES ASSUME restoring # nil PROVE RestoringOK(restoring)'
    BY DEF RestoringInv, Log
  <2>1. RestoringOK(restoring) /\ restoring' = restoring
    BY DEF GraphInv, RestoringInv, Log
  <2>2. PICK rows, to : rows = restoring.rows /\ to = restoring.to /\ FoundOK(rows) /\ to \in 0..Len(history)
    BY <2>1 DEF RestoringOK
  <2>3. FoundOK(rows)' /\ Found(to)' = Found(to) /\ to \in 0..Len(history')
    BY <1>1, <1>7, <2>2, FoundStays
  <2>4. QED
    BY <2>1, <2>2, <2>3 DEF RestoringOK
<1>9. PolicyInv'
  BY DEF GraphInv, PolicyInv, Log
<1>10. QED
  BY <1>1, <1>7, <1>8, <1>9

LEMMA InsertKeeps == ASSUME GraphInv, NEW o \in Objects, Insert(o) PROVE GraphInv'
<1>1. PICK file : file = [is |-> "snapshot", members |-> {}]
  OBVIOUS
<1>2. file \in AnyFile /\ file.members = {} /\ file.is = "snapshot"
  BY <1>1 DEF AnyFile
<1>3. Log(o, file)
  BY <1>1 DEF Insert
<1>4. StoredInv' /\ StoreGrows /\ IsStored(o)' /\ PolicyInv' /\ HistoryInv' /\ RestoringInv'
  BY <1>2, <1>3, LogKeeps
<1>5. PICK i, h, j : i = instance /\ h = [version |-> 0, members |-> {}, hasFaults |-> FALSE] /\ j = [i EXCEPT ![o] = h]
  OBVIOUS
<1>6. InstancesOK(i)'
  BY <1>4, <1>5, LoadedStays DEF GraphInv
<1>7. IsLoaded(o, h)'
  <2>1. h.version = 0 /\ h.members = {} /\ h.hasFaults = FALSE
    BY <1>5
  <2>2. QED
    BY <2>1, <1>4, <1>5 DEF IsLoaded, KnowsFaults
<1>8. j = [q \in Objects |-> j[q]] /\ j[o] = h /\ \A q \in Objects : q # o => j[q] = i[q]
  BY <1>5, <1>6 DEF InstancesOK
<1>9. instance' = j
  BY <1>5 DEF Insert
<1>10. InstancesOK(j)'
  BY <1>6, <1>7, <1>8 DEF InstancesOK
<1>11. InstancesOK(instance)'
  BY <1>9, <1>10 DEF InstancesOK, IsLoaded
<1>12. QED
  BY <1>4, <1>11 DEF GraphInv

(* A logged operation on one object that is stored. *)
LEMMA LoggedKeeps ==
  ASSUME GraphInv, NEW o \in Objects, IsStored(o), NEW file \in AnyFile, file.members \subseteq MayHold(o),
         Log(o, file), InstancesOK(instance')
  PROVE  GraphInv'
<1>1. StoredInv' /\ StoreGrows /\ PolicyInv' /\ HistoryInv' /\ RestoringInv'
  BY LogKeeps
<1>2. PICK j : j = instance' /\ InstancesOK(j)
  OBVIOUS
<1>3. InstancesOK(j)'
  BY <1>1, <1>2, LoadedStays
<1>4. InstancesOK(instance)'
  BY <1>2, <1>3 DEF InstancesOK, IsLoaded
<1>5. QED
  BY <1>1, <1>4 DEF GraphInv

(* An operation that writes nothing. *)
LEMMA UnloggedKeeps ==
  ASSUME GraphInv, UNCHANGED <<history, stored>>, PolicyInv', RestoringInv', InstancesOK(instance')
  PROVE  GraphInv'
<1>1. StoredInv' /\ StoreGrows
  BY StoreSame DEF GraphInv
<1>2. HistoryInv'
  BY <1>1, HistorySame DEF GraphInv
<1>3. PICK j : j = instance' /\ InstancesOK(j)
  OBVIOUS
<1>4. InstancesOK(j)'
  BY <1>1, <1>3, LoadedStays
<1>5. InstancesOK(instance)'
  BY <1>3, <1>4 DEF InstancesOK, IsLoaded
<1>6. QED
  BY <1>1, <1>2, <1>5 DEF GraphInv

LEMMA RestoringSame == GraphInv /\ UNCHANGED <<history, stored, restoring>> => RestoringInv'
<1> SUFFICES ASSUME GraphInv, UNCHANGED <<history, stored, restoring>> PROVE RestoringInv'
  OBVIOUS
<1>1. StoreGrows
  BY StoreSame DEF GraphInv
<1>2. QED
  BY <1>1, HistorySame DEF GraphInv

LEMMA ChangeKeeps == ASSUME GraphInv, NEW o \in Objects, Change(o) PROVE GraphInv'
<1>1. PICK file : file = [is |-> "change", members |-> {}]
  OBVIOUS
<1>2. file \in AnyFile /\ file.members = {}
  BY <1>1 DEF AnyFile
<1>3. PICK i : i = instance[o] /\ IsLoaded(o, i) /\ IsStored(o)
  BY CachedLoaded DEF Change
<1>4. PICK h : h = [version |-> i.version + 1, members |-> i.members, hasFaults |-> i.hasFaults] /\ IsLoaded(o, h)
  <2>1. PICK h : h = [version |-> i.version + 1, members |-> i.members, hasFaults |-> i.hasFaults]
    OBVIOUS
  <2>2. h.version = i.version + 1 /\ h.members = i.members /\ h.hasFaults = i.hasFaults
    BY <2>1
  <2>3. IsLoaded(o, h)
    BY <1>3, <2>1, <2>2 DEF IsLoaded, KnowsFaults
  <2>4. QED
    BY <2>1, <2>3
<1>5. [i EXCEPT !.version = @ + 1] = h
  BY <1>3, <1>4 DEF IsLoaded
<1>6. instance' = [instance EXCEPT ![o] = h]
  <2>1. instance' = [instance EXCEPT ![o] = [i EXCEPT !.version = @ + 1]]
    BY <1>3 DEF Change, GraphInv, InstancesOK
  <2>2. QED
    BY <2>1, <1>5
<1>7. InstancesOK(instance')
  <2>1. PICK all, j : all = instance /\ j = instance' /\ InstancesOK(all)
    BY DEF GraphInv
  <2>2. j = [q \in Objects |-> j[q]] /\ j[o] = h /\ \A q \in Objects : q # o => j[q] = all[q]
    BY <1>6, <2>1 DEF InstancesOK
  <2>3. QED
    BY <1>4, <2>1, <2>2 DEF InstancesOK
<1>8. Log(o, file)
  BY <1>1 DEF Change
<1>9. QED
  BY <1>2, <1>3, <1>7, <1>8, LoggedKeeps

LEMMA LoadObjectKeeps == ASSUME GraphInv, NEW o \in Objects, LoadObject(o) PROVE GraphInv'
<1>1. InstancesOK(Load(instance, o)) /\ instance' = Load(instance, o)
  BY LoadKeeps DEF GraphInv, LoadObject
<1>2. PolicyInv' /\ RestoringInv'
  BY RestoringSame DEF GraphInv, PolicyInv, LoadObject
<1>3. QED
  BY <1>1, <1>2, UnloggedKeeps DEF LoadObject

(* The members of a group change, to others it may hold and no fault more. *)
LEMMA MembersKeep ==
  ASSUME GraphInv, NEW g \in Cached, NEW refs \in SUBSET MayHold(g),
         \A r \in refs : r.is = "fault" => r \in instance[g].members,
         instance' = [instance EXCEPT ![g].members = refs, ![g].version = @ + 1]
  PROVE  InstancesOK(instance')
<1>1. PICK i : i = instance[g] /\ IsLoaded(g, i) /\ IsStored(g) /\ g \in Objects
  BY CachedLoaded
<1>2. PICK n, m, b : i = [version |-> n, members |-> m, hasFaults |-> b] /\ n \in Int /\ b \in BOOLEAN
                     /\ ((\E r \in m : r.is = "fault") => b)
  BY <1>1 DEF IsLoaded, KnowsFaults
<1>3. i.version = n /\ i.members = m /\ i.hasFaults = b
  BY <1>2
<1>4. PICK h, c : c = n + 1 /\ h = [version |-> c, members |-> refs, hasFaults |-> b]
  OBVIOUS
<1>5. IsLoaded(g, h)
  <2>1. h.version = c /\ h.members = refs /\ h.hasFaults = b
    BY <1>4
  <2>2. (\E r \in refs : r.is = "fault") => b
    BY <1>1, <1>2, <1>3
  <2>3. QED
    BY <2>1, <2>2, <1>1, <1>2, <1>4 DEF IsLoaded, KnowsFaults
<1>6. [[i EXCEPT !.members = refs] EXCEPT !.version = @ + 1] = h
  <2>1. [i EXCEPT !.members = refs] = [version |-> n, members |-> refs, hasFaults |-> b]
    BY <1>2
  <2>2. [[version |-> n, members |-> refs, hasFaults |-> b] EXCEPT !.version = @ + 1] = h
    BY <1>4
  <2>3. QED
    BY <2>1, <2>2
<1>7. instance' = [instance EXCEPT ![g] = [[i EXCEPT !.members = refs] EXCEPT !.version = @ + 1]]
  BY <1>1 DEF GraphInv, InstancesOK
<1>8. PICK all, j : all = instance /\ j = [all EXCEPT ![g] = h] /\ instance' = j
  BY <1>6, <1>7
<1>9. InstancesOK(all)
  BY <1>8 DEF GraphInv
<1>10. InstancesOK(j)
  BY <1>1, <1>5, <1>8, <1>9, PutKeeps
<1>11. QED
  BY <1>8, <1>10

LEMMA AddMemberKeeps ==
  ASSUME GraphInv, NEW g \in Groups, NEW x \in Objects, AddMember(g, x)
  PROVE  GraphInv'
<1>1. g \in Cached /\ g \in Objects /\ IsLoaded(g, instance[g]) /\ IsStored(g) /\ IsStored(x) /\ <<g, x>> \in MayContain
  BY CachedLoaded DEF AddMember
<1>2. PICK r : r = Instance(x) /\ r \in MayHold(g) /\ r.is # "fault" /\ r \in AnyRef
  <2>1. Instance(x) \in MayHold(g) /\ Instance(x).is # "fault" /\ Instance(x) \in AnyRef
    BY <1>1 DEF MayHold, AnyRef, Instance
  <2>2. QED
    BY <2>1
<1>3. PICK refs : refs = instance[g].members \cup {r}
  OBVIOUS
<1>4. refs \in SUBSET MayHold(g) /\ \A q \in refs : q.is = "fault" => q \in instance[g].members
  BY <1>1, <1>2, <1>3 DEF IsLoaded
<1>5. instance' = [instance EXCEPT ![g].members = refs, ![g].version = @ + 1]
  BY <1>2, <1>3 DEF AddMember
<1>6. InstancesOK(instance')
  BY <1>1, <1>4, <1>5, MembersKeep
<1>7. PICK file : file = [is |-> "addMember", members |-> {r}]
  OBVIOUS
<1>8. file \in AnyFile /\ file.members \subseteq MayHold(g)
  BY <1>2, <1>7 DEF AnyFile
<1>9. Log(g, file)
  BY <1>2, <1>7 DEF AddMember
<1>10. QED
  BY <1>1, <1>6, <1>8, <1>9, LoggedKeeps

LEMMA RemoveMemberKeeps ==
  ASSUME GraphInv, NEW g \in Groups, NEW x \in Objects, RemoveMember(g, x)
  PROVE  GraphInv'
<1>1. g \in Cached /\ g \in Objects /\ IsLoaded(g, instance[g]) /\ IsStored(g)
  BY CachedLoaded DEF RemoveMember
<1>2. PICK s \in instance[g].members : s.of = x
  BY DEF RemoveMember, HasEqual, IsEqual, Instance
<1>3. PICK r : r = Instance(x) /\ r \in MayHold(g) /\ r \in AnyRef
  <2>1. s \in MayHold(g)
    BY <1>1 DEF IsLoaded
  <2>2. Instance(s.of) \in MayHold(g)
    BY <1>1, <2>1, RefsHeld
  <2>3. QED
    BY <1>2, <2>2 DEF MayHold
<1>4. PICK refs : refs = Without(instance, instance[g].members, r)
  OBVIOUS
<1>5. refs \in SUBSET MayHold(g) /\ \A q \in refs : q.is = "fault" => q \in instance[g].members
  BY <1>1, <1>4 DEF IsLoaded, Without
<1>6. instance' = [instance EXCEPT ![g].members = refs, ![g].version = @ + 1]
  BY <1>3, <1>4 DEF RemoveMember
<1>7. InstancesOK(instance')
  BY <1>1, <1>5, <1>6, MembersKeep
<1>8. PICK file : file = [is |-> "removeMember", members |-> {r}]
  OBVIOUS
<1>9. file \in AnyFile /\ file.members \subseteq MayHold(g)
  BY <1>3, <1>8 DEF AnyFile
<1>10. Log(g, file)
  BY <1>3, <1>8 DEF RemoveMember
<1>11. QED
  BY <1>1, <1>7, <1>9, <1>10, LoggedKeeps

LEMMA AskMembersKeeps ==
  ASSUME GraphInv, NEW g \in Groups, NEW order, AskMembers(g, order)
  PROVE  GraphInv'
<1>1. g \in Objects /\ IsLoaded(g, instance[g])
  BY CachedLoaded DEF AskMembers
<1>2. InstancesOK(Resolve(instance, g, order)) /\ instance' = Resolve(instance, g, order)
  BY <1>1, ResolveKeeps DEF GraphInv, AskMembers
<1>3. PolicyInv' /\ RestoringInv'
  BY RestoringSame DEF GraphInv, PolicyInv, AskMembers
<1>4. QED
  BY <1>2, <1>3, UnloggedKeeps DEF AskMembers

LEMMA SetPolicyKeeps == ASSUME GraphInv, NEW p \in Policies, SetPolicy(p) PROVE GraphInv'
<1>1. PolicyInv'
  BY PoliciesAssumption DEF PolicyInv, SetPolicy
<1>2. RestoringInv' /\ InstancesOK(instance')
  BY RestoringSame DEF GraphInv, SetPolicy
<1>3. QED
  BY <1>1, <1>2, UnloggedKeeps DEF SetPolicy

LEMMA RestoreObjectKeeps ==
  ASSUME GraphInv, NEW o \in Objects, NEW v \in 0..MaxVersion, NEW order, RestoreObject(o, v, order)
  PROVE  GraphInv'
<1>1. IsLoaded(o, instance[o]) /\ IsStored(o)
  BY CachedLoaded DEF RestoreObject
<1>2. v \in 0..LastVersion(o) /\ v \in Int
  <2>1. Len(stored[o]) \in Nat
    BY DEF GraphInv, StoredInv, FilesOK
  <2>2. QED
    BY <2>1 DEF RestoreObject, LastVersion
<1>3. PICK refs : refs = Playback(instance, o, v) /\ refs \in SUBSET MayHold(o)
  BY <1>2, PlaybackHeld DEF GraphInv
<1>4. instance' = Replace(instance, o, v, refs, order) /\ Log(o, Snapshot(instance', o))
  BY <1>3 DEF RestoreObject
<1>5. InstancesOK(instance') /\ IsLoaded(o, instance'[o])
  <2>1. /\ InstancesOK(Replace(instance, o, v, refs, order))
        /\ IsLoaded(o, Replace(instance, o, v, refs, order)[o])
    BY <1>1, <1>2, <1>3, ReplaceKeeps DEF GraphInv
  <2>2. QED
    BY <1>4, <2>1
<1>6. PICK file, j : j = instance' /\ file = Snapshot(j, o) /\ IsLoaded(o, j[o])
  BY <1>5
<1>7. file \in AnyFile /\ file.members \subseteq MayHold(o) /\ Log(o, file)
  BY <1>4, <1>6, SnapshotHeld
<1>8. QED
  BY <1>1, <1>5, <1>7, LoggedKeeps

LEMMA RestartKeeps == ASSUME GraphInv, Restart PROVE GraphInv'
<1>1. InstancesOK(instance')
  BY DEF Restart, InstancesOK
<1>2. PolicyInv' /\ RestoringInv'
  BY RestoringSame DEF GraphInv, PolicyInv, Restart
<1>3. QED
  BY <1>1, <1>2, UnloggedKeeps DEF Restart

LEMMA RestoreToVersionKeeps ==
  ASSUME GraphInv, NEW v \in 0..MaxVersion, RestoreToVersion(v)
  PROVE  GraphInv'
<1>1. PICK gone : gone = Cached \ DOMAIN Found(v) /\ gone \in SUBSET Objects
                  /\ \A q \in gone : IsLoaded(q, instance[q])
  BY CachedLoaded DEF Cached
<1>2. PICK left : left = Left(instance, gone) /\ InstancesOK(left)
  BY <1>1, LeftKeeps DEF GraphInv
<1>3. InstancesOK(instance')
  <2>1. instance' = [o \in Objects |-> IF o \in gone THEN nil ELSE left[o]]
    BY <1>1, <1>2 DEF RestoreToVersion, Unregister
  <2>2. PICK j : j = instance'
    OBVIOUS
  <2>3. j = [o \in Objects |-> j[o]] /\ \A o \in Objects : j[o] = nil \/ j[o] = left[o]
    BY <2>1, <2>2
  <2>4. InstancesOK(j)
    BY <1>2, <2>3 DEF InstancesOK
  <2>5. QED
    BY <2>2, <2>4
<1>4. PICK none, r : none = [o \in {} |-> 0] /\ r = [to |-> v, todo |-> DOMAIN Found(v), rows |-> none]
  OBVIOUS
<1>5. RestoringOK(r)
  <2>1. none \in [{} -> Nat] /\ {} \in SUBSET Objects /\ DOMAIN none = {}
    BY <1>4
  <2>2. FoundOK(none)
    BY <2>1 DEF FoundOK, AnyFound
  <2>3. r.to = v /\ r.todo = DOMAIN Found(v) /\ r.rows = none
    BY <1>4
  <2>4. Len(history) \in Nat
    BY DEF GraphInv, HistoryInv
  <2>5. v \in 0..Len(history)
    BY <2>4 DEF RestoreToVersion
  <2>6. QED
    BY <1>4, <2>2, <2>3, <2>5 DEF RestoringOK
<1>6. restoring' = r /\ UNCHANGED <<history, stored, policy>>
  BY <1>4 DEF RestoreToVersion
<1>7. RestoringInv'
  <2>1. StoreGrows
    BY <1>6, StoreSame DEF GraphInv
  <2>2. FoundOK(r.rows)'
    BY <1>5, <2>1, FoundStays DEF RestoringOK
  <2>3. \A c : Found(c)' = Found(c)
    BY <1>6 DEF Found
  <2>4. RestoringOK(restoring)'
    BY <1>5, <1>6, <2>2, <2>3 DEF RestoringOK
  <2>5. QED
    BY <2>4 DEF RestoringInv
<1>8. PolicyInv'
  BY <1>6 DEF GraphInv, PolicyInv
<1>9. QED
  BY <1>3, <1>6, <1>7, <1>8, UnloggedKeeps

\* What an object of the restore that is underway goes back to.
LEMMA RestoredIs ==
  ASSUME GraphInv, NEW o \in Objects, Restores(o)
  PROVE  /\ RestoringOK(restoring)
         /\ Found(restoring.to)[o] \in 0..LastVersion(o) /\ IsStored(o)
<1>1. RestoringOK(restoring) /\ o \in restoring.todo
  BY DEF GraphInv, RestoringInv, Restores
<1>2. FoundOK(Found(restoring.to)) /\ o \in DOMAIN Found(restoring.to)
  BY <1>1 DEF GraphInv, HistoryInv, RestoringOK
<1>3. PICK files : files = stored[o] /\ FilesOK(o, files)
  BY DEF GraphInv, StoredInv
<1>4. Found(restoring.to)[o] \in 0..LastVersion(o)
  BY <1>2 DEF FoundOK
<1>5. Len(files) \in Nat /\ 0 <= Len(files) - 1
  BY <1>3, <1>4 DEF FilesOK, LastVersion
<1>6. files # <<>>
  BY <1>5
<1>7. QED
  BY <1>1, <1>3, <1>4, <1>6 DEF IsStored

LEMMA SkipRestoredKeeps == ASSUME GraphInv, NEW o \in Objects, SkipRestored(o) PROVE GraphInv'
<1>1. RestoringOK(restoring)
  BY RestoredIs DEF SkipRestored
<1>2. PICK r, s : r = restoring /\ s = [r EXCEPT !.todo = @ \ {o}] /\ restoring' = s
  BY DEF SkipRestored
<1>3. PICK to, todo, rows : r = [to |-> to, todo |-> todo, rows |-> rows]
  BY <1>1, <1>2 DEF RestoringOK
<1>4. r.to = to /\ r.todo = todo /\ r.rows = rows
  BY <1>3
<1>5. s = [to |-> to, todo |-> todo \ {o}, rows |-> rows]
  BY <1>2, <1>3
<1>6. s.to = to /\ s.todo = todo \ {o} /\ s.rows = rows
  BY <1>5
<1>7. UNCHANGED <<history, stored, policy, instance>>
  BY DEF SkipRestored
<1>8. RestoringInv'
  <2>1. StoreGrows
    BY <1>7, StoreSame DEF GraphInv
  <2>2. FoundOK(rows)
    BY <1>1, <1>2, <1>4 DEF RestoringOK
  <2>3. FoundOK(rows)'
    BY <2>1, <2>2, FoundStays
  <2>4. \A c : Found(c)' = Found(c)
    BY <1>7 DEF Found
  <2>5. RestoringOK(restoring)'
    BY <1>1, <1>2, <1>4, <1>5, <1>6, <1>7, <2>3, <2>4 DEF RestoringOK
  <2>6. QED
    BY <2>5 DEF RestoringInv
<1>9. PolicyInv' /\ InstancesOK(instance')
  BY <1>7 DEF GraphInv, PolicyInv
<1>10. QED
  BY <1>7, <1>8, <1>9, UnloggedKeeps

(* The step of an object that the restore merges, whatever the instances are  *)
(* after it.                                                                  *)
LEMMA MergedKeeps ==
  ASSUME GraphInv, NEW o \in Objects, Restores(o), NEW inst, InstancesOK(inst), IsLoaded(o, inst[o]), Merged(o, inst)
  PROVE  GraphInv'
<1>1. RestoringOK(restoring) /\ IsStored(o)
  BY RestoredIs
<1>2. PICK file : file = Snapshot(inst, o) /\ file \in AnyFile /\ file.members \subseteq MayHold(o)
  BY SnapshotHeld
<1>3. StoredInv' /\ StoreGrows /\ LastVersion(o)' = Len(stored[o])
  <2>1. stored' = [stored EXCEPT ![o] = Append(@, file)]
    BY <1>2 DEF Merged
  <2>2. QED
    BY <1>1, <1>2, <2>1, Stores DEF GraphInv
<1>4. HistoryInv'
  BY <1>3, HistorySame DEF GraphInv, Merged
<1>5. PICK r, n : r = restoring /\ n = Len(stored[o])
  OBVIOUS
<1>6. PICK to, todo, rows : r = [to |-> to, todo |-> todo, rows |-> rows]
  BY <1>1, <1>5 DEF RestoringOK
<1>7. r.to = to /\ r.todo = todo /\ r.rows = rows
  BY <1>6
<1>8. PICK e, more, s : e = Entry(o, n) /\ more = Over(e, rows) /\ s = [to |-> to, todo |-> todo \ {o}, rows |-> more]
  OBVIOUS
<1>9. restoring' = s
  <2>1. restoring' = [[r EXCEPT !.todo = @ \ {o}] EXCEPT !.rows = Over(e, @)]
    BY <1>5, <1>8 DEF Merged
  <2>2. [r EXCEPT !.todo = @ \ {o}] = [to |-> to, todo |-> todo \ {o}, rows |-> rows]
    BY <1>6
  <2>3. [[to |-> to, todo |-> todo \ {o}, rows |-> rows] EXCEPT !.rows = Over(e, @)] = s
    BY <1>8
  <2>4. QED
    BY <2>1, <2>2, <2>3
<1>10. FoundOK(more)'
  <2>1. Builds'
    BY FoundBuilds, PTL
  <2>2. FoundOK(rows)
    BY <1>1, <1>5, <1>7 DEF RestoringOK
  <2>3. FoundOK(rows)'
    BY <1>3, <2>2, FoundStays
  <2>4. n \in Nat
    BY <1>5 DEF GraphInv, StoredInv, FilesOK
  <2>5. n \in 0..LastVersion(o)'
    BY <1>3, <1>5, <2>4
  <2>6. FoundOK(Entry(o, n))'
    BY <2>1, <2>5 DEF Builds
  <2>7. FoundOK(e)'
    BY <1>8, <2>6
  <2>8. FoundOK(Over(e, rows))'
    BY <2>1, <2>3, <2>7 DEF Builds
  <2>9. QED
    BY <1>8, <2>8
<1>11. RestoringInv'
  <2>1. s.to = to /\ s.todo = todo \ {o} /\ s.rows = more
    BY <1>8
  <2>2. \A c : Found(c)' = Found(c)
    BY DEF Found, Merged
  <2>3. history' = history
    BY DEF Merged
  <2>4. RestoringOK(restoring)'
    BY <1>1, <1>5, <1>7, <1>8, <1>9, <1>10, <2>1, <2>2, <2>3 DEF RestoringOK
  <2>5. QED
    BY <2>4 DEF RestoringInv
<1>12. InstancesOK(instance)'
  <2>1. InstancesOK(inst)'
    BY <1>3, LoadedStays
  <2>2. instance' = inst
    BY DEF Merged
  <2>3. QED
    BY <2>1, <2>2 DEF InstancesOK, IsLoaded
<1>13. PolicyInv'
  BY DEF GraphInv, PolicyInv, Merged
<1>14. QED
  BY <1>3, <1>4, <1>11, <1>12, <1>13 DEF GraphInv

LEMMA RestoreCachedKeeps ==
  ASSUME GraphInv, NEW o \in Objects, NEW order, RestoreCached(o, order)
  PROVE  GraphInv'
<1>1. Restores(o) /\ o \in Cached
  BY DEF RestoreCached
<1>2. PICK v : v = Found(restoring.to)[o] /\ v \in 0..LastVersion(o) /\ v \in Int
  BY <1>1, RestoredIs
<1>3. PICK refs : refs = Playback(instance, o, v) /\ refs \in SUBSET MayHold(o)
  BY <1>2, PlaybackHeld DEF GraphInv
<1>4. PICK inst : inst = Replace(instance, o, v, refs, order) /\ InstancesOK(inst) /\ IsLoaded(o, inst[o])
  <2>1. IsLoaded(o, instance[o])
    BY <1>1, CachedLoaded
  <2>2. /\ InstancesOK(Replace(instance, o, v, refs, order))
        /\ IsLoaded(o, Replace(instance, o, v, refs, order)[o])
    BY <1>2, <1>3, <2>1, ReplaceKeeps DEF GraphInv
  <2>3. QED
    BY <2>2
<1>5. Merged(o, inst)
  BY <1>2, <1>3, <1>4 DEF RestoreCached
<1>6. QED
  BY <1>1, <1>4, <1>5, MergedKeeps

LEMMA RestoreMissingKeeps ==
  ASSUME GraphInv, NEW o \in Objects, RestoreMissing(o)
  PROVE  GraphInv'
<1>1. Restores(o)
  BY DEF RestoreMissing
<1>2. PICK v : v = Found(restoring.to)[o] /\ v \in 0..LastVersion(o) /\ IsStored(o)
  BY <1>1, RestoredIs
<1>3. PICK refs : refs = Playback(instance, o, v) /\ refs \in SUBSET MayHold(o)
  BY <1>2, PlaybackHeld DEF GraphInv
<1>4. PICK n, h : n = LastVersion(o) + 1 /\ n \in Int /\ h = [version |-> n, members |-> refs, hasFaults |-> o \in Groups]
  <2>1. Len(stored[o]) \in Nat
    BY DEF GraphInv, StoredInv, FilesOK
  <2>2. LastVersion(o) + 1 \in Int
    BY <2>1 DEF LastVersion
  <2>3. QED
    BY <2>2
<1>5. IsLoaded(o, h)
  <2>1. h.version = n /\ h.members = refs /\ h.hasFaults = (o \in Groups)
    BY <1>4
  <2>2. o \notin Groups => refs = {}
    BY <1>3, LeafHoldsNothing
  <2>3. KnowsFaults(h)
    BY <2>1, <2>2 DEF KnowsFaults
  <2>4. QED
    BY <1>2, <1>3, <1>4, <2>1, <2>3 DEF IsLoaded
<1>6. PICK all, inst : all = instance /\ inst = [all EXCEPT ![o] = h]
  OBVIOUS
<1>7. InstancesOK(inst) /\ inst[o] = h
  <2>1. InstancesOK(all)
    BY <1>6 DEF GraphInv
  <2>2. inst = [q \in Objects |-> inst[q]] /\ inst[o] = h /\ \A q \in Objects : q # o => inst[q] = all[q]
    BY <1>6, <2>1 DEF InstancesOK
  <2>3. QED
    BY <1>5, <2>1, <2>2 DEF InstancesOK
<1>8. Merged(o, inst)
  BY <1>2, <1>3, <1>4, <1>6 DEF RestoreMissing
<1>9. QED
  BY <1>1, <1>5, <1>7, <1>8, MergedKeeps

LEMMA RestoreEndsKeeps == ASSUME GraphInv, RestoreEnds PROVE GraphInv'
<1>1. restoring # nil /\ RestoringOK(restoring)
  BY DEF GraphInv, RestoringInv, RestoreEnds
<1>2. UNCHANGED <<stored, policy>> /\ restoring' = nil
  BY DEF RestoreEnds
<1>3. StoredInv' /\ StoreGrows
  BY <1>2, StoreSame DEF GraphInv
<1>4. HistoryInv'
  <2>1. PICK f, g : f = restoring.rows /\ g = Found(restoring.to) /\ FoundOK(f) /\ FoundOK(g)
    BY <1>1 DEF GraphInv, HistoryInv, RestoringOK
  <2>2. PICK h : h = Over(f, g) /\ FoundOK(h)
    BY <2>1, FoundOver
  <2>3. FoundOK(h)'
    BY <1>3, <2>2, FoundStays
  <2>4. PICK n : n = restoring.to /\ n \in Int
    BY <1>1 DEF RestoringOK
  <2>5. history' = Append(history, [found |-> h, origin |-> n])
    BY <2>1, <2>2, <2>4 DEF RestoreEnds
  <2>6. QED
    BY <1>3, <2>3, <2>4, <2>5, HistoryGrows DEF GraphInv
<1>5. InstancesOK(instance')
  <2>1. PICK i, j, here : i = instance /\ j = instance' /\ here = Cached
    OBVIOUS
  <2>2. /\ j = [o \in Objects |-> j[o]]
        /\ \A o \in Objects : o \notin here => j[o] = nil
        /\ \A o \in Objects : o \in here => j[o] = [i[o] EXCEPT !.members =
             {IF r.is = "fault" /\ r.of \in here THEN Instance(r.of) ELSE r : r \in @}]
    BY <2>1 DEF RestoreEnds
  <2>3. ASSUME NEW o \in Objects, o \in here PROVE IsLoaded(o, j[o])
    <3>1. PICK l : l = i[o] /\ IsLoaded(o, l)
      BY <2>1, <2>3, CachedLoaded
    <3>2. PICK refs : refs = {IF r.is = "fault" /\ r.of \in here THEN Instance(r.of) ELSE r : r \in l.members}
      OBVIOUS
    <3>3. ASSUME NEW r \in l.members, NEW s, s = IF r.is = "fault" /\ r.of \in here THEN Instance(r.of) ELSE r
          PROVE  s \in MayHold(o) /\ (s.is = "fault" => r.is = "fault")
      <4>1. r \in MayHold(o)
        BY <3>1 DEF IsLoaded
      <4>2. Instance(r.of) \in MayHold(o) /\ Instance(r.of).is # "fault"
        BY <4>1, RefsHeld DEF Instance
      <4>3. QED
        BY <3>3, <4>1, <4>2
    <3>4. refs \in SUBSET MayHold(o) /\ ((\E s \in refs : s.is = "fault") => \E r \in l.members : r.is = "fault")
      BY <3>2, <3>3
    <3>5. l.hasFaults \in BOOLEAN /\ ((\E s \in refs : s.is = "fault") => l.hasFaults)
      BY <3>1, <3>4 DEF IsLoaded, KnowsFaults
    <3>6. PICK h : h = [version |-> l.version, members |-> refs, hasFaults |-> l.hasFaults]
      OBVIOUS
    <3>7. IsLoaded(o, h)
      BY <3>1, <3>4, <3>5, <3>6, LoadedWith
    <3>8. j[o] = [l EXCEPT !.members = refs]
      BY <2>2, <2>3, <3>1, <3>2
    <3>9. [l EXCEPT !.members = refs] = h
      BY <3>1, <3>6 DEF IsLoaded
    <3>10. QED
      BY <3>7, <3>8, <3>9
  <2>4. InstancesOK(j)
    BY <2>2, <2>3 DEF InstancesOK
  <2>5. QED
    BY <2>1, <2>4
<1>6. InstancesOK(instance)'
  <2>1. PICK j : j = instance' /\ InstancesOK(j)
    BY <1>5
  <2>2. InstancesOK(j)'
    BY <1>3, <2>1, LoadedStays
  <2>3. QED
    BY <2>1, <2>2 DEF InstancesOK, IsLoaded
<1>7. PolicyInv' /\ RestoringInv'
  BY <1>2 DEF GraphInv, PolicyInv, RestoringInv
<1>8. QED
  BY <1>3, <1>4, <1>6, <1>7 DEF GraphInv

LEMMA GraphNext == GraphInv /\ [Next]_vars => GraphInv'
<1> SUFFICES ASSUME GraphInv, [Next]_vars PROVE GraphInv'
  OBVIOUS
<1>1. ASSUME NEW o \in Objects, Insert(o) \/ Change(o) \/ LoadObject(o) PROVE GraphInv'
  BY <1>1, InsertKeeps, ChangeKeeps, LoadObjectKeeps
<1>2. ASSUME NEW g \in Groups, NEW x \in Objects, AddMember(g, x) \/ RemoveMember(g, x) PROVE GraphInv'
  BY <1>2, AddMemberKeeps, RemoveMemberKeeps
<1>3. ASSUME NEW g \in Groups, NEW order \in Orders, AskMembers(g, order) PROVE GraphInv'
  BY <1>3, AskMembersKeeps
<1>4. ASSUME NEW p \in Policies, SetPolicy(p) PROVE GraphInv'
  BY <1>4, SetPolicyKeeps
<1>5. ASSUME NEW o \in Objects, NEW v \in 0..MaxVersion, NEW order \in Orders, RestoreObject(o, v, order) PROVE GraphInv'
  BY <1>5, RestoreObjectKeeps
<1>6. CASE Restart
  BY <1>6, RestartKeeps
<1>7. ASSUME NEW v \in 0..MaxVersion, RestoreToVersion(v) PROVE GraphInv'
  BY <1>7, RestoreToVersionKeeps
<1>8. ASSUME NEW o \in Objects, SkipRestored(o) \/ RestoreMissing(o) PROVE GraphInv'
  BY <1>8, SkipRestoredKeeps, RestoreMissingKeeps
<1>9. ASSUME NEW o \in Objects, NEW order \in Orders, RestoreCached(o, order) PROVE GraphInv'
  BY <1>9, RestoreCachedKeeps
<1>10. CASE RestoreEnds
  BY <1>10, RestoreEndsKeeps
<1>11. CASE UNCHANGED vars
  <2>1. UNCHANGED <<history, stored, instance, policy, restoring>>
    BY <1>11 DEF vars
  <2>2. PolicyInv' /\ RestoringInv' /\ InstancesOK(instance')
    BY <2>1, RestoringSame DEF GraphInv, PolicyInv
  <2>3. QED
    BY <2>1, <2>2, UnloggedKeeps
<1>12. QED
  BY <1>1, <1>2, <1>3, <1>4, <1>5, <1>6, <1>7, <1>8, <1>9, <1>10, <1>11 DEF Next

(* Every reference, in memory and in the files, is to an object that was      *)
(* stored and that the group may contain; every version of the context names  *)
(* stored object versions, and so does a restore that is underway: loading a  *)
(* fault or a past version always finds what it reads (-objectForUUID: and    *)
(* -objectForUUID:version: of COObjectContext.m).                             *)
THEOREM StoredCorrect == Spec => [](StoredInv /\ InstancesOK(instance) /\ HistoryInv /\ RestoringInv)
<1>1. GraphInv => StoredInv /\ InstancesOK(instance) /\ HistoryInv /\ RestoringInv
  BY DEF GraphInv
<1>2. QED
  BY <1>1, GraphInit, GraphNext, PTL DEF Spec

(* A group that holds a fault has the flag that makes -members resolve it     *)
(* (-resolveFaults and -hasFaults of COGroup.m), after any loads, merges with *)
(* any policy, restores and restarts, and in the middle of a restore.         *)
THEOREM FaultsCorrect == Spec => []FaultsFlagged
<1>1. GraphInv => FaultsFlagged
  BY CachedLoaded DEF IsLoaded, KnowsFaults, FaultsFlagged
<1>2. QED
  BY <1>1, GraphInit, GraphNext, PTL DEF Spec

------------------------------------------------------------------------------
(* The members a group was given, by the files alone.                         *)

\* The members of files at version v, while the instances inst are in memory.
Replay(inst, files, v) ==
  LET base == Base(files, v)
      after[n \in base..v] == Played(inst, IF n = base THEN {} ELSE after[n - 1], files[n + 1])
  IN  after[v]

\* The files of an object: they begin with a snapshot.
IsFiles(files) == files \in Seq(AnyFile) /\ (files # <<>> => files[1].is = "snapshot")

LEMMA ReplayIsPlayback == \A o, v, inst : Playback(inst, o, v) = Replay(inst, stored[o], v)
BY DEF Playback, Replay, Base

\* The last snapshot at or before version v.
LEMMA BaseIs ==
  ASSUME NEW files, IsFiles(files), NEW v \in 0..Len(files) - 1
  PROVE  /\ Base(files, v) \in 0..v /\ files[Base(files, v) + 1].is = "snapshot"
         /\ \A s \in 0..v : files[s + 1].is = "snapshot" => s <= Base(files, v)
<1> DEFINE S == {s \in 0..v : files[s + 1].is = "snapshot"}
<1>1. v \in Nat /\ Len(files) \in Nat /\ files # <<>>
  BY DEF IsFiles
<1>2. 0 \in S
  BY <1>1 DEF IsFiles
<1>3. S \in SUBSET (0..v) /\ S # {}
  BY <1>2
<1>4. Max(S) \in S /\ \A s \in S : s <= Max(S)
  BY <1>1, <1>3, MaxIs
<1>5. QED
  BY <1>4 DEF Base

LEMMA ReplayFrom ==
  ASSUME NEW inst, NEW files, IsFiles(files), NEW v \in 0..Len(files) - 1
  PROVE  \E f : IsPlayback(f, inst, files, Base(files, v), v) /\ Replay(inst, files, v) = f[v]
<1>1. PICK b : b = Base(files, v) /\ b \in 0..v
  BY BaseIs
<1>2. v \in Nat /\ b \in Nat /\ v - b \in Nat /\ v = b + (v - b)
  BY <1>1 DEF IsFiles
<1>3. \E f : IsPlayback(f, inst, files, b, b + (v - b))
  BY <1>2, PlaybackExists
<1>4. PICK f : f = CHOOSE h : IsPlayback(h, inst, files, b, v)
  OBVIOUS
<1>5. IsPlayback(f, inst, files, b, v)
  BY <1>2, <1>3, <1>4
<1>6. Replay(inst, files, v) = f[v]
  BY <1>1, <1>4 DEF Replay, IsPlayback, Base
<1>7. QED
  BY <1>1, <1>5, <1>6

\* Two playbacks from the same base agree as far as both go.
LEMMA PlaybackUnique ==
  ASSUME NEW inst, NEW files, NEW b \in Nat, NEW v \in Nat, NEW n \in Nat, NEW f, NEW g,
         IsPlayback(f, inst, files, b, v), IsPlayback(g, inst, files, b, n)
  PROVE  \A m \in b..v : m <= n => f[m] = g[m]
<1>1. /\ \A k \in b..v : f[k] = Played(inst, IF k = b THEN {} ELSE f[k - 1], files[k + 1])
      /\ \A k \in b..n : g[k] = Played(inst, IF k = b THEN {} ELSE g[k - 1], files[k + 1])
  BY DEF IsPlayback
<1> DEFINE T == {k \in Nat : b + k <= v /\ b + k <= n => f[b + k] = g[b + k]}
<1>2. 0 \in T
  <2> SUFFICES ASSUME b <= v, b <= n PROVE f[b] = g[b]
    OBVIOUS
  <2>1. b \in b..v /\ b \in b..n
    OBVIOUS
  <2>2. QED
    BY <1>1, <2>1
<1>3. ASSUME NEW k \in T PROVE k + 1 \in T
  <2> SUFFICES ASSUME b + (k + 1) <= v, b + (k + 1) <= n PROVE f[b + (k + 1)] = g[b + (k + 1)]
    OBVIOUS
  <2>1. PICK m : m = b + (k + 1) /\ m \in b..v /\ m \in b..n /\ m # b /\ m - 1 = b + k /\ b + k <= v /\ b + k <= n
    OBVIOUS
  <2>2. f[m - 1] = g[m - 1]
    BY <2>1
  <2>3. QED
    BY <1>1, <2>1, <2>2
<1> HIDE DEF T
<1>4. T = Nat
  <2>1. T \in SUBSET Nat
    BY DEF T
  <2>2. QED
    BY <1>2, <1>3, <2>1, Induction
<1>5. ASSUME NEW m \in b..v, m <= n PROVE f[m] = g[m]
  <2>1. m - b \in T /\ m = b + (m - b)
    BY <1>4, <1>5
  <2>2. PICK k \in Nat : k = m - b /\ b + k = m
    BY <2>1
  <2>3. f[b + k] = g[b + k]
    BY <1>5, <2>1, <2>2 DEF T
  <2>4. QED
    BY <2>2, <2>3
<1>6. QED
  BY <1>5

\* How version v of files plays back: a snapshot on nothing, another file on what is before it.
PlaysOn(inst, files, v) ==
  /\ files[v + 1].is = "snapshot" => Replay(inst, files, v) = Played(inst, {}, files[v + 1])
  /\ files[v + 1].is # "snapshot" =>
       /\ v - 1 \in 0..Len(files) - 1 /\ v # 0
       /\ Replay(inst, files, v) = Played(inst, Replay(inst, files, v - 1), files[v + 1])

(* One file more is played on what those before it play back to, a snapshot   *)
(* on nothing.                                                                *)
LEMMA ReplayStep ==
  ASSUME NEW inst, NEW files, IsFiles(files), NEW v \in 0..Len(files) - 1
  PROVE  PlaysOn(inst, files, v)
<1>1. PICK b : b = Base(files, v) /\ b \in 0..v /\ files[b + 1].is = "snapshot"
               /\ \A s \in 0..v : files[s + 1].is = "snapshot" => s <= b
  BY BaseIs
<1>2. v \in Nat /\ b \in Nat /\ b <= v /\ Len(files) \in Nat /\ v \in 0..v /\ v \in b..v
  BY <1>1 DEF IsFiles
<1>3. PICK f : IsPlayback(f, inst, files, b, v) /\ Replay(inst, files, v) = f[v]
  BY <1>1, ReplayFrom
<1>4. f[v] = Played(inst, IF v = b THEN {} ELSE f[v - 1], files[v + 1])
  BY <1>2, <1>3 DEF IsPlayback
<1>5. CASE files[v + 1].is = "snapshot"
  <2>1. v <= b
    BY <1>1, <1>2, <1>5
  <2>2. v = b
    BY <2>1, <1>2
  <2>3. QED
    BY <2>2, <1>3, <1>4, <1>5 DEF PlaysOn
<1>6. CASE files[v + 1].is # "snapshot"
  <2>1. v # b
    BY <1>1, <1>6
  <2>2. v # 0 /\ v - 1 \in Nat /\ v - 1 \in 0..Len(files) - 1 /\ b <= v - 1
    BY <2>1, <1>2
  <2>3. PICK c : c = Base(files, v - 1) /\ c \in 0..v - 1 /\ files[c + 1].is = "snapshot"
                 /\ \A s \in 0..v - 1 : files[s + 1].is = "snapshot" => s <= c
    BY <2>2, BaseIs
  <2>4. c = b
    <3>1. c \in 0..v /\ b \in 0..v - 1
      BY <2>2, <2>3, <1>1, <1>2
    <3>2. c <= b /\ b <= c
      BY <3>1, <2>3, <1>1
    <3>3. QED
      BY <3>1, <3>2
  <2>5. PICK g : IsPlayback(g, inst, files, b, v - 1) /\ Replay(inst, files, v - 1) = g[v - 1]
    BY <2>2, <2>3, <2>4, ReplayFrom
  <2>6. PICK w : w = v - 1 /\ w \in Nat /\ IsPlayback(g, inst, files, b, w) /\ w \in b..v /\ w <= w
    BY <2>2, <2>5, <1>2
  <2>7. f[w] = g[w]
    BY <1>2, <1>3, <2>6, PlaybackUnique
  <2>8. QED
    BY <2>1, <2>2, <2>5, <2>6, <2>7, <1>3, <1>4, <1>6 DEF PlaysOn
<1>7. QED
  BY <1>5, <1>6

(* What comes after a file does not change what it plays back to.             *)
LEMMA ReplayPrefix ==
  ASSUME NEW inst, NEW files, IsFiles(files), NEW more, IsFiles(more), Len(files) <= Len(more),
         \A n \in 1..Len(files) : more[n] = files[n]
  PROVE  \A v \in 0..Len(files) - 1 : Replay(inst, more, v) = Replay(inst, files, v)
<1> DEFINE T == {v \in Nat : v <= Len(files) - 1 => Replay(inst, more, v) = Replay(inst, files, v)}
<1>1. Len(files) \in Nat /\ Len(more) \in Nat
  BY DEF IsFiles
<1>2. ASSUME NEW v \in 0..Len(files) - 1, v # 0 => Replay(inst, more, v - 1) = Replay(inst, files, v - 1)
      PROVE  Replay(inst, more, v) = Replay(inst, files, v)
  <2>1. v + 1 \in 1..Len(files) /\ v \in 0..Len(more) - 1
    BY <1>1
  <2>2. more[v + 1] = files[v + 1]
    BY <2>1
  <2>3. PlaysOn(inst, files, v) /\ PlaysOn(inst, more, v)
    BY <2>1, ReplayStep
  <2>4. CASE files[v + 1].is = "snapshot"
    <3>1. Replay(inst, files, v) = Played(inst, {}, files[v + 1])
      BY <2>4, <2>3 DEF PlaysOn
    <3>2. Replay(inst, more, v) = Played(inst, {}, more[v + 1])
      BY <2>2, <2>4, <2>3 DEF PlaysOn
    <3>3. QED
      BY <2>2, <3>1, <3>2
  <2>5. CASE files[v + 1].is # "snapshot"
    <3>1. v # 0 /\ Replay(inst, files, v) = Played(inst, Replay(inst, files, v - 1), files[v + 1])
      BY <2>5, <2>3 DEF PlaysOn
    <3>2. Replay(inst, more, v) = Played(inst, Replay(inst, more, v - 1), more[v + 1])
      BY <2>2, <2>5, <2>3 DEF PlaysOn
    <3>3. QED
      BY <2>2, <3>1, <3>2, <1>2
  <2>6. QED
    BY <2>4, <2>5
<1>3. 0 \in T
  <2> SUFFICES ASSUME 0 <= Len(files) - 1 PROVE Replay(inst, more, 0) = Replay(inst, files, 0)
    OBVIOUS
  <2>1. 0 \in 0..Len(files) - 1
    BY <1>1
  <2>2. QED
    BY <2>1, <1>2
<1>4. ASSUME NEW v \in T PROVE v + 1 \in T
  <2> SUFFICES ASSUME v + 1 <= Len(files) - 1 PROVE Replay(inst, more, v + 1) = Replay(inst, files, v + 1)
    OBVIOUS
  <2>1. PICK w : w = v + 1 /\ w \in 0..Len(files) - 1 /\ w - 1 = v
    BY <1>1
  <2>2. Replay(inst, more, v) = Replay(inst, files, v)
    BY <1>1
  <2>3. QED
    BY <2>1, <2>2, <1>2
<1> HIDE DEF T
<1>5. T = Nat
  <2>1. T \in SUBSET Nat
    BY DEF T
  <2>2. QED
    BY <1>3, <1>4, <2>1, Induction
<1>6. QED
  BY <1>1, <1>5 DEF T

\* Every object is in memory.
Present == [o \in Objects |-> CHOOSE c : c # nil]

\* The members of files at version v, as they were stored.
Plain(files, v) == Replay(Present, files, v)

\* No member twice; nothing stale.
Single(refs) == \A r, s \in refs : r.of = s.of => r = s
IsClean(refs) == \A r \in refs : r \in AnyRef /\ (r = Instance(r.of) \/ r = Fault(r.of))

\* The members as stored, after one more file.
Then(before, file) ==
  CASE file.is = "snapshot"     -> file.members
    [] file.is = "addMember"    -> before \cup file.members
    [] file.is = "removeMember" -> before \ file.members
    [] file.is = "change"       -> before

\* A file a careful client causes: it adds what is missing and removes what is there, as an instance.
Follows(before, file) ==
  /\ IsClean(file.members) /\ Single(file.members)
  /\ file.is = "addMember" => \A r \in file.members : r.is = "instance" /\ r.of \notin Uuids(before)
  /\ file.is = "removeMember" => file.members \subseteq before

CleanFiles(files) == IsFiles(files) /\ \A n \in 1..Len(files) : Follows(Plain(files, n - 2), files[n])

ReadAll(inst, refs) == {Read(inst, r) : r \in refs}

LEMMA ThenIs ==
  ASSUME NEW before, NEW file \in AnyFile
  PROVE  /\ file.is \in {"snapshot", "addMember", "removeMember", "change"}
         /\ file.is = "snapshot" => Then(before, file) = file.members
         /\ file.is = "addMember" => Then(before, file) = before \cup file.members
         /\ file.is = "removeMember" => Then(before, file) = before \ file.members
         /\ file.is = "change" => Then(before, file) = before
BY DEF Then, AnyFile

LEMMA ReadIs ==
  ASSUME NEW inst, NEW r \in AnyRef, r = Instance(r.of) \/ r = Fault(r.of)
  PROVE  /\ Read(inst, r).of = r.of /\ Read(inst, r) \in {Instance(r.of), Fault(r.of)}
         /\ Read(inst, r) \in AnyRef /\ Read(inst, r).is # "stale" /\ Read(Present, r) = r
<1>1. r.of \in Objects
  BY DEF AnyRef
<1>2. /\ Instance(r.of).of = r.of /\ Fault(r.of).of = r.of
      /\ Instance(r.of).is = "instance" /\ Fault(r.of).is = "fault"
      /\ Instance(r.of) \in AnyRef /\ Fault(r.of) \in AnyRef
  BY <1>1 DEF Instance, Fault, AnyRef
<1>3. Read(inst, r) = r \/ Read(inst, r) = Fault(r.of)
  BY DEF Read
<1>4. Read(Present, r) = r
  <2>1. \E c : c # nil
    <3>1. (1 # nil) \/ (2 # nil)
      OBVIOUS
    <3>2. QED
      BY <3>1
  <2>2. (CHOOSE c : c # nil) # nil
    BY <2>1
  <2>3. Present[r.of] # nil
    BY <1>1, <2>2 DEF Present
  <2>4. QED
    BY <2>3 DEF Read
<1>5. QED
  BY <1>2, <1>3, <1>4

LEMMA ReadAllPresent == \A refs : IsClean(refs) => ReadAll(Present, refs) = refs
<1> SUFFICES ASSUME NEW refs, IsClean(refs) PROVE ReadAll(Present, refs) = refs
  OBVIOUS
<1>1. \A r \in refs : Read(Present, r) = r
  BY ReadIs DEF IsClean
<1>2. QED
  BY <1>1 DEF ReadAll

LEMMA ThenClean ==
  ASSUME NEW before, IsClean(before), Single(before), NEW file \in AnyFile, Follows(before, file)
  PROVE  /\ IsClean(Then(before, file)) /\ Single(Then(before, file))
         /\ \A r \in Then(before, file) : r.is = "fault" =>
              r \in (IF file.is = "snapshot" THEN file.members ELSE before)
<1>1. CASE file.is = "snapshot"
  BY <1>1, ThenIs DEF Follows
<1>2. CASE file.is = "addMember"
  <2>1. PICK all : all = before \cup file.members /\ Then(before, file) = all
    BY <1>2, ThenIs
  <2>2. IsClean(all)
    BY <2>1 DEF IsClean, Follows
  <2>3. \A r \in file.members, s \in before : r.of # s.of
    BY <1>2 DEF Follows, Uuids
  <2>4. Single(all)
    BY <2>1, <2>3 DEF Single, Follows
  <2>5. \A r \in all : r.is = "fault" => r \in before
    BY <1>2, <2>1 DEF Follows
  <2>6. QED
    BY <1>2, <2>1, <2>2, <2>4, <2>5
<1>3. CASE file.is = "removeMember"
  <2>1. PICK all : all = before \ file.members /\ Then(before, file) = all
    BY <1>3, ThenIs
  <2>2. IsClean(all) /\ Single(all)
    BY <2>1 DEF IsClean, Single
  <2>3. QED
    BY <1>3, <2>1, <2>2
<1>4. CASE file.is = "change"
  BY <1>4, ThenIs
<1>5. QED
  BY <1>1, <1>2, <1>3, <1>4, ThenIs

(* Whatever is in memory, an invocation that follows does to what is read     *)
(* what it does to what was stored.                                           *)
LEMMA PlayedThen ==
  ASSUME NEW inst, NEW before, IsClean(before), Single(before), NEW file \in AnyFile, Follows(before, file)
  PROVE  Played(inst, ReadAll(inst, before), file) = ReadAll(inst, Then(before, file))
<1>1. PICK member, refs : member = ReadAll(inst, file.members) /\ refs = ReadAll(inst, before)
  OBVIOUS
<1>2. /\ file.is = "snapshot" => Played(inst, refs, file) = member
      /\ file.is = "addMember" => Played(inst, refs, file) = refs \cup {r \in member : ~HasEqual(inst, refs, r)}
      /\ file.is = "removeMember" => Played(inst, refs, file) = {s \in refs : \A r \in member : ~IsEqual(inst, s, r)}
      /\ file.is = "change" => Played(inst, refs, file) = refs
  BY <1>1 DEF Played, ReadAll
<1>3. /\ \A r \in file.members : Read(inst, r).of = r.of
      /\ \A r \in before : Read(inst, r).of = r.of
  BY ReadIs DEF IsClean, Follows
<1>4. CASE file.is = "snapshot"
  BY <1>1, <1>2, <1>4, ThenIs
<1>5. CASE file.is = "addMember"
  <2>1. \A r \in member, s \in refs : r.of # s.of
    BY <1>1, <1>3, <1>5 DEF ReadAll, Follows, Uuids
  <2>2. \A r \in member : ~HasEqual(inst, refs, r)
    BY <2>1 DEF HasEqual, IsEqual
  <2>3. Played(inst, refs, file) = refs \cup member
    BY <1>2, <1>5, <2>2
  <2>4. ReadAll(inst, before \cup file.members) = refs \cup member
    BY <1>1 DEF ReadAll
  <2>5. QED
    BY <1>1, <1>5, <2>3, <2>4, ThenIs
<1>6. CASE file.is = "removeMember"
  <2>1. file.members \subseteq before
    BY <1>6 DEF Follows
  <2>2. ASSUME NEW s \in before
        PROVE  (\A r \in member : ~IsEqual(inst, Read(inst, s), r)) <=> s \notin file.members
    <3>1. ASSUME s \in file.members PROVE \E r \in member : IsEqual(inst, Read(inst, s), r)
      <4>1. Read(inst, s) \in member
        BY <1>1, <3>1 DEF ReadAll
      <4>2. IsEqual(inst, Read(inst, s), Read(inst, s))
        BY DEF IsEqual
      <4>3. QED
        BY <4>1, <4>2
    <3>2. ASSUME NEW q \in file.members, IsEqual(inst, Read(inst, s), Read(inst, q)) PROVE s \in file.members
      <4>1. s.of = q.of
        BY <1>3, <3>2 DEF IsEqual
      <4>2. s = q
        BY <2>1, <4>1 DEF Single
      <4>3. QED
        BY <4>2
    <3>3. QED
      BY <1>1, <3>1, <3>2 DEF ReadAll
  <2>3. {s \in refs : \A r \in member : ~IsEqual(inst, s, r)} = ReadAll(inst, before \ file.members)
    <3>1. \A t : t \in refs <=> \E s \in before : t = Read(inst, s)
      BY <1>1 DEF ReadAll
    <3>2. \A t : t \in ReadAll(inst, before \ file.members) <=> \E s \in before \ file.members : t = Read(inst, s)
      BY DEF ReadAll
    <3>3. QED
      BY <2>2, <3>1, <3>2
  <2>4. QED
    BY <1>1, <1>2, <1>6, <2>3, ThenIs
<1>7. CASE file.is = "change"
  BY <1>1, <1>2, <1>7, ThenIs
<1>8. QED
  BY <1>4, <1>5, <1>6, <1>7, ThenIs

\* What the files of a careful client play back to, whatever is in memory; a fault is one of the last snapshot.
PlainOK(files, v) ==
  /\ IsClean(Plain(files, v)) /\ Single(Plain(files, v))
  /\ \A inst : Replay(inst, files, v) = ReadAll(inst, Plain(files, v))
  /\ \A r \in Plain(files, v) : r.is = "fault" =>
       \E n \in 1..v + 1 : /\ files[n].is = "snapshot" /\ r \in files[n].members
                           /\ \A k \in n + 1..v + 1 : files[k].is # "snapshot"

\* The members before a file, none before a snapshot.
Before(files, v) == IF files[v + 1].is = "snapshot" THEN {} ELSE Plain(files, v - 1)

LEMMA PlainStep ==
  ASSUME NEW files, IsFiles(files), NEW v \in 0..Len(files) - 1, Follows(Plain(files, v - 1), files[v + 1]),
         v # 0 => PlainOK(files, v - 1)
  PROVE  /\ PlainOK(files, v)
         /\ Plain(files, v) = Then(Plain(files, v - 1), files[v + 1])
<1>1. v + 1 \in 1..Len(files) /\ v \in Nat /\ Len(files) \in Nat
  BY DEF IsFiles
<1>2. PICK file : file = files[v + 1] /\ file \in AnyFile
  BY <1>1 DEF IsFiles
<1>3. \A inst : PlaysOn(inst, files, v)
  BY ReplayStep
<1>4. PICK before : before = Before(files, v)
  OBVIOUS
<1>5. /\ file.is # "snapshot" => v # 0 /\ before = Plain(files, v - 1)
      /\ file.is = "snapshot" => before = {}
  BY <1>2, <1>3, <1>4 DEF PlaysOn, Before
<1>6. IsClean(before) /\ Single(before)
  <2>1. CASE file.is = "snapshot"
    BY <1>5, <2>1 DEF IsClean, Single
  <2>2. CASE file.is # "snapshot"
    BY <1>5, <2>2 DEF PlainOK
  <2>3. QED
    BY <2>1, <2>2
<1>7. Follows(before, file)
  <2>1. CASE file.is = "snapshot"
    BY <1>2, <2>1 DEF Follows
  <2>2. CASE file.is # "snapshot"
    BY <1>2, <1>5, <2>2
  <2>3. QED
    BY <2>1, <2>2
<1>8. ASSUME NEW inst PROVE Replay(inst, files, v) = ReadAll(inst, Then(before, file))
  <2>1. Replay(inst, files, v) = Played(inst, ReadAll(inst, before), file)
    <3>1. CASE file.is = "snapshot"
      <4>1. ReadAll(inst, before) = {}
        BY <1>5, <3>1 DEF ReadAll
      <4>2. QED
        BY <1>2, <1>3, <3>1, <4>1 DEF PlaysOn
    <3>2. CASE file.is # "snapshot"
      <4>1. Replay(inst, files, v) = Played(inst, Replay(inst, files, v - 1), file)
        BY <1>2, <1>3, <3>2 DEF PlaysOn
      <4>2. Replay(inst, files, v - 1) = ReadAll(inst, Plain(files, v - 1))
        BY <1>5, <3>2 DEF PlainOK
      <4>3. QED
        BY <1>5, <3>2, <4>1, <4>2
    <3>3. QED
      BY <3>1, <3>2
  <2>2. QED
    BY <1>2, <1>6, <1>7, <2>1, PlayedThen
<1>9. PICK now : /\ now = Then(before, file) /\ IsClean(now) /\ Single(now)
                 /\ \A r \in now : r.is = "fault" => r \in (IF file.is = "snapshot" THEN file.members ELSE before)
  BY <1>2, <1>6, <1>7, ThenClean
<1>10. Plain(files, v) = now
  BY <1>8, <1>9, ReadAllPresent DEF Plain
<1>11. Plain(files, v) = Then(Plain(files, v - 1), file)
  <2>1. CASE file.is = "snapshot"
    BY <1>2, <1>9, <1>10, <2>1, ThenIs
  <2>2. CASE file.is # "snapshot"
    BY <1>5, <1>9, <1>10, <2>2
  <2>3. QED
    BY <2>1, <2>2
<1>12. ASSUME NEW r \in now, r.is = "fault"
       PROVE  \E n \in 1..v + 1 : /\ files[n].is = "snapshot" /\ r \in files[n].members
                                  /\ \A k \in n + 1..v + 1 : files[k].is # "snapshot"
  <2>1. CASE file.is = "snapshot"
    <3>1. v + 1 \in 1..v + 1 /\ r \in files[v + 1].members /\ files[v + 1].is = "snapshot"
      BY <1>1, <1>2, <1>9, <1>12, <2>1
    <3>2. \A k \in (v + 1) + 1..v + 1 : FALSE
      BY <1>1
    <3>3. QED
      BY <3>1, <3>2
  <2>2. CASE file.is # "snapshot"
    <3>1. r \in Plain(files, v - 1) /\ v # 0
      BY <1>5, <1>9, <1>12, <2>2
    <3>2. PICK n \in 1..(v - 1) + 1 : /\ files[n].is = "snapshot" /\ r \in files[n].members
                                     /\ \A k \in n + 1..(v - 1) + 1 : files[k].is # "snapshot"
      BY <1>12, <3>1 DEF PlainOK
    <3>3. n \in 1..v + 1 /\ \A k \in n + 1..v + 1 : k = v + 1 \/ k \in n + 1..(v - 1) + 1
      BY <1>1
    <3>4. QED
      BY <1>2, <2>2, <3>2, <3>3
  <2>3. QED
    BY <2>1, <2>2
<1>13. QED
  BY <1>2, <1>8, <1>9, <1>10, <1>11, <1>12 DEF PlainOK

LEMMA PlainCorrect ==
  ASSUME NEW files, CleanFiles(files), NEW v \in 0..Len(files) - 1
  PROVE  PlainOK(files, v) /\ Plain(files, v) = Then(Plain(files, v - 1), files[v + 1])
<1> DEFINE T == {w \in Nat : w <= Len(files) - 1 => PlainOK(files, w)}
<1>1. IsFiles(files) /\ Len(files) \in Nat
  BY DEF CleanFiles, IsFiles
<1>2. ASSUME NEW w \in 0..Len(files) - 1 PROVE Follows(Plain(files, w - 1), files[w + 1])
  <2>1. PICK n \in 1..Len(files) : n = w + 1 /\ n - 2 = w - 1
    BY <1>1
  <2>2. Follows(Plain(files, n - 2), files[n])
    BY DEF CleanFiles
  <2>3. QED
    BY <2>1, <2>2
<1>3. ASSUME NEW w \in 0..Len(files) - 1, w # 0 => PlainOK(files, w - 1)
      PROVE  PlainOK(files, w) /\ Plain(files, w) = Then(Plain(files, w - 1), files[w + 1])
  BY <1>1, <1>2, <1>3, PlainStep
<1>4. 0 \in T
  <2> SUFFICES ASSUME 0 <= Len(files) - 1 PROVE PlainOK(files, 0)
    OBVIOUS
  <2>1. 0 \in 0..Len(files) - 1
    BY <1>1
  <2>2. QED
    BY <1>3, <2>1
<1>5. ASSUME NEW w \in T PROVE w + 1 \in T
  <2> SUFFICES ASSUME w + 1 <= Len(files) - 1 PROVE PlainOK(files, w + 1)
    OBVIOUS
  <2>1. PICK u : u = w + 1 /\ u \in 0..Len(files) - 1 /\ u - 1 = w
    BY <1>1
  <2>2. PlainOK(files, w)
    BY <1>1
  <2>3. QED
    BY <1>3, <2>1, <2>2
<1> HIDE DEF T
<1>6. T = Nat
  <2>1. T \in SUBSET Nat
    BY DEF T
  <2>2. QED
    BY <1>4, <1>5, <2>1, Induction
<1>7. v # 0 => PlainOK(files, v - 1)
  <2> SUFFICES ASSUME v # 0 PROVE PlainOK(files, v - 1)
    OBVIOUS
  <2>1. v - 1 \in Nat /\ v - 1 <= Len(files) - 1
    BY <1>1
  <2>2. QED
    BY <1>6, <2>1 DEF T
<1>8. QED
  BY <1>3, <1>7

(* One more file changes no version before it. *)
LEMMA Appended ==
  ASSUME NEW files, CleanFiles(files), NEW file \in AnyFile, files = <<>> => file.is = "snapshot",
         Follows(Plain(files, Len(files) - 1), file), NEW more, more = Append(files, file)
  PROVE  /\ CleanFiles(more) /\ Len(more) = Len(files) + 1 /\ Len(files) \in Nat
         /\ \A v \in 0..Len(files) - 1 : Plain(more, v) = Plain(files, v)
         /\ Plain(more, Len(files)) = Then(Plain(files, Len(files) - 1), file)
<1>1. IsFiles(files) /\ files \in Seq(AnyFile) /\ Len(files) \in Nat
  BY DEF CleanFiles, IsFiles
<1>2. /\ more \in Seq(AnyFile) /\ more # <<>> /\ Len(more) = Len(files) + 1
      /\ more[Len(files) + 1] = file /\ \A n \in 1..Len(files) : more[n] = files[n]
  BY <1>1
<1>3. IsFiles(more)
  <2>1. CASE files = <<>>
    <3>1. Len(files) + 1 = 1
      BY <2>1
    <3>2. QED
      BY <1>2, <2>1, <3>1 DEF IsFiles
  <2>2. CASE files # <<>>
    <3>1. 1 \in 1..Len(files)
      BY <1>1, <2>2
    <3>2. QED
      BY <1>1, <1>2, <2>2, <3>1 DEF IsFiles
  <2>3. QED
    BY <2>1, <2>2
<1>4. \A v \in 0..Len(files) - 1 : Plain(more, v) = Plain(files, v)
  <2>1. Len(files) <= Len(more)
    BY <1>1, <1>2
  <2>2. QED
    BY <1>1, <1>2, <1>3, <2>1, ReplayPrefix DEF Plain
<1>5. ASSUME NEW n \in 1..Len(more) PROVE Follows(Plain(more, n - 2), more[n])
  <2>1. CASE more[n].is = "snapshot"
    <3>1. PICK m : m = n /\ (m \in 1..Len(files) \/ m = Len(files) + 1)
      BY <1>1, <1>2
    <3>2. IsClean(more[n].members) /\ Single(more[n].members)
      BY <1>2, <3>1 DEF CleanFiles, Follows
    <3>3. QED
      BY <2>1, <3>2 DEF Follows
  <2>2. CASE more[n].is # "snapshot" /\ n \in 1..Len(files)
    <3>1. n # 1
      BY <1>3, <1>2, <2>2 DEF IsFiles
    <3>2. PICK v : v = n - 2 /\ v \in 0..Len(files) - 1
      BY <1>1, <2>2, <3>1
    <3>3. Follows(Plain(files, n - 2), files[n])
      BY <2>2 DEF CleanFiles
    <3>4. QED
      BY <1>2, <1>4, <2>2, <3>2, <3>3
  <2>3. CASE more[n].is # "snapshot" /\ n = Len(files) + 1
    <3>1. files # <<>>
      BY <1>2, <2>3
    <3>2. PICK v : v = n - 2 /\ v = Len(files) - 1 /\ v \in 0..Len(files) - 1
      BY <1>1, <2>3, <3>1
    <3>3. QED
      BY <1>2, <1>4, <2>3, <3>2
  <2>4. QED
    BY <1>1, <1>2, <2>1, <2>2, <2>3
<1>6. CleanFiles(more)
  BY <1>3, <1>5 DEF CleanFiles
<1>7. PICK v : v = Len(files) /\ v \in 0..Len(more) - 1 /\ v - 1 = Len(files) - 1
  BY <1>1, <1>2
<1>8. Plain(more, v) = Then(Plain(more, v - 1), more[v + 1]) /\ more[v + 1] = file
  BY <1>2, <1>6, <1>7, PlainCorrect
<1>9. Plain(more, v) = Then(Plain(files, v - 1), file)
  <2>1. CASE files = <<>>
    BY <1>8, <2>1, ThenIs
  <2>2. CASE files # <<>>
    <3>1. v - 1 \in 0..Len(files) - 1
      BY <1>1, <1>7, <2>2
    <3>2. QED
      BY <1>4, <1>8, <3>1
  <2>3. QED
    BY <2>1, <2>2
<1>10. QED
  BY <1>1, <1>2, <1>4, <1>6, <1>7, <1>9

------------------------------------------------------------------------------
(* The instances of a careful client.                                         *)

\* i has the last version of its files and their members, each once; there may be stale ones.
Matches(files, i) ==
  /\ i.version = Len(files) - 1
  /\ Single(i.members) /\ Uuids(i.members) = Uuids(Plain(files, Len(files) - 1))
HoldsStale(i) == \E r \in i.members : r.is = "stale"
Fresh(files, i) == Matches(files, i) /\ ~HoldsStale(i)

FilesInv == \A o \in Objects : CleanFiles(stored[o])

LEMMA ReadMembers ==
  ASSUME NEW inst, NEW refs, IsClean(refs), Single(refs)
  PROVE  /\ Single(ReadAll(inst, refs)) /\ Uuids(ReadAll(inst, refs)) = Uuids(refs)
         /\ \A r \in ReadAll(inst, refs) : r.is # "stale"
<1>1. \A r \in refs : Read(inst, r).of = r.of /\ Read(inst, r).is # "stale"
  BY ReadIs DEF IsClean
<1>2. PICK all : all = ReadAll(inst, refs)
  OBVIOUS
<1>3. \A s : s \in all <=> \E r \in refs : s = Read(inst, r)
  BY <1>2 DEF ReadAll
<1>4. Single(all)
  BY <1>1, <1>3 DEF Single
<1>5. Uuids(all) = Uuids(refs)
  BY <1>1, <1>3 DEF Uuids
<1>6. QED
  BY <1>1, <1>2, <1>3, <1>4, <1>5

(* An object is read with the members that were stored, each once and none    *)
(* stale.                                                                     *)
LEMMA PlaybackRead ==
  ASSUME FilesInv, NEW o \in Objects, NEW v \in 0..LastVersion(o), NEW inst, NEW refs, refs = Playback(inst, o, v)
  PROVE  /\ Single(refs) /\ Uuids(refs) = Uuids(Plain(stored[o], v))
         /\ \A r \in refs : r.is # "stale"
<1>1. PICK files : files = stored[o] /\ CleanFiles(files) /\ v \in 0..Len(files) - 1
  BY DEF FilesInv, LastVersion
<1>2. PlainOK(files, v)
  BY <1>1, PlainCorrect
<1>3. refs = ReadAll(inst, Plain(files, v))
  BY <1>1, <1>2, ReplayIsPlayback DEF PlainOK
<1>4. QED
  BY <1>1, <1>2, <1>3, ReadMembers DEF PlainOK

LEMMA LastIsVersion ==
  ASSUME FilesInv, NEW o \in Objects, IsStored(o)
  PROVE  LastVersion(o) \in 0..LastVersion(o)
<1>1. Len(stored[o]) \in Nat /\ Len(stored[o]) # 0
  BY DEF FilesInv, CleanFiles, IsFiles, IsStored
<1>2. QED
  BY <1>1 DEF LastVersion

LEMMA LoadFresh ==
  ASSUME FilesInv, NEW inst, InstancesOK(inst), NEW o \in Objects, IsStored(o)
  PROVE  /\ Fresh(stored[o], Load(inst, o)[o])
         /\ \A q \in Objects : q # o => Load(inst, o)[q] = inst[q]
<1>1. PICK v, refs : v = LastVersion(o) /\ v \in 0..LastVersion(o) /\ refs = Playback(inst, o, v)
  BY LastIsVersion
<1>2. PICK i : i = [version |-> v, members |-> refs, hasFaults |-> o \in Groups]
  OBVIOUS
<1>3. i.version = v /\ i.members = refs
  BY <1>2
<1>4. Fresh(stored[o], i)
  <2>1. Single(refs) /\ Uuids(refs) = Uuids(Plain(stored[o], v)) /\ \A r \in refs : r.is # "stale"
    BY <1>1, PlaybackRead
  <2>2. QED
    BY <1>1, <1>3, <2>1 DEF Fresh, Matches, HoldsStale, LastVersion
<1>5. Load(inst, o) = [inst EXCEPT ![o] = i]
  BY <1>1, <1>2 DEF Load
<1>6. PICK j : j = [inst EXCEPT ![o] = i]
  OBVIOUS
<1>7. j[o] = i /\ \A q \in Objects : q # o => j[q] = inst[q]
  BY <1>6 DEF InstancesOK
<1>8. QED
  BY <1>4, <1>5, <1>6, <1>7

\* q is as it was, or it was read.
Loads(inst, j, q) == j[q] = inst[q] \/ (inst[q] = nil /\ Fresh(stored[q], j[q]))

LEMMA MetFresh ==
  ASSUME StoredInv, FilesInv, NEW inst, InstancesOK(inst), NEW faults, \A x \in faults : x \in Objects /\ IsStored(x),
         NEW order, NEW n \in Nat
  PROVE  \A q \in Objects : /\ Loads(inst, Met(inst, faults, order, n), q)
                            /\ q \notin faults => Met(inst, faults, order, n)[q] = inst[q]
<1>1. PICK f : IsMet(f, inst, faults, order, n) /\ Met(inst, faults, order, n) = f[n]
  <2>1. \E f : IsMet(f, inst, faults, order, n)
    BY MetExists
  <2>2. PICK f : f = CHOOSE h : IsMet(h, inst, faults, order, n)
    OBVIOUS
  <2>3. IsMet(f, inst, faults, order, n)
    BY <2>1, <2>2
  <2>4. Met(inst, faults, order, n) = f[n]
    BY <2>2 DEF Met, IsMet
  <2>5. QED
    BY <2>3, <2>4
<1>2. \A k \in 0..n : f[k] = IF k = 0 THEN inst ELSE Meet(f[k - 1], faults, order[k])
  BY <1>1 DEF IsMet, Meet
<1> DEFINE Good(j) == InstancesOK(j) /\ \A q \in Objects : Loads(inst, j, q) /\ (q \notin faults => j[q] = inst[q])
           T == {k \in Nat : k <= n => Good(f[k])}
<1>3. 0 \in T
  <2>1. f[0] = inst
    BY <1>2
  <2>2. QED
    BY <2>1 DEF Loads
<1>4. ASSUME NEW k \in T PROVE k + 1 \in T
  <2> SUFFICES ASSUME k + 1 <= n PROVE Good(f[k + 1])
    OBVIOUS
  <2>1. k + 1 \in 0..n /\ k + 1 # 0 /\ (k + 1) - 1 = k /\ k <= n
    OBVIOUS
  <2>2. PICK i, x : i = f[k] /\ x = order[k + 1] /\ f[k + 1] = Meet(i, faults, x)
    BY <1>2, <2>1
  <2>3. Good(i)
    BY <2>1, <2>2
  <2>4. CASE x \in faults /\ i[x] = nil
    <3>1. PICK j : j = Load(i, x) /\ f[k + 1] = j
      BY <2>2, <2>4 DEF Meet
    <3>2. Fresh(stored[x], j[x]) /\ (\A q \in Objects : q # x => j[q] = i[q]) /\ InstancesOK(j)
      BY <2>3, <2>4, <3>1, LoadFresh, LoadKeeps
    <3>3. inst[x] = nil
      BY <2>3, <2>4 DEF Loads
    <3>4. \A q \in Objects : Loads(inst, j, q) /\ (q \notin faults => j[q] = inst[q])
      BY <2>3, <2>4, <3>2, <3>3 DEF Loads
    <3>5. QED
      BY <3>1, <3>2, <3>4
  <2>5. CASE ~(x \in faults /\ i[x] = nil)
    BY <2>2, <2>3, <2>5 DEF Meet
  <2>6. QED
    BY <2>4, <2>5
<1> HIDE DEF T
<1>5. T = Nat
  <2>1. T \in SUBSET Nat
    BY DEF T
  <2>2. QED
    BY <1>3, <1>4, <2>1, Induction
<1>6. QED
  BY <1>1, <1>5 DEF T

\* j is i with other references to the same members; none became stale.
Recast(i, j) ==
  /\ j.version = i.version /\ Uuids(j.members) = Uuids(i.members)
  /\ Single(i.members) => Single(j.members)
NoNewStale(i, j) == \A r \in j.members : r.is = "stale" => r \in i.members

LEMMA RecastBy ==
  ASSUME NEW refs, NEW f, \A r \in refs : f[r].of = r.of, NEW now, now = {f[r] : r \in refs}
  PROVE  Uuids(now) = Uuids(refs) /\ (Single(refs) => Single(now))
<1>1. \A s : s \in now <=> \E r \in refs : s = f[r]
  OBVIOUS
<1>2. Uuids(now) = Uuids(refs)
  BY <1>1 DEF Uuids
<1>3. Single(refs) => Single(now)
  BY <1>1 DEF Single
<1>4. QED
  BY <1>2, <1>3

LEMMA RecastTrans ==
  ASSUME NEW i, NEW j, NEW k, Recast(i, j), Recast(j, k)
  PROVE  Recast(i, k)
BY DEF Recast

LEMMA RecastMatches ==
  ASSUME NEW files, NEW i, NEW j, Matches(files, i), Recast(i, j)
  PROVE  Matches(files, j)
BY DEF Matches, Recast

LEMMA RecastSelf == \A i : Recast(i, i) /\ NoNewStale(i, i)
BY DEF Recast, NoNewStale

\* A group is not its own member.
LEMMA NotItself == \A g \in Objects : \A r \in MayHold(g) : r.of # g
BY MayContainAssumption DEF MayHold

LEMMA ResolveRecasts ==
  ASSUME StoredInv, FilesInv, NEW inst, InstancesOK(inst), NEW g \in Objects, IsLoaded(g, inst[g]), NEW order,
         NEW j, j = Resolve(inst, g, order)
  PROVE  /\ Recast(inst[g], j[g]) /\ NoNewStale(inst[g], j[g])
         /\ \A q \in Objects : q # g => Loads(inst, j, q)
<1>1. CASE ~inst[g].hasFaults
  <2>1. j = inst
    BY <1>1 DEF Resolve
  <2>2. QED
    BY <2>1, RecastSelf DEF Loads
<1>2. CASE inst[g].hasFaults
  <2>1. PICK faults : faults = {r.of : r \in {s \in inst[g].members : s.is = "fault"}}
    OBVIOUS
  <2>2. \A x \in faults : x \in Objects /\ IsStored(x) /\ x # g
    <3>1. \A r \in inst[g].members : r \in MayHold(g)
      BY DEF IsLoaded
    <3>2. \A r \in inst[g].members : r.of \in Objects /\ IsStored(r.of) /\ r.of # g
      BY <3>1, NotItself DEF MayHold, AnyRef
    <3>3. QED
      BY <2>1, <3>2
  <2>3. PICK i : i = Met(inst, faults, order, Cardinality(Objects)) /\ InstancesOK(i)
    BY <2>2, CountIs, MetKeeps
  <2>4. \A q \in Objects : Loads(inst, i, q) /\ (q \notin faults => i[q] = inst[q])
    BY <2>2, <2>3, CountIs, MetFresh
  <2>5. i[g] = inst[g]
    BY <2>2, <2>4
  <2>6. PICK l, f : l = inst[g] /\ f = [r \in l.members |-> IF r.is = "fault" THEN Instance(r.of) ELSE r]
    OBVIOUS
  <2>7. PICK refs : refs = {f[r] : r \in l.members} /\ refs = {IF r.is = "fault" THEN Instance(r.of) ELSE r : r \in l.members}
    BY <2>6
  <2>8. \A r \in l.members : f[r].of = r.of /\ (f[r].is = "stale" => f[r] = r)
    BY <2>6 DEF Instance
  <2>9. Uuids(refs) = Uuids(l.members) /\ (Single(l.members) => Single(refs))
    BY <2>7, <2>8, RecastBy
  <2>10. \A r \in refs : r.is = "stale" => r \in l.members
    BY <2>7, <2>8
  <2>11. PICK h : h = [version |-> l.version, members |-> refs, hasFaults |-> FALSE]
    OBVIOUS
  <2>12. j = [i EXCEPT ![g] = h]
    <3>1. j = [i EXCEPT ![g] = [[@ EXCEPT !.members = refs] EXCEPT !.hasFaults = FALSE]]
      BY <1>2, <2>1, <2>3, <2>5, <2>6, <2>7 DEF Resolve, InstancesOK
    <3>2. [[l EXCEPT !.members = refs] EXCEPT !.hasFaults = FALSE] = h
      <4>1. IsLoaded(g, l)
        BY <2>6
      <4>2. h.version = l.version /\ h.members = refs /\ h.hasFaults = FALSE /\ h.hasFaults \in BOOLEAN
        BY <2>11
      <4>3. QED
        BY <4>1, <4>2, <2>11 DEF IsLoaded
    <3>3. QED
      BY <2>5, <2>6, <3>1, <3>2
  <2>13. j[g] = h /\ \A q \in Objects : q # g => j[q] = i[q]
    BY <2>3, <2>12 DEF InstancesOK
  <2>14. h.version = l.version /\ h.members = refs
    BY <2>11
  <2>15. Recast(l, h) /\ NoNewStale(l, h)
    BY <2>9, <2>10, <2>14 DEF Recast, NoNewStale
  <2>16. QED
    BY <2>4, <2>6, <2>13, <2>15 DEF Loads
<1>3. QED
  BY <1>1, <1>2

LEMMA LeftRecasts ==
  ASSUME NEW inst, InstancesOK(inst), NEW objects \in SUBSET Objects, NEW j, j = Left(inst, objects)
  PROVE  /\ \A q \in Objects : inst[q] = nil => j[q] = nil
         /\ \A q \in Objects : inst[q] # nil =>
              /\ Recast(inst[q], j[q])
              /\ \A r \in j[q].members : r.is = "stale" =>
                   r \in inst[q].members
                   \/ \E s \in inst[q].members : s.of \in objects /\ r = Stale(s.of, inst[s.of].version)
<1>1. \A q \in Objects : j[q] = IF inst[q] = nil THEN nil ELSE
        [inst[q] EXCEPT !.members =
           {IF r.is = "instance" /\ r.of \in objects THEN Stale(r.of, inst[r.of].version) ELSE r : r \in @}]
  BY DEF Left
<1>2. ASSUME NEW q \in Objects, inst[q] # nil
      PROVE  /\ Recast(inst[q], j[q])
             /\ \A r \in j[q].members : r.is = "stale" =>
                  r \in inst[q].members
                  \/ \E s \in inst[q].members : s.of \in objects /\ r = Stale(s.of, inst[s.of].version)
  <2>1. PICK l : l = inst[q] /\ IsLoaded(q, l)
    BY <1>2 DEF InstancesOK
  <2>2. PICK f : f = [r \in l.members |-> IF r.is = "instance" /\ r.of \in objects THEN Stale(r.of, inst[r.of].version) ELSE r]
    OBVIOUS
  <2>3. PICK refs : /\ refs = {f[r] : r \in l.members}
                    /\ refs = {IF r.is = "instance" /\ r.of \in objects THEN Stale(r.of, inst[r.of].version) ELSE r : r \in l.members}
    BY <2>2
  <2>4. \A r \in l.members : f[r].of = r.of /\ (f[r] = r \/ (r.of \in objects /\ f[r] = Stale(r.of, inst[r.of].version)))
    BY <2>2 DEF Stale
  <2>5. Uuids(refs) = Uuids(l.members) /\ (Single(l.members) => Single(refs))
    BY <2>3, <2>4, RecastBy
  <2>6. j[q] = [l EXCEPT !.members = refs]
    BY <1>1, <1>2, <2>1, <2>3
  <2>7. j[q].version = l.version /\ j[q].members = refs
    BY <2>1, <2>6 DEF IsLoaded
  <2>8. \A r \in refs : r \in l.members \/ \E t \in l.members : t.of \in objects /\ r = Stale(t.of, inst[t.of].version)
    BY <2>3, <2>4
  <2>9. QED
    BY <2>1, <2>5, <2>7, <2>8 DEF Recast
<1>3. QED
  BY <1>1, <1>2

LEMMA UpdateRecasts ==
  ASSUME NEW inst, InstancesOK(inst), NEW o \in Objects, NEW old, NEW j, j = Update(inst, o, old)
  PROVE  \A g \in Objects :
           /\ Recast(inst[g], j[g]) /\ NoNewStale(inst[g], j[g])
           /\ inst[g] = nil => j[g] = nil
           /\ inst[g] # nil => \A r \in j[g].members : r.is = "stale" => r # Stale(o, old.version)
<1> DEFINE s == Stale(o, old.version)
<1>1. \A g \in Objects : j[g] =
        IF inst[g] = nil \/ ~HasEqual(inst, inst[g].members, s) THEN inst[g]
        ELSE [inst[g] EXCEPT !.members = Without(inst, @, s) \cup {Instance(o)}]
  BY DEF Update
<1>2. s.of = o /\ s.is = "stale" /\ \A i : IsEqual(i, s, s)
  BY DEF Stale, IsEqual
<1> HIDE DEF s
<1> SUFFICES ASSUME NEW g \in Objects
             PROVE  /\ Recast(inst[g], j[g]) /\ NoNewStale(inst[g], j[g])
                    /\ inst[g] = nil => j[g] = nil
                    /\ inst[g] # nil => \A r \in j[g].members : r.is = "stale" => r # s
  BY DEF s
<1>3. CASE inst[g] = nil
  BY <1>1, <1>3, RecastSelf
<1>4. CASE inst[g] # nil /\ ~HasEqual(inst, inst[g].members, s)
  <2>1. j[g] = inst[g]
    BY <1>1, <1>4
  <2>2. s \notin inst[g].members
    BY <1>2, <1>4 DEF HasEqual
  <2>3. QED
    BY <1>4, <2>1, <2>2, RecastSelf
<1>5. CASE inst[g] # nil /\ HasEqual(inst, inst[g].members, s)
  <2>1. PICK l : l = inst[g] /\ IsLoaded(g, l)
    BY <1>5 DEF InstancesOK
  <2>2. PICK e \in l.members : IsEqual(inst, s, e)
    BY <1>5, <2>1 DEF HasEqual
  <2>3. e.of = o
    BY <1>2, <2>2 DEF IsEqual
  <2>4. PICK rest, refs : rest = Without(inst, l.members, s) /\ refs = rest \cup {Instance(o)}
    OBVIOUS
  <2>5. rest = {r \in l.members : ~IsEqual(inst, s, r)}
    BY <2>4 DEF Without, IsEqual
  <2>6. s \notin rest /\ e \notin rest /\ rest \subseteq l.members
    BY <1>2, <2>2, <2>5
  <2>7. Instance(o).of = o /\ Instance(o).is # "stale"
    BY DEF Instance
  <2>8. \A r \in l.members : r \notin rest => r.of = o
    BY <1>2, <2>5 DEF IsEqual
  <2>9. Uuids(refs) = Uuids(l.members)
    <3>1. \A x : x \in Uuids(refs) <=> x = o \/ \E r \in rest : x = r.of
      BY <2>4, <2>7 DEF Uuids
    <3>2. \A x : x \in Uuids(l.members) <=> \E r \in l.members : x = r.of
      BY DEF Uuids
    <3>3. QED
      BY <2>3, <2>6, <2>8, <3>1, <3>2
  <2>10. Single(l.members) => Single(refs)
    <3>1. ASSUME Single(l.members) PROVE Single(refs)
      <4>1. \A r \in rest : r.of # o
        BY <2>3, <2>6, <3>1 DEF Single
      <4>2. QED
        BY <2>4, <2>6, <2>7, <3>1, <4>1 DEF Single
    <3>2. QED
      BY <3>1
  <2>11. j[g] = [l EXCEPT !.members = refs]
    BY <1>1, <1>5, <2>1, <2>4
  <2>12. j[g].version = l.version /\ j[g].members = refs
    BY <2>1, <2>11 DEF IsLoaded
  <2>13. \A r \in refs : r.is = "stale" => r \in l.members /\ r # s
    BY <2>4, <2>6, <2>7
  <2>14. QED
    BY <1>5, <2>1, <2>9, <2>10, <2>12, <2>13 DEF Recast, NoNewStale
<1>6. QED
  BY <1>3, <1>4, <1>5

LEMMA MergeSingle ==
  ASSUME PolicyInv, NEW inst, NEW existing, NEW old, Single(existing), Single(old),
         \A r \in existing \cup old : r.is = "instance"
  PROVE  Single(Merge(inst, existing, old))
<1>1. /\ policy = "old" => Merge(inst, existing, old) = old
      /\ policy = "existing" => Merge(inst, existing, old) = existing
      /\ policy = "union" => Merge(inst, existing, old) = old \cup {r \in existing : ~HasEqual(inst, old, r)}
      /\ policy = "intersection" => Merge(inst, existing, old) = {r \in old : HasEqual(inst, existing, r)}
  BY DEF Merge
<1>2. \A r, s \in existing \cup old : r.of = s.of => IsEqual(inst, r, s)
  BY DEF IsEqual, VersionIn
<1>3. ASSUME NEW all, all = old \cup {r \in existing : ~HasEqual(inst, old, r)} PROVE Single(all)
  <2>1. \A r \in {t \in existing : ~HasEqual(inst, old, t)}, s \in old : r.of # s.of
    BY <1>2 DEF HasEqual
  <2>2. QED
    BY <1>3, <2>1 DEF Single
<1>4. Single({r \in old : HasEqual(inst, existing, r)})
  BY DEF Single
<1>5. QED
  BY <1>1, <1>3, <1>4 DEF PolicyInv

Matching(inst) == \A q \in Objects : inst[q] = nil \/ Matches(stored[q], inst[q])

\* q has its last version, and stale members only if it had some.
Sound(inst, j, q) ==
  j[q] = nil \/ (Matches(stored[q], j[q]) /\ (HoldsStale(j[q]) => inst[q] # nil /\ HoldsStale(inst[q])))

LEMMA ResolveIfGroupRecasts ==
  ASSUME StoredInv, FilesInv, NEW inst, InstancesOK(inst), NEW o \in Objects, IsLoaded(o, inst[o]), NEW order,
         NEW j, j = ResolveIfGroup(inst, o, order)
  PROVE  /\ Recast(inst[o], j[o]) /\ NoNewStale(inst[o], j[o])
         /\ \A q \in Objects : q # o => Loads(inst, j, q)
<1>1. CASE o \in Groups
  BY <1>1, ResolveRecasts DEF ResolveIfGroup
<1>2. CASE o \notin Groups
  <2>1. j = inst
    BY <1>2 DEF ResolveIfGroup
  <2>2. QED
    BY <2>1, RecastSelf DEF Loads
<1>3. QED
  BY <1>1, <1>2

(* The replacement of an instance leaves every other one with the members it  *)
(* had, as present as they were, and the new one with those it was given or   *)
(* the policy chose.                                                          *)
LEMMA ReplaceSound ==
  ASSUME StoredInv, FilesInv, PolicyInv, NEW inst, InstancesOK(inst), Matching(inst),
         NEW o \in Objects, IsLoaded(o, inst[o]), inst[o] # nil, policy = "old" \/ ~HoldsStale(inst[o]),
         NEW v \in Int, NEW refs \in SUBSET MayHold(o), Single(refs), \A r \in refs : r.is # "stale",
         NEW order, NEW j, j = Replace(inst, o, v, refs, order)
  PROVE  /\ \A q \in Objects : q # o => Sound(inst, j, q)
         /\ j[o].version = Len(stored[o]) /\ Single(j[o].members)
         /\ \A r \in j[o].members : r.is = "instance" /\ r \in AnyRef
         /\ Uuids(j[o].members) \subseteq Uuids(inst[o].members) \cup Uuids(refs)
         /\ policy = "old" => Uuids(j[o].members) = Uuids(refs)
<1>1. PICK resolved : resolved = ResolveIfGroup(inst, o, order)
  OBVIOUS
<1>2. /\ InstancesOK(resolved) /\ IsLoaded(o, resolved[o])
      /\ o \in Groups => \A r \in resolved[o].members : r.is # "fault"
  BY <1>1, ResolveIfGroupKeeps
<1>3. PICK old, i : old = resolved[o] /\ i = [version |-> v, members |-> refs, hasFaults |-> o \in Groups]
  OBVIOUS
<1>4. i.version = v /\ i.members = refs /\ IsLoaded(o, i)
  <2>1. i.version = v /\ i.members = refs /\ i.hasFaults = (o \in Groups)
    BY <1>3
  <2>2. o \notin Groups => refs = {}
    BY LeafHoldsNothing
  <2>3. KnowsFaults(i)
    BY <2>1, <2>2 DEF KnowsFaults
  <2>4. IsStored(o)
    BY DEF IsLoaded
  <2>5. QED
    BY <1>3, <2>1, <2>3, <2>4 DEF IsLoaded
<1>5. /\ Recast(inst[o], old) /\ NoNewStale(inst[o], old)
      /\ \A q \in Objects : q # o => Loads(inst, resolved, q)
  BY <1>1, <1>3, ResolveIfGroupRecasts
<1>6. PICK left, swapped : left = Left(resolved, {o}) /\ swapped = [left EXCEPT ![o] = i]
  OBVIOUS
<1>7. InstancesOK(left)
  BY <1>2, <1>6, LeftKeeps
<1>8. swapped = [q \in Objects |-> swapped[q]] /\ swapped[o] = i /\ \A q \in Objects : q # o => swapped[q] = left[q]
  BY <1>6, <1>7 DEF InstancesOK
<1>9. InstancesOK(swapped) /\ IsLoaded(o, swapped[o])
  BY <1>4, <1>7, <1>8 DEF InstancesOK
<1>10. PICK again : again = ResolveIfGroup(swapped, o, order)
  OBVIOUS
<1>11. /\ InstancesOK(again) /\ IsLoaded(o, again[o])
       /\ o \in Groups => \A r \in again[o].members : r.is # "fault"
  BY <1>9, <1>10, ResolveIfGroupKeeps
<1>12. /\ Recast(i, again[o]) /\ NoNewStale(i, again[o])
       /\ \A q \in Objects : q # o => Loads(swapped, again, q)
  BY <1>8, <1>9, <1>10, ResolveIfGroupRecasts
<1>13. PICK linked : linked = Update(again, o, old)
  OBVIOUS
<1>14. /\ InstancesOK(linked) /\ IsLoaded(o, linked[o])
       /\ o \in Groups => \A r \in linked[o].members : r.is # "fault"
  <2>1. IsStored(o)
    BY DEF IsLoaded
  <2>2. /\ InstancesOK(linked) /\ Keeps(again, linked)
        /\ \A g \in Objects : IsLoaded(g, again[g]) /\ (\A r \in again[g].members : r.is # "fault") =>
             \A r \in linked[g].members : r.is # "fault"
    BY <1>11, <1>13, <2>1, UpdateKeeps
  <2>3. QED
    BY <1>11, <2>2 DEF Keeps
<1>15. \A g \in Objects :
           /\ Recast(again[g], linked[g]) /\ NoNewStale(again[g], linked[g])
           /\ again[g] = nil => linked[g] = nil
           /\ again[g] # nil => \A r \in linked[g].members : r.is = "stale" => r # Stale(o, old.version)
  BY <1>11, <1>13, UpdateRecasts
<1>16. PICK l, merged : /\ l = linked[o]
                        /\ merged = IF o \in Groups THEN Merge(linked, old.members, l.members) ELSE l.members
  OBVIOUS
<1>17. PICK h : h = [version |-> old.version + 1, members |-> merged, hasFaults |-> l.hasFaults]
  OBVIOUS
<1>18. j[o] = h /\ \A q \in Objects : q # o => j[q] = linked[q]
  <2>1. j = [linked EXCEPT ![o].members = IF o \in Groups THEN Merge(linked, old.members, @) ELSE @,
                           ![o].version = old.version + 1]
    BY <1>1, <1>3, <1>6, <1>10, <1>13 DEF Replace
  <2>2. j = [linked EXCEPT ![o] = [[l EXCEPT !.members = merged] EXCEPT !.version = old.version + 1]]
    BY <2>1, <1>14, <1>16 DEF InstancesOK
  <2>3. PICK n, m, b : l = [version |-> n, members |-> m, hasFaults |-> b]
    BY <1>14, <1>16 DEF IsLoaded
  <2>4. l.hasFaults = b
    BY <2>3
  <2>5. [l EXCEPT !.members = merged] = [version |-> n, members |-> merged, hasFaults |-> b]
    BY <2>3
  <2>6. PICK c : c = old.version + 1
    OBVIOUS
  <2>7. [[version |-> n, members |-> merged, hasFaults |-> b] EXCEPT !.version = c]
          = [version |-> c, members |-> merged, hasFaults |-> b]
    OBVIOUS
  <2>8. [[l EXCEPT !.members = merged] EXCEPT !.version = old.version + 1] = h
    BY <1>17, <2>4, <2>5, <2>6, <2>7
  <2>9. j = [linked EXCEPT ![o] = h]
    BY <2>2, <2>8
  <2>10. QED
    BY <2>9, <1>14 DEF InstancesOK
<1>19. h.version = old.version + 1 /\ h.members = merged
  BY <1>17
\* The new instance.
<1>20. Single(l.members) /\ Uuids(l.members) = Uuids(refs) /\ \A r \in l.members : r.is # "stale"
  <2>1. Recast(i, l)
    BY <1>12, <1>15, <1>16, RecastTrans
  <2>2. \A r \in l.members : r.is # "stale"
    BY <1>4, <1>12, <1>15, <1>16 DEF NoNewStale
  <2>3. QED
    BY <1>4, <2>1, <2>2 DEF Recast
<1>21. Matches(stored[o], old)
  BY <1>5, RecastMatches DEF Matching
<1>22. policy = "old" => merged = l.members
  BY <1>16 DEF Merge
<1>23. /\ Single(merged) /\ (\A r \in merged : r.is = "instance" /\ r \in AnyRef)
       /\ Uuids(merged) \subseteq Uuids(inst[o].members) \cup Uuids(refs)
  <2>1. CASE policy = "old" \/ o \notin Groups
    <3>1. merged = l.members
      BY <1>16, <1>22, <2>1
    <3>2. l.members \subseteq MayHold(o)
      BY <1>14, <1>16 DEF IsLoaded
    <3>3. \A r \in l.members : r \in AnyRef /\ r.is # "stale" /\ r.is # "fault"
      BY <1>14, <1>16, <1>20, <3>2, LeafHoldsNothing DEF MayHold
    <3>4. \A r \in l.members : r.is = "instance" /\ r \in AnyRef
      BY <3>3 DEF AnyRef
    <3>5. QED
      BY <1>20, <3>1, <3>4
  <2>2. CASE policy # "old" /\ o \in Groups
    <3>1. merged = Merge(linked, old.members, l.members)
      BY <1>16, <2>2
    <3>2. \A r \in old.members : r.is # "stale"
      BY <1>5, <2>2 DEF NoNewStale, HoldsStale
    <3>3. \A r \in old.members \cup l.members : r.is # "fault" /\ r \in AnyRef
      BY <1>2, <1>3, <1>14, <1>16, <2>2 DEF IsLoaded, MayHold
    <3>4. \A r \in old.members \cup l.members : r.is = "instance"
      BY <1>20, <3>2, <3>3 DEF AnyRef
    <3>5. Single(merged)
      BY <1>20, <1>21, <3>1, <3>4, MergeSingle DEF Matches
    <3>6. merged \subseteq old.members \cup l.members
      BY <3>1, MergeWithin
    <3>7. Uuids(old.members) = Uuids(inst[o].members)
      BY <1>5 DEF Recast
    <3>8. Uuids(merged) \subseteq Uuids(old.members) \cup Uuids(l.members)
      BY <3>6 DEF Uuids
    <3>9. QED
      BY <1>20, <3>3, <3>4, <3>5, <3>6, <3>7, <3>8
  <2>3. QED
    BY <2>1, <2>2
<1>24. /\ j[o].version = Len(stored[o]) /\ Single(j[o].members)
       /\ \A r \in j[o].members : r.is = "instance" /\ r \in AnyRef
       /\ Uuids(j[o].members) \subseteq Uuids(inst[o].members) \cup Uuids(refs)
       /\ policy = "old" => Uuids(j[o].members) = Uuids(refs)
  <2>1. old.version + 1 = Len(stored[o])
    <3>1. Len(stored[o]) \in Nat
      BY DEF FilesInv, CleanFiles, IsFiles
    <3>2. QED
      BY <1>21, <3>1 DEF Matches
  <2>2. QED
    BY <1>18, <1>19, <1>20, <1>22, <1>23, <2>1
\* The others.
<1>25. ASSUME NEW q \in Objects, q # o PROVE Sound(inst, j, q)
  <2> DEFINE Had == inst[q] # nil /\ HoldsStale(inst[q])
  <2>1. resolved[q] = nil \/ (Matches(stored[q], resolved[q]) /\ (HoldsStale(resolved[q]) => Had))
    BY <1>5, <1>25 DEF Loads, Fresh, Matching
  <2>2. left[q] = nil \/ ( /\ Matches(stored[q], left[q])
                           /\ \A r \in left[q].members : r.is = "stale" => r = Stale(o, old.version) \/ Had )
    <3>1. CASE resolved[q] = nil
      BY <1>2, <1>6, <3>1, LeftRecasts
    <3>2. CASE resolved[q] # nil
      <4>1. /\ Recast(resolved[q], left[q])
            /\ \A r \in left[q].members : r.is = "stale" =>
                 r \in resolved[q].members
                 \/ \E s \in resolved[q].members : s.of \in {o} /\ r = Stale(s.of, resolved[s.of].version)
        BY <1>2, <1>6, <3>2, LeftRecasts
      <4>2. Matches(stored[q], left[q])
        BY <2>1, <3>2, <4>1, RecastMatches
      <4>3. ASSUME NEW r \in left[q].members, r.is = "stale" PROVE r = Stale(o, old.version) \/ Had
        <5>1. CASE r \in resolved[q].members
          BY <2>1, <3>2, <4>3, <5>1 DEF HoldsStale
        <5>2. CASE r \notin resolved[q].members
          <6>1. PICK s \in resolved[q].members : s.of \in {o} /\ r = Stale(s.of, resolved[s.of].version)
            BY <4>1, <4>3, <5>2
          <6>2. QED
            BY <1>3, <6>1
        <5>3. QED
          BY <5>1, <5>2
      <4>4. QED
        BY <4>2, <4>3
    <3>3. QED
      BY <3>1, <3>2
  <2>3. again[q] = nil \/ ( /\ Matches(stored[q], again[q])
                            /\ \A r \in again[q].members : r.is = "stale" => r = Stale(o, old.version) \/ Had )
    BY <1>8, <1>12, <1>25, <2>2 DEF Loads, Fresh, HoldsStale
  <2>4. linked[q] = nil \/ (Matches(stored[q], linked[q]) /\ (HoldsStale(linked[q]) => Had))
    <3>1. CASE again[q] = nil
      BY <1>15, <3>1
    <3>2. CASE again[q] # nil
      <4>1. Matches(stored[q], linked[q])
        BY <1>15, <2>3, <3>2, RecastMatches
      <4>2. ASSUME NEW r \in linked[q].members, r.is = "stale" PROVE Had
        <5>1. r \in again[q].members /\ r # Stale(o, old.version)
          BY <1>15, <3>2, <4>2 DEF NoNewStale
        <5>2. QED
          BY <2>3, <3>2, <4>2, <5>1
      <4>3. QED
        BY <4>1, <4>2 DEF HoldsStale
    <3>3. QED
      BY <3>1, <3>2
  <2>5. QED
    BY <1>18, <1>25, <2>4 DEF Sound
<1>26. QED
  BY <1>24, <1>25

------------------------------------------------------------------------------
(* The invariant of a careful client.                                         *)

\* The members of a version of the context belong to it.
Closed(st, f) == \A o \in DOMAIN f : Uuids(Plain(st[o], f[o])) \subseteq DOMAIN f
AtVersion(st, f) == [o \in DOMAIN f |-> Uuids(Plain(st[o], f[o]))]

\* Between two operations the context is at the last version of each of its objects.
Steady(st, inst, f) ==
  /\ \A o \in DOMAIN f : f[o] = Len(st[o]) - 1
  /\ \A o \in Objects : inst[o] = nil \/ ~HoldsStale(inst[o])

\* While it is taken back to f, a group with a stale member is still to be merged, and
\* what is done has, at its last version, the members it had.
Underway(st, inst, f, r) ==
  /\ \A o \in Objects : inst[o] # nil /\ HoldsStale(inst[o]) => o \in r.todo /\ f[o] # Len(st[o]) - 1
  /\ DOMAIN r.rows \subseteq DOMAIN f \ r.todo
  /\ \A o \in DOMAIN f \ r.todo :
       /\ Over(r.rows, f)[o] = Len(st[o]) - 1
       /\ Uuids(Plain(st[o], Len(st[o]) - 1)) = Uuids(Plain(st[o], f[o]))

AnyGraph == UNION {[S -> SUBSET Objects] : S \in SUBSET Objects}
SeenInv ==
  /\ seen \in Seq(AnyGraph) /\ Len(seen) = Len(history)
  /\ \A v \in 1..Len(history) : seen[v] = AtVersion(stored, Found(v))

CurrentInv ==
  /\ FilesInv /\ Matching(instance) /\ SeenInv
  /\ \A v \in 0..Len(history) : Closed(stored, Found(v))
  /\ Idle => Steady(stored, instance, Here)
  /\ restoring # nil => policy = "old" /\ Underway(stored, instance, Found(restoring.to), restoring)

LEMMA MembersAre ==
  ASSUME FilesInv, NEW inst, Matching(inst), NEW o \in Objects, LastVersion(o) \in 0..LastVersion(o)
  PROVE  Members(inst, o) = Uuids(Plain(stored[o], LastVersion(o)))
<1>1. CASE inst[o] = nil
  <2>1. PICK refs : refs = Playback(inst, o, LastVersion(o))
    OBVIOUS
  <2>2. Uuids(refs) = Uuids(Plain(stored[o], LastVersion(o)))
    BY <2>1, PlaybackRead
  <2>3. QED
    BY <1>1, <2>1, <2>2 DEF Members
<1>2. CASE inst[o] # nil
  BY <1>2 DEF Members, Matching, Matches, LastVersion
<1>3. QED
  BY <1>1, <1>2

LEMMA UuidsAreObjects ==
  ASSUME NEW files, CleanFiles(files), NEW v \in 0..Len(files) - 1
  PROVE  Uuids(Plain(files, v)) \subseteq Objects
<1>1. IsClean(Plain(files, v))
  BY PlainCorrect DEF PlainOK
<1>2. QED
  BY <1>1 DEF IsClean, Uuids, AnyRef

LEMMA AtVersionIs ==
  ASSUME FilesInv, NEW f, FoundOK(f)
  PROVE  AtVersion(stored, f) \in AnyGraph
<1>1. PICK D, g : D = DOMAIN f /\ g = AtVersion(stored, f) /\ D \in SUBSET Objects
  BY DEF FoundOK
<1>2. \A o \in D : Uuids(Plain(stored[o], f[o])) \in SUBSET Objects
  <2> SUFFICES ASSUME NEW o \in D PROVE Uuids(Plain(stored[o], f[o])) \in SUBSET Objects
    OBVIOUS
  <2>1. o \in Objects /\ f[o] \in 0..Len(stored[o]) - 1 /\ CleanFiles(stored[o])
    BY <1>1 DEF FoundOK, FilesInv, LastVersion
  <2>2. QED
    BY <2>1, UuidsAreObjects
<1>3. g \in [D -> SUBSET Objects]
  BY <1>1, <1>2 DEF AtVersion
<1>4. QED
  BY <1>1, <1>3 DEF AnyGraph

\* The graph the client sees, in this state and the next one.
LEMMA ViewIs ==
  FilesInv /\ Matching(instance) /\ FoundOK(Here) /\ (\A o \in DOMAIN Here : Here[o] = Len(stored[o]) - 1)
    => View = AtVersion(stored, Here) /\ View \in AnyGraph
<1> SUFFICES ASSUME FilesInv, Matching(instance), FoundOK(Here), \A o \in DOMAIN Here : Here[o] = Len(stored[o]) - 1
             PROVE  View = AtVersion(stored, Here) /\ View \in AnyGraph
  OBVIOUS
<1>1. ASSUME NEW o \in DOMAIN Here PROVE Members(instance, o) = Uuids(Plain(stored[o], Here[o]))
  <2>1. o \in Objects /\ Here[o] = LastVersion(o) /\ LastVersion(o) \in 0..LastVersion(o)
    BY DEF FoundOK, LastVersion
  <2>2. QED
    BY <2>1, MembersAre
<1>2. PICK f : f = Here
  OBVIOUS
<1>3. View = AtVersion(stored, f)
  BY <1>1, <1>2 DEF View, AtVersion
<1>4. QED
  BY <1>2, <1>3, AtVersionIs

\* What was played back before is played back in the next state.
PlainStays == \A q \in Objects : \A v \in 0..LastVersion(q) : Plain(stored'[q], v) = Plain(stored[q], v)

LEMMA StoresPlain ==
  ASSUME StoredInv, FilesInv, NEW o \in Objects, NEW file \in AnyFile, stored[o] = <<>> => file.is = "snapshot",
         Follows(Plain(stored[o], Len(stored[o]) - 1), file), stored' = [stored EXCEPT ![o] = Append(@, file)]
  PROVE  /\ FilesInv' /\ PlainStays
         /\ \A q \in Objects : q # o => stored'[q] = stored[q]
         /\ Len(stored'[o]) = Len(stored[o]) + 1 /\ Len(stored[o]) \in Nat
         /\ Plain(stored'[o], Len(stored[o])) = Then(Plain(stored[o], Len(stored[o]) - 1), file)
<1>1. PICK files, more : files = stored[o] /\ more = Append(files, file) /\ CleanFiles(files)
  BY DEF FilesInv
<1>2. stored'[o] = more /\ \A q \in Objects : q # o => stored'[q] = stored[q]
  BY <1>1 DEF StoredInv
<1>3. /\ CleanFiles(more) /\ Len(more) = Len(files) + 1 /\ Len(files) \in Nat
      /\ \A v \in 0..Len(files) - 1 : Plain(more, v) = Plain(files, v)
      /\ Plain(more, Len(files)) = Then(Plain(files, Len(files) - 1), file)
  BY <1>1, Appended
<1>4. FilesInv'
  BY <1>2, <1>3 DEF FilesInv
<1>5. PlainStays
  BY <1>1, <1>2, <1>3 DEF PlainStays, LastVersion
<1>6. QED
  BY <1>1, <1>2, <1>3, <1>4, <1>5

LEMMA PlainSame == UNCHANGED stored => PlainStays
BY DEF PlainStays

LEMMA ClosedStays ==
  ASSUME PlainStays, NEW f, FoundOK(f), Closed(stored, f)
  PROVE  Closed(stored', f) /\ AtVersion(stored', f) = AtVersion(stored, f)
<1>1. \A o \in DOMAIN f : Plain(stored'[o], f[o]) = Plain(stored[o], f[o])
  BY DEF PlainStays, FoundOK
<1>2. QED
  BY <1>1 DEF Closed, AtVersion

\* The history of a step that adds no version.
LEMMA HistoryQuiet ==
  ASSUME GraphInv, CurrentInv, PlainStays, UNCHANGED <<history, seen>>
  PROVE  SeenInv' /\ \A v \in 0..Len(history') : Closed(stored', Found(v)')
<1>1. \A v : Found(v)' = Found(v)
  BY DEF Found
<1>2. \A v \in 0..Len(history) : Closed(stored', Found(v)) /\ AtVersion(stored', Found(v)) = AtVersion(stored, Found(v))
  BY ClosedStays DEF GraphInv, HistoryInv, CurrentInv
<1>3. Len(history) \in Nat
  BY DEF GraphInv, HistoryInv
<1>4. SeenInv'
  BY <1>1, <1>2, <1>3 DEF SeenInv, CurrentInv
<1>5. QED
  BY <1>1, <1>2, <1>4

(* A step that adds the version f to the history.                             *)
LEMMA HistoryLogged ==
  ASSUME GraphInv, GraphInv', CurrentInv, PlainStays, FilesInv', Matching(instance)', NEW f, NEW n,
         history' = Append(history, [found |-> f, origin |-> n]), seen' = Append(seen, View'),
         Closed(stored', f), \A o \in DOMAIN f : f[o] = Len(stored'[o]) - 1
  PROVE  /\ SeenInv' /\ Here' = f
         /\ \A v \in 0..Len(history') : Closed(stored', Found(v)')
         /\ Last(seen') = AtVersion(stored', f)
<1>1. /\ history \in Seq(AnyVersion) /\ Len(history) \in Nat
      /\ [found |-> f, origin |-> n].found = f
  BY DEF GraphInv, HistoryInv
<1>2. /\ Len(history') = Len(history) + 1
      /\ history'[Len(history) + 1].found = f
      /\ \A v \in 1..Len(history) : history'[v] = history[v]
  BY <1>1
<1>3. \A v \in 0..Len(history) : Found(v)' = Found(v)
  BY <1>2, <1>1 DEF Found
<1>4. Here' = f /\ \A c : c = Len(history) + 1 => Found(c)' = f
  BY <1>2, <1>1 DEF Found, Here
<1>5. \A v \in 0..Len(history) : Closed(stored', Found(v)) /\ AtVersion(stored', Found(v)) = AtVersion(stored, Found(v))
  BY ClosedStays DEF GraphInv, HistoryInv, CurrentInv
<1>6. View' = AtVersion(stored', f) /\ View' \in AnyGraph
  <2>1. Len(history') \in 0..Len(history')
    BY <1>1, <1>2
  <2>2. FoundOK(Here)'
    BY <2>1 DEF GraphInv, HistoryInv, Here
  <2>3. (FilesInv /\ Matching(instance) /\ FoundOK(Here) /\ (\A o \in DOMAIN Here : Here[o] = Len(stored[o]) - 1)
           => View = AtVersion(stored, Here) /\ View \in AnyGraph)'
    BY ViewIs, PTL
  <2>4. View' = AtVersion(stored', Here') /\ View' \in AnyGraph'
    BY <1>4, <2>2, <2>3
  <2>5. QED
    BY <1>4, <2>4 DEF AnyGraph
<1>7. /\ seen' \in Seq(AnyGraph) /\ Len(seen') = Len(history')
      /\ \A v \in 1..Len(history) : seen'[v] = seen[v]
      /\ seen'[Len(history) + 1] = AtVersion(stored', f) /\ Last(seen') = AtVersion(stored', f)
  <2>1. PICK w : w = View' /\ w = AtVersion(stored', f) /\ w \in AnyGraph /\ seen' = Append(seen, w)
    BY <1>6
  <2>2. seen \in Seq(AnyGraph) /\ Len(seen) = Len(history)
    BY DEF CurrentInv, SeenInv
  <2>3. seen' \in Seq(AnyGraph) /\ Len(seen') = Len(history) + 1
        /\ (\A v \in 1..Len(history) : seen'[v] = seen[v]) /\ seen'[Len(history) + 1] = w
    BY <1>1, <2>1, <2>2
  <2>4. Last(seen') = w
    BY <2>3 DEF Last
  <2>5. QED
    BY <1>2, <2>1, <2>3, <2>4
<1>8. \A v \in 0..Len(history') : v \in 0..Len(history) \/ v = Len(history) + 1
  BY <1>1, <1>2
<1>9. ASSUME NEW v \in 0..Len(history') PROVE Closed(stored', Found(v)')
  <2>1. CASE v \in 0..Len(history)
    BY <1>3, <1>5, <2>1
  <2>2. CASE v = Len(history) + 1
    <3>1. Found(v)' = f
      BY <1>4, <2>2
    <3>2. QED
      BY <3>1
  <2>3. QED
    BY <1>8, <2>1, <2>2
<1>10. \A v \in 1..Len(history') : seen'[v] = AtVersion(stored', Found(v)')
  <2> SUFFICES ASSUME NEW v \in 1..Len(history') PROVE seen'[v] = AtVersion(stored', Found(v)')
    OBVIOUS
  <2>1. CASE v \in 1..Len(history)
    <3>1. v \in 0..Len(history) /\ seen[v] = AtVersion(stored, Found(v))
      BY <1>1, <2>1 DEF CurrentInv, SeenInv
    <3>2. QED
      BY <1>3, <1>5, <1>7, <2>1, <3>1
  <2>2. CASE v = Len(history) + 1
    <3>1. Found(v)' = f
      BY <1>4, <2>2
    <3>2. QED
      BY <1>7, <2>2, <3>1
  <2>3. v \in 1..Len(history) \/ v = Len(history) + 1
    BY <1>1, <1>2
  <2>4. QED
    BY <2>1, <2>2, <2>3
<1>11. SeenInv'
  BY <1>7, <1>10 DEF SeenInv, AnyGraph
<1>12. QED
  BY <1>4, <1>7, <1>9, <1>11

------------------------------------------------------------------------------
(* The operations of a careful client.                                        *)

LEMMA SoundSelf == \A inst : Matching(inst) => \A q \in Objects : Sound(inst, inst, q)
BY DEF Matching, Sound

LEMMA LoadsSound ==
  ASSUME NEW inst, Matching(inst), NEW j, NEW q \in Objects, Loads(inst, j, q)
  PROVE  Sound(inst, j, q)
BY DEF Matching, Sound, Loads, Fresh

LEMMA RecastSound ==
  ASSUME NEW inst, Matching(inst), NEW j, NEW q \in Objects, inst[q] # nil,
         Recast(inst[q], j[q]), NoNewStale(inst[q], j[q])
  PROVE  Sound(inst, j, q)
<1>1. Matches(stored[q], j[q])
  BY RecastMatches DEF Matching
<1>2. HoldsStale(j[q]) => HoldsStale(inst[q])
  BY DEF NoNewStale, HoldsStale
<1>3. QED
  BY <1>1, <1>2 DEF Sound

LEMMA LengthIs == FilesInv => \A o \in Objects : Len(stored[o]) \in Nat
BY DEF FilesInv, CleanFiles, IsFiles

(* An operation that writes nothing.                                          *)
LEMMA QuietCurrent ==
  ASSUME GraphInv, CurrentInv, Idle, UNCHANGED <<history, stored, restoring, seen>>,
         \A q \in Objects : Sound(instance, instance', q)
  PROVE  CurrentInv'
<1>1. SeenInv' /\ \A v \in 0..Len(history') : Closed(stored', Found(v)')
  BY PlainSame, HistoryQuiet
<1>2. Steady(stored, instance, Here) /\ Here' = Here
  BY DEF CurrentInv, Here, Found
<1>3. FilesInv' /\ Matching(instance)' /\ Steady(stored', instance', Here')
  BY <1>2 DEF Sound, Matching, Steady, FilesInv, CurrentInv
<1>4. QED
  BY <1>1, <1>3 DEF CurrentInv, Idle, Steady

\* One more version of the context, for the object o.
LogsChange(o) ==
  /\ seen' = Append(seen, View') /\ Last(seen') = AtVersion(stored', Here') /\ seen' # <<>>
  /\ DOMAIN Here' = DOMAIN Here \cup {o}
  /\ \A p \in DOMAIN Here \ {o} : Uuids(Plain(stored'[p], Here'[p])) = Uuids(Plain(stored[p], Here[p]))
  /\ \E f : history' = Append(history, [found |-> f, origin |-> -1])

(* A logged operation on the object o.                                        *)
LEMMA LoggedCurrent ==
  ASSUME GraphInv, GraphInv', CurrentInv, Idle, NEW o \in Objects, NEW file \in AnyFile, Log(o, file),
         stored[o] = <<>> => file.is = "snapshot", Follows(Plain(stored[o], Len(stored[o]) - 1), file),
         NEW now, now = Then(Plain(stored[o], Len(stored[o]) - 1), file), Uuids(now) \subseteq DOMAIN Here \cup {o},
         \A q \in Objects : q # o => Sound(instance, instance', q),
         instance'[o].version = Len(stored[o]), Single(instance'[o].members), ~HoldsStale(instance'[o]),
         Uuids(instance'[o].members) = Uuids(now)
  PROVE  CurrentInv' /\ LogsChange(o)
<1>1. /\ FilesInv' /\ PlainStays
      /\ \A q \in Objects : q # o => stored'[q] = stored[q]
      /\ Len(stored'[o]) = Len(stored[o]) + 1 /\ Len(stored[o]) \in Nat
      /\ Plain(stored'[o], Len(stored[o])) = now
  BY StoresPlain DEF GraphInv, CurrentInv, Log
<1>2. Steady(stored, instance, Here) /\ Closed(stored, Here) /\ FoundOK(Here)
  <2>1. Len(history) \in 0..Len(history)
    BY DEF GraphInv, HistoryInv
  <2>2. QED
    BY <2>1 DEF CurrentInv, Here, GraphInv, HistoryInv
<1>3. PICK here, n, e, f : here = Here /\ n = Len(stored[o]) /\ e = Entry(o, n) /\ f = Over(e, here)
  OBVIOUS
<1>4. /\ DOMAIN f = DOMAIN here \cup {o} /\ f[o] = n
      /\ \A q \in DOMAIN here \ {o} : f[q] = here[q]
  BY <1>3 DEF Over, Entry
<1>5. Closed(stored', here)
  BY <1>1, <1>2, <1>3, ClosedStays
<1>6. Closed(stored', f)
  <2> SUFFICES ASSUME NEW q \in DOMAIN f PROVE Uuids(Plain(stored'[q], f[q])) \subseteq DOMAIN f
    BY DEF Closed
  <2>1. CASE q = o
    BY <1>1, <1>3, <1>4, <2>1
  <2>2. CASE q # o
    <3>1. q \in DOMAIN here /\ f[q] = here[q]
      BY <1>4, <2>2
    <3>2. QED
      BY <1>4, <1>5, <3>1 DEF Closed
  <2>3. QED
    BY <2>1, <2>2
<1>7. \A q \in DOMAIN f : f[q] = Len(stored'[q]) - 1
  <2> SUFFICES ASSUME NEW q \in DOMAIN f PROVE f[q] = Len(stored'[q]) - 1
    OBVIOUS
  <2>1. CASE q = o
    BY <1>1, <1>3, <1>4, <2>1
  <2>2. CASE q # o
    <3>1. q \in DOMAIN here /\ f[q] = here[q] /\ q \in Objects
      BY <1>2, <1>3, <1>4, <2>2 DEF FoundOK
    <3>2. QED
      BY <1>1, <1>2, <1>3, <2>2, <3>1 DEF Steady
  <2>3. QED
    BY <2>1, <2>2
<1>8. ASSUME NEW q \in Objects
      PROVE  instance'[q] = nil \/ (Matches(stored'[q], instance'[q]) /\ ~HoldsStale(instance'[q]))
  <2>1. CASE q = o
    <3>1. Len(stored'[o]) - 1 = n
      BY <1>1, <1>3
    <3>2. Matches(stored'[o], instance'[o])
      BY <1>1, <1>3, <3>1 DEF Matches
    <3>3. QED
      BY <2>1, <3>2
  <2>2. CASE q # o
    BY <1>1, <1>2, <2>2 DEF Sound, Steady
  <2>3. QED
    BY <2>1, <2>2
<1>9. Matching(instance)' /\ Steady(stored', instance', f)
  BY <1>7, <1>8 DEF Matching, Steady
<1>10. history' = Append(history, [found |-> f, origin |-> -1]) /\ seen' = Append(seen, View') /\ restoring' = restoring
  BY <1>3 DEF Log
<1>11. /\ SeenInv' /\ Here' = f
       /\ \A v \in 0..Len(history') : Closed(stored', Found(v)')
       /\ Last(seen') = AtVersion(stored', f)
  BY <1>1, <1>6, <1>7, <1>9, <1>10, HistoryLogged
<1>12. CurrentInv'
  BY <1>1, <1>9, <1>10, <1>11 DEF CurrentInv, Idle
<1>13. seen' # <<>>
  BY <1>10 DEF CurrentInv, SeenInv
<1>14. ASSUME NEW p \in DOMAIN here \ {o} PROVE Uuids(Plain(stored'[p], f[p])) = Uuids(Plain(stored[p], here[p]))
  BY <1>1, <1>2, <1>3, <1>4 DEF FoundOK
<1>15. LogsChange(o)
  BY <1>3, <1>4, <1>10, <1>11, <1>13, <1>14 DEF LogsChange
<1>16. QED
  BY <1>12, <1>15

\* What an object of the context has in memory, between two operations.
LEMMA CachedIs ==
  ASSUME GraphInv, CurrentInv, Idle, NEW o \in Cached
  PROVE  /\ o \in Objects /\ IsLoaded(o, instance[o]) /\ Matches(stored[o], instance[o]) /\ ~HoldsStale(instance[o])
         /\ CleanFiles(stored[o]) /\ stored[o] # <<>> /\ Len(stored[o]) \in Nat /\ Len(stored[o]) - 1 \in 0..Len(stored[o]) - 1
<1>1. o \in Objects /\ IsLoaded(o, instance[o]) /\ IsStored(o) /\ instance[o] # nil
  BY CachedLoaded DEF Cached
<1>2. Matches(stored[o], instance[o]) /\ ~HoldsStale(instance[o]) /\ CleanFiles(stored[o])
  BY <1>1 DEF CurrentInv, Matching, Steady, FilesInv
<1>3. Len(stored[o]) \in Nat /\ Len(stored[o]) # 0
  BY <1>1, <1>2 DEF CleanFiles, IsFiles, IsStored
<1>4. QED
  BY <1>1, <1>2, <1>3 DEF IsStored

\* The members an object has belong to the context with it.
LEMMA HereCloses ==
  ASSUME GraphInv, CurrentInv, Idle, NEW o \in DOMAIN Here
  PROVE  Uuids(Plain(stored[o], Len(stored[o]) - 1)) \subseteq DOMAIN Here
<1>1. Len(history) \in 0..Len(history)
  BY DEF GraphInv, HistoryInv
<1>2. Closed(stored, Here) /\ Here[o] = Len(stored[o]) - 1
  BY <1>1 DEF CurrentInv, Here, Steady
<1>3. QED
  BY <1>2 DEF Closed

LEMMA InsertCurrent ==
  ASSUME GraphInv, GraphInv', CurrentInv, NEW o \in Objects, Insert(o)
  PROVE  CurrentInv' /\ LogsChange(o)
<1>1. PICK file : file = [is |-> "snapshot", members |-> {}]
  OBVIOUS
<1>2. file \in AnyFile /\ file.members = {} /\ file.is = "snapshot"
  BY <1>1 DEF AnyFile
<1>3. Idle /\ Log(o, file) /\ stored[o] = <<>> /\ Len(stored[o]) = 0
  BY <1>1 DEF Insert, IsStored
<1>4. Follows(Plain(stored[o], Len(stored[o]) - 1), file)
  BY <1>2 DEF Follows, IsClean, Single
<1>5. Then(Plain(stored[o], Len(stored[o]) - 1), file) = {} /\ Uuids({}) = {} /\ Single({})
  BY <1>2, ThenIs DEF Uuids, Single
<1>6. PICK h : h = [version |-> 0, members |-> {}, hasFaults |-> FALSE] /\ h.version = 0 /\ h.members = {}
  <2>1. PICK h : h = [version |-> 0, members |-> {}, hasFaults |-> FALSE]
    OBVIOUS
  <2>2. h.version = 0 /\ h.members = {}
    BY <2>1
  <2>3. QED
    BY <2>1, <2>2
<1>7. instance' = [instance EXCEPT ![o] = h] /\ instance'[o] = h /\ \A q \in Objects : q # o => instance'[q] = instance[q]
  BY <1>6 DEF Insert, GraphInv, InstancesOK
<1>8. \A q \in Objects : q # o => Sound(instance, instance', q)
  BY <1>7, SoundSelf DEF Sound, CurrentInv
<1>9. ~HoldsStale(h)
  BY <1>6 DEF HoldsStale
<1>10. QED
  BY <1>2, <1>3, <1>4, <1>5, <1>6, <1>7, <1>8, <1>9, LoggedCurrent

\* One object has another version and other members, the others are as they were.
LEMMA MembersSet ==
  ASSUME GraphInv, CurrentInv, NEW o \in Cached, NEW refs,
         instance' = [instance EXCEPT ![o].members = refs, ![o].version = @ + 1]
  PROVE  /\ instance'[o].members = refs /\ instance'[o].version = instance[o].version + 1
         /\ \A q \in Objects : q # o => Sound(instance, instance', q)
<1>1. PICK i : i = instance[o] /\ IsLoaded(o, i) /\ o \in Objects
  BY CachedLoaded
<1>2. PICK n, m, b : i = [version |-> n, members |-> m, hasFaults |-> b]
  BY <1>1 DEF IsLoaded
<1>3. PICK h, c : c = n + 1 /\ h = [version |-> c, members |-> refs, hasFaults |-> b]
  OBVIOUS
<1>4. h.members = refs /\ h.version = n + 1
  BY <1>3
<1>5. i.version = n
  BY <1>2
<1>6. instance' = [instance EXCEPT ![o] = h]
  <2>1. PICK k, a : /\ k = [version |-> n, members |-> refs, hasFaults |-> b]
                    /\ a = [instance EXCEPT ![o] = k]
    OBVIOUS
  <2>2. [i EXCEPT !.members = refs] = k
    BY <1>2, <2>1
  <2>3. [k EXCEPT !.version = c] = h /\ k.version = n
    BY <1>3, <2>1
  <2>4. a = [instance EXCEPT ![o].members = refs] /\ a[o] = k
    BY <1>1, <2>1, <2>2 DEF GraphInv, InstancesOK
  <2>5. instance' = [a EXCEPT ![o].version = @ + 1]
    BY <2>4
  <2>6. [a EXCEPT ![o].version = @ + 1] = [a EXCEPT ![o] = h]
    BY <1>3, <2>3, <2>4
  <2>7. [a EXCEPT ![o] = h] = [instance EXCEPT ![o] = h]
    BY <2>1
  <2>8. QED
    BY <2>5, <2>6, <2>7
<1>7. instance'[o] = h /\ \A q \in Objects : q # o => instance'[q] = instance[q]
  BY <1>1, <1>6 DEF GraphInv, InstancesOK
<1>8. \A q \in Objects : q # o => Sound(instance, instance', q)
  BY <1>7, SoundSelf DEF Sound, CurrentInv
<1>9. QED
  BY <1>1, <1>4, <1>5, <1>7, <1>8

LEMMA ChangeCurrent ==
  ASSUME GraphInv, GraphInv', CurrentInv, Liberties = {}, NEW o \in Objects, Change(o)
  PROVE  CurrentInv' /\ LogsChange(o)
<1>1. PICK file : file = [is |-> "change", members |-> {}]
  OBVIOUS
<1>2. file \in AnyFile /\ file.members = {} /\ file.is = "change"
  BY <1>1 DEF AnyFile
<1>3. Idle /\ Log(o, file) /\ o \in Cached /\ o \in DOMAIN Here
  BY <1>1 DEF Change, Careful
<1>4. PICK before : before = Plain(stored[o], Len(stored[o]) - 1) /\ Then(before, file) = before
  BY <1>2, ThenIs
<1>5. Follows(before, file)
  BY <1>2 DEF Follows, IsClean, Single
<1>6. /\ Matches(stored[o], instance[o]) /\ ~HoldsStale(instance[o]) /\ stored[o] # <<>> /\ Len(stored[o]) \in Nat
      /\ IsLoaded(o, instance[o])
  BY <1>3, CachedIs
<1>7. PICK i, n, m, b : i = instance[o] /\ i = [version |-> n, members |-> m, hasFaults |-> b]
  BY <1>6 DEF IsLoaded
<1>8. PICK h : h = [version |-> n + 1, members |-> m, hasFaults |-> b] /\ h.version = n + 1 /\ h.members = m
  <2>1. PICK h : h = [version |-> n + 1, members |-> m, hasFaults |-> b]
    OBVIOUS
  <2>2. h.version = n + 1 /\ h.members = m
    BY <2>1
  <2>3. QED
    BY <2>1, <2>2
<1>9. i.version = n /\ i.members = m
  BY <1>7
<1>10. instance' = [instance EXCEPT ![o] = h]
  <2>1. instance' = [instance EXCEPT ![o] = [i EXCEPT !.version = @ + 1]]
    BY <1>7 DEF Change, GraphInv, InstancesOK
  <2>2. [i EXCEPT !.version = @ + 1] = h
    BY <1>7, <1>8
  <2>3. QED
    BY <2>1, <2>2
<1>11. instance'[o] = h /\ \A q \in Objects : q # o => instance'[q] = instance[q]
  BY <1>10 DEF GraphInv, InstancesOK
<1>12. \A q \in Objects : q # o => Sound(instance, instance', q)
  BY <1>11, SoundSelf DEF Sound, CurrentInv
<1>13. /\ instance'[o].version = Len(stored[o]) /\ Single(instance'[o].members) /\ ~HoldsStale(instance'[o])
       /\ Uuids(instance'[o].members) = Uuids(before)
  BY <1>4, <1>6, <1>7, <1>8, <1>9, <1>11 DEF Matches, HoldsStale
<1>14. Uuids(before) \subseteq DOMAIN Here \cup {o}
  BY <1>3, <1>4, HereCloses
<1>15. QED
  BY <1>2, <1>3, <1>4, <1>5, <1>6, <1>12, <1>13, <1>14, LoggedCurrent

LEMMA AddMemberCurrent ==
  ASSUME GraphInv, GraphInv', CurrentInv, Liberties = {}, NEW g \in Groups, NEW x \in Objects, AddMember(g, x)
  PROVE  CurrentInv' /\ LogsChange(g)
<1>1. PICK r : r = Instance(x) /\ r \in AnyRef /\ r.is = "instance" /\ r.of = x
  <2>1. Instance(x) \in AnyRef /\ Instance(x).is = "instance" /\ Instance(x).of = x
    BY DEF Instance, AnyRef
  <2>2. QED
    BY <2>1
<1>2. PICK file : file = [is |-> "addMember", members |-> {r}]
  OBVIOUS
<1>3. file \in AnyFile /\ file.members = {r} /\ file.is = "addMember"
  BY <1>1, <1>2 DEF AnyFile
<1>4. /\ Idle /\ Log(g, file) /\ g \in Cached /\ g \in DOMAIN Here /\ x \in DOMAIN Here
      /\ ~instance[g].hasFaults /\ ~HasEqual(instance, instance[g].members, r)
  BY <1>1, <1>2 DEF AddMember, Careful
<1>5. /\ g \in Objects /\ Matches(stored[g], instance[g]) /\ ~HoldsStale(instance[g]) /\ IsLoaded(g, instance[g])
      /\ stored[g] # <<>> /\ Len(stored[g]) \in Nat
  BY <1>4, CachedIs
<1>6. \A s \in instance[g].members : s.is = "instance"
  BY <1>4, <1>5 DEF IsLoaded, KnowsFaults, HoldsStale, MayHold, AnyRef
<1>7. \A s \in instance[g].members : s.of # x
  BY <1>1, <1>4, <1>6 DEF HasEqual, IsEqual, VersionIn
<1>8. PICK before, now : /\ before = Plain(stored[g], Len(stored[g]) - 1) /\ now = Then(before, file)
                         /\ now = before \cup {r}
  BY <1>3, ThenIs
<1>9. x \notin Uuids(before)
  BY <1>5, <1>7, <1>8 DEF Matches, Uuids
<1>10. Follows(before, file)
  BY <1>1, <1>3, <1>9 DEF Follows, IsClean, Single
<1>11. Uuids(now) = Uuids(before) \cup {x}
  BY <1>1, <1>8 DEF Uuids
<1>12. Uuids(now) \subseteq DOMAIN Here \cup {g}
  BY <1>4, <1>8, <1>11, HereCloses
<1>13. PICK refs : refs = instance[g].members \cup {r}
  OBVIOUS
<1>14. instance' = [instance EXCEPT ![g].members = refs, ![g].version = @ + 1]
  BY <1>1, <1>13 DEF AddMember
<1>15. /\ instance'[g].members = refs /\ instance'[g].version = instance[g].version + 1
       /\ \A q \in Objects : q # g => Sound(instance, instance', q)
  BY <1>4, <1>14, MembersSet
<1>16. Single(refs) /\ \A s \in refs : s.is # "stale"
  BY <1>1, <1>5, <1>6, <1>7, <1>13 DEF Single, Matches
<1>17. Uuids(refs) = Uuids(now)
  <2>1. Uuids(refs) = Uuids(instance[g].members) \cup {x}
    BY <1>1, <1>13 DEF Uuids
  <2>2. QED
    BY <1>5, <1>8, <1>11, <2>1 DEF Matches
<1>18. instance'[g].version = Len(stored[g])
  BY <1>5, <1>15 DEF Matches
<1>19. ~HoldsStale(instance'[g])
  BY <1>15, <1>16 DEF HoldsStale
<1>20. QED
  BY <1>3, <1>4, <1>5, <1>8, <1>10, <1>12, <1>15, <1>16, <1>17, <1>18, <1>19, LoggedCurrent

\* A fault among the members is one of the last snapshot.
LEMMA FaultIsStored ==
  ASSUME NEW o \in Objects, CleanFiles(stored[o]), stored[o] # <<>>, NEW x,
         Fault(x) \in Plain(stored[o], Len(stored[o]) - 1)
  PROVE  StoredAsFault(o, x)
<1>1. PICK files, r : files = stored[o] /\ r = Fault(x) /\ r \in Plain(files, Len(files) - 1)
  OBVIOUS
<1>2. CleanFiles(files) /\ Len(files) \in Nat /\ files # <<>> /\ files \in Seq(AnyFile)
  BY <1>1 DEF CleanFiles, IsFiles
<1>3. PICK v : v = Len(files) - 1 /\ v \in 0..Len(files) - 1 /\ v + 1 = Len(files)
  BY <1>2
<1>4. r.is = "fault"
  BY <1>1 DEF Fault
<1>5. PlainOK(files, v)
  BY <1>2, <1>3, PlainCorrect
<1>6. PICK n \in 1..v + 1 : /\ files[n].is = "snapshot" /\ r \in files[n].members
                            /\ \A k \in n + 1..v + 1 : files[k].is # "snapshot"
  BY <1>1, <1>3, <1>4, <1>5 DEF PlainOK
<1>7. PICK S : S = {k \in DOMAIN files : files[k].is = "snapshot"}
  OBVIOUS
<1>8. DOMAIN files = 1..Len(files)
  BY <1>2
<1>9. S \in SUBSET (0..Len(files)) /\ n \in S
  BY <1>2, <1>3, <1>6, <1>7, <1>8
<1>10. Max(S) \in S /\ \A k \in S : k <= Max(S)
  BY <1>2, <1>9, MaxIs
<1>11. PICK m : m = Max(S)
  OBVIOUS
<1>12. m \in 1..Len(files) /\ files[m].is = "snapshot" /\ n <= m
  BY <1>7, <1>8, <1>9, <1>10, <1>11
<1>13. m = n
  <2>1. m \notin n + 1..v + 1
    BY <1>6, <1>12
  <2>2. QED
    BY <1>2, <1>3, <1>12, <2>1
<1>14. QED
  BY <1>1, <1>6, <1>7, <1>11, <1>13 DEF StoredAsFault

LEMMA RemoveMemberCurrent ==
  ASSUME GraphInv, GraphInv', CurrentInv, Liberties = {}, NEW g \in Groups, NEW x \in Objects, RemoveMember(g, x)
  PROVE  CurrentInv' /\ LogsChange(g)
<1>1. PICK r : r = Instance(x) /\ r \in AnyRef /\ r.is = "instance" /\ r.of = x
  <2>1. Instance(x) \in AnyRef /\ Instance(x).is = "instance" /\ Instance(x).of = x
    BY DEF Instance, AnyRef
  <2>2. QED
    BY <2>1
<1>2. PICK file : file = [is |-> "removeMember", members |-> {r}]
  OBVIOUS
<1>3. file \in AnyFile /\ file.members = {r} /\ file.is = "removeMember"
  BY <1>1, <1>2 DEF AnyFile
<1>4. /\ Idle /\ Log(g, file) /\ g \in Cached /\ g \in DOMAIN Here
      /\ ~StoredAsFault(g, x) /\ HasEqual(instance, instance[g].members, r)
  BY <1>1, <1>2 DEF RemoveMember, Careful
<1>5. /\ g \in Objects /\ Matches(stored[g], instance[g]) /\ ~HoldsStale(instance[g])
      /\ CleanFiles(stored[g]) /\ stored[g] # <<>> /\ Len(stored[g]) \in Nat /\ Len(stored[g]) - 1 \in 0..Len(stored[g]) - 1
  BY <1>4, CachedIs
<1>6. PICK t \in instance[g].members : IsEqual(instance, r, t) /\ t.of = x
  BY <1>1, <1>4 DEF HasEqual, IsEqual
<1>7. PICK before, now : /\ before = Plain(stored[g], Len(stored[g]) - 1) /\ now = Then(before, file)
                         /\ now = before \ {r}
  BY <1>3, ThenIs
<1>8. IsClean(before) /\ Single(before)
  BY <1>5, <1>7, PlainCorrect DEF PlainOK
<1>9. r \in before
  <2>1. x \in Uuids(before)
    BY <1>5, <1>6, <1>7 DEF Matches, Uuids
  <2>2. PICK s \in before : s.of = x
    BY <2>1 DEF Uuids
  <2>3. s = Instance(x) \/ s = Fault(x)
    BY <1>8, <2>2 DEF IsClean
  <2>4. s # Fault(x)
    BY <1>4, <1>5, <1>7, FaultIsStored
  <2>5. QED
    BY <1>1, <2>3, <2>4
<1>10. Follows(before, file)
  BY <1>1, <1>3, <1>9 DEF Follows, IsClean, Single
<1>11. Uuids(now) = Uuids(before) \ {x}
  <2>1. \A s \in before : s.of = x <=> s = r
    BY <1>1, <1>8, <1>9 DEF Single
  <2>2. QED
    BY <1>7, <2>1 DEF Uuids
<1>12. Uuids(now) \subseteq DOMAIN Here \cup {g}
  BY <1>4, <1>7, <1>11, HereCloses
<1>13. PICK refs : refs = Without(instance, instance[g].members, r)
  OBVIOUS
<1>14. instance' = [instance EXCEPT ![g].members = refs, ![g].version = @ + 1]
  BY <1>1, <1>13 DEF RemoveMember
<1>15. /\ instance'[g].members = refs /\ instance'[g].version = instance[g].version + 1
       /\ \A q \in Objects : q # g => Sound(instance, instance', q)
  BY <1>4, <1>14, MembersSet
<1>16. refs = {s \in instance[g].members : s.of # x}
  <2>1. \A s \in instance[g].members : s.of = x => s = t
    BY <1>5, <1>6 DEF Matches, Single
  <2>2. \A s \in instance[g].members : IsEqual(instance, r, s) <=> s.of = x
    BY <1>1, <1>6, <2>1 DEF IsEqual
  <2>3. refs = {s \in instance[g].members : ~IsEqual(instance, r, s)}
    BY <1>13 DEF Without, IsEqual
  <2>4. QED
    BY <2>2, <2>3
<1>17. Single(refs) /\ \A s \in refs : s.is # "stale"
  BY <1>5, <1>16 DEF Single, Matches, HoldsStale
<1>18. Uuids(refs) = Uuids(now)
  <2>1. Uuids(refs) = Uuids(instance[g].members) \ {x}
    BY <1>16 DEF Uuids
  <2>2. QED
    BY <1>5, <1>7, <1>11, <2>1 DEF Matches
<1>19. instance'[g].version = Len(stored[g])
  BY <1>5, <1>15 DEF Matches
<1>20. ~HoldsStale(instance'[g])
  BY <1>15, <1>17 DEF HoldsStale
<1>21. QED
  BY <1>3, <1>4, <1>5, <1>7, <1>10, <1>12, <1>15, <1>17, <1>18, <1>19, <1>20, LoggedCurrent

LEMMA LoadObjectCurrent ==
  ASSUME GraphInv, CurrentInv, NEW o \in Objects, LoadObject(o)
  PROVE  CurrentInv'
<1>1. PICK j : j = Load(instance, o) /\ instance' = j
  BY DEF LoadObject
<1>2. Fresh(stored[o], j[o]) /\ \A q \in Objects : q # o => j[q] = instance[q]
  BY <1>1, LoadFresh DEF GraphInv, CurrentInv, LoadObject
<1>3. \A q \in Objects : Sound(instance, j, q)
  BY <1>2, SoundSelf DEF Sound, CurrentInv, Fresh
<1>4. QED
  BY <1>1, <1>3, QuietCurrent DEF LoadObject

LEMMA AskMembersCurrent ==
  ASSUME GraphInv, CurrentInv, NEW g \in Groups, NEW order, AskMembers(g, order)
  PROVE  CurrentInv'
<1>1. g \in Objects /\ IsLoaded(g, instance[g]) /\ instance[g] # nil
  BY CachedLoaded DEF AskMembers, Cached
<1>2. PICK j : j = Resolve(instance, g, order) /\ instance' = j
  BY DEF AskMembers
<1>3. /\ Recast(instance[g], j[g]) /\ NoNewStale(instance[g], j[g])
      /\ \A q \in Objects : q # g => Loads(instance, j, q)
  BY <1>1, <1>2, ResolveRecasts DEF GraphInv, CurrentInv
<1>4. \A q \in Objects : Sound(instance, j, q)
  BY <1>1, <1>3, RecastSound, LoadsSound DEF CurrentInv
<1>5. QED
  BY <1>2, <1>4, QuietCurrent DEF AskMembers

LEMMA SetPolicyCurrent == ASSUME GraphInv, CurrentInv, NEW p, SetPolicy(p) PROVE CurrentInv'
<1>1. \A q \in Objects : Sound(instance, instance', q)
  BY SoundSelf DEF CurrentInv, SetPolicy
<1>2. QED
  BY <1>1, QuietCurrent DEF SetPolicy

LEMMA RestartCurrent == ASSUME GraphInv, CurrentInv, Restart PROVE CurrentInv'
<1>1. \A q \in Objects : Sound(instance, instance', q)
  BY DEF Restart, Sound
<1>2. QED
  BY <1>1, QuietCurrent DEF Restart

\* The snapshot of an object that holds no fault.
LEMMA SnapshotIs ==
  ASSUME NEW o, NEW inst, Single(inst[o].members), \A r \in inst[o].members : r.is = "instance" /\ r \in AnyRef,
         NEW file, file = Snapshot(inst, o), NEW before
  PROVE  /\ file \in AnyFile /\ file.is = "snapshot" /\ Follows(before, file)
         /\ Then(before, file) = file.members /\ Uuids(file.members) = Uuids(inst[o].members)
<1>1. PICK refs, all : refs = inst[o].members /\ all = {Written(r) : r \in refs}
  OBVIOUS
<1>2. file = [is |-> "snapshot", members |-> all]
  BY <1>1 DEF Snapshot
<1>3. file.is = "snapshot" /\ file.members = all
  BY <1>2
<1>4. \A r \in refs : Written(r) = Instance(r.of) /\ Instance(r.of).of = r.of /\ Instance(r.of) \in AnyRef
  BY <1>1 DEF Written, Instance, AnyRef
<1>5. \A s : s \in all <=> \E r \in refs : s = Instance(r.of)
  BY <1>1, <1>4
<1>6. IsClean(all)
  BY <1>4, <1>5 DEF IsClean
<1>7. Single(all)
  BY <1>4, <1>5 DEF Single
<1>8. Uuids(all) = Uuids(refs)
  BY <1>4, <1>5 DEF Uuids
<1>9. file \in AnyFile
  BY <1>2, <1>4, <1>5 DEF AnyFile
<1>10. QED
  BY <1>1, <1>3, <1>6, <1>7, <1>8, <1>9, ThenIs DEF Follows

LEMMA RestoreObjectCurrent ==
  ASSUME GraphInv, GraphInv', CurrentInv, Liberties = {}, NEW o \in Objects, NEW v \in 0..MaxVersion, NEW order,
         RestoreObject(o, v, order)
  PROVE  CurrentInv' /\ LogsChange(o)
<1>1. Idle /\ o \in Cached /\ instance[o] # nil
  BY DEF RestoreObject, Cached
<1>2. /\ IsLoaded(o, instance[o]) /\ Matches(stored[o], instance[o]) /\ ~HoldsStale(instance[o])
      /\ stored[o] # <<>> /\ Len(stored[o]) \in Nat
  BY <1>1, CachedIs
<1>3. v \in 0..LastVersion(o) /\ v \in Int
  BY <1>2 DEF RestoreObject, LastVersion
<1>4. PICK refs : refs = Playback(instance, o, v) /\ refs \in SUBSET MayHold(o)
  BY <1>3, PlaybackHeld DEF GraphInv
<1>5. Single(refs) /\ \A r \in refs : r.is # "stale"
  BY <1>3, <1>4, PlaybackRead DEF CurrentInv
<1>6. o \in DOMAIN Here /\ Uuids(refs) \subseteq DOMAIN Here
  BY <1>4 DEF RestoreObject, Careful
<1>7. PICK j : j = Replace(instance, o, v, refs, order) /\ instance' = j
  BY <1>4 DEF RestoreObject
<1>8. /\ \A q \in Objects : q # o => Sound(instance, j, q)
      /\ j[o].version = Len(stored[o]) /\ Single(j[o].members)
      /\ \A r \in j[o].members : r.is = "instance" /\ r \in AnyRef
      /\ Uuids(j[o].members) \subseteq Uuids(instance[o].members) \cup Uuids(refs)
  BY <1>1, <1>2, <1>3, <1>4, <1>5, <1>7, ReplaceSound DEF GraphInv, CurrentInv
<1>9. PICK file, before : file = Snapshot(j, o) /\ before = Plain(stored[o], Len(stored[o]) - 1)
  OBVIOUS
<1>10. /\ file \in AnyFile /\ file.is = "snapshot" /\ Follows(before, file)
       /\ Then(before, file) = file.members /\ Uuids(file.members) = Uuids(j[o].members)
  BY <1>8, <1>9, SnapshotIs
<1>11. Log(o, file)
  BY <1>7, <1>9 DEF RestoreObject
<1>12. Uuids(file.members) \subseteq DOMAIN Here \cup {o}
  <2>1. Uuids(instance[o].members) \subseteq DOMAIN Here
    BY <1>1, <1>2, <1>6, HereCloses DEF Matches
  <2>2. QED
    BY <1>6, <1>8, <1>10, <2>1
<1>13. ~HoldsStale(j[o])
  BY <1>8 DEF HoldsStale
<1>14. QED
  BY <1>1, <1>2, <1>7, <1>8, <1>9, <1>10, <1>11, <1>12, <1>13, LoggedCurrent

\* The record of a restore is not nil.
LEMMA NotNil ==
  ASSUME NEW n \in Nat, NEW objects \in SUBSET Objects, NEW rows \in AnyFound, NEW r,
         r = [to |-> n, todo |-> objects, rows |-> rows]
  PROVE  r # nil
BY RestoringAssumption DEF AnyFound

LEMMA RestoreToVersionCurrent ==
  ASSUME GraphInv, GraphInv', CurrentInv, Liberties = {}, NEW v \in 0..MaxVersion, RestoreToVersion(v)
  PROVE  CurrentInv'
<1>1. PICK f, gone : /\ f = Found(v) /\ gone = Cached \ DOMAIN f /\ gone \in SUBSET Objects
  BY DEF Cached
<1>2. Idle /\ policy = "old" /\ v \in 0..Len(history) /\ Len(history) \in Nat
  BY DEF RestoreToVersion, Careful, GraphInv, HistoryInv
<1>3. Closed(stored, f) /\ Steady(stored, instance, Here)
  BY <1>1, <1>2 DEF CurrentInv
<1>4. PICK left : left = Left(instance, gone)
  OBVIOUS
<1>5. \A q \in Objects : instance'[q] = IF q \in gone THEN nil ELSE left[q]
  BY <1>1, <1>4 DEF RestoreToVersion, Unregister
<1>6. InstancesOK(instance)
  BY DEF GraphInv
<1>7. ASSUME NEW q \in Objects, instance'[q] # nil
      PROVE  /\ Matches(stored[q], instance'[q])
             /\ HoldsStale(instance'[q]) => q \in DOMAIN f /\ f[q] # Len(stored[q]) - 1
  <2>1. instance'[q] = left[q] /\ q \notin gone
    BY <1>5, <1>7
  <2>2. instance[q] # nil
    BY <1>1, <1>4, <1>6, <1>7, <2>1, LeftRecasts
  <2>3. /\ Recast(instance[q], left[q])
        /\ \A r \in left[q].members : r.is = "stale" =>
             r \in instance[q].members
             \/ \E s \in instance[q].members : s.of \in gone /\ r = Stale(s.of, instance[s.of].version)
    BY <1>1, <1>4, <1>6, <2>2, LeftRecasts
  <2>4. Matches(stored[q], instance[q]) /\ ~HoldsStale(instance[q])
    BY <1>3, <2>2 DEF CurrentInv, Matching, Steady
  <2>5. q \in DOMAIN f
    BY <1>1, <2>1, <2>2 DEF Cached
  <2>6. ASSUME NEW r \in left[q].members, r.is = "stale", f[q] = Len(stored[q]) - 1 PROVE FALSE
    <3>1. PICK s \in instance[q].members : s.of \in gone
      BY <2>3, <2>4, <2>6 DEF HoldsStale
    <3>2. s.of \in Uuids(Plain(stored[q], f[q]))
      BY <2>4, <2>6 DEF Matches, Uuids
    <3>3. s.of \in DOMAIN f
      BY <1>3, <2>5, <3>2 DEF Closed
    <3>4. QED
      BY <1>1, <3>1, <3>3
  <2>7. QED
    BY <2>1, <2>3, <2>4, <2>5, <2>6, RecastMatches DEF HoldsStale
<1>8. PICK none, r : none = [o \in {} |-> 0] /\ r = [to |-> v, todo |-> DOMAIN f, rows |-> none]
  OBVIOUS
<1>9. r.to = v /\ r.todo = DOMAIN f /\ r.rows = none /\ DOMAIN none = {}
  BY <1>8
<1>10. restoring' = r /\ UNCHANGED <<history, stored, policy, seen>> /\ Found(v)' = f
  BY <1>1, <1>8 DEF RestoreToVersion, Found
<1>11. Underway(stored', instance', f, r)
  BY <1>7, <1>9, <1>10 DEF Underway
<1>12. (\A w : Found(w)' = Found(w)) /\ Found(restoring.to)' = Found(restoring'.to)
  BY <1>10 DEF Found
<1>13. FilesInv' /\ Matching(instance)'
  BY <1>7, <1>10 DEF CurrentInv, FilesInv, Matching
<1>14. SeenInv' /\ \A w \in 0..Len(history') : Closed(stored', Found(w)')
  BY <1>10, PlainSame, HistoryQuiet
<1>15. restoring' # nil
  <2>1. v \in Nat /\ FoundOK(f) /\ DOMAIN f \in SUBSET Objects
    BY <1>1, <1>2 DEF GraphInv, HistoryInv, FoundOK
  <2>2. none \in [{} -> Nat] /\ {} \in SUBSET Objects
    BY <1>8
  <2>3. none \in AnyFound
    BY <2>2 DEF AnyFound
  <2>4. QED
    BY <1>8, <1>10, <2>1, <2>3, NotNil
<1>16. QED
  BY <1>2, <1>9, <1>10, <1>11, <1>12, <1>13, <1>14, <1>15 DEF CurrentInv, Idle

------------------------------------------------------------------------------
(* The steps of a restore.                                                    *)

\* The rows of a restore after one more of them.
OverPut(rows, f, o, n) ==
  /\ DOMAIN Over(Entry(o, n), rows) = DOMAIN rows \cup {o}
  /\ o \in DOMAIN f => Over(Over(Entry(o, n), rows), f)[o] = n
  /\ \A q \in DOMAIN f : q # o => Over(Over(Entry(o, n), rows), f)[q] = Over(rows, f)[q]

LEMMA OverIs == \A rows, f, o, n : OverPut(rows, f, o, n)
<1> SUFFICES ASSUME NEW rows, NEW f, NEW o, NEW n PROVE OverPut(rows, f, o, n)
  OBVIOUS
<1>1. PICK e, more : e = Entry(o, n) /\ more = Over(e, rows)
  OBVIOUS
<1>6. DOMAIN e = {o} /\ e[o] = n
  BY <1>1 DEF Entry
<1>2. more = [x \in {o} \cup DOMAIN rows |-> IF x \in {o} THEN e[x] ELSE rows[x]]
  BY <1>1, <1>6 DEF Over
<1>3. DOMAIN more = DOMAIN rows \cup {o} /\ more[o] = n /\ \A q \in DOMAIN rows : q # o => more[q] = rows[q]
  BY <1>6, <1>2
<1>4. /\ o \in DOMAIN f => Over(more, f)[o] = n
      /\ \A q \in DOMAIN f : q # o => Over(more, f)[q] = Over(rows, f)[q]
  BY <1>3 DEF Over
<1>5. QED
  BY <1>1, <1>3, <1>4 DEF OverPut

\* What a restore that is underway has.
LEMMA RestoresIs ==
  ASSUME GraphInv, CurrentInv, NEW o \in Objects, Restores(o)
  PROVE  /\ policy = "old" /\ Underway(stored, instance, Found(restoring.to), restoring)
         /\ restoring.to \in Nat /\ restoring.todo \in SUBSET Objects /\ restoring.rows \in AnyFound
         /\ o \in restoring.todo /\ restoring.todo \subseteq DOMAIN Found(restoring.to)
         /\ restoring = [to |-> restoring.to, todo |-> restoring.todo, rows |-> restoring.rows]
         /\ Found(restoring.to)[o] \in 0..LastVersion(o) /\ stored[o] # <<>>
<1>1. RestoringOK(restoring) /\ Found(restoring.to)[o] \in 0..LastVersion(o) /\ stored[o] # <<>>
  BY RestoredIs DEF IsStored
<1>2. FoundOK(Found(restoring.to))
  BY <1>1 DEF RestoringOK, GraphInv, HistoryInv
<1>3. PICK r, f : r = restoring /\ f = Found(r.to)
  OBVIOUS
<1>4. r.to \in Nat /\ r.rows \in AnyFound /\ r.todo \subseteq DOMAIN f /\ r = [to |-> r.to, todo |-> r.todo, rows |-> r.rows]
  BY <1>1, <1>3 DEF RestoringOK, FoundOK
<1>5. DOMAIN f \subseteq Objects
  BY <1>2, <1>3 DEF FoundOK
<1>6. policy = "old" /\ Underway(stored, instance, f, r) /\ o \in r.todo
  BY <1>3 DEF Restores, CurrentInv
<1>7. QED
  BY <1>1, <1>3, <1>4, <1>5, <1>6

\* The record of the restore once o was merged.
LEMMA MergedRecord ==
  ASSUME GraphInv, NEW o \in Objects, Restores(o), NEW inst, Merged(o, inst)
  PROVE  restoring' = [to |-> restoring.to, todo |-> restoring.todo \ {o},
                       rows |-> Over(Entry(o, Len(stored[o])), restoring.rows)]
<1>1. RestoringOK(restoring)
  BY RestoredIs
<1>2. PICK r, e : r = restoring /\ e = Entry(o, Len(stored[o]))
  OBVIOUS
<1>3. PICK to, todo, rows : r = [to |-> to, todo |-> todo, rows |-> rows]
  BY <1>1, <1>2 DEF RestoringOK
<1>4. r.to = to /\ r.todo = todo /\ r.rows = rows
  BY <1>3
<1>5. restoring' = [[r EXCEPT !.todo = @ \ {o}] EXCEPT !.rows = Over(e, @)]
  BY <1>2 DEF Merged
<1>6. [r EXCEPT !.todo = @ \ {o}] = [to |-> to, todo |-> todo \ {o}, rows |-> rows]
  BY <1>3
<1>7. [[to |-> to, todo |-> todo \ {o}, rows |-> rows] EXCEPT !.rows = Over(e, @)]
        = [to |-> to, todo |-> todo \ {o}, rows |-> Over(e, rows)]
  OBVIOUS
<1>8. restoring' = [to |-> to, todo |-> todo \ {o}, rows |-> Over(e, rows)]
  BY <1>5, <1>6, <1>7
<1>9. QED
  BY <1>2, <1>4, <1>8

\* The snapshot of a merged object holds the members the object has at the restored version.
LEMMA MergedCurrent ==
  ASSUME GraphInv, CurrentInv, NEW o \in Objects, Restores(o), NEW inst, Merged(o, inst),
         \A q \in Objects : q # o => Sound(instance, inst, q),
         inst[o].version = Len(stored[o]), Single(inst[o].members), ~HoldsStale(inst[o]),
         NEW before, before = Plain(stored[o], Len(stored[o]) - 1),
         NEW file \in AnyFile, file = Snapshot(inst, o), Follows(before, file), Then(before, file) = file.members,
         Uuids(file.members) = Uuids(inst[o].members),
         Uuids(inst[o].members) = Uuids(Plain(stored[o], Found(restoring.to)[o]))
  PROVE  CurrentInv'
<1>1. file.is = "snapshot"
  BY DEF Snapshot
<1>2. PICK r, to, todo, rows, f :
        /\ r = restoring /\ to = r.to /\ todo = r.todo /\ rows = r.rows /\ f = Found(to)
        /\ to \in Nat /\ todo \in SUBSET Objects /\ rows \in AnyFound
        /\ o \in todo /\ todo \subseteq DOMAIN f /\ r = [to |-> to, todo |-> todo, rows |-> rows]
        /\ policy = "old" /\ Underway(stored, instance, f, r) /\ f[o] \in 0..LastVersion(o)
  <2>1. PICK r, to, todo, rows, f : r = restoring /\ to = r.to /\ todo = r.todo /\ rows = r.rows /\ f = Found(to)
    OBVIOUS
  <2>2. QED
    BY <2>1, RestoresIs
<1>3. PICK n, more, s : n = Len(stored[o]) /\ more = Over(Entry(o, n), rows) /\ s = [to |-> to, todo |-> todo \ {o}, rows |-> more]
  OBVIOUS
<1>4. s.to = to /\ s.todo = todo \ {o} /\ s.rows = more
  BY <1>3
<1>5. restoring' = s /\ stored' = [stored EXCEPT ![o] = Append(@, file)] /\ instance' = inst /\ UNCHANGED <<history, policy, seen>>
  <2>1. stored' = [stored EXCEPT ![o] = Append(@, file)] /\ instance' = inst /\ UNCHANGED <<history, policy, seen>>
    BY DEF Merged
  <2>2. restoring' = s
    BY <1>2, <1>3, MergedRecord
  <2>3. QED
    BY <2>1, <2>2
<1>6. /\ FilesInv' /\ PlainStays
      /\ \A q \in Objects : q # o => stored'[q] = stored[q]
      /\ Len(stored'[o]) = n + 1 /\ n \in Nat
      /\ Plain(stored'[o], n) = file.members
  BY <1>1, <1>3, <1>5, StoresPlain DEF GraphInv, CurrentInv
<1>7. /\ DOMAIN more = DOMAIN rows \cup {o} /\ Over(more, f)[o] = n
      /\ \A q \in DOMAIN f : q # o => Over(more, f)[q] = Over(rows, f)[q]
  <2>1. \A any : OverPut(rows, any, o, n)
    BY OverIs
  <2>2. OverPut(rows, f, o, n) /\ o \in DOMAIN f /\ more = Over(Entry(o, n), rows)
    BY <1>2, <1>3, <2>1
  <2>3. QED
    BY <2>2 DEF OverPut
<1>8. ASSUME NEW q \in Objects, instance'[q] # nil
      PROVE  /\ Matches(stored'[q], instance'[q])
             /\ HoldsStale(instance'[q]) => q \in todo \ {o} /\ f[q] # Len(stored'[q]) - 1
  <2>1. CASE q = o
    <3>1. Len(stored'[o]) - 1 = n
      BY <1>6
    <3>2. QED
      BY <1>3, <1>5, <1>6, <2>1, <3>1 DEF Matches
  <2>2. CASE q # o
    <3>1. Matches(stored[q], inst[q]) /\ (HoldsStale(inst[q]) => instance[q] # nil /\ HoldsStale(instance[q]))
      BY <1>5, <1>8, <2>2 DEF Sound
    <3>2. HoldsStale(inst[q]) => q \in todo /\ f[q] # Len(stored[q]) - 1
      BY <1>2, <3>1 DEF Underway
    <3>3. QED
      BY <1>5, <1>6, <2>2, <3>1, <3>2
  <2>3. QED
    BY <2>1, <2>2
<1>9. ASSUME NEW q \in DOMAIN f \ (todo \ {o})
      PROVE  /\ Over(more, f)[q] = Len(stored'[q]) - 1
             /\ Uuids(Plain(stored'[q], Len(stored'[q]) - 1)) = Uuids(Plain(stored'[q], f[q]))
  <2>1. CASE q = o
    <3>1. Len(stored'[o]) - 1 = n
      BY <1>6
    <3>2. Plain(stored'[o], f[o]) = Plain(stored[o], f[o])
      BY <1>2, <1>6 DEF PlainStays
    <3>3. Uuids(file.members) = Uuids(Plain(stored[o], f[o]))
      BY <1>2
    <3>4. QED
      BY <1>6, <1>7, <2>1, <3>1, <3>2, <3>3
  <2>2. CASE q # o
    <3>1. q \in DOMAIN f \ todo /\ q \in Objects
      <4>1. FoundOK(f)
        BY <1>2, RestoredIs DEF GraphInv, HistoryInv, RestoringOK
      <4>2. QED
        BY <1>9, <2>2, <4>1 DEF FoundOK
    <3>2. /\ Over(rows, f)[q] = Len(stored[q]) - 1
          /\ Uuids(Plain(stored[q], Len(stored[q]) - 1)) = Uuids(Plain(stored[q], f[q]))
      BY <1>2, <3>1 DEF Underway
    <3>3. QED
      BY <1>6, <1>7, <2>2, <3>1, <3>2
  <2>3. QED
    BY <2>1, <2>2
<1>10. DOMAIN more \subseteq DOMAIN f \ (todo \ {o})
  <2>1. DOMAIN rows \subseteq DOMAIN f \ todo
    BY <1>2 DEF Underway
  <2>2. QED
    BY <1>2, <1>7, <2>1
<1>11. Underway(stored', instance', f, s)
  BY <1>4, <1>8, <1>9, <1>10 DEF Underway
<1>12. Matching(instance)'
  BY <1>8 DEF Matching
<1>13. SeenInv' /\ \A w \in 0..Len(history') : Closed(stored', Found(w)')
  BY <1>5, <1>6, HistoryQuiet
<1>14. Found(restoring.to)' = f
  <2>1. \A w : Found(w)' = Found(w)
    BY <1>5 DEF Found
  <2>2. Found(restoring.to)' = Found(restoring'.to)
    BY <1>5 DEF Found
  <2>3. QED
    BY <1>2, <1>4, <1>5, <2>2
<1>15. restoring' # nil
  <2>1. more \in AnyFound
    <3>1. rows \in [DOMAIN rows -> Nat] /\ DOMAIN rows \in SUBSET Objects
      BY <1>2 DEF AnyFound
    <3>2. more \in [DOMAIN rows \cup {o} -> Nat]
      BY <1>3, <1>6, <3>1 DEF Over, Entry
    <3>3. DOMAIN rows \cup {o} \in SUBSET Objects
      BY <3>1
    <3>4. QED
      BY <3>2, <3>3 DEF AnyFound
  <2>2. todo \ {o} \in SUBSET Objects
    BY <1>2
  <2>3. QED
    BY <1>2, <1>3, <1>5, <2>1, <2>2, NotNil
<1>16. QED
  BY <1>2, <1>5, <1>6, <1>11, <1>12, <1>13, <1>14, <1>15 DEF CurrentInv, Idle

LEMMA RestoreCachedCurrent ==
  ASSUME GraphInv, CurrentInv, NEW o \in Objects, NEW order, RestoreCached(o, order)
  PROVE  CurrentInv'
<1>1. Restores(o) /\ o \in Cached /\ instance[o] # nil /\ IsLoaded(o, instance[o])
  BY CachedLoaded DEF RestoreCached, Cached
<1>2. PICK v : /\ v = Found(restoring.to)[o] /\ v \in 0..LastVersion(o) /\ v \in Int
               /\ policy = "old"
  BY <1>1, RestoresIs
<1>3. PICK refs : refs = Playback(instance, o, v) /\ refs \in SUBSET MayHold(o)
  BY <1>2, PlaybackHeld DEF GraphInv
<1>4. Single(refs) /\ Uuids(refs) = Uuids(Plain(stored[o], v)) /\ \A r \in refs : r.is # "stale"
  BY <1>2, <1>3, PlaybackRead DEF CurrentInv
<1>5. PICK j : j = Replace(instance, o, v, refs, order) /\ Merged(o, j)
  BY <1>2, <1>3 DEF RestoreCached
<1>6. /\ \A q \in Objects : q # o => Sound(instance, j, q)
      /\ j[o].version = Len(stored[o]) /\ Single(j[o].members)
      /\ \A r \in j[o].members : r.is = "instance" /\ r \in AnyRef
      /\ Uuids(j[o].members) = Uuids(refs)
  BY <1>1, <1>2, <1>3, <1>4, <1>5, ReplaceSound DEF GraphInv, CurrentInv
<1>7. PICK file, before : file = Snapshot(j, o) /\ before = Plain(stored[o], Len(stored[o]) - 1)
  OBVIOUS
<1>8. /\ file \in AnyFile /\ Follows(before, file)
      /\ Then(before, file) = file.members /\ Uuids(file.members) = Uuids(j[o].members)
  BY <1>6, <1>7, SnapshotIs
<1>9. ~HoldsStale(j[o])
  BY <1>6 DEF HoldsStale
<1>10. QED
  BY <1>1, <1>2, <1>4, <1>5, <1>6, <1>7, <1>8, <1>9, MergedCurrent

\* The snapshot of references that were read, which are written as they were stored or as an instance.
LEMMA SnapshotRead ==
  ASSUME NEW o, NEW inst, NEW i, NEW plain, IsClean(plain), Single(plain), inst[o].members = ReadAll(i, plain),
         NEW file, file = Snapshot(inst, o), NEW before
  PROVE  /\ file \in AnyFile /\ Follows(before, file)
         /\ Then(before, file) = file.members /\ Uuids(file.members) = Uuids(inst[o].members)
<1>1. PICK refs, all : refs = inst[o].members /\ all = {Written(r) : r \in refs}
  OBVIOUS
<1>2. file = [is |-> "snapshot", members |-> all]
  BY <1>1 DEF Snapshot
<1>3. file.is = "snapshot" /\ file.members = all
  BY <1>2
<1>4. Single(refs) /\ \A r \in refs : r \in AnyRef /\ r \in {Instance(r.of), Fault(r.of)}
  <2>1. Single(refs)
    BY <1>1, ReadMembers
  <2>2. ASSUME NEW s \in plain PROVE Read(i, s) \in AnyRef /\ Read(i, s) \in {Instance(Read(i, s).of), Fault(Read(i, s).of)}
    BY ReadIs DEF IsClean
  <2>3. QED
    BY <1>1, <2>1, <2>2 DEF ReadAll
<1>5. \A r \in refs : Written(r) = r
  BY <1>4 DEF Written, Instance, Fault
<1>6. all = refs
  BY <1>1, <1>5
<1>7. IsClean(refs)
  BY <1>4 DEF IsClean
<1>8. file \in AnyFile
  BY <1>2, <1>4, <1>6 DEF AnyFile
<1>9. QED
  BY <1>1, <1>3, <1>4, <1>6, <1>7, <1>8, ThenIs DEF Follows

LEMMA RestoreMissingCurrent ==
  ASSUME GraphInv, CurrentInv, NEW o \in Objects, RestoreMissing(o)
  PROVE  CurrentInv'
<1>1. Restores(o)
  BY DEF RestoreMissing
<1>2. PICK v : v = Found(restoring.to)[o] /\ v \in 0..LastVersion(o)
  BY <1>1, RestoresIs
<1>3. PICK refs, plain : refs = Playback(instance, o, v) /\ plain = Plain(stored[o], v)
  OBVIOUS
<1>4. PlainOK(stored[o], v)
  BY <1>2, PlainCorrect DEF CurrentInv, FilesInv, LastVersion
<1>5. IsClean(plain) /\ Single(plain) /\ refs = ReadAll(instance, plain)
  BY <1>3, <1>4, ReplayIsPlayback DEF PlainOK
<1>6. Single(refs) /\ Uuids(refs) = Uuids(plain) /\ \A r \in refs : r.is # "stale"
  BY <1>5, ReadMembers
<1>7. PICK n, b : n = LastVersion(o) + 1 /\ b = (o \in Groups)
  OBVIOUS
<1>8. n = Len(stored[o])
  BY <1>7, LengthIs DEF LastVersion, CurrentInv
<1>9. PICK h, j : h = [version |-> n, members |-> refs, hasFaults |-> b] /\ j = [instance EXCEPT ![o] = h]
  OBVIOUS
<1>10. h.version = n /\ h.members = refs
  BY <1>9
<1>11. Merged(o, j)
  BY <1>2, <1>3, <1>7, <1>9 DEF RestoreMissing
<1>12. j[o] = h /\ \A q \in Objects : q # o => j[q] = instance[q]
  BY <1>9 DEF GraphInv, InstancesOK
<1>13. \A q \in Objects : q # o => Sound(instance, j, q)
  BY <1>12, SoundSelf DEF Sound, CurrentInv
<1>14. PICK file, before : file = Snapshot(j, o) /\ before = Plain(stored[o], Len(stored[o]) - 1)
  OBVIOUS
<1>15. /\ file \in AnyFile /\ Follows(before, file)
       /\ Then(before, file) = file.members /\ Uuids(file.members) = Uuids(j[o].members)
  BY <1>5, <1>10, <1>12, <1>14, SnapshotRead
<1>16. /\ j[o].version = Len(stored[o]) /\ Single(j[o].members) /\ ~HoldsStale(j[o])
       /\ Uuids(j[o].members) = Uuids(Plain(stored[o], v))
  BY <1>3, <1>6, <1>8, <1>10, <1>12 DEF HoldsStale
<1>17. QED
  BY <1>1, <1>2, <1>11, <1>13, <1>14, <1>15, <1>16, MergedCurrent

LEMMA SkipRestoredCurrent ==
  ASSUME GraphInv, GraphInv', CurrentInv, NEW o \in Objects, SkipRestored(o)
  PROVE  CurrentInv'
<1>1. Restores(o) /\ RestoringOK(restoring)
  BY RestoredIs DEF SkipRestored
<1>2. PICK r : r = restoring
  OBVIOUS
<1>3. PICK to, todo, rows : r = [to |-> to, todo |-> todo, rows |-> rows]
  BY <1>1, <1>2 DEF RestoringOK
<1>4. r.to = to /\ r.todo = todo /\ r.rows = rows
  BY <1>3
<1>5. PICK s : s = [to |-> to, todo |-> todo \ {o}, rows |-> rows]
  OBVIOUS
<1>6. s.to = to /\ s.todo = todo \ {o} /\ s.rows = rows
  BY <1>5
<1>7. restoring' = s
  <2>1. restoring' = [r EXCEPT !.todo = @ \ {o}]
    BY <1>2 DEF SkipRestored
  <2>2. [r EXCEPT !.todo = @ \ {o}] = s
    BY <1>3, <1>5
  <2>3. QED
    BY <2>1, <2>2
<1>8. UNCHANGED <<history, stored, instance, policy, seen>>
  BY DEF SkipRestored
<1>9. PICK f : f = Found(to) /\ policy = "old" /\ Underway(stored, instance, f, r) /\ o \in todo
               /\ to \in Nat /\ todo \in SUBSET Objects /\ rows \in AnyFound /\ todo \subseteq DOMAIN f
  BY <1>1, <1>2, <1>4, RestoresIs
<1>10. f[o] = Len(stored[o]) - 1
  <2>1. CASE o \in Cached
    <3>1. f[o] = instance[o].version
      BY <1>2, <1>4, <1>9, <2>1 DEF SkipRestored
    <3>2. Matches(stored[o], instance[o])
      BY <2>1 DEF CurrentInv, Matching, Cached
    <3>3. QED
      BY <3>1, <3>2 DEF Matches
  <2>2. CASE o \notin Cached
    BY <1>2, <1>4, <1>9, <2>2 DEF SkipRestored, LastVersion
  <2>3. QED
    BY <2>1, <2>2
<1>11. \A q \in Objects : instance[q] # nil /\ HoldsStale(instance[q]) => q \in todo \ {o} /\ f[q] # Len(stored[q]) - 1
  BY <1>4, <1>9, <1>10 DEF Underway
<1>12. DOMAIN rows \subseteq DOMAIN f \ todo
  BY <1>4, <1>9 DEF Underway
<1>13. ASSUME NEW q \in DOMAIN f \ (todo \ {o})
       PROVE  /\ Over(rows, f)[q] = Len(stored[q]) - 1
              /\ Uuids(Plain(stored[q], Len(stored[q]) - 1)) = Uuids(Plain(stored[q], f[q]))
  <2>1. CASE q = o
    <3>1. Over(rows, f)[o] = f[o]
      BY <1>9, <1>12 DEF Over
    <3>2. QED
      BY <1>10, <2>1, <3>1
  <2>2. CASE q # o
    BY <1>4, <1>9, <2>2 DEF Underway
  <2>3. QED
    BY <2>1, <2>2
<1>14. Underway(stored, instance, f, s)
  <2>1. DOMAIN rows \subseteq DOMAIN f \ (todo \ {o})
    BY <1>12
  <2>2. QED
    BY <1>6, <1>11, <1>13, <2>1 DEF Underway
<1>15. Found(restoring.to)' = f
  BY <1>6, <1>7, <1>8, <1>9 DEF Found
<1>16. restoring' # nil
  BY <1>5, <1>7, <1>9, NotNil
<1>17. SeenInv' /\ \A w \in 0..Len(history') : Closed(stored', Found(w)')
  BY <1>8, PlainSame, HistoryQuiet
<1>18. FilesInv' /\ Matching(instance)'
  BY <1>8 DEF CurrentInv, FilesInv, Matching
<1>19. QED
  BY <1>7, <1>8, <1>9, <1>14, <1>15, <1>16, <1>17, <1>18 DEF CurrentInv, Idle

\* The version of the context a restore makes has the members of the version that was restored.
RestoresGraph ==
  /\ restoring.to \in 0..Len(history)
  /\ seen' = Append(seen, View') /\ Last(seen') = AtVersion(stored, Found(restoring.to)) /\ seen' # <<>>
  /\ \E f : history' = Append(history, [found |-> f, origin |-> restoring.to])

\* Faults of objects that are in memory become their instances.
LEMMA ResolvedRecast ==
  ASSUME NEW o \in Objects, NEW i, IsLoaded(o, i), NEW here, NEW j,
         j = [i EXCEPT !.members = {IF r.is = "fault" /\ r.of \in here THEN Instance(r.of) ELSE r : r \in @}]
  PROVE  Recast(i, j) /\ NoNewStale(i, j)
<1>1. PICK n, m, b : i = [version |-> n, members |-> m, hasFaults |-> b]
  BY DEF IsLoaded
<1>2. i.version = n /\ i.members = m
  BY <1>1
<1>3. PICK refs : refs = {IF r.is = "fault" /\ r.of \in here THEN Instance(r.of) ELSE r : r \in m}
  OBVIOUS
<1>4. j = [version |-> n, members |-> refs, hasFaults |-> b]
  BY <1>1, <1>3
<1>5. j.version = n /\ j.members = refs
  BY <1>4
<1>6. PICK f : f = [r \in m |-> IF r.is = "fault" /\ r.of \in here THEN Instance(r.of) ELSE r]
  OBVIOUS
<1>7. (\A r \in m : f[r].of = r.of) /\ refs = {f[r] : r \in m}
  BY <1>3, <1>6 DEF Instance
<1>8. Uuids(refs) = Uuids(m) /\ (Single(m) => Single(refs))
  BY <1>7, RecastBy
<1>9. \A r \in m : f[r].is = "stale" => f[r] = r
  BY <1>6 DEF Instance
<1>10. \A s \in refs : s.is = "stale" => s \in m
  BY <1>7, <1>9
<1>11. QED
  BY <1>2, <1>5, <1>8, <1>10 DEF Recast, NoNewStale

LEMMA RestoreEndsCurrent ==
  ASSUME GraphInv, GraphInv', CurrentInv, RestoreEnds
  PROVE  CurrentInv' /\ RestoresGraph
<1>1. restoring # nil /\ RestoringOK(restoring) /\ restoring.todo = {} /\ restoring' = nil /\ UNCHANGED <<stored, policy>>
  BY DEF RestoreEnds, GraphInv, RestoringInv
<1>2. PICK to, rows, f, g : to = restoring.to /\ rows = restoring.rows /\ f = Found(to) /\ g = Over(rows, f)
  OBVIOUS
<1>3. to \in 0..Len(history) /\ FoundOK(f) /\ Closed(stored, f)
  BY <1>1, <1>2 DEF RestoringOK, GraphInv, HistoryInv, CurrentInv
<1>4. Underway(stored, instance, f, restoring)
  BY <1>1, <1>2 DEF CurrentInv
<1>5. \A q \in Objects : instance[q] # nil => ~HoldsStale(instance[q])
  BY <1>1, <1>4 DEF Underway
<1>6. DOMAIN rows \subseteq DOMAIN f
  BY <1>1, <1>2, <1>4 DEF Underway
<1>7. DOMAIN g = DOMAIN f
  BY <1>2, <1>6 DEF Over
<1>8. \A q \in DOMAIN f : /\ g[q] = Len(stored[q]) - 1
                         /\ Uuids(Plain(stored[q], g[q])) = Uuids(Plain(stored[q], f[q]))
  BY <1>1, <1>2, <1>4 DEF Underway
<1>9. Closed(stored, g) /\ AtVersion(stored, g) = AtVersion(stored, f)
  BY <1>3, <1>7, <1>8 DEF Closed, AtVersion
<1>10. ASSUME NEW q \in Objects
       PROVE  instance'[q] = nil \/ (Matches(stored[q], instance'[q]) /\ ~HoldsStale(instance'[q]))
  <2>1. PICK here : here = Cached
    OBVIOUS
  <2>2. CASE q \notin here
    BY <2>1, <2>2 DEF RestoreEnds
  <2>3. CASE q \in here
    <3>1. PICK i, j : i = instance[q] /\ j = instance'[q]
      OBVIOUS
    <3>2. j = [i EXCEPT !.members = {IF r.is = "fault" /\ r.of \in here THEN Instance(r.of) ELSE r : r \in @}]
      BY <2>1, <2>3, <3>1 DEF RestoreEnds
    <3>3. IsLoaded(q, i) /\ i # nil
      BY <2>1, <2>3, <3>1, CachedLoaded DEF Cached
    <3>4. Recast(i, j) /\ NoNewStale(i, j)
      BY <3>2, <3>3, ResolvedRecast
    <3>5. Matches(stored[q], i) /\ ~HoldsStale(i)
      BY <1>5, <3>1, <3>3 DEF CurrentInv, Matching
    <3>6. Matches(stored[q], j) /\ ~HoldsStale(j)
      BY <3>4, <3>5, RecastMatches DEF NoNewStale, HoldsStale
    <3>7. QED
      BY <3>1, <3>6
  <2>4. QED
    BY <2>2, <2>3
<1>11. Matching(instance)' /\ FilesInv' /\ PlainStays
  BY <1>1, <1>10, PlainSame DEF Matching, CurrentInv, FilesInv
<1>12. history' = Append(history, [found |-> g, origin |-> to]) /\ seen' = Append(seen, View')
  BY <1>2 DEF RestoreEnds
<1>13. Closed(stored', g) /\ \A q \in DOMAIN g : g[q] = Len(stored'[q]) - 1
  BY <1>1, <1>7, <1>8, <1>9
<1>14. /\ SeenInv' /\ Here' = g
       /\ \A v \in 0..Len(history') : Closed(stored', Found(v)')
       /\ Last(seen') = AtVersion(stored', g)
  BY <1>11, <1>12, <1>13, HistoryLogged
<1>15. Steady(stored', instance', Here')
  BY <1>1, <1>10, <1>13, <1>14 DEF Steady
<1>16. CurrentInv'
  BY <1>1, <1>11, <1>14, <1>15 DEF CurrentInv
<1>17. seen' # <<>>
  BY <1>12 DEF CurrentInv, SeenInv
<1>18. RestoresGraph
  BY <1>1, <1>2, <1>3, <1>9, <1>12, <1>14, <1>17 DEF RestoresGraph
<1>19. QED
  BY <1>16, <1>18

------------------------------------------------------------------------------
(* The theorems about a careful client.                                       *)

LEMMA CurrentInit == Init => CurrentInv
<1> SUFFICES ASSUME Init PROVE CurrentInv
  OBVIOUS
<1>1. PICK none : none = <<>>
  OBVIOUS
<1>2. none \in Seq(AnyFile) /\ Len(none) = 0 /\ 1..Len(none) = {}
  BY <1>1
<1>3. CleanFiles(none)
  BY <1>1, <1>2 DEF CleanFiles, IsFiles
<1>4. FilesInv
  BY <1>1, <1>3 DEF Init, FilesInv
<1>5. Matching(instance) /\ \A o \in Objects : instance[o] = nil
  BY DEF Init, Matching
<1>6. history = <<>> /\ Len(history) = 0 /\ seen \in Seq(AnyGraph) /\ Len(seen) = 0
  BY DEF Init
<1>7. DOMAIN Found(0) = {}
  BY DEF Found
<1>8. SeenInv
  BY <1>6 DEF SeenInv
<1>9. \A v \in 0..Len(history) : Closed(stored, Found(v))
  BY <1>6, <1>7 DEF Closed
<1>10. Steady(stored, instance, Here)
  BY <1>5, <1>6, <1>7 DEF Steady, Here
<1>11. restoring = nil
  BY DEF Init
<1>12. QED
  BY <1>4, <1>5, <1>8, <1>9, <1>10, <1>11 DEF CurrentInv

\* What a step does to the history.
StepIs == RestoresGraph \/ (\E o \in Objects : LogsChange(o)) \/ UNCHANGED <<history, seen>>

LEMMA CurrentNext ==
  ASSUME Liberties = {}, GraphInv, GraphInv', CurrentInv, [Next]_vars
  PROVE  CurrentInv' /\ StepIs
<1>1. ASSUME NEW o \in Objects, Insert(o) PROVE CurrentInv' /\ StepIs
  BY <1>1, InsertCurrent DEF StepIs
<1>2. ASSUME NEW o \in Objects, Change(o) PROVE CurrentInv' /\ StepIs
  BY <1>2, ChangeCurrent DEF StepIs
<1>3. ASSUME NEW o \in Objects, LoadObject(o) PROVE CurrentInv' /\ StepIs
  BY <1>3, LoadObjectCurrent DEF StepIs, LoadObject
<1>4. ASSUME NEW g \in Groups, NEW x \in Objects, AddMember(g, x) PROVE CurrentInv' /\ StepIs
  BY <1>4, AddMemberCurrent DEF StepIs, Objects
<1>5. ASSUME NEW g \in Groups, NEW x \in Objects, RemoveMember(g, x) PROVE CurrentInv' /\ StepIs
  BY <1>5, RemoveMemberCurrent DEF StepIs, Objects
<1>6. ASSUME NEW g \in Groups, NEW order \in Orders, AskMembers(g, order) PROVE CurrentInv' /\ StepIs
  BY <1>6, AskMembersCurrent DEF StepIs, AskMembers
<1>7. ASSUME NEW p \in Policies, SetPolicy(p) PROVE CurrentInv' /\ StepIs
  BY <1>7, SetPolicyCurrent DEF StepIs, SetPolicy
<1>8. ASSUME NEW o \in Objects, NEW v \in 0..MaxVersion, NEW order \in Orders, RestoreObject(o, v, order)
      PROVE  CurrentInv' /\ StepIs
  BY <1>8, RestoreObjectCurrent DEF StepIs
<1>9. CASE Restart
  BY <1>9, RestartCurrent DEF StepIs, Restart
<1>10. ASSUME NEW v \in 0..MaxVersion, RestoreToVersion(v) PROVE CurrentInv' /\ StepIs
  BY <1>10, RestoreToVersionCurrent DEF StepIs, RestoreToVersion
<1>11. ASSUME NEW o \in Objects, SkipRestored(o) PROVE CurrentInv' /\ StepIs
  BY <1>11, SkipRestoredCurrent DEF StepIs, SkipRestored
<1>12. ASSUME NEW o \in Objects, RestoreMissing(o) PROVE CurrentInv' /\ StepIs
  <2>1. UNCHANGED <<history, seen>>
    BY <1>12 DEF RestoreMissing, Merged
  <2>2. QED
    BY <1>12, <2>1, RestoreMissingCurrent DEF StepIs
<1>13. ASSUME NEW o \in Objects, NEW order \in Orders, RestoreCached(o, order) PROVE CurrentInv' /\ StepIs
  <2>1. UNCHANGED <<history, seen>>
    BY <1>13 DEF RestoreCached, Merged
  <2>2. QED
    BY <1>13, <2>1, RestoreCachedCurrent DEF StepIs
<1>14. CASE RestoreEnds
  BY <1>14, RestoreEndsCurrent DEF StepIs
<1>15. CASE UNCHANGED vars
  <2>1. UNCHANGED <<history, stored, instance, policy, restoring, seen>>
    BY <1>15 DEF vars
  <2>2. \A w : Found(w)' = Found(w)
    BY <2>1 DEF Found
  <2>3. Here' = Here /\ Found(restoring.to)' = Found(restoring.to)
    BY <2>1 DEF Found, Here
  <2>4. FilesInv' /\ Matching(instance)' /\ SeenInv'
    BY <2>1, <2>2 DEF CurrentInv, FilesInv, Matching, SeenInv
  <2>5. QED
    BY <2>1, <2>2, <2>3, <2>4 DEF CurrentInv, Idle, StepIs
<1>16. QED
  BY <1>1, <1>2, <1>3, <1>4, <1>5, <1>6, <1>7, <1>8, <1>9, <1>10, <1>11, <1>12, <1>13, <1>14, <1>15 DEF Next

LEMMA CurrentAlways == Liberties = {} /\ Spec => [](GraphInv /\ CurrentInv)
<1>1. Liberties = {} /\ GraphInv /\ CurrentInv /\ [Next]_vars => GraphInv' /\ CurrentInv'
  BY GraphNext, CurrentNext
<1>2. CASE Liberties = {}
  BY <1>1, <1>2, GraphInit, CurrentInit, PTL DEF Spec
<1>3. QED
  BY <1>2

(* With a careful client no group holds, between two operations, a member     *)
(* twice or one that was replaced or left the context, which                  *)
(* -updateRelationshipsToObject:withInstance: and the warning of              *)
(* -replaceObject:byObject:isTemporalMerge:error: are about.                  *)
THEOREM MembersCurrent == Liberties = {} /\ Spec => []MembersAreCurrent
<1>1. CurrentInv => MembersAreCurrent
  BY DEF CurrentInv, Steady, Matching, Matches, Single, HoldsStale, MembersAreCurrent, Cached
<1>2. QED
  BY <1>1, CurrentAlways, PTL

(* With a careful client the groups of every past version play back to the    *)
(* members they had, whatever is in memory, and the last one to those the     *)
(* client sees.                                                               *)
THEOREM PastKept == Liberties = {} /\ Spec => []PastIsKept
<1>1. ASSUME GraphInv, CurrentInv PROVE PastIsKept
  <2> SUFFICES ASSUME Idle
               PROVE  /\ \A v \in 1..Len(history) : \A g \in DOMAIN Found(v) \cap Groups :
                           Uuids(Playback(instance, g, Found(v)[g])) = seen[v][g]
                      /\ history # <<>> => View = seen[Len(history)]
    BY DEF PastIsKept
  <2>1. Len(history) \in Nat /\ \A v \in 0..Len(history) : FoundOK(Found(v))
    BY <1>1 DEF GraphInv, HistoryInv
  <2>2. ASSUME NEW v \in 1..Len(history), NEW g \in DOMAIN Found(v)
        PROVE  Uuids(Playback(instance, g, Found(v)[g])) = seen[v][g]
    <3>1. PICK f : f = Found(v) /\ FoundOK(f) /\ seen[v] = AtVersion(stored, f)
      BY <1>1, <2>1 DEF CurrentInv, SeenInv
    <3>2. PICK n, refs : n = f[g] /\ refs = Playback(instance, g, n) /\ n \in 0..LastVersion(g) /\ g \in Objects
      BY <2>2, <3>1 DEF FoundOK
    <3>3. Uuids(refs) = Uuids(Plain(stored[g], n))
      BY <1>1, <3>2, PlaybackRead DEF CurrentInv
    <3>4. QED
      BY <2>2, <3>1, <3>2, <3>3 DEF AtVersion
  <2>3. ASSUME history # <<>> PROVE View = seen[Len(history)]
    <3>1. Len(history) \in 1..Len(history)
      BY <1>1, <2>1, <2>3 DEF GraphInv, HistoryInv
    <3>2. seen[Len(history)] = AtVersion(stored, Here) /\ FoundOK(Here)
      BY <1>1, <2>1, <3>1 DEF CurrentInv, SeenInv, Here
    <3>3. View = AtVersion(stored, Here)
      BY <1>1, <3>2, ViewIs DEF CurrentInv, Steady
    <3>4. QED
      BY <3>2, <3>3
  <2>4. QED
    BY <2>2, <2>3
<1>2. QED
  BY <1>1, CurrentAlways, PTL

------------------------------------------------------------------------------
(* The versioned graph.                                                       *)

Graph == IF seen = <<>> THEN [o \in {} |-> {}] ELSE Last(seen)
Origin == [v \in DOMAIN history |-> history[v].origin]

LEMMA SeenIs ==
  ASSUME GraphInv, CurrentInv
  PROVE  /\ Graph = AtVersion(stored, Here) /\ DOMAIN Graph = DOMAIN Here
         /\ \A v \in 0..Len(history) : VG!At(v) = AtVersion(stored, Found(v))
         /\ Len(seen) = Len(history) /\ Len(history) \in Nat
<1>1. /\ seen \in Seq(AnyGraph) /\ Len(seen) = Len(history) /\ Len(history) \in Nat
      /\ \A v \in 1..Len(history) : seen[v] = AtVersion(stored, Found(v))
  BY DEF GraphInv, HistoryInv, CurrentInv, SeenInv
<1>2. AtVersion(stored, Found(0)) = [o \in {} |-> {}]
  BY DEF AtVersion, Found
<1>3. Graph = AtVersion(stored, Here)
  <2>1. CASE seen = <<>>
    <3>1. Len(history) = 0
      BY <1>1, <2>1
    <3>2. QED
      BY <1>2, <2>1, <3>1 DEF Graph, Here
  <2>2. CASE seen # <<>>
    <3>1. Len(history) \in 1..Len(history) /\ Last(seen) = seen[Len(seen)]
      BY <1>1, <2>2 DEF Last
    <3>2. QED
      BY <1>1, <2>2, <3>1 DEF Graph, Here
  <2>3. QED
    BY <2>1, <2>2
<1>4. DOMAIN Graph = DOMAIN Here
  BY <1>3 DEF AtVersion
<1>5. ASSUME NEW v \in 0..Len(history) PROVE VG!At(v) = AtVersion(stored, Found(v))
  <2>1. CASE v = 0
    BY <1>2, <2>1 DEF VG!At, VG!Nothing
  <2>2. CASE v # 0
    BY <1>1, <2>2 DEF VG!At
  <2>3. QED
    BY <2>1, <2>2
<1>6. QED
  BY <1>1, <1>3, <1>4, <1>5

\* One more version in the history.
LEMMA OriginGrows ==
  ASSUME GraphInv, NEW f, NEW n, history' = Append(history, [found |-> f, origin |-> n])
  PROVE  Origin' = Append(Origin, n)
<1>1. PICK h, more, r : h = history /\ more = history' /\ r = [found |-> f, origin |-> n]
  OBVIOUS
<1>2. r.origin = n
  BY <1>1
<1>3. h \in Seq(AnyVersion) /\ Len(h) \in Nat /\ more = Append(h, r)
  BY <1>1 DEF GraphInv, HistoryInv
<1>4. /\ DOMAIN h = 1..Len(h) /\ DOMAIN more = 1..Len(h) + 1
      /\ \A v \in 1..Len(h) : more[v] = h[v]
      /\ more[Len(h) + 1] = r
  BY <1>3
<1>5. PICK a, b : a = Origin /\ b = Origin'
  OBVIOUS
<1>6. a = [v \in 1..Len(h) |-> h[v].origin] /\ b = [v \in 1..Len(h) + 1 |-> more[v].origin]
  BY <1>1, <1>4, <1>5 DEF Origin
<1>7. Len(a) = Len(h) /\ Append(a, n) = [v \in 1..Len(h) + 1 |-> IF v = Len(h) + 1 THEN n ELSE a[v]]
  BY <1>3, <1>6
<1>8. \A v \in 1..Len(h) + 1 : more[v].origin = IF v = Len(h) + 1 THEN n ELSE a[v]
  BY <1>2, <1>3, <1>4, <1>6
<1>9. b = Append(a, n)
  BY <1>6, <1>7, <1>8
<1>10. QED
  BY <1>5, <1>9

LEMMA LastOf ==
  ASSUME NEW S, NEW s \in Seq(S), NEW x, NEW t, t = Append(s, x)
  PROVE  Last(t) = x
BY DEF Last

LEMMA GraphStep ==
  ASSUME GraphInv, GraphInv', CurrentInv, CurrentInv', StepIs
  PROVE  [VG!Next]_(VG!vars)
<1>1. /\ Graph = AtVersion(stored, Here) /\ DOMAIN Graph = DOMAIN Here
      /\ \A v \in 0..Len(history) : VG!At(v) = AtVersion(stored, Found(v))
      /\ Len(seen) = Len(history) /\ Len(history) \in Nat
  BY SeenIs
<1>2. CASE RestoresGraph
  <2>1. PICK v, f : v = restoring.to /\ history' = Append(history, [found |-> f, origin |-> v]) /\ v \in 0..Len(seen)
    BY <1>1, <1>2 DEF RestoresGraph
  <2>2. Origin' = Append(Origin, v)
    BY <2>1, OriginGrows
  <2>3. Graph' = VG!At(v) /\ seen' = Append(seen, VG!At(v))
    <3>1. Graph' = Last(seen') /\ Last(seen') = VG!At(v)
      BY <1>1, <1>2, <2>1 DEF RestoresGraph, Graph
    <3>2. Last(seen') = View'
      <4>1. seen \in Seq(AnyGraph) /\ seen' = Append(seen, View')
        BY <1>2 DEF RestoresGraph, CurrentInv, SeenInv
      <4>2. QED
        BY <4>1, LastOf
    <3>3. QED
      BY <1>2, <3>1, <3>2 DEF RestoresGraph
  <2>4. VG!RestoreGraph(v)
    BY <2>2, <2>3 DEF VG!RestoreGraph, Graph, Origin
  <2>5. QED
    BY <2>1, <2>4 DEF VG!Next
<1>3. ASSUME NEW o \in Objects, LogsChange(o) PROVE VG!Next
  <2>1. PICK f : history' = Append(history, [found |-> f, origin |-> -1])
    BY <1>3 DEF LogsChange
  <2>2. Origin' = Append(Origin, -1)
    BY <2>1, OriginGrows
  <2>3. Graph' = AtVersion(stored', Here') /\ seen' = Append(seen, Graph')
    <3>1. Graph' = Last(seen') /\ Last(seen') = AtVersion(stored', Here')
      BY <1>3 DEF LogsChange, Graph
    <3>2. Last(seen') = View'
      BY <1>3, LastOf DEF LogsChange, CurrentInv, SeenInv
    <3>3. QED
      BY <1>3, <3>1, <3>2 DEF LogsChange
  <2>4. VG!ChangesOnly(o, Graph, Graph')
    <3>1. PICK g, h, e, f1 : g = Graph /\ h = Graph' /\ e = Here /\ f1 = Here'
      OBVIOUS
    <3>2. /\ g = [p \in DOMAIN e |-> Uuids(Plain(stored[p], e[p]))]
          /\ h = [p \in DOMAIN f1 |-> Uuids(Plain(stored'[p], f1[p]))]
      BY <1>1, <2>3, <3>1 DEF AtVersion
    <3>3. /\ DOMAIN f1 = DOMAIN e \cup {o}
          /\ \A p \in DOMAIN e \ {o} : Uuids(Plain(stored'[p], f1[p])) = Uuids(Plain(stored[p], e[p]))
      BY <1>3, <3>1 DEF LogsChange
    <3>4. DOMAIN h = DOMAIN g \cup {o} /\ \A p \in DOMAIN g \ {o} : h[p] = g[p]
      BY <3>2, <3>3
    <3>5. QED
      BY <3>1, <3>4 DEF VG!ChangesOnly
  <2>5. CASE VG!IsNew(o, Graph')
    <3>1. VG!Change(o)
      BY <2>2, <2>3, <2>4, <2>5 DEF VG!Change, Graph, Origin
    <3>2. QED
      BY <3>1 DEF VG!Next
  <2>6. CASE ~VG!IsNew(o, Graph')
    <3>1. VG!Recall(o)
      BY <2>2, <2>3, <2>4, <2>6 DEF VG!Recall, Graph, Origin
    <3>2. QED
      BY <3>1 DEF VG!Next
  <2>7. QED
    BY <2>5, <2>6
<1>4. CASE UNCHANGED <<history, seen>>
  BY <1>4 DEF VG!vars
<1>5. QED
  BY <1>2, <1>3, <1>4 DEF StepIs

(* With a careful client the context is a versioned graph for the             *)
(* relationships: each step of it is a step of VersionedGraph on the members, *)
(* or none.                                                                   *)
THEOREM RefinesVersionedGraph == Liberties = {} /\ Spec => ImplementsVersionedGraph
<1>1. Init => VG!Init
  BY DEF Init, VG!Init, VG!Nothing
<1>2. Liberties = {} /\ GraphInv /\ GraphInv' /\ CurrentInv /\ CurrentInv' /\ [Next]_vars => [VG!Next]_(VG!vars)
  BY CurrentNext, GraphStep
<1>3. CASE Liberties = {}
  BY <1>1, <1>2, <1>3, CurrentAlways, PTL DEF Spec, VG!Spec, ImplementsVersionedGraph
<1>4. QED
  BY <1>3
=============================================================================
