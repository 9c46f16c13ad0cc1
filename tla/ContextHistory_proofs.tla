------------------------ MODULE ContextHistory_proofs ------------------------
(* Proofs about the history of an object context. Whatever the constants: the *)
(* versions it names are stored, redo comes back, and no restore point is     *)
(* misread. When messages do not nest and no object reaches the version of a  *)
(* periodic snapshot: nothing is only in memory, the past is kept, and the    *)
(* context is a versioned graph. Whatever the constants again, and wherever   *)
(* an operation is stopped: what is named can be played back, and no past     *)
(* version restores to another graph; when messages do not nest, the client   *)
(* sees what the history says.                                                *)
EXTENDS ContextStops, FiniteSetTheorems, WellFoundedInduction, TLAPS

(* What the theorems suppose of the constants: with messages that nest, or    *)
(* an interval that bites, the properties fail.                               *)
Plain == Nested = {nil} /\ SnapshotInterval > MaxVersion

------------------------------------------------------------------------------
(* Numbers. *)

(* A set of numbers that is not empty has a least element. *)
LEMMA Least ==
  ASSUME NEW S \in SUBSET Nat, S # {}
  PROVE  \E n \in S : \A m \in S : n <= m
<1> DEFINE R == OpToRel(<, Nat)
<1>1. IsWellFoundedOn(R, Nat)
  BY NatLessThanWellFounded
<1>2. \A x, y \in Nat : y < x => <<y, x>> \in R
  BY DEF OpToRel
<1> HIDE DEF R
<1>3. \E x \in S : \A y \in S : ~ (<<y, x>> \in R)
  BY <1>1, WFMin
<1>4. PICK x \in S : \A y \in S : <<y, x>> \notin R
  BY <1>3
<1>5. \A y \in S : ~(y < x)
  BY <1>2, <1>4, Zenon
<1>6. \A y \in S : x <= y
  BY <1>5
<1>7. QED
  BY <1>6

(* Induction over the numbers, as a fact about sets. *)
LEMMA Induction ==
  ASSUME NEW S \in SUBSET Nat, 0 \in S, \A n \in S : n + 1 \in S
  PROVE  S = Nat
<1> SUFFICES ASSUME Nat \ S # {} PROVE FALSE
  OBVIOUS
<1>1. PICK n \in Nat \ S : \A m \in Nat \ S : n <= m
  BY Least
<1>2. n # 0 /\ n - 1 \in Nat
  BY <1>1
<1>3. n - 1 \in S
  BY <1>1, <1>2
<1>4. QED
  BY <1>1, <1>2, <1>3

(* A set of numbers with a bound has a greatest element, which is Max. *)
LEMMA MaxIs ==
  ASSUME NEW n \in Nat, NEW S \in SUBSET (0..n), S # {}
  PROVE  Max(S) \in S /\ \A x \in S : x <= Max(S)
<1> DEFINE T == {n - x : x \in S}
<1>1. T \in SUBSET Nat /\ T # {}
  OBVIOUS
<1>2. PICK t \in T : \A u \in T : t <= u
  BY <1>1, Least
<1>3. PICK m \in S : t = n - m
  BY <1>2
<1>4. \A x \in S : n - x \in T
  OBVIOUS
<1>5. \A x \in S : m >= x
  BY <1>2, <1>3, <1>4
<1>6. Max(S) \in S /\ \A x \in S : Max(S) >= x
  BY <1>3, <1>5 DEF Max
<1>7. QED
  BY <1>6

(* The greatest element is the only one. *)
LEMMA MaxUnique ==
  ASSUME NEW n \in Nat, NEW S \in SUBSET (0..n), NEW m \in S, \A x \in S : x <= m
  PROVE  Max(S) = m
<1>1. Max(S) \in S /\ m <= Max(S)
  BY MaxIs
<1>2. Max(S) <= m
  BY <1>1
<1>3. Max(S) \in Int /\ m \in Int
  <2>1. \A x \in S : x \in Int
    OBVIOUS
  <2>2. QED
    BY <1>1, <2>1, Zenon
<1>4. \A a, b \in Int : a <= b /\ b <= a => a = b
  OBVIOUS
<1>5. QED
  BY <1>1, <1>2, <1>3, <1>4, Zenon

------------------------------------------------------------------------------
(* Functions. *)

(* What a function that overrides another one says. *)
LEMMA OverDomain ==
  ASSUME NEW f, NEW g
  PROVE  DOMAIN Over(f, g) = DOMAIN f \cup DOMAIN g
BY DEF Over

LEMMA OverFirst ==
  ASSUME NEW f, NEW g
  PROVE  \A x \in DOMAIN f : Over(f, g)[x] = f[x]
BY DEF Over

LEMMA OverElse ==
  ASSUME NEW f, NEW g
  PROVE  \A x \in DOMAIN g : x \notin DOMAIN f => Over(f, g)[x] = g[x]
BY DEF Over

LEMMA EntryDomain ==
  ASSUME NEW f, NEW n, NEW y
  PROVE  DOMAIN Over(Entry(n, y), f) = {n} \cup DOMAIN f
BY DEF Over, Entry

LEMMA EntryNew ==
  ASSUME NEW f, NEW n, NEW y
  PROVE  Over(Entry(n, y), f)[n] = y
BY DEF Over, Entry

LEMMA EntryOld ==
  ASSUME NEW f, NEW n, NEW y
  PROVE  \A z \in DOMAIN f : z # n => Over(Entry(n, y), f)[z] = f[z]
BY DEF Over, Entry

------------------------------------------------------------------------------
(* The scan of the history. *)

(* The scan only goes back. *)
GoesBack == version \in Nat /\ \A c \in 1..version : Before(c) \in -1..c - 1

(* f is what the scan of the first n versions returns from each of them. *)
IsScan(f, n) ==
  f = [c \in -1..n |-> IF c < 1 THEN NotFound ELSE Over(VersionsAt(c), f[Before(c)])]

LEMMA ScanExists == GoesBack => \E f : IsScan(f, version)
<1> SUFFICES ASSUME GoesBack PROVE \E f : IsScan(f, version)
  OBVIOUS
<1> DEFINE S == {n \in Nat : n <= version => \E f : IsScan(f, n)}
<1>1. 0 \in S
  <2> DEFINE f == [c \in -1..0 |-> NotFound]
  <2>1. f = [c \in -1..0 |-> IF c < 1 THEN NotFound ELSE Over(VersionsAt(c), f[Before(c)])]
    OBVIOUS
  <2>2. IsScan(f, 0)
    BY <2>1 DEF IsScan
  <2> HIDE DEF f
  <2>3. QED
    BY <2>2
<1>2. ASSUME NEW n \in S PROVE n + 1 \in S
  <2> SUFFICES ASSUME n + 1 <= version PROVE \E f : IsScan(f, n + 1)
    OBVIOUS
  <2>1. PICK f : IsScan(f, n)
    BY DEF GoesBack
  <2> DEFINE g == [c \in -1..n + 1 |->
                     IF c = n + 1 THEN Over(VersionsAt(c), f[Before(c)]) ELSE f[c]]
  <2>2. n \in Nat /\ \A c \in 1..n + 1 : Before(c) \in -1..c - 1
    BY DEF GoesBack
  <2>3. \A c \in -1..n : g[c] = f[c]
    BY <2>2
  <2>4. \A c \in -1..n : f[c] = IF c < 1 THEN NotFound ELSE Over(VersionsAt(c), f[Before(c)])
    BY <2>1 DEF IsScan
  <2>5. ASSUME NEW c \in -1..n + 1
        PROVE  g[c] = IF c < 1 THEN NotFound ELSE Over(VersionsAt(c), g[Before(c)])
    <3>1. CASE c < 1
      <4>1. c \in -1..n /\ c # n + 1
        BY <3>1, <2>2
      <4>2. QED
        BY <3>1, <4>1, <2>3, <2>4
    <3>2. CASE c \in 1..n
      <4>1. Before(c) \in -1..n /\ c \in -1..n /\ ~(c < 1)
        BY <3>2, <2>2
      <4>2. g[Before(c)] = f[Before(c)]
        BY <4>1, <2>3
      <4>3. g[c] = Over(VersionsAt(c), f[Before(c)])
        BY <4>1, <2>3, <2>4
      <4>4. QED
        BY <4>1, <4>2, <4>3
    <3>3. CASE c = n + 1
      <4>1. Before(c) \in -1..n /\ ~(c < 1)
        BY <3>3, <2>2
      <4>2. g[Before(c)] = f[Before(c)]
        BY <4>1, <2>3
      <4>3. g[c] = Over(VersionsAt(c), f[Before(c)])
        BY <3>3
      <4>4. QED
        BY <4>1, <4>2, <4>3
    <3>4. QED
      BY <3>1, <3>2, <3>3, <2>2
  <2>6. g = [c \in -1..n + 1 |-> g[c]]
    OBVIOUS
  <2> HIDE DEF g
  <2>7. g = [c \in -1..n + 1 |-> IF c < 1 THEN NotFound ELSE Over(VersionsAt(c), g[Before(c)])]
    BY <2>5, <2>6
  <2>8. QED
    BY <2>7 DEF IsScan
<1> HIDE DEF S
<1>3. S \in SUBSET Nat
  BY DEF S
<1>4. S = Nat
  BY <1>1, <1>2, <1>3, Induction
<1>5. QED
  BY <1>4 DEF S, GoesBack

(* The equation of -findAllObjectVersionsMatchingContextVersion: *)
FoundEquation ==
  /\ \A v \in -1..version : v < 1 => Found(v) = NotFound
  /\ \A v \in 1..version, b \in -1..version :
       b = Before(v) => Found(v) = Over(VersionsAt(v), Found(b))

LEMMA FoundIs == GoesBack => FoundEquation
<1> SUFFICES ASSUME GoesBack PROVE FoundEquation
  OBVIOUS
<1> DEFINE F == CHOOSE f : f = [c \in -1..version |->
                   IF c < 1 THEN NotFound ELSE Over(VersionsAt(c), f[Before(c)])]
<1>1. \E f : f = [c \in -1..version |->
                   IF c < 1 THEN NotFound ELSE Over(VersionsAt(c), f[Before(c)])]
  BY ScanExists DEF IsScan
<1>2. F = [c \in -1..version |->
             IF c < 1 THEN NotFound ELSE Over(VersionsAt(c), F[Before(c)])]
  BY <1>1
<1>3. \A v : Found(v) = F[v]
  BY DEF Found
<1> HIDE DEF F
<1>4. \A c \in -1..version :
        F[c] = IF c < 1 THEN NotFound ELSE Over(VersionsAt(c), F[Before(c)])
  BY <1>2
<1>5. \A v \in -1..version : v < 1 => Found(v) = NotFound
  BY <1>3, <1>4
<1>6. ASSUME NEW v \in 1..version, NEW b \in -1..version, b = Before(v)
      PROVE  Found(v) = Over(VersionsAt(v), Found(b))
  <2>1. v \in -1..version /\ ~(v < 1)
    BY DEF GoesBack
  <2>2. F[v] = Over(VersionsAt(v), F[b])
    BY <2>1, <1>4, <1>6
  <2>3. QED
    BY <2>2, <1>3
<1>7. QED
  BY <1>5, <1>6 DEF FoundEquation

------------------------------------------------------------------------------
(* The rows. *)

AnyRow == [object : Objects \cup {Context}, objectVersion : Int, contextVersion : Int]

\* The first version the graph can be taken back to.
FirstRestored == IF UndoesPastFirst THEN -1 ELSE 0

\* A row names a stored version, or a version of the context that was past.
RowOK(row) ==
  /\ row.contextVersion \in 1..version
  /\ row.object # Context => row.objectVersion \in 0..metadata[row.object]
  /\ row.object = Context => row.objectVersion \in FirstRestored..row.contextVersion - 1

\* A version of the context has one row for an object, and it has rows; but for
\* the one a misread restore point leaves.
RowsInv ==
  /\ version \in Nat
  /\ metadata \in [Objects -> Int]
  /\ history \in Seq(AnyRow)
  /\ \A row \in Range(history) : RowOK(row)
  /\ \A r1, r2 \in Range(history) :
       r1.contextVersion = r2.contextVersion /\ r1.object = r2.object => r1 = r2
  /\ ~raised /\ version > 0 => \E row \in Range(history) : row.contextVersion = version

LEMMA RangeIs ==
  ASSUME NEW S, NEW s \in Seq(S)
  PROVE  Range(s) \subseteq S
BY DEF Range

LEMMA RangeAppend ==
  ASSUME NEW S, NEW s \in Seq(S), NEW x \in S
  PROVE  Append(s, x) \in Seq(S) /\ Range(Append(s, x)) = Range(s) \cup {x}
<1> DEFINE t == Append(s, x)
<1>1. t \in Seq(S) /\ Len(t) = Len(s) + 1 /\ Len(s) \in Nat
  OBVIOUS
<1>2. \A i \in 1..Len(s) : t[i] = s[i]
  OBVIOUS
<1>3. t[Len(s) + 1] = x
  OBVIOUS
<1>4. DOMAIN t = 1..Len(s) + 1 /\ DOMAIN s = 1..Len(s)
  BY <1>1
<1> HIDE DEF t
<1>5. \A i \in DOMAIN t : i \in DOMAIN s \/ i = Len(s) + 1
  BY <1>1, <1>4
<1>6. \A i \in DOMAIN s : i \in DOMAIN t
  BY <1>1, <1>4
<1>7. Len(s) + 1 \in DOMAIN t
  BY <1>1, <1>4
<1>8. Range(t) \subseteq Range(s) \cup {x}
  BY <1>2, <1>3, <1>4, <1>5 DEF Range
<1>9. Range(s) \cup {x} \subseteq Range(t)
  BY <1>2, <1>3, <1>4, <1>6, <1>7 DEF Range
<1>10. QED
  BY <1>1, <1>8, <1>9 DEF t

LEMMA RangeConcat ==
  ASSUME NEW S, NEW s \in Seq(S), NEW r \in Seq(S)
  PROVE  s \o r \in Seq(S) /\ Range(s \o r) = Range(s) \cup Range(r)
<1> DEFINE t == s \o r
<1>1. t \in Seq(S) /\ Len(t) = Len(s) + Len(r) /\ Len(s) \in Nat /\ Len(r) \in Nat
  OBVIOUS
<1>2. \A i \in 1..Len(s) : t[i] = s[i]
  OBVIOUS
<1>3. \A i \in 1..Len(r) : t[Len(s) + i] = r[i]
  OBVIOUS
<1>4. DOMAIN t = 1..Len(s) + Len(r) /\ DOMAIN s = 1..Len(s) /\ DOMAIN r = 1..Len(r)
  BY <1>1
<1> HIDE DEF t
<1>5. \A i \in 1..Len(r) : Len(s) + i \in DOMAIN t
  BY <1>1, <1>4
<1>6. \A i \in DOMAIN t : i \in DOMAIN s \/ \E j \in 1..Len(r) : i = Len(s) + j
  <2> TAKE i \in DOMAIN t
  <2>1. i \in 1..Len(s) \/ (i - Len(s) \in 1..Len(r) /\ i = Len(s) + (i - Len(s)))
    BY <1>1, <1>4
  <2>2. QED
    BY <2>1, <1>4
<1>7. \A i \in DOMAIN s : i \in DOMAIN t
  BY <1>1, <1>4
<1>8. Range(t) \subseteq Range(s) \cup Range(r)
  <2>1. ASSUME NEW i \in DOMAIN t PROVE t[i] \in Range(s) \cup Range(r)
    <3>1. CASE i \in DOMAIN s
      BY <3>1, <1>2, <1>4 DEF Range
    <3>2. CASE i \notin DOMAIN s
      <4>1. PICK j \in 1..Len(r) : i = Len(s) + j
        BY <3>2, <1>6
      <4>2. t[i] = r[j] /\ j \in DOMAIN r
        BY <4>1, <1>3, <1>4
      <4>3. QED
        BY <4>2 DEF Range
    <3>3. QED
      BY <3>1, <3>2
  <2>2. QED
    BY <2>1 DEF Range
<1>9. Range(s) \cup Range(r) \subseteq Range(t)
  BY <1>2, <1>3, <1>4, <1>5, <1>7 DEF Range
<1>10. QED
  BY <1>1, <1>8, <1>9 DEF t

LEMMA ConcatOne ==
  ASSUME NEW S, NEW s \in Seq(S), NEW x \in S
  PROVE  s \o <<x>> = Append(s, x)
OBVIOUS

\* What the rows of a version say.
RowFacts ==
  \A c \in 1..version :
    /\ \A row \in Range(history) : row.contextVersion = c =>
         /\ row.object # Context =>
              /\ row.object \in DOMAIN VersionsAt(c)
              /\ VersionsAt(c)[row.object] = row.objectVersion
         /\ row.object = Context => IsRestorePoint(c) /\ RestoredVersion(c) = row.objectVersion
    /\ IsRestorePoint(c) <=> \E row \in Range(history) :
                               row.contextVersion = c /\ row.object = Context
    /\ \A o : o \in DOMAIN VersionsAt(c) <=>
         \E row \in Range(history) : row.contextVersion = c /\ row.object = o /\ o # Context
    /\ VersionsAt(c) = [o \in DOMAIN VersionsAt(c) |-> VersionsAt(c)[o]]
    /\ Before(c) = IF IsRestorePoint(c) THEN RestoredVersion(c) ELSE c - 1

LEMMA RowsSay == RowsInv => RowFacts
<1> SUFFICES ASSUME RowsInv, NEW c \in 1..version
    PROVE
    /\ \A row \in Range(history) : row.contextVersion = c =>
         /\ row.object # Context =>
              /\ row.object \in DOMAIN VersionsAt(c)
              /\ VersionsAt(c)[row.object] = row.objectVersion
         /\ row.object = Context => IsRestorePoint(c) /\ RestoredVersion(c) = row.objectVersion
    /\ IsRestorePoint(c) <=> \E row \in Range(history) :
                               row.contextVersion = c /\ row.object = Context
    /\ \A o : o \in DOMAIN VersionsAt(c) <=>
         \E row \in Range(history) : row.contextVersion = c /\ row.object = o /\ o # Context
    /\ VersionsAt(c) = [o \in DOMAIN VersionsAt(c) |-> VersionsAt(c)[o]]
    /\ Before(c) = IF IsRestorePoint(c) THEN RestoredVersion(c) ELSE c - 1
  BY DEF RowFacts
<1>1. \A r1, r2 \in RowsAt(c) : r1.object = r2.object => r1 = r2
  BY DEF RowsInv, RowsAt
<1>2. \A row : row \in RowsAt(c) <=> row \in Range(history) /\ row.contextVersion = c
  BY DEF RowsAt
<1>3. \A o : o \in DOMAIN VersionsAt(c) <=> \E row \in RowsAt(c) : row.object = o /\ o # Context
  BY DEF VersionsAt
<1>4. \A o \in DOMAIN VersionsAt(c) :
        VersionsAt(c)[o] = (CHOOSE row \in RowsAt(c) : row.object = o).objectVersion
  BY DEF VersionsAt
<1>5. VersionsAt(c) = [o \in DOMAIN VersionsAt(c) |-> VersionsAt(c)[o]]
  BY DEF VersionsAt
<1>6. ASSUME NEW row \in RowsAt(c), NEW o, row.object = o
      PROVE  (CHOOSE r \in RowsAt(c) : r.object = o) = row
  BY <1>1, <1>6
<1>7. IsRestorePoint(c) <=> \E row \in RowsAt(c) : row.object = Context
  BY DEF IsRestorePoint
<1>8. RestoredVersion(c) = (CHOOSE row \in RowsAt(c) : row.object = Context).objectVersion
  BY DEF RestoredVersion
<1>9. ASSUME NEW row \in RowsAt(c), row.object # Context
      PROVE  row.object \in DOMAIN VersionsAt(c) /\ VersionsAt(c)[row.object] = row.objectVersion
  BY <1>3, <1>4, <1>6, <1>9
<1>10. ASSUME NEW row \in RowsAt(c), row.object = Context
       PROVE  IsRestorePoint(c) /\ RestoredVersion(c) = row.objectVersion
  BY <1>6, <1>7, <1>8, <1>10
<1>11. Before(c) = IF IsRestorePoint(c) THEN RestoredVersion(c) ELSE c - 1
  BY DEF Before
<1>12. QED
  BY <1>2, <1>3, <1>5, <1>7, <1>9, <1>10, <1>11

\* A restore point is to a version before it.
LEMMA RowsGoBack == RowsInv => GoesBack /\ \A c \in 1..version : Before(c) \in FirstRestored..c - 1
<1> SUFFICES ASSUME RowsInv
             PROVE  /\ version \in Nat
                    /\ \A c \in 1..version : /\ Before(c) \in -1..c - 1
                                             /\ Before(c) \in FirstRestored..c - 1
  BY DEF GoesBack
<1>1. version \in Nat
  BY DEF RowsInv
<1>2. FirstRestored \in {-1, 0}
  BY DEF FirstRestored
<1>3. ASSUME NEW c \in 1..version
      PROVE  Before(c) \in FirstRestored..c - 1
  <2>1. CASE IsRestorePoint(c)
    <3>1. PICK row \in Range(history) : row.contextVersion = c /\ row.object = Context
      BY <2>1, RowsSay DEF RowFacts
    <3>2. Before(c) = row.objectVersion
      BY <2>1, <3>1, RowsSay DEF RowFacts
    <3>3. row.objectVersion \in FirstRestored..row.contextVersion - 1
      BY <3>1 DEF RowsInv, RowOK
    <3>4. QED
      BY <3>1, <3>2, <3>3
  <2>2. CASE ~IsRestorePoint(c)
    <3>1. Before(c) = c - 1
      BY <2>2, RowsSay DEF RowFacts
    <3>2. QED
      BY <3>1, <1>1, <1>2
  <2>3. QED
    BY <2>1, <2>2
<1>4. QED
  BY <1>1, <1>2, <1>3

------------------------------------------------------------------------------
(* The files of an object. *)

\* f and d are the snapshots and the invocations of an object of version m,
\* whose messages are in K: one file or another for each version, and a
\* snapshot to begin with.
Files(f, d, m, K) ==
  /\ m \in Nat \cup {-1}
  /\ DOMAIN f \cup DOMAIN d = 0..m
  /\ DOMAIN d \subseteq 1..m
  /\ \A s \in DOMAIN f : f[s] \in Seq(K)
  /\ \A n \in DOMAIN d : d[n] \in K

\* g has the files of f, and others only above m.
Extends(f, g, m) ==
  /\ DOMAIN f \subseteq DOMAIN g
  /\ \A s \in DOMAIN f : g[s] = f[s]
  /\ \A s \in DOMAIN g \ DOMAIN f : s \in Nat /\ m < s

Below(f, v) == {s \in DOMAIN f : s <= v}
Since(d, base, v) == [i \in 1..(v - base) |-> d[base + i]]
Play(f, d, v) == f[Max(Below(f, v))] \o Since(d, Max(Below(f, v)), v)

LEMMA PlaybackIs ==
  ASSUME NEW o, NEW v
  PROVE  Playback(o, v) = Play(fullSave[o], delta[o], v)
BY DEF Playback, Play, Below, Since

\* The playback starts at a snapshot, and there is an invocation for each
\* version after it.
LEMMA BaseIs ==
  ASSUME NEW f, NEW d, NEW m, NEW K, Files(f, d, m, K), NEW v \in 0..m
  PROVE  /\ Max(Below(f, v)) \in 0..v
         /\ Max(Below(f, v)) \in DOMAIN f
         /\ \A s \in DOMAIN f : s <= v => s <= Max(Below(f, v))
         /\ \A n \in Max(Below(f, v)) + 1..v : n \in DOMAIN d
<1>1. v \in Nat /\ m \in Nat
  BY DEF Files
<1>2. Below(f, v) \in SUBSET (0..v) /\ Below(f, v) \subseteq DOMAIN f
  BY <1>1 DEF Below, Files
<1>3. 0 \in Below(f, v)
  BY <1>1 DEF Below, Files
<1> DEFINE b == Max(Below(f, v))
<1>4. b \in Below(f, v) /\ \A s \in Below(f, v) : s <= b
  BY <1>1, <1>2, <1>3, MaxIs
<1>5. b \in 0..v /\ b \in DOMAIN f
  BY <1>2, <1>4
<1> HIDE DEF b
<1>6. \A s \in DOMAIN f : s <= v => s <= b
  BY <1>4 DEF Below
<1>7. ASSUME NEW n \in b + 1..v PROVE n \in DOMAIN d
  <2>1. n \in 0..m /\ n <= v /\ ~(n <= b)
    BY <1>1, <1>5
  <2>2. n \notin DOMAIN f
    BY <2>1, <1>6
  <2>3. QED
    BY <2>1, <2>2 DEF Files
<1>8. QED
  BY <1>5, <1>6, <1>7 DEF b

LEMMA SinceIs ==
  ASSUME NEW f, NEW d, NEW m, NEW K, Files(f, d, m, K), NEW v \in 0..m, NEW b \in 0..v,
         \A n \in b + 1..v : n \in DOMAIN d
  PROVE  Since(d, b, v) \in Seq(K) /\ Len(Since(d, b, v)) = v - b
<1>1. v - b \in Nat
  BY DEF Files
<1>2. ASSUME NEW i \in 1..(v - b) PROVE d[b + i] \in K
  <2>1. b + i \in b + 1..v
    BY <1>1 DEF Files
  <2>2. QED
    BY <2>1 DEF Files
<1>3. Since(d, b, v) \in [1..(v - b) -> K]
  BY <1>2 DEF Since
<1>4. QED
  BY <1>1, <1>3

LEMMA PlayType ==
  ASSUME NEW f, NEW d, NEW m, NEW K, Files(f, d, m, K), NEW v \in 0..m
  PROVE  Play(f, d, v) \in Seq(K)
<1> DEFINE b == Max(Below(f, v))
<1>1. b \in 0..v /\ b \in DOMAIN f /\ \A n \in b + 1..v : n \in DOMAIN d
  BY BaseIs
<1>2. Play(f, d, v) = f[b] \o Since(d, b, v)
  BY DEF Play
<1> HIDE DEF b
<1>3. f[b] \in Seq(K)
  BY <1>1 DEF Files
<1>4. Since(d, b, v) \in Seq(K)
  BY <1>1, SinceIs
<1>5. QED
  BY <1>2, <1>3, <1>4

\* Files written above a version do not change its playback.
LEMMA PlayKept ==
  ASSUME NEW f, NEW d, NEW m, NEW K, Files(f, d, m, K), NEW v \in 0..m,
         NEW f2, NEW d2, Extends(f, f2, m), Extends(d, d2, m)
  PROVE  Play(f2, d2, v) = Play(f, d, v)
<1>1. v \in Nat /\ m \in Nat /\ v <= m
  BY DEF Files
<1>2. Below(f2, v) = Below(f, v)
  <2>1. ASSUME NEW s \in DOMAIN f2, s <= v PROVE s \in DOMAIN f
    <3>1. s \notin DOMAIN f => s \in Nat /\ m < s
      BY DEF Extends
    <3>2. QED
      BY <3>1, <2>1, <1>1
  <2>2. DOMAIN f \subseteq DOMAIN f2
    BY DEF Extends
  <2>3. QED
    BY <2>1, <2>2 DEF Below
<1> DEFINE b == Max(Below(f, v))
<1>3. b \in 0..v /\ b \in DOMAIN f /\ \A n \in b + 1..v : n \in DOMAIN d
  BY BaseIs
<1>4. Play(f, d, v) = f[b] \o Since(d, b, v) /\ Play(f2, d2, v) = f2[b] \o Since(d2, b, v)
  BY <1>2 DEF Play
<1> HIDE DEF b
<1>5. f2[b] = f[b]
  BY <1>3 DEF Extends
<1>6. Since(d2, b, v) = Since(d, b, v)
  <2>1. ASSUME NEW i \in 1..(v - b) PROVE d2[b + i] = d[b + i]
    <3>1. b + i \in b + 1..v
      BY <1>1, <1>3
    <3>2. QED
      BY <3>1, <1>3 DEF Extends
  <2>2. QED
    BY <2>1 DEF Since
<1>7. QED
  BY <1>4, <1>5, <1>6

\* A version with a snapshot plays back to it.
LEMMA PlaySnapshot ==
  ASSUME NEW f, NEW d, NEW m, NEW K, Files(f, d, m, K), NEW v \in 0..m, v \in DOMAIN f
  PROVE  Play(f, d, v) = f[v]
<1>1. v \in Nat
  BY DEF Files
<1> DEFINE b == Max(Below(f, v))
<1>2. b \in 0..v /\ \A s \in DOMAIN f : s <= v => s <= b
  BY BaseIs
<1>3. Play(f, d, v) = f[b] \o Since(d, b, v)
  BY DEF Play
<1> HIDE DEF b
<1>4. b = v
  BY <1>1, <1>2
<1>5. f[v] \in Seq(K)
  BY DEF Files
<1>6. Since(d, v, v) = <<>>
  BY <1>1 DEF Since
<1>7. f[v] \o <<>> = f[v]
  BY <1>5
<1>8. QED
  BY <1>3, <1>4, <1>6, <1>7

LEMMA ConcatAppend ==
  ASSUME NEW S, NEW s \in Seq(S), NEW t \in Seq(S), NEW x \in S
  PROVE  s \o Append(t, x) = Append(s \o t, x)
<1> DEFINE l == s \o Append(t, x)
           r == Append(s \o t, x)
<1>1. Len(s) \in Nat /\ Len(t) \in Nat
  OBVIOUS
<1>2. Append(t, x) \in Seq(S) /\ Len(Append(t, x)) = Len(t) + 1
  OBVIOUS
<1>3. s \o t \in Seq(S) /\ Len(s \o t) = Len(s) + Len(t)
  OBVIOUS
<1>4. l \in Seq(S) /\ Len(l) = Len(s) + Len(t) + 1
  BY <1>1, <1>2
<1>5. r \in Seq(S) /\ Len(r) = Len(s) + Len(t) + 1
  BY <1>1, <1>3
<1>6. ASSUME NEW i \in 1..Len(s) + Len(t) + 1 PROVE l[i] = r[i]
  <2>1. CASE i <= Len(s)
    BY <2>1, <1>1, <1>2, <1>3
  <2>2. CASE i > Len(s) /\ i <= Len(s) + Len(t)
    BY <2>2, <1>1, <1>2, <1>3
  <2>3. CASE i = Len(s) + Len(t) + 1
    BY <2>3, <1>1, <1>2, <1>3
  <2>4. QED
    BY <2>1, <2>2, <2>3, <1>1
<1> HIDE DEF l, r
<1>7. l = r
  BY <1>4, <1>5, <1>6
<1>8. QED
  BY <1>7 DEF l, r

\* A version without one plays back to the version before and its message.
LEMMA PlayDelta ==
  ASSUME NEW f, NEW d, NEW m, NEW K, Files(f, d, m, K), NEW v \in 1..m, v \notin DOMAIN f
  PROVE  Play(f, d, v) = Append(Play(f, d, v - 1), d[v])
<1>1. v \in Nat /\ m \in Nat /\ v \in 0..m /\ v - 1 \in 0..m /\ v > 0
  BY DEF Files
<1>2. Below(f, v - 1) = Below(f, v)
  <2>1. ASSUME NEW s \in DOMAIN f PROVE s <= v <=> s <= v - 1
    <3>1. s \in Int /\ s # v
      BY DEF Files
    <3>2. QED
      BY <3>1, <1>1
  <2>2. QED
    BY <2>1 DEF Below
<1> DEFINE b == Max(Below(f, v))
<1>3. b \in 0..v /\ b \in DOMAIN f /\ \A n \in b + 1..v : n \in DOMAIN d
  BY <1>1, BaseIs
<1>4. Play(f, d, v) = f[b] \o Since(d, b, v) /\ Play(f, d, v - 1) = f[b] \o Since(d, b, v - 1)
  BY <1>2 DEF Play
<1> HIDE DEF b
<1>5. b # v /\ b \in 0..v - 1 /\ v - b \in Nat /\ v - b > 0
  BY <1>1, <1>3
<1>6. f[b] \in Seq(K)
  BY <1>3 DEF Files
<1>7. Since(d, b, v) \in Seq(K) /\ Len(Since(d, b, v)) = v - b
  BY <1>1, <1>3, SinceIs
<1>8. \A n \in b + 1..v - 1 : n \in DOMAIN d
  BY <1>1, <1>3
<1>9. Since(d, b, v - 1) \in Seq(K) /\ Len(Since(d, b, v - 1)) = v - 1 - b
  <2> DEFINE u == v - 1
  <2>1. u \in 0..m /\ b \in 0..u /\ \A n \in b + 1..u : n \in DOMAIN d
    BY <1>1, <1>5, <1>8
  <2> HIDE DEF u
  <2>2. Since(d, b, u) \in Seq(K) /\ Len(Since(d, b, u)) = u - b
    BY <2>1, SinceIs
  <2>3. QED
    BY <2>2 DEF u
<1>10. v \in DOMAIN d /\ d[v] \in K
  BY <1>1 DEF Files
<1>11. Since(d, b, v) = Append(Since(d, b, v - 1), d[v])
  <2> DEFINE s == Since(d, b, v)
             t == Append(Since(d, b, v - 1), d[v])
  <2>1. t \in Seq(K) /\ Len(t) = v - b
    BY <1>1, <1>5, <1>9, <1>10
  <2>2. \A i \in 1..(v - b) : s[i] = d[b + i]
    BY DEF Since
  <2>3. \A i \in 1..(v - 1 - b) : t[i] = Since(d, b, v - 1)[i]
    BY <1>9, <1>10
  <2>4. \A i \in 1..(v - 1 - b) : Since(d, b, v - 1)[i] = d[b + i]
    BY DEF Since
  <2>5. t[v - b] = d[v]
    <3>1. t[Len(Since(d, b, v - 1)) + 1] = d[v]
      BY <1>9, <1>10
    <3>2. Len(Since(d, b, v - 1)) + 1 = v - b
      BY <1>1, <1>5, <1>9
    <3>3. QED
      BY <3>1, <3>2
  <2>6. ASSUME NEW i \in 1..(v - b) PROVE s[i] = t[i]
    <3>1. CASE i = v - b
      <4>1. b + i = v
        BY <3>1, <1>1, <1>5
      <4>2. QED
        BY <4>1, <3>1, <2>2, <2>5
    <3>2. CASE i # v - b
      <4>1. i \in 1..(v - 1 - b)
        BY <3>2, <1>1, <1>5
      <4>2. QED
        BY <4>1, <2>2, <2>3, <2>4
    <3>3. QED
      BY <3>1, <3>2
  <2> HIDE DEF s, t
  <2>7. s \in Seq(K) /\ Len(s) = v - b
    BY <1>7 DEF s
  <2>8. s = t
    BY <2>1, <2>6, <2>7
  <2>9. QED
    BY <2>8 DEF s, t
<1>12. f[b] \o Append(Since(d, b, v - 1), d[v]) = Append(f[b] \o Since(d, b, v - 1), d[v])
  <2>1. Since(d, b, v - 1) \in Seq(K)
    BY <1>9
  <2> DEFINE t == Since(d, b, v - 1)
             s == f[b]
             x == d[v]
  <2>2. t \in Seq(K) /\ s \in Seq(K) /\ x \in K
    BY <2>1, <1>6, <1>10
  <2> HIDE DEF t, s, x
  <2>3. s \o Append(t, x) = Append(s \o t, x)
    BY <2>2, ConcatAppend
  <2>4. QED
    BY <2>3 DEF t, s, x
<1>13. QED
  BY <1>4, <1>11, <1>12

\* One more snapshot.
LEMMA FilesSnapshot ==
  ASSUME NEW f, NEW d, NEW m, NEW K, Files(f, d, m, K), NEW J, K \subseteq J, NEW x \in Seq(J)
  PROVE  /\ Files(Over(Entry(m + 1, x), f), d, m + 1, J)
         /\ Extends(f, Over(Entry(m + 1, x), f), m)
         /\ Over(Entry(m + 1, x), f)[m + 1] = x
         /\ m + 1 \in DOMAIN Over(Entry(m + 1, x), f)
<1> DEFINE g == Over(Entry(m + 1, x), f)
<1>1. m \in Nat \cup {-1} /\ m + 1 \in Nat
  BY DEF Files
<1>2. DOMAIN g = {m + 1} \cup DOMAIN f /\ g[m + 1] = x
  <2>1. DOMAIN g = {m + 1} \cup DOMAIN f
    BY EntryDomain
  <2>2. g[m + 1] = x
    BY EntryNew
  <2>3. QED
    BY <2>1, <2>2
<1>3. m + 1 \notin DOMAIN f /\ m + 1 \notin DOMAIN d
  BY <1>1 DEF Files
<1>4. \A s \in DOMAIN f : g[s] = f[s]
  BY <1>3, EntryOld
<1> HIDE DEF g
<1>5. Seq(K) \subseteq Seq(J)
  OBVIOUS
<1>6. Extends(f, g, m)
  BY <1>1, <1>2, <1>4 DEF Extends
<1>7. 0..m + 1 = {m + 1} \cup (0..m) /\ 1..m \subseteq 1..m + 1
  BY <1>1
<1>8. \A s \in DOMAIN g : g[s] \in Seq(J)
  BY <1>2, <1>4, <1>5 DEF Files
<1>9. Files(g, d, m + 1, J)
  BY <1>1, <1>2, <1>7, <1>8 DEF Files
<1>10. QED
  BY <1>2, <1>6, <1>9 DEF g

\* One more invocation.
LEMMA FilesDelta ==
  ASSUME NEW f, NEW d, NEW m \in Nat, NEW K, Files(f, d, m, K), NEW J, K \subseteq J, NEW x \in J
  PROVE  /\ Files(f, Over(Entry(m + 1, x), d), m + 1, J)
         /\ Extends(d, Over(Entry(m + 1, x), d), m)
         /\ Over(Entry(m + 1, x), d)[m + 1] = x
         /\ m + 1 \notin DOMAIN f
<1> DEFINE e == Over(Entry(m + 1, x), d)
<1>1. m + 1 \in Nat
  OBVIOUS
<1>2. DOMAIN e = {m + 1} \cup DOMAIN d /\ e[m + 1] = x
  <2>1. DOMAIN e = {m + 1} \cup DOMAIN d
    BY EntryDomain
  <2>2. e[m + 1] = x
    BY EntryNew
  <2>3. QED
    BY <2>1, <2>2
<1>3. m + 1 \notin DOMAIN f /\ m + 1 \notin DOMAIN d
  BY <1>1 DEF Files
<1>4. \A s \in DOMAIN d : e[s] = d[s]
  BY <1>3, EntryOld
<1> HIDE DEF e
<1>5. Seq(K) \subseteq Seq(J)
  OBVIOUS
<1>6. Extends(d, e, m)
  BY <1>1, <1>2, <1>4 DEF Extends
<1>7. 0..m + 1 = {m + 1} \cup (0..m) /\ 1..m + 1 = {m + 1} \cup (1..m)
  BY <1>1
<1>8. \A s \in DOMAIN e : e[s] \in J
  BY <1>2, <1>4 DEF Files
<1>9. Files(f, e, m + 1, J)
  BY <1>1, <1>2, <1>5, <1>7, <1>8 DEF Files
<1>10. QED
  BY <1>2, <1>3, <1>6, <1>9 DEF e

LEMMA ExtendsSelf ==
  ASSUME NEW f, NEW m
  PROVE  Extends(f, f, m)
BY DEF Extends

\* More messages may come.
LEMMA FilesMore ==
  ASSUME NEW f, NEW d, NEW m, NEW K, Files(f, d, m, K), NEW J, K \subseteq J
  PROVE  Files(f, d, m, J)
<1>1. Seq(K) \subseteq Seq(J)
  OBVIOUS
<1>2. QED
  BY <1>1 DEF Files

------------------------------------------------------------------------------
(* What is written only adds to the history. *)

\* Each object has the files of its versions, of which there are fewer than of
\* the context.
FilesInv ==
  /\ fullSave = [o \in Objects |-> fullSave[o]]
  /\ delta = [o \in Objects |-> delta[o]]
  /\ \A o \in Objects : /\ metadata[o] \in -1..version - 1
                        /\ Files(fullSave[o], delta[o], metadata[o], 1..version)

\* The step adds rows of new versions.
Grows ==
  /\ version <= version'
  /\ Range(history) \subseteq Range(history')
  /\ \A row \in Range(history') \ Range(history) : version < row.contextVersion

\* The step adds files of new versions of objects.
FilesGrow ==
  \A o \in Objects : /\ Extends(fullSave[o], fullSave'[o], metadata[o])
                     /\ Extends(delta[o], delta'[o], metadata[o])

LEMMA RowsKept ==
  RowsInv /\ RowsInv' /\ Grows =>
    \A c \in 1..version :
      /\ VersionsAt(c)' = VersionsAt(c)
      /\ IsRestorePoint(c)' <=> IsRestorePoint(c)
      /\ IsRestorePoint(c) => RestoredVersion(c)' = RestoredVersion(c)
      /\ Before(c)' = Before(c)
<1> SUFFICES ASSUME RowsInv, RowsInv', Grows, NEW c \in 1..version
             PROVE  /\ VersionsAt(c)' = VersionsAt(c)
                    /\ IsRestorePoint(c)' <=> IsRestorePoint(c)
                    /\ IsRestorePoint(c) => RestoredVersion(c)' = RestoredVersion(c)
                    /\ Before(c)' = Before(c)
  OBVIOUS
<1>1. RowFacts
  BY RowsSay
<1>2. RowFacts'
  BY RowsSay, PTL
<1>3. c \in Int /\ c <= version /\ c \in 1..version'
  BY DEF RowsInv, Grows
<1>4. \A row \in Range(history) : row.contextVersion = c <=>
         row \in Range(history)' /\ row.contextVersion = c
  BY DEF Grows
<1>5. \A row \in Range(history)' : row.contextVersion = c => row \in Range(history)
  <2> SUFFICES ASSUME NEW row \in Range(history'), row.contextVersion = c,
                      row \notin Range(history)
               PROVE  FALSE
    OBVIOUS
  <2>1. version < c
    BY DEF Grows
  <2>2. QED
    BY <2>1, <1>3 DEF RowsInv
<1>6. DOMAIN VersionsAt(c)' = DOMAIN VersionsAt(c)
  <2>1. \A o : o \in DOMAIN VersionsAt(c) <=> \E row \in Range(history) :
                 row.contextVersion = c /\ row.object = o /\ o # Context
    BY <1>1 DEF RowFacts
  <2>2. \A o : o \in DOMAIN VersionsAt(c)' <=> \E row \in Range(history)' :
                 row.contextVersion = c /\ row.object = o /\ o # Context
    BY <1>2, <1>3 DEF RowFacts
  <2>3. \A o : o \in DOMAIN VersionsAt(c)' <=> o \in DOMAIN VersionsAt(c)
    BY <2>1, <2>2, <1>4, <1>5, Zenon
  <2>4. QED
    BY <2>3
<1>7. ASSUME NEW o \in DOMAIN VersionsAt(c)
      PROVE  VersionsAt(c)'[o] = VersionsAt(c)[o]
  <2>1. PICK row \in Range(history) : row.contextVersion = c /\ row.object = o /\ o # Context
    BY <1>1 DEF RowFacts
  <2>2. VersionsAt(c)[o] = row.objectVersion
    BY <2>1, <1>1 DEF RowFacts
  <2>3. row \in Range(history)'
    BY <2>1, <1>4
  <2>4. VersionsAt(c)'[o] = row.objectVersion
    BY <2>1, <2>3, <1>2, <1>3 DEF RowFacts
  <2>5. QED
    BY <2>2, <2>4
<1>8. VersionsAt(c) = [o \in DOMAIN VersionsAt(c) |-> VersionsAt(c)[o]]
  BY <1>1 DEF RowFacts
<1>9. VersionsAt(c)' = [o \in DOMAIN VersionsAt(c)' |-> VersionsAt(c)'[o]]
  BY <1>2, <1>3 DEF RowFacts
<1>10. VersionsAt(c)' = VersionsAt(c)
  BY <1>6, <1>7, <1>8, <1>9
<1>11. IsRestorePoint(c) <=> \E row \in Range(history) :
                                row.contextVersion = c /\ row.object = Context
  BY <1>1 DEF RowFacts
<1>12. IsRestorePoint(c)' <=> \E row \in Range(history)' :
                                row.contextVersion = c /\ row.object = Context
  BY <1>2, <1>3 DEF RowFacts
<1>13. IsRestorePoint(c)' <=> IsRestorePoint(c)
  BY <1>4, <1>5, <1>11, <1>12, Zenon
<1>14. ASSUME IsRestorePoint(c)
       PROVE  RestoredVersion(c)' = RestoredVersion(c)
  <2>1. PICK row \in Range(history) : row.contextVersion = c /\ row.object = Context
    BY <1>11, <1>14
  <2>2. RestoredVersion(c) = row.objectVersion
    BY <2>1, <1>1 DEF RowFacts
  <2>3. row \in Range(history)'
    BY <2>1, <1>4
  <2>4. RestoredVersion(c)' = row.objectVersion
    BY <2>1, <2>3, <1>2, <1>3 DEF RowFacts
  <2>5. QED
    BY <2>2, <2>4
<1>15. Before(c)' = Before(c)
  BY <1>13, <1>14 DEF Before
<1>16. QED
  BY <1>10, <1>13, <1>14, <1>15

LEMMA FoundKept ==
  RowsInv /\ RowsInv' /\ Grows => \A v \in -1..version : Found(v)' = Found(v)
<1> SUFFICES ASSUME RowsInv, RowsInv', Grows
             PROVE  \A v \in -1..version : Found(v)' = Found(v)
  OBVIOUS
<1>1. GoesBack /\ FoundEquation
  BY RowsGoBack, FoundIs
<1>2. GoesBack' /\ FoundEquation'
  BY RowsGoBack, FoundIs, PTL
<1>3. version \in Nat /\ version' \in Nat /\ version <= version'
  BY DEF RowsInv, Grows
<1> DEFINE D == {v \in Nat : v <= version /\ Found(v)' # Found(v)}
<1>4. \A v \in -1..version : v < 1 => Found(v)' = Found(v)
  <2>1. \A v \in -1..version : v < 1 => Found(v) = NotFound
    BY <1>1 DEF FoundEquation
  <2>2. \A v \in -1..version' : v < 1 => Found(v)' = NotFound
    BY <1>2 DEF FoundEquation, NotFound
  <2>3. \A v \in -1..version : v \in -1..version'
    BY <1>3
  <2>4. QED
    BY <2>1, <2>2, <2>3
<1>5. D = {}
  <2> SUFFICES ASSUME D # {} PROVE FALSE
    OBVIOUS
  <2>1. PICK v \in D : \A u \in D : v <= u
    BY Least
  <2>2. v \in Nat /\ v <= version /\ Found(v)' # Found(v)
    OBVIOUS
  <2>3. v \in 1..version
    BY <2>2, <1>3, <1>4
  <2>4. PICK b \in -1..v - 1 : b = Before(v)
    BY <2>3, <1>1 DEF GoesBack
  <2>5. Before(v)' = Before(v) /\ VersionsAt(v)' = VersionsAt(v)
    BY <2>3, RowsKept
  <2>6. b \in -1..version /\ b \in -1..version' /\ v \in 1..version'
    BY <2>3, <2>4, <1>3
  <2>7. Found(v) = Over(VersionsAt(v), Found(b))
    BY <2>3, <2>4, <2>6, <1>1 DEF FoundEquation
  <2>8. Found(v)' = Over(VersionsAt(v)', Found(b)')
    BY <2>4, <2>5, <2>6, <1>2 DEF FoundEquation
  <2>9. Found(b)' = Found(b)
    <3>1. CASE b < 1
      BY <3>1, <2>6, <1>4
    <3>2. CASE b >= 1
      <4>1. b \in Nat /\ b <= version /\ ~(v <= b)
        BY <3>2, <2>3, <2>4, <1>3
      <4>2. b \notin D
        BY <4>1, <2>1
      <4>3. QED
        BY <4>1, <4>2
    <3>3. QED
      BY <3>1, <3>2, <2>4
  <2>10. QED
    BY <2>2, <2>5, <2>7, <2>8, <2>9
<1>6. ASSUME NEW v \in -1..version PROVE Found(v)' = Found(v)
  <2>1. CASE v < 1
    BY <2>1, <1>4
  <2>2. CASE v >= 1
    BY <2>2, <1>3, <1>5
  <2>3. QED
    BY <2>1, <2>2
<1>7. QED
  BY <1>6

\* What the scan returns is stored.
LEMMA FoundStored ==
  RowsInv => \A v \in -1..version :
               /\ DOMAIN Found(v) \subseteq Objects
               /\ \A o \in DOMAIN Found(v) : Found(v)[o] \in 0..metadata[o]
<1> SUFFICES ASSUME RowsInv
             PROVE  \A v \in -1..version :
               /\ DOMAIN Found(v) \subseteq Objects
               /\ \A o \in DOMAIN Found(v) : Found(v)[o] \in 0..metadata[o]
  OBVIOUS
<1>1. GoesBack /\ FoundEquation /\ RowFacts
  BY RowsGoBack, FoundIs, RowsSay
<1>2. version \in Nat
  BY DEF RowsInv
<1> DEFINE OK(v) == /\ DOMAIN Found(v) \subseteq Objects
                    /\ \A o \in DOMAIN Found(v) : Found(v)[o] \in 0..metadata[o]
           D == {v \in Nat : v <= version /\ ~OK(v)}
<1>3. \A v \in -1..version : v < 1 => OK(v)
  <2>1. \A v \in -1..version : v < 1 => Found(v) = NotFound
    BY <1>1 DEF FoundEquation
  <2>2. DOMAIN NotFound = {}
    BY DEF NotFound
  <2>3. QED
    BY <2>1, <2>2
<1>4. D = {}
  <2> SUFFICES ASSUME D # {} PROVE FALSE
    OBVIOUS
  <2> HIDE DEF OK
  <2>1. PICK v \in D : \A u \in D : v <= u
    BY Least
  <2>2. v \in Nat /\ v <= version /\ ~OK(v)
    OBVIOUS
  <2>3. v \in 1..version
    BY <2>2, <1>2, <1>3
  <2>4. PICK b \in -1..v - 1 : b = Before(v)
    BY <2>3, <1>1 DEF GoesBack
  <2>5. b \in -1..version
    BY <2>3, <2>4, <1>2
  <2>6. Found(v) = Over(VersionsAt(v), Found(b))
    BY <2>3, <2>4, <2>5, <1>1 DEF FoundEquation
  <2>7. OK(b)
    <3>1. CASE b < 1
      BY <3>1, <2>5, <1>3
    <3>2. CASE b >= 1
      <4>1. b \in Nat /\ b <= version /\ ~(v <= b)
        BY <3>2, <2>3, <2>4, <1>2
      <4>2. b \notin D
        BY <4>1, <2>1
      <4>3. QED
        BY <4>1, <4>2
    <3>3. QED
      BY <3>1, <3>2, <2>4
  <2>8. ASSUME NEW o \in DOMAIN VersionsAt(v)
        PROVE  o \in Objects /\ VersionsAt(v)[o] \in 0..metadata[o]
    <3>1. PICK row \in Range(history) : row.contextVersion = v /\ row.object = o /\ o # Context
      BY <2>3, <1>1 DEF RowFacts
    <3>2. VersionsAt(v)[o] = row.objectVersion
      BY <3>1, <2>3, <1>1 DEF RowFacts
    <3>3. row \in AnyRow
      BY RangeIs DEF RowsInv
    <3>4. row.objectVersion \in 0..metadata[row.object]
      BY <3>1 DEF RowsInv, RowOK
    <3>5. QED
      BY <3>1, <3>2, <3>3, <3>4 DEF AnyRow
  <2>9. DOMAIN Found(v) = DOMAIN VersionsAt(v) \cup DOMAIN Found(b)
    BY <2>6, OverDomain
  <2>10. ASSUME NEW o \in DOMAIN Found(v)
         PROVE  o \in Objects /\ Found(v)[o] \in 0..metadata[o]
    <3>1. CASE o \in DOMAIN VersionsAt(v)
      <4>1. Found(v)[o] = VersionsAt(v)[o]
        BY <3>1, <2>6, OverFirst
      <4>2. QED
        BY <3>1, <4>1, <2>8
    <3>2. CASE o \notin DOMAIN VersionsAt(v)
      <4>1. o \in DOMAIN Found(b)
        BY <3>2, <2>9
      <4>2. Found(v)[o] = Found(b)[o]
        BY <3>2, <4>1, <2>6, OverElse
      <4>3. QED
        BY <4>1, <4>2, <2>7 DEF OK
    <3>3. QED
      BY <3>1, <3>2
  <2>11. OK(v)
    BY <2>10 DEF OK
  <2>12. QED
    BY <2>2, <2>11
<1>5. ASSUME NEW v \in -1..version PROVE OK(v)
  <2> HIDE DEF OK
  <2>1. CASE v < 1
    BY <2>1, <1>3
  <2>2. CASE v >= 1
    BY <2>2, <1>2, <1>4
  <2>3. QED
    BY <2>1, <2>2
<1>6. QED
  BY <1>5

\* What is stored plays back to the same.
LEMMA PlaybackKept ==
  ASSUME FilesInv, FilesGrow, NEW o \in Objects, NEW n \in 0..metadata[o]
  PROVE  Playback(o, n)' = Playback(o, n)
<1>1. Files(fullSave[o], delta[o], metadata[o], 1..version)
  BY DEF FilesInv
<1>2. Extends(fullSave[o], fullSave'[o], metadata[o]) /\ Extends(delta[o], delta'[o], metadata[o])
  BY DEF FilesGrow
<1>3. Play(fullSave'[o], delta'[o], n) = Play(fullSave[o], delta[o], n)
  BY <1>1, <1>2, PlayKept
<1>4. Playback(o, n) = Play(fullSave[o], delta[o], n)
  BY PlaybackIs
<1>5. Playback(o, n)' = Play(fullSave'[o], delta'[o], n)
  BY DEF Playback, Play, Below, Since
<1>6. QED
  BY <1>3, <1>4, <1>5

LEMMA RestoredKept ==
  RowsInv /\ RowsInv' /\ FilesInv /\ Grows /\ FilesGrow =>
    \A v \in -1..version : Restored(v)' = Restored(v)
<1> SUFFICES ASSUME RowsInv, RowsInv', FilesInv, Grows, FilesGrow, NEW v \in -1..version
             PROVE  Restored(v)' = Restored(v)
  OBVIOUS
<1>1. Found(v)' = Found(v)
  BY FoundKept
<1>2. ASSUME NEW o \in DOMAIN Found(v)
      PROVE  Playback(o, Found(v)[o])' = Playback(o, Found(v)[o])
  <2>1. PICK n \in 0..metadata[o] : n = Found(v)[o]
    BY FoundStored
  <2>2. o \in Objects
    BY FoundStored
  <2>3. Found(v)'[o] = n
    BY <1>1, <2>1
  <2>4. Playback(o, n)' = Playback(o, n)
    BY <2>2, PlaybackKept
  <2>5. QED
    BY <2>1, <2>3, <2>4
<1>3. QED
  BY <1>1, <1>2 DEF Restored

------------------------------------------------------------------------------
(* What each operation logs, for all values of the constants. *)

\* r is an instance of an object of version m.
InstanceOf(r, m) == r = [version |-> m, content |-> r.content]

\* An instance has the version of its stored object.
InstanceInv ==
  /\ registered = [o \in Objects |-> registered[o]]
  /\ \A o \in Objects : -1 <= metadata[o]
  /\ \A o \in Objects : registered[o] = nil \/ InstanceOf(registered[o], metadata[o])

\* The cursor of a sequence of undo and redo is on a past version.
CursorInv ==
  /\ cursor \in Int /\ -1 <= cursor /\ firstUndoVersion \in Int
  /\ RedoComesBack

\* One row, for a new version of o.
LogsOne(o) ==
  /\ version' = version + 1
  /\ history' \in Seq(AnyRow)
  /\ Range(history') = Range(history) \cup {LogRow(o, metadata[o] + 1, version + 1)}
  /\ metadata' = [metadata EXCEPT ![o] = metadata[o] + 1]
  /\ raised' = raised

\* Two rows, for the first two versions of o.
LogsTwo(o) ==
  /\ metadata[o] = -1
  /\ version' = version + 2
  /\ history' \in Seq(AnyRow)
  /\ Range(history') = Range(history) \cup {LogRow(o, 0, version + 1), LogRow(o, 1, version + 2)}
  /\ metadata' = [metadata EXCEPT ![o] = 1]
  /\ raised' = raised

\* The objects a restore to version v changes.
Stale(v) == {o \in DOMAIN Found(v) : Found(v)[o] # metadata[o]}

\* A row for each object that changes, and one for the restore point.
LogsRestore(v) ==
  /\ version' = version + 1
  /\ history' \in Seq(AnyRow)
  /\ Range(history') = Range(history) \cup {LogRow(o, metadata[o] + 1, version + 1) : o \in Stale(v)}
                         \cup {LogRow(Context, v, version + 1)}
  /\ metadata' = [o \in Objects |-> IF o \in Stale(v) THEN metadata[o] + 1 ELSE metadata[o]]
  /\ raised' = raised

\* Nothing, at the version or at one that a misread restore point leaves.
LogsNothing ==
  /\ \/ version' = version /\ raised' = raised
     \/ version' = version + 1 /\ raised'
  /\ history' = history
  /\ metadata' = metadata

LEMMA RowIs ==
  ASSUME NEW o \in Objects \cup {Context}, NEW v \in Int, NEW c \in Int
  PROVE  /\ LogRow(o, v, c) \in AnyRow
         /\ LogRow(o, v, c).object = o
         /\ LogRow(o, v, c).objectVersion = v
         /\ LogRow(o, v, c).contextVersion = c
BY DEF LogRow, AnyRow

LEMMA CurrentIs == InstanceInv => \A o \in Objects : CurrentVersion(o) = metadata[o]
<1> SUFFICES ASSUME InstanceInv, NEW o \in Objects, registered[o] # nil
             PROVE  registered[o].version = metadata[o]
  BY DEF CurrentVersion
<1>1. registered[o] = [version |-> metadata[o], content |-> registered[o].content]
  BY DEF InstanceInv, InstanceOf
<1>2. QED
  BY <1>1

\* What the rows of a step have to be like.
LEMMA RowsAdded ==
  ASSUME RowsInv, NEW R,
         version' \in Nat, version <= version',
         metadata' \in [Objects -> Int], \A o \in Objects : metadata[o] <= metadata'[o],
         history' \in Seq(AnyRow), Range(history') = Range(history) \cup R, R \subseteq AnyRow,
         \A row \in R : RowOK(row)' /\ version < row.contextVersion,
         \A r1, r2 \in R : r1.contextVersion = r2.contextVersion /\ r1.object = r2.object => r1 = r2,
         raised' \/ (version' = version /\ raised' = raised)
           \/ \E row \in R : row.contextVersion = version'
  PROVE  RowsInv' /\ Grows
<1>1. version \in Nat
  BY DEF RowsInv
<1>2. ASSUME NEW row \in Range(history)
      PROVE  RowOK(row)' /\ row.contextVersion <= version
  <2>1. row \in AnyRow /\ RowOK(row)
    BY RangeIs DEF RowsInv
  <2>2. row.contextVersion \in 1..version'
    BY <2>1, <1>1 DEF RowOK
  <2>3. ASSUME row.object # Context PROVE row.objectVersion \in 0..metadata'[row.object]
    <3>1. row.object \in Objects /\ metadata[row.object] \in Int /\ metadata'[row.object] \in Int
      BY <2>1, <2>3 DEF AnyRow, RowsInv
    <3>2. metadata[row.object] <= metadata'[row.object]
      BY <3>1
    <3>3. row.objectVersion \in 0..metadata[row.object]
      BY <2>1, <2>3 DEF RowOK
    <3>4. QED
      BY <3>1, <3>2, <3>3
  <2>4. row.object = Context => row.objectVersion \in FirstRestored..row.contextVersion - 1
    BY <2>1 DEF RowOK
  <2>5. RowOK(row)'
    BY <2>2, <2>3, <2>4 DEF RowOK, FirstRestored
  <2>6. QED
    BY <2>1, <2>5 DEF RowOK
<1>3. \A row \in Range(history') : RowOK(row)'
  BY <1>2
<1>4. ASSUME NEW r1 \in Range(history'), NEW r2 \in Range(history'),
             r1.contextVersion = r2.contextVersion, r1.object = r2.object
      PROVE  r1 = r2
  <2>1. CASE r1 \in R /\ r2 \in R
    BY <2>1, <1>4
  <2>2. CASE r1 \notin R /\ r2 \notin R
    BY <2>2, <1>4 DEF RowsInv
  <2>3. ASSUME NEW r \in R, NEW s \in Range(history)
        PROVE  r.contextVersion # s.contextVersion
    <3>1. version < r.contextVersion /\ s.contextVersion <= version
      BY <1>2
    <3>2. r.contextVersion \in Int /\ s.contextVersion \in Int
      <4>1. r \in AnyRow /\ s \in AnyRow
        BY RangeIs DEF RowsInv
      <4>2. QED
        BY <4>1 DEF AnyRow
    <3>3. QED
      BY <3>1, <3>2, <1>1
  <2>4. QED
    BY <2>1, <2>2, <2>3, <1>4
<1>5. ~raised' /\ version' > 0 => \E row \in Range(history') : row.contextVersion = version'
  BY DEF RowsInv
<1>6. RowsInv'
  BY <1>3, <1>4, <1>5 DEF RowsInv
<1>7. Grows
  BY DEF Grows
<1>8. QED
  BY <1>6, <1>7

LEMMA OneRows ==
  ASSUME RowsInv, NEW o \in Objects, LogsOne(o), -1 <= metadata[o]
  PROVE  RowsInv' /\ Grows
<1>0. PICK r : r = LogRow(o, metadata[o] + 1, version + 1)
  OBVIOUS
<1>1. version \in Nat /\ metadata \in [Objects -> Int] /\ metadata[o] \in Int
  BY DEF RowsInv
<1>2. /\ r \in AnyRow /\ r.object = o /\ r.objectVersion = metadata[o] + 1
      /\ r.contextVersion = version + 1
  BY <1>0, <1>1, RowIs
<1>3. metadata' \in [Objects -> Int] /\ metadata'[o] = metadata[o] + 1
      /\ \A q \in Objects : metadata[q] <= metadata'[q]
  BY <1>1 DEF LogsOne
<1>4. o # Context
  BY NamesAssumption
<1>5. RowOK(r)'
  BY <1>1, <1>2, <1>3, <1>4 DEF RowOK, LogsOne
<1>6. Range(history') = Range(history) \cup {r}
  BY <1>0 DEF LogsOne
<1>7. PICK R : R = {r}
  OBVIOUS
<1>8. /\ R \subseteq AnyRow /\ \A row \in R : RowOK(row)' /\ version < row.contextVersion
      /\ \A r1, r2 \in R : r1 = r2
  BY <1>1, <1>2, <1>5, <1>7
<1>9. version' = version + 1 /\ version' \in Nat /\ version <= version' /\ history' \in Seq(AnyRow)
  BY <1>1 DEF LogsOne
<1>10. \E row \in R : row.contextVersion = version'
  BY <1>2, <1>7, <1>9
<1>11. Range(history') = Range(history) \cup R
  BY <1>6, <1>7
<1>12. QED
  BY <1>3, <1>8, <1>9, <1>10, <1>11, RowsAdded

LEMMA TwoRows ==
  ASSUME RowsInv, NEW o \in Objects, LogsTwo(o)
  PROVE  RowsInv' /\ Grows
<1>0. PICK r, s : r = LogRow(o, 0, version + 1) /\ s = LogRow(o, 1, version + 2)
  OBVIOUS
<1>1. version \in Nat /\ metadata \in [Objects -> Int] /\ metadata[o] \in Int
  BY DEF RowsInv
<1>2. /\ r \in AnyRow /\ r.object = o /\ r.objectVersion = 0 /\ r.contextVersion = version + 1
      /\ s \in AnyRow /\ s.object = o /\ s.objectVersion = 1 /\ s.contextVersion = version + 2
  BY <1>0, <1>1, RowIs
<1>3. metadata' \in [Objects -> Int] /\ metadata'[o] = 1
      /\ \A q \in Objects : metadata[q] <= metadata'[q]
  BY <1>1 DEF LogsTwo
<1>4. o # Context
  BY NamesAssumption
<1>5. RowOK(r)' /\ RowOK(s)'
  BY <1>1, <1>2, <1>3, <1>4 DEF RowOK, LogsTwo
<1>6. PICK R : R = {r, s}
  OBVIOUS
<1>7. Range(history') = Range(history) \cup R
  BY <1>0, <1>6 DEF LogsTwo
<1>8. /\ R \subseteq AnyRow /\ \A row \in R : RowOK(row)' /\ version < row.contextVersion
      /\ \A r1, r2 \in R : r1.contextVersion = r2.contextVersion => r1 = r2
  BY <1>1, <1>2, <1>5, <1>6
<1>9. version' = version + 2 /\ version' \in Nat /\ version <= version' /\ history' \in Seq(AnyRow)
  BY <1>1 DEF LogsTwo
<1>10. \E row \in R : row.contextVersion = version'
  BY <1>2, <1>6, <1>9
<1>11. QED
  BY <1>3, <1>7, <1>8, <1>9, <1>10, RowsAdded

LEMMA RestoreRows ==
  ASSUME RowsInv, NEW v \in FirstRestored..version - 1, LogsRestore(v),
         \A o \in Objects : -1 <= metadata[o]
  PROVE  RowsInv' /\ Grows
<1>0. PICK R, s : /\ R = {LogRow(o, metadata[o] + 1, version + 1) : o \in Stale(v)}
                 /\ s = LogRow(Context, v, version + 1)
  OBVIOUS
<1>1. version \in Nat /\ metadata \in [Objects -> Int] /\ FirstRestored \in {-1, 0}
  BY DEF RowsInv, FirstRestored
<1>2. v \in -1..version /\ v \in Int /\ v <= version - 1
  BY <1>1
<1>3. Stale(v) \subseteq Objects
  BY <1>2, FoundStored DEF Stale
<1>4. s \in AnyRow /\ s.object = Context /\ s.objectVersion = v /\ s.contextVersion = version + 1
  <2>1. Context \in Objects \cup {Context} /\ v \in Int /\ version + 1 \in Int
    BY <1>1, <1>2
  <2>2. /\ LogRow(Context, v, version + 1) \in AnyRow
        /\ LogRow(Context, v, version + 1).object = Context
        /\ LogRow(Context, v, version + 1).objectVersion = v
        /\ LogRow(Context, v, version + 1).contextVersion = version + 1
    BY <2>1, RowIs
  <2>3. s = LogRow(Context, v, version + 1)
    BY <1>0
  <2>4. QED
    BY <2>2, <2>3
<1>5. /\ metadata' \in [Objects -> Int]
      /\ \A q \in Objects : metadata[q] <= metadata'[q]
      /\ \A q \in Stale(v) : metadata'[q] = metadata[q] + 1
  BY <1>1, <1>3 DEF LogsRestore
<1>6. \A row \in R : \E o \in Stale(v) : row = LogRow(o, metadata[o] + 1, version + 1)
  BY <1>0
<1>7. version' = version + 1 /\ version' \in Nat /\ version <= version' /\ history' \in Seq(AnyRow)
  BY <1>1 DEF LogsRestore
<1>8. Range(history') = Range(history) \cup (R \cup {s})
  BY <1>0 DEF LogsRestore
<1>9. ASSUME NEW row \in R
      PROVE  /\ row \in AnyRow /\ row.contextVersion = version + 1 /\ RowOK(row)'
             /\ row.object # Context
             /\ row = LogRow(row.object, metadata[row.object] + 1, version + 1)
  <2>1. PICK o \in Stale(v) : row = LogRow(o, metadata[o] + 1, version + 1)
    BY <1>6
  <2>2. o \in Objects /\ metadata[o] + 1 \in Int /\ version + 1 \in Int /\ -1 <= metadata[o]
    BY <1>1, <1>3
  <2>3. /\ row \in AnyRow /\ row.object = o /\ row.objectVersion = metadata[o] + 1
        /\ row.contextVersion = version + 1
    BY <2>1, <2>2, RowIs
  <2>4. o # Context
    BY <2>2, NamesAssumption
  <2>5. RowOK(row)'
    BY <2>2, <2>3, <2>4, <1>1, <1>5, <1>7 DEF RowOK
  <2>6. QED
    BY <2>1, <2>3, <2>4, <2>5
<1>10. RowOK(s)'
  BY <1>1, <1>2, <1>4, <1>7 DEF RowOK, FirstRestored
<1>11. PICK Q : Q = R \cup {s}
  OBVIOUS
<1>12. \A row \in Q : row \in AnyRow /\ RowOK(row)' /\ version < row.contextVersion
  <2> TAKE row \in Q
  <2>1. row \in AnyRow /\ row.contextVersion = version + 1
    BY <1>4, <1>9, <1>11
  <2>2. RowOK(row)'
    BY <1>9, <1>10, <1>11
  <2>3. QED
    BY <2>1, <2>2, <1>1
<1>13. \A r1, r2 \in Q :
         r1.contextVersion = r2.contextVersion /\ r1.object = r2.object => r1 = r2
  BY <1>4, <1>9, <1>11
<1>14. \E row \in Q : row.contextVersion = version'
  BY <1>4, <1>7, <1>11
<1>15. Range(history') = Range(history) \cup Q /\ Q \subseteq AnyRow
  BY <1>8, <1>11, <1>12
<1>16. QED
  BY <1>5, <1>7, <1>12, <1>13, <1>14, <1>15, RowsAdded

LEMMA NoRows ==
  ASSUME RowsInv, LogsNothing
  PROVE  RowsInv' /\ Grows
<1>1. version \in Nat /\ metadata \in [Objects -> Int] /\ history \in Seq(AnyRow)
  BY DEF RowsInv
<1>2. version' \in Nat /\ version <= version'
  BY <1>1 DEF LogsNothing
<1>3. metadata' \in [Objects -> Int] /\ \A q \in Objects : metadata[q] <= metadata'[q]
  BY <1>1 DEF LogsNothing
<1>4. PICK R : R = {}
  OBVIOUS
<1>5. history' \in Seq(AnyRow) /\ Range(history') = Range(history) \cup R /\ R \subseteq AnyRow
  BY <1>1, <1>4 DEF LogsNothing
<1>6. raised' \/ (version' = version /\ raised' = raised)
  BY DEF LogsNothing
<1>7. /\ \A row \in R : RowOK(row)' /\ version < row.contextVersion
      /\ \A r1, r2 \in R : r1.contextVersion = r2.contextVersion /\ r1.object = r2.object => r1 = r2
  BY <1>4
<1>8. raised' \/ (version' = version /\ raised' = raised)
        \/ \E row \in R : row.contextVersion = version'
  BY <1>6
<1>9. QED
  BY <1>2, <1>3, <1>5, <1>7, <1>8, RowsAdded

LEMMA LoadedIs == InstanceInv => \A o \in Loaded : registered[o].version = metadata[o]
BY CurrentIs DEF CurrentVersion, Loaded

\* Only these instances change, and only the version of o.
LEMMA InstancesChanged ==
  ASSUME InstanceInv, NEW o \in Objects, NEW m \in Int, -1 <= m, metadata \in [Objects -> Int],
         metadata' = [metadata EXCEPT ![o] = m],
         registered' = [q \in Objects |-> registered'[q]],
         InstanceOf(registered'[o], m),
         \A q \in Objects \ {o} : \/ registered'[q] \in {registered[q], nil}
                                  \/ InstanceOf(registered'[q], metadata[q])
  PROVE  InstanceInv'
<1>1. metadata'[o] = m /\ \A q \in Objects \ {o} : metadata'[q] = metadata[q]
  OBVIOUS
<1>2. ASSUME NEW q \in Objects
      PROVE  -1 <= metadata'[q] /\ (registered'[q] = nil \/ InstanceOf(registered'[q], metadata'[q]))
  <2>1. CASE q = o
    BY <2>1, <1>1
  <2>2. CASE q # o
    <3>1. metadata'[q] = metadata[q] /\ -1 <= metadata[q]
      BY <2>2, <1>1 DEF InstanceInv
    <3>2. registered[q] = nil \/ InstanceOf(registered[q], metadata[q])
      BY DEF InstanceInv
    <3>3. QED
      BY <2>2, <3>1, <3>2
  <2>3. QED
    BY <2>1, <2>2
<1>3. QED
  BY <1>2 DEF InstanceInv, InstanceOf

LEMMA SnapshotLogs ==
  ASSUME RowsInv, InstanceInv, NEW o \in Objects, NEW x,
         Snapshot(o, metadata[o], x), LogRecord(o, metadata[o] + 1), raised' = raised
  PROVE  LogsOne(o) /\ InstanceInv'
<1>1. version \in Nat /\ metadata \in [Objects -> Int] /\ metadata[o] \in Int
      /\ history \in Seq(AnyRow) /\ -1 <= metadata[o]
  BY DEF RowsInv, InstanceInv
<1>2. PICK m : m = metadata[o] + 1
  OBVIOUS
<1>3. m \in Int /\ -1 <= m
  BY <1>1, <1>2
<1>4. PICK r : r = LogRow(o, m, version + 1)
  OBVIOUS
<1>5. r \in AnyRow
  BY <1>1, <1>3, <1>4, RowIs
<1>6. history' = Append(history, r)
  BY <1>2, <1>4 DEF LogRecord
<1>7. history' \in Seq(AnyRow) /\ Range(history') = Range(history) \cup {r}
  BY <1>1, <1>5, <1>6, RangeAppend
<1>8. metadata' = [metadata EXCEPT ![o] = m]
  BY <1>2 DEF Snapshot
<1>9. version' = version + 1
  BY DEF LogRecord
<1>10. LogsOne(o)
  BY <1>2, <1>4, <1>7, <1>8, <1>9 DEF LogsOne
<1>11. registered' = [registered EXCEPT ![o] = [version |-> m, content |-> x]]
  BY <1>2 DEF Snapshot
<1>12. registered = [q \in Objects |-> registered[q]]
  BY DEF InstanceInv
<1>13. registered' = [q \in Objects |-> registered'[q]]
       /\ registered'[o] = [version |-> m, content |-> x]
       /\ \A q \in Objects \ {o} : registered'[q] = registered[q]
  BY <1>11, <1>12
<1>14. InstanceOf(registered'[o], m)
  BY <1>13 DEF InstanceOf
<1>15. InstanceInv'
  BY <1>1, <1>3, <1>8, <1>13, <1>14, InstancesChanged
<1>16. QED
  BY <1>10, <1>15

\* The cursor stays where it is, and the sequence ends.
LEMMA CursorEnds ==
  ASSUME CursorInv, cursor' = cursor, firstUndoVersion' = -1
  PROVE  CursorInv'
BY DEF CursorInv, RedoComesBack

LEMMA CursorStays ==
  ASSUME CursorInv, RowsInv, cursor' = cursor, firstUndoVersion' = firstUndoVersion,
         version' \in Nat, version <= version'
  PROVE  CursorInv'
BY DEF CursorInv, RedoComesBack, RowsInv

LEMMA InsertLogs ==
  ASSUME RowsInv, InstanceInv, CursorInv, NEW o \in Objects, Insert(o)
  PROVE  LogsOne(o) /\ InstanceInv' /\ CursorInv'
<1>1. metadata[o] = -1 /\ raised' = raised
  BY DEF Insert, IsStored
<1>2. Snapshot(o, metadata[o], <<>>) /\ LogRecord(o, metadata[o] + 1)
  BY <1>1 DEF Insert
<1>3. CursorInv'
  BY CursorEnds DEF Insert, LogRecord
<1>4. QED
  BY <1>1, <1>2, <1>3, SnapshotLogs

LEMMA SaveLogs ==
  ASSUME RowsInv, InstanceInv, CursorInv, NEW o \in Objects, NEW edited \in BOOLEAN, Save(o, edited)
  PROVE  LogsOne(o) /\ InstanceInv' /\ CursorInv'
<1>1. registered[o].version = metadata[o] /\ raised' = raised
  BY LoadedIs DEF Save
<1>2. PICK x : x = IF edited THEN Append(registered[o].content, version + 1) ELSE registered[o].content
  OBVIOUS
<1>3. Snapshot(o, metadata[o], x) /\ LogRecord(o, metadata[o] + 1)
  BY <1>1, <1>2 DEF Save
<1>4. CursorInv'
  BY CursorEnds DEF Save, LogRecord
<1>5. QED
  BY <1>1, <1>3, <1>4, SnapshotLogs

LEMMA RestoreObjectLogs ==
  ASSUME RowsInv, InstanceInv, CursorInv, NEW o \in Objects, NEW v \in 0..MaxVersion,
         RestoreObject(o, v)
  PROVE  LogsOne(o) /\ InstanceInv' /\ CursorInv'
<1>1. registered[o].version = metadata[o] /\ raised' = raised
  BY LoadedIs DEF RestoreObject
<1>2. PICK x : x = Playback(o, v)
  OBVIOUS
<1>3. Snapshot(o, metadata[o], x) /\ LogRecord(o, metadata[o] + 1)
  BY <1>1, <1>2 DEF RestoreObject
<1>4. CursorInv'
  BY CursorEnds DEF RestoreObject, LogRecord
<1>5. QED
  BY <1>1, <1>3, <1>4, SnapshotLogs

\* A message changes the content of the objects in memory only.
LEMMA MessagesKeepVersions ==
  ASSUME InstanceInv, NEW q \in Objects, registered[q] # nil, NEW x,
         NEW r, r = [registered[q] EXCEPT !.content = x]
  PROVE  InstanceOf(r, metadata[q])
<1>1. registered[q] = [version |-> metadata[q], content |-> registered[q].content]
  BY DEF InstanceInv, InstanceOf
<1>2. r = [version |-> metadata[q], content |-> x]
  BY <1>1
<1>3. QED
  BY <1>2 DEF InstanceOf

LEMMA RecordLogs ==
  ASSUME RowsInv, InstanceInv, CursorInv, NEW o \in Loaded, NEW p \in Loaded \cup {nil}, Record(o, p)
  PROVE  (LogsOne(o) \/ LogsTwo(o)) /\ InstanceInv' /\ CursorInv'
<1>1. version \in Nat /\ metadata \in [Objects -> Int] /\ o \in Objects /\ metadata[o] \in Int
      /\ history \in Seq(AnyRow) /\ -1 <= metadata[o]
  BY DEF RowsInv, InstanceInv, Loaded
<1>2. registered[o].version = metadata[o]
  BY LoadedIs
<1>3. PICK n : n = IF metadata[o] = -1 THEN 1 ELSE metadata[o] + 1
  OBVIOUS
<1>4. PICK c : c = version + IF metadata[o] = -1 THEN 2 ELSE 1
  OBVIOUS
<1>5. n \in Int /\ -1 <= n
  BY <1>1, <1>3
<1>6. /\ metadata' = [metadata EXCEPT ![o] = n]
      /\ version' = c
      /\ history' = history \o (IF metadata[o] = -1 THEN <<LogRow(o, 0, c - 1)>> ELSE <<>>)
                            \o <<LogRow(o, n, c)>>
      /\ firstUndoVersion' = -1 /\ cursor' = cursor /\ raised' = raised
      /\ registered' = [q \in Objects |->
           IF q = o THEN [version |-> n, content |-> Append(registered[o].content, c)]
           ELSE IF q = p THEN [registered[q] EXCEPT !.content = Append(@, c)]
           ELSE registered[q]]
  BY <1>2, <1>3, <1>4 DEF Record
<1>7. LogsOne(o) \/ LogsTwo(o)
  <2>1. CASE metadata[o] = -1
    <3>1. n = 1 /\ c = version + 2 /\ c - 1 = version + 1
      BY <2>1, <1>1, <1>3, <1>4
    <3>2. PICK r, t : r = LogRow(o, 0, version + 1) /\ t = LogRow(o, 1, version + 2)
      OBVIOUS
    <3>3. r \in AnyRow /\ t \in AnyRow
      BY <3>2, <1>1, RowIs
    <3>4. history' = history \o <<r>> \o <<t>>
      BY <2>1, <3>1, <3>2, <1>6
    <3>5. PICK h : h = Append(history, r)
      OBVIOUS
    <3>6. h \in Seq(AnyRow) /\ Range(h) = Range(history) \cup {r}
      BY <3>3, <3>5, <1>1, RangeAppend
    <3>7. history' \in Seq(AnyRow) /\ Range(history') = Range(history) \cup {r} \cup {t}
      <4>1. h = history \o <<r>>
        BY <3>3, <3>5, <1>1, ConcatOne
      <4>2. h \in Seq(AnyRow) /\ t \in AnyRow
        BY <3>3, <3>6
      <4>3. history' = Append(h, t)
        BY <4>1, <4>2, <3>4, ConcatOne
      <4>4. history' \in Seq(AnyRow) /\ Range(history') = Range(h) \cup {t}
        BY <4>2, <4>3, RangeAppend
      <4>5. QED
        BY <4>4, <3>6
    <3>8. Range(history') = Range(history) \cup {r, t}
      BY <3>7
    <3>9. QED
      BY <2>1, <3>1, <3>2, <3>7, <3>8, <1>6 DEF LogsTwo
  <2>2. CASE metadata[o] # -1
    <3>1. n = metadata[o] + 1 /\ c = version + 1
      BY <2>2, <1>1, <1>3, <1>4
    <3>2. PICK r : r = LogRow(o, metadata[o] + 1, version + 1)
      OBVIOUS
    <3>3. r \in AnyRow
      BY <3>2, <1>1, RowIs
    <3>4. history' = history \o <<>> \o <<r>>
      BY <2>2, <3>1, <3>2, <1>6
    <3>5. history' = Append(history, r)
      BY <3>3, <3>4, <1>1
    <3>6. history' \in Seq(AnyRow) /\ Range(history') = Range(history) \cup {r}
      BY <3>3, <3>5, <1>1, RangeAppend
    <3>7. QED
      BY <3>1, <3>2, <3>6, <1>6 DEF LogsOne
  <2>3. QED
    BY <2>1, <2>2
<1>8. CursorInv'
  BY <1>6, CursorEnds
<1>9. registered' = [q \in Objects |-> registered'[q]]
  BY <1>6
<1>10. InstanceOf(registered'[o], n)
  BY <1>1, <1>6 DEF InstanceOf
<1>11. ASSUME NEW q \in Objects \ {o}
       PROVE  registered'[q] \in {registered[q], nil} \/ InstanceOf(registered'[q], metadata[q])
  <2>1. CASE q = p
    <3>1. registered[q] # nil
      BY <2>1, NamesAssumption DEF Loaded
    <3>2. PICK x : x = Append(registered[q].content, c)
      OBVIOUS
    <3>3. registered'[q] = [registered[q] EXCEPT !.content = x]
      BY <2>1, <3>2, <1>6
    <3>4. QED
      BY <3>1, <3>3, MessagesKeepVersions
  <2>2. CASE q # p
    BY <2>2, <1>6
  <2>3. QED
    BY <2>1, <2>2
<1>12. InstanceInv'
  BY <1>1, <1>5, <1>6, <1>9, <1>10, <1>11, InstancesChanged
<1>13. QED
  BY <1>7, <1>8, <1>12

\* Instances of the same versions, or none.
LEMMA InstancesKept ==
  ASSUME InstanceInv, metadata' = metadata, registered' = [q \in Objects |-> registered'[q]],
         \A q \in Objects : \/ registered'[q] \in {registered[q], nil}
                            \/ InstanceOf(registered'[q], metadata[q])
  PROVE  InstanceInv'
<1>1. ASSUME NEW q \in Objects
      PROVE  -1 <= metadata'[q] /\ (registered'[q] = nil \/ InstanceOf(registered'[q], metadata'[q]))
  BY DEF InstanceInv
<1>2. QED
  BY <1>1 DEF InstanceInv, InstanceOf

LEMMA QuietLogs ==
  ASSUME RowsInv, InstanceInv, CursorInv,
         UNCHANGED <<version, history, stored, undoing, raised>>,
         registered' = [q \in Objects |-> registered'[q]],
         \A q \in Objects : \/ registered'[q] \in {registered[q], nil}
                            \/ InstanceOf(registered'[q], metadata[q])
  PROVE  LogsNothing /\ InstanceInv' /\ CursorInv'
<1>1. version' = version /\ history' = history /\ metadata' = metadata /\ raised' = raised
      /\ cursor' = cursor /\ firstUndoVersion' = firstUndoVersion
  BY DEF stored, undoing
<1>2. LogsNothing
  BY <1>1 DEF LogsNothing
<1>3. InstanceInv'
  BY <1>1, InstancesKept
<1>4. version' \in Nat /\ version <= version'
  BY <1>1 DEF RowsInv
<1>5. CursorInv'
  BY <1>1, <1>4, CursorStays
<1>6. QED
  BY <1>2, <1>3, <1>5

LEMMA IgnoreLogs ==
  ASSUME RowsInv, InstanceInv, CursorInv, NEW o \in Loaded, NEW p \in Loaded \cup {nil}, Ignore(o, p)
  PROVE  LogsNothing /\ InstanceInv' /\ CursorInv'
<1>1. registered' = [q \in Objects |->
         IF q \in {o, p} THEN [registered[q] EXCEPT !.content = Append(@, version + 1)]
         ELSE registered[q]]
  BY DEF Ignore
<1>2. ASSUME NEW q \in Objects
      PROVE  registered'[q] \in {registered[q], nil} \/ InstanceOf(registered'[q], metadata[q])
  <2>1. CASE q \in {o, p}
    <3>1. registered[q] # nil
      BY <2>1, NamesAssumption DEF Loaded
    <3>2. PICK x : x = Append(registered[q].content, version + 1)
      OBVIOUS
    <3>3. registered'[q] = [registered[q] EXCEPT !.content = x]
      BY <2>1, <3>2, <1>1
    <3>4. QED
      BY <3>1, <3>3, MessagesKeepVersions
  <2>2. CASE q \notin {o, p}
    BY <2>2, <1>1
  <2>3. QED
    BY <2>1, <2>2
<1>3. registered' = [q \in Objects |-> registered'[q]]
  BY <1>1
<1>4. UNCHANGED <<version, history, stored, undoing, raised>>
  BY DEF Ignore
<1>5. QED
  BY <1>2, <1>3, <1>4, QuietLogs

LEMMA MemoryLogs ==
  ASSUME RowsInv, InstanceInv, CursorInv, NEW o \in Objects,
         Register(o) \/ Load(o) \/ Unregister(o)
  PROVE  LogsNothing /\ InstanceInv' /\ CursorInv'
<1>1. registered = [q \in Objects |-> registered[q]]
  BY DEF InstanceInv
<1>2. PICK r : /\ registered' = [registered EXCEPT ![o] = r]
               /\ r = nil \/ InstanceOf(r, metadata[o])
  BY DEF Register, Load, Unregister, IsStored, InstanceOf
<1>3. registered' = [q \in Objects |-> registered'[q]]
      /\ \A q \in Objects : registered'[q] = IF q = o THEN r ELSE registered[q]
  BY <1>1, <1>2
<1>4. UNCHANGED <<version, history, stored, undoing, raised>>
  BY DEF Register, Load, Unregister
<1>5. \A q \in Objects : registered'[q] \in {registered[q], nil} \/ InstanceOf(registered'[q], metadata[q])
  BY <1>2, <1>3
<1>6. QED
  BY <1>3, <1>4, <1>5, QuietLogs

\* The latest version is that of the context.
LEMMA LatestIs ==
  ASSUME RowsInv, ~raised
  PROVE  LatestVersion(history) = version
<1> DEFINE S == {0} \cup {row.contextVersion : row \in Range(history)}
<1>1. version \in Nat
  BY DEF RowsInv
<1>2. \A row \in Range(history) : row.contextVersion \in 1..version
  BY DEF RowsInv, RowOK
<1>3. S \in SUBSET (0..version)
  BY <1>1, <1>2
<1>4. version \in S
  BY <1>1 DEF RowsInv
<1>5. LatestVersion(history) = Max(S)
  BY DEF LatestVersion
<1> HIDE DEF S
<1>6. \A x \in S : x <= version
  BY <1>3
<1>7. QED
  BY <1>1, <1>3, <1>4, <1>5, <1>6, MaxUnique

LEMMA RestartLogs ==
  ASSUME RowsInv, InstanceInv, CursorInv, Restart
  PROVE  LogsNothing /\ version' = version /\ InstanceInv' /\ CursorInv'
<1>1. version' = LatestVersion(history) /\ history' = history /\ metadata' = metadata
      /\ raised' = raised /\ ~raised
  BY DEF Restart, Reopen, Observed, stored
<1>2. version' = version
  BY <1>1, LatestIs
<1>3. registered' = [q \in Objects |-> nil]
  BY DEF Restart, Reopen
<1>4. InstanceInv'
  BY <1>1, <1>3, InstancesKept
<1>5. CursorInv'
  BY DEF Restart, Reopen, CursorInv, RedoComesBack
<1>6. QED
  BY <1>1, <1>2, <1>4, <1>5 DEF LogsNothing

\* The sequence of a set has each of its elements.
LEMMA SetToSeqIs ==
  ASSUME NEW S, IsFiniteSet(S)
  PROVE  /\ Cardinality(S) \in Nat
         /\ SetToSeq(S) \in [1..Cardinality(S) -> S]
         /\ \A x \in S : \E i \in 1..Cardinality(S) : SetToSeq(S)[i] = x
<1> DEFINE n == Cardinality(S)
           f == SetToSeq(S)
<1>1. n \in Nat /\ ExistsBijection(1..n, S)
  BY FS_CardinalityType
<1>2. \E g \in [1..n -> S] : IsInjective(g)
  BY <1>1 DEF ExistsBijection, Bijection, Injection, IsInjective
<1>3. f \in [1..n -> S] /\ IsInjective(f)
  BY <1>2 DEF SetToSeq
<1>4. f \in Injection(1..n, S)
  BY <1>3 DEF Injection, IsInjective
<1>5. Cardinality(1..n) = n
  BY <1>1, FS_Interval
<1> HIDE DEF f
<1>6. f \in Surjection(1..n, S)
  BY <1>4, <1>5, FS_Injection
<1>7. \A x \in S : \E i \in 1..n : f[i] = x
  BY <1>6 DEF Surjection
<1>8. QED
  BY <1>1, <1>3, <1>7 DEF f

LEMMA RestoreLogs ==
  ASSUME RowsInv, InstanceInv, NEW v \in FirstRestored..version - 1, RestoreGraph(v)
  PROVE  LogsRestore(v) /\ InstanceInv'
<1>1. version \in Nat /\ metadata \in [Objects -> Int] /\ FirstRestored \in {-1, 0}
      /\ history \in Seq(AnyRow)
  BY DEF RowsInv, FirstRestored
<1>2. v \in -1..version /\ v \in Int
  BY <1>1
<1>3. DOMAIN Found(v) \subseteq Objects
  BY <1>2, FoundStored
<1>4. \A o \in Objects : CurrentVersion(o) = metadata[o]
  BY CurrentIs
<1>5. PICK stale : stale = Stale(v)
  OBVIOUS
<1>6. stale = {o \in DOMAIN Found(v) : Found(v)[o] # CurrentVersion(o)}
  BY <1>3, <1>4, <1>5 DEF Stale
<1>7. stale \subseteq Objects /\ IsFiniteSet(stale)
  <2>1. stale \subseteq Objects
    BY <1>3, <1>6
  <2>2. QED
    BY <2>1, FS_Subset, NamesAssumption
<1>8. PICK next : next = [o \in stale |-> CurrentVersion(o) + 1]
  OBVIOUS
<1>9. DOMAIN next = stale /\ \A o \in stale : next[o] = metadata[o] + 1 /\ next[o] \in Int
  BY <1>1, <1>4, <1>7, <1>8
<1>10. PICK rows : rows = [i \in 1..Cardinality(stale) |->
                 LogRow(SetToSeq(stale)[i], next[SetToSeq(stale)[i]], version + 1)]
  OBVIOUS
<1>11. PICK content : content = [o \in stale |-> Playback(o, Found(v)[o])]
  OBVIOUS
<1>12. /\ registered' = [o \in Objects |->
            IF o \in stale THEN [version |-> next[o], content |-> content[o]]
            ELSE IF o \in DOMAIN Found(v) THEN registered[o]
            ELSE nil]
       /\ metadata' = Over(next, metadata)
       /\ history' = history \o rows \o <<LogRow(Context, v, version + 1)>>
       /\ version' = version + 1
       /\ raised' = raised
  BY <1>6, <1>8, <1>10, <1>11 DEF RestoreGraph
<1>13. rows \in Seq(AnyRow) /\ Range(rows) = {LogRow(o, metadata[o] + 1, version + 1) : o \in stale}
  <2>1. /\ Cardinality(stale) \in Nat
        /\ SetToSeq(stale) \in [1..Cardinality(stale) -> stale]
        /\ \A x \in stale : \E i \in 1..Cardinality(stale) : SetToSeq(stale)[i] = x
    BY <1>7, SetToSeqIs
  <2>2. PICK n, f : n = Cardinality(stale) /\ f = SetToSeq(stale)
    OBVIOUS
  <2>3. n \in Nat /\ f \in [1..n -> stale] /\ \A x \in stale : \E i \in 1..n : f[i] = x
    BY <2>1, <2>2
  <2>4. rows = [i \in 1..n |-> LogRow(f[i], next[f[i]], version + 1)]
    BY <1>10, <2>2
  <2>5. \A i \in 1..n : f[i] \in stale /\ rows[i] = LogRow(f[i], metadata[f[i]] + 1, version + 1)
    BY <1>9, <2>3, <2>4
  <2>6. \A o \in stale : LogRow(o, metadata[o] + 1, version + 1) \in AnyRow
    <3> TAKE o \in stale
    <3>1. o \in Objects \cup {Context} /\ metadata[o] + 1 \in Int /\ version + 1 \in Int
      BY <1>1, <1>7
    <3>2. QED
      BY <3>1, RowIs
  <2>7. rows \in [1..n -> AnyRow]
    BY <2>4, <2>5, <2>6
  <2>8. rows \in Seq(AnyRow)
    BY <2>3, <2>7
  <2>9. DOMAIN rows = 1..n
    BY <2>4
  <2>10. Range(rows) \subseteq {LogRow(o, metadata[o] + 1, version + 1) : o \in stale}
    BY <2>5, <2>9 DEF Range
  <2>11. ASSUME NEW o \in stale PROVE LogRow(o, metadata[o] + 1, version + 1) \in Range(rows)
    <3>1. PICK i \in 1..n : f[i] = o
      BY <2>3
    <3>2. rows[i] = LogRow(o, metadata[o] + 1, version + 1)
      BY <3>1, <2>5
    <3>3. QED
      BY <3>2, <2>9 DEF Range
  <2>12. QED
    BY <2>8, <2>10, <2>11
<1>14. PICK r : r = LogRow(Context, v, version + 1)
  OBVIOUS
<1>15. r \in AnyRow
  <2>1. Context \in Objects \cup {Context} /\ version + 1 \in Int
    BY <1>1
  <2>2. QED
    BY <2>1, <1>2, <1>14, RowIs
<1>16. history' \in Seq(AnyRow) /\ Range(history') = Range(history) \cup Range(rows) \cup {r}
  <2>1. PICK h : h = history \o rows
    OBVIOUS
  <2>2. h \in Seq(AnyRow) /\ Range(h) = Range(history) \cup Range(rows)
    BY <2>1, <1>1, <1>13, RangeConcat
  <2>3. history' = h \o <<r>>
    BY <2>1, <1>12, <1>14
  <2>4. history' = Append(h, r)
    BY <2>2, <2>3, <1>15, ConcatOne
  <2>5. history' \in Seq(AnyRow) /\ Range(history') = Range(h) \cup {r}
    BY <2>2, <2>4, <1>15, RangeAppend
  <2>6. QED
    BY <2>2, <2>5
<1>17. metadata' = [o \in Objects |-> IF o \in stale THEN metadata[o] + 1 ELSE metadata[o]]
  BY <1>1, <1>7, <1>9, <1>12 DEF Over
<1>18. LogsRestore(v)
  <2>1. Range(rows) = {LogRow(o, metadata[o] + 1, version + 1) : o \in Stale(v)}
    BY <1>5, <1>13
  <2>2. Range(history') = Range(history)
          \cup {LogRow(o, metadata[o] + 1, version + 1) : o \in Stale(v)}
          \cup {LogRow(Context, v, version + 1)}
    BY <2>1, <1>14, <1>16
  <2>3. QED
    BY <2>2, <1>5, <1>12, <1>16, <1>17 DEF LogsRestore
<1>19. ASSUME NEW o \in Objects
       PROVE  -1 <= metadata'[o] /\ (registered'[o] = nil \/ InstanceOf(registered'[o], metadata'[o]))
  <2>1. metadata[o] \in Int /\ -1 <= metadata[o]
        /\ (registered[o] = nil \/ InstanceOf(registered[o], metadata[o]))
    BY <1>1 DEF InstanceInv
  <2>2. CASE o \in stale
    <3>1. metadata'[o] = metadata[o] + 1
      BY <2>2, <1>17
    <3>2. registered'[o] = [version |-> metadata[o] + 1, content |-> content[o]]
      BY <2>2, <1>9, <1>12
    <3>3. QED
      BY <2>1, <3>1, <3>2 DEF InstanceOf
  <2>3. CASE o \notin stale
    <3>1. metadata'[o] = metadata[o]
      BY <2>3, <1>17
    <3>2. registered'[o] \in {registered[o], nil}
      BY <2>3, <1>12
    <3>3. QED
      BY <2>1, <3>1, <3>2
  <2>4. QED
    BY <2>2, <2>3
<1>20. registered' = [o \in Objects |-> registered'[o]]
  BY <1>12
<1>21. InstanceInv'
  BY <1>19, <1>20 DEF InstanceInv, InstanceOf
<1>22. QED
  BY <1>18, <1>21

LEMMA MisreadLogs ==
  ASSUME RowsInv, InstanceInv, Misread
  PROVE  LogsNothing /\ version' = version + 1 /\ InstanceInv'
<1>1. /\ version' = version + 1 /\ history' = history /\ metadata' = metadata /\ raised'
      /\ registered' = registered
  BY DEF Misread, stored
<1>2. registered' = [o \in Objects |-> registered'[o]]
  BY <1>1 DEF InstanceInv
<1>3. InstanceInv'
  BY <1>1, <1>2, InstancesKept
<1>4. QED
  BY <1>1, <1>3 DEF LogsNothing

LEMMA RestoreToVersionLogs ==
  ASSUME RowsInv, InstanceInv, CursorInv, NEW v \in 0..MaxVersion, RestoreToVersion(v)
  PROVE  /\ LogsNothing \/ \E u \in FirstRestored..version - 1 : LogsRestore(u)
         /\ InstanceInv' /\ CursorInv'
<1>1. version \in Nat /\ v \in FirstRestored..version - 1
  BY DEF RestoreToVersion, RowsInv, FirstRestored
<1>2. CASE IsMisread(v)
  <2>1. Misread
    BY <1>2 DEF RestoreToVersion
  <2>2. version' = version + 1 /\ cursor' = cursor /\ firstUndoVersion' = firstUndoVersion
    BY <2>1 DEF Misread, undoing
  <2>3. version' \in Nat /\ version <= version'
    BY <2>2, <1>1
  <2>4. QED
    BY <2>1, <2>2, <2>3, MisreadLogs, CursorStays
<1>3. CASE ~IsMisread(v)
  <2>1. RestoreGraph(v) /\ cursor' = cursor
        /\ firstUndoVersion' = IF LogsObjects(v) THEN -1 ELSE firstUndoVersion
    BY <1>3 DEF RestoreToVersion
  <2>2. LogsRestore(v) /\ InstanceInv'
    BY <2>1, <1>1, RestoreLogs
  <2>3. version' \in Nat /\ version <= version'
    BY <2>2, <1>1 DEF LogsRestore
  <2>4. CASE LogsObjects(v)
    BY <2>1, <2>2, <2>4, <1>1, CursorEnds
  <2>5. CASE ~LogsObjects(v)
    BY <2>1, <2>2, <2>3, <2>5, <1>1, CursorStays
  <2>6. QED
    BY <2>4, <2>5
<1>4. QED
  BY <1>2, <1>3

LEMMA UndoLogs ==
  ASSUME RowsInv, InstanceInv, CursorInv, Undo
  PROVE  /\ LogsNothing \/ \E u \in FirstRestored..version - 1 : LogsRestore(u)
         /\ InstanceInv' /\ CursorInv'
<1>1. PICK v : v = (IF firstUndoVersion = -1 THEN version ELSE cursor) - 1
  OBVIOUS
<1>2. version \in Nat /\ cursor \in Int /\ firstUndoVersion \in Int /\ -1 <= cursor
      /\ (firstUndoVersion # -1 => cursor + 1 < version /\ cursor < firstUndoVersion - 1)
  BY DEF RowsInv, CursorInv, RedoComesBack
<1>3. v >= FirstRestored
  BY <1>1 DEF Undo, FirstRestored
<1>4. FirstRestored \in {-1, 0} /\ v \in Int
  BY <1>1, <1>2 DEF FirstRestored
<1>5. v <= version - 1 /\ (firstUndoVersion # -1 => v < firstUndoVersion - 1)
  BY <1>1, <1>2
<1>6. v \in FirstRestored..version - 1
  BY <1>2, <1>3, <1>4, <1>5
<1>7. CASE IsMisread(v)
  <2>1. Misread
    BY <1>1, <1>7 DEF Undo
  <2>2. version' = version + 1 /\ cursor' = cursor /\ firstUndoVersion' = firstUndoVersion
    BY <2>1 DEF Misread, undoing
  <2>3. version' \in Nat /\ version <= version'
    BY <2>2, <1>2
  <2>4. QED
    BY <2>1, <2>2, <2>3, MisreadLogs, CursorStays
<1>8. CASE ~IsMisread(v)
  <2>1. RestoreGraph(v) /\ cursor' = v
        /\ firstUndoVersion' = IF firstUndoVersion = -1 THEN version + 1 ELSE firstUndoVersion
    BY <1>1, <1>8 DEF Undo
  <2>2. LogsRestore(v) /\ InstanceInv'
    BY <2>1, <1>6, RestoreLogs
  <2>3. version' = version + 1
    BY <2>2 DEF LogsRestore
  <2>4. CursorInv'
    BY <2>1, <2>3, <1>2, <1>4, <1>3, <1>5 DEF CursorInv, RedoComesBack
  <2>5. QED
    BY <2>2, <2>4, <1>6
<1>9. QED
  BY <1>7, <1>8

LEMMA RedoLogs ==
  ASSUME RowsInv, InstanceInv, CursorInv, Redo
  PROVE  /\ LogsNothing \/ \E u \in FirstRestored..version - 1 : LogsRestore(u)
         /\ InstanceInv' /\ CursorInv'
<1>1. PICK v : v = cursor + 1
  OBVIOUS
<1>2. version \in Nat /\ cursor \in Int /\ firstUndoVersion \in Int /\ -1 <= cursor
      /\ cursor + 1 < version /\ cursor < firstUndoVersion - 1
  BY DEF RowsInv, CursorInv, RedoComesBack, Redo
<1>3. FirstRestored \in {-1, 0} /\ v \in Int
  BY <1>1, <1>2 DEF FirstRestored
<1>4. v \in FirstRestored..version - 1
  BY <1>1, <1>2, <1>3
<1>5. CASE IsMisread(v)
  <2>1. Misread
    BY <1>1, <1>5 DEF Redo
  <2>2. version' = version + 1 /\ cursor' = cursor /\ firstUndoVersion' = firstUndoVersion
    BY <2>1 DEF Misread, undoing
  <2>3. version' \in Nat /\ version <= version'
    BY <2>2, <1>2
  <2>4. QED
    BY <2>1, <2>2, <2>3, MisreadLogs, CursorStays
<1>6. CASE ~IsMisread(v)
  <2>1. RestoreGraph(v) /\ cursor' = v
        /\ firstUndoVersion' = IF v = firstUndoVersion - 1 THEN -1 ELSE firstUndoVersion
    BY <1>1, <1>6 DEF Redo
  <2>2. LogsRestore(v) /\ InstanceInv'
    BY <2>1, <1>4, RestoreLogs
  <2>3. version' = version + 1
    BY <2>2 DEF LogsRestore
  <2>4. CursorInv'
    BY <2>1, <2>3, <1>1, <1>2, <1>3 DEF CursorInv, RedoComesBack
  <2>5. QED
    BY <2>2, <2>4, <1>4
<1>7. QED
  BY <1>5, <1>6

LEMMA VersionsInit == Init => RowsInv /\ InstanceInv /\ CursorInv
<1> SUFFICES ASSUME Init PROVE RowsInv /\ InstanceInv /\ CursorInv
  OBVIOUS
<1>1. Range(history) = {}
  BY DEF Init, Range
<1>2. RowsInv
  BY <1>1 DEF Init, RowsInv
<1>3. InstanceInv
  BY DEF Init, InstanceInv
<1>4. CursorInv
  BY DEF Init, CursorInv, RedoComesBack
<1>5. QED
  BY <1>2, <1>3, <1>4

\* Whatever the operation, it is one of the five ways of logging.
Logs ==
  \/ LogsNothing
  \/ \E o \in Objects : LogsOne(o) \/ LogsTwo(o)
  \/ \E u \in FirstRestored..version - 1 : LogsRestore(u)

LEMMA StepLogs ==
  RowsInv /\ InstanceInv /\ CursorInv /\ [Next]_vars => Logs /\ InstanceInv' /\ CursorInv'
<1> SUFFICES ASSUME RowsInv, InstanceInv, CursorInv, [Next]_vars
             PROVE  Logs /\ InstanceInv' /\ CursorInv'
  OBVIOUS
<1>1. CASE \E o \in Objects : Register(o) \/ Load(o) \/ Unregister(o)
  BY <1>1, MemoryLogs DEF Logs
<1>2. CASE \E o \in Objects : Insert(o)
  BY <1>2, InsertLogs DEF Logs
<1>3. ASSUME NEW o \in Objects, NEW p \in Nested, Change(o, p)
      PROVE  (LogsNothing \/ LogsOne(o) \/ LogsTwo(o)) /\ InstanceInv' /\ CursorInv'
  <2>1. o \in Loaded /\ p \in Loaded \cup {nil} /\ (Record(o, p) \/ Ignore(o, p))
    BY <1>3 DEF Change
  <2>2. QED
    BY <2>1, RecordLogs, IgnoreLogs
<1>4. CASE \E o \in Objects, edited \in BOOLEAN : Save(o, edited)
  BY <1>4, SaveLogs DEF Logs
<1>5. CASE \E o \in Objects, v \in 0..MaxVersion : RestoreObject(o, v)
  BY <1>5, RestoreObjectLogs DEF Logs
<1>6. CASE \E v \in 0..MaxVersion : RestoreToVersion(v)
  BY <1>6, RestoreToVersionLogs DEF Logs
<1>7. CASE Undo
  BY <1>7, UndoLogs DEF Logs
<1>8. CASE Redo
  BY <1>8, RedoLogs DEF Logs
<1>9. CASE Restart
  BY <1>9, RestartLogs DEF Logs
<1>10. CASE UNCHANGED vars
  <2>1. UNCHANGED <<version, history, stored, undoing, raised>> /\ registered' = registered
    BY <1>10 DEF vars
  <2>2. registered' = [q \in Objects |-> registered'[q]]
    BY <2>1 DEF InstanceInv
  <2>3. \A q \in Objects : registered'[q] \in {registered[q], nil}
    BY <2>1
  <2>4. QED
    BY <2>1, <2>2, <2>3, QuietLogs DEF Logs
<1>11. QED
  BY <1>1, <1>2, <1>3, <1>4, <1>5, <1>6, <1>7, <1>8, <1>9, <1>10 DEF Next, Logs

LEMMA VersionsNext ==
  RowsInv /\ InstanceInv /\ CursorInv /\ [Next]_vars =>
    RowsInv' /\ InstanceInv' /\ CursorInv' /\ Grows
<1> SUFFICES ASSUME RowsInv, InstanceInv, CursorInv, [Next]_vars
             PROVE  RowsInv' /\ InstanceInv' /\ CursorInv' /\ Grows
  OBVIOUS
<1>1. Logs /\ InstanceInv' /\ CursorInv'
  BY StepLogs
<1>2. \A o \in Objects : -1 <= metadata[o]
  BY DEF InstanceInv
<1>3. RowsInv' /\ Grows
  <2>1. CASE LogsNothing
    BY <2>1, NoRows
  <2>2. CASE \E o \in Objects : LogsOne(o)
    BY <2>2, <1>2, OneRows
  <2>3. CASE \E o \in Objects : LogsTwo(o)
    BY <2>3, TwoRows
  <2>4. CASE \E u \in FirstRestored..version - 1 : LogsRestore(u)
    BY <2>4, <1>2, RestoreRows
  <2>5. QED
    BY <2>1, <2>2, <2>3, <2>4, <1>1 DEF Logs
<1>4. QED
  BY <1>1, <1>3

(* The history names versions that are stored, goes back to versions that     *)
(* were past, and the instances have the versions it logged last, whatever    *)
(* messages nest in others and however often snapshots are taken.             *)
THEOREM VersionsCorrect == Spec => [](RowsInv /\ InstanceInv /\ CursorInv)
<1>1. RowsInv /\ InstanceInv /\ CursorInv /\ [Next]_vars => (RowsInv /\ InstanceInv /\ CursorInv)'
  BY VersionsNext
<1>2. QED
  BY <1>1, VersionsInit, PTL DEF Spec

(* -redo (lines 657-679 of COObjectContext.m) always has a past version to go *)
(* to, and a sequence of undo and redo ends where it began.                   *)
THEOREM RedoCorrect == Spec => []RedoComesBack
<1>1. RowsInv /\ InstanceInv /\ CursorInv => RedoComesBack
  BY DEF CursorInv
<1>2. QED
  BY <1>1, VersionsCorrect, PTL

LEMMA NotMisread == RowsInv /\ ~UndoesPastFirst => \A v \in -1..version : ~IsMisread(v)
<1> SUFFICES ASSUME RowsInv, ~UndoesPastFirst, NEW v \in -1..version PROVE ~IsMisread(v)
  OBVIOUS
<1>1. version \in Nat /\ \A c \in 1..version : Before(c) \in 0..c - 1
  BY RowsGoBack DEF RowsInv, FirstRestored
<1> DEFINE F == CHOOSE f : f = [c \in -1..version |-> c > 0 /\ (Before(c) = -1 \/ f[Before(c)])]
<1>2. \E f : f = [c \in -1..version |-> c > 0 /\ (Before(c) = -1 \/ f[Before(c)])]
  <2> DEFINE g == [c \in -1..version |-> FALSE]
  <2>1. ASSUME NEW c \in -1..version PROVE ~(c > 0 /\ (Before(c) = -1 \/ g[Before(c)]))
    <3>1. CASE c > 0
      <4>1. Before(c) \in -1..version /\ Before(c) # -1
        BY <3>1, <1>1
      <4>2. ~g[Before(c)]
        BY <4>1
      <4>3. QED
        BY <4>1, <4>2
    <3>2. CASE ~(c > 0)
      BY <3>2
    <3>3. QED
      BY <3>1, <3>2
  <2>2. g = [c \in -1..version |-> c > 0 /\ (Before(c) = -1 \/ g[Before(c)])]
    BY <2>1
  <2> HIDE DEF g
  <2>3. QED
    BY <2>2
<1>3. F = [c \in -1..version |-> c > 0 /\ (Before(c) = -1 \/ F[Before(c)])]
  BY <1>2
<1>4. IsMisread(v) <=> F[v]
  BY DEF IsMisread
<1> HIDE DEF F
<1>5. \A c \in -1..version : F[c] <=> c > 0 /\ (Before(c) = -1 \/ F[Before(c)])
  BY <1>3
<1> DEFINE D == {c \in Nat : c <= version /\ F[c]}
<1>6. D = {}
  <2> SUFFICES ASSUME D # {} PROVE FALSE
    OBVIOUS
  <2>1. PICK c \in D : \A u \in D : c <= u
    BY Least
  <2>2. c \in Nat /\ c <= version /\ F[c]
    OBVIOUS
  <2>3. c \in -1..version
    BY <2>2, <1>1
  <2>4. c > 0 /\ (Before(c) = -1 \/ F[Before(c)])
    BY <2>2, <2>3, <1>5
  <2>5. PICK b \in 0..c - 1 : b = Before(c)
    BY <2>2, <2>4, <1>1
  <2>6. b \in Nat /\ b <= version /\ ~(c <= b) /\ b # -1
    BY <2>2, <2>5, <1>1
  <2>7. F[b]
    BY <2>4, <2>5, <2>6
  <2>8. b \in D
    BY <2>6, <2>7
  <2>9. QED
    BY <2>1, <2>6, <2>8
<1>7. ~F[v]
  <2>1. CASE v \in Nat
    BY <2>1, <1>6
  <2>2. CASE v \notin Nat
    BY <2>2, <1>1, <1>5
  <2>3. QED
    BY <2>1, <2>2
<1>8. QED
  BY <1>4, <1>7

------------------------------------------------------------------------------
(* What the scan of a new version returns, for all values of the constants.   *)

\* The one row of version c is for version n of o.
OnlyRow(c, o, n) ==
  \A row \in Range(history) : row.contextVersion = c <=> row = LogRow(o, n, c)

OneRow ==
  \A c \in 1..version, o \in Objects, n \in Int :
    OnlyRow(c, o, n) /\ LogRow(o, n, c) \in Range(history) =>
      /\ \A f : Over(VersionsAt(c), f) = Over(Entry(o, n), f)
      /\ ~IsRestorePoint(c)
      /\ Before(c) = c - 1

LEMMA OneRowSays == RowsInv => OneRow
<1> SUFFICES ASSUME RowsInv, NEW c \in 1..version, NEW o \in Objects, NEW n \in Int,
                    OnlyRow(c, o, n), LogRow(o, n, c) \in Range(history)
             PROVE  /\ \A f : Over(VersionsAt(c), f) = Over(Entry(o, n), f)
                    /\ ~IsRestorePoint(c)
                    /\ Before(c) = c - 1
  BY DEF OneRow
<1>1. RowFacts
  BY RowsSay
<1>2. PICK r : r = LogRow(o, n, c)
  OBVIOUS
<1>3. r \in Range(history) /\ \A row \in Range(history) : row.contextVersion = c <=> row = r
  BY <1>2 DEF OnlyRow
<1>4. c \in Int
  BY DEF RowsInv
<1>5. r.object = o /\ r.objectVersion = n /\ r.contextVersion = c /\ o # Context
  BY <1>2, <1>4, RowIs, NamesAssumption
<1>6. DOMAIN VersionsAt(c) = {o}
  <2>1. \A q : q \in DOMAIN VersionsAt(c) <=> \E row \in Range(history) :
                 row.contextVersion = c /\ row.object = q /\ q # Context
    BY <1>1 DEF RowFacts
  <2>2. \A q : q \in DOMAIN VersionsAt(c) <=> q = o
    BY <2>1, <1>3, <1>5
  <2>3. QED
    BY <2>2
<1>7. VersionsAt(c)[o] = n
  BY <1>1, <1>3, <1>5 DEF RowFacts
<1>8. ASSUME NEW f PROVE Over(VersionsAt(c), f) = Over(Entry(o, n), f)
  <2>1. PICK g : g = VersionsAt(c)
    OBVIOUS
  <2>2. DOMAIN g = {o} /\ g[o] = n
    BY <2>1, <1>6, <1>7
  <2>3. Over(g, f) = Over(Entry(o, n), f)
    BY <2>2 DEF Over, Entry
  <2>4. QED
    BY <2>1, <2>3
<1>9. ~IsRestorePoint(c)
  BY <1>1, <1>3, <1>5 DEF RowFacts
<1>10. Before(c) = c - 1
  BY <1>1, <1>9 DEF RowFacts
<1>11. QED
  BY <1>8, <1>9, <1>10

\* A row that was there before is of a version that was there.
LEMMA OldRows ==
  ASSUME RowsInv
  PROVE  \A row \in Range(history) : row.contextVersion \in 1..version
BY DEF RowsInv, RowOK

LEMMA FoundOne ==
  ASSUME RowsInv, RowsInv', Grows, NEW o \in Objects, LogsOne(o), NEW c, c = version + 1
  PROVE  /\ c \in 1..version' /\ ~IsRestorePoint(c)'
         /\ Found(c)' = Over(Entry(o, metadata[o] + 1), Found(version))
<1>1. /\ version \in Nat /\ version' = c /\ metadata[o] + 1 \in Int /\ c \in 1..version'
      /\ c - 1 = version /\ version \in -1..version /\ c - 1 \in (-1)..(version')
  BY DEF RowsInv, LogsOne
<1>2. PICK n \in Int : n = metadata[o] + 1
  BY <1>1
<1>3. Range(history') = Range(history) \cup {LogRow(o, n, c)}
  BY <1>2 DEF LogsOne
<1>4. \A row \in Range(history') : row.contextVersion = c <=> row = LogRow(o, n, c)
  <2>1. \A row \in Range(history) : row.contextVersion # c
    BY <1>1, OldRows
  <2>2. LogRow(o, n, c).contextVersion = c
    BY <1>1, RowIs
  <2>3. QED
    BY <2>1, <2>2, <1>3
<1>5. OnlyRow(c, o, n)' /\ LogRow(o, n, c) \in Range(history')
  BY <1>3, <1>4 DEF OnlyRow
<1>6. OneRow' /\ GoesBack' /\ FoundEquation'
  BY OneRowSays, RowsGoBack, FoundIs, PTL
<1>7. /\ \A f : Over(VersionsAt(c)', f) = Over(Entry(o, n), f)
      /\ ~IsRestorePoint(c)'
      /\ Before(c)' = c - 1
  BY <1>1, <1>5, <1>6 DEF OneRow
<1>8. PICK b \in (-1)..(version') : b = c - 1
  BY <1>1
<1>9. Found(c)' = Over(VersionsAt(c)', Found(b)')
  BY <1>1, <1>6, <1>7, <1>8 DEF FoundEquation
<1>10. Found(b)' = Found(b)
  <2>1. b \in -1..version
    BY <1>1, <1>8
  <2>2. QED
    BY <2>1, FoundKept
<1>11. b = version
  BY <1>1, <1>8
<1>12. QED
  BY <1>1, <1>2, <1>7, <1>9, <1>10, <1>11

LEMMA FoundTwo ==
  ASSUME RowsInv, RowsInv', Grows, NEW o \in Objects, LogsTwo(o),
         NEW c, c = version + 1, NEW e, e = version + 2
  PROVE  /\ c \in 1..version' /\ ~IsRestorePoint(c)'
         /\ Found(c)' = Over(Entry(o, 0), Found(version))
         /\ e \in 1..version' /\ ~IsRestorePoint(e)'
         /\ Found(e)' = Over(Entry(o, 1), Found(c)')
<1>1. /\ version \in Nat /\ version' = e /\ c \in 1..version' /\ e \in 1..version'
      /\ c - 1 = version /\ e - 1 = c /\ c # e /\ c \in Int /\ e \in Int
  BY DEF RowsInv, LogsTwo
<1>2. PICK r, s : r = LogRow(o, 0, c) /\ s = LogRow(o, 1, e)
  OBVIOUS
<1>3. Range(history') = Range(history) \cup {r, s}
  BY <1>2 DEF LogsTwo
<1>4. r.contextVersion = c /\ s.contextVersion = e
  BY <1>1, <1>2, RowIs
<1>5. \A row \in Range(history) : row.contextVersion # c /\ row.contextVersion # e
  BY <1>1, OldRows
<1>6. /\ \A row \in Range(history') : row.contextVersion = c <=> row = r
      /\ \A row \in Range(history') : row.contextVersion = e <=> row = s
  BY <1>1, <1>3, <1>4, <1>5
<1>7. /\ OnlyRow(c, o, 0)' /\ LogRow(o, 0, c) \in Range(history')
      /\ OnlyRow(e, o, 1)' /\ LogRow(o, 1, e) \in Range(history')
  BY <1>2, <1>3, <1>6 DEF OnlyRow
<1>8. OneRow' /\ GoesBack' /\ FoundEquation'
  BY OneRowSays, RowsGoBack, FoundIs, PTL
<1>9. 0 \in Int /\ 1 \in Int
  OBVIOUS
<1>10. /\ \A f : Over(VersionsAt(c)', f) = Over(Entry(o, 0), f)
       /\ ~IsRestorePoint(c)'
       /\ Before(c)' = c - 1
  BY <1>1, <1>7, <1>8, <1>9 DEF OneRow
<1>11. /\ \A f : Over(VersionsAt(e)', f) = Over(Entry(o, 1), f)
       /\ ~IsRestorePoint(e)'
       /\ Before(e)' = e - 1
  BY <1>1, <1>7, <1>8, <1>9 DEF OneRow
<1>12. c - 1 \in (-1)..(version') /\ c \in (-1)..(version') /\ version \in -1..version
  BY <1>1
<1>13. PICK b \in (-1)..(version') : b = c - 1
  BY <1>12
<1>14. Found(c)' = Over(VersionsAt(c)', Found(b)')
  BY <1>1, <1>8, <1>10, <1>13 DEF FoundEquation
<1>15. Found(b)' = Found(b) /\ b = version
  <2>1. b = version /\ b \in -1..version
    BY <1>1, <1>12, <1>13
  <2>2. QED
    BY <2>1, FoundKept
<1>16. Found(e)' = Over(VersionsAt(e)', Found(c)')
  BY <1>1, <1>8, <1>11, <1>12 DEF FoundEquation
<1>17. QED
  BY <1>1, <1>10, <1>11, <1>14, <1>15, <1>16

LEMMA FoundRestore ==
  ASSUME RowsInv, RowsInv', Grows, NEW v \in FirstRestored..version - 1, LogsRestore(v),
         NEW c, c = version + 1
  PROVE  /\ c \in 1..version' /\ IsRestorePoint(c)' /\ RestoredVersion(c)' = v
         /\ DOMAIN Found(c)' = DOMAIN Found(v)
         /\ \A o \in DOMAIN Found(v) : Found(c)'[o] = metadata'[o]
<1>1. /\ version \in Nat /\ version' = c /\ c \in 1..version' /\ c \in Int
      /\ metadata \in [Objects -> Int] /\ FirstRestored \in {-1, 0}
  BY DEF RowsInv, LogsRestore, FirstRestored
<1>2. v \in -1..version /\ v \in (-1)..(version') /\ v \in Int
  BY <1>1
<1>3. DOMAIN Found(v) \subseteq Objects
  BY <1>2, FoundStored
<1>4. PICK S : S = Stale(v)
  OBVIOUS
<1>5. S \subseteq Objects /\ S = {o \in DOMAIN Found(v) : Found(v)[o] # metadata[o]}
  BY <1>3, <1>4 DEF Stale
<1>6. PICK s : s = LogRow(Context, v, c)
  OBVIOUS
<1>7. s.object = Context /\ s.objectVersion = v /\ s.contextVersion = c
  <2>1. Context \in Objects \cup {Context} /\ v \in Int /\ c \in Int
    BY <1>1, <1>2
  <2>2. /\ LogRow(Context, v, c).object = Context
        /\ LogRow(Context, v, c).objectVersion = v
        /\ LogRow(Context, v, c).contextVersion = c
    BY DEF LogRow
  <2>3. QED
    BY <2>2, <1>6
<1>8. Range(history') = Range(history) \cup {LogRow(o, metadata[o] + 1, c) : o \in S} \cup {s}
  BY <1>4, <1>6 DEF LogsRestore
<1>9. \A o \in S : /\ LogRow(o, metadata[o] + 1, c).object = o /\ o # Context
                   /\ LogRow(o, metadata[o] + 1, c).objectVersion = metadata[o] + 1
                   /\ LogRow(o, metadata[o] + 1, c).contextVersion = c
  <2> TAKE o \in S
  <2>1. o \in Objects /\ metadata[o] + 1 \in Int
    BY <1>1, <1>5
  <2>2. QED
    BY <2>1, <1>1, RowIs, NamesAssumption
<1>10. \A row \in Range(history) : row.contextVersion # c
  BY <1>1, OldRows
<1>11. \A row \in Range(history') : row.contextVersion = c <=>
          row = s \/ \E o \in S : row = LogRow(o, metadata[o] + 1, c)
  BY <1>7, <1>8, <1>9, <1>10
<1>12. RowFacts' /\ GoesBack' /\ FoundEquation'
  BY RowsSay, RowsGoBack, FoundIs, PTL
<1>13. IsRestorePoint(c)' /\ RestoredVersion(c)' = v
  <2>1. s \in Range(history')
    BY <1>8
  <2>2. QED
    BY <2>1, <1>1, <1>7, <1>12 DEF RowFacts
<1>14. Before(c)' = v
  BY <1>1, <1>12, <1>13 DEF RowFacts
<1>15. PICK f : f = VersionsAt(c)'
  OBVIOUS
<1>16. DOMAIN f = S
  <2>1. \A q : q \in DOMAIN f <=> \E row \in Range(history') :
                 row.contextVersion = c /\ row.object = q /\ q # Context
    BY <1>1, <1>12, <1>15 DEF RowFacts
  <2>2. \A q \in DOMAIN f : q \in S
    BY <2>1, <1>7, <1>9, <1>11
  <2>3. \A q \in S : q \in DOMAIN f
    BY <2>1, <1>8, <1>9
  <2>4. QED
    BY <2>2, <2>3
<1>17. ASSUME NEW o \in S PROVE f[o] = metadata'[o]
  <2>1. PICK r \in Range(history') : r = LogRow(o, metadata[o] + 1, c)
    BY <1>8
  <2>2. f[o] = r.objectVersion
    BY <2>1, <1>1, <1>9, <1>12, <1>15 DEF RowFacts
  <2>3. metadata'[o] = metadata[o] + 1
    BY <1>4, <1>5 DEF LogsRestore
  <2>4. QED
    BY <2>1, <2>2, <2>3, <1>9
<1>18. Found(c)' = Over(f, Found(v))
  <2>1. Found(c)' = Over(f, Found(v)')
    BY <1>1, <1>2, <1>12, <1>14, <1>15 DEF FoundEquation
  <2>2. Found(v)' = Found(v)
    BY <1>2, FoundKept
  <2>3. QED
    BY <2>1, <2>2
<1>19. DOMAIN Found(c)' = DOMAIN Found(v)
  <2>1. DOMAIN Found(c)' = DOMAIN f \cup DOMAIN Found(v)
    BY <1>18, OverDomain
  <2>2. QED
    BY <2>1, <1>5, <1>16
<1>20. ASSUME NEW o \in DOMAIN Found(v) PROVE Found(c)'[o] = metadata'[o]
  <2>1. CASE o \in S
    <3>1. Found(c)'[o] = f[o]
      BY <2>1, <1>16, <1>18, OverFirst
    <3>2. QED
      BY <2>1, <3>1, <1>17
  <2>2. CASE o \notin S
    <3>1. Found(c)'[o] = Found(v)[o]
      BY <2>2, <1>16, <1>18, OverElse
    <3>2. Found(v)[o] = metadata[o] /\ metadata'[o] = metadata[o]
      BY <2>2, <1>3, <1>4, <1>5 DEF LogsRestore
    <3>3. QED
      BY <3>1, <3>2
  <2>3. QED
    BY <2>1, <2>2
<1>21. QED
  BY <1>1, <1>13, <1>19, <1>20

\* A version without rows shows the version before.
LEMMA FoundNothing ==
  ASSUME RowsInv, RowsInv', Grows, LogsNothing, version' = version + 1, NEW c, c = version + 1
  PROVE  /\ c \in 1..version' /\ ~IsRestorePoint(c)'
         /\ DOMAIN Found(c)' = DOMAIN Found(version)
         /\ \A o \in DOMAIN Found(version) : Found(c)'[o] = Found(version)[o]
<1>1. /\ version \in Nat /\ version' = c /\ c \in 1..version' /\ history' = history
      /\ c - 1 = version /\ version \in -1..version
  BY DEF RowsInv, LogsNothing
<1>2. \A row \in Range(history') : row.contextVersion # c
  BY <1>1, OldRows
<1>3. RowFacts' /\ GoesBack' /\ FoundEquation'
  BY RowsSay, RowsGoBack, FoundIs, PTL
<1>4. PICK f : f = VersionsAt(c)'
  OBVIOUS
<1>5. DOMAIN f = {}
  <2>1. \A q : q \in DOMAIN f <=> \E row \in Range(history') :
                 row.contextVersion = c /\ row.object = q /\ q # Context
    BY <1>1, <1>3, <1>4 DEF RowFacts
  <2>2. QED
    BY <2>1, <1>2
<1>6. ~IsRestorePoint(c)'
  BY <1>1, <1>2, <1>3 DEF RowFacts
<1>7. Before(c)' = c - 1
  BY <1>1, <1>3, <1>6 DEF RowFacts
<1>8. PICK b \in (-1)..(version') : b = c - 1 /\ b = version
  BY <1>1
<1>9. Found(c)' = Over(f, Found(b)')
  BY <1>1, <1>3, <1>4, <1>7, <1>8 DEF FoundEquation
<1>10. Found(b)' = Found(b)
  BY <1>1, <1>8, FoundKept
<1>11. Found(c)' = Over(f, Found(version))
  BY <1>8, <1>9, <1>10
<1>12. DOMAIN Found(c)' = DOMAIN Found(version)
  <2>1. DOMAIN Found(c)' = DOMAIN f \cup DOMAIN Found(version)
    BY <1>11, OverDomain
  <2>2. QED
    BY <2>1, <1>5
<1>13. \A o \in DOMAIN Found(version) : Found(c)'[o] = Found(version)[o]
  BY <1>5, <1>11, OverElse
<1>14. QED
  BY <1>1, <1>6, <1>12, <1>13

------------------------------------------------------------------------------
(* The history of the versions, for all values of the constants.              *)

\* The graph of the version has the last version of each of its objects.
CurrentInv == \A o \in DOMAIN Found(version) : Found(version)[o] = metadata[o]

\* Each version of an object was in the graph of some version.
LoggedIn(o, n, v) == o \in DOMAIN Found(v) /\ Found(v)[o] = n
LoggedInv == \A o \in Objects : \A n \in 0..metadata[o] : \E v \in 1..version : LoggedIn(o, n, v)

LEMMA LoggedStays ==
  ASSUME RowsInv, RowsInv', Grows, LoggedInv,
         \A o \in Objects : \A n \in 0..metadata'[o] :
           n \in 0..metadata[o] \/ \E v \in 1..version' : LoggedIn(o, n, v)'
  PROVE  LoggedInv'
<1>1. ASSUME NEW o \in Objects, NEW n \in 0..metadata'[o]
      PROVE  \E v \in 1..version' : LoggedIn(o, n, v)'
  <2>1. CASE n \in 0..metadata[o]
    <3>1. PICK v \in 1..version : LoggedIn(o, n, v)
      BY <2>1 DEF LoggedInv
    <3>2. v \in -1..version /\ v \in 1..version'
      BY DEF RowsInv, Grows
    <3>3. LoggedIn(o, n, v)'
      BY <3>1, <3>2, FoundKept DEF LoggedIn
    <3>4. QED
      BY <3>2, <3>3
  <2>2. CASE \E v \in 1..version' : LoggedIn(o, n, v)'
    BY <2>2
  <2>3. QED
    BY <2>1, <2>2
<1>2. QED
  BY <1>1 DEF LoggedInv

LEMMA CurrentOne ==
  ASSUME RowsInv, RowsInv', Grows, CurrentInv, LoggedInv, NEW o \in Objects, LogsOne(o)
  PROVE  CurrentInv' /\ LoggedInv'
<1>1. /\ version \in Nat /\ version' = version + 1 /\ metadata \in [Objects -> Int]
      /\ metadata[o] \in Int
      /\ metadata' = [metadata EXCEPT ![o] = metadata[o] + 1]
  BY DEF RowsInv, LogsOne
<1>2. PICK c : c = version + 1
  OBVIOUS
<1>3. c \in 1..version' /\ Found(c)' = Over(Entry(o, metadata[o] + 1), Found(version))
  BY <1>2, FoundOne
<1>4. /\ DOMAIN Found(c)' = {o} \cup DOMAIN Found(version)
      /\ Found(c)'[o] = metadata[o] + 1
      /\ \A q \in DOMAIN Found(version) : q # o => Found(c)'[q] = Found(version)[q]
  <2>1. DOMAIN Found(c)' = {o} \cup DOMAIN Found(version)
    BY <1>3, EntryDomain
  <2>2. Found(c)'[o] = metadata[o] + 1
    BY <1>3, EntryNew
  <2>3. \A q \in DOMAIN Found(version) : q # o => Found(c)'[q] = Found(version)[q]
    BY <1>3, EntryOld
  <2>4. QED
    BY <2>1, <2>2, <2>3
<1>5. DOMAIN Found(version) \subseteq Objects
  BY <1>1, FoundStored
<1>6. \A q \in DOMAIN Found(c)' : Found(c)'[q] = metadata'[q]
  <2> TAKE q \in DOMAIN Found(c)'
  <2>1. CASE q = o
    BY <2>1, <1>1, <1>4
  <2>2. CASE q # o
    <3>1. q \in DOMAIN Found(version) /\ Found(c)'[q] = Found(version)[q]
      BY <2>2, <1>4
    <3>2. Found(version)[q] = metadata[q]
      BY <3>1 DEF CurrentInv
    <3>3. metadata'[q] = metadata[q]
      BY <2>2, <3>1, <1>1, <1>5
    <3>4. QED
      BY <3>1, <3>2, <3>3
  <2>3. QED
    BY <2>1, <2>2
<1>7. CurrentInv'
  BY <1>1, <1>2, <1>6 DEF CurrentInv
<1>8. ASSUME NEW q \in Objects, NEW n \in 0..metadata'[q], n \notin 0..metadata[q]
      PROVE  \E v \in 1..version' : LoggedIn(q, n, v)'
  <2>1. q = o
    BY <1>1, <1>8
  <2>2. n = metadata[o] + 1
    BY <2>1, <1>1, <1>8
  <2>3. LoggedIn(q, n, c)'
    BY <2>1, <2>2, <1>4 DEF LoggedIn
  <2>4. QED
    BY <2>3, <1>3
<1>9. LoggedInv'
  BY <1>8, LoggedStays
<1>10. QED
  BY <1>7, <1>9

LEMMA CurrentTwo ==
  ASSUME RowsInv, RowsInv', Grows, CurrentInv, LoggedInv, NEW o \in Objects, LogsTwo(o)
  PROVE  CurrentInv' /\ LoggedInv'
<1>1. /\ version \in Nat /\ version' = version + 2 /\ metadata \in [Objects -> Int]
      /\ metadata[o] = -1 /\ metadata' = [metadata EXCEPT ![o] = 1]
  BY DEF RowsInv, LogsTwo
<1>2. PICK c, e : c = version + 1 /\ e = version + 2
  OBVIOUS
<1>3. /\ c \in 1..version' /\ Found(c)' = Over(Entry(o, 0), Found(version))
      /\ e \in 1..version' /\ Found(e)' = Over(Entry(o, 1), Found(c)')
  BY <1>2, FoundTwo
<1>4. DOMAIN Found(c)' = {o} \cup DOMAIN Found(version)
  BY <1>3, EntryDomain
<1>5. Found(c)'[o] = 0
  BY <1>3, EntryNew
<1>6. \A q \in DOMAIN Found(version) : q # o => Found(c)'[q] = Found(version)[q]
  BY <1>3, EntryOld
<1>7. DOMAIN Found(e)' = {o} \cup DOMAIN Found(c)'
  BY <1>3, EntryDomain
<1>8. Found(e)'[o] = 1
  BY <1>3, EntryNew
<1>9. \A q \in DOMAIN Found(c)' : q # o => Found(e)'[q] = Found(c)'[q]
  BY <1>3, EntryOld
<1>10. DOMAIN Found(version) \subseteq Objects
  BY <1>1, FoundStored
<1>11. \A q \in DOMAIN Found(e)' : Found(e)'[q] = metadata'[q]
  <2> TAKE q \in DOMAIN Found(e)'
  <2>1. CASE q = o
    BY <2>1, <1>1, <1>8
  <2>2. CASE q # o
    <3>1. q \in DOMAIN Found(version) /\ Found(e)'[q] = Found(version)[q]
      BY <2>2, <1>4, <1>6, <1>7, <1>9
    <3>2. Found(version)[q] = metadata[q]
      BY <3>1 DEF CurrentInv
    <3>3. metadata'[q] = metadata[q]
      BY <2>2, <3>1, <1>1, <1>10
    <3>4. QED
      BY <3>1, <3>2, <3>3
  <2>3. QED
    BY <2>1, <2>2
<1>12. CurrentInv'
  BY <1>1, <1>2, <1>11 DEF CurrentInv
<1>13. ASSUME NEW q \in Objects, NEW n \in 0..metadata'[q], n \notin 0..metadata[q]
       PROVE  \E v \in 1..version' : LoggedIn(q, n, v)'
  <2>1. q = o
    BY <1>1, <1>13
  <2>2. n = 0 \/ n = 1
    BY <2>1, <1>1, <1>13
  <2>3. LoggedIn(q, 0, c)' /\ LoggedIn(q, 1, e)'
    BY <2>1, <1>4, <1>5, <1>7, <1>8 DEF LoggedIn
  <2>4. QED
    BY <2>2, <2>3, <1>3
<1>14. LoggedInv'
  BY <1>13, LoggedStays
<1>15. QED
  BY <1>12, <1>14

LEMMA CurrentRestore ==
  ASSUME RowsInv, RowsInv', Grows, CurrentInv, LoggedInv,
         NEW v \in FirstRestored..version - 1, LogsRestore(v)
  PROVE  CurrentInv' /\ LoggedInv'
<1>1. /\ version \in Nat /\ version' = version + 1 /\ metadata \in [Objects -> Int]
      /\ metadata' = [o \in Objects |-> IF o \in Stale(v) THEN metadata[o] + 1 ELSE metadata[o]]
  BY DEF RowsInv, LogsRestore
<1>2. PICK c : c = version + 1
  OBVIOUS
<1>3. /\ c \in 1..version' /\ DOMAIN Found(c)' = DOMAIN Found(v)
      /\ \A o \in DOMAIN Found(v) : Found(c)'[o] = metadata'[o]
  BY <1>2, FoundRestore
<1>4. CurrentInv'
  BY <1>1, <1>2, <1>3 DEF CurrentInv
<1>5. ASSUME NEW q \in Objects, NEW n \in 0..metadata'[q], n \notin 0..metadata[q]
      PROVE  \E u \in 1..version' : LoggedIn(q, n, u)'
  <2>1. q \in Stale(v) /\ metadata'[q] = metadata[q] + 1 /\ metadata[q] \in Int
    BY <1>1, <1>5
  <2>2. n = metadata'[q]
    BY <2>1, <1>5
  <2>3. q \in DOMAIN Found(v)
    BY <2>1 DEF Stale
  <2>4. LoggedIn(q, n, c)'
    BY <2>2, <2>3, <1>3 DEF LoggedIn
  <2>5. QED
    BY <2>4, <1>3
<1>6. LoggedInv'
  BY <1>5, LoggedStays
<1>7. QED
  BY <1>4, <1>6

LEMMA CurrentNothing ==
  ASSUME RowsInv, RowsInv', Grows, CurrentInv, LoggedInv, LogsNothing
  PROVE  CurrentInv' /\ LoggedInv'
<1>1. version \in Nat /\ version' \in {version, version + 1} /\ metadata' = metadata
  BY DEF RowsInv, LogsNothing
<1>2. PICK c : c = version'
  OBVIOUS
<1>3. DOMAIN Found(c)' = DOMAIN Found(version)
      /\ \A o \in DOMAIN Found(version) : Found(c)'[o] = Found(version)[o]
  <2>1. CASE version' = version
    <3>1. c = version /\ c \in -1..version
      BY <2>1, <1>1, <1>2
    <3>2. QED
      BY <3>1, FoundKept
  <2>2. CASE version' = version + 1
    BY <2>2, <1>2, FoundNothing
  <2>3. QED
    BY <2>1, <2>2, <1>1
<1>4. CurrentInv'
  BY <1>1, <1>2, <1>3 DEF CurrentInv
<1>5. LoggedInv'
  BY <1>1, LoggedStays
<1>6. QED
  BY <1>4, <1>5

LEMMA CurrentNext ==
  RowsInv /\ RowsInv' /\ Grows /\ CurrentInv /\ LoggedInv /\ Logs => CurrentInv' /\ LoggedInv'
BY CurrentOne, CurrentTwo, CurrentRestore, CurrentNothing DEF Logs

LEMMA CurrentInit == Init => CurrentInv /\ LoggedInv
<1> SUFFICES ASSUME Init PROVE CurrentInv /\ LoggedInv
  OBVIOUS
<1>1. RowsInv /\ version = 0
  BY VersionsInit DEF Init
<1>2. DOMAIN Found(0) = {}
  <2>1. FoundEquation
    BY <1>1, RowsGoBack, FoundIs
  <2>2. Found(0) = NotFound
    BY <2>1, <1>1 DEF FoundEquation
  <2>3. QED
    BY <2>2 DEF NotFound
<1>3. \A o \in Objects : 0..metadata[o] = {}
  BY DEF Init
<1>4. QED
  BY <1>1, <1>2, <1>3 DEF CurrentInv, LoggedInv

------------------------------------------------------------------------------
(* What each operation writes.                                                *)

\* The content of the last version of an object.
Latest(o) == IF metadata[o] = -1 THEN <<>> ELSE Playback(o, metadata[o])

\* No record is open, and an instance has the content that is stored.
MemoryInv ==
  /\ session = <<>>
  /\ \A o \in Objects :
       registered[o] = nil \/ registered[o] = [version |-> metadata[o], content |-> Latest(o)]

Stays(o) == metadata'[o] = metadata[o] /\ fullSave'[o] = fullSave[o] /\ delta'[o] = delta[o]

\* The step writes the files of new versions of o.
Writes(o) ==
  /\ metadata'[o] \in -1..version' - 1
  /\ Files(fullSave'[o], delta'[o], metadata'[o], 1..version')
  /\ Extends(fullSave[o], fullSave'[o], metadata[o])
  /\ Extends(delta[o], delta'[o], metadata[o])

LEMMA FilesStep ==
  ASSUME FilesInv, version \in Nat, version' \in Nat, version <= version',
         fullSave' = [o \in Objects |-> fullSave'[o]], delta' = [o \in Objects |-> delta'[o]],
         \A o \in Objects : Stays(o) \/ Writes(o)
  PROVE  FilesInv' /\ FilesGrow
<1>1. 1..version \subseteq 1..version' /\ -1..version - 1 \subseteq -1..version' - 1
  OBVIOUS
<1>2. ASSUME NEW o \in Objects PROVE Writes(o)
  <2>1. CASE Stays(o)
    <3>1. /\ metadata[o] \in -1..version - 1
          /\ Files(fullSave[o], delta[o], metadata[o], 1..version)
      BY DEF FilesInv
    <3>2. Files(fullSave[o], delta[o], metadata[o], 1..version')
      BY <3>1, <1>1, FilesMore
    <3>3. Extends(fullSave[o], fullSave[o], metadata[o]) /\ Extends(delta[o], delta[o], metadata[o])
      BY ExtendsSelf
    <3>4. QED
      BY <2>1, <3>1, <3>2, <3>3, <1>1 DEF Stays, Writes
  <2>2. QED
    BY <2>1
<1>3. FilesInv'
  BY <1>2 DEF FilesInv, Writes
<1>4. FilesGrow
  BY <1>2 DEF FilesGrow, Writes
<1>5. QED
  BY <1>3, <1>4

LEMMA LatestType == FilesInv => \A o \in Objects : Latest(o) \in Seq(1..version)
<1> SUFFICES ASSUME FilesInv, NEW o \in Objects PROVE Latest(o) \in Seq(1..version)
  OBVIOUS
<1>1. CASE metadata[o] = -1
  <2>1. <<>> \in Seq(1..version)
    OBVIOUS
  <2>2. QED
    BY <2>1, <1>1 DEF Latest
<1>2. CASE metadata[o] # -1
  <2>1. Files(fullSave[o], delta[o], metadata[o], 1..version)
    BY DEF FilesInv
  <2>2. metadata[o] \in 0..metadata[o]
    BY <2>1, <1>2 DEF Files
  <2>3. Playback(o, metadata[o]) \in Seq(1..version)
    BY <2>1, <2>2, PlayType, PlaybackIs
  <2>4. QED
    BY <2>3, <1>2 DEF Latest
<1>3. QED
  BY <1>1, <1>2

LEMMA PlaybackNext ==
  ASSUME NEW o, NEW v
  PROVE  Playback(o, v)' = Play(fullSave'[o], delta'[o], v)
BY DEF Playback, Play, Below, Since

LEMMA LatestStays ==
  ASSUME NEW o \in Objects, Stays(o)
  PROVE  Latest(o)' = Latest(o)
<1>1. Playback(o, metadata[o])' = Playback(o, metadata[o])
  BY DEF Stays, Playback
<1>2. QED
  BY <1>1 DEF Latest, Stays

\* A snapshot is the next version.
LEMMA SnapshotFiles ==
  ASSUME FilesInv, version \in Nat, NEW o \in Objects, NEW x \in Seq(1..version'),
         version' = version + 1,
         fullSave'[o] = Over(Entry(metadata[o] + 1, x), fullSave[o]),
         delta'[o] = delta[o], metadata'[o] = metadata[o] + 1
  PROVE  Writes(o) /\ Latest(o)' = x
<1>1. /\ metadata[o] \in -1..version - 1
      /\ Files(fullSave[o], delta[o], metadata[o], 1..version)
  BY DEF FilesInv
<1>2. 1..version \subseteq 1..version' /\ metadata'[o] \in -1..version' - 1
      /\ metadata'[o] \in 0..metadata'[o] /\ metadata'[o] # -1
  BY <1>1
<1>3. /\ Files(fullSave'[o], delta'[o], metadata'[o], 1..version')
      /\ Extends(fullSave[o], fullSave'[o], metadata[o])
      /\ fullSave'[o][metadata'[o]] = x /\ metadata'[o] \in DOMAIN fullSave'[o]
  BY <1>1, <1>2, FilesSnapshot
<1>4. Extends(delta[o], delta'[o], metadata[o])
  BY ExtendsSelf
<1>5. Play(fullSave'[o], delta'[o], metadata'[o]) = x
  BY <1>2, <1>3, PlaySnapshot
<1>6. PICK m : m = metadata'[o]
  OBVIOUS
<1>7. Playback(o, m)' = x
  BY <1>5, <1>6, PlaybackNext
<1>8. Latest(o)' = x
  BY <1>2, <1>6, <1>7 DEF Latest
<1>9. QED
  BY <1>2, <1>3, <1>4, <1>8 DEF Writes

LEMMA SnapshotKeeps ==
  ASSUME FilesInv, MemoryInv, InstanceInv, version \in Nat, metadata \in [Objects -> Int],
         NEW o \in Objects, NEW x \in Seq(1..version + 1),
         Snapshot(o, metadata[o], x), version' = version + 1, delta' = delta, session' = session
  PROVE  FilesInv' /\ FilesGrow /\ MemoryInv' /\ Latest(o)' = x
<1>1. /\ fullSave = [q \in Objects |-> fullSave[q]] /\ delta = [q \in Objects |-> delta[q]]
      /\ registered = [q \in Objects |-> registered[q]]
  BY DEF FilesInv, InstanceInv
<1>2. /\ fullSave'[o] = Over(Entry(metadata[o] + 1, x), fullSave[o])
      /\ delta'[o] = delta[o] /\ metadata'[o] = metadata[o] + 1
      /\ registered'[o] = [version |-> metadata[o] + 1, content |-> x]
  BY <1>1 DEF Snapshot
<1>3. \A q \in Objects \ {o} : Stays(q) /\ registered'[q] = registered[q]
  BY <1>1 DEF Snapshot, Stays
<1>4. fullSave' = [q \in Objects |-> fullSave'[q]] /\ delta' = [q \in Objects |-> delta'[q]]
  BY <1>1 DEF Snapshot
<1>5. x \in Seq(1..version') /\ version' \in Nat /\ version <= version'
  OBVIOUS
<1>6. Writes(o) /\ Latest(o)' = x
  BY <1>2, <1>5, SnapshotFiles
<1>7. FilesInv' /\ FilesGrow
  BY <1>3, <1>4, <1>5, <1>6, FilesStep
<1>8. ASSUME NEW q \in Objects
      PROVE  registered'[q] = nil \/ registered'[q] = [version |-> metadata'[q], content |-> Latest(q)']
  <2>1. CASE q = o
    BY <2>1, <1>2, <1>6
  <2>2. CASE q # o
    <3>1. registered'[q] = registered[q] /\ metadata'[q] = metadata[q] /\ Latest(q)' = Latest(q)
      BY <2>2, <1>3, LatestStays DEF Stays
    <3>2. QED
      BY <3>1 DEF MemoryInv
  <2>3. QED
    BY <2>1, <2>2
<1>9. MemoryInv'
  BY <1>8 DEF MemoryInv
<1>10. QED
  BY <1>6, <1>7, <1>9

\* Nothing is written, and instances are as stored.
LEMMA QuietKeeps ==
  ASSUME FilesInv, MemoryInv, version \in Nat, version' \in Nat, version <= version',
         UNCHANGED stored, session' \in {session, <<>>},
         \A q \in Objects : \/ registered'[q] \in {registered[q], nil}
                            \/ registered'[q] = [version |-> metadata[q], content |-> Latest(q)]
  PROVE  FilesInv' /\ FilesGrow /\ MemoryInv'
<1>1. fullSave' = fullSave /\ delta' = delta /\ metadata' = metadata
  BY DEF stored
<1>2. \A q \in Objects : Stays(q)
  BY <1>1 DEF Stays
<1>3. fullSave' = [q \in Objects |-> fullSave'[q]] /\ delta' = [q \in Objects |-> delta'[q]]
  BY <1>1 DEF FilesInv
<1>4. FilesInv' /\ FilesGrow
  BY <1>2, <1>3, FilesStep
<1>5. \A q \in Objects : Latest(q)' = Latest(q)
  BY <1>2, LatestStays
<1>6. \A q \in Objects : registered'[q] = nil
                           \/ registered'[q] = [version |-> metadata'[q], content |-> Latest(q)']
  BY <1>1, <1>5 DEF MemoryInv
<1>7. MemoryInv'
  BY <1>6 DEF MemoryInv
<1>8. QED
  BY <1>4, <1>7

LEMMA MoreMessages ==
  ASSUME NEW K, NEW J, K \subseteq J, NEW s \in Seq(K)
  PROVE  s \in Seq(J)
OBVIOUS

LEMMA InsertKeeps ==
  ASSUME RowsInv, InstanceInv, FilesInv, MemoryInv, NEW o \in Objects, Insert(o)
  PROVE  FilesInv' /\ FilesGrow /\ MemoryInv' /\ Latest(o)' = <<>> /\ LogsOne(o)
<1>1. version \in Nat /\ metadata \in [Objects -> Int] /\ metadata[o] = -1
  BY DEF RowsInv, Insert, IsStored
<1>2. <<>> \in Seq(1..version + 1)
  OBVIOUS
<1>3. Snapshot(o, metadata[o], <<>>) /\ LogRecord(o, metadata[o] + 1) /\ raised' = raised
  BY <1>1 DEF Insert
<1>4. version' = version + 1 /\ delta' = delta /\ session' = session
  BY DEF Insert, LogRecord
<1>5. LogsOne(o)
  BY <1>3, SnapshotLogs
<1>6. QED
  BY <1>1, <1>2, <1>3, <1>4, <1>5, SnapshotKeeps

\* What an object was saved with.
Saved(o, edited) == IF edited THEN Append(Latest(o), version + 1) ELSE Latest(o)

LEMMA InstanceIs ==
  ASSUME MemoryInv, NEW o \in Loaded
  PROVE  o \in Objects /\ registered[o].version = metadata[o] /\ registered[o].content = Latest(o)
<1>1. o \in Objects /\ registered[o] = [version |-> metadata[o], content |-> Latest(o)]
  BY DEF MemoryInv, Loaded
<1>2. QED
  BY <1>1

LEMMA SaveKeeps ==
  ASSUME RowsInv, InstanceInv, FilesInv, MemoryInv, NEW o \in Objects, NEW edited \in BOOLEAN,
         Save(o, edited)
  PROVE  FilesInv' /\ FilesGrow /\ MemoryInv' /\ Latest(o)' = Saved(o, edited) /\ LogsOne(o)
<1>1. version \in Nat /\ metadata \in [Objects -> Int]
  BY DEF RowsInv
<1>2. registered[o].version = metadata[o] /\ registered[o].content = Latest(o)
  BY InstanceIs DEF Save
<1>3. PICK x : x = Saved(o, edited)
  OBVIOUS
<1>4. x \in Seq(1..version + 1)
  <2>1. PICK l : l = Latest(o)
    OBVIOUS
  <2>2. l \in Seq(1..version)
    BY <2>1, LatestType
  <2>3. 1..version \subseteq 1..version + 1 /\ version + 1 \in 1..version + 1
    BY <1>1
  <2>4. l \in Seq(1..version + 1)
    BY <2>2, <2>3, MoreMessages
  <2>5. Append(l, version + 1) \in Seq(1..version + 1)
    BY <2>3, <2>4
  <2>6. QED
    BY <2>1, <2>4, <2>5, <1>3 DEF Saved
<1>5. Snapshot(o, metadata[o], x) /\ LogRecord(o, metadata[o] + 1) /\ raised' = raised
  BY <1>2, <1>3 DEF Save, Saved
<1>6. version' = version + 1 /\ delta' = delta /\ session' = session
  BY DEF Save, LogRecord
<1>7. LogsOne(o)
  BY <1>5, SnapshotLogs
<1>8. QED
  BY <1>1, <1>3, <1>4, <1>5, <1>6, <1>7, SnapshotKeeps

\* The newest file of an object is that of its version.
LEMMA LastIs ==
  ASSUME FilesInv, NEW o \in Objects, metadata[o] # -1
  PROVE  LastVersion(o) = metadata[o]
<1>1. Files(fullSave[o], delta[o], metadata[o], 1..version)
  BY DEF FilesInv
<1>2. PICK m \in Nat : m = metadata[o]
  BY <1>1 DEF Files
<1>3. PICK S : S = DOMAIN fullSave[o] \cup DOMAIN delta[o]
  OBVIOUS
<1>4. S = 0..m
  BY <1>1, <1>2, <1>3 DEF Files
<1>5. S \in SUBSET (0..m) /\ m \in S /\ \A y \in S : y <= m
  BY <1>4
<1>6. Max(S) = m
  BY <1>5, MaxUnique
<1>7. QED
  BY <1>2, <1>3, <1>6 DEF LastVersion

LEMMA RestoreObjectKeeps ==
  ASSUME RowsInv, InstanceInv, FilesInv, MemoryInv, NEW o \in Objects, NEW v \in 0..MaxVersion,
         RestoreObject(o, v)
  PROVE  /\ FilesInv' /\ FilesGrow /\ MemoryInv' /\ v \in 0..metadata[o]
         /\ Latest(o)' = Playback(o, v) /\ LogsOne(o)
<1>1. version \in Nat /\ metadata \in [Objects -> Int]
  BY DEF RowsInv
<1>2. registered[o].version = metadata[o] /\ metadata[o] # -1 /\ v <= LastVersion(o)
  BY InstanceIs DEF RestoreObject, IsStored
<1>3. v \in 0..metadata[o]
  BY <1>1, <1>2, LastIs
<1>4. PICK x : x = Playback(o, v)
  OBVIOUS
<1>5. x \in Seq(1..version + 1)
  <2>1. Files(fullSave[o], delta[o], metadata[o], 1..version)
    BY DEF FilesInv
  <2>2. x \in Seq(1..version)
    BY <2>1, <1>3, <1>4, PlayType, PlaybackIs
  <2>3. 1..version \subseteq 1..version + 1
    BY <1>1
  <2>4. QED
    BY <2>2, <2>3, MoreMessages
<1>6. Snapshot(o, metadata[o], x) /\ LogRecord(o, metadata[o] + 1) /\ raised' = raised
  BY <1>2, <1>4 DEF RestoreObject
<1>7. version' = version + 1 /\ delta' = delta /\ session' = session
  BY DEF RestoreObject, LogRecord
<1>8. LogsOne(o)
  BY <1>6, SnapshotLogs
<1>9. QED
  BY <1>1, <1>3, <1>4, <1>5, <1>6, <1>7, <1>8, SnapshotKeeps

LEMMA MemoryKeeps ==
  ASSUME RowsInv, InstanceInv, FilesInv, MemoryInv, NEW o \in Objects,
         Register(o) \/ Load(o) \/ Unregister(o)
  PROVE  FilesInv' /\ FilesGrow /\ MemoryInv' /\ UNCHANGED <<version, history, stored>>
<1>1. UNCHANGED <<version, history, stored, session>>
  BY DEF Register, Load, Unregister
<1>2. registered = [q \in Objects |-> registered[q]]
  BY DEF InstanceInv
<1>3. PICK r : /\ registered' = [registered EXCEPT ![o] = r]
               /\ r = nil \/ r = [version |-> metadata[o], content |-> Latest(o)]
  BY DEF Register, Load, Unregister, IsStored, Latest
<1>4. \A q \in Objects : \/ registered'[q] \in {registered[q], nil}
                         \/ registered'[q] = [version |-> metadata[q], content |-> Latest(q)]
  BY <1>2, <1>3
<1>5. version \in Nat /\ version' = version /\ version <= version'
  BY <1>1 DEF RowsInv
<1>6. QED
  BY <1>1, <1>4, <1>5, QuietKeeps

LEMMA RestartKeeps ==
  ASSUME RowsInv, InstanceInv, CursorInv, FilesInv, MemoryInv, Restart
  PROVE  FilesInv' /\ FilesGrow /\ MemoryInv' /\ UNCHANGED <<version, history, stored>>
<1>1. version' = version
  BY RestartLogs
<1>2. UNCHANGED <<history, stored>> /\ session' = <<>> /\ registered' = [o \in Objects |-> nil]
  BY DEF Restart, Reopen
<1>3. \A q \in Objects : registered'[q] \in {registered[q], nil}
  BY <1>2
<1>4. version \in Nat /\ version <= version'
  BY <1>1 DEF RowsInv
<1>5. QED
  BY <1>1, <1>2, <1>3, <1>4, QuietKeeps

LEMMA MisreadKeeps ==
  ASSUME RowsInv, FilesInv, MemoryInv, Misread
  PROVE  FilesInv' /\ FilesGrow /\ MemoryInv'
<1>1. version' = version + 1 /\ UNCHANGED stored /\ session' = session /\ registered' = registered
  BY DEF Misread
<1>2. version \in Nat /\ version' \in Nat /\ version <= version'
  BY <1>1 DEF RowsInv
<1>3. QED
  BY <1>1, <1>2, QuietKeeps

\* No message reaches the version of a periodic snapshot.
LEMMA NoSnapshot ==
  ASSUME Plain, NEW n \in 1..MaxVersion
  PROVE  n % SnapshotInterval # 0
<1>1. SnapshotInterval \in Nat \ {0} /\ MaxVersion \in Nat
  BY IntervalAssumption
<1>2. n \in Nat /\ n > 0 /\ n < SnapshotInterval
  BY <1>1 DEF Plain
<1>3. n % SnapshotInterval = n
  BY <1>1, <1>2
<1>4. QED
  BY <1>2, <1>3

\* The snapshots of an object when none is added.
LEMMA NoneAdded ==
  ASSUME NEW f, NEW d, NEW m, NEW K, Files(f, d, m, K), NEW x
  PROVE  /\ Files(Over([s \in {} |-> x], f), d, m, K)
         /\ Extends(f, Over([s \in {} |-> x], f), m)
<1>1. PICK g : g = Over([s \in {} |-> x], f)
  OBVIOUS
<1>2. DOMAIN g = DOMAIN f /\ \A s \in DOMAIN f : g[s] = f[s]
  BY <1>1 DEF Over
<1>3. Files(g, d, m, K) /\ Extends(f, g, m)
  BY <1>2 DEF Files, Extends
<1>4. QED
  BY <1>1, <1>3

\* A message to an object that was saved is its next version.
LEMMA MessageWrites ==
  ASSUME FilesInv, version \in Nat, NEW o \in Objects, metadata[o] # -1, NEW x,
         version' = version + 1,
         fullSave'[o] = Over([s \in {} |-> x], fullSave[o]),
         delta'[o] = Over(Entry(metadata[o] + 1, version'), delta[o]),
         metadata'[o] = metadata[o] + 1
  PROVE  Writes(o) /\ Latest(o)' = Append(Latest(o), version')
<1>1. /\ metadata[o] \in -1..version - 1 /\ metadata[o] \in Nat
      /\ Files(fullSave[o], delta[o], metadata[o], 1..version)
  BY DEF FilesInv, Files
<1>2. PICK m \in Nat : m = metadata[o]
  BY <1>1
<1>3. PICK f, d, g, e : f = fullSave[o] /\ d = delta[o] /\ g = fullSave'[o] /\ e = delta'[o]
  OBVIOUS
<1>4. Files(g, d, m, 1..version) /\ Extends(f, g, m)
  BY <1>1, <1>2, <1>3, NoneAdded
<1>5. PICK c, K, J : c = version' /\ K = 1..version /\ J = 1..c
  OBVIOUS
<1>6. K \subseteq J /\ c \in J /\ Files(g, d, m, K)
  BY <1>4, <1>5
<1>7. e = Over(Entry(m + 1, c), d)
  BY <1>2, <1>3, <1>5
<1>8. Files(g, e, m + 1, J) /\ Extends(d, e, m) /\ e[m + 1] = c /\ m + 1 \notin DOMAIN g
  <2>1. /\ Files(g, Over(Entry(m + 1, c), d), m + 1, J)
        /\ Extends(d, Over(Entry(m + 1, c), d), m)
        /\ Over(Entry(m + 1, c), d)[m + 1] = c
        /\ m + 1 \notin DOMAIN g
    BY <1>6, FilesDelta
  <2>2. QED
    BY <2>1, <1>7
<1>9. m + 1 \in 1..m + 1 /\ (m + 1) - 1 = m /\ m \in 0..m
  BY <1>2
<1>10. Play(g, e, m + 1) = Append(Play(g, e, m), c)
  BY <1>8, <1>9, PlayDelta
<1>11. Play(g, e, m) = Play(f, d, m)
  BY <1>1, <1>2, <1>3, <1>4, <1>8, <1>9, PlayKept
<1>12. Play(f, d, m) = Latest(o)
  BY <1>2, <1>3, PlaybackIs DEF Latest
<1>13. Latest(o)' = Play(g, e, m + 1)
  <2>1. PICK k : k = m + 1
    OBVIOUS
  <2>2. Playback(o, k)' = Play(g, e, k)
    BY <1>3, PlaybackNext
  <2>3. metadata'[o] = k /\ k # -1
    BY <2>1, <1>2
  <2>4. QED
    BY <2>1, <2>2, <2>3 DEF Latest
<1>14. Writes(o)
  <2>1. metadata'[o] = m + 1 /\ m + 1 \in -1..c - 1
    BY <1>1, <1>2, <1>5
  <2>2. QED
    BY <2>1, <1>2, <1>3, <1>4, <1>5, <1>8 DEF Writes
<1>15. QED
  BY <1>5, <1>10, <1>11, <1>12, <1>13, <1>14

\* The first message to an object that was not is its second version.
LEMMA FirstMessageWrites ==
  ASSUME FilesInv, version \in Nat, NEW o \in Objects, metadata[o] = -1,
         version' = version + 2,
         fullSave'[o] = Over(Entry(0, <<>>), fullSave[o]),
         delta'[o] = Over(Entry(1, version'), delta[o]),
         metadata'[o] = 1
  PROVE  Writes(o) /\ Latest(o)' = Append(<<>>, version') /\ Playback(o, 0)' = <<>>
<1>1. Files(fullSave[o], delta[o], -1, 1..version)
  BY DEF FilesInv
<1>2. PICK f, d, g, e : f = fullSave[o] /\ d = delta[o] /\ g = fullSave'[o] /\ e = delta'[o]
  OBVIOUS
<1>3. PICK c, K, J : c = version' /\ K = 1..version /\ J = 1..c
  OBVIOUS
<1>4. K \subseteq J /\ c \in J /\ <<>> \in Seq(J)
  BY <1>3
<1>5. -1 + 1 = 0 /\ 0 + 1 = 1 /\ 1 - 1 = 0 /\ 1 \in 1..1 /\ 0 \in 0..1 /\ 0 \in Nat
  OBVIOUS
<1>6. /\ Files(g, d, 0, J) /\ Extends(f, g, -1)
      /\ g[0] = <<>> /\ 0 \in DOMAIN g
  <2>1. g = Over(Entry(-1 + 1, <<>>), f)
    BY <1>2, <1>5
  <2>2. Files(f, d, -1, K)
    BY <1>1, <1>2, <1>3
  <2>3. /\ Files(g, d, -1 + 1, J) /\ Extends(f, g, -1)
        /\ g[-1 + 1] = <<>> /\ -1 + 1 \in DOMAIN g
    <3>1. PICK m, x : m = -1 /\ x = <<>>
      OBVIOUS
    <3>2. Files(f, d, m, K) /\ K \subseteq J /\ x \in Seq(J)
      BY <3>1, <2>2, <1>4
    <3>3. /\ Files(Over(Entry(m + 1, x), f), d, m + 1, J)
          /\ Extends(f, Over(Entry(m + 1, x), f), m)
          /\ Over(Entry(m + 1, x), f)[m + 1] = x
          /\ m + 1 \in DOMAIN Over(Entry(m + 1, x), f)
      BY <3>2, FilesSnapshot
    <3>4. QED
      BY <3>1, <3>3, <2>1
  <2>4. QED
    BY <2>3, <1>5
<1>7. Files(g, e, 1, J) /\ Extends(d, e, 0) /\ e[1] = c /\ 1 \notin DOMAIN g
  <2>1. e = Over(Entry(0 + 1, c), d)
    BY <1>2, <1>3, <1>5
  <2>2. /\ Files(g, e, 0 + 1, J) /\ Extends(d, e, 0)
        /\ e[0 + 1] = c /\ 0 + 1 \notin DOMAIN g
    <3>1. PICK m \in Nat : m = 0
      OBVIOUS
    <3>2. Files(g, d, m, J) /\ J \subseteq J /\ c \in J
      BY <3>1, <1>4, <1>6
    <3>3. /\ Files(g, Over(Entry(m + 1, c), d), m + 1, J)
          /\ Extends(d, Over(Entry(m + 1, c), d), m)
          /\ Over(Entry(m + 1, c), d)[m + 1] = c
          /\ m + 1 \notin DOMAIN g
      BY <3>2, FilesDelta
    <3>4. QED
      BY <3>1, <3>3, <2>1
  <2>3. QED
    BY <2>2, <1>5
<1>8. Play(g, e, 1) = Append(Play(g, e, 0), c)
  <2>1. Play(g, e, 1) = Append(Play(g, e, 1 - 1), e[1])
    BY <1>5, <1>7, PlayDelta
  <2>2. QED
    BY <2>1, <1>5, <1>7
<1>9. Play(g, e, 0) = <<>>
  BY <1>5, <1>6, <1>7, PlaySnapshot
<1>10. Playback(o, 0)' = <<>> /\ Playback(o, 1)' = Append(<<>>, c)
  BY <1>2, <1>8, <1>9, PlaybackNext
<1>11. Latest(o)' = Append(<<>>, c)
  BY <1>10 DEF Latest
<1>12. Extends(d, e, -1)
  <2>1. \A n \in DOMAIN d : n \in 1..(-1)
    BY <1>1, <1>2 DEF Files
  <2>2. DOMAIN d = {}
    <3>1. 1..(-1) = {}
      OBVIOUS
    <3>2. QED
      BY <2>1, <3>1
  <2>3. DOMAIN e \subseteq 1..1
    BY <1>7 DEF Files
  <2>4. QED
    BY <2>2, <2>3 DEF Extends
<1>13. Writes(o)
  <2>1. 1 \in -1..c - 1
    BY <1>3
  <2>2. QED
    BY <2>1, <1>2, <1>3, <1>6, <1>7, <1>12 DEF Writes
<1>14. QED
  BY <1>3, <1>10, <1>11, <1>13

\* The files and instances of a step of o alone.
LEMMA OneKeeps ==
  ASSUME FilesInv, MemoryInv, version \in Nat, version' \in Nat, version <= version',
         NEW o \in Objects, Writes(o), session' = <<>>,
         fullSave' = [q \in Objects |-> fullSave'[q]], delta' = [q \in Objects |-> delta'[q]],
         \A q \in Objects \ {o} : Stays(q) /\ registered'[q] = registered[q],
         registered'[o] = [version |-> metadata'[o], content |-> Latest(o)']
  PROVE  FilesInv' /\ FilesGrow /\ MemoryInv'
<1>1. FilesInv' /\ FilesGrow
  BY FilesStep
<1>2. ASSUME NEW q \in Objects
      PROVE  registered'[q] = nil \/ registered'[q] = [version |-> metadata'[q], content |-> Latest(q)']
  <2>1. CASE q = o
    BY <2>1
  <2>2. CASE q # o
    <3>1. registered'[q] = registered[q] /\ metadata'[q] = metadata[q] /\ Latest(q)' = Latest(q)
      BY <2>2, LatestStays DEF Stays
    <3>2. QED
      BY <3>1 DEF MemoryInv
  <2>3. QED
    BY <2>1, <2>2
<1>3. MemoryInv'
  BY <1>2 DEF MemoryInv
<1>4. QED
  BY <1>1, <1>3

\* What -recordInvocation: does when messages do not nest.
LEMMA RecordIs ==
  ASSUME Plain, RowsInv, InstanceInv, FilesInv, MemoryInv, NEW o \in Loaded, Record(o, nil),
         NEW n, n = (IF metadata[o] = -1 THEN 1 ELSE metadata[o] + 1),
         NEW c, c = version + (IF metadata[o] = -1 THEN 2 ELSE 1)
  PROVE  /\ version' = c /\ session' = <<>> /\ metadata'[o] = n
         /\ metadata[o] = -1 => fullSave'[o] = Over(Entry(0, <<>>), fullSave[o])
         /\ metadata[o] # -1 => fullSave'[o] = Over([s \in {} |-> Latest(o)], fullSave[o])
         /\ delta'[o] = Over(Entry(n, c), delta[o])
         /\ registered'[o] = [version |-> n, content |-> Append(Latest(o), c)]
         /\ fullSave' = [q \in Objects |-> fullSave'[q]] /\ delta' = [q \in Objects |-> delta'[q]]
         /\ \A q \in Objects \ {o} : Stays(q) /\ registered'[q] = registered[q]
<1>1. /\ version \in Nat /\ metadata \in [Objects -> Int] /\ MaxVersion \in Nat
      /\ fullSave = [q \in Objects |-> fullSave[q]] /\ delta = [q \in Objects |-> delta[q]]
  BY IntervalAssumption DEF RowsInv, FilesInv
<1>2. o \in Objects /\ registered[o].version = metadata[o] /\ registered[o].content = Latest(o)
  BY InstanceIs
<1>3. metadata[o] \in -1..version - 1
  BY <1>2 DEF FilesInv
<1>4. PICK S : S = (IF metadata[o] = -1 THEN {0} ELSE {})
                      \cup (IF n % SnapshotInterval = 0 THEN {n} ELSE {})
  OBVIOUS
<1>5. /\ c - version <= MaxVersion - version
      /\ fullSave' = [fullSave EXCEPT ![o] = Over([s \in S |-> Latest(o)], @)]
      /\ delta' = [delta EXCEPT ![o] = Over(Entry(n, c), @)]
      /\ metadata' = [metadata EXCEPT ![o] = n]
      /\ version' = c
      /\ registered' = [q \in Objects |->
           IF q = o THEN [version |-> n, content |-> Append(Latest(o), c)]
           ELSE IF q = nil THEN [registered[q] EXCEPT !.content = Append(@, c)]
           ELSE registered[q]]
      /\ session' = Front(<<o>>)
  <2>1. version + (c - version) <= MaxVersion
    BY <1>2 DEF Record, HasRoom
  <2>2. c \in Int
    BY <1>1
  <2>3. c - version <= MaxVersion - version
    BY <2>1, <2>2, <1>1
  <2>4. QED
    BY <2>3, <1>2, <1>4 DEF Record, Pushes
<1>6. session' = <<>>
  <2>1. Front(<<o>>) = <<>>
    BY DEF Front
  <2>2. QED
    BY <2>1, <1>5
<1>7. n \in 1..MaxVersion
  BY <1>1, <1>3, <1>5
<1>8. n % SnapshotInterval # 0
  BY <1>7, NoSnapshot
<1>9. S = IF metadata[o] = -1 THEN {0} ELSE {}
  BY <1>4, <1>8
<1>10. fullSave'[o] = Over([s \in S |-> Latest(o)], fullSave[o])
  BY <1>1, <1>2, <1>5
<1>11. ASSUME metadata[o] = -1 PROVE fullSave'[o] = Over(Entry(0, <<>>), fullSave[o])
  BY <1>9, <1>10, <1>11 DEF Latest, Entry
<1>12. ASSUME metadata[o] # -1 PROVE fullSave'[o] = Over([s \in {} |-> Latest(o)], fullSave[o])
  BY <1>9, <1>10, <1>12
<1>13. delta'[o] = Over(Entry(n, c), delta[o]) /\ metadata'[o] = n
  BY <1>1, <1>2, <1>5
<1>14. registered'[o] = [version |-> n, content |-> Append(Latest(o), c)]
  BY <1>2, <1>5
<1>15. \A q \in Objects \ {o} : Stays(q) /\ registered'[q] = registered[q]
  <2> TAKE q \in Objects \ {o}
  <2>1. q # nil
    BY NamesAssumption
  <2>2. registered'[q] = registered[q]
    BY <2>1, <1>5
  <2>3. Stays(q)
    BY <1>1, <1>5 DEF Stays
  <2>4. QED
    BY <2>2, <2>3
<1>16. fullSave' = [q \in Objects |-> fullSave'[q]] /\ delta' = [q \in Objects |-> delta'[q]]
  BY <1>1, <1>5
<1>17. QED
  BY <1>5, <1>6, <1>11, <1>12, <1>13, <1>14, <1>15, <1>16

LEMMA MessageKeeps ==
  ASSUME Plain, RowsInv, InstanceInv, CursorInv, FilesInv, MemoryInv,
         NEW o \in Loaded, Record(o, nil), metadata[o] # -1
  PROVE  /\ FilesInv' /\ FilesGrow /\ MemoryInv' /\ LogsOne(o)
         /\ Latest(o)' = Append(Latest(o), version + 1)
<1>1. version \in Nat /\ o \in Objects
  BY DEF RowsInv, Loaded
<1>2. PICK c : c = version + 1
  OBVIOUS
<1>3. /\ version' = c /\ session' = <<>> /\ metadata'[o] = metadata[o] + 1
      /\ fullSave'[o] = Over([s \in {} |-> Latest(o)], fullSave[o])
      /\ delta'[o] = Over(Entry(metadata[o] + 1, c), delta[o])
      /\ registered'[o] = [version |-> metadata[o] + 1, content |-> Append(Latest(o), c)]
      /\ fullSave' = [q \in Objects |-> fullSave'[q]] /\ delta' = [q \in Objects |-> delta'[q]]
      /\ \A q \in Objects \ {o} : Stays(q) /\ registered'[q] = registered[q]
  BY <1>2, RecordIs
<1>4. Writes(o) /\ Latest(o)' = Append(Latest(o), c)
  BY <1>1, <1>2, <1>3, MessageWrites
<1>5. FilesInv' /\ FilesGrow /\ MemoryInv'
  <2>1. version' \in Nat /\ version <= version'
    BY <1>1, <1>2, <1>3
  <2>2. registered'[o] = [version |-> metadata'[o], content |-> Latest(o)']
    BY <1>3, <1>4
  <2>3. QED
    BY <2>1, <2>2, <1>1, <1>3, <1>4, OneKeeps
<1>6. LogsOne(o)
  BY RecordLogs DEF LogsTwo
<1>7. QED
  BY <1>2, <1>4, <1>5, <1>6

LEMMA FirstMessageKeeps ==
  ASSUME Plain, RowsInv, InstanceInv, CursorInv, FilesInv, MemoryInv,
         NEW o \in Loaded, Record(o, nil), metadata[o] = -1
  PROVE  /\ FilesInv' /\ FilesGrow /\ MemoryInv' /\ LogsTwo(o)
         /\ Latest(o)' = Append(<<>>, version + 2) /\ Playback(o, 0)' = <<>>
<1>1. version \in Nat /\ o \in Objects
  BY DEF RowsInv, Loaded
<1>2. PICK c : c = version + 2
  OBVIOUS
<1>3. /\ version' = c /\ session' = <<>> /\ metadata'[o] = 1
      /\ fullSave'[o] = Over(Entry(0, <<>>), fullSave[o])
      /\ delta'[o] = Over(Entry(1, c), delta[o])
      /\ registered'[o] = [version |-> 1, content |-> Append(Latest(o), c)]
      /\ fullSave' = [q \in Objects |-> fullSave'[q]] /\ delta' = [q \in Objects |-> delta'[q]]
      /\ \A q \in Objects \ {o} : Stays(q) /\ registered'[q] = registered[q]
  BY <1>2, RecordIs
<1>4. Writes(o) /\ Latest(o)' = Append(<<>>, c) /\ Playback(o, 0)' = <<>>
  BY <1>1, <1>2, <1>3, FirstMessageWrites
<1>5. FilesInv' /\ FilesGrow /\ MemoryInv'
  <2>1. version' \in Nat /\ version <= version'
    BY <1>1, <1>2, <1>3
  <2>2. registered'[o] = [version |-> metadata'[o], content |-> Latest(o)']
    BY <1>3, <1>4 DEF Latest
  <2>3. QED
    BY <2>1, <2>2, <1>1, <1>3, <1>4, OneKeeps
<1>6. LogsTwo(o)
  <2>1. ~LogsOne(o)
    BY <1>1, <1>2, <1>3 DEF LogsOne
  <2>2. QED
    BY <2>1, RecordLogs
<1>7. QED
  BY <1>2, <1>4, <1>5, <1>6

LEMMA RestoreKeeps ==
  ASSUME RowsInv, InstanceInv, FilesInv, MemoryInv, NEW v \in FirstRestored..version - 1,
         RestoreGraph(v)
  PROVE  /\ FilesInv' /\ FilesGrow /\ MemoryInv' /\ LogsRestore(v)
         /\ \A o \in DOMAIN Found(v) : Latest(o)' = Playback(o, Found(v)[o])
<1>1. /\ version \in Nat /\ metadata \in [Objects -> Int] /\ FirstRestored \in {-1, 0}
      /\ version' = version + 1 /\ delta' = delta /\ session' = session
  BY DEF RowsInv, FirstRestored, RestoreGraph
<1>2. v \in -1..version
  BY <1>1
<1>3. LogsRestore(v)
  BY RestoreLogs
<1>4. DOMAIN Found(v) \subseteq Objects /\ \A o \in DOMAIN Found(v) : Found(v)[o] \in 0..metadata[o]
  BY <1>2, FoundStored
<1>5. PICK S : S = Stale(v)
  OBVIOUS
<1>6. S \subseteq DOMAIN Found(v) /\ S \subseteq Objects
      /\ S = {o \in DOMAIN Found(v) : Found(v)[o] # CurrentVersion(o)}
  BY <1>4, <1>5, CurrentIs DEF Stale
<1>7. PICK next : next = [o \in S |-> CurrentVersion(o) + 1]
  OBVIOUS
<1>8. PICK content : content = [o \in S |-> Playback(o, Found(v)[o])]
  OBVIOUS
<1>9. /\ registered' = [o \in Objects |->
            IF o \in S THEN [version |-> next[o], content |-> content[o]]
            ELSE IF o \in DOMAIN Found(v) THEN registered[o]
            ELSE nil]
       /\ fullSave' = [o \in Objects |->
            IF o \in S THEN Over(Entry(next[o], content[o]), fullSave[o]) ELSE fullSave[o]]
  BY <1>6, <1>7, <1>8 DEF RestoreGraph
<1>10. metadata' = [o \in Objects |-> IF o \in S THEN metadata[o] + 1 ELSE metadata[o]]
  BY <1>3, <1>5 DEF LogsRestore
<1>11. ASSUME NEW o \in S
       PROVE  /\ Writes(o) /\ registered'[o] = [version |-> metadata'[o], content |-> Latest(o)']
              /\ Latest(o)' = Playback(o, Found(v)[o])
  <2>1. o \in Objects /\ next[o] = metadata[o] + 1 /\ metadata'[o] = metadata[o] + 1
    BY <1>6, <1>7, <1>10, CurrentIs
  <2>2. PICK n \in 0..metadata[o] : n = Found(v)[o]
    BY <1>4, <1>6
  <2>3. PICK x : x = Playback(o, n)
    OBVIOUS
  <2>4. content[o] = x
    BY <2>2, <2>3, <1>8
  <2>5. Files(fullSave[o], delta[o], metadata[o], 1..version)
    BY <2>1 DEF FilesInv
  <2>6. x \in Seq(1..version)
    BY <2>3, <2>5, PlayType, PlaybackIs
  <2>7. 1..version \subseteq 1..version'
    BY <1>1
  <2>8. x \in Seq(1..version')
    BY <2>6, <2>7, MoreMessages
  <2>9. /\ fullSave'[o] = Over(Entry(metadata[o] + 1, x), fullSave[o])
        /\ delta'[o] = delta[o]
        /\ registered'[o] = [version |-> metadata[o] + 1, content |-> x]
    BY <2>1, <2>4, <1>1, <1>9
  <2>10. Writes(o) /\ Latest(o)' = x
    BY <2>1, <2>8, <2>9, <1>1, SnapshotFiles
  <2>11. QED
    BY <2>1, <2>2, <2>3, <2>9, <2>10
<1>12. ASSUME NEW o \in Objects \ S
       PROVE  Stays(o) /\ registered'[o] \in {registered[o], nil}
  <2>1. fullSave'[o] = fullSave[o] /\ delta'[o] = delta[o] /\ metadata'[o] = metadata[o]
    BY <1>1, <1>9, <1>10
  <2>2. QED
    BY <2>1, <1>9 DEF Stays
<1>13. FilesInv' /\ FilesGrow
  <2>1. fullSave' = [q \in Objects |-> fullSave'[q]] /\ delta' = [q \in Objects |-> delta'[q]]
    BY <1>1, <1>9 DEF FilesInv
  <2>2. version' \in Nat /\ version <= version'
    BY <1>1
  <2>3. QED
    BY <2>1, <2>2, <1>1, <1>11, <1>12, FilesStep
<1>14. ASSUME NEW o \in Objects
       PROVE  registered'[o] = nil \/ registered'[o] = [version |-> metadata'[o], content |-> Latest(o)']
  <2>1. CASE o \in S
    BY <2>1, <1>11
  <2>2. CASE o \notin S
    <3>1. registered'[o] \in {registered[o], nil} /\ metadata'[o] = metadata[o] /\ Latest(o)' = Latest(o)
      BY <2>2, <1>12, LatestStays DEF Stays
    <3>2. QED
      BY <3>1 DEF MemoryInv
  <2>3. QED
    BY <2>1, <2>2
<1>15. MemoryInv'
  BY <1>1, <1>14 DEF MemoryInv
<1>16. ASSUME NEW o \in DOMAIN Found(v) PROVE Latest(o)' = Playback(o, Found(v)[o])
  <2>1. CASE o \in S
    BY <2>1, <1>11
  <2>2. CASE o \notin S
    <3>1. o \in Objects /\ Found(v)[o] = metadata[o] /\ metadata[o] # -1
      BY <2>2, <1>1, <1>4, <1>6, CurrentIs
    <3>2. Latest(o)' = Latest(o)
      BY <2>2, <3>1, <1>12, LatestStays
    <3>3. QED
      BY <3>1, <3>2 DEF Latest
  <2>3. QED
    BY <2>1, <2>2
<1>17. QED
  BY <1>3, <1>13, <1>15, <1>16

LEMMA KeepsInit == Init => FilesInv /\ MemoryInv
<1> SUFFICES ASSUME Init PROVE FilesInv /\ MemoryInv
  OBVIOUS
<1>1. 0..(-1) = {} /\ 1..(-1) = {}
  OBVIOUS
<1>2. PICK e : e = <<>>
  OBVIOUS
<1>3. DOMAIN e = {}
  BY <1>2
<1>4. ASSUME NEW o \in Objects
      PROVE  metadata[o] \in -1..version - 1 /\ Files(fullSave[o], delta[o], metadata[o], 1..version)
  <2>1. fullSave[o] = e /\ delta[o] = e /\ metadata[o] = -1 /\ version = 0
    BY <1>2 DEF Init
  <2>2. QED
    BY <2>1, <1>1, <1>3 DEF Files
<1>5. FilesInv
  BY <1>4 DEF FilesInv, Init
<1>6. MemoryInv
  BY DEF MemoryInv, Init
<1>7. QED
  BY <1>5, <1>6

\* -undo and -redo go to a past version.
LEMMA UndoRange ==
  ASSUME RowsInv, CursorInv, Undo
  PROVE  Misread \/ \E v \in FirstRestored..version - 1 : RestoreGraph(v)
<1>1. PICK v : v = (IF firstUndoVersion = -1 THEN version ELSE cursor) - 1
  OBVIOUS
<1>2. version \in Nat /\ cursor \in Int /\ firstUndoVersion \in Int /\ -1 <= cursor
      /\ (firstUndoVersion # -1 => cursor + 1 < version)
  BY DEF RowsInv, CursorInv, RedoComesBack
<1>3. v >= FirstRestored
  BY <1>1 DEF Undo, FirstRestored
<1>4. FirstRestored \in {-1, 0} /\ v \in Int
  BY <1>1, <1>2 DEF FirstRestored
<1>5. v \in FirstRestored..version - 1
  BY <1>1, <1>2, <1>3, <1>4
<1>6. Misread \/ RestoreGraph(v)
  BY <1>1 DEF Undo
<1>7. QED
  BY <1>5, <1>6

LEMMA RedoRange ==
  ASSUME RowsInv, CursorInv, Redo
  PROVE  Misread \/ \E v \in FirstRestored..version - 1 : RestoreGraph(v)
<1>1. PICK v : v = cursor + 1
  OBVIOUS
<1>2. version \in Nat /\ cursor \in Int /\ -1 <= cursor /\ cursor + 1 < version
  BY DEF RowsInv, CursorInv, RedoComesBack, Redo
<1>3. FirstRestored \in {-1, 0}
  BY DEF FirstRestored
<1>4. v \in FirstRestored..version - 1
  BY <1>1, <1>2, <1>3
<1>5. Misread \/ RestoreGraph(v)
  BY <1>1 DEF Redo
<1>6. QED
  BY <1>4, <1>5

LEMMA KeepsNext ==
  Plain /\ RowsInv /\ InstanceInv /\ CursorInv /\ FilesInv /\ MemoryInv /\ [Next]_vars =>
    FilesInv' /\ FilesGrow /\ MemoryInv'
<1> SUFFICES ASSUME Plain, RowsInv, InstanceInv, CursorInv, FilesInv, MemoryInv, [Next]_vars
             PROVE  FilesInv' /\ FilesGrow /\ MemoryInv'
  OBVIOUS
<1>1. CASE \E o \in Objects : Register(o) \/ Load(o) \/ Unregister(o)
  BY <1>1, MemoryKeeps
<1>2. CASE \E o \in Objects : Insert(o)
  BY <1>2, InsertKeeps
<1>3. ASSUME NEW o \in Objects, NEW p \in Nested, Change(o, p)
      PROVE  FilesInv' /\ FilesGrow /\ MemoryInv'
  <2>1. o \in Loaded /\ p = nil /\ session = <<>> /\ Record(o, nil)
    BY <1>3 DEF Change, Plain, MemoryInv
  <2>2. CASE metadata[o] = -1
    BY <2>1, <2>2, FirstMessageKeeps
  <2>3. CASE metadata[o] # -1
    BY <2>1, <2>3, MessageKeeps
  <2>4. QED
    BY <2>2, <2>3
<1>4. CASE \E o \in Objects, edited \in BOOLEAN : Save(o, edited)
  BY <1>4, SaveKeeps
<1>5. CASE \E o \in Objects, v \in 0..MaxVersion : RestoreObject(o, v)
  BY <1>5, RestoreObjectKeeps
<1>6. ASSUME NEW v \in FirstRestored..version - 1, RestoreGraph(v)
      PROVE  FilesInv' /\ FilesGrow /\ MemoryInv'
  BY <1>6, RestoreKeeps
<1>7. ASSUME NEW v \in 0..MaxVersion, RestoreToVersion(v)
      PROVE  FilesInv' /\ FilesGrow /\ MemoryInv'
  <2>1. v \in FirstRestored..version - 1
    BY <1>7 DEF RestoreToVersion, RowsInv, FirstRestored
  <2>2. Misread \/ RestoreGraph(v)
    BY <1>7 DEF RestoreToVersion
  <2>3. QED
    BY <2>1, <2>2, <1>6, MisreadKeeps
<1>8. CASE Undo
  BY <1>8, <1>6, MisreadKeeps, UndoRange
<1>9. CASE Redo
  BY <1>9, <1>6, MisreadKeeps, RedoRange
<1>10. CASE Restart
  BY <1>10, RestartKeeps
<1>11. CASE UNCHANGED vars
  <2>1. version' = version /\ UNCHANGED stored /\ session' = session /\ registered' = registered
    BY <1>11 DEF vars
  <2>2. version \in Nat /\ version <= version'
    BY <2>1 DEF RowsInv
  <2>3. QED
    BY <2>1, <2>2, QuietKeeps
<1>12. QED
  BY <1>1, <1>2, <1>3, <1>4, <1>5, <1>7, <1>8, <1>9, <1>10, <1>11 DEF Next

------------------------------------------------------------------------------
(* The past is kept. *)

\* What was seen is what the rows and the files give.
PastInv == seen = [v \in 1..version |-> Restored(v)]

HistoryInv ==
  /\ RowsInv /\ InstanceInv /\ CursorInv
  /\ CurrentInv /\ LoggedInv
  /\ FilesInv /\ MemoryInv

\* The client sees the graph of the version of the context.
ViewInv == \A v : v = version => View = Restored(v)

LEMMA ViewIs == HistoryInv => ViewInv
<1> SUFFICES ASSUME HistoryInv PROVE View = Restored(version)
  BY DEF ViewInv
<1>1. RowsInv /\ MemoryInv /\ CurrentInv
  BY DEF HistoryInv
<1>2. version \in -1..version
  BY <1>1 DEF RowsInv
<1>3. PICK f : f = Found(version)
  OBVIOUS
<1>4. ASSUME NEW o \in DOMAIN f
      PROVE  /\ f[o] = metadata[o]
             /\ registered[o] # nil => registered[o].content = Playback(o, metadata[o])
  <2>1. o \in Objects /\ f[o] \in 0..metadata[o] /\ f[o] = metadata[o]
    BY <1>1, <1>2, <1>3, FoundStored DEF CurrentInv
  <2>2. metadata[o] # -1
    BY <2>1
  <2>3. ASSUME registered[o] # nil PROVE registered[o].content = Latest(o)
    BY <2>1, <2>3, <1>1, InstanceIs DEF Loaded
  <2>4. QED
    BY <2>1, <2>2, <2>3 DEF Latest
<1>5. View = [o \in DOMAIN f |->
         IF registered[o] # nil THEN registered[o].content ELSE Playback(o, metadata[o])]
  BY <1>3 DEF View
<1>6. Restored(version) = [o \in DOMAIN f |-> Playback(o, f[o])]
  BY <1>3 DEF Restored
<1>7. QED
  BY <1>4, <1>5, <1>6

LEMMA HistoryInit == Init => HistoryInv /\ PastInv
<1> SUFFICES ASSUME Init PROVE HistoryInv /\ PastInv
  OBVIOUS
<1>1. HistoryInv
  BY VersionsInit, CurrentInit, KeepsInit DEF HistoryInv
<1>2. PastInv
  BY DEF PastInv, Init
<1>3. QED
  BY <1>1, <1>2

LEMMA HistoryNext ==
  Plain /\ HistoryInv /\ [Next]_vars => HistoryInv' /\ Grows /\ FilesGrow /\ Logs
<1> SUFFICES ASSUME Plain, HistoryInv, [Next]_vars
             PROVE  HistoryInv' /\ Grows /\ FilesGrow /\ Logs
  OBVIOUS
<1>1. RowsInv /\ InstanceInv /\ CursorInv /\ CurrentInv /\ LoggedInv /\ FilesInv /\ MemoryInv
  BY DEF HistoryInv
<1>2. RowsInv' /\ InstanceInv' /\ CursorInv' /\ Grows /\ Logs
  BY <1>1, VersionsNext, StepLogs
<1>3. CurrentInv' /\ LoggedInv'
  BY <1>1, <1>2, CurrentNext
<1>4. FilesInv' /\ FilesGrow /\ MemoryInv'
  BY <1>1, KeepsNext
<1>5. QED
  BY <1>2, <1>3, <1>4 DEF HistoryInv

LEMMA NextObserved == Next => Observed
BY DEF Next, Register, Insert, Load, Unregister, Change, Save, RestoreObject, RestoreToVersion,
       Undo, Redo, Restart

LEMMA PastNext ==
  HistoryInv /\ HistoryInv' /\ Grows /\ FilesGrow /\ PastInv /\ [Next]_vars => PastInv'
<1> SUFFICES ASSUME HistoryInv, HistoryInv', Grows, FilesGrow, PastInv, [Next]_vars
             PROVE  PastInv'
  OBVIOUS
<1>1. version \in Nat /\ version' \in Nat /\ version <= version'
  BY DEF HistoryInv, RowsInv, Grows
<1>2. \A v \in -1..version : Restored(v)' = Restored(v)
  BY RestoredKept DEF HistoryInv
<1>3. \A v : v = version' => View' = Restored(v)'
  <2>1. ViewInv'
    BY ViewIs, PTL
  <2>2. QED
    BY <2>1 DEF ViewInv
<1>4. \A v \in 1..version : seen[v] = Restored(v)'
  BY <1>1, <1>2 DEF PastInv
<1>5. CASE Observed
  <2>1. seen' = [v \in 1..version' |->
          IF v <= version THEN seen[v] ELSE IF v = version' THEN View' ELSE Restored(v)']
    BY <1>5 DEF Observed
  <2>2. ASSUME NEW v \in 1..version' PROVE seen'[v] = Restored(v)'
    <3>1. CASE v <= version
      <4>1. v \in 1..version
        BY <3>1, <1>1
      <4>2. QED
        BY <3>1, <4>1, <2>1, <1>4
    <3>2. CASE ~(v <= version) /\ v = version'
      BY <3>2, <2>1, <1>3
    <3>3. CASE ~(v <= version) /\ v # version'
      BY <3>3, <2>1
    <3>4. QED
      BY <3>1, <3>2, <3>3
  <2>3. seen' = [v \in 1..version' |-> seen'[v]]
    BY <2>1
  <2>4. QED
    BY <2>2, <2>3 DEF PastInv
<1>6. CASE UNCHANGED vars
  <2>1. seen' = seen /\ version' = version
    BY <1>6 DEF vars
  <2>2. seen' = [v \in 1..version' |-> seen[v]]
    BY <2>1 DEF PastInv
  <2>3. QED
    BY <2>1, <2>2, <1>4 DEF PastInv
<1>7. QED
  BY <1>5, <1>6, NextObserved

LEMMA HistoryCorrect == Plain /\ Spec => [](HistoryInv /\ PastInv)
<1>1. Plain /\ HistoryInv /\ PastInv /\ [Next]_vars => (HistoryInv /\ PastInv)'
  BY HistoryNext, PastNext
<1>2. ASSUME Plain PROVE Spec => [](HistoryInv /\ PastInv)
  <2>1. HistoryInv /\ PastInv /\ [Next]_vars => (HistoryInv /\ PastInv)'
    BY <1>1, <1>2
  <2>2. QED
    BY <2>1, HistoryInit, PTL DEF Spec
<1>3. QED
  BY <1>2

(* The last stored version of an object that was saved plays back to its      *)
(* instance, so unloading it or stopping loses nothing (-objectForUUID: and   *)
(* -unregisterObject: of COObjectContext.m).                                  *)
THEOREM MemoryIsStoredCorrect == Plain /\ Spec => []MemoryIsStored
<1>1. HistoryInv => MemoryIsStored
  <2> SUFFICES ASSUME HistoryInv, NEW o \in Loaded, registered[o].version # -1
               PROVE  /\ registered[o].version = metadata[o]
                      /\ registered[o].content = Playback(o, metadata[o])
    BY DEF MemoryIsStored
  <2>1. MemoryInv
    BY DEF HistoryInv
  <2>2. registered[o].version = metadata[o] /\ registered[o].content = Latest(o)
    BY <2>1, InstanceIs
  <2>3. QED
    BY <2>2 DEF Latest
<1>2. ASSUME Plain PROVE Spec => []MemoryIsStored
  <2>1. Spec => [](HistoryInv /\ PastInv)
    BY <1>2, HistoryCorrect
  <2>2. QED
    BY <2>1, <1>1, PTL
<1>3. QED
  BY <1>2

(* Whatever was recorded, merged, restored, loaded or restarted, the rows and *)
(* the files of every version that was reached give the graph the client had  *)
(* (-findAllObjectVersionsMatchingContextVersion: and -_restoreToVersion: of  *)
(* COObjectContext+GraphRollback.m), and what it sees is the last of them.    *)
THEOREM PastIsKeptCorrect == Plain /\ Spec => []PastIsKept
<1>1. HistoryInv /\ PastInv => PastIsKept
  <2> SUFFICES ASSUME HistoryInv, PastInv PROVE PastIsKept
    OBVIOUS
  <2>1. \A v \in 1..version : Restored(v) = seen[v]
    BY DEF PastInv
  <2>2. View = Restored(version)
    BY ViewIs DEF ViewInv
  <2>3. version \in Nat
    BY DEF HistoryInv, RowsInv
  <2>4. version > 0 => version \in 1..version
    BY <2>3
  <2>5. QED
    BY <2>1, <2>2, <2>4 DEF PastIsKept
<1>2. ASSUME Plain PROVE Spec => []PastIsKept
  <2>1. Spec => [](HistoryInv /\ PastInv)
    BY <1>2, HistoryCorrect
  <2>2. QED
    BY <2>1, <1>1, PTL
<1>3. QED
  BY <1>2

------------------------------------------------------------------------------
(* The context is a versioned graph. *)

LEMMA AppendIs ==
  ASSUME NEW n \in Nat, NEW s, s = [v \in 1..n |-> s[v]],
         NEW t, t = [v \in 1..n + 1 |-> t[v]],
         \A v \in 1..n : t[v] = s[v]
  PROVE  t = Append(s, t[n + 1])
<1> DEFINE S == {t[v] : v \in 1..n + 1}
<1>1. n + 1 \in 1..n + 1 /\ n + 1 \in Nat
  OBVIOUS
<1>2. PICK x \in S : x = t[n + 1]
  BY <1>1
<1>3. \A v \in 1..n : s[v] \in S
  <2> TAKE v \in 1..n
  <2>1. v \in 1..n + 1
    OBVIOUS
  <2>2. t[v] \in S
    BY <2>1
  <2>3. QED
    BY <2>2
<1>4. s \in [1..n -> S] /\ t \in [1..n + 1 -> S]
  BY <1>3
<1> HIDE DEF S
<1>5. s \in Seq(S) /\ Len(s) = n /\ t \in Seq(S) /\ Len(t) = n + 1
  BY <1>1, <1>4
<1>6. PICK u : u = Append(s, x)
  OBVIOUS
<1>7. u \in Seq(S) /\ Len(u) = n + 1 /\ u[n + 1] = x /\ \A v \in 1..n : u[v] = s[v]
  BY <1>5, <1>6
<1>8. \A v \in 1..n + 1 : u[v] = t[v]
  <2> TAKE v \in 1..n + 1
  <2>1. v \in 1..n \/ v = n + 1
    OBVIOUS
  <2>2. QED
    BY <2>1, <1>2, <1>7
<1>9. u = t
  BY <1>5, <1>7, <1>8
<1>10. QED
  BY <1>2, <1>6, <1>9

\* s is a function of 1..n, and t agrees with it there.
Lists(s, n) == s = [v \in 1..n |-> s[v]]
Continues(t, s, n) == \A v \in 1..n : t[v] = s[v]

LEMMA ConcatTwo ==
  ASSUME NEW n \in Nat, NEW s, Lists(s, n), NEW t, Lists(t, n + 2), Continues(t, s, n)
  PROVE  t = s \o <<t[n + 1], t[n + 2]>> /\ Len(t) = n + 2 /\ Len(s) = n
<1> DEFINE S == {t[v] : v \in 1..n + 2}
<1>1. n + 1 \in 1..n + 2 /\ n + 2 \in 1..n + 2 /\ n + 2 \in Nat
  OBVIOUS
<1>2. PICK x, y : x \in S /\ y \in S /\ x = t[n + 1] /\ y = t[n + 2]
  BY <1>1
<1>3. \A v \in 1..n : s[v] \in S
  <2> TAKE v \in 1..n
  <2>1. v \in 1..n + 2
    OBVIOUS
  <2>2. t[v] \in S
    BY <2>1
  <2>3. QED
    BY <2>2 DEF Continues
<1>4. s \in [1..n -> S] /\ t \in [1..n + 2 -> S]
  BY <1>3 DEF Lists
<1> HIDE DEF S
<1>5. s \in Seq(S) /\ Len(s) = n /\ t \in Seq(S) /\ Len(t) = n + 2
  BY <1>1, <1>4
<1>6. PICK w, u : w = <<x, y>> /\ u = s \o w
  OBVIOUS
<1>7. w \in Seq(S) /\ Len(w) = 2 /\ w[1] = x /\ w[2] = y
  BY <1>2, <1>6
<1>8. u \in Seq(S) /\ Len(u) = n + 2 /\ \A v \in 1..n : u[v] = s[v]
  BY <1>5, <1>6, <1>7
<1>9. u[n + 1] = x /\ u[n + 2] = y
  <2>1. \A k \in 1..2 : u[n + k] = w[k]
    BY <1>5, <1>6, <1>7
  <2>2. QED
    BY <2>1, <1>7
<1>10. \A v \in 1..n + 2 : u[v] = t[v]
  <2> TAKE v \in 1..n + 2
  <2>1. v \in 1..n \/ v = n + 1 \/ v = n + 2
    OBVIOUS
  <2>2. QED
    BY <2>1, <1>2, <1>8, <1>9 DEF Continues
<1>11. u = t
  BY <1>5, <1>8, <1>10
<1>12. QED
  BY <1>2, <1>5, <1>6, <1>11

\* The graph of the versioned graph, and how it came to each version.
Graph == IF version = 0 THEN NotFound ELSE seen[version]
Origin == [v \in 1..version |-> IF IsRestorePoint(v) THEN RestoredVersion(v) ELSE -1]

GraphInv ==
  /\ \A v : v = version => Graph = Restored(v)
  /\ \A v \in 0..version : VG!At(v) = Restored(v)
  /\ DOMAIN seen = 1..version
  /\ seen = [v \in 1..version |-> seen[v]]

LEMMA GraphIs == HistoryInv /\ PastInv => GraphInv
<1> SUFFICES ASSUME HistoryInv, PastInv PROVE GraphInv
  OBVIOUS
<1>1. version \in Nat /\ RowsInv
  BY DEF HistoryInv, RowsInv
<1>2. Restored(0) = NotFound /\ NotFound = VG!Nothing
  <2>1. FoundEquation
    BY <1>1, RowsGoBack, FoundIs
  <2>2. Found(0) = NotFound
    BY <2>1, <1>1 DEF FoundEquation
  <2>3. QED
    BY <2>2 DEF Restored, NotFound, VG!Nothing
<1>3. \A v \in 1..version : seen[v] = Restored(v)
  BY DEF PastInv
<1>4. Graph = Restored(version)
  <2>1. CASE version = 0
    BY <2>1, <1>2 DEF Graph
  <2>2. CASE version # 0
    BY <2>2, <1>1, <1>3 DEF Graph
  <2>3. QED
    BY <2>1, <2>2
<1>5. \A v \in 0..version : VG!At(v) = Restored(v)
  <2> TAKE v \in 0..version
  <2>1. CASE v = 0
    BY <2>1, <1>2 DEF VG!At
  <2>2. CASE v # 0
    BY <2>2, <1>1, <1>3 DEF VG!At
  <2>3. QED
    BY <2>1, <2>2
<1>6. DOMAIN seen = 1..version /\ seen = [v \in 1..version |-> seen[v]]
  BY DEF PastInv
<1>7. QED
  BY <1>4, <1>5, <1>6 DEF GraphInv

\* What the client saw was made of messages of versions that were past.
LEMMA SeenIs ==
  ASSUME HistoryInv, PastInv, NEW v \in 1..version
  PROVE  /\ DOMAIN seen[v] = DOMAIN Found(v) /\ DOMAIN seen[v] \subseteq Objects
         /\ \A o \in DOMAIN seen[v] : /\ seen[v][o] = Playback(o, Found(v)[o])
                                      /\ Found(v)[o] \in 0..metadata[o]
                                      /\ seen[v][o] \in Seq(1..version)
<1>1. RowsInv /\ FilesInv /\ version \in Nat
  BY DEF HistoryInv, RowsInv
<1>2. v \in -1..version
  OBVIOUS
<1>3. seen[v] = [o \in DOMAIN Found(v) |-> Playback(o, Found(v)[o])]
  BY DEF PastInv, Restored
<1>4. DOMAIN Found(v) \subseteq Objects /\ \A o \in DOMAIN Found(v) : Found(v)[o] \in 0..metadata[o]
  BY <1>1, <1>2, FoundStored
<1>5. ASSUME NEW o \in DOMAIN Found(v) PROVE seen[v][o] \in Seq(1..version)
  <2>1. PICK n \in 0..metadata[o] : n = Found(v)[o]
    BY <1>4
  <2>2. Files(fullSave[o], delta[o], metadata[o], 1..version)
    BY <1>1, <1>4 DEF FilesInv
  <2>3. Playback(o, n) \in Seq(1..version)
    BY <2>2, PlayType, PlaybackIs
  <2>4. QED
    BY <2>1, <2>3, <1>3
<1>6. QED
  BY <1>3, <1>4, <1>5

\* An object that was never saved was in no version.
LEMMA NeverSeen ==
  ASSUME HistoryInv, PastInv, NEW o \in Objects, metadata[o] = -1, NEW g
  PROVE  VG!IsNew(o, g) /\ o \notin DOMAIN Graph
<1>1. version \in Nat
  BY DEF HistoryInv, RowsInv
<1>2. \A v \in 1..version : o \notin DOMAIN seen[v]
  <2> TAKE v \in 1..version
  <2> SUFFICES ASSUME o \in DOMAIN seen[v] PROVE FALSE
    OBVIOUS
  <2>1. Found(v)[o] \in 0..-1
    BY SeenIs
  <2>2. QED
    BY <2>1
<1>3. DOMAIN seen = 1..version
  BY DEF PastInv
<1>4. VG!IsNew(o, g)
  BY <1>2, <1>3 DEF VG!IsNew
<1>5. o \notin DOMAIN Graph
  BY <1>1, <1>2 DEF Graph, NotFound
<1>6. QED
  BY <1>4, <1>5

\* A message of a new version is in no content that was seen.
LEMMA NewMessage ==
  ASSUME HistoryInv, PastInv, NEW o \in Objects, NEW g, NEW l \in Seq(1..version),
         g[o] = Append(l, version + 1)
  PROVE  VG!IsNew(o, g)
<1>1. version \in Nat
  BY DEF HistoryInv, RowsInv
<1>2. DOMAIN seen = 1..version
  BY DEF PastInv
<1>3. PICK x : x = Append(l, version + 1)
  OBVIOUS
<1>4. x \notin Seq(1..version)
  <2>1. Len(x) = Len(l) + 1 /\ x[Len(l) + 1] = version + 1 /\ Len(l) \in Nat
    BY <1>3
  <2> SUFFICES ASSUME x \in Seq(1..version) PROVE FALSE
    OBVIOUS
  <2>2. Len(l) + 1 \in 1..Len(x)
    BY <2>1
  <2>3. x[Len(l) + 1] \in 1..version
    <3>1. \A K : x \in Seq(K) => \A i \in 1..Len(x) : x[i] \in K
      OBVIOUS
    <3>2. QED
      BY <2>2, <3>1
  <2>4. QED
    BY <2>1, <2>3, <1>1
<1>5. \A v \in 1..version : o \in DOMAIN seen[v] => seen[v][o] # x
  BY <1>4, SeenIs
<1>6. QED
  BY <1>2, <1>3, <1>5 DEF VG!IsNew

\* A version of an object was seen.
LEMMA OldContent ==
  ASSUME HistoryInv, PastInv, NEW o \in Objects, NEW n \in 0..metadata[o], NEW g,
         g[o] = Playback(o, n)
  PROVE  ~VG!IsNew(o, g)
<1>1. DOMAIN seen = 1..version
  BY DEF PastInv
<1>2. PICK v \in 1..version : LoggedIn(o, n, v)
  BY DEF HistoryInv, LoggedInv
<1>3. o \in DOMAIN seen[v] /\ seen[v][o] = Playback(o, n)
  BY <1>2, SeenIs DEF LoggedIn
<1>4. QED
  BY <1>1, <1>3 DEF VG!IsNew

\* The old versions of the versioned graph stay.
LEMMA OldVersions ==
  ASSUME RowsInv, RowsInv', Grows, FilesInv, FilesGrow, PastInv, PastInv'
  PROVE  \A v \in 1..version : seen'[v] = seen[v] /\ Origin'[v] = Origin[v]
<1> SUFFICES ASSUME NEW v \in 1..version
             PROVE  seen'[v] = seen[v] /\ Origin'[v] = Origin[v]
  OBVIOUS
<1>1. v \in -1..version /\ v \in 1..version'
  BY DEF RowsInv, Grows
<1>2. seen'[v] = Restored(v)' /\ seen[v] = Restored(v)
  BY <1>1 DEF PastInv
<1>3. Restored(v)' = Restored(v)
  BY <1>1, RestoredKept
<1>4. Origin[v] = IF IsRestorePoint(v) THEN RestoredVersion(v) ELSE -1
  BY DEF Origin
<1>5. Origin'[v] = IF IsRestorePoint(v)' THEN RestoredVersion(v)' ELSE -1
  BY <1>1 DEF Origin
<1>6. /\ IsRestorePoint(v)' <=> IsRestorePoint(v)
      /\ IsRestorePoint(v) => RestoredVersion(v)' = RestoredVersion(v)
  BY RowsKept
<1>7. QED
  BY <1>2, <1>3, <1>4, <1>5, <1>6

\* A new version of one object.
LEMMA OneVersion ==
  ASSUME HistoryInv, HistoryInv', PastInv, PastInv', Grows, FilesGrow,
         NEW o \in Objects, LogsOne(o)
  PROVE  /\ VG!ChangesOnly(o, Graph, Graph')
         /\ Graph'[o] = Latest(o)'
         /\ seen' = Append(seen, Graph')
         /\ Origin' = Append(Origin, -1)
<1>1. /\ RowsInv /\ RowsInv' /\ FilesInv /\ version \in Nat /\ version' = version + 1
      /\ metadata \in [Objects -> Int] /\ version \in -1..version
      /\ version' # 0
  BY DEF HistoryInv, RowsInv, LogsOne
<1>2. GraphInv /\ GraphInv'
  BY GraphIs, PTL
<1>3. PICK c, m : c = version + 1 /\ m = metadata[o] + 1
  OBVIOUS
<1>4. c \in 1..version' /\ ~IsRestorePoint(c)' /\ Found(c)' = Over(Entry(o, m), Found(version))
  BY <1>1, <1>3, FoundOne
<1>5. PICK f, g : f = Found(version) /\ g = Found(c)'
  OBVIOUS
<1>6. DOMAIN g = {o} \cup DOMAIN f
  BY <1>4, <1>5, EntryDomain
<1>7. g[o] = m
  BY <1>4, <1>5, EntryNew
<1>8. \A q \in DOMAIN f : q # o => g[q] = f[q]
  BY <1>4, <1>5, EntryOld
<1>9. Graph' = [q \in DOMAIN g |-> Playback(q, g[q])'] /\ Graph' = seen'[c]
  <2>1. Graph' = Restored(c)'
    BY <1>1, <1>2, <1>3 DEF GraphInv
  <2>2. Restored(c)' = [q \in DOMAIN g |-> Playback(q, g[q])']
    BY <1>5 DEF Restored
  <2>3. Graph' = seen'[c]
    BY <1>1, <1>3 DEF Graph
  <2>4. QED
    BY <2>1, <2>2, <2>3
<1>10. Graph = [q \in DOMAIN f |-> Playback(q, f[q])]
  BY <1>2, <1>5 DEF GraphInv, Restored
<1>11. Graph'[o] = Latest(o)'
  <2>1. metadata'[o] = m /\ m # -1
    <3>1. -1 <= metadata[o]
      BY DEF HistoryInv, InstanceInv
    <3>2. QED
      BY <3>1, <1>1, <1>3 DEF LogsOne
  <2>2. Latest(o)' = Playback(o, m)'
    BY <2>1 DEF Latest
  <2>3. QED
    BY <2>2, <1>6, <1>7, <1>9
<1>12. ASSUME NEW q \in DOMAIN f, q # o PROVE Graph'[q] = Graph[q]
  <2>1. PICK n \in 0..metadata[q] : n = f[q]
    BY <1>1, <1>5, FoundStored
  <2>2. q \in Objects
    BY <1>1, <1>5, FoundStored
  <2>3. Playback(q, n)' = Playback(q, n)
    BY <2>2, <1>1, PlaybackKept
  <2>4. Graph'[q] = Playback(q, n)'
    BY <2>1, <1>6, <1>8, <1>9, <1>12
  <2>5. Graph[q] = Playback(q, n)
    BY <2>1, <1>10
  <2>6. QED
    BY <2>3, <2>4, <2>5
<1>13. VG!ChangesOnly(o, Graph, Graph')
  BY <1>6, <1>9, <1>10, <1>12 DEF VG!ChangesOnly
<1>14. \A v \in 1..version : seen'[v] = seen[v] /\ Origin'[v] = Origin[v]
  BY <1>1, OldVersions
<1>15. seen' = Append(seen, Graph')
  <2>1. seen = [v \in 1..version |-> seen[v]] /\ seen' = [v \in 1..version + 1 |-> seen'[v]]
    BY <1>1, <1>2 DEF GraphInv
  <2>2. seen' = Append(seen, seen'[version + 1])
    BY <2>1, <1>1, <1>14, AppendIs
  <2>3. QED
    BY <2>2, <1>3, <1>9
<1>16. Origin' = Append(Origin, -1)
  <2>1. Origin = [v \in 1..version |-> Origin[v]] /\ Origin' = [v \in 1..version + 1 |-> Origin'[v]]
    BY <1>1 DEF Origin
  <2>2. Origin' = Append(Origin, Origin'[version + 1])
    BY <2>1, <1>1, <1>14, AppendIs
  <2>3. Origin'[c] = -1
    BY <1>4 DEF Origin
  <2>4. QED
    BY <2>2, <2>3, <1>3
<1>17. QED
  BY <1>11, <1>13, <1>15, <1>16

\* The whole graph at a past version.
LEMMA RestoredVersions ==
  ASSUME HistoryInv, HistoryInv', PastInv, PastInv', Grows, FilesGrow,
         NEW v \in 0..version - 1, v \in FirstRestored..version - 1, LogsRestore(v),
         \A o \in DOMAIN Found(v) : Latest(o)' = Playback(o, Found(v)[o])
  PROVE  /\ Graph' = VG!At(v)
         /\ seen' = Append(seen, Graph')
         /\ Origin' = Append(Origin, v)
<1>1. /\ RowsInv /\ RowsInv' /\ FilesInv /\ version \in Nat /\ version' = version + 1
      /\ v \in -1..version /\ v \in 0..version /\ version' # 0
  BY DEF HistoryInv, RowsInv, LogsRestore
<1>2. GraphInv /\ GraphInv'
  BY GraphIs, PTL
<1>3. PICK c : c = version + 1
  OBVIOUS
<1>4. /\ c \in 1..version' /\ IsRestorePoint(c)' /\ RestoredVersion(c)' = v
      /\ DOMAIN Found(c)' = DOMAIN Found(v)
      /\ \A o \in DOMAIN Found(v) : Found(c)'[o] = metadata'[o]
  BY <1>1, <1>3, FoundRestore
<1>5. PICK f, g : f = Found(v) /\ g = Found(c)'
  OBVIOUS
<1>6. Graph' = [q \in DOMAIN g |-> Playback(q, g[q])'] /\ Graph' = seen'[c]
  <2>1. Graph' = Restored(c)'
    BY <1>1, <1>2, <1>3 DEF GraphInv
  <2>2. Restored(c)' = [q \in DOMAIN g |-> Playback(q, g[q])']
    BY <1>5 DEF Restored
  <2>3. Graph' = seen'[c]
    BY <1>1, <1>3 DEF Graph
  <2>4. QED
    BY <2>1, <2>2, <2>3
<1>7. VG!At(v) = [q \in DOMAIN f |-> Playback(q, f[q])]
  BY <1>1, <1>2, <1>5 DEF GraphInv, Restored
<1>8. ASSUME NEW q \in DOMAIN f PROVE Playback(q, g[q])' = Playback(q, f[q])
  <2>1. PICK n : n = g[q]
    OBVIOUS
  <2>2. metadata'[q] = n /\ q \in Objects /\ f[q] \in 0..metadata[q]
    BY <2>1, <1>1, <1>4, <1>5, FoundStored
  <2>3. n # -1
    <3>1. -1 <= metadata[q] /\ metadata[q] \in Int
      BY <2>2 DEF HistoryInv, InstanceInv, RowsInv
    <3>2. metadata'[q] \in {metadata[q], metadata[q] + 1} /\ metadata[q] # -1
      BY <2>2, <3>1 DEF LogsRestore
    <3>3. QED
      BY <2>2, <3>1, <3>2
  <2>4. Latest(q)' = Playback(q, n)'
    BY <2>2, <2>3 DEF Latest
  <2>5. QED
    BY <2>1, <2>4, <1>5
<1>9. Graph' = VG!At(v)
  BY <1>4, <1>5, <1>6, <1>7, <1>8
<1>10. \A u \in 1..version : seen'[u] = seen[u] /\ Origin'[u] = Origin[u]
  BY <1>1, OldVersions
<1>11. seen' = Append(seen, Graph')
  <2>1. seen = [u \in 1..version |-> seen[u]] /\ seen' = [u \in 1..version + 1 |-> seen'[u]]
    BY <1>1, <1>2 DEF GraphInv
  <2>2. seen' = Append(seen, seen'[version + 1])
    BY <2>1, <1>1, <1>10, AppendIs
  <2>3. QED
    BY <2>2, <1>3, <1>6
<1>12. Origin' = Append(Origin, v)
  <2>1. Origin = [u \in 1..version |-> Origin[u]] /\ Origin' = [u \in 1..version + 1 |-> Origin'[u]]
    BY <1>1 DEF Origin
  <2>2. Origin' = Append(Origin, Origin'[version + 1])
    BY <2>1, <1>1, <1>10, AppendIs
  <2>3. Origin'[c] = v
    BY <1>4 DEF Origin
  <2>4. QED
    BY <2>2, <2>3, <1>3
<1>13. QED
  BY <1>9, <1>11, <1>12

\* The first two versions of an object.
LEMMA TwoVersions ==
  ASSUME HistoryInv, HistoryInv', PastInv, PastInv', Grows, FilesGrow,
         NEW o \in Objects, LogsTwo(o),
         Latest(o)' = Append(<<>>, version + 2), Playback(o, 0)' = <<>>
  PROVE  VG!FirstChange(o)
<1>1. /\ RowsInv /\ RowsInv' /\ FilesInv /\ version \in Nat /\ version' = version + 2
      /\ metadata[o] = -1 /\ metadata'[o] = 1 /\ version \in -1..version /\ version' # 0
  BY DEF HistoryInv, RowsInv, LogsTwo
<1>2. GraphInv /\ GraphInv'
  BY GraphIs, PTL
<1>3. PICK c, e : c = version + 1 /\ e = version + 2
  OBVIOUS
<1>4. /\ c \in 1..version' /\ ~IsRestorePoint(c)' /\ Found(c)' = Over(Entry(o, 0), Found(version))
      /\ e \in 1..version' /\ ~IsRestorePoint(e)' /\ Found(e)' = Over(Entry(o, 1), Found(c)')
  BY <1>1, <1>3, FoundTwo
<1>5. PICK f, g, h : f = Found(version) /\ g = Found(c)' /\ h = Found(e)'
  OBVIOUS
<1>6. DOMAIN g = {o} \cup DOMAIN f
  BY <1>4, <1>5, EntryDomain
<1>7. g[o] = 0
  BY <1>4, <1>5, EntryNew
<1>8. \A q \in DOMAIN f : q # o => g[q] = f[q]
  BY <1>4, <1>5, EntryOld
<1>9. DOMAIN h = {o} \cup DOMAIN g
  <2>1. h = Over(Entry(o, 1), g)
    BY <1>4, <1>5
  <2>2. QED
    BY <2>1, EntryDomain
<1>10. h[o] = 1
  BY <1>4, <1>5, EntryNew
<1>11. \A q \in DOMAIN g : q # o => h[q] = g[q]
  BY <1>4, <1>5, EntryOld
<1>12. PICK base : base = seen'[c]
  OBVIOUS
<1>13. base = [q \in DOMAIN g |-> Playback(q, g[q])']
  <2>1. seen'[c] = Restored(c)'
    BY <1>4 DEF PastInv
  <2>2. QED
    BY <2>1, <1>5, <1>12 DEF Restored
<1>14. Graph' = [q \in DOMAIN h |-> Playback(q, h[q])'] /\ Graph' = seen'[e]
  <2>1. Graph' = Restored(e)'
    BY <1>1, <1>2, <1>3 DEF GraphInv
  <2>2. Restored(e)' = [q \in DOMAIN h |-> Playback(q, h[q])']
    BY <1>5 DEF Restored
  <2>3. Graph' = seen'[e]
    BY <1>1, <1>3 DEF Graph
  <2>4. QED
    BY <2>1, <2>2, <2>3
<1>15. Graph = [q \in DOMAIN f |-> Playback(q, f[q])]
  BY <1>2, <1>5 DEF GraphInv, Restored
<1>16. base[o] = <<>>
  BY <1>1, <1>6, <1>7, <1>13
<1>17. Graph'[o] = Append(<<>>, e)
  <2>1. Latest(o)' = Playback(o, 1)'
    BY <1>1 DEF Latest
  <2>2. Graph'[o] = Playback(o, 1)'
    BY <1>9, <1>10, <1>14
  <2>3. QED
    BY <2>1, <2>2, <1>3
<1>18. ASSUME NEW q \in DOMAIN f, q # o PROVE base[q] = Graph[q]
  <2>1. PICK n \in 0..metadata[q] : n = f[q]
    BY <1>1, <1>5, FoundStored
  <2>2. q \in Objects
    BY <1>1, <1>5, FoundStored
  <2>3. Playback(q, n)' = Playback(q, n)
    BY <2>2, <1>1, PlaybackKept
  <2>4. base[q] = Playback(q, n)'
    BY <2>1, <1>6, <1>8, <1>13, <1>18
  <2>5. Graph[q] = Playback(q, n)
    BY <2>1, <1>15
  <2>6. QED
    BY <2>3, <2>4, <2>5
<1>19. \A q \in DOMAIN g : q # o => Graph'[q] = base[q]
  BY <1>9, <1>11, <1>13, <1>14
<1>20. VG!ChangesOnly(o, Graph, base)
  BY <1>6, <1>13, <1>15, <1>18 DEF VG!ChangesOnly
<1>21. VG!ChangesOnly(o, base, Graph')
  BY <1>9, <1>13, <1>14, <1>19 DEF VG!ChangesOnly
<1>22. VG!IsNew(o, base) /\ VG!IsNew(o, Graph') /\ o \notin DOMAIN Graph
  BY <1>1, NeverSeen
<1>23. base[o] # Graph'[o]
  <2>1. Append(<<>>, e) # <<>>
    OBVIOUS
  <2>2. QED
    BY <2>1, <1>16, <1>17
<1>24. \A v \in 1..version : seen'[v] = seen[v] /\ Origin'[v] = Origin[v]
  BY <1>1, OldVersions
<1>25. seen' = seen \o <<base, Graph'>> /\ Len(seen') = Len(seen) + 2 /\ seen'[Len(seen) + 1] = base
  <2>1. seen = [v \in 1..version |-> seen[v]] /\ seen' = [v \in 1..version + 2 |-> seen'[v]]
    BY <1>1, <1>2 DEF GraphInv
  <2>2. /\ seen' = seen \o <<seen'[version + 1], seen'[version + 2]>>
        /\ Len(seen') = version + 2 /\ Len(seen) = version
    <3>1. PICK n, s, t : n = version /\ s = seen /\ t = seen'
      OBVIOUS
    <3>2. n \in Nat /\ Lists(s, n) /\ Lists(t, n + 2) /\ Continues(t, s, n)
      BY <3>1, <2>1, <1>1, <1>24 DEF Lists, Continues
    <3>3. t = s \o <<t[n + 1], t[n + 2]>> /\ Len(t) = n + 2 /\ Len(s) = n
      BY <3>2, ConcatTwo
    <3>4. QED
      BY <3>1, <3>3
  <2>3. QED
    BY <2>2, <1>3, <1>12, <1>14
<1>26. Origin' = Origin \o <<-1, -1>>
  <2>1. Origin = [v \in 1..version |-> Origin[v]] /\ Origin' = [v \in 1..version + 2 |-> Origin'[v]]
    BY <1>1 DEF Origin
  <2>2. Origin' = Origin \o <<Origin'[version + 1], Origin'[version + 2]>>
    <3>1. PICK n, s, t : n = version /\ s = Origin /\ t = Origin'
      OBVIOUS
    <3>2. n \in Nat /\ Lists(s, n) /\ Lists(t, n + 2) /\ Continues(t, s, n)
      BY <3>1, <2>1, <1>1, <1>24 DEF Lists, Continues
    <3>3. t = s \o <<t[n + 1], t[n + 2]>> /\ Len(t) = n + 2 /\ Len(s) = n
      BY <3>2, ConcatTwo
    <3>4. QED
      BY <3>1, <3>3
  <2>3. Origin'[c] = -1 /\ Origin'[e] = -1
    BY <1>4 DEF Origin
  <2>4. QED
    BY <2>2, <2>3, <1>3
<1>27. QED
  BY <1>12, <1>20, <1>21, <1>22, <1>23, <1>25, <1>26 DEF VG!FirstChange, Graph, Origin

\* Nothing that the versioned graph shows.
LEMMA SameVersions ==
  ASSUME HistoryInv, HistoryInv', PastInv, PastInv', Grows, FilesGrow,
         version' = version
  PROVE  UNCHANGED <<Graph, seen, Origin>>
<1>1. /\ RowsInv /\ RowsInv' /\ FilesInv /\ version \in Nat
  BY DEF HistoryInv, RowsInv
<1>2. \A v \in 1..version : seen'[v] = seen[v] /\ Origin'[v] = Origin[v]
  BY <1>1, OldVersions
<1>3. seen = [v \in 1..version |-> seen[v]] /\ seen' = [v \in 1..version' |-> seen'[v]]
  BY DEF PastInv
<1>4. seen' = seen
  BY <1>2, <1>3
<1>5. Origin = [v \in 1..version |-> Origin[v]] /\ Origin' = [v \in 1..version' |-> Origin'[v]]
  BY DEF Origin
<1>6. Origin' = Origin
  BY <1>2, <1>5
<1>7. Graph' = Graph
  BY <1>4 DEF Graph, NotFound
<1>8. QED
  BY <1>4, <1>6, <1>7

\* What every step of the refinement knows.
LEMMA StepFacts ==
  Plain /\ HistoryInv /\ PastInv /\ [Next]_vars =>
    HistoryInv' /\ PastInv' /\ Grows /\ FilesGrow
BY HistoryNext, PastNext

\* A logged version of one object: a change when its content is new.
LEMMA OneRefines ==
  ASSUME HistoryInv, HistoryInv', PastInv, PastInv', Grows, FilesGrow,
         NEW o \in Objects, LogsOne(o)
  PROVE  /\ VG!IsNew(o, Graph') => VG!Change(o)
         /\ ~VG!IsNew(o, Graph') => VG!Recall(o)
<1>1. /\ VG!ChangesOnly(o, Graph, Graph')
      /\ seen' = Append(seen, Graph')
      /\ Origin' = Append(Origin, -1)
  BY OneVersion
<1>2. ASSUME VG!IsNew(o, Graph') PROVE VG!Change(o)
  BY <1>1, <1>2 DEF VG!Change, Graph, Origin
<1>3. ASSUME ~VG!IsNew(o, Graph') PROVE VG!Recall(o)
  BY <1>1, <1>3 DEF VG!Recall, Graph, Origin
<1>4. QED
  BY <1>2, <1>3

\* Without -undo past the first version, every restore goes through.
LEMMA AlwaysRestores ==
  ASSUME HistoryInv, ~UndoesPastFirst, NEW v \in -1..version
  PROVE  ~IsMisread(v)
BY NotMisread DEF HistoryInv

LEMMA RestoreRefines ==
  ASSUME HistoryInv, HistoryInv', PastInv, PastInv', Grows, FilesGrow,
         NEW v \in 0..version - 1, v \in FirstRestored..version - 1, RestoreGraph(v)
  PROVE  VG!RestoreGraph(v) /\ v \in 0..Len(seen)
<1>1. LogsRestore(v) /\ \A o \in DOMAIN Found(v) : Latest(o)' = Playback(o, Found(v)[o])
  BY RestoreKeeps DEF HistoryInv
<1>2. Graph' = VG!At(v) /\ seen' = Append(seen, Graph') /\ Origin' = Append(Origin, v)
  BY <1>1, RestoredVersions
<1>3. version \in Nat /\ Len(seen) = version
  BY DEF HistoryInv, RowsInv, PastInv
<1>4. v \in 0..Len(seen)
  BY <1>3
<1>5. QED
  BY <1>2, <1>4 DEF VG!RestoreGraph, Graph, Origin

\* The step of an undo or a redo.
LEMMA SequenceRestores ==
  ASSUME HistoryInv, ~UndoesPastFirst, Undo \/ Redo
  PROVE  \E v \in 0..version - 1 : v \in FirstRestored..version - 1 /\ RestoreGraph(v)
<1>1. PICK v : v = IF Undo THEN (IF firstUndoVersion = -1 THEN version ELSE cursor) - 1
                   ELSE cursor + 1
  OBVIOUS
<1>2. version \in Nat /\ cursor \in Int /\ firstUndoVersion \in Int /\ -1 <= cursor
      /\ (firstUndoVersion # -1 => cursor + 1 < version)
  BY DEF HistoryInv, RowsInv, CursorInv, RedoComesBack
<1>3. v \in 0..version - 1
  <2>1. CASE Undo
    <3>1. v = (IF firstUndoVersion = -1 THEN version ELSE cursor) - 1 /\ v >= 0
      BY <2>1, <1>1 DEF Undo
    <3>2. QED
      BY <3>1, <1>2
  <2>2. CASE ~Undo
    <3>1. v = cursor + 1 /\ firstUndoVersion # -1
      BY <2>2, <1>1 DEF Redo
    <3>2. QED
      BY <3>1, <1>2
  <2>3. QED
    BY <2>1, <2>2
<1>4. v \in -1..version /\ v \in FirstRestored..version - 1
  BY <1>2, <1>3 DEF FirstRestored
<1>5. ~IsMisread(v)
  BY <1>4, AlwaysRestores
<1>6. RestoreGraph(v)
  <2>1. CASE Undo
    BY <2>1, <1>1, <1>5 DEF Undo
  <2>2. CASE ~Undo
    BY <2>2, <1>1, <1>5 DEF Redo
  <2>3. QED
    BY <2>1, <2>2
<1>7. QED
  BY <1>3, <1>4, <1>6

LEMMA RefinementInit == Init => VG!Init
<1> SUFFICES ASSUME Init PROVE VG!Init
  OBVIOUS
<1>1. NotFound = VG!Nothing
  BY DEF NotFound, VG!Nothing
<1>2. version = 0 /\ seen = <<>>
  BY DEF Init
<1>3. Origin = <<>>
  BY <1>2 DEF Origin
<1>4. QED
  BY <1>1, <1>2, <1>3 DEF VG!Init, Origin

LEMMA RefinementNext ==
  Plain /\ ~UndoesPastFirst /\ HistoryInv /\ PastInv /\ [Next]_vars => [VG!Next]_(VG!vars)
<1> SUFFICES ASSUME Plain, ~UndoesPastFirst, HistoryInv, PastInv, [Next]_vars
             PROVE  [VG!Next]_(VG!vars)
  OBVIOUS
<1>1. HistoryInv' /\ PastInv' /\ Grows /\ FilesGrow
  BY StepFacts
<1>2. RowsInv /\ InstanceInv /\ CursorInv /\ FilesInv /\ MemoryInv /\ version \in Nat
  BY DEF HistoryInv, RowsInv
<1>3. ASSUME version' = version PROVE UNCHANGED VG!vars
  <2>1. UNCHANGED <<Graph, seen, Origin>>
    BY <1>1, <1>3, SameVersions
  <2>2. QED
    BY <2>1 DEF VG!vars, Graph, Origin
<1>4. ASSUME NEW o \in Objects, LogsOne(o) PROVE VG!Next
  <2>1. VG!Change(o) \/ VG!Recall(o)
    BY <1>1, <1>4, OneRefines
  <2>2. QED
    BY <2>1 DEF VG!Next
<1>5. ASSUME NEW v \in 0..version - 1, v \in FirstRestored..version - 1, RestoreGraph(v)
      PROVE  VG!Next
  <2>1. VG!RestoreGraph(v) /\ v \in 0..Len(seen)
    BY <1>1, <1>5, RestoreRefines
  <2>2. QED
    BY <2>1 DEF VG!Next
<1>6. CASE \E o \in Objects : Register(o) \/ Load(o) \/ Unregister(o)
  BY <1>6, <1>2, <1>3, MemoryKeeps
<1>7. CASE \E o \in Objects : Insert(o)
  BY <1>7, <1>2, <1>4, InsertKeeps
<1>8. ASSUME NEW o \in Objects, NEW p \in Nested, Change(o, p)
      PROVE  VG!Next
  <2>1. o \in Loaded /\ p = nil /\ session = <<>> /\ Record(o, nil)
    BY <1>2, <1>8 DEF Change, Plain, MemoryInv
  <2>2. CASE metadata[o] = -1
    <3>1. LogsTwo(o) /\ Latest(o)' = Append(<<>>, version + 2) /\ Playback(o, 0)' = <<>>
      BY <2>1, <2>2, <1>2, FirstMessageKeeps
    <3>2. VG!FirstChange(o)
      BY <3>1, <1>1, TwoVersions
    <3>3. QED
      BY <3>2 DEF VG!Next
  <2>3. CASE metadata[o] # -1
    BY <2>1, <2>3, <1>2, <1>4, MessageKeeps
  <2>4. QED
    BY <2>2, <2>3
<1>9. CASE \E o \in Objects, edited \in BOOLEAN : Save(o, edited)
  BY <1>9, <1>2, <1>4, SaveKeeps
<1>10. CASE \E o \in Objects, v \in 0..MaxVersion : RestoreObject(o, v)
  BY <1>10, <1>2, <1>4, RestoreObjectKeeps
<1>11. ASSUME NEW v \in 0..MaxVersion, RestoreToVersion(v) PROVE VG!Next
  <2>1. v \in 0..version - 1 /\ v \in -1..version /\ v \in FirstRestored..version - 1
    BY <1>2, <1>11 DEF RestoreToVersion, FirstRestored
  <2>2. RestoreGraph(v)
    BY <2>1, <1>11, AlwaysRestores DEF RestoreToVersion
  <2>3. QED
    BY <2>1, <2>2, <1>5
<1>12. CASE Undo \/ Redo
  BY <1>12, <1>5, SequenceRestores
<1>13. CASE Restart
  BY <1>13, <1>2, <1>3, RestartKeeps
<1>14. CASE UNCHANGED vars
  BY <1>14, <1>3 DEF vars
<1>15. QED
  BY <1>6, <1>7, <1>8, <1>9, <1>10, <1>11, <1>12, <1>13, <1>14 DEF Next

(* The context implements the versioned graph: every operation that is logged *)
(* is a change, a recall or a restore of it, and the others show nothing.     *)
THEOREM Refinement == Plain /\ ~UndoesPastFirst /\ Spec => ImplementsVersionedGraph
<1> SUFFICES ASSUME Plain, ~UndoesPastFirst PROVE Spec => VG!Spec
  BY DEF ImplementsVersionedGraph
<1>1. HistoryInv /\ PastInv /\ [Next]_vars => [VG!Next]_(VG!vars)
  BY RefinementNext
<1>2. Spec => [](HistoryInv /\ PastInv)
  BY HistoryCorrect
<1>3. QED
  BY <1>1, <1>2, RefinementInit, PTL DEF Spec, VG!Spec

\* Which step of the versioned graph each operation is: a message is never
\* something the object had been through, and a merge always is.
Versioned ==
  /\ \A o \in Objects, p \in Nested : Change(o, p) => VG!Change(o) \/ VG!FirstChange(o)
  /\ \A o \in Objects : Insert(o) => VG!Change(o)
  /\ \A o \in Objects, edited \in BOOLEAN : Save(o, edited) =>
       IF edited \/ metadata[o] = -1 THEN VG!Change(o) ELSE VG!Recall(o)
  /\ \A o \in Objects, v \in 0..MaxVersion : RestoreObject(o, v) => VG!Recall(o)
  /\ \A v \in 0..MaxVersion : RestoreToVersion(v) => VG!RestoreGraph(v)

LEMMA VersionedNext ==
  Plain /\ ~UndoesPastFirst /\ HistoryInv /\ PastInv /\ [Next]_vars => Versioned
<1> SUFFICES ASSUME Plain, ~UndoesPastFirst, HistoryInv, PastInv, [Next]_vars
             PROVE  Versioned
  OBVIOUS
<1>1. HistoryInv' /\ PastInv' /\ Grows /\ FilesGrow
  BY StepFacts
<1>2. RowsInv /\ InstanceInv /\ CursorInv /\ FilesInv /\ MemoryInv /\ version \in Nat
  BY DEF HistoryInv, RowsInv
<1>3. ASSUME NEW o \in Objects, LogsOne(o), metadata[o] = -1 PROVE VG!Change(o)
  BY <1>1, <1>3, NeverSeen, OneRefines
<1>4. ASSUME NEW o \in Objects, LogsOne(o), Latest(o)' = Append(Latest(o), version + 1)
      PROVE  VG!Change(o)
  <2>1. PICK g : g = Graph'
    OBVIOUS
  <2>2. g[o] = Append(Latest(o), version + 1)
    BY <2>1, <1>1, <1>4, OneVersion
  <2>3. Latest(o) \in Seq(1..version)
    BY <1>2, LatestType
  <2>4. VG!IsNew(o, g)
    BY <2>2, <2>3, NewMessage
  <2>5. QED
    BY <2>1, <2>4, <1>1, <1>4, OneRefines
<1>5. ASSUME NEW o \in Objects, LogsOne(o), NEW n \in 0..metadata[o], Latest(o)' = Playback(o, n)
      PROVE  VG!Recall(o)
  <2>1. PICK g : g = Graph'
    OBVIOUS
  <2>2. g[o] = Playback(o, n)
    BY <2>1, <1>1, <1>5, OneVersion
  <2>3. ~VG!IsNew(o, g)
    BY <2>2, OldContent
  <2>4. QED
    BY <2>1, <2>3, <1>1, <1>5, OneRefines
<1>6. ASSUME NEW o \in Objects, NEW p \in Nested, Change(o, p)
      PROVE  VG!Change(o) \/ VG!FirstChange(o)
  <2>1. o \in Loaded /\ p = nil /\ session = <<>> /\ Record(o, nil)
    BY <1>2, <1>6 DEF Change, Plain, MemoryInv
  <2>2. CASE metadata[o] = -1
    <3>1. LogsTwo(o) /\ Latest(o)' = Append(<<>>, version + 2) /\ Playback(o, 0)' = <<>>
      BY <2>1, <2>2, <1>2, FirstMessageKeeps
    <3>2. QED
      BY <3>1, <1>1, TwoVersions
  <2>3. CASE metadata[o] # -1
    BY <2>1, <2>3, <1>2, <1>4, MessageKeeps
  <2>4. QED
    BY <2>2, <2>3
<1>7. ASSUME NEW o \in Objects, Insert(o) PROVE VG!Change(o)
  BY <1>2, <1>3, <1>7, InsertKeeps DEF Insert, IsStored
<1>8. ASSUME NEW o \in Objects, NEW edited \in BOOLEAN, Save(o, edited)
      PROVE  IF edited \/ metadata[o] = -1 THEN VG!Change(o) ELSE VG!Recall(o)
  <2>1. LogsOne(o) /\ Latest(o)' = Saved(o, edited)
    BY <1>2, <1>8, SaveKeeps
  <2>2. CASE metadata[o] = -1
    BY <2>1, <2>2, <1>3
  <2>3. CASE edited
    BY <2>1, <2>3, <1>4 DEF Saved
  <2>4. CASE ~edited /\ metadata[o] # -1
    <3>1. PICK n : n = metadata[o]
      OBVIOUS
    <3>2. n \in 0..metadata[o]
      <4>1. metadata[o] \in -1..version - 1
        BY <1>2 DEF FilesInv
      <4>2. QED
        BY <2>4, <3>1, <4>1, <1>2
    <3>3. Latest(o)' = Playback(o, n)
      BY <2>1, <2>4, <3>1 DEF Saved, Latest
    <3>4. VG!Recall(o)
      BY <2>1, <3>2, <3>3, <1>5
    <3>5. QED
      BY <2>4, <3>4
  <2>5. QED
    BY <2>2, <2>3, <2>4
<1>9. ASSUME NEW o \in Objects, NEW v \in 0..MaxVersion, RestoreObject(o, v)
      PROVE  VG!Recall(o)
  <2>1. LogsOne(o) /\ v \in 0..metadata[o] /\ Latest(o)' = Playback(o, v)
    BY <1>2, <1>9, RestoreObjectKeeps
  <2>2. QED
    BY <2>1, <1>5
<1>10. ASSUME NEW v \in 0..MaxVersion, RestoreToVersion(v) PROVE VG!RestoreGraph(v)
  <2>1. v \in 0..version - 1 /\ v \in -1..version /\ v \in FirstRestored..version - 1
    BY <1>2, <1>10 DEF RestoreToVersion, FirstRestored
  <2>2. RestoreGraph(v)
    BY <2>1, <1>10, AlwaysRestores DEF RestoreToVersion
  <2>3. QED
    BY <2>1, <2>2, <1>1, RestoreRefines
<1>11. QED
  BY <1>6, <1>7, <1>8, <1>9, <1>10 DEF Versioned

(* Operation by operation: a message or a first save gives an object a        *)
(* content no version had (-recordInvocation:, -insertObject:), a merge or a  *)
(* save as it is one it had (-objectByRestoringObject:toVersion:...), and a   *)
(* restore gives the graph of exactly its version (-restoreToVersion:).       *)
THEOREM OperationsCorrect == Plain /\ ~UndoesPastFirst /\ Spec => [][Versioned]_vars
<1> SUFFICES ASSUME Plain, ~UndoesPastFirst PROVE Spec => [][Versioned]_vars
  OBVIOUS
<1>1. HistoryInv /\ PastInv /\ [Next]_vars => [Versioned]_vars
  BY VersionedNext
<1>2. Spec => [](HistoryInv /\ PastInv)
  BY HistoryCorrect
<1>3. QED
  BY <1>1, <1>2, PTL DEF Spec

(* The restore points are never taken for messages while the client does not  *)
(* undo past the first version, whatever messages nest and whatever snapshots *)
(* are taken (the NSAssert3 of -findAllObjectVersionsMatchingContextVersion:).*)
THEOREM RestorePointsCorrect == ~UndoesPastFirst /\ Spec => []RestorePointsRecognized
<1> SUFFICES ASSUME ~UndoesPastFirst PROVE Spec => []RestorePointsRecognized
  OBVIOUS
<1>1. Init => ~raised
  BY DEF Init
<1>2. RowsInv /\ CursorInv /\ ~raised /\ [Next]_vars => ~raised'
  <2> SUFFICES ASSUME RowsInv, CursorInv, ~raised, [Next]_vars PROVE ~raised'
    OBVIOUS
  <2>1. version \in Nat /\ \A v \in -1..version : ~IsMisread(v)
    BY NotMisread DEF RowsInv
  <2>2. raised' = raised \/ (\E v \in 0..MaxVersion : RestoreToVersion(v)) \/ Undo \/ Redo
    BY DEF Next, Register, Insert, Load, Unregister, Change, Record, Ignore, Save, RestoreObject,
           Restart, vars
  <2>3. \A v : RestoreGraph(v) => raised' = raised
    BY DEF RestoreGraph
  <2>4. ASSUME NEW v \in 0..MaxVersion, RestoreToVersion(v) PROVE raised' = raised
    <3>1. v \in -1..version
      BY <2>1, <2>4 DEF RestoreToVersion
    <3>2. QED
      BY <3>1, <2>1, <2>3, <2>4 DEF RestoreToVersion
  <2>5. cursor \in Int /\ -1 <= cursor /\ (firstUndoVersion # -1 => cursor + 1 < version)
    BY DEF CursorInv, RedoComesBack
  <2>6. ASSUME Undo PROVE raised' = raised
    <3>1. PICK v : v = (IF firstUndoVersion = -1 THEN version ELSE cursor) - 1
      OBVIOUS
    <3>2. v >= 0
      BY <2>6, <3>1 DEF Undo
    <3>3. v \in -1..version
      BY <3>1, <3>2, <2>1, <2>5
    <3>4. QED
      BY <2>6, <3>1, <3>3, <2>1, <2>3 DEF Undo
  <2>7. ASSUME Redo PROVE raised' = raised
    <3>1. PICK v : v = cursor + 1
      OBVIOUS
    <3>2. firstUndoVersion # -1
      BY <2>7 DEF Redo
    <3>3. v \in -1..version
      BY <3>1, <3>2, <2>1, <2>5
    <3>4. QED
      BY <2>7, <3>1, <3>3, <2>1, <2>3 DEF Redo
  <2>8. QED
    BY <2>2, <2>4, <2>6, <2>7
<1>3. Spec => []RowsInv /\ []CursorInv
  BY VersionsCorrect, PTL
<1>4. Spec => []~raised
  BY <1>1, <1>2, <1>3, PTL DEF Spec
<1>5. QED
  BY <1>4, PTL DEF RestorePointsRecognized

------------------------------------------------------------------------------
(* The files of an object when operations may have stopped.                   *)

\* f and d are the snapshots and the invocations of an object of version m: each
\* version has its file or both, and there may be files of the next one.
FilesLeft(f, d, m) ==
  /\ m \in Nat \cup {-1}
  /\ 0..m \subseteq DOMAIN f \cup DOMAIN d
  /\ DOMAIN f \subseteq 0..m + 1 /\ DOMAIN d \subseteq 1..m + 1
  /\ \A s \in DOMAIN f : f[s] \in Seq(Nat)
  /\ \A n \in DOMAIN d : d[n] \in Nat

\* f and g have the same files of the versions up to m.
SameUpTo(f, g, m) ==
  \A s \in 0..m : (s \in DOMAIN f <=> s \in DOMAIN g) /\ (s \in DOMAIN f => g[s] = f[s])

\* A version has its files if all those before it have theirs.
HasFiles(f, d, v) == v \in Nat /\ 0..v \subseteq DOMAIN f \cup DOMAIN d

LEMMA HasFilesUpTo ==
  ASSUME NEW f, NEW d, NEW m, FilesLeft(f, d, m), NEW v \in 0..m
  PROVE  HasFiles(f, d, v)
BY DEF FilesLeft, HasFiles

LEMMA LeftBaseIs ==
  ASSUME NEW f, NEW d, NEW m, FilesLeft(f, d, m), NEW v, HasFiles(f, d, v)
  PROVE  /\ Max(Below(f, v)) \in 0..v
         /\ Max(Below(f, v)) \in DOMAIN f
         /\ \A s \in DOMAIN f : s <= v => s <= Max(Below(f, v))
         /\ \A n \in Max(Below(f, v)) + 1..v : n \in DOMAIN d
<1>1. v \in Nat /\ DOMAIN f \subseteq Nat /\ DOMAIN d \subseteq Nat \ {0}
  BY DEF FilesLeft, HasFiles
<1>2. Below(f, v) \in SUBSET (0..v) /\ Below(f, v) \subseteq DOMAIN f
  BY <1>1 DEF Below
<1>3. 0 \in Below(f, v)
  BY <1>1 DEF Below, HasFiles
<1> DEFINE b == Max(Below(f, v))
<1>4. b \in Below(f, v) /\ \A s \in Below(f, v) : s <= b
  BY <1>1, <1>2, <1>3, MaxIs
<1>5. b \in 0..v /\ b \in DOMAIN f
  BY <1>2, <1>4
<1> HIDE DEF b
<1>6. \A s \in DOMAIN f : s <= v => s <= b
  BY <1>4 DEF Below
<1>7. ASSUME NEW n \in b + 1..v PROVE n \in DOMAIN d
  <2>1. n \in 0..v /\ n <= v /\ ~(n <= b)
    BY <1>1, <1>5
  <2>2. n \notin DOMAIN f
    BY <2>1, <1>6
  <2>3. QED
    BY <2>1, <2>2 DEF HasFiles
<1>8. QED
  BY <1>5, <1>6, <1>7 DEF b

LEMMA LeftSinceIs ==
  ASSUME NEW f, NEW d, NEW m, FilesLeft(f, d, m), NEW v \in Nat, NEW b \in 0..v,
         \A n \in b + 1..v : n \in DOMAIN d
  PROVE  Since(d, b, v) \in Seq(Nat) /\ Len(Since(d, b, v)) = v - b
<1>1. v - b \in Nat
  OBVIOUS
<1>2. ASSUME NEW i \in 1..(v - b) PROVE d[b + i] \in Nat
  <2>1. b + i \in b + 1..v
    BY <1>1
  <2>2. QED
    BY <2>1 DEF FilesLeft
<1>3. Since(d, b, v) \in [1..(v - b) -> Nat]
  BY <1>2 DEF Since
<1>4. QED
  BY <1>1, <1>3

LEMMA LeftPlayType ==
  ASSUME NEW f, NEW d, NEW m, FilesLeft(f, d, m), NEW v, HasFiles(f, d, v)
  PROVE  Play(f, d, v) \in Seq(Nat)
<1> DEFINE b == Max(Below(f, v))
<1>1. b \in 0..v /\ b \in DOMAIN f /\ \A n \in b + 1..v : n \in DOMAIN d
  BY LeftBaseIs
<1>2. Play(f, d, v) = f[b] \o Since(d, b, v)
  BY DEF Play
<1> HIDE DEF b
<1>3. f[b] \in Seq(Nat)
  BY <1>1 DEF FilesLeft
<1>4. Since(d, b, v) \in Seq(Nat)
  BY <1>1, LeftSinceIs DEF HasFiles
<1>5. QED
  BY <1>2, <1>3, <1>4

\* Files written above a version do not change its playback.
LEMMA LeftPlayKept ==
  ASSUME NEW f, NEW d, NEW m, FilesLeft(f, d, m), NEW v \in 0..m,
         NEW f2, NEW d2, NEW m2, FilesLeft(f2, d2, m2), SameUpTo(f, f2, m), SameUpTo(d, d2, m)
  PROVE  Play(f2, d2, v) = Play(f, d, v)
<1>1. v \in Nat /\ m \in Nat /\ v <= m
  BY DEF FilesLeft
<1>2. Below(f2, v) = Below(f, v)
  <2>1. ASSUME NEW s \in 0..v PROVE s \in DOMAIN f <=> s \in DOMAIN f2
    BY <1>1 DEF SameUpTo
  <2>2. (\A s \in DOMAIN f : s \in Nat) /\ (\A s \in DOMAIN f2 : s \in Nat)
    BY DEF FilesLeft
  <2>3. QED
    BY <2>1, <2>2, <1>1 DEF Below
<1> DEFINE b == Max(Below(f, v))
<1>3. b \in 0..v /\ b \in DOMAIN f /\ \A n \in b + 1..v : n \in DOMAIN d
  BY LeftBaseIs, HasFilesUpTo
<1>4. Play(f, d, v) = f[b] \o Since(d, b, v) /\ Play(f2, d2, v) = f2[b] \o Since(d2, b, v)
  BY <1>2 DEF Play
<1> HIDE DEF b
<1>5. f2[b] = f[b]
  BY <1>1, <1>3 DEF SameUpTo
<1>6. Since(d2, b, v) = Since(d, b, v)
  <2>1. ASSUME NEW i \in 1..(v - b) PROVE d2[b + i] = d[b + i]
    <3>1. b + i \in b + 1..v /\ b + i \in 0..m
      BY <1>1, <1>3
    <3>2. QED
      BY <3>1, <1>3 DEF SameUpTo
  <2>2. QED
    BY <2>1 DEF Since
<1>7. QED
  BY <1>4, <1>5, <1>6

\* A version that has files is played back.
LEMMA LeftPlayable ==
  ASSUME NEW o \in Objects, FilesLeft(fullSave[o], delta[o], metadata[o]), NEW v \in 0..metadata[o]
  PROVE  IsPlayable(o, v)
<1> DEFINE b == Max(Below(fullSave[o], v))
<1>1. b \in 0..v /\ b \in DOMAIN fullSave[o] /\ \A n \in b + 1..v : n \in DOMAIN delta[o]
  BY LeftBaseIs, HasFilesUpTo
<1> HIDE DEF b
<1>2. v \in Nat
  BY DEF FilesLeft
<1>3. b <= v
  BY <1>1, <1>2
<1>4. QED
  BY <1>1, <1>3 DEF IsPlayable

\* g and e are the files of the versions from m up to k, and maybe of the next one.
LEMMA LeftGrows ==
  ASSUME NEW f, NEW d, NEW m, FilesLeft(f, d, m), NEW k \in Int, m <= k,
         NEW g, DOMAIN g \subseteq m + 1..k + 1, \A s \in DOMAIN g : g[s] \in Seq(Nat),
         NEW e, DOMAIN e \subseteq m + 1..k + 1, 0 \notin DOMAIN e, \A n \in DOMAIN e : e[n] \in Nat,
         m + 1..k \subseteq DOMAIN g \cup DOMAIN e
  PROVE  /\ FilesLeft(Over(g, f), Over(e, d), k)
         /\ SameUpTo(f, Over(g, f), m) /\ SameUpTo(d, Over(e, d), m)
<1>1. m \in Int /\ -1 <= m /\ k \in Nat \cup {-1}
  BY DEF FilesLeft
<1>2. PICK f2, d2 : f2 = Over(g, f) /\ d2 = Over(e, d)
  OBVIOUS
<1>3. /\ DOMAIN f2 = DOMAIN g \cup DOMAIN f
      /\ \A s \in DOMAIN g : f2[s] = g[s]
      /\ \A s \in DOMAIN f : s \notin DOMAIN g => f2[s] = f[s]
  BY <1>2 DEF Over
<1>4. /\ DOMAIN d2 = DOMAIN e \cup DOMAIN d
      /\ \A n \in DOMAIN e : d2[n] = e[n]
      /\ \A n \in DOMAIN d : n \notin DOMAIN e => d2[n] = d[n]
  BY <1>2 DEF Over
<1>5. 0..k \subseteq DOMAIN f2 \cup DOMAIN d2
  <2>1. ASSUME NEW n \in 0..k PROVE n \in 0..m \/ n \in m + 1..k
    BY <1>1
  <2>2. 0..m \subseteq DOMAIN f \cup DOMAIN d
    BY DEF FilesLeft
  <2>3. QED
    BY <2>1, <2>2, <1>3, <1>4
<1>6. DOMAIN f2 \subseteq 0..k + 1 /\ DOMAIN d2 \subseteq 1..k + 1
  <2>1. DOMAIN f \subseteq 0..m + 1 /\ DOMAIN d \subseteq 1..m + 1
    BY DEF FilesLeft
  <2>2. 0..m + 1 \subseteq 0..k + 1 /\ 1..m + 1 \subseteq 1..k + 1 /\ m + 1..k + 1 \subseteq 0..k + 1
    BY <1>1
  <2>3. \A n \in 0..k + 1 : n # 0 => n \in 1..k + 1
    OBVIOUS
  <2>4. QED
    BY <2>1, <2>2, <2>3, <1>3, <1>4
<1>7. \A s \in DOMAIN f2 : f2[s] \in Seq(Nat)
  BY <1>3 DEF FilesLeft
<1>8. \A n \in DOMAIN d2 : d2[n] \in Nat
  BY <1>4 DEF FilesLeft
<1>9. FilesLeft(f2, d2, k)
  BY <1>1, <1>5, <1>6, <1>7, <1>8 DEF FilesLeft
<1>10. ASSUME NEW s \in 0..m PROVE s \notin DOMAIN g /\ s \notin DOMAIN e
  BY <1>1
<1>11. SameUpTo(f, f2, m) /\ SameUpTo(d, d2, m)
  BY <1>3, <1>4, <1>10 DEF SameUpTo
<1>12. QED
  BY <1>2, <1>9, <1>11

LEMMA SameSelf ==
  ASSUME NEW f, NEW m
  PROVE  SameUpTo(f, f, m)
BY DEF SameUpTo

------------------------------------------------------------------------------
(* The store between two writes.                                              *)

IsStore(s) ==
  /\ s = [fullSave |-> s.fullSave, delta |-> s.delta, metadata |-> s.metadata, history |-> s.history]
  /\ s.fullSave = [o \in Objects |-> s.fullSave[o]]
  /\ s.delta = [o \in Objects |-> s.delta[o]]
  /\ s.metadata \in [Objects -> Int]
  /\ s.history \in Seq(AnyRow)

NewRows(s) == Range(s.history) \ Range(history)

\* The files of o in s are those it has and others of new versions.
FilesOK(s, o) ==
  /\ metadata[o] <= s.metadata[o]
  /\ FilesLeft(s.fullSave[o], s.delta[o], s.metadata[o])
  /\ SameUpTo(fullSave[o], s.fullSave[o], metadata[o])
  /\ SameUpTo(delta[o], s.delta[o], metadata[o])

\* A new row is for a new version of an object, and of the next version of the context.
RowLeft(s, row) ==
  /\ row.contextVersion = version + 1
  /\ row.object \in Objects
  /\ row.objectVersion \in metadata[row.object] + 1..s.metadata[row.object]

\* What a stop may leave.
Left(s) ==
  /\ IsStore(s)
  /\ \A o \in Objects : FilesOK(s, o)
  /\ Range(history) \subseteq Range(s.history)
  /\ \A row \in NewRows(s) : RowLeft(s, row)
  /\ \A r1, r2 \in NewRows(s) : r1.object = r2.object => r1 = r2

\* There is no new row for o.
Unlogged(s, o) == \A row \in NewRows(s) : row.object # o

\* A write is to one of the four parts of the store.
LEMMA WrittenSnapshot ==
  ASSUME NEW s, IsStore(s), NEW o \in Objects, NEW v, NEW x
  PROVE  Written(s, SnapshotFile(o, v, x)) =
           [fullSave |-> [s.fullSave EXCEPT ![o] = Over(Entry(v, x), s.fullSave[o])], delta |-> s.delta, metadata |-> s.metadata, history |-> s.history]
<1>1. PICK f, d, m, h : s = [fullSave |-> f, delta |-> d, metadata |-> m, history |-> h]
  BY DEF IsStore
<1>2. s.fullSave = f /\ s.delta = d /\ s.metadata = m /\ s.history = h
  BY <1>1
<1>3. Written(s, SnapshotFile(o, v, x)) =
        [fullSave |-> [f EXCEPT ![o] = Over(Entry(v, x), f[o])], delta |-> d, metadata |-> m, history |-> h]
  BY <1>1 DEF Written, SnapshotFile
<1>4. QED
  BY <1>2, <1>3

LEMMA WrittenDelta ==
  ASSUME NEW s, IsStore(s), NEW o \in Objects, NEW v, NEW c
  PROVE  Written(s, DeltaFile(o, v, c)) =
           [fullSave |-> s.fullSave, delta |-> [s.delta EXCEPT ![o] = Over(Entry(v, c), s.delta[o])], metadata |-> s.metadata, history |-> s.history]
<1>1. PICK f, d, m, h : s = [fullSave |-> f, delta |-> d, metadata |-> m, history |-> h]
  BY DEF IsStore
<1>2. s.fullSave = f /\ s.delta = d /\ s.metadata = m /\ s.history = h
  BY <1>1
<1>3. Written(s, DeltaFile(o, v, c)) =
        [fullSave |-> f, delta |-> [d EXCEPT ![o] = Over(Entry(v, c), d[o])], metadata |-> m, history |-> h]
  BY <1>1 DEF Written, DeltaFile
<1>4. QED
  BY <1>2, <1>3

LEMMA WrittenMetadata ==
  ASSUME NEW s, IsStore(s), NEW o \in Objects, NEW v
  PROVE  Written(s, Metadata(o, v)) =
           [fullSave |-> s.fullSave, delta |-> s.delta, metadata |-> [s.metadata EXCEPT ![o] = v], history |-> s.history]
<1>1. PICK f, d, m, h : s = [fullSave |-> f, delta |-> d, metadata |-> m, history |-> h]
  BY DEF IsStore
<1>2. s.fullSave = f /\ s.delta = d /\ s.metadata = m /\ s.history = h
  BY <1>1
<1>3. Written(s, Metadata(o, v)) =
        [fullSave |-> f, delta |-> d, metadata |-> [m EXCEPT ![o] = v], history |-> h]
  BY <1>1 DEF Written, Metadata
<1>4. QED
  BY <1>2, <1>3

LEMMA WrittenRow ==
  ASSUME NEW s, IsStore(s), NEW o \in Objects, NEW v, NEW c
  PROVE  Written(s, HistoryRow(o, v, c)) =
           [fullSave |-> s.fullSave, delta |-> s.delta, metadata |-> s.metadata, history |-> Append(s.history, LogRow(o, v, c))]
<1>1. PICK f, d, m, h : s = [fullSave |-> f, delta |-> d, metadata |-> m, history |-> h]
  BY DEF IsStore
<1>2. s.fullSave = f /\ s.delta = d /\ s.metadata = m /\ s.history = h
  BY <1>1
<1>3. Written(s, HistoryRow(o, v, c)) =
        [fullSave |-> f, delta |-> d, metadata |-> m, history |-> Append(h, LogRow(o, v, c))]
  BY <1>1 DEF Written, HistoryRow
<1>4. QED
  BY <1>2, <1>3

\* The file of the next version.
LEMMA SnapshotLeft ==
  ASSUME NEW s, Left(s), NEW o \in Objects, metadata[o] \in Int, NEW x \in Seq(Nat),
         NEW t, t = Written(s, SnapshotFile(o, s.metadata[o] + 1, x))
  PROVE  /\ Left(t) /\ t.metadata = s.metadata /\ t.history = s.history
         /\ t.metadata[o] + 1 \in DOMAIN t.fullSave[o]
<1>0. PICK k : k = s.metadata[o]
  OBVIOUS
<1>a. IsStore(s)
  BY DEF Left
<1>1. t = [fullSave |-> [s.fullSave EXCEPT ![o] = Over(Entry(k + 1, x), s.fullSave[o])], delta |-> s.delta,
           metadata |-> s.metadata, history |-> s.history]
  BY <1>0, WrittenSnapshot, <1>a
<1>2. t.delta = s.delta /\ t.metadata = s.metadata /\ t.history = s.history
      /\ t.fullSave = [s.fullSave EXCEPT ![o] = Over(Entry(k + 1, x), s.fullSave[o])]
  BY <1>1
<1>3. IsStore(s) /\ FilesOK(s, o)
  BY DEF Left
<1>4. /\ t.fullSave = [q \in Objects |-> t.fullSave[q]]
      /\ t.fullSave[o] = Over(Entry(k + 1, x), s.fullSave[o])
      /\ \A q \in Objects \ {o} : t.fullSave[q] = s.fullSave[q]
  BY <1>2, <1>3 DEF IsStore
<1>5. IsStore(t)
  BY <1>1, <1>2, <1>3, <1>4 DEF IsStore
<1>6. FilesOK(t, o) /\ k + 1 \in DOMAIN t.fullSave[o]
  <2>1. k \in Int /\ FilesLeft(s.fullSave[o], s.delta[o], k) /\ metadata[o] <= k
    BY <1>0, <1>3 DEF IsStore, FilesOK
  <2>2. k + 1..k + 1 = {k + 1} /\ k + 1..k = {} /\ k \in Nat \cup {-1}
    BY <2>1 DEF FilesLeft
  <2>3. DOMAIN Entry(k + 1, x) = {k + 1} /\ Entry(k + 1, x)[k + 1] = x
    BY DEF Entry
  <2>4. PICK g, e : g = Entry(k + 1, x) /\ e = NotFound
    OBVIOUS
  <2>5. DOMAIN g = {k + 1} /\ g[k + 1] = x /\ DOMAIN e = {}
    BY <2>3, <2>4 DEF NotFound
  <2>6. /\ FilesLeft(Over(g, s.fullSave[o]), Over(e, s.delta[o]), k)
        /\ SameUpTo(s.fullSave[o], Over(g, s.fullSave[o]), k)
    <3>1. /\ DOMAIN g \subseteq k + 1..k + 1 /\ \A n \in DOMAIN g : g[n] \in Seq(Nat)
          /\ DOMAIN e \subseteq k + 1..k + 1 /\ 0 \notin DOMAIN e /\ \A n \in DOMAIN e : e[n] \in Nat
          /\ k + 1..k \subseteq DOMAIN g \cup DOMAIN e /\ k <= k
      BY <2>1, <2>2, <2>5
    <3>2. QED
      BY <3>1, <2>1, LeftGrows
  <2>7. FilesLeft(t.fullSave[o], s.delta[o], k)
    <3>1. DOMAIN Over(e, s.delta[o]) = DOMAIN s.delta[o]
          /\ \A n \in DOMAIN s.delta[o] : Over(e, s.delta[o])[n] = s.delta[o][n]
      BY <2>5 DEF Over
    <3>2. QED
      BY <2>4, <2>6, <3>1, <1>4 DEF FilesLeft
  <2>8. SameUpTo(fullSave[o], t.fullSave[o], metadata[o])
    <3>1. SameUpTo(fullSave[o], s.fullSave[o], metadata[o])
      BY <1>3 DEF FilesOK
    <3>2. SameUpTo(s.fullSave[o], t.fullSave[o], k)
      BY <2>4, <2>6, <1>4
    <3>3. \A n \in 0..metadata[o] : n \in 0..k
      BY <2>1
    <3>4. QED
      BY <3>1, <3>2, <3>3 DEF SameUpTo
  <2>9. k + 1 \in DOMAIN t.fullSave[o]
    BY <1>4 DEF Over, Entry
  <2>10. QED
    BY <2>7, <2>8, <2>9, <1>0, <1>2, <1>3 DEF FilesOK
<1>7. \A q \in Objects : FilesOK(t, q)
  <2>1. ASSUME NEW q \in Objects, q # o PROVE FilesOK(t, q)
    BY <2>1, <1>2, <1>4 DEF Left, FilesOK
  <2>2. QED
    BY <2>1, <1>6
<1>8. Left(t)
  BY <1>2, <1>5, <1>7 DEF Left, NewRows, RowLeft
<1>9. QED
  BY <1>0, <1>2, <1>6, <1>8

LEMMA DeltaLeft ==
  ASSUME NEW s, Left(s), NEW o \in Objects, metadata[o] \in Int, NEW c \in Nat, s.metadata[o] # -1,
         NEW t, t = Written(s, DeltaFile(o, s.metadata[o] + 1, c))
  PROVE  /\ Left(t) /\ t.metadata = s.metadata /\ t.history = s.history
         /\ t.metadata[o] + 1 \in DOMAIN t.delta[o]
<1>0. PICK k : k = s.metadata[o]
  OBVIOUS
<1>a. IsStore(s)
  BY DEF Left
<1>1. t = [fullSave |-> s.fullSave, delta |-> [s.delta EXCEPT ![o] = Over(Entry(k + 1, c), s.delta[o])],
           metadata |-> s.metadata, history |-> s.history]
  BY <1>0, WrittenDelta, <1>a
<1>2. t.fullSave = s.fullSave /\ t.metadata = s.metadata /\ t.history = s.history
      /\ t.delta = [s.delta EXCEPT ![o] = Over(Entry(k + 1, c), s.delta[o])]
  BY <1>1
<1>3. IsStore(s) /\ FilesOK(s, o)
  BY DEF Left
<1>4. /\ t.delta = [q \in Objects |-> t.delta[q]]
      /\ t.delta[o] = Over(Entry(k + 1, c), s.delta[o])
      /\ \A q \in Objects \ {o} : t.delta[q] = s.delta[q]
  BY <1>2, <1>3 DEF IsStore
<1>5. IsStore(t)
  BY <1>1, <1>2, <1>3, <1>4 DEF IsStore
<1>6. FilesOK(t, o) /\ k + 1 \in DOMAIN t.delta[o]
  <2>1. k \in Int /\ FilesLeft(s.fullSave[o], s.delta[o], k) /\ metadata[o] <= k
    BY <1>0, <1>3 DEF IsStore, FilesOK
  <2>2. k + 1..k + 1 = {k + 1} /\ k + 1..k = {} /\ k \in Nat /\ 0 # k + 1
    BY <2>1, <1>0 DEF FilesLeft
  <2>3. DOMAIN Entry(k + 1, c) = {k + 1} /\ Entry(k + 1, c)[k + 1] = c
    BY DEF Entry
  <2>4. PICK g, e : e = Entry(k + 1, c) /\ g = NotFound
    OBVIOUS
  <2>5. DOMAIN e = {k + 1} /\ e[k + 1] = c /\ DOMAIN g = {}
    BY <2>3, <2>4 DEF NotFound
  <2>6. /\ FilesLeft(Over(g, s.fullSave[o]), Over(e, s.delta[o]), k)
        /\ SameUpTo(s.delta[o], Over(e, s.delta[o]), k)
    BY <2>1, <2>2, <2>5, LeftGrows
  <2>7. FilesLeft(s.fullSave[o], t.delta[o], k)
    <3>1. DOMAIN Over(g, s.fullSave[o]) = DOMAIN s.fullSave[o]
          /\ \A n \in DOMAIN s.fullSave[o] : Over(g, s.fullSave[o])[n] = s.fullSave[o][n]
      BY <2>5 DEF Over
    <3>2. QED
      BY <2>4, <2>6, <3>1, <1>4 DEF FilesLeft
  <2>8. SameUpTo(delta[o], t.delta[o], metadata[o])
    <3>1. SameUpTo(delta[o], s.delta[o], metadata[o])
      BY <1>3 DEF FilesOK
    <3>2. SameUpTo(s.delta[o], t.delta[o], k)
      BY <2>4, <2>6, <1>4
    <3>3. \A n \in 0..metadata[o] : n \in 0..k
      BY <2>1
    <3>4. QED
      BY <3>1, <3>2, <3>3 DEF SameUpTo
  <2>9. k + 1 \in DOMAIN t.delta[o]
    BY <1>4 DEF Over, Entry
  <2>10. QED
    BY <2>7, <2>8, <2>9, <1>0, <1>2, <1>3 DEF FilesOK
<1>7. \A q \in Objects : FilesOK(t, q)
  <2>1. ASSUME NEW q \in Objects, q # o PROVE FilesOK(t, q)
    BY <2>1, <1>2, <1>4 DEF Left, FilesOK
  <2>2. QED
    BY <2>1, <1>6
<1>8. Left(t)
  BY <1>2, <1>5, <1>7 DEF Left, NewRows, RowLeft
<1>9. QED
  BY <1>0, <1>2, <1>6, <1>8

\* The object version of a file that is there.
LEMMA MetadataLeft ==
  ASSUME NEW s, Left(s), NEW o \in Objects, metadata[o] \in Int,
         s.metadata[o] + 1 \in DOMAIN s.fullSave[o] \cup DOMAIN s.delta[o],
         NEW t, t = Written(s, Metadata(o, s.metadata[o] + 1))
  PROVE  /\ Left(t) /\ t.metadata = [s.metadata EXCEPT ![o] = s.metadata[o] + 1]
         /\ t.history = s.history
<1>0. PICK k : k = s.metadata[o]
  OBVIOUS
<1>a. IsStore(s)
  BY DEF Left
<1>1. t = [fullSave |-> s.fullSave, delta |-> s.delta,
           metadata |-> [s.metadata EXCEPT ![o] = k + 1], history |-> s.history]
  BY <1>0, WrittenMetadata, <1>a
<1>2. t.fullSave = s.fullSave /\ t.delta = s.delta /\ t.history = s.history
      /\ t.metadata = [s.metadata EXCEPT ![o] = k + 1]
  BY <1>1
<1>3. IsStore(s) /\ FilesOK(s, o) /\ k \in Int
  BY <1>0 DEF Left, IsStore
<1>4. /\ t.metadata \in [Objects -> Int] /\ t.metadata[o] = k + 1
      /\ \A q \in Objects \ {o} : t.metadata[q] = s.metadata[q]
  BY <1>2, <1>3 DEF IsStore
<1>5. IsStore(t)
  BY <1>1, <1>2, <1>3, <1>4 DEF IsStore
<1>6. FilesOK(t, o)
  <2>1. metadata[o] <= k + 1
    BY <1>0, <1>3 DEF FilesOK
  <2>2. FilesLeft(s.fullSave[o], s.delta[o], k + 1)
    <3>1. FilesLeft(s.fullSave[o], s.delta[o], k)
      BY <1>0, <1>3 DEF FilesOK
    <3>2. k + 1 \in Nat /\ 0..k + 1 = 0..k \cup {k + 1}
          /\ 0..k + 1 \subseteq 0..k + 1 + 1 /\ 1..k + 1 \subseteq 1..k + 1 + 1
      BY <3>1, <1>3 DEF FilesLeft
    <3>3. k + 1 \in DOMAIN s.fullSave[o] \cup DOMAIN s.delta[o]
      BY <1>0
    <3>4. QED
      BY <3>1, <3>2, <3>3 DEF FilesLeft
  <2>3. QED
    BY <2>1, <2>2, <1>2, <1>3, <1>4 DEF FilesOK
<1>7. \A q \in Objects : FilesOK(t, q)
  <2>1. ASSUME NEW q \in Objects, q # o PROVE FilesOK(t, q)
    BY <2>1, <1>2, <1>4 DEF Left, FilesOK
  <2>2. QED
    BY <2>1, <1>6
<1>8. ASSUME NEW row \in NewRows(t) PROVE RowLeft(t, row)
  <2>1. row \in NewRows(s) /\ RowLeft(s, row)
    BY <1>2 DEF Left, NewRows
  <2>2. row.objectVersion \in metadata[row.object] + 1..t.metadata[row.object]
    <3>1. CASE row.object = o
      <4>1. row.objectVersion \in metadata[o] + 1..k
        BY <3>1, <2>1, <1>0 DEF RowLeft
      <4>2. QED
        BY <4>1, <3>1, <1>3, <1>4
    <3>2. CASE row.object # o
      BY <3>2, <2>1, <1>4 DEF RowLeft
    <3>3. QED
      BY <3>1, <3>2
  <2>3. QED
    BY <2>1, <2>2 DEF RowLeft
<1>9. Left(t)
  BY <1>2, <1>5, <1>7, <1>8 DEF Left, NewRows
<1>10. QED
  BY <1>0, <1>2, <1>9

\* The row of an object that has none yet and has a new version.
LEMMA RowWritten ==
  ASSUME NEW s, Left(s), NEW o \in Objects, Unlogged(s, o),
         version \in Nat, metadata[o] \in Int, metadata[o] < s.metadata[o],
         NEW t, t = Written(s, HistoryRow(o, s.metadata[o], version + 1))
  PROVE  /\ Left(t) /\ t.metadata = s.metadata
         /\ \A q \in Objects \ {o} : Unlogged(s, q) => Unlogged(t, q)
<1>0. PICK r : r = LogRow(o, s.metadata[o], version + 1)
  OBVIOUS
<1>a. IsStore(s)
  BY DEF Left
<1>1. t = [fullSave |-> s.fullSave, delta |-> s.delta,
           metadata |-> s.metadata, history |-> Append(s.history, r)]
  BY <1>0, WrittenRow, <1>a
<1>2. t.fullSave = s.fullSave /\ t.delta = s.delta /\ t.metadata = s.metadata
      /\ t.history = Append(s.history, r)
  BY <1>1
<1>3. IsStore(s) /\ s.metadata[o] \in Int
  BY DEF Left, IsStore
<1>4. /\ r \in AnyRow /\ r.object = o /\ r.objectVersion = s.metadata[o]
      /\ r.contextVersion = version + 1
  BY <1>0, <1>3, RowIs
<1>5. t.history \in Seq(AnyRow) /\ Range(t.history) = Range(s.history) \cup {r}
  <2>1. s.history \in Seq(AnyRow)
    BY <1>3 DEF IsStore
  <2>2. Append(s.history, r) \in Seq(AnyRow) /\ Range(Append(s.history, r)) = Range(s.history) \cup {r}
    BY <2>1, <1>4, RangeAppend
  <2>3. QED
    BY <2>2, <1>2
<1>6. IsStore(t)
  BY <1>1, <1>2, <1>3, <1>5 DEF IsStore
<1>7. \A q \in Objects : FilesOK(t, q)
  BY <1>2 DEF Left, FilesOK
<1>8. NewRows(t) \subseteq NewRows(s) \cup {r} /\ Range(history) \subseteq Range(t.history)
  BY <1>5 DEF NewRows, Left
<1>9. RowLeft(t, r)
  BY <1>2, <1>3, <1>4 DEF RowLeft
<1>10. \A row \in NewRows(t) : RowLeft(t, row)
  BY <1>2, <1>8, <1>9 DEF Left, RowLeft
<1>11. \A r1, r2 \in NewRows(t) : r1.object = r2.object => r1 = r2
  BY <1>4, <1>8 DEF Left, Unlogged
<1>12. \A q \in Objects \ {o} : Unlogged(s, q) => Unlogged(t, q)
  BY <1>4, <1>8 DEF Unlogged
<1>13. Left(t)
  BY <1>6, <1>7, <1>8, <1>10, <1>11 DEF Left
<1>14. QED
  BY <1>2, <1>12, <1>13

------------------------------------------------------------------------------
(* Writes one after the other.                                                *)

\* f is the store after each of the first n writes.
IsAfter(f, s, w, n) == f = [k \in 0..n |-> IF k = 0 THEN s ELSE Written(f[k - 1], w[k])]

LEMMA AfterExists ==
  ASSUME NEW s, NEW w, NEW n \in Nat
  PROVE  \E f : IsAfter(f, s, w, n)
<1> DEFINE S == {k \in Nat : \E f : IsAfter(f, s, w, k)}
<1>1. 0 \in S
  <2> DEFINE f == [k \in 0..0 |-> s]
  <2>1. f = [k \in 0..0 |-> IF k = 0 THEN s ELSE Written(f[k - 1], w[k])]
    OBVIOUS
  <2>2. IsAfter(f, s, w, 0)
    BY <2>1 DEF IsAfter
  <2> HIDE DEF f
  <2>3. QED
    BY <2>2
<1>2. ASSUME NEW m \in S PROVE m + 1 \in S
  <2>1. PICK f : IsAfter(f, s, w, m)
    OBVIOUS
  <2>2. m \in Nat
    OBVIOUS
  <2> DEFINE g == [k \in 0..m + 1 |-> IF k = m + 1 THEN Written(f[m], w[k]) ELSE f[k]]
  <2>3. \A k \in 0..m : g[k] = f[k]
    BY <2>2
  <2>4. \A k \in 0..m : f[k] = IF k = 0 THEN s ELSE Written(f[k - 1], w[k])
    BY <2>1 DEF IsAfter
  <2>5. ASSUME NEW k \in 0..m + 1
        PROVE  g[k] = IF k = 0 THEN s ELSE Written(g[k - 1], w[k])
    <3>1. CASE k = m + 1
      <4>1. k # 0 /\ k - 1 = m /\ m \in 0..m
        BY <3>1, <2>2
      <4>2. g[k - 1] = f[m]
        BY <4>1, <2>3
      <4>3. g[k] = Written(f[m], w[k])
        BY <3>1
      <4>4. QED
        BY <4>1, <4>2, <4>3
    <3>2. CASE k \in 1..m
      <4>1. k \in 0..m /\ k # 0 /\ k - 1 \in 0..m
        BY <3>2, <2>2
      <4>2. g[k] = f[k] /\ g[k - 1] = f[k - 1]
        BY <4>1, <2>3
      <4>3. QED
        BY <4>1, <4>2, <2>4
    <3>3. CASE k = 0
      <4>1. k \in 0..m
        BY <3>3, <2>2
      <4>2. QED
        BY <4>1, <3>3, <2>3, <2>4
    <3>4. QED
      BY <3>1, <3>2, <3>3, <2>2
  <2>6. g = [k \in 0..m + 1 |-> g[k]]
    OBVIOUS
  <2> HIDE DEF g
  <2>7. g = [k \in 0..m + 1 |-> IF k = 0 THEN s ELSE Written(g[k - 1], w[k])]
    BY <2>5, <2>6
  <2>8. IsAfter(g, s, w, m + 1)
    BY <2>7 DEF IsAfter
  <2>9. QED
    BY <2>2, <2>8
<1> HIDE DEF S
<1>3. S \in SUBSET Nat
  BY DEF S
<1>4. S = Nat
  BY <1>1, <1>2, <1>3, Induction
<1>5. QED
  BY <1>4 DEF S

LEMMA AfterIs ==
  ASSUME NEW s, NEW w, Len(w) \in Nat
  PROVE  /\ After(s, w)[0] = s
         /\ \A n \in 1..Len(w) : After(s, w)[n] = Written(After(s, w)[n - 1], w[n])
<1>0. PICK l \in Nat : l = Len(w)
  OBVIOUS
<1> DEFINE F == CHOOSE f : f = [k \in 0..l |-> IF k = 0 THEN s ELSE Written(f[k - 1], w[k])]
<1>1. \E f : IsAfter(f, s, w, l)
  BY AfterExists
<1>2. \E f : f = [k \in 0..l |-> IF k = 0 THEN s ELSE Written(f[k - 1], w[k])]
  BY <1>1 DEF IsAfter
<1>3. F = [k \in 0..l |-> IF k = 0 THEN s ELSE Written(F[k - 1], w[k])]
  BY <1>2
<1>4. After(s, w) = F
  BY <1>0 DEF After
<1> HIDE DEF F
<1>5. \A k \in 0..l : F[k] = IF k = 0 THEN s ELSE Written(F[k - 1], w[k])
  BY <1>3
<1>6. F[0] = s
  BY <1>5
<1>7. \A n \in 1..l : n \in 0..l /\ n # 0
  OBVIOUS
<1>8. \A n \in 1..l : F[n] = Written(F[n - 1], w[n])
  BY <1>5, <1>7
<1>9. QED
  BY <1>0, <1>4, <1>6, <1>8

\* Each of these writes leaves what a stop may leave.
Runs(s, w) == Len(w) \in Nat /\ \A n \in 0..Len(w) : Left(After(s, w)[n])
Ends(s, w) == After(s, w)[Len(w)]

LEMMA RunsNone ==
  ASSUME NEW s, Left(s)
  PROVE  Runs(s, <<>>) /\ Ends(s, <<>>) = s
<1>1. Len(<<>>) = 0 /\ 0..0 = {0} /\ 0 \in Nat
  OBVIOUS
<1>2. After(s, <<>>)[0] = s
  BY <1>1, AfterIs
<1>3. QED
  BY <1>1, <1>2 DEF Runs, Ends

\* c is a, then b.
Joins(c, a, b) ==
  /\ Len(a) \in Nat /\ Len(b) \in Nat /\ Len(c) = Len(a) + Len(b)
  /\ \A n \in 1..Len(a) : c[n] = a[n]
  /\ \A n \in 1..Len(b) : c[Len(a) + n] = b[n]

LEMMA JoinsConcat ==
  ASSUME NEW W, NEW a \in Seq(W), NEW b \in Seq(W)
  PROVE  Joins(a \o b, a, b)
BY DEF Joins

LEMMA JoinsAppend ==
  ASSUME NEW W, NEW a \in Seq(W), NEW w
  PROVE  Joins(Append(a, w), a, <<w>>)
<1>1. Len(<<w>>) = 1 /\ <<w>>[1] = w
  OBVIOUS
<1>2. Len(a) \in Nat /\ Len(Append(a, w)) = Len(a) + 1 /\ Append(a, w)[Len(a) + 1] = w
      /\ \A n \in 1..Len(a) : Append(a, w)[n] = a[n]
  OBVIOUS
<1>3. QED
  BY <1>1, <1>2 DEF Joins

\* The stores after the writes of a sequence that goes on.
LEMMA AfterJoin ==
  ASSUME NEW s, NEW a, NEW b, NEW c, Joins(c, a, b)
  PROVE  /\ \A n \in 0..Len(a) : After(s, c)[n] = After(s, a)[n]
         /\ \A n \in 0..Len(b) : After(s, c)[Len(a) + n] = After(Ends(s, a), b)[n]
<1>0. PICK l, m : l = Len(a) /\ m = Len(b)
  OBVIOUS
<1>1. /\ l \in Nat /\ m \in Nat /\ l + m \in Nat /\ Len(c) = l + m
      /\ \A n \in 1..l : c[n] = a[n]
      /\ \A n \in 1..m : c[l + n] = b[n]
  BY <1>0 DEF Joins
<1>2. PICK C, A, B : C = After(s, c) /\ A = After(s, a) /\ B = After(Ends(s, a), b)
  OBVIOUS
<1>3. /\ C[0] = s /\ \A n \in 1..l + m : C[n] = Written(C[n - 1], c[n])
      /\ A[0] = s /\ \A n \in 1..l : A[n] = Written(A[n - 1], a[n])
      /\ B[0] = A[l] /\ \A n \in 1..m : B[n] = Written(B[n - 1], b[n])
  <2>0. Len(a) \in Nat /\ Len(b) \in Nat /\ Len(c) \in Nat
    BY <1>0, <1>1
  <2>1. C[0] = s /\ \A n \in 1..Len(c) : C[n] = Written(C[n - 1], c[n])
    BY <2>0, <1>2, AfterIs
  <2>2. A[0] = s /\ \A n \in 1..Len(a) : A[n] = Written(A[n - 1], a[n])
    BY <2>0, <1>2, AfterIs
  <2>3. B[0] = Ends(s, a) /\ \A n \in 1..Len(b) : B[n] = Written(B[n - 1], b[n])
    BY <2>0, <1>2, AfterIs
  <2>4. Ends(s, a) = A[l]
    BY <1>0, <1>2 DEF Ends
  <2>5. QED
    BY <2>1, <2>2, <2>3, <2>4, <1>0, <1>1
<1> DEFINE S == {n \in Nat : n <= l => C[n] = A[n]}
           T == {n \in Nat : n <= m => C[l + n] = B[n]}
<1>4. 0 \in S
  BY <1>3
<1>5. ASSUME NEW n \in S PROVE n + 1 \in S
  <2> SUFFICES ASSUME n + 1 <= l PROVE C[n + 1] = A[n + 1]
    OBVIOUS
  <2>1. n \in Nat /\ C[n] = A[n]
    BY <1>1
  <2>2. n + 1 \in 1..l /\ n + 1 \in 1..l + m /\ n + 1 - 1 = n
    BY <2>1, <1>1
  <2>3. C[n + 1] = Written(C[n], c[n + 1]) /\ A[n + 1] = Written(A[n], a[n + 1])
    BY <2>2, <1>3
  <2>4. c[n + 1] = a[n + 1]
    BY <2>2, <1>1
  <2>5. QED
    BY <2>1, <2>3, <2>4
<1>6. \A n \in Nat : n \in S
  <2> HIDE DEF S
  <2>1. S \in SUBSET Nat
    BY DEF S
  <2>2. S = Nat
    BY <2>1, <1>4, <1>5, Induction
  <2>3. QED
    BY <2>2
<1>7. \A n \in 0..l : C[n] = A[n]
  BY <1>1, <1>6
<1>8. 0 \in T
  <2>1. C[l] = A[l] /\ l + 0 = l
    BY <1>1, <1>7
  <2>2. QED
    BY <2>1, <1>3
<1>9. ASSUME NEW n \in T PROVE n + 1 \in T
  <2> SUFFICES ASSUME n + 1 <= m PROVE C[l + (n + 1)] = B[n + 1]
    OBVIOUS
  <2>1. n \in Nat /\ C[l + n] = B[n]
    BY <1>1
  <2>2. PICK k : k = l + (n + 1)
    OBVIOUS
  <2>3. n + 1 \in 1..m /\ k \in 1..l + m /\ n + 1 - 1 = n /\ k - 1 = l + n
    BY <2>1, <2>2, <1>1
  <2>4. C[k] = Written(C[l + n], c[k]) /\ B[n + 1] = Written(B[n], b[n + 1])
    BY <2>3, <1>3
  <2>5. c[k] = b[n + 1]
    BY <2>2, <2>3, <1>1
  <2>6. QED
    BY <2>1, <2>2, <2>4, <2>5
<1>10. \A n \in Nat : n \in T
  <2> HIDE DEF S, T
  <2>1. T \in SUBSET Nat
    BY DEF T
  <2>2. T = Nat
    BY <2>1, <1>8, <1>9, Induction
  <2>3. QED
    BY <2>2
<1>11. \A n \in 0..m : C[l + n] = B[n]
  BY <1>1, <1>10
<1>12. QED
  BY <1>0, <1>2, <1>7, <1>11

LEMMA RunsJoin ==
  ASSUME NEW s, NEW a, NEW b, NEW c, Joins(c, a, b), Runs(s, a), Runs(Ends(s, a), b)
  PROVE  Runs(s, c) /\ Ends(s, c) = Ends(Ends(s, a), b)
<1>1. PICK l, m : l = Len(a) /\ m = Len(b)
  OBVIOUS
<1>2. l \in Nat /\ m \in Nat /\ Len(c) = l + m
  BY <1>1 DEF Joins
<1>3. /\ \A n \in 0..l : After(s, c)[n] = After(s, a)[n]
      /\ \A n \in 0..m : After(s, c)[l + n] = After(Ends(s, a), b)[n]
  BY <1>1, AfterJoin
<1>4. ASSUME NEW n \in 0..l + m PROVE Left(After(s, c)[n])
  <2>1. CASE n <= l
    <3>1. n \in 0..l
      BY <2>1, <1>2
    <3>2. QED
      BY <3>1, <1>1, <1>3 DEF Runs
  <2>2. CASE n > l
    <3>1. n - l \in 0..m /\ n = l + (n - l)
      BY <2>2, <1>2
    <3>2. PICK i \in 0..m : n = l + i
      BY <3>1
    <3>3. After(s, c)[n] = After(Ends(s, a), b)[i]
      BY <3>2, <1>3
    <3>4. QED
      BY <3>2, <3>3, <1>1 DEF Runs
  <2>3. QED
    BY <2>1, <2>2, <1>2
<1>5. Ends(s, c) = Ends(Ends(s, a), b)
  <2>1. m \in 0..m
    BY <1>2
  <2>2. After(s, c)[l + m] = After(Ends(s, a), b)[m]
    BY <2>1, <1>3
  <2>3. QED
    BY <2>2, <1>1, <1>2 DEF Ends
<1>6. QED
  BY <1>2, <1>4, <1>5 DEF Runs

LEMMA RunsOne ==
  ASSUME NEW s, Left(s), NEW w, Left(Written(s, w))
  PROVE  Runs(s, <<w>>) /\ Ends(s, <<w>>) = Written(s, w)
<1>1. Len(<<w>>) = 1 /\ <<w>>[1] = w /\ 0..1 = {0, 1} /\ 1 \in Nat /\ 1 \in 1..1 /\ 1 - 1 = 0
  OBVIOUS
<1> DEFINE u == <<w>>
<1> HIDE DEF u
<1>2. After(s, u)[0] = s /\ \A n \in 1..1 : After(s, u)[n] = Written(After(s, u)[n - 1], u[n])
  <2>1. Len(u) \in Nat /\ Len(u) = 1
    BY <1>1 DEF u
  <2>2. QED
    BY <2>1, AfterIs
<1>3. After(s, u)[1] = Written(s, w)
  <2>1. u[1] = w
    BY <1>1 DEF u
  <2>2. QED
    BY <2>1, <1>1, <1>2
<1>4. Runs(s, u) /\ Ends(s, u) = Written(s, w)
  <2>1. Len(u) = 1
    BY <1>1 DEF u
  <2>2. QED
    BY <2>1, <1>1, <1>2, <1>3 DEF Runs, Ends
<1>5. QED
  BY <1>4 DEF u

LEMMA EndsLeft ==
  ASSUME NEW s, NEW w, Runs(s, w)
  PROVE  Left(Ends(s, w))
<1>1. PICK l : l = Len(w)
  OBVIOUS
<1>2. l \in 0..l
  BY <1>1 DEF Runs
<1>3. QED
  BY <1>1, <1>2 DEF Runs, Ends

\* One write more.
LEMMA RunsMore ==
  ASSUME NEW s, NEW a, NEW w, NEW c, Joins(c, a, <<w>>), Runs(s, a), Left(Written(Ends(s, a), w))
  PROVE  Runs(s, c) /\ Ends(s, c) = Written(Ends(s, a), w)
<1>1. Left(Ends(s, a))
  BY EndsLeft
<1>2. Runs(Ends(s, a), <<w>>) /\ Ends(Ends(s, a), <<w>>) = Written(Ends(s, a), w)
  BY <1>1, RunsOne
<1>3. Runs(s, c) /\ Ends(s, c) = Ends(Ends(s, a), <<w>>)
  BY <1>2, RunsJoin
<1>4. QED
  BY <1>2, <1>3

\* What a stop leaves of writes of which the last one is never done.
LEMMA StoppedLeft ==
  ASSUME NEW s, NEW a, NEW b, NEW c, Joins(c, a, b), Len(b) = 1, Runs(s, a)
  PROVE  \A n \in 1..Len(c) - 1 : Left(After(s, c)[n])
<1>1. PICK l, m : l = Len(a) /\ m = Len(b)
  OBVIOUS
<1>2. l \in Nat /\ Len(c) = l + 1
  BY <1>1 DEF Joins
<1>3. \A n \in 1..Len(c) - 1 : n \in 0..l
  BY <1>2
<1>4. /\ \A n \in 0..l : After(s, c)[n] = After(s, a)[n]
      /\ \A n \in 0..m : After(s, c)[l + n] = After(Ends(s, a), b)[n]
  BY <1>1, AfterJoin
<1>5. QED
  BY <1>1, <1>3, <1>4 DEF Runs

------------------------------------------------------------------------------
(* The writes of each operation.                                              *)

\* The files of every object, and the content of its instance.
LeftInv ==
  /\ fullSave = [o \in Objects |-> fullSave[o]]
  /\ delta = [o \in Objects |-> delta[o]]
  /\ \A o \in Objects : FilesLeft(fullSave[o], delta[o], metadata[o])
  /\ \A o \in Loaded : registered[o].content \in Seq(Nat)

LEMMA StoreLeft ==
  ASSUME RowsInv, LeftInv
  PROVE  /\ Left(Store) /\ Store.metadata = metadata
         /\ \A o \in Objects : Unlogged(Store, o)
<1>1. PICK s : s = Store
  OBVIOUS
<1>2. s.fullSave = fullSave /\ s.delta = delta /\ s.metadata = metadata /\ s.history = history
      /\ s = [fullSave |-> s.fullSave, delta |-> s.delta, metadata |-> s.metadata, history |-> s.history]
  BY <1>1 DEF Store
<1>3. IsStore(s)
  BY <1>2 DEF IsStore, RowsInv, LeftInv
<1>4. NewRows(s) = {}
  BY <1>2 DEF NewRows
<1>5. ASSUME NEW o \in Objects PROVE FilesOK(s, o)
  <2>1. metadata[o] <= metadata[o]
    BY DEF RowsInv
  <2>2. FilesLeft(fullSave[o], delta[o], metadata[o])
    BY DEF LeftInv
  <2>3. QED
    BY <2>1, <2>2, <1>2, SameSelf DEF FilesOK
<1>6. Left(s)
  BY <1>2, <1>3, <1>4, <1>5 DEF Left
<1>7. \A o \in Objects : Unlogged(s, o)
  BY <1>4 DEF Unlogged
<1>8. QED
  BY <1>1, <1>2, <1>6, <1>7

LEMMA SameHistory ==
  ASSUME NEW s, NEW t, t.history = s.history, NEW o, Unlogged(s, o)
  PROVE  Unlogged(t, o)
BY DEF Unlogged, NewRows

LEMMA JoinsTwo ==
  ASSUME NEW a, NEW b
  PROVE  Joins(<<a, b>>, <<a>>, <<b>>)
<1>1. PICK c, d, e : c = <<a, b>> /\ d = <<a>> /\ e = <<b>>
  OBVIOUS
<1>2. Len(c) = 2 /\ Len(d) = 1 /\ Len(e) = 1 /\ c[1] = a /\ c[2] = b /\ d[1] = a /\ e[1] = b
  BY <1>1
<1>3. \A n \in 1..1 : n = 1
  OBVIOUS
<1>4. Joins(c, d, e)
  BY <1>2, <1>3 DEF Joins
<1>5. QED
  BY <1>1, <1>4

LEMMA SnapshotRuns ==
  ASSUME RowsInv, NEW s, Left(s), NEW o \in Objects, NEW k, k = s.metadata[o], NEW x \in Seq(Nat)
  PROVE  /\ Runs(s, SnapshotWrites(o, k, x))
         /\ Ends(s, SnapshotWrites(o, k, x)).metadata = [s.metadata EXCEPT ![o] = k + 1]
         /\ Ends(s, SnapshotWrites(o, k, x)).history = s.history
<1>1. PICK a, b : a = SnapshotFile(o, k + 1, x) /\ b = Metadata(o, k + 1)
  OBVIOUS
<1>2. SnapshotWrites(o, k, x) = <<a, b>>
  BY <1>1 DEF SnapshotWrites
<1>3. metadata[o] \in Int
  BY DEF RowsInv
<1>4. PICK t : t = Written(s, a)
  OBVIOUS
<1>5. /\ Left(t) /\ t.metadata = s.metadata /\ t.history = s.history
      /\ t.metadata[o] + 1 \in DOMAIN t.fullSave[o]
  BY <1>1, <1>3, <1>4, SnapshotLeft
<1>6. Runs(s, <<a>>) /\ Ends(s, <<a>>) = t
  BY <1>4, <1>5, RunsOne
<1>7. PICK u : u = Written(t, b)
  OBVIOUS
<1>8. u = Written(t, Metadata(o, t.metadata[o] + 1))
  BY <1>1, <1>5, <1>7
<1>9. Left(u) /\ u.metadata = [t.metadata EXCEPT ![o] = t.metadata[o] + 1] /\ u.history = t.history
  BY <1>3, <1>5, <1>8, MetadataLeft
<1>10. Left(Written(Ends(s, <<a>>), b))
  BY <1>6, <1>7, <1>9
<1>11. Runs(s, <<a, b>>) /\ Ends(s, <<a, b>>) = Written(Ends(s, <<a>>), b)
  <2>1. PICK c, d : c = <<a, b>> /\ d = <<a>>
    OBVIOUS
  <2>2. Joins(c, d, <<b>>) /\ Runs(s, d) /\ Left(Written(Ends(s, d), b))
    BY <2>1, <1>6, <1>10, JoinsTwo
  <2>3. Runs(s, c) /\ Ends(s, c) = Written(Ends(s, d), b)
    BY <2>2, RunsMore
  <2>4. QED
    BY <2>1, <2>3
<1>12. Ends(s, <<a, b>>) = u
  BY <1>6, <1>7, <1>11
<1>13. QED
  BY <1>2, <1>5, <1>9, <1>11, <1>12

\* The writes of a logged version of one object.
LEMMA LoggedRuns ==
  ASSUME RowsInv, NEW s, Left(s), NEW o \in Objects, Unlogged(s, o),
         NEW k, k = s.metadata[o], NEW x \in Seq(Nat), NEW w, w = LoggedWrites(o, k, x)
  PROVE  /\ Runs(s, w)
         /\ Ends(s, w).metadata[o] = k + 1
         /\ \A q \in Objects \ {o} :
              Ends(s, w).metadata[q] = s.metadata[q] /\ (Unlogged(s, q) => Unlogged(Ends(s, w), q))
<1>1. PICK a, t : a = SnapshotWrites(o, k, x) /\ t = Ends(s, a)
  OBVIOUS
<1>2. Runs(s, a) /\ t.metadata = [s.metadata EXCEPT ![o] = k + 1] /\ t.history = s.history
  BY <1>1, SnapshotRuns
<1>3. Left(t)
  BY <1>1, <1>2, EndsLeft
<1>4. PICK r, u : r = HistoryRow(o, k + 1, version + 1) /\ u = Written(t, r)
  OBVIOUS
<1>5. w = Append(a, r)
  BY <1>1, <1>4 DEF LoggedWrites
<1>6. a \in Seq({SnapshotFile(o, k + 1, x), Metadata(o, k + 1)})
  BY <1>1 DEF SnapshotWrites
<1>7. Joins(w, a, <<r>>)
  BY <1>5, <1>6, JoinsAppend
<1>8. IsStore(s) /\ FilesOK(s, o)
  BY DEF Left
<1>9. k \in Int /\ s.metadata \in [Objects -> Int] /\ metadata[o] <= k
  BY <1>8 DEF IsStore, FilesOK
<1>10. t.metadata[o] = k + 1 /\ \A q \in Objects \ {o} : t.metadata[q] = s.metadata[q]
  BY <1>2, <1>9
<1>11. version \in Nat /\ metadata[o] \in Int /\ metadata[o] < t.metadata[o]
  BY <1>9, <1>10 DEF RowsInv
<1>12. \A q \in Objects : Unlogged(s, q) => Unlogged(t, q)
  BY <1>2, SameHistory
<1>13. u = Written(t, HistoryRow(o, t.metadata[o], version + 1))
  BY <1>4, <1>10
<1>14. Left(u) /\ u.metadata = t.metadata /\ \A q \in Objects \ {o} : Unlogged(t, q) => Unlogged(u, q)
  BY <1>3, <1>11, <1>12, <1>13, RowWritten
<1>15. Left(Written(Ends(s, a), r))
  BY <1>1, <1>4, <1>14
<1>16. Runs(s, w) /\ Ends(s, w) = Written(Ends(s, a), r)
  BY <1>2, <1>7, <1>15, RunsMore
<1>17. Ends(s, w) = u
  BY <1>1, <1>4, <1>16
<1>18. QED
  BY <1>10, <1>12, <1>14, <1>16, <1>17

\* A stop between the files, the object version and the row of one object.
LEMMA StoppedLogged ==
  ASSUME RowsInv, LeftInv, NEW o \in Objects, NEW k, k = metadata[o], NEW x \in Seq(Nat),
         NEW n \in 1..Len(LoggedWrites(o, k, x)) - 1
  PROVE  Left(After(Store, LoggedWrites(o, k, x))[n])
<1>1. PICK a, r, w : a = SnapshotWrites(o, k, x) /\ r = HistoryRow(o, k + 1, version + 1)
                     /\ w = LoggedWrites(o, k, x)
  OBVIOUS
<1>2. Left(Store) /\ Store.metadata = metadata
  BY StoreLeft
<1>3. Runs(Store, a)
  BY <1>1, <1>2, SnapshotRuns
<1>4. w = Append(a, r)
  BY <1>1 DEF LoggedWrites
<1>5. a \in Seq({SnapshotFile(o, k + 1, x), Metadata(o, k + 1)})
  BY <1>1 DEF SnapshotWrites
<1>6. PICK b : b = <<r>>
  OBVIOUS
<1>7. Joins(w, a, b) /\ Len(b) = 1
  BY <1>4, <1>5, <1>6, JoinsAppend
<1>8. \A i \in 1..Len(w) - 1 : Left(After(Store, w)[i])
  BY <1>3, <1>7, StoppedLeft
<1>9. QED
  BY <1>1, <1>8

\* The files of a message.
LEMMA MessageFilesRun ==
  ASSUME RowsInv, NEW s, Left(s), NEW o \in Objects, NEW n \in Nat \ {0}, s.metadata[o] = n - 1,
         NEW c \in Nat, NEW x \in Seq(Nat), NEW w, w \in {<<DeltaFile(o, n, c)>>, <<DeltaFile(o, n, c), SnapshotFile(o, n, x)>>}
  PROVE  /\ Runs(s, w)
         /\ Ends(s, w).metadata = s.metadata
         /\ n \in DOMAIN Ends(s, w).fullSave[o] \cup DOMAIN Ends(s, w).delta[o]
<1>1. PICK d, b, t : d = DeltaFile(o, n, c) /\ b = SnapshotFile(o, n, x) /\ t = Written(s, d)
  OBVIOUS
<1>2. metadata[o] \in Int /\ s.metadata[o] # -1 /\ s.metadata[o] + 1 = n
  BY DEF RowsInv
<1>3. t = Written(s, DeltaFile(o, s.metadata[o] + 1, c))
  BY <1>1, <1>2
<1>4. Left(t) /\ t.metadata = s.metadata /\ t.metadata[o] + 1 \in DOMAIN t.delta[o]
  BY <1>2, <1>3, DeltaLeft
<1>5. PICK e : e = <<d>>
  OBVIOUS
<1>6. Runs(s, e) /\ Ends(s, e) = t
  BY <1>1, <1>4, <1>5, RunsOne
<1>7. CASE w = e
  BY <1>2, <1>4, <1>6, <1>7
<1>8. CASE w = <<d, b>>
  <2>1. PICK u : u = Written(t, b)
    OBVIOUS
  <2>2. u = Written(t, SnapshotFile(o, t.metadata[o] + 1, x))
    BY <2>1, <1>1, <1>2, <1>4
  <2>3. Left(u) /\ u.metadata = t.metadata /\ u.metadata[o] + 1 \in DOMAIN u.fullSave[o]
    BY <2>2, <1>2, <1>4, SnapshotLeft
  <2>4. Joins(w, e, <<b>>)
    BY <1>5, <1>8, JoinsTwo
  <2>5. Left(Written(Ends(s, e), b))
    BY <2>1, <2>3, <1>6
  <2>6. Runs(s, w) /\ Ends(s, w) = Written(Ends(s, e), b)
    BY <2>4, <2>5, <1>6, RunsMore
  <2>7. Ends(s, w) = u
    BY <2>1, <2>6, <1>6
  <2>8. QED
    BY <2>3, <2>6, <2>7, <1>2, <1>4
<1>9. QED
  BY <1>1, <1>5, <1>7, <1>8

\* The base version of an object that has none, before its first message.
LEMMA FirstRuns ==
  ASSUME RowsInv, LeftInv, NEW o \in Objects, NEW x \in Seq(Nat), NEW n,
         n = metadata[o] + 1 \/ (metadata[o] = -1 /\ n = 1),
         NEW w, w = IF n = metadata[o] + 1 THEN <<>> ELSE LoggedWrites(o, -1, x)
  PROVE  Runs(Store, w) /\ Ends(Store, w).metadata[o] = n - 1
<1>1. PICK s : s = Store
  OBVIOUS
<1>2. Left(s) /\ s.metadata = metadata /\ Unlogged(s, o)
  BY <1>1, StoreLeft
<1>3. metadata[o] \in Int
  BY DEF RowsInv
<1>4. CASE n = metadata[o] + 1
  BY <1>1, <1>2, <1>3, <1>4, RunsNone
<1>5. CASE ~(n = metadata[o] + 1)
  <2>1. -1 = s.metadata[o] /\ n = 1 /\ w = LoggedWrites(o, -1, x)
    BY <1>2, <1>5
  <2>2. Runs(s, w) /\ Ends(s, w).metadata[o] = -1 + 1
    BY <2>1, <1>2, LoggedRuns
  <2>3. QED
    BY <2>1, <2>2, <1>1
<1>6. QED
  BY <1>4, <1>5

LEMMA ConcatOnes ==
  ASSUME NEW y, NEW z
  PROVE  <<y>> \o <<z>> = <<y, z>> /\ <<y>> \o <<>> = <<y>>
<1>1. PICK W : W = {y, z}
  OBVIOUS
<1>2. PICK s, e : s = <<y>> /\ e = <<>>
  OBVIOUS
<1>3. s \in Seq(W) /\ e \in Seq(W) /\ Len(s) = 1 /\ Len(e) = 0 /\ s[1] = y /\ z \in W
  BY <1>1, <1>2
<1>4. s \o e = s
  <2>1. PICK t : t = s \o e
    OBVIOUS
  <2>2. t \in Seq(W) /\ Len(t) = 1 /\ \A i \in 1..1 : t[i] = s[i]
    <3>1. s \in Seq(W) /\ e \in Seq(W)
      BY <1>3
    <3>2. Joins(t, s, e)
      BY <3>1, <2>1, JoinsConcat
    <3>3. t \in Seq(W)
      BY <3>1, <2>1
    <3>4. QED
      BY <3>2, <3>3, <1>3 DEF Joins
  <2>3. t = [i \in 1..1 |-> t[i]] /\ s = [i \in 1..1 |-> s[i]]
    BY <2>2, <1>3
  <2>4. QED
    BY <2>1, <2>2, <2>3
<1>5. s \o <<z>> = Append(s, z)
  BY <1>3, ConcatOne
<1>6. Append(s, z) = <<y, z>>
  <2>1. PICK t, u : t = Append(s, z) /\ u = <<y, z>>
    OBVIOUS
  <2>2. t \in Seq(W) /\ Len(t) = 2 /\ t[1] = y /\ t[2] = z
    BY <2>1, <1>3
  <2>3. u \in Seq(W) /\ Len(u) = 2 /\ u[1] = y /\ u[2] = z
    BY <2>1, <1>1
  <2>4. t = [i \in 1..2 |-> t[i]] /\ u = [i \in 1..2 |-> u[i]]
    BY <2>2, <2>3
  <2>5. \A i \in 1..2 : t[i] = u[i]
    <3>1. 1..2 = {1, 2}
      OBVIOUS
    <3>2. QED
      BY <3>1, <2>2, <2>3
  <2>6. QED
    BY <2>1, <2>4, <2>5
<1>7. QED
  BY <1>2, <1>4, <1>5, <1>6

\* A stop in the middle of -recordInvocation:.
LEMMA StoppedRecordLeft ==
  ASSUME RowsInv, InstanceInv, LeftInv, NEW o \in Loaded,
         NEW i \in 1..Len(RecordWrites(o)) - 1
  PROVE  Left(After(Store, RecordWrites(o))[i])
<1> DEFINE r == registered[o]
           first == r.version = -1
           n == IF first THEN 1 ELSE r.version + 1
           c == version + IF first THEN 2 ELSE 1
           a == IF first THEN LoggedWrites(o, -1, r.content) ELSE <<>>
           f == <<DeltaFile(o, n, c)>> \o IF n % SnapshotInterval = 0 THEN <<SnapshotFile(o, n, r.content)>> ELSE <<>>
           m == Metadata(o, n)
           h == HistoryRow(o, n, c)
           b == a \o f
           d == b \o <<m>>
<1>1. o \in Objects /\ r.version = metadata[o] /\ metadata[o] \in Int /\ -1 <= metadata[o]
      /\ r.content \in Seq(Nat) /\ version \in Nat
  BY LoadedIs DEF Loaded, RowsInv, InstanceInv, LeftInv
<1>2. RecordWrites(o) = Append(d, h)
  BY DEF RecordWrites
<1>3. n \in Nat \ {0} /\ c \in Nat /\ (n = metadata[o] + 1 \/ (metadata[o] = -1 /\ n = 1))
      /\ (n = metadata[o] + 1 <=> ~first)
  BY <1>1
<1>4. PICK x : x = r.content
  OBVIOUS
<1> DEFINE W == {SnapshotFile(o, 0, x), Metadata(o, 0), HistoryRow(o, 0, version + 1),
                 DeltaFile(o, n, c), SnapshotFile(o, n, x), m, h}
<1>5. a \in Seq(W)
  <2>1. LoggedWrites(o, -1, x) = Append(<<SnapshotFile(o, 0, x), Metadata(o, 0)>>, HistoryRow(o, 0, version + 1))
    BY DEF LoggedWrites, SnapshotWrites
  <2>2. <<SnapshotFile(o, 0, x), Metadata(o, 0)>> \in Seq(W) /\ HistoryRow(o, 0, version + 1) \in W
    OBVIOUS
  <2> HIDE DEF W
  <2>3. LoggedWrites(o, -1, x) \in Seq(W) /\ <<>> \in Seq(W)
    <3>1. PICK p, q : p = <<SnapshotFile(o, 0, x), Metadata(o, 0)>> /\ q = HistoryRow(o, 0, version + 1)
      OBVIOUS
    <3>2. p \in Seq(W) /\ q \in W
      BY <2>2, <3>1
    <3>3. Append(p, q) \in Seq(W) /\ <<>> \in Seq(W)
      BY <3>2
    <3>4. QED
      BY <2>1, <3>1, <3>3
  <2>4. QED
    BY <2>3, <1>4
<1>6. f \in {<<DeltaFile(o, n, c)>>, <<DeltaFile(o, n, c), SnapshotFile(o, n, x)>>}
  <2>1. PICK y, z : y = DeltaFile(o, n, c) /\ z = SnapshotFile(o, n, x)
    OBVIOUS
  <2>2. <<y>> \o <<z>> = <<y, z>> /\ <<y>> \o <<>> = <<y>>
    BY ConcatOnes
  <2>3. QED
    BY <2>1, <2>2, <1>4
<1>7. f \in Seq(W) /\ m \in W
  <2>1. PICK y, z : y = DeltaFile(o, n, c) /\ z = SnapshotFile(o, n, x)
    OBVIOUS
  <2>2. y \in W /\ z \in W /\ m \in W
    BY <2>1
  <2> HIDE DEF W, f
  <2>3. <<y>> \in Seq(W) /\ <<y, z>> \in Seq(W)
    BY <2>2
  <2>4. QED
    BY <2>1, <2>2, <2>3, <1>6
<1>8. a = IF n = metadata[o] + 1 THEN <<>> ELSE LoggedWrites(o, -1, x)
  BY <1>3, <1>4
<1> HIDE DEF W, a, f, first, n, c, m, h
<1>9. Runs(Store, a) /\ Ends(Store, a).metadata[o] = n - 1
  <2>1. PICK k, w : k = n /\ w = a
    OBVIOUS
  <2>2. o \in Objects /\ x \in Seq(Nat) /\ (k = metadata[o] + 1 \/ (metadata[o] = -1 /\ k = 1))
        /\ w = IF k = metadata[o] + 1 THEN <<>> ELSE LoggedWrites(o, -1, x)
    BY <2>1, <1>1, <1>3, <1>4, <1>8
  <2>3. Runs(Store, w) /\ Ends(Store, w).metadata[o] = k - 1
    BY <2>2, FirstRuns
  <2>4. QED
    BY <2>1, <2>3
<1>10. PICK s : s = Ends(Store, a)
  OBVIOUS
<1>11. Left(s) /\ s.metadata[o] = n - 1
  BY <1>9, <1>10, EndsLeft
<1>12. Runs(s, f) /\ Ends(s, f).metadata = s.metadata
       /\ n \in DOMAIN Ends(s, f).fullSave[o] \cup DOMAIN Ends(s, f).delta[o]
  BY <1>1, <1>3, <1>4, <1>6, <1>11, MessageFilesRun
<1>13. Joins(b, a, f)
  BY <1>5, <1>7, JoinsConcat
<1>14. b \in Seq(W)
  BY <1>5, <1>7
<1> HIDE DEF b
<1>15. Runs(Store, b) /\ Ends(Store, b) = Ends(s, f)
  BY <1>9, <1>10, <1>12, <1>13, RunsJoin
<1>16. PICK t : t = Ends(Store, b)
  OBVIOUS
<1>17. Left(t) /\ t.metadata[o] + 1 = n /\ n \in DOMAIN t.fullSave[o] \cup DOMAIN t.delta[o]
  BY <1>3, <1>11, <1>12, <1>15, <1>16, EndsLeft
<1>18. Left(Written(t, m))
  <2>1. PICK u : u = Written(t, m)
    OBVIOUS
  <2>2. u = Written(t, Metadata(o, t.metadata[o] + 1))
    BY <2>1, <1>17 DEF m
  <2>3. Left(u)
    BY <2>2, <1>1, <1>17, MetadataLeft
  <2>4. QED
    BY <2>1, <2>3
<1>19. Joins(d, b, <<m>>) /\ d \in Seq(W)
  <2>1. PICK e : e = <<m>>
    OBVIOUS
  <2>2. e \in Seq(W)
    BY <2>1, <1>7
  <2>3. Joins(b \o e, b, e) /\ b \o e \in Seq(W)
    BY <2>2, <1>14, JoinsConcat
  <2>4. QED
    BY <2>1, <2>3
<1> HIDE DEF d
<1>20. Runs(Store, d)
  BY <1>15, <1>16, <1>18, <1>19, RunsMore
<1>21. PICK w, e : w = RecordWrites(o) /\ e = <<h>>
  OBVIOUS
<1>22. Joins(w, d, e) /\ Len(e) = 1
  BY <1>2, <1>19, <1>21, JoinsAppend
<1>23. \A j \in 1..Len(w) - 1 : Left(After(Store, w)[j])
  BY <1>20, <1>22, StoppedLeft
<1>24. QED
  BY <1>21, <1>23

\* f is the sequence of the first of the sequences of C.
IsConcat(f, C, n) == f = [k \in 0..n |-> IF k = 0 THEN <<>> ELSE f[k - 1] \o C[k]]

LEMMA ConcatExists ==
  ASSUME NEW C, NEW n \in Nat
  PROVE  \E f : IsConcat(f, C, n)
<1> DEFINE S == {k \in Nat : \E f : IsConcat(f, C, k)}
<1>1. 0 \in S
  <2> DEFINE f == [k \in 0..0 |-> <<>>]
  <2>1. f = [k \in 0..0 |-> IF k = 0 THEN <<>> ELSE f[k - 1] \o C[k]]
    OBVIOUS
  <2>2. IsConcat(f, C, 0)
    BY <2>1 DEF IsConcat
  <2> HIDE DEF f
  <2>3. QED
    BY <2>2
<1>2. ASSUME NEW m \in S PROVE m + 1 \in S
  <2>1. PICK f : IsConcat(f, C, m)
    OBVIOUS
  <2>2. m \in Nat
    OBVIOUS
  <2> DEFINE g == [k \in 0..m + 1 |-> IF k = m + 1 THEN f[m] \o C[k] ELSE f[k]]
  <2>3. \A k \in 0..m : g[k] = f[k]
    BY <2>2
  <2>4. \A k \in 0..m : f[k] = IF k = 0 THEN <<>> ELSE f[k - 1] \o C[k]
    BY <2>1 DEF IsConcat
  <2>5. ASSUME NEW k \in 0..m + 1
        PROVE  g[k] = IF k = 0 THEN <<>> ELSE g[k - 1] \o C[k]
    <3>1. CASE k = m + 1
      <4>1. k # 0 /\ k - 1 = m /\ m \in 0..m
        BY <3>1, <2>2
      <4>2. g[k - 1] = f[m]
        BY <4>1, <2>3
      <4>3. g[k] = f[m] \o C[k]
        BY <3>1
      <4>4. QED
        BY <4>1, <4>2, <4>3
    <3>2. CASE k \in 1..m
      <4>1. k \in 0..m /\ k # 0 /\ k - 1 \in 0..m
        BY <3>2, <2>2
      <4>2. g[k] = f[k] /\ g[k - 1] = f[k - 1]
        BY <4>1, <2>3
      <4>3. QED
        BY <4>1, <4>2, <2>4
    <3>3. CASE k = 0
      <4>1. k \in 0..m
        BY <3>3, <2>2
      <4>2. QED
        BY <4>1, <3>3, <2>3, <2>4
    <3>4. QED
      BY <3>1, <3>2, <3>3, <2>2
  <2>6. g = [k \in 0..m + 1 |-> g[k]]
    OBVIOUS
  <2> HIDE DEF g
  <2>7. g = [k \in 0..m + 1 |-> IF k = 0 THEN <<>> ELSE g[k - 1] \o C[k]]
    BY <2>5, <2>6
  <2>8. IsConcat(g, C, m + 1)
    BY <2>7 DEF IsConcat
  <2>9. QED
    BY <2>2, <2>8
<1> HIDE DEF S
<1>3. S \in SUBSET Nat
  BY DEF S
<1>4. S = Nat
  BY <1>1, <1>2, <1>3, Induction
<1>5. QED
  BY <1>4 DEF S

\* The objects a restore finds elsewhere are stored, and have the contents it gives them.
LEMMA StaleLeft ==
  ASSUME RowsInv, InstanceInv, LeftInv, NEW v \in -1..version
  PROVE  /\ IsFiniteSet(StaleAt(v)) /\ StaleAt(v) \subseteq Objects
         /\ \A o \in StaleAt(v) : /\ CurrentVersion(o) = metadata[o]
                                  /\ Playback(o, Found(v)[o]) \in Seq(Nat)
<1>1. /\ DOMAIN Found(v) \subseteq Objects
      /\ \A o \in DOMAIN Found(v) : Found(v)[o] \in 0..metadata[o]
  BY FoundStored
<1>2. StaleAt(v) \subseteq DOMAIN Found(v) /\ StaleAt(v) \subseteq Objects
  BY <1>1 DEF StaleAt
<1>3. IsFiniteSet(StaleAt(v))
  BY <1>2, NamesAssumption, FS_Subset
<1>4. ASSUME NEW o \in StaleAt(v) PROVE Playback(o, Found(v)[o]) \in Seq(Nat)
  <2>1. PICK n : n = Found(v)[o]
    OBVIOUS
  <2>2. o \in Objects /\ n \in 0..metadata[o]
    BY <2>1, <1>1, <1>2
  <2>3. FilesLeft(fullSave[o], delta[o], metadata[o])
    BY <2>2 DEF LeftInv
  <2>4. Play(fullSave[o], delta[o], n) \in Seq(Nat)
    BY <2>2, <2>3, HasFilesUpTo, LeftPlayType
  <2>5. QED
    BY <2>1, <2>4, PlaybackIs
<1>5. QED
  BY <1>2, <1>3, <1>4, CurrentIs

\* The writes of a restore, before its restore point.
LEMMA ObjectsRun ==
  ASSUME RowsInv, InstanceInv, LeftInv, NEW v \in -1..version, NEW order \in SetToSeqs(StaleAt(v))
  PROVE  Runs(Store, ObjectsWrites(order, v)) /\ \E W : ObjectsWrites(order, v) \in Seq(W)
<1>1. PICK m, S : m = Cardinality(S) /\ S = StaleAt(v)
  OBVIOUS
<1>2. /\ m \in Nat /\ S \subseteq Objects
      /\ \A o \in S : CurrentVersion(o) = metadata[o] /\ Playback(o, Found(v)[o]) \in Seq(Nat)
  BY <1>1, StaleLeft, FS_CardinalityType
<1>3. order \in [1..m -> S] /\ \A i, j \in 1..m : i # j => order[i] # order[j]
  BY <1>1 DEF SetToSeqs
<1>4. Len(order) = m
  BY <1>2, <1>3
<1> DEFINE Chunk(i) == LoggedWrites(order[i], CurrentVersion(order[i]), Playback(order[i], Found(v)[order[i]]))
           C == [i \in 1..m |-> Chunk(i)]
           F == CHOOSE f : f = [n \in 0..m |-> IF n = 0 THEN <<>> ELSE f[n - 1] \o Chunk(n)]
<1>5. \E f : f = [n \in 0..m |-> IF n = 0 THEN <<>> ELSE f[n - 1] \o Chunk(n)]
  <2>1. PICK f : IsConcat(f, C, m)
    BY <1>2, ConcatExists
  <2>2. \A n \in 1..m : C[n] = Chunk(n)
    OBVIOUS
  <2> HIDE DEF C, Chunk
  <2>3. f = [n \in 0..m |-> IF n = 0 THEN <<>> ELSE f[n - 1] \o C[n]]
    BY <2>1 DEF IsConcat
  <2>4. \A n \in 0..m : n # 0 => n \in 1..m
    BY <1>2
  <2>5. \A n \in 0..m : f[n] = IF n = 0 THEN <<>> ELSE f[n - 1] \o Chunk(n)
    BY <2>2, <2>3, <2>4
  <2>6. f = [n \in 0..m |-> f[n]]
    BY <2>3
  <2>7. f = [n \in 0..m |-> IF n = 0 THEN <<>> ELSE f[n - 1] \o Chunk(n)]
    BY <2>5, <2>6
  <2>8. QED
    BY <2>7
<1>6. ObjectsWrites(order, v) = F[m]
  BY <1>4 DEF ObjectsWrites
<1>7. F = [n \in 0..m |-> IF n = 0 THEN <<>> ELSE F[n - 1] \o Chunk(n)]
  BY <1>5
<1> HIDE DEF F, C
<1>8. F[0] = <<>> /\ \A n \in 1..m : F[n] = F[n - 1] \o Chunk(n)
  <2> HIDE DEF Chunk
  <2>1. \A n \in 0..m : F[n] = IF n = 0 THEN <<>> ELSE F[n - 1] \o Chunk(n)
    BY <1>7
  <2>2. 0 \in 0..m /\ \A n \in 1..m : n \in 0..m /\ n # 0
    BY <1>2
  <2>3. QED
    BY <2>1, <2>2
<1>9. PICK W : W = UNION {Range(Chunk(i)) : i \in 1..m}
  OBVIOUS
<1>10. ASSUME NEW i \in 1..m PROVE Chunk(i) \in Seq(W)
  <2>1. PICK a, b, c : Chunk(i) = Append(<<a, b>>, c)
    BY DEF LoggedWrites, SnapshotWrites
  <2>2. Range(Chunk(i)) \subseteq W
    BY <1>9
  <2> HIDE DEF Chunk
  <2>3. PICK t : t = Append(<<a, b>>, c)
    OBVIOUS
  <2>4. t \in Seq({a, b, c}) /\ Len(t) = 3
    BY <2>3
  <2>5. \A k \in 1..3 : t[k] \in Range(t)
    BY <2>4 DEF Range
  <2>6. t \in [1..3 -> W]
    <3>1. t = [k \in 1..3 |-> t[k]]
      BY <2>4
    <3>2. \A k \in 1..3 : t[k] \in W
      BY <2>1, <2>2, <2>3, <2>5
    <3>3. QED
      BY <3>1, <3>2
  <2>7. t \in Seq(W)
    <3>1. 3 \in Nat
      OBVIOUS
    <3>2. PICK n \in Nat : n = 3
      BY <3>1
    <3>3. t \in [1..n -> W]
      BY <3>2, <2>6
    <3>4. QED
      BY <3>3
  <2>8. QED
    BY <2>1, <2>3, <2>7
<1> DEFINE P(k) == /\ F[k] \in Seq(W)
                   /\ Runs(Store, F[k])
                   /\ \A i \in 1..m : k < i => /\ Ends(Store, F[k]).metadata[order[i]] = metadata[order[i]]
                                               /\ Unlogged(Ends(Store, F[k]), order[i])
           T == {k \in Nat : k <= m => P(k)}
<1>11. 0 \in T
  <2> SUFFICES P(0)
    OBVIOUS
  <2>1. F[0] \in Seq(W)
    BY <1>8
  <2>2. PICK s : s = Store
    OBVIOUS
  <2>3. Left(s) /\ s.metadata = metadata /\ \A o \in Objects : Unlogged(s, o)
    BY <2>2, StoreLeft
  <2>4. Runs(s, F[0]) /\ Ends(s, F[0]) = s
    BY <2>3, <1>8, RunsNone
  <2>5. \A i \in 1..m : order[i] \in Objects
    BY <1>2, <1>3
  <2> HIDE DEF Chunk
  <2>6. QED
    BY <2>1, <2>2, <2>3, <2>4, <2>5
<1>12. ASSUME NEW k \in T PROVE k + 1 \in T
  <2> SUFFICES ASSUME k + 1 <= m PROVE P(k + 1)
    OBVIOUS
  <2>1. k \in Nat /\ k <= m /\ k + 1 \in 1..m
    BY <1>2
  <2>2. P(k)
    BY <2>1
  <2>3. PICK a, s : a = F[k] /\ s = Ends(Store, a)
    OBVIOUS
  <2>4. /\ a \in Seq(W) /\ Runs(Store, a)
        /\ \A i \in 1..m : k < i => s.metadata[order[i]] = metadata[order[i]] /\ Unlogged(s, order[i])
    BY <2>2, <2>3
  <2>5. PICK o, x, w : o = order[k + 1] /\ x = Playback(o, Found(v)[o]) /\ w = Chunk(k + 1)
    OBVIOUS
  <2>6. o \in S /\ o \in Objects /\ x \in Seq(Nat) /\ CurrentVersion(o) = metadata[o]
    BY <2>1, <2>5, <1>2, <1>3
  <2>7. k + 1 \in 1..m /\ k < k + 1
    BY <2>1, <1>2
  <2>8. s.metadata[o] = metadata[o] /\ Unlogged(s, o)
    BY <2>4, <2>5, <2>7
  <2>9. w = LoggedWrites(o, metadata[o], x)
    BY <2>5, <2>6
  <2>10. w \in Seq(W)
    BY <2>1, <2>5, <1>10
  <2>11. F[k + 1] = a \o w
    <3> HIDE DEF Chunk
    <3>1. PICK n : n = k + 1
      OBVIOUS
    <3>2. n \in 1..m /\ n - 1 = k
      BY <3>1, <2>1
    <3>3. F[n] = F[n - 1] \o Chunk(n)
      BY <3>2, <1>8
    <3>4. QED
      BY <3>1, <3>2, <3>3, <2>3, <2>5
  <2> HIDE DEF Chunk
  <2>12. Left(s)
    BY <2>3, <2>4, EndsLeft
  <2>13. /\ Runs(s, w)
         /\ \A q \in Objects \ {o} :
              Ends(s, w).metadata[q] = s.metadata[q] /\ (Unlogged(s, q) => Unlogged(Ends(s, w), q))
    BY <2>6, <2>8, <2>9, <2>12, LoggedRuns
  <2>14. PICK c : c = F[k + 1]
    OBVIOUS
  <2>15. Joins(c, a, w) /\ c \in Seq(W)
    BY <2>4, <2>10, <2>11, <2>14, JoinsConcat
  <2>16. Runs(Store, c) /\ Ends(Store, c) = Ends(s, w)
    BY <2>3, <2>4, <2>13, <2>15, RunsJoin
  <2>17. ASSUME NEW i \in 1..m, k + 1 < i
         PROVE  Ends(s, w).metadata[order[i]] = metadata[order[i]] /\ Unlogged(Ends(s, w), order[i])
    <3>1. k < i /\ i # k + 1
      BY <2>1, <2>17
    <3>2. order[i] \in Objects /\ order[i] # o
      BY <3>1, <2>1, <2>5, <1>2, <1>3
    <3>3. QED
      BY <3>1, <3>2, <2>4, <2>13
  <2>18. QED
    BY <2>14, <2>15, <2>16, <2>17
<1>13. \A k \in Nat : k \in T
  <2> HIDE DEF T
  <2>1. T \in SUBSET Nat
    BY DEF T
  <2>2. T = Nat
    BY <2>1, <1>11, <1>12, Induction
  <2>3. QED
    BY <2>2
<1>14. F[m] \in Seq(W) /\ Runs(Store, F[m])
  <2>1. m \in T
    BY <1>2, <1>13
  <2>2. QED
    BY <2>1, <1>2
<1>15. QED
  BY <1>6, <1>14

\* A stop in the middle of -_restoreToVersion:.
LEMMA StoppedRestoreLeft ==
  ASSUME RowsInv, InstanceInv, LeftInv, NEW v \in -1..version, NEW writes \in RestoreWrites(v),
         NEW i \in 1..Len(writes) - 1
  PROVE  Left(After(Store, writes)[i])
<1>1. PICK order \in SetToSeqs(StaleAt(v)) :
        writes = Append(ObjectsWrites(order, v), HistoryRow(Context, v, version + 1))
  BY DEF RestoreWrites
<1>2. PICK a, h, b : a = ObjectsWrites(order, v) /\ h = HistoryRow(Context, v, version + 1) /\ b = <<h>>
  OBVIOUS
<1>3. Runs(Store, a) /\ \E W : a \in Seq(W)
  BY <1>2, ObjectsRun
<1>4. PICK W : a \in Seq(W)
  BY <1>3
<1>5. writes = Append(a, h) /\ Len(b) = 1
  BY <1>1, <1>2
<1>6. Joins(writes, a, b)
  BY <1>2, <1>4, <1>5, JoinsAppend
<1>7. \A j \in 1..Len(writes) - 1 : Left(After(Store, writes)[j])
  BY <1>3, <1>5, <1>6, StoppedLeft
<1>8. QED
  BY <1>7

------------------------------------------------------------------------------
(* The objects of the graph whose last version is logged.                     *)

\* A row names version n of o.
Names(o, n) == \E row \in Range(history) : row.object = o /\ row.objectVersion = n

\* The graph of the version has the last version of each of its objects, but of
\* those whose last version is in no row.
NamedInv == \A o \in DOMAIN Found(version) : Names(o, metadata[o]) => Found(version)[o] = metadata[o]

\* A row that was there names a version that was there.
LEMMA OldNames ==
  ASSUME RowsInv, NEW o \in Objects, NEW n \in Int, metadata[o] <= n, Names(o, n)
  PROVE  metadata[o] = n
<1>1. PICK row \in Range(history) : row.object = o /\ row.objectVersion = n
  BY DEF Names
<1>2. n \in 0..metadata[o] /\ metadata[o] \in Int
  BY <1>1, NamesAssumption DEF RowsInv, RowOK
<1>3. QED
  BY <1>2

LEMMA NamedRows ==
  ASSUME RowsInv, RowsInv', InstanceInv, Grows, NamedInv, Logs
  PROVE  NamedInv'
<1>1. version \in Nat /\ metadata \in [Objects -> Int] /\ metadata' \in [Objects -> Int]
      /\ DOMAIN Found(version) \subseteq Objects
  BY FoundStored DEF RowsInv
<1>2. CASE LogsNothing
  <2>1. metadata' = metadata /\ history' = history /\ version' \in {version, version + 1}
    BY <1>2 DEF LogsNothing
  <2>2. PICK c : c = version'
    OBVIOUS
  <2>3. DOMAIN Found(c)' = DOMAIN Found(version)
        /\ \A o \in DOMAIN Found(version) : Found(c)'[o] = Found(version)[o]
    <3>1. CASE version' = version
      <4>1. c = version /\ c \in -1..version
        BY <3>1, <1>1, <2>2
      <4>2. QED
        BY <4>1, FoundKept
    <3>2. CASE version' = version + 1
      BY <3>2, <1>2, <2>2, FoundNothing
    <3>3. QED
      BY <3>1, <3>2, <2>1
  <2>4. \A o : Names(o, metadata[o])' <=> Names(o, metadata[o])
    BY <2>1 DEF Names
  <2>5. QED
    BY <2>1, <2>2, <2>3, <2>4 DEF NamedInv
<1>3. ASSUME NEW o \in Objects, NEW n \in Int, NEW c, c = version', metadata'[o] = n,
             \A q \in Objects \ {o} : metadata'[q] = metadata[q],
             \A row \in Range(history') \ Range(history) : row.object = o,
             DOMAIN Found(c)' = {o} \cup DOMAIN Found(version), Found(c)'[o] = n,
             \A q \in DOMAIN Found(version) \ {o} : Found(c)'[q] = Found(version)[q]
      PROVE  NamedInv'
  <2>1. ASSUME NEW q \in DOMAIN Found(c)', Names(q, metadata[q])' PROVE Found(c)'[q] = metadata'[q]
    <3>1. CASE q = o
      BY <3>1, <1>3
    <3>2. CASE q # o
      <4>1. q \in DOMAIN Found(version) /\ Found(c)'[q] = Found(version)[q] /\ q \in Objects
            /\ metadata'[q] = metadata[q]
        BY <3>2, <1>1, <1>3
      <4>2. PICK row \in Range(history') : row.object = q /\ row.objectVersion = metadata[q]
        BY <2>1, <4>1 DEF Names
      <4>3. row \in Range(history)
        BY <3>2, <4>2, <1>3
      <4>4. Names(q, metadata[q])
        BY <4>2, <4>3 DEF Names
      <4>5. QED
        BY <4>1, <4>4 DEF NamedInv
    <3>3. QED
      BY <3>1, <3>2
  <2>2. QED
    BY <2>1, <1>3 DEF NamedInv
<1>4. ASSUME NEW o \in Objects, LogsOne(o) PROVE NamedInv'
  <2>1. PICK c, n : c = version + 1 /\ n = metadata[o] + 1
    OBVIOUS
  <2>2. /\ version' = c /\ metadata' = [metadata EXCEPT ![o] = n] /\ n \in Int
        /\ Range(history') = Range(history) \cup {LogRow(o, n, c)}
    BY <2>1, <1>1, <1>4 DEF LogsOne
  <2>3. Found(c)' = Over(Entry(o, n), Found(version))
    BY <2>1, <1>4, FoundOne
  <2>4. DOMAIN Found(c)' = {o} \cup DOMAIN Found(version)
    BY <2>3, EntryDomain
  <2>5. Found(c)'[o] = n
    BY <2>3, EntryNew
  <2>6. \A q \in DOMAIN Found(version) : q # o => Found(c)'[q] = Found(version)[q]
    BY <2>3, EntryOld
  <2>7. LogRow(o, n, c).object = o
    BY <2>1, <2>2, <1>1, RowIs
  <2>8. QED
    BY <2>2, <2>4, <2>5, <2>6, <2>7, <1>1, <1>3
<1>5. ASSUME NEW o \in Objects, LogsTwo(o) PROVE NamedInv'
  <2>1. PICK c, e : c = version + 1 /\ e = version + 2
    OBVIOUS
  <2>2. /\ version' = e /\ metadata' = [metadata EXCEPT ![o] = 1]
        /\ Range(history') = Range(history) \cup {LogRow(o, 0, c), LogRow(o, 1, e)}
    BY <2>1, <1>5 DEF LogsTwo
  <2>3. Found(c)' = Over(Entry(o, 0), Found(version)) /\ Found(e)' = Over(Entry(o, 1), Found(c)')
    BY <2>1, <1>5, FoundTwo
  <2>4. DOMAIN Found(c)' = {o} \cup DOMAIN Found(version)
    BY <2>3, EntryDomain
  <2>5. DOMAIN Found(e)' = {o} \cup DOMAIN Found(c)'
    BY <2>3, EntryDomain
  <2>6. \A q \in DOMAIN Found(version) : q # o => Found(c)'[q] = Found(version)[q]
    BY <2>3, EntryOld
  <2>7. \A q \in DOMAIN Found(c)' : q # o => Found(e)'[q] = Found(c)'[q]
    BY <2>3, EntryOld
  <2>8. Found(e)'[o] = 1
    BY <2>3, EntryNew
  <2>9. LogRow(o, 0, c).object = o /\ LogRow(o, 1, e).object = o
    BY <2>1, <1>1, RowIs
  <2>10. QED
    BY <2>2, <2>4, <2>5, <2>6, <2>7, <2>8, <2>9, <1>1, <1>3
<1>6. ASSUME NEW v \in FirstRestored..version - 1, LogsRestore(v) PROVE NamedInv'
  <2>1. PICK c : c = version + 1
    OBVIOUS
  <2>2. version' = c /\ DOMAIN Found(c)' = DOMAIN Found(v)
        /\ \A o \in DOMAIN Found(v) : Found(c)'[o] = metadata'[o]
    BY <2>1, <1>6, FoundRestore DEF LogsRestore
  <2>3. QED
    BY <2>2 DEF NamedInv
<1>7. QED
  BY <1>2, <1>4, <1>5, <1>6 DEF Logs

\* What a stop leaves.
LEMMA NamedLeft ==
  ASSUME RowsInv, RowsInv', InstanceInv, Grows, NamedInv, NEW s, Left(s),
         metadata' = s.metadata, history' = s.history, ~raised'
  PROVE  NamedInv'
<1>1. /\ version \in Nat /\ version' \in Nat /\ version <= version'
      /\ metadata \in [Objects -> Int] /\ metadata' \in [Objects -> Int]
      /\ DOMAIN Found(version) \subseteq Objects
      /\ \A o \in Objects : metadata[o] <= metadata'[o]
  BY FoundStored DEF RowsInv, Grows, Left, FilesOK
<1>2. PICK R : R = NewRows(s)
  OBVIOUS
<1>3. Range(history') = Range(history) \cup R
  BY <1>2 DEF Left, NewRows
<1>4. /\ \A row \in R : /\ row.contextVersion = version + 1 /\ row.object \in Objects
                        /\ row.objectVersion \in metadata[row.object] + 1..metadata'[row.object]
      /\ \A r1, r2 \in R : r1.object = r2.object => r1 = r2
  BY <1>2 DEF Left, RowLeft
<1>5. \A row \in Range(history) : row.contextVersion \in 1..version
  BY OldRows
<1>6. version' > 0 => \E row \in Range(history') : row.contextVersion = version'
  BY DEF RowsInv
<1>7. \A v \in -1..version : Found(v)' = Found(v)
  BY FoundKept
<1>8. CASE R = {}
  <2>1. version' = version
    BY <1>1, <1>3, <1>5, <1>6, <1>8
  <2>2. PICK c : c = version
    OBVIOUS
  <2>3. Found(c)' = Found(c) /\ version' = c
    BY <2>1, <2>2, <1>1, <1>7
  <2>4. ASSUME NEW o \in DOMAIN Found(c), Names(o, metadata[o])' PROVE Found(c)[o] = metadata'[o]
    <3>1. o \in Objects
      BY <2>2, <1>1
    <3>2. Names(o, metadata'[o])
      BY <2>4, <1>3, <1>8 DEF Names
    <3>3. metadata'[o] = metadata[o]
      <4>1. PICK n \in Int : n = metadata'[o]
        BY <3>1, <1>1
      <4>2. metadata[o] <= n /\ Names(o, n)
        BY <4>1, <3>1, <3>2, <1>1
      <4>3. metadata[o] = n
        BY <3>1, <4>2, OldNames
      <4>4. QED
        BY <4>1, <4>3
    <3>4. QED
      BY <3>2, <3>3, <2>2 DEF NamedInv
  <2>5. QED
    BY <2>3, <2>4 DEF NamedInv
<1>9. CASE R # {}
  <2>1. PICK c : c = version + 1
    OBVIOUS
  <2>2. version' = c
    <3>1. PICK row \in R : row.contextVersion = c
      BY <2>1, <1>4, <1>9
    <3>2. row \in Range(history') /\ c \in 1..version'
      BY <3>1, <1>3 DEF RowsInv, RowOK
    <3>3. version' > 0
      BY <3>2, <1>1
    <3>4. PICK r \in Range(history') : r.contextVersion = version'
      BY <3>3, <1>6
    <3>5. version' \in 1..version \/ version' = c
      BY <3>4, <2>1, <1>3, <1>4, <1>5
    <3>6. QED
      BY <3>2, <3>5, <2>1, <1>1
  <2>3. RowFacts' /\ GoesBack' /\ FoundEquation'
    BY RowsSay, RowsGoBack, FoundIs, PTL
  <2>4. c \in 1..version' /\ c \notin 1..version /\ c - 1 = version
    BY <2>1, <2>2, <1>1
  <2>5. \A row \in Range(history') : row.contextVersion = c <=> row \in R
    BY <2>1, <2>4, <1>3, <1>4, <1>5
  <2>6. \A row \in R : row.object # Context
    BY <1>4, NamesAssumption
  <2>7. Before(c)' = version
    <3>1. ~IsRestorePoint(c)'
      BY <2>3, <2>4, <2>5, <2>6 DEF RowFacts
    <3>2. Before(c)' = c - 1
      BY <2>3, <2>4, <3>1 DEF RowFacts
    <3>3. QED
      BY <3>2, <2>4
  <2>8. PICK g : g = VersionsAt(c)'
    OBVIOUS
  <2>9. /\ \A o : o \in DOMAIN g <=> \E row \in R : row.object = o
        /\ \A row \in R : g[row.object] = row.objectVersion
    <3>1. \A o : o \in DOMAIN g <=> \E row \in Range(history') : row.contextVersion = c /\ row.object = o /\ o # Context
      BY <2>3, <2>4, <2>8 DEF RowFacts
    <3>2. \A row \in R : row \in Range(history') /\ row.contextVersion = c /\ row.object # Context
      BY <2>5, <2>6, <1>3
    <3>3. \A row \in R : g[row.object] = row.objectVersion
      BY <2>3, <2>4, <2>8, <3>2 DEF RowFacts
    <3>4. QED
      BY <3>1, <3>2, <3>3, <2>5
  <2>10. Found(c)' = Over(g, Found(version))
    <3>1. PICK b : b = version
      OBVIOUS
    <3>2. b \in -1..version' /\ b \in -1..version
      BY <3>1, <1>1
    <3>3. Found(c)' = Over(VersionsAt(c)', Found(b)')
      BY <3>1, <3>2, <2>3, <2>4, <2>7 DEF FoundEquation
    <3>4. Found(b)' = Found(b)
      BY <3>2, <1>7
    <3>5. QED
      BY <3>1, <3>3, <3>4, <2>8
  <2>11. ASSUME NEW o \in DOMAIN Found(c)', Names(o, metadata[o])' PROVE Found(c)'[o] = metadata'[o]
    <3>1. o \in DOMAIN g \cup DOMAIN Found(version)
      BY <2>10, OverDomain
    <3>2. o \in Objects
      BY <3>1, <2>9, <1>1, <1>4
    <3>3. PICK n \in Int : n = metadata'[o]
      BY <3>2, <1>1
    <3>4. PICK r \in Range(history') : r.object = o /\ r.objectVersion = n
      BY <2>11, <3>3 DEF Names
    <3>5. CASE r \in R
      <4>1. o \in DOMAIN g /\ g[o] = n
        BY <3>4, <3>5, <2>9
      <4>2. Found(c)'[o] = n
        BY <4>1, <2>10, OverFirst
      <4>3. QED
        BY <4>2, <3>3
    <3>6. CASE r \notin R
      <4>1. Names(o, n)
        BY <3>4, <3>6, <1>3 DEF Names
      <4>2. metadata[o] <= n
        BY <3>2, <3>3, <1>1
      <4>3. metadata[o] = n
        BY <3>2, <4>1, <4>2, OldNames
      <4>4. o \notin DOMAIN g
        <5>1. ASSUME NEW row \in R, row.object = o PROVE FALSE
          <6>1. row.objectVersion \in metadata[o] + 1..metadata'[o] /\ metadata[o] \in Int
            BY <5>1, <3>2, <1>1, <1>4
          <6>2. metadata'[o] = metadata[o]
            BY <4>3, <3>3
          <6>3. QED
            BY <6>1, <6>2
        <5>2. QED
          BY <5>1, <2>9
      <4>5. o \in DOMAIN Found(version) /\ Found(c)'[o] = Found(version)[o]
        BY <4>4, <3>1, <2>10, OverElse
      <4>6. Found(version)[o] = n
        BY <4>1, <4>3, <4>5 DEF NamedInv
      <4>7. QED
        BY <4>5, <4>6, <3>3
    <3>7. QED
      BY <3>5, <3>6
  <2>12. QED
    BY <2>2, <2>11 DEF NamedInv
<1>10. QED
  BY <1>8, <1>9

------------------------------------------------------------------------------
(* What each step keeps.                                                      *)

\* The step writes files of new versions only, and may leave some of the next one.
FilesSame ==
  \A o \in Objects : /\ metadata[o] <= metadata'[o]
                     /\ SameUpTo(fullSave[o], fullSave'[o], metadata[o])
                     /\ SameUpTo(delta[o], delta'[o], metadata[o])

LEMMA StopKeeps ==
  ASSUME RowsInv, InstanceInv, LeftInv, ~raised, NEW s, Left(s),
         fullSave' = s.fullSave, delta' = s.delta, metadata' = s.metadata, history' = s.history,
         Reopen, raised' = raised
  PROVE  RowsInv' /\ InstanceInv' /\ CursorInv' /\ LeftInv' /\ Grows /\ FilesSame /\ (NamedInv => NamedInv')
<1>1. /\ version \in Nat /\ history \in Seq(AnyRow) /\ metadata \in [Objects -> Int]
      /\ \A o \in Objects : -1 <= metadata[o]
  BY DEF RowsInv, InstanceInv
<1>2. IsStore(s) /\ \A o \in Objects : FilesOK(s, o)
  BY DEF Left
<1>3. /\ history' \in Seq(AnyRow) /\ metadata' \in [Objects -> Int]
      /\ fullSave' = [o \in Objects |-> fullSave'[o]] /\ delta' = [o \in Objects |-> delta'[o]]
  BY <1>2 DEF IsStore
<1>4. FilesSame
  BY <1>2 DEF FilesSame, FilesOK
<1>5. PICK R : R = NewRows(s)
  OBVIOUS
<1>6. Range(history') = Range(history) \cup R /\ R \subseteq AnyRow
  <2>1. Range(history) \subseteq Range(s.history) /\ Range(s.history) \subseteq AnyRow
    BY <1>2, RangeIs DEF Left, IsStore
  <2>2. QED
    BY <2>1, <1>5 DEF NewRows
<1>7. /\ \A row \in R : RowLeft(s, row)
      /\ \A r1, r2 \in R : r1.object = r2.object => r1 = r2
  BY <1>5 DEF Left
<1>8. \A row \in Range(history) : row.contextVersion \in 1..version
  BY OldRows
<1> DEFINE V == {0} \cup {row.contextVersion : row \in Range(history')}
<1>9. version' = Max(V)
  BY DEF Reopen, LatestVersion
<1>10. ASSUME R = {} PROVE RowsInv' /\ Grows
  <2>1. V = {0} \cup {row.contextVersion : row \in Range(history)}
    BY <1>6, <1>10
  <2>2. version' = LatestVersion(history)
    BY <2>1, <1>9 DEF LatestVersion
  <2>3. version' = version
    BY <2>2, LatestIs
  <2>4. \A row \in R : RowOK(row)' /\ version < row.contextVersion
    BY <1>10
  <2>5. \A r1, r2 \in R : r1.contextVersion = r2.contextVersion /\ r1.object = r2.object => r1 = r2
    BY <1>10
  <2>6. version' \in Nat /\ version <= version' /\ version' = version
    BY <2>3, <1>1
  <2>7. \A o \in Objects : metadata[o] <= metadata'[o]
    BY <1>4 DEF FilesSame
  <2>8. QED
    BY <2>4, <2>5, <2>6, <2>7, <1>3, <1>6, RowsAdded
<1>11. ASSUME R # {} PROVE RowsInv' /\ Grows
  <2>1. PICK r \in R : TRUE
    BY <1>11
  <2>2. r.contextVersion = version + 1 /\ version + 1 \in Nat
    BY <1>1, <1>7 DEF RowLeft
  <2>3. \A row \in Range(history') : row.contextVersion \in 0..version + 1
    BY <1>1, <1>6, <1>7, <1>8 DEF RowLeft
  <2>4. V \in SUBSET (0..version + 1) /\ version + 1 \in V
    BY <2>1, <2>2, <2>3, <1>6
  <2> HIDE DEF V
  <2>5. version' = version + 1
    <3>1. \A x \in V : x <= version + 1
      BY <2>4, <1>1
    <3>2. PICK n \in Nat : n = version + 1
      BY <2>2
    <3>3. V \in SUBSET (0..n) /\ n \in V /\ \A x \in V : x <= n
      BY <2>4, <3>1, <3>2
    <3>4. Max(V) = n
      BY <3>3, MaxUnique
    <3>5. QED
      BY <3>2, <3>4, <1>9
  <2>6. ASSUME NEW row \in R PROVE RowOK(row)' /\ version < row.contextVersion
    <3>1. row.contextVersion = version + 1 /\ row.object \in Objects
          /\ row.objectVersion \in metadata[row.object] + 1..metadata'[row.object]
      BY <1>7 DEF RowLeft
    <3>2. PICK q : q = row.object
      OBVIOUS
    <3>3. metadata[q] \in Int /\ -1 <= metadata[q] /\ metadata'[q] \in Int
      BY <3>1, <3>2, <1>1, <1>3
    <3>4. row.objectVersion \in 0..metadata'[q]
      BY <3>1, <3>2, <3>3
    <3>5. row.object # Context
      BY <3>1, NamesAssumption
    <3>6. QED
      BY <3>1, <3>2, <3>4, <3>5, <2>5, <1>1 DEF RowOK
  <2>7. \A r1, r2 \in R : r1.contextVersion = r2.contextVersion /\ r1.object = r2.object => r1 = r2
    BY <1>7
  <2>8. \E row \in R : row.contextVersion = version'
    BY <2>1, <2>2, <2>5
  <2>9. version' \in Nat /\ version <= version'
    BY <2>5, <1>1
  <2>10. \A o \in Objects : metadata[o] <= metadata'[o]
    BY <1>4 DEF FilesSame
  <2>11. QED
    BY <2>6, <2>7, <2>8, <2>9, <2>10, <1>3, <1>6, RowsAdded
<1>12. RowsInv' /\ Grows
  BY <1>10, <1>11
<1>13. registered' = [o \in Objects |-> nil] /\ \A o \in Objects : registered'[o] = nil
  BY DEF Reopen
<1>14. \A o \in Objects : -1 <= metadata'[o]
  BY <1>1, <1>3, <1>4 DEF FilesSame
<1>15. InstanceInv'
  BY <1>13, <1>14 DEF InstanceInv
<1>16. CursorInv'
  BY DEF Reopen, CursorInv, RedoComesBack
<1>17. LeftInv'
  <2>1. \A o \in Objects : FilesLeft(fullSave'[o], delta'[o], metadata'[o])
    BY <1>2 DEF FilesOK
  <2>2. Loaded' = {}
    BY <1>13 DEF Loaded
  <2>3. QED
    BY <2>1, <2>2, <1>3 DEF LeftInv
<1>18. NamedInv => NamedInv'
  BY <1>12, NamedLeft
<1>19. QED
  BY <1>4, <1>12, <1>15, <1>16, <1>17, <1>18

\* The operations that may be stopped.
StoppedNext ==
  \/ \E o \in Objects : StoppedInsert(o) \/ StoppedRecord(o)
  \/ \E o \in Objects, edited \in BOOLEAN : StoppedSave(o, edited)
  \/ \E o \in Objects, v \in 0..MaxVersion : StoppedRestoreObject(o, v)
  \/ \E v \in 0..MaxVersion : StoppedRestore(v)

\* The writes of an operation, of which each part leaves what a stop may leave.
LEMMA StoppedKeeps ==
  ASSUME RowsInv, InstanceInv, LeftInv, NEW writes, Stopped(writes),
         \A i \in 1..Len(writes) - 1 : Left(After(Store, writes)[i])
  PROVE  /\ RowsInv' /\ InstanceInv' /\ CursorInv' /\ LeftInv' /\ Grows /\ FilesSame
         /\ NamedInv => NamedInv'
         /\ \A o \in Objects : registered'[o] = nil
<1>1. PICK n \in 1..Len(writes) - 1 :
        LET store == After(Store, writes)[n]
        IN  fullSave' = store.fullSave /\ delta' = store.delta
            /\ metadata' = store.metadata /\ history' = store.history
  BY DEF Stopped
<1> DEFINE s == After(Store, writes)[n]
<1>2. /\ Left(s)
      /\ fullSave' = s.fullSave /\ delta' = s.delta /\ metadata' = s.metadata /\ history' = s.history
  BY <1>1
<1> HIDE DEF s
<1>3. ~raised /\ raised' = raised /\ Reopen
  BY DEF Stopped
<1>4. QED
  BY <1>2, <1>3, StopKeeps DEF Reopen

\* What a merge may restore an object to has its files.
LEMMA LastHasFiles ==
  ASSUME LeftInv, RowsInv, NEW o \in Objects, metadata[o] # -1, NEW v \in 0..MaxVersion, v <= LastVersion(o)
  PROVE  HasFiles(fullSave[o], delta[o], v) /\ Playback(o, v) \in Seq(Nat)
<1> DEFINE f == fullSave[o]
           d == delta[o]
           m == metadata[o]
<1>1. f = fullSave[o] /\ d = delta[o] /\ m = metadata[o]
  OBVIOUS
<1> HIDE DEF f, d, m
<1>2. FilesLeft(f, d, m) /\ m \in Nat
  BY <1>1 DEF LeftInv, FilesLeft
<1> DEFINE S == DOMAIN f \cup DOMAIN d
<1>3. S \in SUBSET (0..m + 1) /\ S # {} /\ m + 1 \in Nat
  BY <1>2 DEF FilesLeft
<1>4. LastVersion(o) = Max(S)
  BY <1>1 DEF LastVersion
<1> HIDE DEF S
<1>5. Max(S) \in S /\ Max(S) \in 0..m + 1
  BY <1>3, MaxIs
<1>6. 0..v \subseteq S
  <2>1. v \in Nat /\ v <= Max(S)
    BY <1>4, IntervalAssumption
  <2>2. ASSUME NEW i \in 0..v PROVE i \in 0..m \/ i = Max(S)
    BY <2>1, <1>2, <1>5
  <2>3. 0..m \subseteq S
    BY <1>2 DEF FilesLeft, S
  <2>4. QED
    BY <2>2, <2>3, <1>5
<1>7. HasFiles(f, d, v)
  BY <1>6, IntervalAssumption DEF HasFiles, S
<1>8. Play(f, d, v) \in Seq(Nat)
  BY <1>2, <1>7, LeftPlayType
<1>9. Playback(o, v) = Play(f, d, v)
  BY <1>1, PlaybackIs
<1>10. QED
  BY <1>1, <1>7, <1>8, <1>9

LEMMA StoppedNextKeeps ==
  ASSUME RowsInv, InstanceInv, LeftInv, StoppedNext
  PROVE  /\ RowsInv' /\ InstanceInv' /\ CursorInv' /\ LeftInv' /\ Grows /\ FilesSame
         /\ NamedInv => NamedInv'
         /\ \A o \in Objects : registered'[o] = nil
<1>1. version \in Nat /\ \A o \in Loaded : registered[o].version = metadata[o] /\ o \in Objects
                                            /\ registered[o].content \in Seq(Nat)
  BY LoadedIs DEF RowsInv, LeftInv, Loaded
<1> DEFINE Kept == /\ RowsInv' /\ InstanceInv' /\ CursorInv' /\ LeftInv' /\ Grows /\ FilesSame
                   /\ NamedInv => NamedInv'
                   /\ \A o \in Objects : registered'[o] = nil
<1>2. ASSUME NEW o \in Objects, NEW k, k = metadata[o], NEW x \in Seq(Nat), Stopped(LoggedWrites(o, k, x))
      PROVE  Kept
  <2>1. PICK w : w = LoggedWrites(o, k, x)
    OBVIOUS
  <2>2. \A n \in 1..Len(w) - 1 : Left(After(Store, w)[n])
    BY <2>1, <1>2, StoppedLogged
  <2>3. Stopped(w)
    BY <2>1, <1>2
  <2>4. QED
    BY <2>2, <2>3, StoppedKeeps
<1>3. ASSUME NEW o \in Objects, StoppedInsert(o) PROVE Kept
  <2>1. metadata[o] = -1 /\ Stopped(LoggedWrites(o, -1, <<>>)) /\ <<>> \in Seq(Nat)
    BY <1>3 DEF StoppedInsert, IsStored
  <2>2. QED
    BY <2>1, <1>2
<1>4. ASSUME NEW o \in Objects, NEW edited \in BOOLEAN, StoppedSave(o, edited) PROVE Kept
  <2>1. PICK r, x : r = registered[o] /\ x = IF edited THEN Append(r.content, version + 1) ELSE r.content
    OBVIOUS
  <2>2. o \in Loaded /\ Stopped(LoggedWrites(o, r.version, x))
    BY <2>1, <1>4 DEF StoppedSave
  <2>3. r.version = metadata[o] /\ x \in Seq(Nat)
    BY <2>1, <2>2, <1>1
  <2>4. QED
    BY <2>2, <2>3, <1>2
<1>5. ASSUME NEW o \in Objects, StoppedRecord(o) PROVE Kept
  <2>1. PICK w : w = RecordWrites(o)
    OBVIOUS
  <2>2. o \in Loaded /\ Stopped(w)
    BY <2>1, <1>5 DEF StoppedRecord
  <2>3. \A n \in 1..Len(w) - 1 : Left(After(Store, w)[n])
    BY <2>1, <2>2, StoppedRecordLeft
  <2>4. QED
    BY <2>2, <2>3, StoppedKeeps
<1>6. ASSUME NEW o \in Objects, NEW v \in 0..MaxVersion, StoppedRestoreObject(o, v) PROVE Kept
  <2>1. PICK r, x : r = registered[o] /\ x = Playback(o, v)
    OBVIOUS
  <2>2. o \in Loaded /\ metadata[o] # -1 /\ v <= LastVersion(o) /\ Stopped(LoggedWrites(o, r.version, x))
    BY <2>1, <1>6 DEF StoppedRestoreObject, IsStored
  <2>3. r.version = metadata[o] /\ x \in Seq(Nat)
    BY <2>1, <2>2, <1>1, LastHasFiles
  <2>4. QED
    BY <2>2, <2>3, <1>2
<1>7. ASSUME NEW v \in 0..MaxVersion, StoppedRestore(v) PROVE Kept
  <2>1. PICK w \in RestoreWrites(v) : Stopped(w)
    BY <1>7 DEF StoppedRestore
  <2>2. v \in -1..version
    BY <1>1, <1>7, IntervalAssumption DEF StoppedRestore
  <2>3. \A n \in 1..Len(w) - 1 : Left(After(Store, w)[n])
    BY <2>1, <2>2, StoppedRestoreLeft
  <2>4. QED
    BY <2>1, <2>3, StoppedKeeps
<1>8. QED
  BY <1>3, <1>4, <1>5, <1>6, <1>7 DEF StoppedNext

LEMMA LeftSnapshot ==
  ASSUME NEW f, NEW d, NEW m, FilesLeft(f, d, m), NEW x \in Seq(Nat)
  PROVE  /\ FilesLeft(Over(Entry(m + 1, x), f), d, m + 1)
         /\ SameUpTo(f, Over(Entry(m + 1, x), f), m)
<1>1. m \in Nat \cup {-1} /\ 0..m \subseteq DOMAIN f \cup DOMAIN d
      /\ DOMAIN f \subseteq 0..m + 1 /\ DOMAIN d \subseteq 1..m + 1
      /\ (\A s \in DOMAIN f : f[s] \in Seq(Nat)) /\ (\A n \in DOMAIN d : d[n] \in Nat)
  BY DEF FilesLeft
<1>2. PICK g : g = Over(Entry(m + 1, x), f)
  OBVIOUS
<1>3. DOMAIN g = {m + 1} \cup DOMAIN f /\ g[m + 1] = x /\ \A s \in DOMAIN f : s # m + 1 => g[s] = f[s]
  <2>1. DOMAIN g = {m + 1} \cup DOMAIN f
    BY <1>2, EntryDomain
  <2>2. g[m + 1] = x
    BY <1>2, EntryNew
  <2>3. \A s \in DOMAIN f : s # m + 1 => g[s] = f[s]
    BY <1>2, EntryOld
  <2>4. QED
    BY <2>1, <2>2, <2>3
<1>4. m + 1 \in Nat /\ (\A s \in 0..m + 1 : s \in 0..m \/ s = m + 1) /\ (\A s \in 0..m : s # m + 1)
      /\ 0..m + 1 \subseteq 0..m + 1 + 1 /\ 1..m + 1 \subseteq 1..m + 1 + 1 /\ m + 1 \in 0..m + 1 + 1
  BY <1>1
<1>5. 0..m + 1 \subseteq DOMAIN g \cup DOMAIN d
  BY <1>1, <1>3, <1>4
<1>6. DOMAIN g \subseteq 0..m + 1 + 1 /\ DOMAIN d \subseteq 1..m + 1 + 1
  BY <1>1, <1>3, <1>4
<1>7. \A s \in DOMAIN g : g[s] \in Seq(Nat)
  BY <1>1, <1>3
<1>8. FilesLeft(g, d, m + 1)
  BY <1>1, <1>4, <1>5, <1>6, <1>7 DEF FilesLeft
<1>9. SameUpTo(f, g, m)
  BY <1>3, <1>4 DEF SameUpTo
<1>10. QED
  BY <1>2, <1>8, <1>9

\* The files stay, and the contents are contents.
LEMMA QuietLeft ==
  ASSUME RowsInv, LeftInv, UNCHANGED stored,
         \A q \in Objects : registered'[q] = nil \/ registered'[q].content \in Seq(Nat)
  PROVE  LeftInv' /\ FilesSame
<1>1. fullSave' = fullSave /\ delta' = delta /\ metadata' = metadata
  BY DEF stored
<1>2. \A o \in Objects : metadata[o] <= metadata[o]
  BY DEF RowsInv
<1>3. FilesSame
  BY <1>1, <1>2, SameSelf DEF FilesSame
<1>4. \A o \in Loaded' : o \in Objects /\ registered'[o].content \in Seq(Nat)
  BY DEF Loaded
<1>5. LeftInv'
  BY <1>1, <1>4 DEF LeftInv
<1>6. QED
  BY <1>3, <1>5

\* A snapshot of one object.
LEMMA SnapshotKeepsLeft ==
  ASSUME RowsInv, InstanceInv, LeftInv, NEW o \in Objects, NEW m, m = metadata[o], NEW x \in Seq(Nat),
         Snapshot(o, m, x), delta' = delta
  PROVE  LeftInv' /\ FilesSame
<1>1. fullSave = [q \in Objects |-> fullSave[q]] /\ delta = [q \in Objects |-> delta[q]]
      /\ (\A q \in Objects : FilesLeft(fullSave[q], delta[q], metadata[q]))
      /\ metadata \in [Objects -> Int] /\ registered = [q \in Objects |-> registered[q]]
  BY DEF LeftInv, RowsInv, InstanceInv
<1>2. PICK g : g = Over(Entry(m + 1, x), fullSave[o])
  OBVIOUS
<1>3. fullSave' = [fullSave EXCEPT ![o] = g] /\ metadata' = [metadata EXCEPT ![o] = m + 1]
      /\ registered' = [registered EXCEPT ![o] = [version |-> m + 1, content |-> x]]
  BY <1>2 DEF Snapshot
<1>4. FilesLeft(g, delta[o], m + 1) /\ SameUpTo(fullSave[o], g, m)
  BY <1>1, <1>2, LeftSnapshot
<1>5. /\ fullSave' = [q \in Objects |-> fullSave'[q]] /\ fullSave'[o] = g /\ metadata'[o] = m + 1
      /\ \A q \in Objects \ {o} : fullSave'[q] = fullSave[q] /\ metadata'[q] = metadata[q]
  BY <1>1, <1>3
<1>6. \A q \in Objects : FilesLeft(fullSave'[q], delta'[q], metadata'[q])
  BY <1>1, <1>4, <1>5
<1>7. FilesSame
  <2>1. ASSUME NEW q \in Objects
        PROVE  /\ metadata[q] <= metadata'[q]
               /\ SameUpTo(fullSave[q], fullSave'[q], metadata[q])
               /\ SameUpTo(delta[q], delta'[q], metadata[q])
    <3>1. metadata[q] <= metadata'[q]
      <4>1. metadata[q] \in Int /\ m \in Int
        BY <1>1
      <4>2. CASE q = o
        <5>1. metadata[q] = m /\ metadata'[q] = m + 1
          BY <4>2, <1>5
        <5>2. QED
          BY <5>1, <4>1
      <4>3. CASE q # o
        <5>1. metadata'[q] = metadata[q]
          BY <4>3, <1>5
        <5>2. QED
          BY <5>1, <4>1
      <4>4. QED
        BY <4>2, <4>3
    <3>2. SameUpTo(fullSave[q], fullSave'[q], metadata[q])
      BY <1>4, <1>5, SameSelf
    <3>3. SameUpTo(delta[q], delta'[q], metadata[q])
      BY SameSelf
    <3>4. QED
      BY <3>1, <3>2, <3>3
  <2>2. QED
    BY <2>1 DEF FilesSame
<1>8. \A q \in Loaded' : registered'[q].content \in Seq(Nat)
  <2>1. ASSUME NEW q \in Loaded' PROVE registered'[q].content \in Seq(Nat)
    <3>1. q \in Objects /\ registered'[q] # nil
      BY <2>1 DEF Loaded
    <3>2. CASE q = o
      BY <3>2, <1>1, <1>3
    <3>3. CASE q # o
      <4>1. registered'[q] = registered[q]
        BY <3>1, <3>3, <1>1, <1>3
      <4>2. q \in Loaded
        BY <3>1, <4>1 DEF Loaded
      <4>3. QED
        BY <4>1, <4>2 DEF LeftInv
    <3>4. QED
      BY <3>2, <3>3
  <2>2. QED
    BY <2>1
<1>9. LeftInv'
  BY <1>1, <1>5, <1>6, <1>8 DEF LeftInv
<1>10. QED
  BY <1>7, <1>9

\* The files and the contents of a message, of o and of the p it was sent to.
LEMMA RecordKeepsLeft ==
  ASSUME RowsInv, InstanceInv, LeftInv, NEW o \in Loaded, NEW p \in Loaded \cup {nil}, Record(o, p)
  PROVE  LeftInv' /\ FilesSame
<1>1. /\ fullSave = [q \in Objects |-> fullSave[q]] /\ delta = [q \in Objects |-> delta[q]]
      /\ \A q \in Objects : FilesLeft(fullSave[q], delta[q], metadata[q])
      /\ metadata \in [Objects -> Int] /\ version \in Nat
      /\ o \in Objects /\ registered[o].version = metadata[o]
      /\ \A q \in Loaded : registered[q].content \in Seq(Nat)
  BY LoadedIs DEF LeftInv, RowsInv, Loaded
<1> DEFINE r == registered[o]
           first == r.version = -1
           n == IF first THEN 1 ELSE r.version + 1
           c == version + IF first THEN 2 ELSE 1
           snapshots == (IF first THEN {0} ELSE {}) \cup (IF n % SnapshotInterval = 0 THEN {n} ELSE {})
           g == [s \in snapshots |-> r.content]
           e == Entry(n, c)
<1>2. /\ fullSave' = [fullSave EXCEPT ![o] = Over(g, fullSave[o])]
      /\ delta' = [delta EXCEPT ![o] = Over(e, delta[o])]
      /\ metadata' = [metadata EXCEPT ![o] = n]
      /\ registered' = [q \in Objects |->
           IF q = o THEN [version |-> n, content |-> Append(r.content, c)]
           ELSE IF q = p THEN [registered[q] EXCEPT !.content = Append(@, c)]
           ELSE registered[q]]
  BY DEF Record
<1>3. PICK m : m = metadata[o]
  OBVIOUS
<1>4. m \in Nat \cup {-1} /\ (first <=> m = -1) /\ FilesLeft(fullSave[o], delta[o], m)
  BY <1>1, <1>3 DEF FilesLeft
<1>5. n \in Nat /\ n # 0 /\ c \in Nat /\ m <= n /\ (first => m = -1 /\ n = 1) /\ (~first => n = m + 1)
  BY <1>1, <1>3, <1>4
<1>6. /\ DOMAIN g \subseteq m + 1..n + 1 /\ \A s \in DOMAIN g : g[s] \in Seq(Nat)
      /\ DOMAIN e \subseteq m + 1..n + 1 /\ 0 \notin DOMAIN e /\ \A s \in DOMAIN e : e[s] \in Nat
      /\ m + 1..n \subseteq DOMAIN g \cup DOMAIN e
  <2>1. snapshots \subseteq {0, n} /\ (first => 0 \in snapshots) /\ (~first => snapshots \subseteq {n})
    OBVIOUS
  <2>2. DOMAIN g = snapshots /\ \A s \in DOMAIN g : g[s] = r.content
    OBVIOUS
  <2>3. DOMAIN e = {n} /\ \A s \in DOMAIN e : e[s] = c
    BY DEF Entry
  <2>4. r.content \in Seq(Nat)
    BY <1>1
  <2> HIDE DEF snapshots, g, e, first, n, c, r
  <2>5. n \in m + 1..n + 1 /\ (first => m + 1..n = {0, n} /\ 0 \in m + 1..n + 1) /\ (~first => m + 1..n = {n})
    BY <1>4, <1>5
  <2>6. DOMAIN g \subseteq m + 1..n + 1
    BY <2>1, <2>2, <2>5
  <2>7. m + 1..n \subseteq DOMAIN g \cup DOMAIN e
    BY <2>1, <2>2, <2>3, <2>5
  <2>8. QED
    BY <2>2, <2>3, <2>4, <2>5, <2>6, <2>7, <1>5
<1> HIDE DEF g, e, snapshots, n, c, first
<1>7. PICK f, d : f = Over(g, fullSave[o]) /\ d = Over(e, delta[o])
  OBVIOUS
<1>8. FilesLeft(f, d, n) /\ SameUpTo(fullSave[o], f, m) /\ SameUpTo(delta[o], d, m)
  <2>1. PICK f0, d0 : f0 = fullSave[o] /\ d0 = delta[o]
    OBVIOUS
  <2>2. FilesLeft(f0, d0, m) /\ n \in Int /\ m <= n
    BY <2>1, <1>4, <1>5
  <2>3. FilesLeft(Over(g, f0), Over(e, d0), n) /\ SameUpTo(f0, Over(g, f0), m) /\ SameUpTo(d0, Over(e, d0), m)
    BY <2>2, <1>6, LeftGrows
  <2>4. QED
    BY <2>1, <2>3, <1>7
<1>9. /\ fullSave' = [q \in Objects |-> fullSave'[q]] /\ delta' = [q \in Objects |-> delta'[q]]
      /\ fullSave'[o] = f /\ delta'[o] = d /\ metadata'[o] = n
      /\ \A q \in Objects \ {o} : fullSave'[q] = fullSave[q] /\ delta'[q] = delta[q] /\ metadata'[q] = metadata[q]
  BY <1>1, <1>2, <1>7
<1>10. \A q \in Objects : FilesLeft(fullSave'[q], delta'[q], metadata'[q])
  BY <1>1, <1>8, <1>9
<1>11. FilesSame
  <2>1. ASSUME NEW q \in Objects \ {o}
        PROVE  /\ metadata[q] <= metadata'[q]
               /\ SameUpTo(fullSave[q], fullSave'[q], metadata[q])
               /\ SameUpTo(delta[q], delta'[q], metadata[q])
    <3>1. metadata[q] \in Int /\ metadata'[q] = metadata[q] /\ fullSave'[q] = fullSave[q] /\ delta'[q] = delta[q]
      BY <1>1, <1>9
    <3>2. QED
      BY <3>1, SameSelf
  <2>2. QED
    BY <2>1, <1>3, <1>5, <1>8, <1>9 DEF FilesSame
<1>12. ASSUME NEW q \in Loaded' PROVE registered'[q].content \in Seq(Nat)
  <2>1. q \in Objects /\ registered'[q] # nil
    BY <1>12 DEF Loaded
  <2>2. CASE q = o
    <3>1. registered'[q].content = Append(r.content, c)
      BY <2>1, <2>2, <1>2
    <3>2. r.content \in Seq(Nat)
      BY <1>1
    <3>3. QED
      BY <3>1, <3>2, <1>5
  <2>3. CASE q # o /\ q = p
    <3>1. registered'[q] = [registered[q] EXCEPT !.content = Append(registered[q].content, c)]
      BY <2>1, <2>3, <1>2
    <3>2. q \in Loaded /\ registered[q] # nil
      BY <2>1, <2>3, NamesAssumption DEF Loaded
    <3>3. PICK x : x = Append(registered[q].content, c)
      OBVIOUS
    <3>4. x \in Seq(Nat)
      BY <3>2, <3>3, <1>1, <1>5
    <3>5. registered[q] = [version |-> metadata[q], content |-> registered[q].content]
      BY <2>1, <3>2 DEF InstanceInv, InstanceOf
    <3>6. PICK s, t : s = registered'[q] /\ t = registered[q]
      OBVIOUS
    <3>7. t = [version |-> metadata[q], content |-> t.content] /\ s = [t EXCEPT !.content = x]
      BY <3>1, <3>3, <3>5, <3>6
    <3>8. s = [version |-> metadata[q], content |-> x]
      BY <3>7
    <3>9. QED
      BY <3>4, <3>6, <3>8
  <2>4. CASE q # o /\ q # p
    <3>1. registered'[q] = registered[q]
      BY <2>1, <2>4, <1>2
    <3>2. q \in Loaded
      BY <2>1, <3>1 DEF Loaded
    <3>3. QED
      BY <3>1, <3>2, <1>1
  <2>5. QED
    BY <2>2, <2>3, <2>4
<1>13. LeftInv'
  BY <1>9, <1>10, <1>12 DEF LeftInv
<1>14. QED
  BY <1>11, <1>13

\* The files and the contents of a restore.
LEMMA RestoreKeepsLeft ==
  ASSUME RowsInv, InstanceInv, LeftInv, NEW v \in -1..version, RestoreGraph(v)
  PROVE  LeftInv' /\ FilesSame
<1>1. PICK S : S = StaleAt(v)
  OBVIOUS
<1>2. S \subseteq Objects
      /\ \A o \in S : CurrentVersion(o) = metadata[o] /\ Playback(o, Found(v)[o]) \in Seq(Nat)
  BY <1>1, StaleLeft
<1> DEFINE content == [o \in S |-> Playback(o, Found(v)[o])]
           next == [o \in S |-> CurrentVersion(o) + 1]
<1>3. /\ registered' = [o \in Objects |->
           IF o \in S THEN [version |-> next[o], content |-> content[o]]
           ELSE IF o \in DOMAIN Found(v) THEN registered[o] ELSE nil]
      /\ fullSave' = [o \in Objects |-> IF o \in S THEN Over(Entry(next[o], content[o]), fullSave[o]) ELSE fullSave[o]]
      /\ metadata' = Over(next, metadata) /\ delta' = delta
  BY <1>1 DEF RestoreGraph, StaleAt
<1>4. \A o \in S : next[o] = metadata[o] + 1 /\ content[o] \in Seq(Nat)
  BY <1>2
<1>5. DOMAIN next = S
  OBVIOUS
<1> HIDE DEF content, next
<1>6. metadata \in [Objects -> Int] /\ \A q \in Objects : FilesLeft(fullSave[q], delta[q], metadata[q])
  BY DEF RowsInv, LeftInv
<1>7. ASSUME NEW q \in Objects
      PROVE  /\ FilesLeft(fullSave'[q], delta'[q], metadata'[q])
             /\ metadata[q] <= metadata'[q]
             /\ SameUpTo(fullSave[q], fullSave'[q], metadata[q])
             /\ SameUpTo(delta[q], delta'[q], metadata[q])
             /\ registered'[q] # nil => registered'[q].content \in Seq(Nat)
  <2>1. SameUpTo(delta[q], delta'[q], metadata[q])
    BY <1>3, SameSelf
  <2>2. PICK f, m : f = fullSave[q] /\ m = metadata[q]
    OBVIOUS
  <2>3. m \in Int /\ FilesLeft(f, delta[q], m)
    BY <2>2, <1>6
  <2>4. CASE q \in S
    <3>1. PICK x : x = content[q]
      OBVIOUS
    <3>2. x \in Seq(Nat) /\ next[q] = m + 1
      BY <2>2, <2>4, <3>1, <1>4
    <3>3. fullSave'[q] = Over(Entry(m + 1, x), f)
      BY <2>2, <2>4, <3>1, <3>2, <1>3
    <3>4. metadata'[q] = m + 1
      BY <2>4, <3>2, <1>3, <1>5 DEF Over
    <3>5. FilesLeft(fullSave'[q], delta[q], m + 1) /\ SameUpTo(f, fullSave'[q], m)
      BY <2>3, <3>2, <3>3, LeftSnapshot
    <3>6. registered'[q].content = x
      BY <2>4, <3>1, <1>3
    <3>7. QED
      BY <2>1, <2>2, <2>3, <3>2, <3>4, <3>5, <3>6, <1>3
  <2>5. CASE q \notin S
    <3>1. fullSave'[q] = f
      BY <2>2, <2>5, <1>3
    <3>2. metadata'[q] = m
      BY <2>2, <2>5, <1>3, <1>5, <1>6 DEF Over
    <3>3. registered'[q] = registered[q] \/ registered'[q] = nil
      BY <2>5, <1>3
    <3>4. registered'[q] # nil => registered'[q].content \in Seq(Nat)
      BY <3>3 DEF LeftInv, Loaded
    <3>5. SameUpTo(f, f, m)
      BY SameSelf
    <3>6. QED
      BY <2>1, <2>2, <2>3, <3>1, <3>2, <3>4, <3>5, <1>3
  <2>6. QED
    BY <2>4, <2>5
<1>8. FilesSame
  BY <1>7 DEF FilesSame
<1>9. \A q \in Loaded' : registered'[q].content \in Seq(Nat)
  BY <1>7 DEF Loaded
<1>10. fullSave' = [q \in Objects |-> fullSave'[q]] /\ delta' = [q \in Objects |-> delta'[q]]
  <2>1. delta' = [q \in Objects |-> delta'[q]]
    BY <1>3 DEF LeftInv
  <2>2. fullSave' = [q \in Objects |-> fullSave'[q]]
    BY <1>3
  <2>3. QED
    BY <2>1, <2>2
<1>11. LeftInv'
  BY <1>7, <1>9, <1>10 DEF LeftInv
<1>12. QED
  BY <1>8, <1>11

\* The messages of an open session change contents only.
LEMMA IgnoreKeepsLeft ==
  ASSUME RowsInv, InstanceInv, LeftInv, NEW o \in Loaded, NEW p \in Loaded \cup {nil}, Ignore(o, p)
  PROVE  LeftInv' /\ FilesSame
<1>1. UNCHANGED stored /\ version \in Nat /\ \A q \in Loaded : registered[q].content \in Seq(Nat)
  BY DEF Ignore, RowsInv, LeftInv
<1>2. registered' = [q \in Objects |->
       IF q \in {o, p} THEN [registered[q] EXCEPT !.content = Append(@, version + 1)] ELSE registered[q]]
  BY DEF Ignore
<1>3. ASSUME NEW q \in Objects
      PROVE  registered'[q] = nil \/ registered'[q].content \in Seq(Nat)
  <2>1. CASE q \in {o, p}
    <3>1. q \in Loaded /\ registered[q] # nil
      BY <2>1, NamesAssumption DEF Loaded
    <3>2. PICK x, s, t : /\ x = Append(registered[q].content, version + 1)
                         /\ s = registered'[q] /\ t = registered[q]
      OBVIOUS
    <3>3. x \in Seq(Nat)
      BY <3>1, <3>2, <1>1
    <3>4. t = [version |-> metadata[q], content |-> t.content]
      BY <3>1, <3>2 DEF InstanceInv, InstanceOf
    <3>5. s = [t EXCEPT !.content = x]
      BY <2>1, <3>2, <1>2
    <3>6. s = [version |-> metadata[q], content |-> x]
      BY <3>4, <3>5
    <3>7. QED
      BY <3>2, <3>3, <3>6
  <2>2. CASE q \notin {o, p}
    <3>1. registered'[q] = registered[q]
      BY <2>2, <1>2
    <3>2. QED
      BY <3>1, <1>1 DEF Loaded
  <2>3. QED
    BY <2>1, <2>2
<1>4. QED
  BY <1>1, <1>3, QuietLeft

\* The last version of a stored object has a content.
LEMMA CurrentContent ==
  ASSUME RowsInv, LeftInv, NEW o \in Objects, metadata[o] # -1
  PROVE  Playback(o, metadata[o]) \in Seq(Nat)
<1>1. PICK m : m = metadata[o]
  OBVIOUS
<1>2. FilesLeft(fullSave[o], delta[o], m) /\ m \in 0..m
  BY <1>1 DEF LeftInv, FilesLeft
<1>3. Play(fullSave[o], delta[o], m) \in Seq(Nat)
  BY <1>2, HasFilesUpTo, LeftPlayType
<1>4. QED
  BY <1>1, <1>3, PlaybackIs

\* A restore, an undo or a redo restores, or misreads.
LEMMA RestoresOrMisreads ==
  ASSUME RowsInv, InstanceInv, CursorInv, Undo \/ Redo \/ \E v \in 0..MaxVersion : RestoreToVersion(v)
  PROVE  Misread \/ \E v \in -1..version : RestoreGraph(v)
<1>1. version \in Nat /\ cursor \in Int /\ firstUndoVersion \in Int /\ -1 <= cursor
      /\ (firstUndoVersion # -1 => cursor + 1 < version /\ cursor < firstUndoVersion - 1)
  BY DEF RowsInv, CursorInv, RedoComesBack
<1>2. CASE Undo
  <2>1. PICK v : v = (IF firstUndoVersion = -1 THEN version ELSE cursor) - 1
    OBVIOUS
  <2>2. v >= (IF UndoesPastFirst THEN -1 ELSE 0) /\ (Misread \/ RestoreGraph(v))
    BY <2>1, <1>2 DEF Undo
  <2>3. v \in Int /\ v <= version
    BY <2>1, <1>1
  <2>4. v >= -1
    BY <2>2, <2>3
  <2>5. v \in -1..version
    BY <2>3, <2>4, <1>1
  <2>6. QED
    BY <2>2, <2>5
<1>3. CASE Redo
  <2>1. PICK v : v = cursor + 1
    OBVIOUS
  <2>2. firstUndoVersion # -1 /\ (Misread \/ RestoreGraph(v))
    BY <2>1, <1>3 DEF Redo
  <2>3. v \in -1..version
    BY <2>1, <2>2, <1>1
  <2>4. QED
    BY <2>2, <2>3
<1>4. CASE \E v \in 0..MaxVersion : RestoreToVersion(v)
  <2>1. PICK v \in 0..MaxVersion : RestoreToVersion(v)
    BY <1>4
  <2>2. v \in -1..version /\ (Misread \/ RestoreGraph(v))
    BY <2>1, <1>1, IntervalAssumption DEF RestoreToVersion
  <2>3. QED
    BY <2>2
<1>5. QED
  BY <1>2, <1>3, <1>4

LEMMA NextKeepsLeft ==
  ASSUME RowsInv, InstanceInv, CursorInv, LeftInv, [Next]_vars
  PROVE  LeftInv' /\ FilesSame
<1>1. version \in Nat /\ registered = [q \in Objects |-> registered[q]]
      /\ (\A q \in Objects : registered[q] = nil \/ registered[q].content \in Seq(Nat))
      /\ (\A q \in Loaded : q \in Objects /\ registered[q].version = metadata[q] /\ registered[q].content \in Seq(Nat))
  BY LoadedIs DEF RowsInv, InstanceInv, LeftInv, Loaded
<1>2. ASSUME NEW o \in Objects, Register(o) PROVE LeftInv' /\ FilesSame
  <2>1. UNCHANGED stored /\ registered' = [registered EXCEPT ![o] = [version |-> -1, content |-> <<>>]]
    BY <1>2 DEF Register
  <2>2. \A q \in Objects : registered'[q] = nil \/ registered'[q].content \in Seq(Nat)
    BY <2>1, <1>1
  <2>3. QED
    BY <2>1, <2>2, QuietLeft
<1>3. ASSUME NEW o \in Objects, Load(o) PROVE LeftInv' /\ FilesSame
  <2>1. PICK x : x = Playback(o, metadata[o])
    OBVIOUS
  <2>2. UNCHANGED stored /\ registered' = [registered EXCEPT ![o] = [version |-> metadata[o], content |-> x]]
        /\ metadata[o] # -1
    BY <2>1, <1>3 DEF Load, IsStored
  <2>3. x \in Seq(Nat)
    BY <2>1, <2>2, CurrentContent
  <2>4. \A q \in Objects : registered'[q] = nil \/ registered'[q].content \in Seq(Nat)
    BY <2>2, <2>3, <1>1
  <2>5. QED
    BY <2>2, <2>4, QuietLeft
<1>4. ASSUME NEW o \in Objects, Unregister(o) PROVE LeftInv' /\ FilesSame
  <2>1. UNCHANGED stored /\ registered' = [registered EXCEPT ![o] = nil]
    BY <1>4 DEF Unregister
  <2>2. \A q \in Objects : registered'[q] = nil \/ registered'[q].content \in Seq(Nat)
    BY <2>1, <1>1
  <2>3. QED
    BY <2>1, <2>2, QuietLeft
<1>5. ASSUME NEW o \in Objects, Insert(o) PROVE LeftInv' /\ FilesSame
  <2>1. -1 = metadata[o] /\ Snapshot(o, -1, <<>>) /\ delta' = delta /\ <<>> \in Seq(Nat)
    BY <1>5 DEF Insert, IsStored
  <2>2. QED
    BY <2>1, SnapshotKeepsLeft
<1>6. ASSUME NEW o \in Objects, NEW p \in Nested, Change(o, p) PROVE LeftInv' /\ FilesSame
  <2>1. o \in Loaded /\ p \in Loaded \cup {nil} /\ (Record(o, p) \/ Ignore(o, p))
    BY <1>6 DEF Change
  <2>2. QED
    BY <2>1, RecordKeepsLeft, IgnoreKeepsLeft
<1>7. ASSUME NEW o \in Objects, NEW edited \in BOOLEAN, Save(o, edited) PROVE LeftInv' /\ FilesSame
  <2>1. PICK r, x : r = registered[o] /\ x = IF edited THEN Append(r.content, version + 1) ELSE r.content
    OBVIOUS
  <2>2. o \in Loaded /\ Snapshot(o, r.version, x) /\ delta' = delta
    BY <2>1, <1>7 DEF Save
  <2>3. r.version = metadata[o] /\ r.content \in Seq(Nat) /\ version + 1 \in Nat
    <3>1. registered[o].version = metadata[o] /\ registered[o].content \in Seq(Nat)
      BY <2>2, <1>1
    <3>2. version + 1 \in Nat
      BY <1>1
    <3>3. QED
      BY <3>1, <3>2, <2>1
  <2>4. x \in Seq(Nat)
    BY <2>1, <2>3
  <2>5. QED
    BY <2>2, <2>3, <2>4, SnapshotKeepsLeft
<1>8. ASSUME NEW o \in Objects, NEW v \in 0..MaxVersion, RestoreObject(o, v) PROVE LeftInv' /\ FilesSame
  <2>1. PICK r, x : r = registered[o] /\ x = Playback(o, v)
    OBVIOUS
  <2>2. /\ o \in Loaded /\ metadata[o] # -1 /\ v <= LastVersion(o)
        /\ Snapshot(o, r.version, x) /\ delta' = delta
    BY <2>1, <1>8 DEF RestoreObject, IsStored
  <2>3. r.version = metadata[o] /\ x \in Seq(Nat)
    BY <2>1, <2>2, <1>1, LastHasFiles
  <2>4. QED
    BY <2>2, <2>3, SnapshotKeepsLeft
<1>9. CASE Undo \/ Redo \/ \E v \in 0..MaxVersion : RestoreToVersion(v)
  <2>1. Misread \/ \E v \in -1..version : RestoreGraph(v)
    BY <1>9, RestoresOrMisreads
  <2>2. CASE Misread
    <3>1. UNCHANGED stored /\ registered' = registered
      BY <2>2 DEF Misread
    <3>2. QED
      BY <3>1, <1>1, QuietLeft
  <2>3. QED
    BY <2>1, <2>2, RestoreKeepsLeft
<1>10. CASE Restart
  <2>1. UNCHANGED stored /\ registered' = [q \in Objects |-> nil]
    BY <1>10 DEF Restart, Reopen
  <2>2. \A q \in Objects : registered'[q] = nil
    BY <2>1
  <2>3. QED
    BY <2>1, <2>2, QuietLeft
<1>11. CASE UNCHANGED vars
  <2>1. UNCHANGED stored /\ registered' = registered
    BY <1>11 DEF vars
  <2>2. QED
    BY <2>1, <1>1, QuietLeft
<1>12. QED
  BY <1>2, <1>3, <1>4, <1>5, <1>6, <1>7, <1>8, <1>9, <1>10, <1>11 DEF Next

LEMMA RestoredStays ==
  ASSUME RowsInv, RowsInv', LeftInv, LeftInv', Grows, FilesSame, NEW v \in -1..version
  PROVE  Restored(v)' = Restored(v)
<1>1. /\ Found(v)' = Found(v)
      /\ DOMAIN Found(v) \subseteq Objects
      /\ \A o \in DOMAIN Found(v) : Found(v)[o] \in 0..metadata[o]
  BY FoundKept, FoundStored
<1>2. ASSUME NEW o \in Objects, NEW n \in 0..metadata[o]
      PROVE  Playback(o, n)' = Playback(o, n)
  <2>1. FilesLeft(fullSave[o], delta[o], metadata[o]) /\ FilesLeft(fullSave'[o], delta'[o], metadata'[o])
    BY DEF LeftInv
  <2>2. SameUpTo(fullSave[o], fullSave'[o], metadata[o]) /\ SameUpTo(delta[o], delta'[o], metadata[o])
    BY DEF FilesSame
  <2>3. Play(fullSave'[o], delta'[o], n) = Play(fullSave[o], delta[o], n)
    BY <2>1, <2>2, LeftPlayKept
  <2>4. Playback(o, n)' = Play(fullSave'[o], delta'[o], n)
    BY DEF Playback, Play, Below, Since
  <2>5. QED
    BY <2>3, <2>4, PlaybackIs
<1>3. PICK found : found = Found(v)
  OBVIOUS
<1>4. Restored(v) = [o \in DOMAIN found |-> Playback(o, found[o])]
  BY <1>3 DEF Restored
<1>5. Restored(v)' = [o \in DOMAIN found |-> Playback(o, found[o])']
  BY <1>1, <1>3 DEF Restored
<1>6. \A o \in DOMAIN found : Playback(o, found[o])' = Playback(o, found[o])
  BY <1>1, <1>2, <1>3
<1>7. QED
  BY <1>4, <1>5, <1>6

------------------------------------------------------------------------------
(* Every history with stops.                                                  *)

LEMMA LeftInit == Init => LeftInv
<1> SUFFICES ASSUME Init PROVE LeftInv
  OBVIOUS
<1>1. /\ fullSave = [o \in Objects |-> <<>>] /\ delta = [o \in Objects |-> <<>>]
      /\ metadata = [o \in Objects |-> -1] /\ registered = [o \in Objects |-> nil]
  BY DEF Init
<1>2. Loaded = {}
  BY <1>1 DEF Loaded
<1>3. FilesLeft(<<>>, <<>>, -1)
  <2>1. PICK f : f = <<>>
    OBVIOUS
  <2>2. DOMAIN f = {}
    BY <2>1
  <2>3. 0..-1 = {}
    OBVIOUS
  <2>4. FilesLeft(f, f, -1)
    BY <2>2, <2>3 DEF FilesLeft
  <2>5. QED
    BY <2>1, <2>4
<1>4. \A o \in Objects : FilesLeft(fullSave[o], delta[o], metadata[o])
  BY <1>1, <1>3
<1>5. QED
  BY <1>1, <1>2, <1>4 DEF LeftInv

LEMMA StopStep ==
  ASSUME RowsInv, InstanceInv, CursorInv, LeftInv, [StopNext]_stopVars
  PROVE  RowsInv' /\ InstanceInv' /\ CursorInv' /\ LeftInv' /\ Grows /\ FilesSame
<1>1. [Next]_vars \/ StoppedNext
  BY DEF StopNext, Whole, StoppedNext, stopVars
<1>2. CASE [Next]_vars
  BY <1>2, VersionsNext, NextKeepsLeft
<1>3. CASE StoppedNext
  BY <1>3, StoppedNextKeeps
<1>4. QED
  BY <1>1, <1>2, <1>3

(* Wherever the context is stopped and opened again, the history names stored *)
(* versions only, the instances have the versions of the UUID table, and the  *)
(* files of an object are those of its versions and maybe of the next one.    *)
THEOREM StopsCorrect == StopSpec => [](RowsInv /\ InstanceInv /\ CursorInv /\ LeftInv)
<1>1. StopInit => RowsInv /\ InstanceInv /\ CursorInv /\ LeftInv
  BY VersionsInit, LeftInit DEF StopInit
<1>2. RowsInv /\ InstanceInv /\ CursorInv /\ LeftInv /\ [StopNext]_stopVars =>
        (RowsInv /\ InstanceInv /\ CursorInv /\ LeftInv)'
  BY StopStep
<1>3. QED
  BY <1>1, <1>2, PTL DEF StopSpec

(* A version that the UUID table or the history names can be played back,     *)
(* whatever operation of -recordInvocation:, -snapshotObject: or              *)
(* -_restoreToVersion: was stopped, between any two of its writes.            *)
THEOREM NamedIsPlayableCorrect == StopSpec => []NamedIsPlayable
<1>1. RowsInv /\ InstanceInv /\ LeftInv => NamedIsPlayable
  <2> SUFFICES ASSUME RowsInv, InstanceInv, LeftInv, NEW o \in Objects
               PROVE  /\ IsStored(o) => IsPlayable(o, metadata[o])
                      /\ \A row \in Range(history) : row.object = o =>
                           row.objectVersion <= metadata[o] /\ IsPlayable(o, row.objectVersion)
    BY DEF NamedIsPlayable
  <2>1. FilesLeft(fullSave[o], delta[o], metadata[o]) /\ metadata[o] \in Int /\ -1 <= metadata[o] /\ o # Context
    BY NamesAssumption DEF LeftInv, RowsInv, InstanceInv
  <2>2. \A v \in 0..metadata[o] : v <= metadata[o] /\ IsPlayable(o, v)
    BY <2>1, LeftPlayable
  <2>3. ASSUME IsStored(o) PROVE metadata[o] \in 0..metadata[o]
    BY <2>1, <2>3 DEF IsStored
  <2>4. \A row \in Range(history) : row.object = o => row.objectVersion \in 0..metadata[o]
    BY <2>1 DEF RowsInv, RowOK
  <2>5. QED
    BY <2>2, <2>3, <2>4
<1>2. QED
  BY <1>1, StopsCorrect, PTL

(* No past version of the context ever restores to another graph (-version),  *)
(* whatever is stopped, and whatever is then done over what it left.          *)
THEOREM PastStaysCorrect == StopSpec => []PastStays
<1>1. StopInit => PastStays
  BY DEF StopInit, Init, PastStays
<1>2. RowsInv /\ InstanceInv /\ CursorInv /\ LeftInv /\ PastStays /\ [StopNext]_stopVars => PastStays'
  <2> SUFFICES ASSUME RowsInv, InstanceInv, CursorInv, LeftInv, PastStays, [StopNext]_stopVars
               PROVE  PastStays'
    OBVIOUS
  <2>1. RowsInv' /\ LeftInv' /\ Grows /\ FilesSame
    BY StopStep
  <2>2. version \in Nat /\ version' \in Nat /\ version <= version'
    BY <2>1 DEF RowsInv, Grows
  <2>3. \A v \in 1..version : Restored(v)' = Restored(v) /\ Restored(v) = promised[v]
    <3>1. \A v \in 1..version : v \in -1..version
      BY <2>2
    <3>2. \A v \in -1..version : Restored(v)' = Restored(v)
      BY <2>1, RestoredStays
    <3>3. QED
      BY <3>1, <3>2 DEF PastStays
  <2>4. Promised \/ UNCHANGED stopVars
    BY DEF StopNext, Whole, StoppedInsert, StoppedSave, StoppedRecord, StoppedRestoreObject, StoppedRestore, Stopped
  <2>5. CASE Promised
    <3>1. ASSUME NEW v \in 1..version' PROVE Restored(v)' = promised'[v]
      <4>1. promised'[v] = IF v <= version THEN promised[v] ELSE Restored(v)'
        BY <2>5 DEF Promised
      <4>2. CASE v <= version
        <5>1. v \in 1..version
          BY <4>2, <2>2
        <5>2. QED
          BY <4>1, <4>2, <5>1, <2>3
      <4>3. CASE ~(v <= version)
        BY <4>1, <4>3
      <4>4. QED
        BY <4>2, <4>3
    <3>2. QED
      BY <3>1 DEF PastStays
  <2>6. CASE UNCHANGED stopVars
    <3>1. version' = version /\ promised' = promised
      BY <2>6 DEF stopVars, vars
    <3>2. QED
      BY <3>1, <2>3 DEF PastStays
  <2>7. QED
    BY <2>4, <2>5, <2>6
<1>3. QED
  BY <1>1, <1>2, StopsCorrect, PTL DEF StopSpec

------------------------------------------------------------------------------
(* What is in memory when operations may have stopped, and messages do not    *)
(* nest.                                                                      *)

\* No record is open, and an instance has the content that is stored, unless it is buried.
MemoryLeft ==
  /\ session = <<>>
  /\ \A o \in Loaded \ buried : metadata[o] # -1 => registered[o].content = Playback(o, metadata[o])

\* A version with a snapshot plays back to it.
LEMMA LeftPlaySnapshot ==
  ASSUME NEW f, NEW d, NEW m, FilesLeft(f, d, m), NEW v \in 0..m, v \in DOMAIN f
  PROVE  Play(f, d, v) = f[v]
<1>1. v \in Nat
  BY DEF FilesLeft
<1> DEFINE b == Max(Below(f, v))
<1>2. b \in 0..v /\ \A s \in DOMAIN f : s <= v => s <= b
  BY LeftBaseIs, HasFilesUpTo
<1>3. Play(f, d, v) = f[b] \o Since(d, b, v)
  BY DEF Play
<1> HIDE DEF b
<1>4. b = v
  BY <1>1, <1>2
<1>5. f[v] \in Seq(Nat)
  BY DEF FilesLeft
<1>6. Since(d, v, v) = <<>>
  BY <1>1 DEF Since
<1>7. f[v] \o <<>> = f[v]
  BY <1>5
<1>8. QED
  BY <1>3, <1>4, <1>6, <1>7

\* A version without one plays back to the version before and its message.
LEMMA LeftPlayDelta ==
  ASSUME NEW f, NEW d, NEW m, FilesLeft(f, d, m), NEW v \in 1..m, v \notin DOMAIN f
  PROVE  Play(f, d, v) = Append(Play(f, d, v - 1), d[v])
<1>1. v \in Nat /\ m \in Nat /\ v \in 0..m /\ v - 1 \in 0..m /\ v > 0
  BY DEF FilesLeft
<1>2. Below(f, v - 1) = Below(f, v)
  <2>1. ASSUME NEW s \in DOMAIN f PROVE s <= v <=> s <= v - 1
    <3>1. s \in Int /\ s # v
      BY DEF FilesLeft
    <3>2. QED
      BY <3>1, <1>1
  <2>2. QED
    BY <2>1 DEF Below
<1> DEFINE b == Max(Below(f, v))
<1>3. b \in 0..v /\ b \in DOMAIN f /\ \A n \in b + 1..v : n \in DOMAIN d
  BY <1>1, LeftBaseIs, HasFilesUpTo
<1>4. Play(f, d, v) = f[b] \o Since(d, b, v) /\ Play(f, d, v - 1) = f[b] \o Since(d, b, v - 1)
  BY <1>2 DEF Play
<1> HIDE DEF b
<1>5. b # v /\ b \in 0..v - 1 /\ v - b \in Nat /\ v - b > 0
  BY <1>1, <1>3
<1>6. f[b] \in Seq(Nat)
  BY <1>3 DEF FilesLeft
<1>7. Since(d, b, v) \in Seq(Nat) /\ Len(Since(d, b, v)) = v - b
  BY <1>1, <1>3, LeftSinceIs
<1>8. \A n \in b + 1..v - 1 : n \in DOMAIN d
  BY <1>1, <1>3
<1>9. Since(d, b, v - 1) \in Seq(Nat) /\ Len(Since(d, b, v - 1)) = v - 1 - b
  <2> DEFINE u == v - 1
  <2>1. u \in Nat /\ b \in 0..u /\ \A n \in b + 1..u : n \in DOMAIN d
    BY <1>1, <1>5, <1>8
  <2> HIDE DEF u
  <2>2. Since(d, b, u) \in Seq(Nat) /\ Len(Since(d, b, u)) = u - b
    BY <2>1, LeftSinceIs
  <2>3. QED
    BY <2>2 DEF u
<1>10. v \in DOMAIN d /\ d[v] \in Nat
  BY <1>1 DEF FilesLeft
<1>11. Since(d, b, v) = Append(Since(d, b, v - 1), d[v])
  <2> DEFINE s == Since(d, b, v)
             t == Append(Since(d, b, v - 1), d[v])
  <2>1. t \in Seq(Nat) /\ Len(t) = v - b
    BY <1>1, <1>5, <1>9, <1>10
  <2>2. \A i \in 1..(v - b) : s[i] = d[b + i]
    BY DEF Since
  <2>3. \A i \in 1..(v - 1 - b) : t[i] = Since(d, b, v - 1)[i]
    BY <1>9, <1>10
  <2>4. \A i \in 1..(v - 1 - b) : Since(d, b, v - 1)[i] = d[b + i]
    BY DEF Since
  <2>5. t[v - b] = d[v]
    <3>1. t[Len(Since(d, b, v - 1)) + 1] = d[v]
      BY <1>9, <1>10
    <3>2. Len(Since(d, b, v - 1)) + 1 = v - b
      BY <1>1, <1>5, <1>9
    <3>3. QED
      BY <3>1, <3>2
  <2>6. ASSUME NEW i \in 1..(v - b) PROVE s[i] = t[i]
    <3>1. CASE i = v - b
      <4>1. b + i = v
        BY <3>1, <1>1, <1>5
      <4>2. QED
        BY <4>1, <3>1, <2>2, <2>5
    <3>2. CASE i # v - b
      <4>1. i \in 1..(v - 1 - b)
        BY <3>2, <1>1, <1>5
      <4>2. QED
        BY <4>1, <2>2, <2>3, <2>4
    <3>3. QED
      BY <3>1, <3>2
  <2> HIDE DEF s, t
  <2>7. s \in Seq(Nat) /\ Len(s) = v - b
    BY <1>7 DEF s
  <2>8. s = t
    BY <2>1, <2>6, <2>7
  <2>9. QED
    BY <2>8 DEF s, t
<1>12. f[b] \o Append(Since(d, b, v - 1), d[v]) = Append(f[b] \o Since(d, b, v - 1), d[v])
  <2>1. Since(d, b, v - 1) \in Seq(Nat)
    BY <1>9
  <2> DEFINE t == Since(d, b, v - 1)
             s == f[b]
             x == d[v]
  <2>2. t \in Seq(Nat) /\ s \in Seq(Nat) /\ x \in Nat
    BY <2>1, <1>6, <1>10
  <2> HIDE DEF t, s, x
  <2>3. s \o Append(t, x) = Append(s \o t, x)
    BY <2>2, ConcatAppend
  <2>4. QED
    BY <2>3 DEF t, s, x
<1>13. QED
  BY <1>4, <1>11, <1>12

\* An object that the step does not change is what it was.
LEMMA PlaybackStays ==
  ASSUME NEW o \in Objects, NEW v, fullSave'[o] = fullSave[o], delta'[o] = delta[o]
  PROVE  Playback(o, v)' = Playback(o, v)
BY DEF Playback

\* The step changes at most the instances of the objects of S, and their files.
LEMMA MemoryStays ==
  ASSUME MemoryLeft, session' = <<>>, buried \subseteq buried', NEW S,
         \A q \in Objects \ S : metadata'[q] = metadata[q] /\ fullSave'[q] = fullSave[q] /\ delta'[q] = delta[q],
         \A q \in Objects \ S : registered'[q] \in {registered[q], nil},
         \A q \in (Objects \cap S) \ buried' :
           registered'[q] = nil \/ metadata'[q] = -1
             \/ registered'[q].content = Play(fullSave'[q], delta'[q], metadata'[q])
  PROVE  MemoryLeft'
<1>1. ASSUME NEW q \in Objects \ buried', registered'[q] # nil, metadata'[q] # -1
      PROVE  registered'[q].content = Play(fullSave'[q], delta'[q], metadata'[q])
  <2>1. CASE q \in S
    BY <2>1, <1>1
  <2>2. CASE q \notin S
    <3>1. registered'[q] = registered[q] /\ metadata'[q] = metadata[q] /\ fullSave'[q] = fullSave[q]
          /\ delta'[q] = delta[q]
      BY <2>2, <1>1
    <3>2. q \in Loaded \ buried /\ metadata[q] # -1
      BY <3>1, <1>1 DEF Loaded
    <3>3. registered[q].content = Playback(q, metadata[q])
      BY <3>2 DEF MemoryLeft
    <3>4. QED
      BY <3>1, <3>3, PlaybackIs
  <2>3. QED
    BY <2>1, <2>2
<1>2. \A q, v : Playback(q, v)' = Play(fullSave'[q], delta'[q], v)
  BY DEF Playback, Play, Below, Since
<1>3. QED
  BY <1>1, <1>2 DEF MemoryLeft, Loaded

\* A snapshot of one object is its content.
LEMMA SnapshotSeen ==
  ASSUME RowsInv, InstanceInv, LeftInv, LeftInv', MemoryLeft, NEW o \in Objects, NEW m, m = metadata[o], NEW x,
         Snapshot(o, m, x), delta' = delta, session' = session, buried \subseteq buried'
  PROVE  MemoryLeft'
<1>1. /\ metadata' = [metadata EXCEPT ![o] = m + 1] /\ metadata \in [Objects -> Int]
      /\ fullSave' = [fullSave EXCEPT ![o] = Over(Entry(m + 1, x), fullSave[o])]
      /\ fullSave = [q \in Objects |-> fullSave[q]]
      /\ registered' = [registered EXCEPT ![o] = [version |-> m + 1, content |-> x]]
      /\ registered = [q \in Objects |-> registered[q]] /\ session' = <<>>
  BY DEF Snapshot, RowsInv, LeftInv, InstanceInv, MemoryLeft
<1>2. PICK f, n : f = fullSave'[o] /\ n = m + 1
  OBVIOUS
<1>3. f = Over(Entry(n, x), fullSave[o]) /\ metadata'[o] = n /\ registered'[o] = [version |-> n, content |-> x]
  BY <1>1, <1>2
<1>4. n \in DOMAIN f
  <2>1. DOMAIN f = {n} \cup DOMAIN fullSave[o]
    BY <1>3, EntryDomain
  <2>2. QED
    BY <2>1
<1>5. f[n] = x
  BY <1>3, EntryNew
<1>6. FilesLeft(f, delta'[o], n) /\ n \in 0..n
  <2>1. FilesLeft(f, delta'[o], n)
    BY <1>2, <1>3 DEF LeftInv
  <2>2. m \in Nat \cup {-1}
    BY DEF LeftInv, FilesLeft
  <2>3. QED
    BY <2>1, <2>2, <1>2
<1>7. Play(f, delta'[o], n) = x
  BY <1>4, <1>5, <1>6, LeftPlaySnapshot
<1>8. PICK S : S = {o}
  OBVIOUS
<1>9. /\ \A q \in Objects \ S : metadata'[q] = metadata[q] /\ fullSave'[q] = fullSave[q] /\ delta'[q] = delta[q]
      /\ \A q \in Objects \ S : registered'[q] \in {registered[q], nil}
  BY <1>1, <1>8
<1>10. \A q \in (Objects \cap S) \ buried' : registered'[q].content = Play(fullSave'[q], delta'[q], metadata'[q])
  <2>1. registered'[o].content = x
    BY <1>3
  <2>2. registered'[o].content = Play(fullSave'[o], delta'[o], metadata'[o])
    BY <1>2, <1>3, <1>7, <2>1
  <2>3. \A q \in Objects \cap S : q = o
    BY <1>8
  <2>4. QED
    BY <2>2, <2>3
<1>11. QED
  BY <1>1, <1>9, <1>10, MemoryStays

\* Nothing is written, and what is read is what is stored.
LEMMA QuietSeen ==
  ASSUME MemoryLeft, UNCHANGED stored, session' = <<>>, buried \subseteq buried',
         NEW o, \A q \in Objects \ {o} : registered'[q] \in {registered[q], nil},
         o \in Objects => \/ registered'[o] = nil \/ metadata[o] = -1
                          \/ registered'[o].content = Playback(o, metadata[o])
  PROVE  MemoryLeft'
<1>1. metadata' = metadata /\ fullSave' = fullSave /\ delta' = delta
  BY DEF stored
<1>2. PICK S : S = {o}
  OBVIOUS
<1>3. \A q \in (Objects \cap S) \ buried' :
        registered'[q] = nil \/ metadata'[q] = -1
          \/ registered'[q].content = Play(fullSave'[q], delta'[q], metadata'[q])
  BY <1>1, <1>2, PlaybackIs
<1>4. QED
  BY <1>1, <1>2, <1>3, MemoryStays

\* No object has reached the version of a periodic snapshot.
Unsnapped == \A o \in Objects : metadata[o] < SnapshotInterval

LEMMA NotPeriodic ==
  ASSUME NEW n \in Nat \ {0}, n < SnapshotInterval
  PROVE  n % SnapshotInterval # 0
<1>1. SnapshotInterval \in Nat \ {0}
  BY IntervalAssumption
<1>2. n % SnapshotInterval = n
  BY <1>1
<1>3. QED
  BY <1>2

\* A message is the last one of its object.
LEMMA RecordSeen ==
  ASSUME RowsInv, InstanceInv, LeftInv, LeftInv', MemoryLeft, NEW o \in Loaded, Record(o, nil), Unsnapped',
         buried' = buried \cup {q \in Objects : Buried(q)}
  PROVE  MemoryLeft'
<1>1. /\ fullSave = [q \in Objects |-> fullSave[q]] /\ delta = [q \in Objects |-> delta[q]]
      /\ FilesLeft(fullSave[o], delta[o], metadata[o])
      /\ metadata \in [Objects -> Int] /\ version \in Nat
      /\ o \in Objects /\ registered[o].version = metadata[o] /\ registered[o] # nil
      /\ registered[o].content \in Seq(Nat)
      /\ registered = [q \in Objects |-> registered[q]]
  BY LoadedIs DEF LeftInv, RowsInv, Loaded, InstanceInv
<1>2. PICK m, x, f0, d0 : m = metadata[o] /\ x = registered[o].content /\ f0 = fullSave[o] /\ d0 = delta[o]
  OBVIOUS
<1>3. m \in Nat \cup {-1} /\ FilesLeft(f0, d0, m) /\ x \in Seq(Nat)
  BY <1>1, <1>2 DEF FilesLeft
<1>4. PICK first \in BOOLEAN : first <=> m = -1
  OBVIOUS
<1>5. PICK n, c : n = (IF first THEN 1 ELSE m + 1) /\ c = version + IF first THEN 2 ELSE 1
  OBVIOUS
<1>6. n \in Nat \ {0} /\ c \in Nat /\ n - 1 \in Nat /\ n \in 1..n /\ n \in 0..n /\ n # m
      /\ (first => n - 1 = 0 /\ n # 0) /\ (~first => n - 1 = m)
  BY <1>1, <1>3, <1>4, <1>5
<1>7. PICK snapshots : snapshots = (IF first THEN {0} ELSE {}) \cup (IF n % SnapshotInterval = 0 THEN {n} ELSE {})
  OBVIOUS
<1>8. /\ fullSave' = [fullSave EXCEPT ![o] = Over([s \in snapshots |-> x], f0)]
      /\ delta' = [delta EXCEPT ![o] = Over(Entry(n, c), d0)]
      /\ metadata' = [metadata EXCEPT ![o] = n]
      /\ registered' = [q \in Objects |->
           IF q = o THEN [version |-> n, content |-> Append(x, c)]
           ELSE IF q = nil THEN [registered[q] EXCEPT !.content = Append(@, c)]
           ELSE registered[q]]
      /\ session' = Front(Pushes(o, nil))
  BY <1>1, <1>2, <1>4, <1>5, <1>7 DEF Record
<1>9. session' = <<>>
  <2>1. Pushes(o, nil) = <<o>>
    BY DEF Pushes
  <2>2. Front(<<o>>) = <<>>
    BY DEF Front
  <2>3. QED
    BY <2>1, <2>2, <1>8
<1>10. PICK f, d : f = fullSave'[o] /\ d = delta'[o]
  OBVIOUS
<1>11. f = Over([s \in snapshots |-> x], f0) /\ d = Over(Entry(n, c), d0) /\ metadata'[o] = n
  BY <1>1, <1>8, <1>10
<1>12. snapshots = IF first THEN {0} ELSE {}
  <2>1. n < SnapshotInterval
    BY <1>1, <1>11 DEF Unsnapped
  <2>2. n % SnapshotInterval # 0
    BY <2>1, <1>6, NotPeriodic
  <2>3. QED
    BY <2>2, <1>7
<1>13. FilesLeft(f, d, n)
  BY <1>1, <1>10, <1>11 DEF LeftInv
<1>14. DOMAIN f = snapshots \cup DOMAIN f0 /\ (\A s \in snapshots : f[s] = x)
       /\ \A s \in DOMAIN f0 : s \notin snapshots => f[s] = f0[s]
  <2>1. PICK g : g = [s \in snapshots |-> x]
    OBVIOUS
  <2>2. DOMAIN g = snapshots /\ \A s \in snapshots : g[s] = x
    BY <2>1
  <2>3. f = Over(g, f0)
    BY <2>1, <1>11
  <2>4. DOMAIN f = DOMAIN g \cup DOMAIN f0
    BY <2>3, OverDomain
  <2>5. \A s \in DOMAIN g : f[s] = g[s]
    BY <2>3, OverFirst
  <2>6. \A s \in DOMAIN f0 : s \notin DOMAIN g => f[s] = f0[s]
    BY <2>3, OverElse
  <2>7. QED
    BY <2>2, <2>4, <2>5, <2>6
<1>15. d[n] = c
  BY <1>11, EntryNew
<1>16. ASSUME o \notin buried' PROVE n \notin DOMAIN f
  <2>1. SUFFICES ASSUME n \in DOMAIN f PROVE FALSE
    OBVIOUS
  <2>2. n \notin snapshots /\ n \in DOMAIN f0 /\ f[n] = f0[n]
    BY <2>1, <1>6, <1>12, <1>14
  <2>3. Buried(o)
    BY <2>2, <1>2, <1>6, <1>10, <1>11 DEF Buried
  <2>4. QED
    BY <2>3, <1>1, <1>16
<1>17. ASSUME o \notin buried' PROVE Play(f, d, n) = Append(x, c)
  <2>1. Play(f, d, n) = Append(Play(f, d, n - 1), c)
    BY <1>6, <1>13, <1>15, <1>16, <1>17, LeftPlayDelta
  <2>2. Play(f, d, n - 1) = x
    <3>1. CASE first
      <4>1. PICK z : z = n - 1
        OBVIOUS
      <4>2. z = 0 /\ z \in 0..n /\ z \in DOMAIN f /\ f[z] = x
        BY <3>1, <4>1, <1>6, <1>12, <1>14
      <4>3. Play(f, d, z) = x
        BY <4>2, <1>13, LeftPlaySnapshot
      <4>4. QED
        BY <4>1, <4>3
    <3>2. CASE ~first
      <4>1. m \in Nat /\ m \in 0..m /\ n - 1 = m /\ m # -1
        BY <3>2, <1>3, <1>4, <1>6
      <4>2. o \in Loaded \ buried
        BY <1>17
      <4>3. Play(f0, d0, m) = x
        BY <4>1, <4>2, <1>2, PlaybackIs DEF MemoryLeft
      <4>4. snapshots = {}
        BY <3>2, <1>12
      <4>5. SameUpTo(f0, f, m)
        BY <4>4, <1>14 DEF SameUpTo
      <4>6. SameUpTo(d0, d, m)
        <5>1. n \notin 0..m
          BY <4>1, <1>6
        <5>2. DOMAIN d = {n} \cup DOMAIN d0
          BY <1>11, EntryDomain
        <5>3. \A z \in DOMAIN d0 : z # n => d[z] = d0[z]
          BY <1>11, EntryOld
        <5>4. QED
          BY <5>1, <5>2, <5>3 DEF SameUpTo
      <4>7. Play(f, d, m) = Play(f0, d0, m)
        BY <4>1, <4>5, <4>6, <1>3, <1>13, LeftPlayKept
      <4>8. QED
        BY <4>1, <4>3, <4>7
    <3>3. QED
      BY <3>1, <3>2
  <2>3. QED
    BY <2>1, <2>2
<1>18. PICK S : S = {o}
  OBVIOUS
<1>19. /\ \A q \in Objects \ S : metadata'[q] = metadata[q] /\ fullSave'[q] = fullSave[q] /\ delta'[q] = delta[q]
       /\ \A q \in Objects \ S : registered'[q] \in {registered[q], nil}
  BY <1>1, <1>8, <1>18, NamesAssumption
<1>20. registered'[o].content = Append(x, c)
  BY <1>1, <1>8
<1>21. \A q \in (Objects \cap S) \ buried' : registered'[q].content = Play(fullSave'[q], delta'[q], metadata'[q])
  BY <1>10, <1>11, <1>17, <1>18, <1>20
<1>22. QED
  BY <1>9, <1>19, <1>21, MemoryStays

\* A restore gives each object it changes a snapshot.
LEMMA RestoreSeen ==
  ASSUME RowsInv, InstanceInv, LeftInv, LeftInv', MemoryLeft, NEW v \in -1..version, RestoreGraph(v),
         buried \subseteq buried'
  PROVE  MemoryLeft'
<1>1. PICK S : S = StaleAt(v)
  OBVIOUS
<1>2. S \subseteq Objects /\ \A o \in S : CurrentVersion(o) = metadata[o]
  BY <1>1, StaleLeft
<1> DEFINE content == [o \in S |-> Playback(o, Found(v)[o])]
           next == [o \in S |-> CurrentVersion(o) + 1]
<1>3. /\ registered' = [o \in Objects |->
           IF o \in S THEN [version |-> next[o], content |-> content[o]]
           ELSE IF o \in DOMAIN Found(v) THEN registered[o] ELSE nil]
      /\ fullSave' = [o \in Objects |-> IF o \in S THEN Over(Entry(next[o], content[o]), fullSave[o]) ELSE fullSave[o]]
      /\ metadata' = Over(next, metadata) /\ delta' = delta /\ session' = session
  BY <1>1 DEF RestoreGraph, StaleAt
<1>4. DOMAIN next = S /\ metadata \in [Objects -> Int] /\ session' = <<>>
  BY <1>3 DEF RowsInv, MemoryLeft
<1> HIDE DEF content, next
<1>5. \A q \in Objects \ S : metadata'[q] = metadata[q] /\ fullSave'[q] = fullSave[q] /\ delta'[q] = delta[q]
  <2>1. \A q \in Objects \ S : metadata'[q] = metadata[q]
    BY <1>3, <1>4, OverElse
  <2>2. QED
    BY <2>1, <1>3
<1>6. \A q \in Objects \ S : registered'[q] \in {registered[q], nil}
  BY <1>3
<1>7. ASSUME NEW q \in Objects \cap S
      PROVE  registered'[q].content = Play(fullSave'[q], delta'[q], metadata'[q])
  <2>1. PICK f, n, x : f = fullSave'[q] /\ n = next[q] /\ x = content[q]
    OBVIOUS
  <2>2. f = Over(Entry(n, x), fullSave[q]) /\ registered'[q].content = x
    BY <2>1, <1>3
  <2>3. metadata'[q] = n
    BY <2>1, <1>3, <1>4, OverFirst
  <2>4. n \in DOMAIN f
    <3>1. DOMAIN f = {n} \cup DOMAIN fullSave[q]
      BY <2>2, EntryDomain
    <3>2. QED
      BY <3>1
  <2>5. f[n] = x
    BY <2>2, EntryNew
  <2>6. FilesLeft(f, delta'[q], n)
    BY <2>1, <2>3 DEF LeftInv
  <2>7. n \in 0..n
    BY <2>4, <2>6 DEF FilesLeft
  <2>8. Play(f, delta'[q], n) = x
    BY <2>4, <2>5, <2>6, <2>7, LeftPlaySnapshot
  <2>9. QED
    BY <2>1, <2>2, <2>3, <2>8
<1>8. QED
  BY <1>4, <1>5, <1>6, <1>7, MemoryStays

LEMMA MemoryLeftNext ==
  ASSUME Nested = {nil}, RowsInv, InstanceInv, CursorInv, LeftInv, LeftInv', MemoryLeft,
         Unsnapped', [StopNext]_stopVars
  PROVE  MemoryLeft'
<1>1. /\ session = <<>> /\ registered = [q \in Objects |-> registered[q]]
      /\ \A q \in Loaded : q \in Objects /\ registered[q].version = metadata[q] /\ registered[q].content \in Seq(Nat)
  BY LoadedIs DEF MemoryLeft, InstanceInv, LeftInv, Loaded
<1>2. CASE StoppedNext
  <2>1. \A q \in Objects : registered'[q] = nil
    BY <1>2, StoppedNextKeeps
  <2>2. \E writes : Stopped(writes)
    BY <1>2 DEF StoppedNext, StoppedInsert, StoppedRecord, StoppedSave, StoppedRestoreObject, StoppedRestore
  <2>3. session' = <<>>
    BY <2>2 DEF Stopped, Reopen
  <2>4. QED
    BY <2>1, <2>3 DEF MemoryLeft, Loaded
<1>3. ASSUME Next, buried' = buried \cup {q \in Objects : Buried(q)} PROVE MemoryLeft'
  <2>0. buried \subseteq buried'
    BY <1>3
  <2>1. ASSUME NEW o \in Objects, Register(o) PROVE MemoryLeft'
    <3>1. /\ UNCHANGED stored /\ session' = <<>> /\ metadata[o] = -1
          /\ registered' = [registered EXCEPT ![o] = [version |-> -1, content |-> <<>>]]
      BY <2>1, <1>1 DEF Register, IsStored
    <3>2. \A q \in Objects \ {o} : registered'[q] \in {registered[q], nil}
      BY <3>1, <1>1
    <3>3. QED
      BY <3>1, <3>2, <2>0, QuietSeen
  <2>2. ASSUME NEW o \in Objects, Load(o) PROVE MemoryLeft'
    <3>1. PICK x : x = Playback(o, metadata[o])
      OBVIOUS
    <3>2. /\ UNCHANGED stored /\ session' = <<>>
          /\ registered' = [registered EXCEPT ![o] = [version |-> metadata[o], content |-> x]]
      BY <3>1, <2>2, <1>1 DEF Load
    <3>3. (\A q \in Objects \ {o} : registered'[q] \in {registered[q], nil}) /\ registered'[o].content = x
      BY <3>2, <1>1
    <3>4. QED
      BY <3>1, <3>2, <3>3, <2>0, QuietSeen
  <2>3. ASSUME NEW o \in Objects, Unregister(o) PROVE MemoryLeft'
    <3>1. UNCHANGED stored /\ session' = <<>> /\ registered' = [registered EXCEPT ![o] = nil]
      BY <2>3, <1>1 DEF Unregister
    <3>2. (\A q \in Objects \ {o} : registered'[q] \in {registered[q], nil}) /\ registered'[o] = nil
      BY <3>1, <1>1
    <3>3. QED
      BY <3>1, <3>2, <2>0, QuietSeen
  <2>4. ASSUME NEW o \in Objects, Insert(o) PROVE MemoryLeft'
    <3>1. -1 = metadata[o] /\ Snapshot(o, -1, <<>>) /\ delta' = delta /\ session' = session
      BY <2>4 DEF Insert, IsStored
    <3>2. QED
      BY <3>1, <2>0, SnapshotSeen
  <2>5. ASSUME NEW o \in Objects, NEW p \in Nested, Change(o, p) PROVE MemoryLeft'
    <3>1. p = nil /\ o \in Loaded /\ Record(o, nil)
      BY <2>5, <1>1 DEF Change
    <3>2. QED
      BY <3>1, <1>3, RecordSeen
  <2>6. ASSUME NEW o \in Objects, NEW edited \in BOOLEAN, Save(o, edited) PROVE MemoryLeft'
    <3>1. PICK r, x : r = registered[o] /\ x = IF edited THEN Append(r.content, version + 1) ELSE r.content
      OBVIOUS
    <3>2. o \in Loaded /\ Snapshot(o, r.version, x) /\ delta' = delta /\ session' = session
      BY <3>1, <2>6 DEF Save
    <3>3. r.version = metadata[o]
      BY <3>1, <3>2, <1>1
    <3>4. QED
      BY <3>2, <3>3, <2>0, SnapshotSeen
  <2>7. ASSUME NEW o \in Objects, NEW v \in 0..MaxVersion, RestoreObject(o, v) PROVE MemoryLeft'
    <3>1. PICK r, x : r = registered[o] /\ x = Playback(o, v)
      OBVIOUS
    <3>2. o \in Loaded /\ Snapshot(o, r.version, x) /\ delta' = delta /\ session' = session
      BY <3>1, <2>7 DEF RestoreObject
    <3>3. r.version = metadata[o]
      BY <3>1, <3>2, <1>1
    <3>4. QED
      BY <3>2, <3>3, <2>0, SnapshotSeen
  <2>8. CASE Undo \/ Redo \/ \E v \in 0..MaxVersion : RestoreToVersion(v)
    <3>1. Misread \/ \E v \in -1..version : RestoreGraph(v)
      BY <2>8, RestoresOrMisreads
    <3>2. CASE Misread
      <4>1. UNCHANGED stored /\ registered' = registered /\ session' = <<>>
        BY <3>2, <1>1 DEF Misread
      <4>2. nil \notin Objects /\ \A q \in Objects \ {nil} : registered'[q] \in {registered[q], nil}
        BY <4>1, NamesAssumption
      <4>3. QED
        BY <4>1, <4>2, <2>0, QuietSeen
    <3>3. QED
      BY <3>1, <3>2, <2>0, RestoreSeen
  <2>9. CASE Restart
    <3>1. session' = <<>> /\ Loaded' = {}
      BY <2>9 DEF Restart, Reopen, Loaded
    <3>2. QED
      BY <3>1 DEF MemoryLeft
  <2>10. QED
    BY <1>3, <2>1, <2>2, <2>3, <2>4, <2>5, <2>6, <2>7, <2>8, <2>9 DEF Next
<1>4. CASE UNCHANGED stopVars
  <2>1. UNCHANGED stored /\ registered' = registered /\ session' = session /\ buried' = buried
    BY <1>4 DEF stopVars, vars
  <2>2. nil \notin Objects /\ \A q \in Objects \ {nil} : registered'[q] \in {registered[q], nil}
    BY <2>1, NamesAssumption
  <2>3. QED
    BY <2>1, <2>2, <1>1, QuietSeen
<1>5. QED
  BY <1>2, <1>3, <1>4 DEF StopNext, Whole, StoppedNext

LEMMA NamedNext ==
  ASSUME RowsInv, InstanceInv, CursorInv, LeftInv, NamedInv, [StopNext]_stopVars
  PROVE  NamedInv'
<1>1. [Next]_vars \/ StoppedNext
  BY DEF StopNext, Whole, StoppedNext, stopVars
<1>2. CASE [Next]_vars
  <2>1. Logs
    BY <1>2, StepLogs
  <2>2. RowsInv' /\ Grows
    BY <1>2, VersionsNext
  <2>3. QED
    BY <2>1, <2>2, NamedRows
<1>3. CASE StoppedNext
  BY <1>3, StoppedNextKeeps
<1>4. QED
  BY <1>1, <1>2, <1>3

\* The last version that the history names.
LEMMA LastLoggedIs ==
  ASSUME RowsInv, NEW o \in Objects, metadata[o] = LastLogged(o), metadata[o] # -1
  PROVE  Names(o, metadata[o])
<1>1. PICK V : V = {row.objectVersion : row \in {r \in Range(history) : r.object = o}}
  OBVIOUS
<1>2. \A v \in V : v \in 0..metadata[o]
  BY <1>1, NamesAssumption DEF RowsInv, RowOK
<1>3. metadata[o] \in Int /\ metadata[o] = Max({-1} \cup V)
  BY <1>1 DEF RowsInv, LastLogged
<1>4. CASE V = {}
  <2>1. \A x \in {-1} : \A y \in {-1} : x >= y
    OBVIOUS
  <2>2. Max({-1}) = -1
    BY <2>1 DEF Max
  <2>3. QED
    BY <1>3, <1>4, <2>2
<1>5. CASE V # {}
  <2>1. PICK m : m = metadata[o]
    OBVIOUS
  <2>2. m \in Nat /\ V \in SUBSET (0..m)
    BY <2>1, <1>2, <1>3, <1>5
  <2>3. PICK k : k = Max(V)
    OBVIOUS
  <2>4. k \in V /\ \A x \in V : x <= k
    BY <2>2, <2>3, <1>5, MaxIs
  <2>5. k \in {-1} \cup V /\ \A x \in {-1} \cup V : k >= x
    BY <2>2, <2>4
  <2>6. Max({-1} \cup V) \in {-1} \cup V
    BY <2>5 DEF Max
  <2>7. metadata[o] \in V
    BY <2>6, <1>3
  <2>8. QED
    BY <2>7, <1>1 DEF Names
<1>6. QED
  BY <1>4, <1>5

LEMMA ViewIsRestored ==
  ASSUME RowsInv, LeftInv, NamedInv, MemoryLeft
  PROVE  ViewIsLogged
<1> SUFFICES ASSUME NEW o \in DOMAIN Found(version) \ buried, metadata[o] = LastLogged(o)
             PROVE  View[o] = Restored(version)[o]
  BY DEF ViewIsLogged
<1>1. o \in Objects /\ Found(version)[o] \in 0..metadata[o]
  <2>1. PICK v : v = version
    OBVIOUS
  <2>2. v \in -1..version
    BY <2>1 DEF RowsInv
  <2>3. QED
    BY <2>1, <2>2, FoundStored
<1>2. metadata[o] # -1
  BY <1>1
<1>3. Found(version)[o] = metadata[o]
  BY <1>1, <1>2, LastLoggedIs DEF NamedInv
<1>4. registered[o] # nil => registered[o].content = Playback(o, metadata[o])
  BY <1>1, <1>2 DEF MemoryLeft, Loaded
<1>5. View[o] = Playback(o, metadata[o])
  BY <1>4 DEF View
<1>6. Restored(version)[o] = Playback(o, Found(version)[o])
  BY DEF Restored
<1>7. QED
  BY <1>3, <1>5, <1>6

LEMMA SeenInit == Init => NamedInv /\ MemoryLeft
<1>1. Init => NamedInv
  BY CurrentInit DEF CurrentInv, NamedInv
<1>2. Init => MemoryLeft
  BY DEF Init, MemoryLeft, Loaded
<1>3. QED
  BY <1>1, <1>2

(* When messages do not nest, and as long as no object has reached the        *)
(* version of a periodic snapshot, the graph the client sees is the one the   *)
(* history gives for the version of the context, for every object whose last  *)
(* version is logged and that is not buried, wherever -recordInvocation:,     *)
(* -snapshotObject: or -_restoreToVersion: was stopped.                       *)
THEOREM ViewIsLoggedCorrect == Nested = {nil} /\ StopSpec /\ []Unsnapped => []ViewIsLogged
<1>1. StopInit => NamedInv /\ MemoryLeft
  BY SeenInit DEF StopInit
<1>2. ASSUME Nested = {nil}, RowsInv, InstanceInv, CursorInv, LeftInv, LeftInv', NamedInv, MemoryLeft,
             Unsnapped', [StopNext]_stopVars
      PROVE  NamedInv' /\ MemoryLeft'
  <2>1. NamedInv'
    BY <1>2, NamedNext
  <2>2. MemoryLeft'
    BY <1>2, MemoryLeftNext
  <2>3. QED
    BY <2>1, <2>2
<1>3. RowsInv /\ LeftInv /\ NamedInv /\ MemoryLeft => ViewIsLogged
  BY ViewIsRestored
<1>4. ASSUME Nested = {nil} PROVE StopSpec /\ []Unsnapped => []ViewIsLogged
  <2>1. RowsInv /\ InstanceInv /\ CursorInv /\ LeftInv /\ LeftInv' /\ NamedInv /\ MemoryLeft
          /\ Unsnapped' /\ [StopNext]_stopVars => NamedInv' /\ MemoryLeft'
    BY <1>2, <1>4
  <2>2. QED
    BY <2>1, <1>1, <1>3, StopsCorrect, PTL DEF StopSpec
<1>5. QED
  BY <1>4
=============================================================================
