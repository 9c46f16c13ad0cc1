------------------------ MODULE ThreadLifecycle_proofs ------------------------
(***************************************************************************)
(* Proofs about ThreadLifecycle, for every set of threads whose bodies     *)
(* retain and publish their ETThread, as those of threaded objects do.     *)
(***************************************************************************)
EXTENDS ThreadLifecycle, TLAPS

-------------------------------------------------------------------------------
(* The inductive invariant.                                                *)

(* The references: the one threadStart releases, and the creator's, which  *)
(* exitWithValue: called on another thread releases too.                   *)
BodyRef(t) == IF body[t] \in {"started", "running", "cancelled"} THEN 1 ELSE 0
Owed(t)    == IF published[t] /\ user[t] \notin {"released", "abandoned"} THEN 1 ELSE 0

Counted(t) ==
  /\ refs[t] - BodyRef(t) \in {0, Owed(t)}
  /\ creator = "running" \/ user[t] # "holding" => refs[t] - BodyRef(t) = Owed(t)

(* Who has got how far.                                                    *)
Placed(t) ==
  /\ published[t] <=> body[t] \in {"running", "ended", "cancelled"}
  /\ user[t] = "none" <=> body[t] = "none"
  /\ user[t] \in {"joining", "joined", "released", "abandoned"} => published[t]
  /\ user[t] \in {"joined", "released"} => body[t] \in {"ended", "cancelled"}
  /\ detached[t] <=> refs[t] = 0 /\ body[t] # "none"
  /\ got[t] # "undefined"

Inv == TypeOK /\ \A t \in Threads : Counted(t) /\ Placed(t)

-------------------------------------------------------------------------------
(* The references of a thread that two actors can release never run out    *)
(* before both have.                                                       *)
LEMMA Joinable ==
  ASSUME Inv, NEW t \in Threads, user[t] = "joining"
  PROVE  refs[t] > 0 /\ ~detached[t]
BY DEF Inv, TypeOK, Counted, Placed, BodyRef, Owed

LEMMA Starts == Init => Inv
BY DEF Init, Inv, TypeOK, Counted, Placed, BodyRef, Owed

LEMMA Preserved ==
  ASSUME BodyRetains, Inv, [Next]_vars
  PROVE  Inv'
<1> USE DEF Inv
<1>1. CASE UNCHANGED vars
  BY <1>1 DEF vars, TypeOK, Counted, Placed, BodyRef, Owed
<1>2. ASSUME NEW t \in Threads, Detach(t) PROVE Inv'
  <2> USE <1>2 DEF Detach, Body, User, TypeOK
  <2>1. TypeOK'
    OBVIOUS
  <2>2. ASSUME NEW u \in Threads PROVE (Counted(u) /\ Placed(u))'
    BY DEF Counted, Placed, BodyRef, Owed
  <2>3. QED
    BY <2>1, <2>2
<1>3. ASSUME NEW t \in Threads, Wait(t) PROVE Inv'
  <2> USE <1>3, BodyRetains DEF Wait, User, TypeOK
  <2>1. TypeOK'
    OBVIOUS
  <2>2. ASSUME NEW u \in Threads PROVE (Counted(u) /\ Placed(u))'
    BY DEF Counted, Placed, BodyRef, Owed
  <2>3. QED
    BY <2>1, <2>2
<1>4. ASSUME NEW t \in Threads, Join(t) PROVE Inv'
  <2> USE <1>4 DEF Join, User, TypeOK
  <2>1. ~detached[t]
    BY Joinable
  <2>2. TypeOK'
    OBVIOUS
  <2>3. ASSUME NEW u \in Threads PROVE (Counted(u) /\ Placed(u))'
    BY <2>1 DEF Counted, Placed, BodyRef, Owed
  <2>4. QED
    BY <2>2, <2>3
<1>5. ASSUME NEW t \in Threads, Release(t) PROVE Inv'
  <2> USE <1>5 DEF Release, ReleaseRef, User, TypeOK
  <2>1. refs[t] > 0
    BY DEF Counted, Placed, BodyRef, Owed
  <2>2. TypeOK'
    BY <2>1
  <2>3. ASSUME NEW u \in Threads PROVE (Counted(u) /\ Placed(u))'
    BY <2>1 DEF Counted, Placed, BodyRef, Owed
  <2>4. QED
    BY <2>2, <2>3
<1>6. ASSUME NEW t \in Threads, Abandon(t) PROVE Inv'
  <2> USE <1>6 DEF Abandon, ReleaseRef, User, TypeOK
  <2>1. refs[t] - BodyRef(t) = 1
    BY DEF Counted, Placed, Owed
  <2>2. TypeOK'
    BY <2>1 DEF BodyRef
  <2>3. ASSUME NEW u \in Threads PROVE (Counted(u) /\ Placed(u))'
    BY <2>1 DEF Counted, Placed, BodyRef, Owed
  <2>4. QED
    BY <2>2, <2>3
<1>7. ASSUME NEW t \in Threads, Kill(t) PROVE Inv'
  <2> USE <1>7 DEF Kill, Body, User, TypeOK
  <2>1. TypeOK'
    OBVIOUS
  <2>2. ASSUME NEW u \in Threads PROVE (Counted(u) /\ Placed(u))'
    BY DEF Counted, Placed, BodyRef, Owed
  <2>3. QED
    BY <2>1, <2>2
<1>8. ASSUME NEW t \in Threads, CreatorExitWithValue(t) PROVE Inv'
  <2> USE <1>8, BodyRetains DEF CreatorExitWithValue, ReleaseRef, User, TypeOK
  <2>1. refs[t] - BodyRef(t) = 1 /\ user' = user /\ body' = body
    BY DEF Counted, Placed, BodyRef, Owed
  <2>2. TypeOK'
    BY <2>1 DEF BodyRef
  <2>3. ASSUME NEW u \in Threads PROVE (Counted(u) /\ Placed(u))'
    BY <2>1 DEF Counted, Placed, BodyRef, Owed
  <2>4. QED
    BY <2>2, <2>3
<1>9. ASSUME NEW t \in Threads, BodyExitWithValue(t) PROVE Inv'
  BY <1>9 DEF BodyExitWithValue, IsCurrentThread, TypeOK, Counted, Placed, BodyRef, Owed
<1>10. ASSUME NEW t \in Threads, Start(t) PROVE Inv'
  <2> USE <1>10, BodyRetains DEF Start, Body, TypeOK
  <2>1. refs[t] = 1
    BY DEF Counted, Placed, BodyRef, Owed
  <2>2. TypeOK'
    BY <2>1
  <2>3. ASSUME NEW u \in Threads PROVE (Counted(u) /\ Placed(u))'
    BY <2>1 DEF Counted, Placed, BodyRef, Owed
  <2>4. QED
    BY <2>2, <2>3
<1>11. ASSUME NEW t \in Threads, Finish(t) PROVE Inv'
  <2> USE <1>11 DEF Finish, ReleaseRef, Body, TypeOK
  <2>1. refs[t] > 0
    BY DEF Counted, Placed, BodyRef, Owed
  <2>2. TypeOK'
    BY <2>1
  <2>3. ASSUME NEW u \in Threads PROVE (Counted(u) /\ Placed(u))'
    BY <2>1 DEF Counted, Placed, BodyRef, Owed
  <2>4. QED
    BY <2>2, <2>3
<1>12. QED
  BY <1>1, <1>2, <1>3, <1>4, <1>5, <1>6, <1>7, <1>8, <1>9, <1>10, <1>11 DEF Next

-------------------------------------------------------------------------------
(* Every variable keeps its type; in particular no ETThread is released    *)
(* more often than it was retained.                                        *)
THEOREM TypeCorrect ==
  ASSUME BodyRetains
  PROVE  Spec => []TypeOK
<1>1. Inv => TypeOK
  BY DEF Inv
<1>2. Inv /\ [Next]_vars => Inv'
  BY Preserved
<1>3. QED
  BY Starts, <1>1, <1>2, PTL DEF Spec

(* waitForTermination joins a thread that can be joined, and asks an       *)
(* object that is alive.                                                   *)
THEOREM ValueCorrect ==
  ASSUME BodyRetains
  PROVE  Spec => []ValueGiven
<1>1. Inv => ValueGiven
  BY Joinable DEF Inv, Placed, ValueGiven
<1>2. Inv /\ [Next]_vars => Inv'
  BY Preserved
<1>3. QED
  BY Starts, <1>1, <1>2, PTL DEF Spec

(* Whichever of the two releases comes last, the thread is detached: the   *)
(* creator that gave it up owes none, and threadStart has paid its own.    *)
THEOREM NoneLeftBehindCorrect ==
  ASSUME BodyRetains
  PROVE  Spec => []NoneLeftBehind
<1>1. Inv => NoneLeftBehind
  <2> SUFFICES ASSUME Inv, NEW t \in Threads, user[t] = "abandoned", body[t] = "ended"
               PROVE  detached[t]
    BY DEF NoneLeftBehind
  <2>1. BodyRef(t) = 0 /\ Owed(t) = 0
    BY DEF BodyRef, Owed
  <2>2. refs[t] = 0
    BY <2>1 DEF Inv, TypeOK, Counted
  <2>3. QED
    BY <2>2 DEF Inv, Placed
<1>2. Inv /\ [Next]_vars => Inv'
  BY Preserved
<1>3. QED
  BY Starts, <1>1, <1>2, PTL DEF Spec
===============================================================================
