----------------------------- MODULE Future_proofs -----------------------------
(***************************************************************************)
(* Proofs about Future, for every set of callers, with or without spurious *)
(* wakeups.                                                                *)
(***************************************************************************)
EXTENDS Future, FiniteSetTheorems, TLAPS

-------------------------------------------------------------------------------
(* The inductive invariant.                                                *)

(* The variables other than refs have their type.                          *)
Types == /\ object \in {"INVALID_OBJECT", "real"}
         /\ mutex \in Callers \union {"none", "worker"}
         /\ pc \in [Callers -> {"ready", "lock", "locked", "waiting", "woken",
                                "return", "done"}]
         /\ workerPc \in {"running", "set", "unlock", "release", "done"}
         /\ got \in [Callers -> {"nothing", "INVALID_OBJECT", "real"}]
         /\ startled \subseteq Callers

(* Every reference has an owner: a caller that is not done, or the worker. *)
Users  == {c \in Callers : pc[c] # "done"}
Owners == Cardinality(Users) + (IF workerPc = "done" THEN 0 ELSE 1)
Refs   == refs = Owners

(* Who holds the mutex, and when the object is there.                      *)
Holders == /\ \A c \in Callers : mutex = c => pc[c] = "locked"
           /\ mutex = "worker" => workerPc \in {"set", "unlock"}
           /\ object = "real" <=> workerPc \in {"unlock", "release", "done"}

(* A caller on its way out without the object was woken unsignalled.       *)
Startled == \A c \in Callers :
  /\ pc[c] \in {"woken", "return"} => object = "real" \/ c \in startled
  /\ got[c] = "INVALID_OBJECT" => c \in startled

Inv == Types /\ Refs /\ Holders /\ Startled

-------------------------------------------------------------------------------
(* A step of one caller changes nobody else's place.                       *)
LEMMA Stepped ==
  ASSUME Types, NEW c \in Callers, NEW from, NEW to, Step(c, from, to)
  PROVE  /\ pc[c] = from /\ pc'[c] = to
         /\ \A d \in Callers \ {c} : pc'[d] = pc[d]
BY DEF Step, Types

LEMMA UsersFinite == IsFiniteSet(Users) /\ Cardinality(Users) \in Nat
BY FutureAssumption, FS_Subset, FS_CardinalityType DEF Users

(* The users stay the same unless one is done, who is then one less.       *)
LEMMA SameUsers ==
  ASSUME Types, NEW c \in Callers, NEW from, NEW to, Step(c, from, to),
         from # "done", to # "done"
  PROVE  Users' = Users
BY Stepped DEF Users

LEMMA OneUserLess ==
  ASSUME Types, NEW c \in Callers, Step(c, "ready", "done")
  PROVE  Cardinality(Users') = Cardinality(Users) - 1
<1>1. c \in Users /\ Users' = Users \ {c}
  BY Stepped DEF Users
<1>2. QED
  BY <1>1, UsersFinite, FS_RemoveElement

-------------------------------------------------------------------------------
LEMMA InvInit == Init => Inv
<1> SUFFICES ASSUME Init PROVE Inv
  OBVIOUS
<1>1. Types
  BY DEF Init, Types
<1>2. Users = Callers
  BY DEF Init, Users
<1>3. Refs
  BY <1>2 DEF Init, Refs, Owners, InitialRefs
<1>4. Holders /\ Startled
  BY FutureAssumption DEF Init, Holders, Startled
<1>5. QED
  BY <1>1, <1>3, <1>4 DEF Inv

LEMMA TypesNext == Types /\ [Next]_vars => Types'
<1> SUFFICES ASSUME Types, [Next]_vars PROVE Types'
  OBVIOUS
<1> USE DEF Types, Step, WorkerStep
<1>1. ASSUME NEW c \in Callers, Ask(c) \/ SpuriousWakeup(c) \/ Drop(c)
      PROVE  Types'
  BY <1>1 DEF Ask, Call, Lock, Test, Woken, Return, SpuriousWakeup, Drop
<1>2. CASE Fulfil
  BY <1>2 DEF Fulfil, SetLock, Set, SetUnlock, SetRelease
<1>3. CASE UNCHANGED vars
  BY <1>3 DEF vars
<1>4. QED
  BY <1>1, <1>2, <1>3 DEF Next

(* References are given up by their owner and nobody else.                 *)
LEMMA RefsNext == Inv /\ [Next]_vars => Refs'
<1> SUFFICES ASSUME Inv, [Next]_vars PROVE Refs'
  OBVIOUS
<1> USE UsersFinite DEF Inv, Refs, Owners
<1>1. ASSUME NEW c \in Callers, Ask(c) PROVE Refs'
  <2>1. Users' = Users
    BY <1>1, SameUsers DEF Ask, Call, Lock, Test, Woken, Return
  <2>2. refs' = refs /\ workerPc' = workerPc
    BY <1>1 DEF Ask, Call, Lock, Test, Woken, Return
  <2>3. QED
    BY <2>1, <2>2
<1>2. ASSUME NEW c \in Callers, SpuriousWakeup(c) PROVE Refs'
  <2>1. Users' = Users
    BY <1>2, SameUsers DEF SpuriousWakeup
  <2>2. QED
    BY <1>2, <2>1 DEF SpuriousWakeup
<1>3. ASSUME NEW c \in Callers, Drop(c) PROVE Refs'
  <2>1. Cardinality(Users') = Cardinality(Users) - 1
    BY <1>3, OneUserLess DEF Drop
  <2>2. QED
    BY <1>3, <2>1 DEF Drop
<1>4. CASE SetLock \/ SetUnlock \/ SetRelease
  <2>1. Users' = Users
    BY <1>4 DEF SetLock, SetUnlock, SetRelease, Users
  <2>2. QED
    BY <1>4, <2>1 DEF SetLock, SetUnlock, SetRelease, WorkerStep
<1>5. CASE Set
  <2>1. Users' = Users
    <3>1. CASE UNCHANGED pc
      BY <3>1 DEF Users
    <3>2. ASSUME NEW c \in Callers, Step(c, "waiting", "woken")
          PROVE  Users' = Users
      BY <3>2, SameUsers
    <3>3. QED
      BY <1>5, <3>1, <3>2 DEF Set
  <2>2. QED
    BY <1>5, <2>1 DEF Set, WorkerStep
<1>6. CASE UNCHANGED vars
  <2>1. Users' = Users
    BY <1>6 DEF vars, Users
  <2>2. QED
    BY <1>6, <2>1 DEF vars
<1>7. QED
  BY <1>1, <1>2, <1>3, <1>4, <1>5, <1>6 DEF Next, Fulfil

LEMMA HoldersNext == Inv /\ [Next]_vars => Holders'
<1> SUFFICES ASSUME Inv, [Next]_vars PROVE Holders'
  OBVIOUS
<1> USE FutureAssumption DEF Inv, Types, Holders, Step, WorkerStep
<1>1. ASSUME NEW c \in Callers, Ask(c) \/ SpuriousWakeup(c) \/ Drop(c)
      PROVE  Holders'
  BY <1>1 DEF Ask, Call, Lock, Test, Woken, Return, SpuriousWakeup, Drop
<1>2. CASE Fulfil
  BY <1>2 DEF Fulfil, SetLock, Set, SetUnlock, SetRelease
<1>3. CASE UNCHANGED vars
  BY <1>3 DEF vars
<1>4. QED
  BY <1>1, <1>2, <1>3 DEF Next

LEMMA StartledNext == Inv /\ [Next]_vars => Startled'
<1> SUFFICES ASSUME Inv, [Next]_vars PROVE Startled'
  OBVIOUS
<1> USE DEF Inv, Types, Startled, Step, WorkerStep
<1>1. ASSUME NEW c \in Callers, Ask(c) \/ SpuriousWakeup(c) \/ Drop(c)
      PROVE  Startled'
  BY <1>1 DEF Ask, Call, Lock, Test, Woken, Return, SpuriousWakeup, Drop
<1>2. CASE Fulfil
  BY <1>2 DEF Fulfil, SetLock, Set, SetUnlock, SetRelease
<1>3. CASE UNCHANGED vars
  BY <1>3 DEF vars
<1>4. QED
  BY <1>1, <1>2, <1>3 DEF Next

LEMMA InvNext == Inv /\ [Next]_vars => Inv'
BY TypesNext, RefsNext, HoldersNext, StartledNext DEF Inv

LEMMA InvCorrect == Spec => []Inv
BY InvInit, InvNext, PTL DEF Spec

-------------------------------------------------------------------------------
(* Every variable keeps its type; the retain count stays between 0 and the *)
(* count init leaves, so no reference is given up twice.                   *)
THEOREM TypeCorrect == Spec => []TypeOK
<1>1. ASSUME Inv PROVE TypeOK
  <2>1. Cardinality(Users) <= Cardinality(Callers)
    BY FutureAssumption, FS_Subset DEF Users
  <2>2. refs \in 0 .. Cardinality(Callers) + 1
    BY <1>1, <2>1, UsersFinite, FutureAssumption, FS_CardinalityType
       DEF Inv, Refs, Owners
  <2>3. QED
    BY <1>1, <2>2 DEF Inv, Types, TypeOK
<1>2. QED
  BY InvCorrect, <1>1, PTL

(* dealloc (lines 49-55) runs when no thread is inside the future any more,*)
(* holds its mutex or waits on its condition.                              *)
THEOREM FreedLastCorrect == Spec => []FreedLast
<1>1. ASSUME Inv, freed PROVE /\ object = "real" /\ mutex = "none"
                              /\ workerPc = "done"
                              /\ \A c \in Callers : pc[c] = "done"
  <2>1. workerPc = "done" /\ Cardinality(Users) = 0
    BY <1>1, UsersFinite DEF Inv, Refs, Owners, freed
  <2>2. Users = {}
    BY <2>1, UsersFinite, FS_EmptySet
  <2>3. \A c \in Callers : pc[c] = "done"
    BY <2>2 DEF Users
  <2>4. QED
    BY <1>1, <2>1, <2>3 DEF Inv, Types, Holders
<1>2. Inv => FreedLast
  BY <1>1 DEF FreedLast
<1>3. QED
  BY InvCorrect, <1>2, PTL

(* Nobody gets the placeholder instead of the object (lines 66-78), unless *)
(* pthread_cond_wait returned without a signal.                            *)
THEOREM ValueCorrect == Spec => []ValueIsRealUnlessStartled
<1>1. Inv => ValueIsRealUnlessStartled
  BY DEF Inv, Startled, ValueIsRealUnlessStartled
<1>2. QED
  BY InvCorrect, <1>1, PTL
================================================================================
