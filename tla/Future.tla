-------------------------------- MODULE Future --------------------------------
(***************************************************************************)
(* ETThreadProxyReturn (EtoileThread/ETThreadProxyReturn.m): the future    *)
(* that a threaded object returns.  The worker thread gives it its object  *)
(* once, with setProxyObject:; any thread that holds a reference may ask   *)
(* for the value, directly or by sending a message to the future, and      *)
(* blocks until there is one.                                              *)
(*                                                                         *)
(* References: init leaves one for the worker besides the caller's, which  *)
(* forwardInvocation: autoreleases.  Every other thread that uses the      *)
(* future holds a reference of its own.                                    *)
(***************************************************************************)
EXTENDS Integers, FiniteSets

CONSTANTS Callers,          \* the threads that use the future
          SpuriousWakeups   \* pthread_cond_wait may return unsignalled

ASSUME FutureAssumption ==
  /\ Callers # {} /\ IsFiniteSet(Callers)
  /\ "worker" \notin Callers /\ "none" \notin Callers
  /\ SpuriousWakeups \in BOOLEAN

VARIABLES object,   \* "INVALID_OBJECT", or "real" once it is set
          mutex,    \* "none", or the thread that holds it
          refs,     \* retain count
          pc,       \* where each caller is
          workerPc, \* where setProxyObject: is
          got,      \* what value last returned to each caller
          startled  \* history: callers that were ever woken unsignalled

vars == <<object, mutex, refs, pc, workerPc, got, startled>>

Step(c, from, to) == pc[c] = from /\ pc' = [pc EXCEPT ![c] = to]
freed == refs = 0

-------------------------------------------------------------------------------
(* A caller asks for the value: value itself, methodSignatureForSelector:  *)
(* and forwardInvocation: all look at object before they take the mutex.   *)

Call(c) ==
  /\ Step(c, "ready", IF object = "INVALID_OBJECT" THEN "lock" ELSE "return")
  /\ UNCHANGED <<object, mutex, refs, workerPc, got, startled>>

Lock(c) ==
  /\ Step(c, "lock", "locked")
  /\ mutex = "none" /\ mutex' = c
  /\ UNCHANGED <<object, refs, workerPc, got, startled>>

(* The second look, under the mutex.                                       *)
BrokenTest(c) ==                                       \* no second look
  /\ Step(c, "locked", "waiting")
  /\ mutex' = "none"
  /\ UNCHANGED <<object, refs, workerPc, got, startled>>

Test(c) ==
  /\ Step(c, "locked", IF object = "INVALID_OBJECT" THEN "waiting" ELSE "return")
  /\ mutex' = "none"
  /\ UNCHANGED <<object, refs, workerPc, got, startled>>

(* pthread_cond_wait returns with the mutex, which is unlocked.  There is  *)
(* no loop around the wait.                                                *)
Woken(c) ==
  /\ Step(c, "woken", "return")
  /\ mutex = "none"
  /\ UNCHANGED <<object, mutex, refs, workerPc, got, startled>>

SpuriousWakeup(c) ==
  /\ SpuriousWakeups
  /\ Step(c, "waiting", "woken")
  /\ startled' = startled \union {c}
  /\ UNCHANGED <<object, mutex, refs, workerPc, got>>

Return(c) ==
  /\ Step(c, "return", "ready")
  /\ got' = [got EXCEPT ![c] = object]
  /\ UNCHANGED <<object, mutex, refs, workerPc, startled>>

(* The caller is done with the future and gives up its reference.          *)
Drop(c) ==
  /\ Step(c, "ready", "done")
  /\ refs' = refs - 1
  /\ UNCHANGED <<object, mutex, workerPc, got, startled>>

-------------------------------------------------------------------------------
(* The worker: setProxyObject:, called once, when the message has run.     *)

WorkerStep(from, to) == workerPc = from /\ workerPc' = to

SetLock ==
  /\ WorkerStep("running", "set")
  /\ mutex = "none" /\ mutex' = "worker"
  /\ UNCHANGED <<object, refs, pc, got, startled>>

BrokenSet ==                                           \* nothing is stored
  /\ WorkerStep("set", "unlock")
  /\ object' = object
  /\ \/ /\ \A c \in Callers : pc[c] # "waiting"
        /\ UNCHANGED pc
     \/ \E c \in Callers : Step(c, "waiting", "woken")
  /\ UNCHANGED <<mutex, refs, got, startled>>

(* The object is stored, and one of the waiting threads is signalled.      *)
Set ==
  /\ WorkerStep("set", "unlock")
  /\ object' = "real"
  /\ \/ /\ \A c \in Callers : pc[c] # "waiting"
        /\ UNCHANGED pc
     \/ \E c \in Callers : Step(c, "waiting", "woken")
  /\ UNCHANGED <<mutex, refs, got, startled>>

SetUnlock ==
  /\ WorkerStep("unlock", "release")
  /\ mutex' = "none"
  /\ UNCHANGED <<object, refs, pc, got, startled>>

BrokenSetRelease ==                                    \* the future leaks
  /\ WorkerStep("release", "done")
  /\ UNCHANGED <<object, mutex, refs, pc, got, startled>>

SetRelease ==
  /\ WorkerStep("release", "done")
  /\ refs' = refs - 1
  /\ UNCHANGED <<object, mutex, pc, got, startled>>

-------------------------------------------------------------------------------
(* alloc gives one reference, which the first caller's pool holds, and     *)
(* init takes one for the worker; the other callers hold one each.         *)
BrokenInitialRefs == Cardinality(Callers)              \* init does not retain
InitialRefs == Cardinality(Callers) + 1

Init == /\ object = "INVALID_OBJECT"
        /\ mutex = "none"
        /\ refs = InitialRefs
        /\ pc = [c \in Callers |-> "ready"]
        /\ workerPc = "running"
        /\ got = [c \in Callers |-> "nothing"]
        /\ startled = {}

Ask(c)  == Call(c) \/ Lock(c) \/ Test(c) \/ Woken(c) \/ Return(c)
Fulfil  == SetLock \/ Set \/ SetUnlock \/ SetRelease

Next == \/ \E c \in Callers : Ask(c) \/ SpuriousWakeup(c) \/ Drop(c)
        \/ Fulfil

(* Every thread is scheduled, the message the worker runs ends, and every  *)
(* caller that holds a value gives its reference up in the end.            *)
Fairness == /\ \A c \in Callers : WF_vars(Lock(c) \/ Test(c) \/ Woken(c) \/ Return(c))
            /\ \A c \in Callers : SF_vars(Drop(c))
            /\ WF_vars(Fulfil)

Spec     == Init /\ [][Next]_vars
FairSpec == Spec /\ Fairness

-------------------------------------------------------------------------------
TypeOK == /\ object \in {"INVALID_OBJECT", "real"}
          /\ mutex \in Callers \union {"none", "worker"}
          /\ refs \in 0 .. Cardinality(Callers) + 1
          /\ pc \in [Callers -> {"ready", "lock", "locked", "waiting", "woken",
                                 "return", "done"}]
          /\ workerPc \in {"running", "set", "unlock", "release", "done"}
          /\ got \in [Callers -> {"nothing", "INVALID_OBJECT", "real"}]
          /\ startled \subseteq Callers

(* dealloc (lines 49-55) destroys the mutex and the condition and releases *)
(* the object: it runs after the object was set and when no thread is      *)
(* inside the future.                                                      *)
FreedLast == freed => /\ object = "real"
                      /\ mutex = "none"
                      /\ workerPc = "done"
                      /\ \A c \in Callers : pc[c] = "done"

(* README:11, "any calls to methods on this proxy will block until the     *)
(* real object is returned": value returns nothing but the object that was *)
(* set.  It does not hold: the wait is not in a loop (lines 71-74).        *)
ValueIsReal == \A c \in Callers : got[c] # "INVALID_OBJECT"

(* Spurious wakeups aside it does: the two tests of object and the signal  *)
(* under the mutex let no caller through before the object is set.         *)
ValueIsRealUnlessStartled ==
  \A c \in Callers : got[c] = "INVALID_OBJECT" => c \in startled

(* The same line: a caller that asks gets its answer.                      *)
CallersReturn == \A c \in Callers : pc[c] = "lock" ~> pc[c] = "return"

(* It does when no other caller ever waits with it: setProxyObject: wakes  *)
(* one thread, with pthread_cond_signal (line 61).                         *)
LoneCallerReturns ==
  [](Cardinality({c \in Callers : pc[c] = "waiting"}) <= 1) => CallersReturn

(* The comment on the retain counts in runloop: (ETThreadedObject.m:       *)
(* 263-268): used or not, the future is freed in the end, unless a caller  *)
(* sleeps on it for ever.                                                  *)
FreedAtLast == <>[](freed \/ \E c \in Callers : pc[c] = "waiting")
===============================================================================
