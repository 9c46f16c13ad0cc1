---------------------------- MODULE ThreadLifecycle ----------------------------
(***************************************************************************)
(* ETThread (EtoileThread/ETThread.m): a thread as an object.  One thread, *)
(* the creator, makes threads with detachNewThreadSelector:toTarget:       *)
(* withObject: and uses the objects it gets back; threadStart runs in the  *)
(* new thread and releases the object at the end.                          *)
(*                                                                         *)
(* With BodyRetains the method the thread runs retains its ETThread first  *)
(* and publishes it, and the creator uses only what was published and      *)
(* releases it, after the join as ETThreadedObject does, or without one:   *)
(* dealloc provides for that.  Without BodyRetains the creator uses what   *)
(* detachNewThreadSelector: returned.                                      *)
(***************************************************************************)
EXTENDS Integers

CONSTANTS Threads,      \* the threads the creator makes
          BodyRetains

ASSUME LifecycleAssumption == BodyRetains \in BOOLEAN

VARIABLES refs,     \* retain count of each ETThread
          body,     \* where the new thread is
          published,\* the body has retained and published its ETThread
          detached, \* pthread_detach was called
          user,     \* what the creator is doing with each ETThread
          got,      \* what waitForTermination returned
          creator   \* the creator thread runs, or has exited

vars == <<refs, body, published, detached, user, got, creator>>

Body(t, from, to) == body[t] = from /\ body' = [body EXCEPT ![t] = to]
User(t, from, to) ==
  creator = "running" /\ user[t] = from /\ user' = [user EXCEPT ![t] = to]

(* release; the last one runs dealloc, which detaches the thread.          *)
ReleaseRef(t) ==
  /\ refs' = [refs EXCEPT ![t] = @ - 1]
  /\ detached' = [detached EXCEPT ![t] = @ \/ refs[t] = 1]

-------------------------------------------------------------------------------
(* The creator.                                                            *)

(* alloc, and pthread_create, which stores the handle before the thread    *)
(* runs; the object is returned whether or not the thread still runs.      *)
Detach(t) ==
  /\ User(t, "none", "holding")
  /\ refs' = [refs EXCEPT ![t] = 1]
  /\ Body(t, "none", "started")
  /\ UNCHANGED <<published, detached, got, creator>>

(* waitForTermination reads the handle from the object ...                 *)
Wait(t) ==
  /\ User(t, "holding", "joining")
  /\ BodyRetains => published[t]
  /\ UNCHANGED <<refs, body, published, detached, got, creator>>

(* ... and joins; joining a detached thread has no defined result.         *)
Join(t) ==
  /\ User(t, "joining", "joined")
  /\ detached[t] \/ body[t] \in {"ended", "cancelled"}
  /\ got' = [got EXCEPT ![t] =
               CASE detached[t] -> "undefined"
                 [] body[t] = "cancelled" -> "PTHREAD_CANCELED"
                 [] OTHER -> "result"]
  /\ UNCHANGED <<refs, body, published, detached, creator>>

(* ETThreadedObject's dealloc releases the ETThread its run loop retained. *)
Release(t) ==
  /\ BodyRetains
  /\ User(t, "joined", "released")
  /\ ReleaseRef(t)
  /\ UNCHANGED <<body, published, got, creator>>

(* The creator gives the thread up, whether it has ended or not.           *)
Abandon(t) ==
  /\ BodyRetains
  /\ published[t]
  /\ User(t, "holding", "abandoned")
  /\ ReleaseRef(t)
  /\ UNCHANGED <<body, published, got, creator>>

Kill(t) ==
  /\ User(t, "holding", "holding")
  /\ BodyRetains => published[t]
  /\ Body(t, "running", "cancelled")
  /\ UNCHANGED <<refs, published, detached, got, creator>>

-------------------------------------------------------------------------------
(* isCurrentThread returns YES when pthread_equal returns 0, that is, when *)
(* the two threads differ.                                                 *)
IsCurrentThread(self, t) == self # t

(* exitWithValue: called by the creator on another thread, or by the body  *)
(* on its own.                                                             *)
CreatorExitWithValue(t) ==
  /\ User(t, "holding", "holding")
  /\ BodyRetains => published[t]
  /\ IF IsCurrentThread("creator", t)
     THEN ReleaseRef(t) /\ creator' = "exited"
     ELSE UNCHANGED <<refs, detached, creator>>
  /\ UNCHANGED <<body, published, got>>

BodyExitWithValue(t) ==
  /\ body[t] = "running"
  /\ IF IsCurrentThread(t, t)
     THEN ReleaseRef(t) /\ Body(t, "running", "ended")
     ELSE UNCHANGED <<refs, detached, body>>
  /\ UNCHANGED <<published, user, got, creator>>

-------------------------------------------------------------------------------
(* The new thread: threadStart.                                            *)

BrokenStart(t) ==                                       \* not retained
  /\ Body(t, "started", "running")
  /\ published' = [published EXCEPT ![t] = BodyRetains]
  /\ UNCHANGED <<refs, detached, user, got, creator>>

Start(t) ==
  /\ Body(t, "started", "running")
  /\ refs' = [refs EXCEPT ![t] = IF BodyRetains THEN @ + 1 ELSE @]
  /\ published' = [published EXCEPT ![t] = BodyRetains]
  /\ UNCHANGED <<detached, user, got, creator>>

BrokenFinish(t) ==                                      \* only the pool is released
  /\ Body(t, "running", "ended")
  /\ UNCHANGED <<refs, published, detached, user, got, creator>>

(* The method returns; the pool and the ETThread are released.             *)
Finish(t) ==
  /\ Body(t, "running", "ended")
  /\ ReleaseRef(t)
  /\ UNCHANGED <<published, user, got, creator>>

-------------------------------------------------------------------------------
Init == /\ refs = [t \in Threads |-> 0]
        /\ body = [t \in Threads |-> "none"]
        /\ published = [t \in Threads |-> FALSE]
        /\ detached = [t \in Threads |-> FALSE]
        /\ user = [t \in Threads |-> "none"]
        /\ got = [t \in Threads |-> "nothing"]
        /\ creator = "running"

Next == \E t \in Threads :
          \/ Detach(t) \/ Wait(t) \/ Join(t) \/ Release(t)
          \/ Abandon(t) \/ Kill(t) \/ CreatorExitWithValue(t) \/ BodyExitWithValue(t)
          \/ Start(t) \/ Finish(t)

Spec == Init /\ [][Next]_vars

-------------------------------------------------------------------------------
TypeOK == /\ refs \in [Threads -> 0 .. 2]
          /\ body \in [Threads -> {"none", "started", "running", "ended",
                                   "cancelled"}]
          /\ published \in [Threads -> BOOLEAN]
          /\ detached \in [Threads -> BOOLEAN]
          /\ user \in [Threads -> {"none", "holding", "joining",
                                   "joined", "released",
                                   "abandoned"}]
          /\ got \in [Threads -> {"nothing", "result", "PTHREAD_CANCELED",
                                  "undefined"}]
          /\ creator \in {"running", "exited"}

(* ETThread.h:64-66, waitForTermination "will give the returned value":    *)
(* the thread it joins is a joinable one, and it is not a dead object it   *)
(* asks.                                                                   *)
ValueGiven ==
  \A t \in Threads :
    /\ user[t] = "joining" => refs[t] > 0
    /\ got[t] # "undefined"

(* A thread its creator has given up and that has ended is detached: the   *)
(* creator and the end of threadStart release in either order, and only    *)
(* the dealloc of the last one detaches (ETThread.m:142-150).  A killed    *)
(* thread is another matter.                                               *)
NoneLeftBehind ==
  \A t \in Threads : user[t] = "abandoned" /\ body[t] = "ended" => detached[t]

(* Without that exception.                                                 *)
KilledToo ==
  \A t \in Threads :
    user[t] = "abandoned" /\ body[t] \in {"ended", "cancelled"} => detached[t]

(* ETThread.h:75-76, exitWithValue: "can only be called from the thread    *)
(* represented by the receiver and will silently fail otherwise".          *)
ExitOnlyOwnThread == creator = "running"
================================================================================
