---------------------------- MODULE ThreadedObject ----------------------------
(***************************************************************************)
(* ETThreadedObject (EtoileThread/ETThreadedObject.m): an object with a    *)
(* thread of its own.  One client thread forwards messages into a ring     *)
(* buffer of QUEUE_SIZE slots indexed by two free-running counters         *)
(* (producer, consumer); the worker thread runs them in runloop:.  The     *)
(* mutex and the condition variable are used only when the queue is empty  *)
(* (the worker sleeps) and to destroy the object.                          *)
(*                                                                         *)
(* A message takes two slots: the invocation and the future that will hold *)
(* its result (nil when the method returns no object).  A message is its   *)
(* number, 1, 2, ... in sending order, and its return type is kind of that *)
(* number; kind[m] is the history of what was sent.                        *)
(*                                                                         *)
(* Every step touches shared memory at most once, except under the mutex.  *)
(***************************************************************************)
EXTENDS Integers, Sequences

CONSTANTS QUEUE_SIZE,    \* slots in the ring buffer (256 in the code)
          COUNTER_MOD,   \* 2^w for counters of w bits (unsigned long)
          MaxMessages,   \* bound on the messages the client sends
          Idles,         \* the object conforms to the Idle protocol
          Owned,         \* the proxy has a reference to the object of its own:
                         \* always with +threadedNew, with -inNewThread only
                         \* if the creator gives one of his away
          Pooled,        \* the creator's autorelease pool has a reference
          nil

Kinds == {"void", "object", "concrete"}
Messages == 1 .. MaxMessages

ASSUME QueueAssumption ==
  /\ QUEUE_SIZE \in Nat \ {0} /\ QUEUE_SIZE % 2 = 0
  /\ COUNTER_MOD \in Nat /\ COUNTER_MOD > QUEUE_SIZE
  /\ COUNTER_MOD % QUEUE_SIZE = 0
  /\ MaxMessages \in Nat
ASSUME FlagAssumption ==
  Idles \in BOOLEAN /\ Owned \in BOOLEAN /\ Pooled \in BOOLEAN
ASSUME NilAssumption == nil \notin Messages

VARIABLES
  producer, consumer,  \* free-running counters
  invocations,         \* the ring buffer
  mutex,               \* "none", or the thread that holds it
  terminate,           \* dealloc asks the worker to exit
  thread,              \* the worker has stored its ETThread
  objectRefs,          \* references to the proxied object
  pooled,              \* the creator's autorelease pool still holds one
  clientPc,            \* where the client thread is
  workerPc,            \* where the worker thread is
  invocation, retVal,  \* locals of runloop:
  retained,            \* invocations forwardInvocation: retained and
                       \* runloop: has not released
  fulfilled,           \* futures given their object
  kind,                \* kind[m], the return type of the m-th message
  executed             \* the messages invoked on the object, in order

queueVars  == <<producer, consumer, invocations>>
objectVars == <<objectRefs, pooled>>
localVars  == <<invocation, retVal>>
vars == <<producer, consumer, invocations, mutex, terminate, thread,
          objectRefs, pooled, clientPc, workerPc, invocation, retVal,
          retained, fulfilled, kind, executed>>

-------------------------------------------------------------------------------
(* The macros of the ring buffer; the counters are unsigned and wrap.      *)

\* Plausible mistakes, each an operator whose name starts with Broken and that
\* stands just before the definition it breaks, show what a property catches.
BrokenUsed == producer - consumer                    \* without the wrap
BrokenISFULL == QUEUE_SIZE - ((producer - consumer) % COUNTER_MOD) < 0

Used       == (producer - consumer) % COUNTER_MOD
ISFULL     == QUEUE_SIZE - Used = 0
ISEMPTY    == Used = 0
MASK(i)    == i % QUEUE_SIZE
Advance(c) == (c + 2) % COUNTER_MOD

ClientStep(from, to) == clientPc = from /\ clientPc' = to
WorkerStep(from, to) == workerPc = from /\ workerPc' = to

(* pthread_cond_signal, and the unlock that follows it everywhere.         *)
SignalAndUnlock ==
  /\ mutex = "client" /\ mutex' = "none"
  /\ workerPc' = IF workerPc = "waiting" THEN "woken" ELSE workerPc

-------------------------------------------------------------------------------
(* The client thread: forwardInvocation: and its INSERT.                   *)

(* The invocation is retained, and a future made for an object return.     *)
Forward(k) ==
  /\ Len(kind) < MaxMessages
  /\ ClientStep("ready", "insert")
  /\ kind' = Append(kind, k)
  /\ retained' = retained \union {Len(kind) + 1}
  /\ UNCHANGED <<queueVars, mutex, terminate, thread, objectVars, workerPc,
                 localVars, fulfilled, executed>>

(* INSERT spins on ISFULL, then fills two slots.                           *)
InsertInvocation ==
  /\ ClientStep("insert", "insertRetVal")
  /\ ~ISFULL
  /\ invocations' = [invocations EXCEPT ![MASK(producer)] = Len(kind)]
  /\ UNCHANGED <<producer, consumer, mutex, terminate, thread, objectVars,
                 workerPc, localVars, retained, fulfilled, kind, executed>>

InsertRetVal ==
  /\ ClientStep("insertRetVal", "publish")
  /\ invocations' = [invocations EXCEPT ![MASK(producer + 1)] =
                       IF kind[Len(kind)] = "object" THEN Len(kind) ELSE nil]
  /\ UNCHANGED <<producer, consumer, mutex, terminate, thread, objectVars,
                 workerPc, localVars, retained, fulfilled, kind, executed>>

Publish ==
  /\ ClientStep("publish", "published")
  /\ producer' = Advance(producer)
  /\ UNCHANGED <<consumer, invocations, mutex, terminate, thread, objectVars,
                 workerPc, localVars, retained, fulfilled, kind, executed>>

(* Was the queue empty before?  If so the worker may be asleep.            *)
AfterInsert == IF kind[Len(kind)] = "concrete" THEN "poll" ELSE "ready"

BrokenTestSignal ==
  /\ ClientStep("published", IF Used > 2 THEN "signalLock" ELSE AfterInsert)
  /\ UNCHANGED <<queueVars, mutex, terminate, thread, objectVars, workerPc,
                 localVars, retained, fulfilled, kind, executed>>

TestSignal ==
  /\ ClientStep("published", IF Used = 2 THEN "signalLock" ELSE AfterInsert)
  /\ UNCHANGED <<queueVars, mutex, terminate, thread, objectVars, workerPc,
                 localVars, retained, fulfilled, kind, executed>>

SignalLock ==
  /\ ClientStep("signalLock", "signal")
  /\ mutex = "none" /\ mutex' = "client"
  /\ UNCHANGED <<queueVars, terminate, thread, objectVars, workerPc,
                 localVars, retained, fulfilled, kind, executed>>

Signal ==
  /\ ClientStep("signal", AfterInsert)
  /\ SignalAndUnlock
  /\ UNCHANGED <<queueVars, terminate, thread, objectVars, localVars,
                 retained, fulfilled, kind, executed>>

(* A concrete return type: poll until the run loop released the invocation.*)
Poll ==
  /\ ClientStep("poll", "ready")
  /\ Len(kind) \notin retained
  /\ UNCHANGED <<queueVars, mutex, terminate, thread, objectVars, workerPc,
                 localVars, retained, fulfilled, kind, executed>>

-------------------------------------------------------------------------------
(* The client thread: dealloc.                                             *)

DeallocLock ==
  /\ ClientStep("ready", "dealloc")
  /\ mutex = "none" /\ mutex' = "client"
  /\ terminate' = TRUE
  /\ UNCHANGED <<queueVars, thread, objectVars, workerPc, localVars,
                 retained, fulfilled, kind, executed>>

(* The body of the loop on thread == nil, up to the unlock.                *)
DeallocPoke ==
  /\ ClientStep("dealloc", "deallocRelock")
  /\ ~thread
  /\ SignalAndUnlock
  /\ UNCHANGED <<queueVars, terminate, thread, objectVars, localVars,
                 retained, fulfilled, kind, executed>>

DeallocRelock ==
  /\ ClientStep("deallocRelock", "dealloc")
  /\ mutex = "none" /\ mutex' = "client"
  /\ UNCHANGED <<queueVars, terminate, thread, objectVars, workerPc,
                 localVars, retained, fulfilled, kind, executed>>

BrokenDeallocSignal ==
  /\ ClientStep("dealloc", "join")
  /\ thread /\ mutex' = "none"                       \* without the signal
  /\ UNCHANGED <<queueVars, terminate, thread, objectVars, workerPc,
                 localVars, retained, fulfilled, kind, executed>>

DeallocSignal ==
  /\ ClientStep("dealloc", "join")
  /\ thread
  /\ SignalAndUnlock
  /\ UNCHANGED <<queueVars, terminate, thread, objectVars, localVars,
                 retained, fulfilled, kind, executed>>

(* waitForTermination; the proxied object is released.                     *)
BrokenJoin ==                                        \* without the join
  /\ ClientStep("join", "freed")
  /\ objectRefs' = objectRefs - 1
  /\ UNCHANGED <<queueVars, mutex, terminate, thread, pooled, workerPc,
                 localVars, retained, fulfilled, kind, executed>>

Join ==
  /\ ClientStep("join", "freed")
  /\ workerPc = "exited"
  /\ objectRefs' = objectRefs - 1
  /\ UNCHANGED <<queueVars, mutex, terminate, thread, pooled, workerPc,
                 localVars, retained, fulfilled, kind, executed>>

(* The creator's autorelease pool lets go of the object, whenever that is. *)
DrainPool ==
  /\ pooled /\ pooled' = FALSE
  /\ clientPc \in {"ready", "freed"}
  /\ objectRefs' = objectRefs - 1
  /\ UNCHANGED <<queueVars, mutex, terminate, thread, clientPc, workerPc,
                 localVars, retained, fulfilled, kind, executed>>

-------------------------------------------------------------------------------
(* The worker thread: runloop: and its REMOVE.                             *)

Start ==
  /\ WorkerStep("created", "remove")
  /\ thread' = TRUE
  /\ UNCHANGED <<queueVars, mutex, terminate, objectVars, clientPc,
                 localVars, retained, fulfilled, kind, executed>>

(* while (ISEMPTY)                                                         *)
TestEmpty ==
  /\ WorkerStep("remove", IF ISEMPTY THEN "testTerminate" ELSE "readInvocation")
  /\ UNCHANGED <<queueVars, mutex, terminate, thread, objectVars, clientPc,
                 localVars, retained, fulfilled, kind, executed>>

(* Leave the run loop, idle if the object wants to, or go and block.       *)
TestTerminate ==
  /\ \E next \in {"lock"} \union (IF Idles THEN {"remove"} ELSE {}) :
       WorkerStep("testTerminate", IF terminate THEN "exiting" ELSE next)
  /\ UNCHANGED <<queueVars, mutex, terminate, thread, objectVars, clientPc,
                 localVars, retained, fulfilled, kind, executed>>

Lock ==
  /\ WorkerStep("lock", "locked")
  /\ mutex = "none" /\ mutex' = "worker"
  /\ UNCHANGED <<queueVars, terminate, thread, objectVars, clientPc,
                 localVars, retained, fulfilled, kind, executed>>

BrokenWaitOrUnlock ==                                \* without the second test
  /\ WorkerStep("locked", "waiting")
  /\ mutex' = "none"
  /\ UNCHANGED <<queueVars, terminate, thread, objectVars, clientPc,
                 localVars, retained, fulfilled, kind, executed>>

(* Under the mutex: sleep only if the queue is still empty.                *)
WaitOrUnlock ==
  /\ WorkerStep("locked", IF ISEMPTY THEN "waiting" ELSE "remove")
  /\ mutex' = "none"
  /\ UNCHANGED <<queueVars, terminate, thread, objectVars, clientPc,
                 localVars, retained, fulfilled, kind, executed>>

(* pthread_cond_wait may return unsignalled.                               *)
SpuriousWakeup ==
  /\ WorkerStep("waiting", "woken")
  /\ UNCHANGED <<queueVars, mutex, terminate, thread, objectVars, clientPc,
                 localVars, retained, fulfilled, kind, executed>>

(* pthread_cond_wait takes the mutex back; it is unlocked at once.         *)
Woken ==
  /\ WorkerStep("woken", "remove")
  /\ mutex = "none"
  /\ UNCHANGED <<queueVars, mutex, terminate, thread, objectVars, clientPc,
                 localVars, retained, fulfilled, kind, executed>>

ReadInvocation ==
  /\ WorkerStep("readInvocation", "readRetVal")
  /\ invocation' = invocations[MASK(consumer)]
  /\ UNCHANGED <<queueVars, mutex, terminate, thread, objectVars, clientPc,
                 retVal, retained, fulfilled, kind, executed>>

BrokenReadRetVal ==                                  \* the slot before
  /\ WorkerStep("readRetVal", "consume")
  /\ retVal' = invocations[MASK(consumer)]
  /\ UNCHANGED <<queueVars, mutex, terminate, thread, objectVars, clientPc,
                 invocation, retained, fulfilled, kind, executed>>

ReadRetVal ==
  /\ WorkerStep("readRetVal", "consume")
  /\ retVal' = invocations[MASK(consumer + 1)]
  /\ UNCHANGED <<queueVars, mutex, terminate, thread, objectVars, clientPc,
                 invocation, retained, fulfilled, kind, executed>>

Consume ==
  /\ WorkerStep("consume", "invoke")
  /\ consumer' = Advance(consumer)
  /\ UNCHANGED <<producer, invocations, mutex, terminate, thread, objectVars,
                 clientPc, localVars, retained, fulfilled, kind, executed>>

Invoke ==
  /\ WorkerStep("invoke", "setProxy")
  /\ executed' = Append(executed, invocation)
  /\ UNCHANGED <<queueVars, mutex, terminate, thread, objectVars, clientPc,
                 localVars, retained, fulfilled, kind>>

SetProxy ==
  /\ WorkerStep("setProxy", "release")
  /\ fulfilled' = fulfilled \union ({retVal} \ {nil})
  /\ UNCHANGED <<queueVars, mutex, terminate, thread, objectVars, clientPc,
                 localVars, retained, kind, executed>>

BrokenRelease ==                                     \* the invocation leaks
  /\ WorkerStep("release", "remove")
  /\ UNCHANGED <<queueVars, mutex, terminate, thread, objectVars, clientPc,
                 localVars, retained, fulfilled, kind, executed>>

Release ==
  /\ WorkerStep("release", "remove")
  /\ retained' = retained \ {invocation}
  /\ UNCHANGED <<queueVars, mutex, terminate, thread, objectVars, clientPc,
                 localVars, fulfilled, kind, executed>>

(* runloop: has returned; threadStart ends the thread.                     *)
Exit ==
  /\ WorkerStep("exiting", "exited")
  /\ UNCHANGED <<queueVars, mutex, terminate, thread, objectVars, clientPc,
                 localVars, retained, fulfilled, kind, executed>>

-------------------------------------------------------------------------------
Init ==
  /\ producer = 0 /\ consumer = 0
  /\ invocations = [i \in 0 .. QUEUE_SIZE - 1 |-> nil]
  /\ mutex = "none" /\ terminate = FALSE /\ thread = FALSE
  /\ objectRefs = (IF Owned THEN 1 ELSE 0) + (IF Pooled THEN 1 ELSE 0)
  /\ pooled = Pooled
  /\ clientPc = "ready" /\ workerPc = "created"
  /\ invocation = nil /\ retVal = nil
  /\ retained = {} /\ fulfilled = {}
  /\ kind = <<>> /\ executed = <<>>

Insert  == \/ InsertInvocation \/ InsertRetVal \/ Publish
           \/ TestSignal \/ SignalLock \/ Signal \/ Poll
Dealloc == \/ DeallocPoke \/ DeallocRelock \/ DeallocSignal \/ Join
Remove  == \/ TestEmpty \/ TestTerminate \/ Lock \/ WaitOrUnlock \/ Woken
           \/ ReadInvocation \/ ReadRetVal \/ Consume
Run     == Invoke \/ SetProxy \/ Release \/ Exit

Next == \/ \E k \in Kinds : Forward(k)
        \/ Insert
        \/ DeallocLock
        \/ Dealloc
        \/ DrainPool
        \/ Start
        \/ Remove
        \/ SpuriousWakeup
        \/ Run

(***************************************************************************)
(* Both threads are scheduled, so a step that stays possible is taken; the *)
(* client need not send another message, nor release the object, and       *)
(* nothing makes pthread_cond_wait return unsignalled.                     *)
(***************************************************************************)
Fairness == /\ WF_vars(Insert \/ Dealloc)
            /\ WF_vars(Start \/ Remove \/ Run)

Spec     == Init /\ [][Next]_vars
FairSpec == Spec /\ Fairness

-------------------------------------------------------------------------------
(* Types.  The counters stay within their width and stay even; the two     *)
(* slots of a message are never split by the end of the array.             *)
ClientPcs == {"ready", "insert", "insertRetVal", "publish", "published",
              "signalLock", "signal", "poll", "dealloc", "deallocRelock",
              "join", "freed"}
WorkerPcs == {"created", "remove", "testTerminate", "lock", "locked",
              "waiting", "woken", "readInvocation", "readRetVal", "consume",
              "invoke", "setProxy", "release", "exiting", "exited"}
TypeOK ==
  /\ producer \in 0 .. COUNTER_MOD - 1
  /\ consumer \in 0 .. COUNTER_MOD - 1
  /\ invocations \in [0 .. QUEUE_SIZE - 1 -> Messages \union {nil}]
  /\ mutex \in {"none", "client", "worker"}
  /\ terminate \in BOOLEAN /\ thread \in BOOLEAN
  /\ objectRefs \in Int /\ pooled \in BOOLEAN
  /\ clientPc \in ClientPcs /\ workerPc \in WorkerPcs
  /\ invocation \in Messages \union {nil}
  /\ retVal \in Messages \union {nil}
  /\ retained \subseteq Messages /\ fulfilled \subseteq Messages
  /\ kind \in Seq(Kinds) /\ Len(kind) <= MaxMessages
  /\ executed \in Seq(Messages \union {nil})

(* REMOVE's comment (ETThreadedObject.m:127-131): a worker asleep while a  *)
(* message waits is about to be signalled by the client that inserted it.  *)
NoLostWakeup ==
  workerPc = "waiting" /\ ~ISEMPTY =>
    \/ clientPc \in {"signalLock", "signal"}
    \/ clientPc = "published" /\ Used = 2

(* runloop: (ETThreadedObject.m:253-262): a future gets its object only    *)
(* from the invocation it was returned for, and every object-returning     *)
(* message performed has filled its future once the next one is taken.     *)
FuturesKept ==
  /\ \A m \in fulfilled : /\ m \in 1 .. Len(executed)
                          /\ kind[m] = "object"
  /\ \A m \in 1 .. Len(executed) :
       kind[m] = "object" => \/ m \in fulfilled
                             \/ m = Len(executed) /\ workerPc = "setProxy"

(* dealloc joins the worker before it releases the object (lines 225-233): *)
(* the worker never uses a released object, and none is released twice.    *)
ObjectOutlivesUse ==
  /\ objectRefs >= 0
  /\ workerPc \notin {"created", "exiting", "exited"} => objectRefs > 0

(* INSERT waits for space (lines 109-113): the slots of a message that has *)
(* not been read are never overwritten.                                    *)
Unread == {MASK(consumer + j) : j \in 0 .. Used - 1}
UnreadSlotsKept ==
  [][\A i \in Unread : invocations'[i] = invocations[i]]_vars

(* What the client was promised (README, "Messages sent to this class ..   *)
(* forwarded to the other thread using a ring buffer"): the ring buffer,   *)
(* the mutex and the sleeping worker implement AsyncObject.                *)
Promised == INSTANCE AsyncObject WITH
  sent      <- kind,
  executed  <- [i \in 1 .. Len(executed) |-> kind[executed[i]]],
  awaited   <- IF /\ clientPc \in {"insert", "insertRetVal", "publish",
                                   "published", "signalLock", "signal", "poll"}
                  /\ kind[Len(kind)] = "concrete" THEN Len(kind) ELSE 0,
  destroyed <- clientPc = "freed"
ImplementsAsyncObject == Promised!Spec

(* README, "methods that return objects or void will complete              *)
(* asynchronously": a message is performed unless the object is released.  *)
AllExecuted ==
  \A m \in Messages : (Len(kind) >= m) ~> (Len(executed) >= m \/ terminate)

(* The same line: sent before the release, a message is still performed.   *)
DeallocDrains == clientPc = "freed" => Len(executed) = Len(kind)

(* forwardInvocation: polls the retain count (lines 340-347): a sender of a*)
(* concrete message is eventually let go.                                  *)
ConcreteReturns == clientPc = "poll" ~> clientPc = "ready"

(* dealloc (lines 211-223) wakes a worker that sleeps: it then exits and   *)
(* the object is destroyed.                                                *)
SleeperIsDestroyed ==
  (clientPc = "dealloc" /\ workerPc = "waiting") ~> clientPc = "freed"

(* TestThread.m:122-126: after [object release], dealloc completes.        *)
DeallocCompletes == terminate ~> clientPc = "freed"
==============================================================================
