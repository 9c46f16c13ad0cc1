------------------------------ MODULE ObjectPipe ------------------------------
(***************************************************************************)
(* ETObjectPipe (EtoileThread/ETObjectPipe.m): requests go from one thread *)
(* to another and replies come back, through one ring of slots that both   *)
(* directions share.  Each direction has its two free-running counters and *)
(* its condition; a reply is written in the slot its request has left.     *)
(*                                                                         *)
(* INSERT and REMOVE are macros over a direction, as here.  Every step     *)
(* touches memory the other thread writes at most once.                    *)
(***************************************************************************)
EXTENDS Integers, Sequences, SequencesExt

CONSTANTS RING_BUFFER_SIZE, \* slots (16 in the code)
          COUNTER_MOD,      \* 2^32 for the uint32_t counters
          MaxRequests,      \* bound on the requests sent
          Buffers,          \* requests the requester leaves unanswered at most
                            \* (ETObjectPipe.h:13-15)
          Blocking,         \* ends that call nextRequest or nextReply; the
                            \* others only poll
          SharedCondition,  \* the request condition belongs to other pipes too
          MayDisconnect,    \* either end may call disconnect
          AfterLate,        \* objects are taken after an end was woken over an
                            \* empty ring, and the counters cross
          nil

Directions == {"request", "reply"}
Ends == {"requester", "responder"}

ASSUME PipeAssumption ==
  /\ RING_BUFFER_SIZE \in Nat \ {0} /\ COUNTER_MOD \in Nat
  /\ COUNTER_MOD > RING_BUFFER_SIZE /\ COUNTER_MOD % RING_BUFFER_SIZE = 0
  /\ MaxRequests \in Nat /\ Buffers \in Nat /\ Blocking \subseteq Ends
  /\ {SharedCondition, MayDisconnect, AfterLate} \subseteq BOOLEAN

Sender(d)   == IF d = "request" THEN "requester" ELSE "responder"
Receiver(d) == IF d = "request" THEN "responder" ELSE "requester"

VARIABLES queue,               \* the ring
          producer, consumer,  \* counters of each direction
          lock,                \* the lock of each condition: "none" or an end
          disconnect,
          pc,                  \* where each end is
          polledNil,           \* pollForReply last returned nil
          sent, got,           \* history of each direction
          strain               \* history: what happened that the pipe does not
                               \* withstand, "late": an end was woken over an
                               \* empty ring, "overrun": the requester had more
                               \* requests unanswered than there are slots

vars == <<queue, producer, consumer, lock, disconnect, pc, polledNil, sent, got, strain>>
quiet == <<disconnect, polledNil>>
history == <<sent, got, strain>>

Used(p, c)    == (p - c) % COUNTER_MOD
ISFULL(p, c)  == RING_BUFFER_SIZE - Used(p, c) = 0
ISEMPTY(d)    == Used(producer[d], consumer[d]) = 0
MASK(i)       == i % RING_BUFFER_SIZE
Advance(f, d) == [f EXCEPT ![d] = (@ + 1) % COUNTER_MOD]

Step(e, from, to) == pc[e] = from /\ pc' = [pc EXCEPT ![e] = to]

(* signal, on the condition only the receiver of a direction waits on.     *)
WakeReceiver(d, pcs) ==
  [pcs EXCEPT ![Receiver(d)] = IF @ = "waiting" THEN "woken" ELSE @]

-------------------------------------------------------------------------------
(* INSERT                                                                  *)

Unanswered == Len(sent["request"]) - Len(got["reply"])

(* The caller has an object to send; nothing is sent once disconnected.    *)
SendRequest ==
  /\ Len(sent["request"]) < MaxRequests
  /\ Unanswered < Buffers
  /\ Step("requester", "ready", IF disconnect THEN "ready" ELSE "insert")
  /\ polledNil' = FALSE
  /\ strain' = strain \union (IF Unanswered >= RING_BUFFER_SIZE /\ ~disconnect
                              THEN {"overrun"} ELSE {})
  /\ UNCHANGED <<queue, producer, consumer, lock, disconnect, sent, got>>

(* Every request has one reply, sent in the order of the requests.         *)
SendReply ==
  /\ Len(sent["reply"]) < Len(got["request"])
  /\ Step("responder", "ready", IF disconnect THEN "ready" ELSE "insert")
  /\ UNCHANGED <<queue, producer, consumer, lock, quiet, history>>

(* A full ring: signal (count is never incremented) and try again.         *)
Spin(d) ==
  /\ pc[Sender(d)] = "insert"
  /\ ISFULL(producer[d], consumer[d])
  /\ pc' = WakeReceiver(d, pc)
  /\ UNCHANGED <<queue, producer, consumer, lock, quiet, history>>

Object(d) == IF d = "reply" THEN {<<d, Len(sent[d]) + 1>>, nil}
                            ELSE {<<d, Len(sent[d]) + 1>>}
Insert(d) ==
  /\ Step(Sender(d), "insert", "publish")
  /\ ~ISFULL(producer[d], consumer[d])
  /\ \E x \in Object(d) :
       /\ queue' = [queue EXCEPT ![MASK(producer[d])] = x]
       /\ sent' = [sent EXCEPT ![d] = Append(@, x)]
  /\ UNCHANGED <<producer, consumer, lock, quiet, got, strain>>

BrokenPublish(d) ==                                    \* counter not advanced
  /\ Step(Sender(d), "publish", "published")
  /\ UNCHANGED <<queue, producer, consumer, lock, quiet, history>>

Publish(d) ==
  /\ Step(Sender(d), "publish", "published")
  /\ producer' = Advance(producer, d)
  /\ UNCHANGED <<queue, consumer, lock, quiet, history>>

BrokenTestSignal(d) ==                                 \* one too many
  /\ Step(Sender(d), "published",
          IF Used(producer[d], consumer[d]) = 2 THEN "signalLock" ELSE "ready")
  /\ UNCHANGED <<queue, producer, consumer, lock, quiet, history>>

TestSignal(d) ==
  /\ Step(Sender(d), "published",
          IF Used(producer[d], consumer[d]) = 1 THEN "signalLock" ELSE "ready")
  /\ UNCHANGED <<queue, producer, consumer, lock, quiet, history>>

SignalLock(d) ==
  /\ Step(Sender(d), "signalLock", "signal")
  /\ lock[d] = "none" /\ lock' = [lock EXCEPT ![d] = Sender(d)]
  /\ UNCHANGED <<queue, producer, consumer, quiet, history>>

Signal(d) ==
  /\ pc[Sender(d)] = "signal"
  /\ pc' = WakeReceiver(d, [pc EXCEPT ![Sender(d)] = "ready"])
  /\ lock' = [lock EXCEPT ![d] = "none"]
  /\ UNCHANGED <<queue, producer, consumer, quiet, history>>

-------------------------------------------------------------------------------
(* REMOVE                                                                  *)

(* nextRequest, nextReply.  The bound on calls leaves one call too many.   *)
Next_(d) ==
  /\ Receiver(d) \in Blocking /\ Len(got[d]) <= MaxRequests
  /\ Step(Receiver(d), "ready", "remove")
  /\ UNCHANGED <<queue, producer, consumer, lock, quiet, history>>

TestEmpty(d) ==
  /\ Step(Receiver(d), "remove", IF ISEMPTY(d) THEN "testDisconnect" ELSE "take")
  /\ UNCHANGED <<queue, producer, consumer, lock, quiet, history>>

(* Disconnected: nil is returned and nothing removed.                      *)
TestDisconnect(d) ==
  /\ Step(Receiver(d), "testDisconnect", IF disconnect THEN "ready" ELSE "lock")
  /\ UNCHANGED <<queue, producer, consumer, lock, quiet, history>>

Lock(d) ==
  /\ Step(Receiver(d), "lock", "locked")
  /\ lock[d] = "none" /\ lock' = [lock EXCEPT ![d] = Receiver(d)]
  /\ UNCHANGED <<queue, producer, consumer, quiet, history>>

WaitOrUnlock(d) ==
  /\ Step(Receiver(d), "locked", IF ISEMPTY(d) THEN "waiting" ELSE "take")
  /\ lock' = [lock EXCEPT ![d] = "none"]
  /\ UNCHANGED <<queue, producer, consumer, quiet, history>>

(* wait returns; the ring is not tested again.                             *)
Woken(d) ==
  /\ Step(Receiver(d), "woken", "take")
  /\ lock[d] = "none"
  /\ strain' = strain \union (IF ISEMPTY(d) THEN {"late"} ELSE {})
  /\ UNCHANGED <<queue, producer, consumer, lock, quiet, sent, got>>

Take(d) ==
  /\ AfterLate \/ "late" \notin strain
  /\ Step(Receiver(d), "take", "taken")
  /\ got' = [got EXCEPT ![d] = Append(@, queue[MASK(consumer[d])])]
  /\ queue' = [queue EXCEPT ![MASK(consumer[d])] = nil]
  /\ UNCHANGED <<producer, consumer, lock, quiet, sent, strain>>

BrokenTaken(d) ==                                      \* counter not advanced
  /\ Step(Receiver(d), "taken", "ready")
  /\ UNCHANGED <<queue, producer, consumer, lock, quiet, history>>

BrokenCounterTaken(d) ==                               \* the other direction's
  /\ Step(Receiver(d), "taken", "ready")
  /\ consumer' = Advance(consumer, CHOOSE e \in Directions : e # d)
  /\ UNCHANGED <<queue, producer, lock, quiet, history>>

Taken(d) ==
  /\ Step(Receiver(d), "taken", "ready")
  /\ consumer' = Advance(consumer, d)
  /\ UNCHANGED <<queue, producer, lock, quiet, history>>

-------------------------------------------------------------------------------
(* Polling                                                                 *)

PollForRequest ==
  /\ Step("responder", "ready", IF ISEMPTY("request") THEN "ready" ELSE "take")
  /\ UNCHANGED <<queue, producer, consumer, lock, quiet, history>>

(* A reply that waits is taken; if none waits and the ring is not full,    *)
(* nil is returned; if the ring is full, the caller blocks in nextReply.   *)
isPipeFull == ISFULL(producer["request"], consumer["reply"])
ReplyWaits == consumer["reply"] < producer["reply"]

PollForReply ==
  /\ Step("requester", "ready", IF ReplyWaits THEN "take"
                                ELSE IF isPipeFull THEN "remove" ELSE "ready")
  /\ polledNil' = (~ReplyWaits /\ ~isPipeFull)
  /\ UNCHANGED <<queue, producer, consumer, lock, disconnect, history>>

-------------------------------------------------------------------------------
(* disconnect: the flag, and a broadcast on each condition, without its    *)
(* lock.                                                                   *)
Disconnect(e) ==
  /\ MayDisconnect
  /\ Step(e, "ready", "broadcastRequest")
  /\ disconnect' = TRUE
  /\ UNCHANGED <<queue, producer, consumer, lock, polledNil, history>>

BroadcastRequest(e) ==
  /\ pc[e] = "broadcastRequest"
  /\ pc' = WakeReceiver("request", [pc EXCEPT ![e] = "broadcastReply"])
  /\ UNCHANGED <<queue, producer, consumer, lock, quiet, history>>

BroadcastReply(e) ==
  /\ pc[e] = "broadcastReply"
  /\ pc' = WakeReceiver("reply", [pc EXCEPT ![e] = "ready"])
  /\ UNCHANGED <<queue, producer, consumer, lock, quiet, history>>

(* Another pipe with the same request condition signals it.                *)
OtherPipeSignals ==
  /\ SharedCondition
  /\ Step("responder", "waiting", "woken")
  /\ UNCHANGED <<queue, producer, consumer, lock, quiet, history>>

-------------------------------------------------------------------------------
Init == /\ queue = [i \in 0 .. RING_BUFFER_SIZE - 1 |-> nil]
        /\ producer = [d \in Directions |-> 0]
        /\ consumer = [d \in Directions |-> 0]
        /\ lock = [d \in Directions |-> "none"]
        /\ disconnect = FALSE
        /\ pc = [e \in Ends |-> "ready"]
        /\ polledNil = FALSE
        /\ sent = [d \in Directions |-> <<>>]
        /\ got = [d \in Directions |-> <<>>]
        /\ strain = {}

(* Once a call has begun it runs to its end.                               *)
Inserting(d) == \/ Spin(d) \/ Insert(d) \/ Publish(d)
                \/ TestSignal(d) \/ SignalLock(d) \/ Signal(d)
Removing(d)  == \/ TestEmpty(d) \/ TestDisconnect(d) \/ Lock(d)
                \/ WaitOrUnlock(d) \/ Woken(d) \/ Take(d) \/ Taken(d)
Disconnecting(e) == BroadcastRequest(e) \/ BroadcastReply(e)

Next == \/ SendRequest \/ SendReply \/ PollForRequest \/ PollForReply
        \/ \E d \in Directions : Next_(d) \/ Inserting(d) \/ Removing(d)
        \/ \E e \in Ends : Disconnect(e) \/ Disconnecting(e)
        \/ OtherPipeSignals

(* Both threads are scheduled.  A responder goes on taking requests and    *)
(* replying; a requester goes on polling, and sends when it may.           *)
Fairness ==
  /\ \A d \in Directions : /\ WF_vars(Inserting(d))
                           /\ WF_vars(Removing(d))
  /\ \A e \in Ends : WF_vars(Disconnecting(e))
  /\ SF_vars(SendReply) /\ SF_vars(PollForRequest) /\ SF_vars(PollForReply)

Spec     == Init /\ [][Next]_vars
FairSpec == Spec /\ Fairness

-------------------------------------------------------------------------------
Objects == (Directions \X Nat) \union {nil}
Pcs == {"ready", "insert", "publish", "published", "signalLock", "signal",
        "remove", "testDisconnect", "lock", "locked", "waiting", "woken",
        "take", "taken", "broadcastRequest", "broadcastReply"}
TypeOK ==
  /\ queue \in [0 .. RING_BUFFER_SIZE - 1 -> Objects]
  /\ producer \in [Directions -> 0 .. COUNTER_MOD - 1]
  /\ consumer \in [Directions -> 0 .. COUNTER_MOD - 1]
  /\ lock \in [Directions -> Ends \union {"none"}]
  /\ {disconnect, polledNil} \subseteq BOOLEAN /\ strain \subseteq {"late", "overrun"}
  /\ pc \in [Ends -> Pcs]
  /\ {sent, got} \subseteq [Directions -> Seq(Objects)]

(* The ring is cut in four arcs (ETObjectPipe.h:19-26): requests waiting,  *)
(* slots of requests taken and not replied to, replies waiting, and free   *)
(* slots.  The counters never pass each other, as long as nothing strains it.      *)
Arcs ==
  strain = {} =>
  LET waitingRequests == Used(producer["request"], consumer["request"])
      beingServed     == Used(consumer["request"], producer["reply"])
      waitingReplies  == Used(producer["reply"], consumer["reply"])
  IN  waitingRequests + beingServed + waitingReplies <= RING_BUFFER_SIZE

(* sendRequest, nextRequest, sendReply, nextReply: what was sent in one    *)
(* direction is received in that direction, in order, once, as long as     *)
(* nothing strains the pipe.                                               *)
InOrderUnstrained == strain = {} => \A d \in Directions : IsPrefix(got[d], sent[d])

(* The same, as ETObjectPipe.h:57 says it, with no exception.              *)
InOrder == \A d \in Directions : IsPrefix(got[d], sent[d])

(* INSERT's comment (lines 62-63), "Check that there is space in the       *)
(* buffer": an object that nobody has taken is not overwritten, as long as *)
(* nothing strains the pipe.                                               *)
NothingOverwritten ==
  [][\A i \in DOMAIN queue : strain = {} /\ queue[i] # nil /\ queue'[i] # queue[i]
                             => queue'[i] = nil]_vars

(* REMOVE's comment (lines 98-102): an end asleep while an object waits is *)
(* about to be signalled.                                                  *)
NoLostWakeup ==
  \A d \in Directions :
    pc[Receiver(d)] = "waiting" /\ ~ISEMPTY(d) =>
      pc[Sender(d)] \in {"published", "signalLock", "signal"}

(* ETObjectPipe.h:13, "Every request must have corresponding reply sent":  *)
(* a requester that keeps polling gets the reply of every request.         *)
EveryRequestAnswered ==
  \A n \in 1 .. MaxRequests :
    Len(sent["request"]) >= n ~> Len(got["reply"]) >= n

(* ETObjectPipe.h:65, "Returns the next reply if there is one waiting".    *)
PollFindsReply ==
  [][polledNil' /\ ~polledNil => ISEMPTY("reply")]_vars

(* ETObjectPipe.h:42-43, disconnect "prevents either end from blocking     *)
(* waiting for data that will never arrive".                               *)
DisconnectUnblocks ==
  \A e \in Ends : (disconnect /\ pc[e] = "waiting") ~> pc[e] # "waiting"
===============================================================================
