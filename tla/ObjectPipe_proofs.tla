-------------------------- MODULE ObjectPipe_proofs --------------------------
(***************************************************************************)
(* Proofs about ObjectPipe, for every size of the ring, every width of the *)
(* counters and every number of requests, whichever ends block, whoever    *)
(* shares the condition and whenever an end disconnects.                   *)
(***************************************************************************)
EXTENDS ObjectPipe, TLAPS

-------------------------------------------------------------------------------
(* Arithmetic of the counters.                                             *)

LEMMA Constants ==
  /\ RING_BUFFER_SIZE \in Nat \ {0} /\ COUNTER_MOD \in Nat \ {0, 1}
  /\ MaxRequests \in Nat
BY PipeAssumption

LEMMA ModRange == \A i \in Int, n \in Nat \ {0} : i % n \in 0 .. n - 1
OBVIOUS

(* A counter keeps to its width, and MASK gives a slot of the ring.        *)
LEMMA CounterType ==
  /\ \A c \in 0 .. COUNTER_MOD - 1 : (c + 1) % COUNTER_MOD \in 0 .. COUNTER_MOD - 1
  /\ \A c \in 0 .. COUNTER_MOD - 1 : MASK(c) \in 0 .. RING_BUFFER_SIZE - 1
BY Constants, ModRange DEF MASK

LEMMA SmallMod == \A n \in Nat \ {0} : \A r \in 0 .. n - 1 : r % n = r
<1> SUFFICES ASSUME NEW n \in Nat \ {0}, NEW r \in 0 .. n - 1
             PROVE  r % n = r
  OBVIOUS
<1>1. r \div n \in Int /\ r % n \in 0 .. n - 1 /\ r = n * (r \div n) + (r % n)
  OBVIOUS
<1>2. r \div n >= 1 => n * (r \div n) >= n
  BY <1>1
<1>3. r \div n <= -1 => n * (r \div n) <= -n
  BY <1>1
<1>4. QED
  BY <1>1, <1>2, <1>3

LEMMA NegativeMod == \A n \in Nat \ {0} : \A r \in 1 .. n - 1 : (-r) % n = n - r
OBVIOUS

LEMMA ModSelf == \A n \in Nat \ {0} : n % n = 0
OBVIOUS

(* Only equal counters use no slot.                                        *)
LEMMA UsedNone ==
  ASSUME NEW p \in 0 .. COUNTER_MOD - 1, NEW c \in 0 .. COUNTER_MOD - 1
  PROVE  Used(p, c) = 0 <=> p = c
<1>1. CASE p >= c
  <2>1. p - c \in 0 .. COUNTER_MOD - 1
    BY <1>1, Constants
  <2>2. Used(p, c) = p - c
    BY <2>1, Constants, SmallMod DEF Used
  <2>3. QED
    BY <2>2, Constants
<1>2. CASE p < c
  <2>1. c - p \in 1 .. COUNTER_MOD - 1 /\ p - c = -(c - p)
    BY <1>2, Constants
  <2>2. Used(p, c) = COUNTER_MOD - (c - p)
    BY <2>1, Constants, NegativeMod DEF Used
  <2>3. QED
    BY <2>1, <2>2, Constants
<1>3. QED
  BY <1>1, <1>2, Constants

(* A producer that leaves its consumer behind leaves it by one.            *)
LEMMA UsedOne ==
  ASSUME NEW c \in 0 .. COUNTER_MOD - 1
  PROVE  Used((c + 1) % COUNTER_MOD, c) = 1
<1>1. CASE c + 1 < COUNTER_MOD
  <2>1. (c + 1) % COUNTER_MOD = c + 1
    BY <1>1, Constants, SmallMod
  <2>2. (c + 1) - c = 1 /\ 1 \in 0 .. COUNTER_MOD - 1
    BY Constants
  <2>3. QED
    BY <2>1, <2>2, Constants, SmallMod DEF Used
<1>2. CASE c + 1 = COUNTER_MOD
  <2>1. (c + 1) % COUNTER_MOD = 0
    BY <1>2, Constants, ModSelf
  <2>2. 0 - c = -c /\ COUNTER_MOD - c = 1
    BY <1>2, Constants
  <2>3. c \in 1 .. COUNTER_MOD - 1
    BY <1>2, Constants
  <2>4. (-c) % COUNTER_MOD = 1
    BY <2>2, <2>3, Constants, NegativeMod
  <2>5. QED
    BY <2>1, <2>2, <2>4 DEF Used
<1>3. QED
  BY <1>1, <1>2, Constants

-------------------------------------------------------------------------------
(* Types.                                                                  *)

LEMMA EndsOf ==
  \A d \in Directions : Sender(d) \in Ends /\ Receiver(d) \in Ends /\ Sender(d) # Receiver(d)
BY DEF Directions, Ends, Sender, Receiver

LEMMA TypeInit == Init => TypeOK
<1> SUFFICES ASSUME Init PROVE TypeOK
  OBVIOUS
<1>1. queue \in [0 .. RING_BUFFER_SIZE - 1 -> Objects] /\ strain \subseteq {"late", "overrun"}
  BY DEF Init, Objects
<1>2. producer \in [Directions -> 0 .. COUNTER_MOD - 1] /\ consumer \in [Directions -> 0 .. COUNTER_MOD - 1]
  BY Constants DEF Init
<1>3. lock \in [Directions -> Ends \union {"none"}] /\ pc \in [Ends -> Pcs]
  BY DEF Init, Pcs
<1>4. {sent, got} \subseteq [Directions -> Seq(Objects)]
  BY DEF Init
<1>5. QED
  BY <1>1, <1>2, <1>3, <1>4 DEF TypeOK, Init

(* What a step does to pc: an end goes on, and may wake another one.       *)
LEMMA WakeType ==
  ASSUME NEW d \in Directions, NEW pcs \in [Ends -> Pcs]
  PROVE  WakeReceiver(d, pcs) \in [Ends -> Pcs]
BY DEF WakeReceiver, Pcs

LEMMA TypeNext == TypeOK /\ [Next]_vars => TypeOK'
<1> SUFFICES ASSUME TypeOK, [Next]_vars PROVE TypeOK'
  OBVIOUS
<1> USE DEF TypeOK, Step, quiet, history, Pcs
<1>1. CASE SendRequest
  BY <1>1 DEF SendRequest, Ends
<1>2. CASE SendReply
  BY <1>2 DEF SendReply, Ends
<1>3. CASE PollForRequest
  BY <1>3 DEF PollForRequest, Ends
<1>4. CASE PollForReply
  BY <1>4 DEF PollForReply, Ends
<1>5. CASE OtherPipeSignals
  BY <1>5 DEF OtherPipeSignals, Ends
<1>6. ASSUME NEW d \in Directions, Next_(d) \/ TestEmpty(d) \/ TestDisconnect(d)
                                      \/ Lock(d) \/ WaitOrUnlock(d) \/ Woken(d)
      PROVE  TypeOK'
  <2>1. \A to \in Pcs : [pc EXCEPT ![Receiver(d)] = to] \in [Ends -> Pcs]
    OBVIOUS
  <2>2. pc' \in [Ends -> Pcs]
    BY <1>6, <2>1 DEF Next_, TestEmpty, TestDisconnect, Lock, WaitOrUnlock, Woken
  <2>3. \A e \in Ends \union {"none"} :
          [lock EXCEPT ![d] = e] \in [Directions -> Ends \union {"none"}]
    OBVIOUS
  <2>4. lock' \in [Directions -> Ends \union {"none"}]
    <3>1. lock' = lock \/ \E e \in Ends \union {"none"} : lock' = [lock EXCEPT ![d] = e]
      BY <1>6, EndsOf DEF Next_, TestEmpty, TestDisconnect, Lock, WaitOrUnlock, Woken
    <3>2. QED
      BY <2>3, <3>1
  <2>5. strain' \subseteq {"late", "overrun"}
    BY <1>6 DEF Next_, TestEmpty, TestDisconnect, Lock, WaitOrUnlock, Woken
  <2>6. UNCHANGED <<queue, producer, consumer, quiet, sent, got>>
    BY <1>6 DEF Next_, TestEmpty, TestDisconnect, Lock, WaitOrUnlock, Woken
  <2>7. QED
    BY <2>2, <2>4, <2>5, <2>6
<1>7. ASSUME NEW d \in Directions, Spin(d)
      PROVE  TypeOK'
  BY <1>7, WakeType DEF Spin
<1>8. ASSUME NEW d \in Directions, Insert(d)
      PROVE  TypeOK'
  <2>1. PICK x \in Object(d) : /\ queue' = [queue EXCEPT ![MASK(producer[d])] = x]
                               /\ sent' = [sent EXCEPT ![d] = Append(@, x)]
    BY <1>8 DEF Insert
  <2>2. x \in Objects
    <3>1. Len(sent[d]) + 1 \in Nat
      OBVIOUS
    <3>2. QED
      BY <2>1, <3>1 DEF Object, Objects
  <2>3. Append(sent[d], x) \in Seq(Objects)
    BY <2>2
  <2>4. queue' \in [0 .. RING_BUFFER_SIZE - 1 -> Objects]
    BY <2>1, <2>2
  <2>5. sent' \in [Directions -> Seq(Objects)]
    BY <2>1, <2>3
  <2>6. QED
    BY <1>8, <2>4, <2>5, EndsOf DEF Insert
<1>9. ASSUME NEW d \in Directions, Publish(d)
      PROVE  TypeOK'
  <2>1. producer' \in [Directions -> 0 .. COUNTER_MOD - 1]
    BY <1>9, CounterType DEF Publish, Advance
  <2>2. pc' \in [Ends -> Pcs]
    BY <1>9, EndsOf DEF Publish
  <2>3. QED
    BY <1>9, <2>1, <2>2 DEF Publish
<1>10. ASSUME NEW d \in Directions, TestSignal(d) \/ SignalLock(d)
       PROVE  TypeOK'
  <2>1. CASE TestSignal(d)
    <3>1. pc' \in [Ends -> Pcs]
      BY <2>1, EndsOf DEF TestSignal
    <3>2. QED
      BY <2>1, <3>1 DEF TestSignal
  <2>2. CASE SignalLock(d)
    <3>1. pc' \in [Ends -> Pcs]
      BY <2>2, EndsOf DEF SignalLock
    <3>2. lock' \in [Directions -> Ends \union {"none"}]
      BY <2>2, EndsOf DEF SignalLock
    <3>3. QED
      BY <2>2, <3>1, <3>2 DEF SignalLock
  <2>3. QED
    BY <1>10, <2>1, <2>2
<1>11. ASSUME NEW d \in Directions, Signal(d)
       PROVE  TypeOK'
  <2>1. [pc EXCEPT ![Sender(d)] = "ready"] \in [Ends -> Pcs]
    BY EndsOf
  <2>2. pc' \in [Ends -> Pcs]
    BY <1>11, <2>1, WakeType DEF Signal
  <2>3. QED
    BY <1>11, <2>2 DEF Signal
<1>12. ASSUME NEW d \in Directions, Take(d)
       PROVE  TypeOK'
  <2>1. queue[MASK(consumer[d])] \in Objects /\ nil \in Objects
    BY CounterType DEF Objects
  <2>2. Append(got[d], queue[MASK(consumer[d])]) \in Seq(Objects)
    BY <2>1
  <2>3. queue' \in [0 .. RING_BUFFER_SIZE - 1 -> Objects]
    BY <1>12, <2>1 DEF Take
  <2>4. got' \in [Directions -> Seq(Objects)]
    BY <1>12, <2>2 DEF Take
  <2>5. QED
    BY <1>12, <2>3, <2>4, EndsOf DEF Take
<1>13. ASSUME NEW d \in Directions, Taken(d)
       PROVE  TypeOK'
  <2>1. consumer' \in [Directions -> 0 .. COUNTER_MOD - 1]
    BY <1>13, CounterType DEF Taken, Advance
  <2>2. pc' \in [Ends -> Pcs]
    BY <1>13, EndsOf DEF Taken
  <2>3. QED
    BY <1>13, <2>1, <2>2 DEF Taken
<1>14. ASSUME NEW e \in Ends, Disconnect(e)
       PROVE  TypeOK'
  BY <1>14 DEF Disconnect
<1>15. ASSUME NEW e \in Ends, BroadcastRequest(e)
       PROVE  TypeOK'
  <2>1. [pc EXCEPT ![e] = "broadcastReply"] \in [Ends -> Pcs]
    OBVIOUS
  <2>2. QED
    BY <1>15, <2>1, WakeType DEF BroadcastRequest, Directions
<1>16. ASSUME NEW e \in Ends, BroadcastReply(e)
       PROVE  TypeOK'
  <2>1. [pc EXCEPT ![e] = "ready"] \in [Ends -> Pcs]
    OBVIOUS
  <2>2. QED
    BY <1>16, <2>1, WakeType DEF BroadcastReply, Directions
<1>17. CASE UNCHANGED vars
  BY <1>17 DEF vars
<1>18. QED
  BY <1>1, <1>2, <1>3, <1>4, <1>5, <1>6, <1>7, <1>8, <1>9, <1>10, <1>11, <1>12, <1>13,
     <1>14, <1>15, <1>16, <1>17
  DEF Next, Inserting, Removing, Disconnecting

(* The ring holds objects and nil, the counters keep to their width, and   *)
(* every end is in one of the steps of INSERT, REMOVE or disconnect.       *)
THEOREM TypeCorrect == Spec => []TypeOK
BY TypeInit, TypeNext, PTL DEF Spec
-------------------------------------------------------------------------------
(* Wakeups.                                                                *)

(* What an end asleep over an object it could take is promised: the sender *)
(* is on its way to the signal, or has yet to see that it is to signal.    *)
Promised(d) ==
  pc[Receiver(d)] = "waiting" /\ ~ISEMPTY(d) =>
    \/ pc[Sender(d)] \in {"signalLock", "signal"}
    \/ pc[Sender(d)] = "published" /\ Used(producer[d], consumer[d]) = 1

Wakeups == \A d \in Directions : Promised(d)

LEMMA WakeupsImply == Wakeups => NoLostWakeup
BY DEF Wakeups, Promised, NoLostWakeup

(* A step that leaves the counters of d, the receiver asleep only if it    *)
(* was, and the sender where it was or in no step that matters, keeps the  *)
(* promise.                                                                *)
LEMMA PromiseKept ==
  ASSUME NEW d \in Directions, Promised(d),
         producer'[d] = producer[d], consumer'[d] = consumer[d],
         pc'[Receiver(d)] = "waiting" => pc[Receiver(d)] = "waiting",
         \/ pc'[Sender(d)] = pc[Sender(d)]
         \/ pc[Sender(d)] \notin {"published", "signalLock", "signal"}
         \/ pc'[Receiver(d)] # "waiting"
  PROVE  Promised(d)'
BY DEF Promised, ISEMPTY

LEMMA WakeupsNext == TypeOK /\ Wakeups /\ [Next]_vars => Wakeups'
<1> SUFFICES ASSUME TypeOK, Wakeups, [Next]_vars, NEW d \in Directions
             PROVE  Promised(d)'
  BY DEF Wakeups
<1>0. /\ Promised(d) /\ pc \in [Ends -> Pcs]
      /\ producer \in [Directions -> 0 .. COUNTER_MOD - 1]
      /\ consumer \in [Directions -> 0 .. COUNTER_MOD - 1]
  BY DEF Wakeups, TypeOK
<1>a. Sender(d) \in Ends /\ Receiver(d) \in Ends /\ Sender(d) # Receiver(d)
  BY EndsOf
<1>b. \A c \in Directions : c # d => Sender(c) = Receiver(d) /\ Receiver(c) = Sender(d)
  BY DEF Directions, Sender, Receiver
<1>c. \A e \in Ends : e = Sender(d) \/ e = Receiver(d)
  BY DEF Ends, Directions, Sender, Receiver
<1>1. CASE SendRequest
  BY <1>0, <1>1, <1>a, <1>c, PromiseKept DEF SendRequest, Step, Ends
<1>2. CASE SendReply
  BY <1>0, <1>2, <1>a, <1>c, PromiseKept DEF SendReply, Step, Ends
<1>3. CASE PollForRequest
  BY <1>0, <1>3, <1>a, <1>c, PromiseKept DEF PollForRequest, Step, Ends
<1>4. CASE PollForReply
  BY <1>0, <1>4, <1>a, <1>c, PromiseKept DEF PollForReply, Step, Ends
<1>5. CASE OtherPipeSignals
  BY <1>0, <1>5, <1>a, <1>c, PromiseKept DEF OtherPipeSignals, Step, Ends
<1>6. ASSUME NEW c \in Directions, Next_(c) \/ TestEmpty(c) \/ TestDisconnect(c) \/ Lock(c) \/ Woken(c)
      PROVE  Promised(d)'
  BY <1>0, <1>6, <1>a, <1>b, PromiseKept DEF Next_, TestEmpty, TestDisconnect, Lock, Woken, Step
<1>7. ASSUME NEW c \in Directions, WaitOrUnlock(c)
      PROVE  Promised(d)'
  <2>1. CASE c = d
    BY <1>0, <1>7, <1>a, <2>1 DEF WaitOrUnlock, Step, Promised, ISEMPTY
  <2>2. CASE c # d
    BY <1>0, <1>7, <1>a, <1>b, <2>2, PromiseKept DEF WaitOrUnlock, Step
  <2>3. QED
    BY <2>1, <2>2
<1>8. ASSUME NEW c \in Directions, Take(c) \/ Insert(c)
      PROVE  Promised(d)'
  BY <1>0, <1>8, <1>a, <1>b, EndsOf, PromiseKept DEF Take, Insert, Step
<1>9. ASSUME NEW c \in Directions, Taken(c)
      PROVE  Promised(d)'
  <2>1. CASE c = d
    BY <1>0, <1>9, <1>a, <2>1 DEF Taken, Step, Promised
  <2>2. CASE c # d
    BY <1>0, <1>9, <1>a, <1>b, <2>2, PromiseKept DEF Taken, Advance, Step
  <2>3. QED
    BY <2>1, <2>2
<1>10. ASSUME NEW c \in Directions, Publish(c)
       PROVE  Promised(d)'
  <2>1. CASE c = d
    <3>1. pc[Sender(d)] = "publish" /\ pc'[Sender(d)] = "published" /\ pc'[Receiver(d)] = pc[Receiver(d)]
      BY <1>0, <1>10, <1>a, <2>1 DEF Publish, Step
    <3>2. producer'[d] = (producer[d] + 1) % COUNTER_MOD /\ consumer'[d] = consumer[d]
      BY <1>0, <1>10, <2>1 DEF Publish, Advance
    <3>3. CASE pc[Receiver(d)] = "waiting"
      <4>1. Used(producer[d], consumer[d]) = 0
        BY <1>0, <3>1, <3>3 DEF Promised, ISEMPTY
      <4>2. producer[d] = consumer[d]
        BY <1>0, <4>1, UsedNone
      <4>3. Used(producer'[d], consumer'[d]) = 1
        BY <1>0, <3>2, <4>2, UsedOne
      <4>4. QED
        BY <3>1, <4>3 DEF Promised
    <3>4. CASE pc[Receiver(d)] # "waiting"
      BY <3>1, <3>4 DEF Promised
    <3>5. QED
      BY <3>3, <3>4
  <2>2. CASE c # d
    BY <1>0, <1>10, <1>a, <1>b, <2>2, PromiseKept DEF Publish, Advance, Step
  <2>3. QED
    BY <2>1, <2>2
<1>11. ASSUME NEW c \in Directions, TestSignal(c)
       PROVE  Promised(d)'
  <2>1. CASE c = d
    BY <1>0, <1>11, <1>a, <2>1 DEF TestSignal, Step, Promised, ISEMPTY
  <2>2. CASE c # d
    BY <1>0, <1>11, <1>a, <1>b, <2>2, PromiseKept DEF TestSignal, Step
  <2>3. QED
    BY <2>1, <2>2
<1>12. ASSUME NEW c \in Directions, SignalLock(c)
       PROVE  Promised(d)'
  <2>1. CASE c = d
    BY <1>0, <1>12, <1>a, <2>1 DEF SignalLock, Step, Promised, ISEMPTY
  <2>2. CASE c # d
    BY <1>0, <1>12, <1>a, <1>b, <2>2, PromiseKept DEF SignalLock, Step
  <2>3. QED
    BY <2>1, <2>2
<1>13. ASSUME NEW c \in Directions, Signal(c)
       PROVE  Promised(d)'
  <2>1. CASE c = d
    <3>1. pc'[Receiver(d)] # "waiting"
      BY <1>0, <1>13, <1>a, <2>1 DEF Signal, WakeReceiver
    <3>2. QED
      BY <3>1 DEF Promised
  <2>2. CASE c # d
    <3>1. pc'[Receiver(d)] = "ready"
      BY <1>0, <1>13, <1>a, <1>b, <2>2 DEF Signal, WakeReceiver
    <3>2. QED
      BY <3>1 DEF Promised
  <2>3. QED
    BY <2>1, <2>2
<1>14. ASSUME NEW c \in Directions, Spin(c)
       PROVE  Promised(d)'
  <2>1. CASE c = d
    <3>1. pc'[Receiver(d)] # "waiting"
      BY <1>0, <1>14, <1>a, <2>1 DEF Spin, WakeReceiver
    <3>2. QED
      BY <3>1 DEF Promised
  <2>2. CASE c # d
    <3>1. pc'[Receiver(d)] = "insert"
      BY <1>0, <1>14, <1>a, <1>b, <2>2 DEF Spin, WakeReceiver
    <3>2. QED
      BY <3>1 DEF Promised
  <2>3. QED
    BY <2>1, <2>2
<1>15. ASSUME NEW e \in Ends, Disconnect(e)
       PROVE  Promised(d)'
  BY <1>0, <1>15, <1>a, <1>c, PromiseKept DEF Disconnect, Step
<1>16. ASSUME NEW e \in Ends, BroadcastRequest(e) \/ BroadcastReply(e)
       PROVE  Promised(d)'
  <2>1. \A f \in Ends : pc'[f] = "waiting" => pc[f] = "waiting"
    BY <1>0, <1>16 DEF BroadcastRequest, BroadcastReply, WakeReceiver, Ends
  <2>2. \A f \in Ends : pc[f] \in {"published", "signalLock", "signal"} => pc'[f] = pc[f]
    BY <1>0, <1>16 DEF BroadcastRequest, BroadcastReply, WakeReceiver, Ends
  <2>3. producer' = producer /\ consumer' = consumer
    BY <1>16 DEF BroadcastRequest, BroadcastReply
  <2>4. QED
    BY <1>0, <1>a, <2>1, <2>2, <2>3, PromiseKept
<1>17. CASE UNCHANGED vars
  BY <1>0, <1>17, PromiseKept DEF vars
<1>18. QED
  BY <1>1, <1>2, <1>3, <1>4, <1>5, <1>6, <1>7, <1>8, <1>9, <1>10, <1>11, <1>12, <1>13,
     <1>14, <1>15, <1>16, <1>17
  DEF Next, Inserting, Removing, Disconnecting

(* An end never sleeps over an object nobody is about to signal, though    *)
(* INSERT decides to signal from a count it reads without the lock.        *)
THEOREM WakeupCorrect == Spec => []NoLostWakeup
<1>1. Init => Wakeups
  BY EndsOf DEF Init, Wakeups, Promised
<1>2. QED
  BY <1>1, TypeInit, TypeNext, WakeupsNext, WakeupsImply, PTL DEF Spec

-------------------------------------------------------------------------------
(* More arithmetic: Euclid's division, and what the width of the counters  *)
(* and the size of the ring make of the numbers of objects.                *)

LEMMA DivMod ==
  \A x \in Int, n \in Nat \ {0} :
    /\ x \div n \in Int /\ x % n \in 0 .. n - 1
    /\ x = n * (x \div n) + (x % n)
OBVIOUS

LEMMA ModUnique ==
  ASSUME NEW n \in Nat \ {0}, NEW q \in Int, NEW r \in 0 .. n - 1,
         NEW x \in Int, x = n * q + r
  PROVE  x % n = r
<1> DEFINE p == x \div n
<1>1. p \in Int /\ x % n \in 0 .. n - 1 /\ x = n * p + (x % n)
  BY DivMod
<1>2. n * (p - q) \in -n + 1 .. n - 1
  BY <1>1
<1>3. p - q >= 1 => n * (p - q) >= n
  BY <1>1
<1>4. p - q <= -1 => n * (p - q) <= -n
  BY <1>1
<1>5. p = q
  BY <1>1, <1>2, <1>3, <1>4
<1>6. QED
  BY <1>1, <1>5

LEMMA ModPlus ==
  ASSUME NEW x \in Int, NEW n \in Nat \ {0}, NEW k \in Int
  PROVE  (x + n * k) % n = x % n
<1> DEFINE d == x \div n
           r == x % n
<1>1. d \in Int /\ r \in 0 .. n - 1 /\ x = n * d + r
  BY DivMod
<1>2. x + n * k = n * (d + k) + r /\ d + k \in Int /\ x + n * k \in Int
  BY <1>1
<1> HIDE DEF d, r
<1>3. (x + n * k) % n = r
  BY <1>1, <1>2, ModUnique
<1>4. QED
  BY <1>3 DEF r

LEMMA ModDiffer ==
  ASSUME NEW a \in Int, NEW b \in Int, NEW n \in Nat \ {0}, a - b \in 1 .. n - 1
  PROVE  a % n # b % n
<1> SUFFICES ASSUME a % n = b % n PROVE FALSE
  OBVIOUS
<1> DEFINE d == a \div n
           e == b \div n
<1>1. d \in Int /\ e \in Int /\ a = n * d + (a % n) /\ b = n * e + (b % n)
  BY DivMod
<1> HIDE DEF d, e
<1>2. a - b = n * (d - e)
  BY <1>1
<1>3. d - e <= 0 => n * (d - e) <= 0
  BY <1>1
<1>4. d - e >= 1 => n * (d - e) >= n
  BY <1>1
<1>5. QED
  BY <1>1, <1>2, <1>3, <1>4

(* A counter that is advanced is the number of objects, one more, up to    *)
(* its width.                                                              *)
LEMMA NextCount ==
  ASSUME NEW x \in Nat
  PROVE  ((x % COUNTER_MOD) + 1) % COUNTER_MOD = (x + 1) % COUNTER_MOD
<1> DEFINE q == x \div COUNTER_MOD
           y == (x % COUNTER_MOD) + 1
<1>1. COUNTER_MOD \in Nat \ {0}
  BY Constants
<1>2. q \in Int /\ y \in Int /\ x + 1 = y + COUNTER_MOD * q
  BY <1>1, DivMod
<1> HIDE DEF q, y
<1>3. (y + COUNTER_MOD * q) % COUNTER_MOD = y % COUNTER_MOD
  BY ONLY <1>1, <1>2, ModPlus
<1>4. (x + 1) % COUNTER_MOD = y % COUNTER_MOD
  BY <1>2, <1>3
<1>5. QED
  BY <1>4 DEF y

(* The width of the counters is a multiple of the size of the ring: the    *)
(* slot of a counter is the slot of the number of objects.                 *)
LEMMA MaskCount ==
  ASSUME NEW x \in Nat
  PROVE  MASK(x % COUNTER_MOD) = MASK(x)
<1> DEFINE q == x \div COUNTER_MOD
           r == x % COUNTER_MOD
           g == COUNTER_MOD \div RING_BUFFER_SIZE
<1>1. COUNTER_MOD \in Nat \ {0} /\ RING_BUFFER_SIZE \in Nat \ {0}
  BY Constants
<1>2. q \in Int /\ r \in Int /\ x = r + COUNTER_MOD * q
  BY <1>1, DivMod
<1>3. g \in Int /\ COUNTER_MOD = RING_BUFFER_SIZE * g
  <2>1. COUNTER_MOD = RING_BUFFER_SIZE * g + (COUNTER_MOD % RING_BUFFER_SIZE) /\ g \in Int
    BY <1>1, DivMod
  <2>2. QED
    BY <2>1, PipeAssumption
<1> HIDE DEF q, r, g
<1>4. COUNTER_MOD * q = RING_BUFFER_SIZE * (g * q) /\ g * q \in Int
  BY <1>1, <1>2, <1>3
<1>5. (r + RING_BUFFER_SIZE * (g * q)) % RING_BUFFER_SIZE = r % RING_BUFFER_SIZE
  BY ONLY <1>1, <1>2, <1>4, ModPlus
<1>6. x % RING_BUFFER_SIZE = r % RING_BUFFER_SIZE
  BY ONLY <1>2, <1>4, <1>5
<1>7. QED
  BY <1>6 DEF r, MASK

(* Two counters tell how many objects are between them, when they are no   *)
(* more than the slots.                                                    *)
LEMMA UsedCount ==
  ASSUME NEW x \in Nat, NEW y \in Nat, x - y \in 0 .. RING_BUFFER_SIZE
  PROVE  Used(x % COUNTER_MOD, y % COUNTER_MOD) = x - y
<1> DEFINE p == x \div COUNTER_MOD
           q == y \div COUNTER_MOD
           r == x % COUNTER_MOD
           s == y % COUNTER_MOD
<1>1. COUNTER_MOD \in Nat \ {0} /\ x - y \in 0 .. COUNTER_MOD - 1
  BY Constants, PipeAssumption
<1>2. /\ p \in Int /\ q \in Int /\ r \in Int /\ s \in Int
      /\ x = COUNTER_MOD * p + r /\ y = COUNTER_MOD * q + s
  BY <1>1, DivMod
<1> HIDE DEF p, q, r, s
<1> DEFINE u == x - y
           v == r - s
           k == q - p
<1>3. v = COUNTER_MOD * k + u /\ k \in Int /\ v \in Int /\ u \in 0 .. COUNTER_MOD - 1
  BY <1>1, <1>2
<1> HIDE DEF u, v, k
<1>4. v % COUNTER_MOD = u
  BY ONLY <1>1, <1>3, ModUnique
<1>5. QED
  BY <1>4 DEF Used, r, s, u, v

LEMMA MaskType == \A i \in Nat : MASK(i) \in 0 .. RING_BUFFER_SIZE - 1
BY Constants, ModRange DEF MASK

(* Indexes less than a ring apart have slots of their own.                 *)
LEMMA SlotsDiffer ==
  ASSUME NEW n \in Nat, NEW i \in n .. n + RING_BUFFER_SIZE - 1,
         NEW j \in n .. n + RING_BUFFER_SIZE - 1, i # j
  PROVE  MASK(i) # MASK(j)
<1>1. RING_BUFFER_SIZE \in Nat \ {0} /\ i \in Int /\ j \in Int
  BY Constants
<1>2. CASE i > j
  <2>1. i - j \in 1 .. RING_BUFFER_SIZE - 1
    BY <1>1, <1>2
  <2>2. QED
    BY ONLY <1>1, <2>1, ModDiffer DEF MASK
<1>3. CASE i < j
  <2>1. j - i \in 1 .. RING_BUFFER_SIZE - 1
    BY <1>1, <1>3
  <2>2. QED
    BY ONLY <1>1, <2>1, ModDiffer DEF MASK
<1>4. QED
  BY <1>1, <1>2, <1>3

LEMMA SlotAgain ==
  ASSUME NEW n \in Nat
  PROVE  MASK(n + RING_BUFFER_SIZE) = MASK(n)
<1>1. RING_BUFFER_SIZE \in Nat \ {0} /\ n \in Int /\ 1 \in Int /\ RING_BUFFER_SIZE * 1 = RING_BUFFER_SIZE
  BY Constants
<1>2. (n + RING_BUFFER_SIZE * 1) % RING_BUFFER_SIZE = n % RING_BUFFER_SIZE
  BY ONLY <1>1, ModPlus
<1>3. QED
  BY <1>1, <1>2 DEF MASK

-------------------------------------------------------------------------------
(* The way of the objects.  The counters of a direction are those of the   *)
(* objects that have been published and of those that have been taken, up  *)
(* to their width.                                                         *)

Published(d) == Len(sent[d]) - (IF pc[Sender(d)] = "publish" THEN 1 ELSE 0)
Consumed(d)  == Len(got[d]) - (IF pc[Receiver(d)] = "taken" THEN 1 ELSE 0)

CountersInv ==
  \A d \in Directions :
    /\ Published(d) \in Nat /\ producer[d] = Published(d) % COUNTER_MOD
    /\ Consumed(d) \in Nat /\ consumer[d] = Consumed(d) % COUNTER_MOD

(* The arcs of the ring, as long as nothing strains the pipe: replies are  *)
(* taken once published, sent once their request has been taken, and so    *)
(* on round the ring.                                                      *)
ArcsInv ==
  /\ Len(got["reply"]) <= Published("reply")
  /\ Len(sent["reply"]) <= Consumed("request")
  /\ Len(got["request"]) <= Published("request")
  /\ Len(sent["request"]) <= Consumed("reply") + RING_BUFFER_SIZE
  /\ pc["responder"] = "insert" => Len(sent["reply"]) < Len(got["request"])
  /\ pc["requester"] = "insert" => Len(sent["request"]) < Len(got["reply"]) + RING_BUFFER_SIZE
  /\ \A d \in Directions : pc[Receiver(d)] = "take" => Len(got[d]) < Published(d)

(* What the slots hold, from the next reply to be taken on.                *)
Slot(i) ==
  IF i < Len(sent["reply"]) THEN sent["reply"][i + 1]
  ELSE IF i >= Len(got["request"]) /\ i < Len(sent["request"]) THEN sent["request"][i + 1]
  ELSE nil

RingInv ==
  \A i \in Len(got["reply"]) .. Len(got["reply"]) + RING_BUFFER_SIZE - 1 :
    queue[MASK(i)] = Slot(i)

GotInv ==
  \A d \in Directions : \A i \in 1 .. Len(got[d]) : got[d][i] = sent[d][i]

PipeInv == CountersInv /\ (strain = {} => ArcsInv /\ RingInv /\ GotInv)

-------------------------------------------------------------------------------
(* The steps that move objects or counters are four; the others only take  *)
(* an end from a place to another, to INSERT or to the removal of an       *)
(* object under the conditions the code tests there.                       *)

Moving(d) == Insert(d) \/ Publish(d) \/ Take(d) \/ Taken(d)

Goes ==
  /\ UNCHANGED <<queue, producer, consumer, sent, got>> /\ strain \subseteq strain'
  /\ \A e \in Ends : /\ pc'[e] = "publish" <=> pc[e] = "publish"
                     /\ pc'[e] = "taken" <=> pc[e] = "taken"
  /\ pc'["requester"] = "insert" =>
       pc["requester"] = "insert" \/ Unanswered < RING_BUFFER_SIZE \/ strain' # {}
  /\ pc'["responder"] = "insert" =>
       pc["responder"] = "insert" \/ Len(sent["reply"]) < Len(got["request"])
  /\ \A d \in Directions : pc'[Receiver(d)] = "take" =>
       pc[Receiver(d)] = "take" \/ ~ISEMPTY(d) \/ strain' # {}

(* Where the places that matter are left alone.                            *)
Places == {"insert", "publish", "take", "taken"}

LEMMA GoesElsewhere ==
  ASSUME UNCHANGED <<queue, producer, consumer, sent, got>>, strain \subseteq strain',
         \A e \in Ends : pc'[e] = pc[e] \/ (pc[e] \notin Places /\ pc'[e] \notin Places)
  PROVE  Goes
BY DEF Goes, Places, Ends, Directions, Receiver

LEMMA SendRequestGoes == TypeOK /\ SendRequest => Goes
<1> SUFFICES ASSUME TypeOK, SendRequest PROVE Goes
  OBVIOUS
<1>1. /\ pc["requester"] = "ready" /\ pc'["responder"] = pc["responder"]
      /\ pc'["requester"] = IF disconnect THEN "ready" ELSE "insert"
  BY DEF SendRequest, Step, TypeOK, Ends
<1>2. UNCHANGED <<queue, producer, consumer, sent, got>> /\ strain \subseteq strain'
  BY DEF SendRequest
<1>3. ~disconnect => Unanswered < RING_BUFFER_SIZE \/ strain' # {}
  <2>1. Unanswered \in Int /\ RING_BUFFER_SIZE \in Int
    BY Constants DEF Unanswered, TypeOK, Directions
  <2>2. ~disconnect /\ Unanswered >= RING_BUFFER_SIZE => "overrun" \in strain'
    BY DEF SendRequest
  <2>3. QED
    BY <2>1, <2>2
<1>4. QED
  BY <1>1, <1>2, <1>3 DEF Goes, Ends, Directions, Receiver

LEMMA SendReplyGoes == TypeOK /\ SendReply => Goes
<1> SUFFICES ASSUME TypeOK, SendReply PROVE Goes
  OBVIOUS
<1>1. /\ pc["responder"] = "ready" /\ pc'["requester"] = pc["requester"]
      /\ pc'["responder"] \in {"ready", "insert"}
  BY DEF SendReply, Step, TypeOK, Ends
<1>2. /\ UNCHANGED <<queue, producer, consumer, sent, got>> /\ strain \subseteq strain'
      /\ Len(sent["reply"]) < Len(got["request"])
  BY DEF SendReply, history
<1>3. QED
  BY <1>1, <1>2 DEF Goes, Ends, Directions, Receiver

LEMMA PollForRequestGoes == TypeOK /\ PollForRequest => Goes
<1> SUFFICES ASSUME TypeOK, PollForRequest PROVE Goes
  OBVIOUS
<1>1. /\ pc["responder"] = "ready" /\ pc'["requester"] = pc["requester"]
      /\ pc'["responder"] = IF ISEMPTY("request") THEN "ready" ELSE "take"
  BY DEF PollForRequest, Step, TypeOK, Ends
<1>2. UNCHANGED <<queue, producer, consumer, sent, got>> /\ strain \subseteq strain'
  BY DEF PollForRequest, history
<1>3. QED
  BY <1>1, <1>2 DEF Goes, Ends, Directions, Receiver

(* The comparison of pollForReply: a reply it sees is there.               *)
LEMMA PollForReplyGoes == TypeOK /\ PollForReply => Goes
<1> SUFFICES ASSUME TypeOK, PollForReply PROVE Goes
  OBVIOUS
<1>1. /\ pc["requester"] = "ready" /\ pc'["responder"] = pc["responder"]
      /\ pc'["requester"] \in {"ready", "remove", "take"}
      /\ pc'["requester"] = "take" => ReplyWaits
  BY DEF PollForReply, Step, TypeOK, Ends
<1>2. UNCHANGED <<queue, producer, consumer, sent, got>> /\ strain \subseteq strain'
  BY DEF PollForReply, history
<1>3. ReplyWaits => ~ISEMPTY("reply")
  <2>1. producer["reply"] \in 0 .. COUNTER_MOD - 1 /\ consumer["reply"] \in 0 .. COUNTER_MOD - 1
    BY DEF TypeOK, Directions
  <2>2. Used(producer["reply"], consumer["reply"]) = 0 <=> producer["reply"] = consumer["reply"]
    BY <2>1, UsedNone
  <2>3. QED
    BY <2>1, <2>2, Constants DEF ReplyWaits, ISEMPTY
<1>4. QED
  BY <1>1, <1>2, <1>3 DEF Goes, Ends, Directions, Receiver

(* The steps of REMOVE that reach the removal have seen an object, or are  *)
(* woken over an empty ring and say so.                                    *)
LEMMA RemovingGoes ==
  ASSUME TypeOK, NEW d \in Directions,
         TestEmpty(d) \/ WaitOrUnlock(d) \/ Woken(d)
  PROVE  Goes
<1>1. /\ pc[Receiver(d)] \notin Places
      /\ pc'[Receiver(d)] \in Pcs /\ pc'[Receiver(d)] \notin Places \ {"take"}
      /\ \A e \in Ends : e # Receiver(d) => pc'[e] = pc[e]
  BY EndsOf DEF TestEmpty, WaitOrUnlock, Woken, Step, TypeOK, Places, Pcs
<1>2. UNCHANGED <<queue, producer, consumer, sent, got>> /\ strain \subseteq strain'
  BY DEF TestEmpty, WaitOrUnlock, Woken, quiet, history
<1>3. pc'[Receiver(d)] = "take" => ~ISEMPTY(d) \/ strain' # {}
  BY EndsOf DEF TestEmpty, WaitOrUnlock, Woken, Step, TypeOK
<1>4. \A c \in Directions : Receiver(c) = Receiver(d) => c = d
  BY DEF Directions, Receiver
<1>5. \A c \in Directions : pc'[Receiver(c)] = "take" =>
        pc[Receiver(c)] = "take" \/ ~ISEMPTY(c) \/ strain' # {}
  BY <1>1, <1>3, <1>4, EndsOf
<1>6. QED
  BY <1>1, <1>2, <1>5 DEF Goes, Ends, Places

LEMMA GoesOrMoves ==
  ASSUME TypeOK, [Next]_vars
  PROVE  Goes \/ \E d \in Directions : Moving(d)
<1> USE DEF Step, quiet, history
<1>0. pc \in [Ends -> Pcs]
  BY DEF TypeOK
<1>1. CASE SendRequest \/ SendReply \/ PollForRequest \/ PollForReply
  BY <1>1, SendRequestGoes, SendReplyGoes, PollForRequestGoes, PollForReplyGoes
<1>2. CASE OtherPipeSignals
  <2>1. \A e \in Ends : pc'[e] = pc[e] \/ (pc[e] \notin Places /\ pc'[e] \notin Places)
    BY <1>0, <1>2 DEF OtherPipeSignals, Places
  <2>2. QED
    BY <1>2, <2>1, GoesElsewhere DEF OtherPipeSignals
<1>3. ASSUME NEW d \in Directions,
             Next_(d) \/ TestDisconnect(d) \/ Lock(d) \/ TestSignal(d) \/ SignalLock(d)
      PROVE  Goes
  <2>1. \A e \in Ends : pc'[e] = pc[e] \/ (pc[e] \notin Places /\ pc'[e] \notin Places)
    BY <1>0, <1>3 DEF Next_, TestDisconnect, Lock, TestSignal, SignalLock, Places
  <2>2. UNCHANGED <<queue, producer, consumer, sent, got>> /\ strain \subseteq strain'
    BY <1>3 DEF Next_, TestDisconnect, Lock, TestSignal, SignalLock
  <2>3. QED
    BY <2>1, <2>2, GoesElsewhere
<1>4. ASSUME NEW d \in Directions, Spin(d) \/ Signal(d)
      PROVE  Goes
  <2>1. \A e \in Ends : pc'[e] = pc[e] \/ (pc[e] \notin Places /\ pc'[e] \notin Places)
    BY <1>0, <1>4, EndsOf DEF Spin, Signal, WakeReceiver, Places
  <2>2. UNCHANGED <<queue, producer, consumer, sent, got>> /\ strain \subseteq strain'
    BY <1>4 DEF Spin, Signal
  <2>3. QED
    BY <2>1, <2>2, GoesElsewhere
<1>5. ASSUME NEW d \in Directions, TestEmpty(d) \/ WaitOrUnlock(d) \/ Woken(d)
      PROVE  Goes
  BY <1>5, RemovingGoes
<1>6. ASSUME NEW e \in Ends, Disconnect(e) \/ BroadcastRequest(e) \/ BroadcastReply(e)
      PROVE  Goes
  <2>1. \A f \in Ends : pc'[f] = pc[f] \/ (pc[f] \notin Places /\ pc'[f] \notin Places)
    BY <1>0, <1>6 DEF Disconnect, BroadcastRequest, BroadcastReply, WakeReceiver, Places
  <2>2. UNCHANGED <<queue, producer, consumer, sent, got>> /\ strain \subseteq strain'
    BY <1>6 DEF Disconnect, BroadcastRequest, BroadcastReply
  <2>3. QED
    BY <2>1, <2>2, GoesElsewhere
<1>7. CASE UNCHANGED vars
  BY <1>7, GoesElsewhere DEF vars
<1>8. QED
  BY <1>1, <1>2, <1>3, <1>4, <1>5, <1>6, <1>7
  DEF Next, Inserting, Removing, Disconnecting, Moving

(* What each of the four does to the numbers of objects.                   *)
LEMMA Numbers ==
  ASSUME TypeOK, NEW d \in Directions
  PROVE  /\ Len(sent[d]) \in Nat /\ Len(got[d]) \in Nat
         /\ Published(d) \in Int /\ Consumed(d) \in Int
         /\ Published(d) <= Len(sent[d]) /\ Consumed(d) <= Len(got[d])
<1>1. Len(sent[d]) \in Nat /\ Len(got[d]) \in Nat
  BY DEF TypeOK
<1>2. PICK m \in {0, 1} : Published(d) = Len(sent[d]) - m
  BY Zenon DEF Published
<1>3. PICK n \in {0, 1} : Consumed(d) = Len(got[d]) - n
  BY Zenon DEF Consumed
<1>4. QED
  BY <1>1, <1>2, <1>3

LEMMA GoesCounts ==
  ASSUME Goes, NEW d \in Directions
  PROVE  Published(d)' = Published(d) /\ Consumed(d)' = Consumed(d)
<1>1. Sender(d) \in Ends /\ Receiver(d) \in Ends /\ sent' = sent /\ got' = got
  BY EndsOf DEF Goes
<1>2. pc'[Sender(d)] = "publish" <=> pc[Sender(d)] = "publish"
  BY <1>1 DEF Goes
<1>3. pc'[Receiver(d)] = "taken" <=> pc[Receiver(d)] = "taken"
  BY <1>1 DEF Goes
<1>4. QED
  BY <1>1, <1>2, <1>3 DEF Published, Consumed

LEMMA InsertCounts ==
  ASSUME TypeOK, NEW d \in Directions, Insert(d)
  PROVE  /\ UNCHANGED <<producer, consumer, got, strain>>
         /\ pc[Sender(d)] = "insert" /\ pc'[Sender(d)] = "publish"
         /\ pc'[Receiver(d)] = pc[Receiver(d)]
         /\ Len(sent'[d]) = Len(sent[d]) + 1
         /\ Published(d) = Len(sent[d]) /\ Published(d)' = Published(d)
         /\ Consumed(d)' = Consumed(d)
         /\ \A c \in Directions : c # d => /\ sent'[c] = sent[c]
                                           /\ Published(c)' = Published(c)
                                           /\ Consumed(c)' = Consumed(c)
<1>1. /\ pc[Sender(d)] = "insert" /\ pc' = [pc EXCEPT ![Sender(d)] = "publish"]
      /\ UNCHANGED <<producer, consumer, got, strain>>
  BY DEF Insert, Step, quiet
<1>2. /\ pc'[Sender(d)] = "publish" /\ pc'[Receiver(d)] = pc[Receiver(d)]
      /\ \A e \in Ends : e # Sender(d) => pc'[e] = pc[e]
  BY <1>1, EndsOf DEF TypeOK
<1>3. PICK x : sent' = [sent EXCEPT ![d] = Append(@, x)]
  BY DEF Insert
<1>4. /\ Len(sent[d]) \in Nat /\ Len(sent'[d]) = Len(sent[d]) + 1
      /\ \A c \in Directions : c # d => sent'[c] = sent[c]
  BY <1>3 DEF TypeOK
<1>5. \A c \in Directions : c # d => Sender(c) # Sender(d) /\ Sender(c) \in Ends
  BY DEF Directions, Sender, Ends
<1>6. Published(d) = Len(sent[d]) /\ Published(d)' = Published(d)
  BY <1>1, <1>2, <1>4 DEF Published
<1>7. \A c \in Directions : c # d => Published(c)' = Published(c)
  BY <1>2, <1>4, <1>5 DEF Published
<1>8. \A c \in Directions : Consumed(c)' = Consumed(c)
  <2>1. \A c \in Directions : pc'[Receiver(c)] = "taken" <=> pc[Receiver(c)] = "taken"
    BY <1>1, <1>2, EndsOf
  <2>2. QED
    BY <1>1, <2>1 DEF Consumed
<1>9. QED
  BY <1>1, <1>2, <1>4, <1>6, <1>7, <1>8

LEMMA PublishCounts ==
  ASSUME TypeOK, NEW d \in Directions, Publish(d)
  PROVE  /\ UNCHANGED <<queue, consumer, sent, got, strain>>
         /\ pc'[Sender(d)] = "published" /\ pc'[Receiver(d)] = pc[Receiver(d)]
         /\ producer'[d] = (producer[d] + 1) % COUNTER_MOD
         /\ Published(d)' = Published(d) + 1 /\ Published(d)' = Len(sent[d])
         /\ Consumed(d)' = Consumed(d)
         /\ \A c \in Directions : c # d => /\ producer'[c] = producer[c]
                                           /\ Published(c)' = Published(c)
                                           /\ Consumed(c)' = Consumed(c)
<1>1. /\ pc[Sender(d)] = "publish" /\ pc' = [pc EXCEPT ![Sender(d)] = "published"]
      /\ UNCHANGED <<queue, consumer, sent, got, strain>>
      /\ producer' = [producer EXCEPT ![d] = (@ + 1) % COUNTER_MOD]
  BY DEF Publish, Advance, Step, quiet, history
<1>2. /\ pc'[Sender(d)] = "published" /\ pc'[Receiver(d)] = pc[Receiver(d)]
      /\ \A e \in Ends : e # Sender(d) => pc'[e] = pc[e]
  BY <1>1, EndsOf DEF TypeOK
<1>3. /\ producer'[d] = (producer[d] + 1) % COUNTER_MOD
      /\ \A c \in Directions : c # d => producer'[c] = producer[c]
  BY <1>1 DEF TypeOK
<1>4. Len(sent[d]) \in Nat
  BY DEF TypeOK
<1>5. \A c \in Directions : c # d => Sender(c) # Sender(d) /\ Sender(c) \in Ends
  BY DEF Directions, Sender, Ends
<1>6. Published(d)' = Published(d) + 1 /\ Published(d)' = Len(sent[d])
  <2>1. Published(d) = Len(sent[d]) - 1
    BY <1>1, <1>4 DEF Published
  <2>2. Published(d)' = Len(sent'[d]) - 0
    BY <1>2 DEF Published
  <2>3. QED
    BY <1>1, <1>4, <2>1, <2>2
<1>7. \A c \in Directions : c # d => Published(c)' = Published(c)
  BY <1>1, <1>2, <1>5 DEF Published
<1>8. \A c \in Directions : Consumed(c)' = Consumed(c)
  <2>1. \A c \in Directions : pc'[Receiver(c)] = "taken" <=> pc[Receiver(c)] = "taken"
    BY <1>1, <1>2, EndsOf
  <2>2. QED
    BY <1>1, <2>1 DEF Consumed
<1>9. QED
  BY <1>1, <1>2, <1>3, <1>6, <1>7, <1>8

LEMMA TakeCounts ==
  ASSUME TypeOK, NEW d \in Directions, Take(d)
  PROVE  /\ UNCHANGED <<producer, consumer, sent, strain>>
         /\ pc[Receiver(d)] = "take" /\ pc'[Receiver(d)] = "taken"
         /\ pc'[Sender(d)] = pc[Sender(d)]
         /\ Len(got'[d]) = Len(got[d]) + 1
         /\ Consumed(d) = Len(got[d]) /\ Consumed(d)' = Consumed(d)
         /\ Published(d)' = Published(d)
         /\ \A c \in Directions : c # d => /\ got'[c] = got[c]
                                           /\ Published(c)' = Published(c)
                                           /\ Consumed(c)' = Consumed(c)
<1>1. /\ pc[Receiver(d)] = "take" /\ pc' = [pc EXCEPT ![Receiver(d)] = "taken"]
      /\ UNCHANGED <<producer, consumer, sent, strain>>
      /\ got' = [got EXCEPT ![d] = Append(@, queue[MASK(consumer[d])])]
  BY DEF Take, Step, quiet
<1>2. /\ pc'[Receiver(d)] = "taken" /\ pc'[Sender(d)] = pc[Sender(d)]
      /\ \A e \in Ends : e # Receiver(d) => pc'[e] = pc[e]
  BY <1>1, EndsOf DEF TypeOK
<1>3. /\ Len(got[d]) \in Nat /\ Len(got'[d]) = Len(got[d]) + 1
      /\ \A c \in Directions : c # d => got'[c] = got[c]
  <2> DEFINE y == queue[MASK(consumer[d])]
  <2>1. got' = [got EXCEPT ![d] = Append(@, y)] /\ got \in [Directions -> Seq(Objects)]
    BY <1>1 DEF TypeOK
  <2> HIDE DEF y
  <2>2. QED
    BY <2>1
<1>4. \A c \in Directions : c # d => Receiver(c) # Receiver(d) /\ Receiver(c) \in Ends
  BY DEF Directions, Receiver, Ends
<1>5. Consumed(d) = Len(got[d]) /\ Consumed(d)' = Consumed(d)
  BY <1>1, <1>2, <1>3 DEF Consumed
<1>6. \A c \in Directions : c # d => Consumed(c)' = Consumed(c)
  BY <1>2, <1>3, <1>4 DEF Consumed
<1>7. \A c \in Directions : Published(c)' = Published(c)
  <2>1. \A c \in Directions : pc'[Sender(c)] = "publish" <=> pc[Sender(c)] = "publish"
    BY <1>1, <1>2, EndsOf
  <2>2. QED
    BY <1>1, <2>1 DEF Published
<1>8. QED
  BY <1>1, <1>2, <1>3, <1>5, <1>6, <1>7

LEMMA TakenCounts ==
  ASSUME TypeOK, NEW d \in Directions, Taken(d)
  PROVE  /\ UNCHANGED <<queue, producer, sent, got, strain>>
         /\ pc'[Receiver(d)] = "ready" /\ pc'[Sender(d)] = pc[Sender(d)]
         /\ consumer'[d] = (consumer[d] + 1) % COUNTER_MOD
         /\ Consumed(d)' = Consumed(d) + 1 /\ Consumed(d)' = Len(got[d])
         /\ Published(d)' = Published(d)
         /\ \A c \in Directions : c # d => /\ consumer'[c] = consumer[c]
                                           /\ Published(c)' = Published(c)
                                           /\ Consumed(c)' = Consumed(c)
<1>1. /\ pc[Receiver(d)] = "taken" /\ pc' = [pc EXCEPT ![Receiver(d)] = "ready"]
      /\ UNCHANGED <<queue, producer, sent, got, strain>>
      /\ consumer' = [consumer EXCEPT ![d] = (@ + 1) % COUNTER_MOD]
  BY DEF Taken, Advance, Step, quiet, history
<1>2. /\ pc'[Receiver(d)] = "ready" /\ pc'[Sender(d)] = pc[Sender(d)]
      /\ \A e \in Ends : e # Receiver(d) => pc'[e] = pc[e]
  BY <1>1, EndsOf DEF TypeOK
<1>3. /\ consumer'[d] = (consumer[d] + 1) % COUNTER_MOD
      /\ \A c \in Directions : c # d => consumer'[c] = consumer[c]
  BY <1>1 DEF TypeOK
<1>4. Len(got[d]) \in Nat
  BY DEF TypeOK
<1>5. \A c \in Directions : c # d => Receiver(c) # Receiver(d) /\ Receiver(c) \in Ends
  BY DEF Directions, Receiver, Ends
<1>6. Consumed(d)' = Consumed(d) + 1 /\ Consumed(d)' = Len(got[d])
  <2>1. Consumed(d) = Len(got[d]) - 1
    BY <1>1, <1>4 DEF Consumed
  <2>2. Consumed(d)' = Len(got'[d]) - 0
    BY <1>2 DEF Consumed
  <2>3. QED
    BY <1>1, <1>4, <2>1, <2>2
<1>7. \A c \in Directions : c # d => Consumed(c)' = Consumed(c)
  BY <1>1, <1>2, <1>5 DEF Consumed
<1>8. \A c \in Directions : Published(c)' = Published(c)
  <2>1. \A c \in Directions : pc'[Sender(c)] = "publish" <=> pc[Sender(c)] = "publish"
    BY <1>1, <1>2, EndsOf
  <2>2. QED
    BY <1>1, <2>1 DEF Published
<1>9. QED
  BY <1>1, <1>2, <1>3, <1>6, <1>7, <1>8

LEMMA CountersNext ==
  ASSUME TypeOK, CountersInv, [Next]_vars
  PROVE  CountersInv'
<1> SUFFICES ASSUME NEW c \in Directions
             PROVE  /\ Published(c)' \in Nat /\ producer'[c] = Published(c)' % COUNTER_MOD
                    /\ Consumed(c)' \in Nat /\ consumer'[c] = Consumed(c)' % COUNTER_MOD
  BY DEF CountersInv
<1>0. /\ Published(c) \in Nat /\ producer[c] = Published(c) % COUNTER_MOD
      /\ Consumed(c) \in Nat /\ consumer[c] = Consumed(c) % COUNTER_MOD
  BY DEF CountersInv
<1>1. CASE Goes
  BY <1>0, <1>1, GoesCounts DEF Goes
<1>2. ASSUME NEW d \in Directions, Insert(d)
      PROVE  /\ Published(c)' = Published(c) /\ Consumed(c)' = Consumed(c)
             /\ producer' = producer /\ consumer' = consumer
  BY <1>2, InsertCounts
<1>3. ASSUME NEW d \in Directions, Take(d)
      PROVE  /\ Published(c)' = Published(c) /\ Consumed(c)' = Consumed(c)
             /\ producer' = producer /\ consumer' = consumer
  BY <1>3, TakeCounts
<1>4. ASSUME NEW d \in Directions, Publish(d)
      PROVE  /\ Published(c)' \in Nat /\ producer'[c] = Published(c)' % COUNTER_MOD
             /\ Consumed(c)' = Consumed(c) /\ consumer'[c] = consumer[c]
  <2>1. /\ Consumed(c)' = Consumed(c) /\ consumer'[c] = consumer[c]
        /\ c # d => Published(c)' = Published(c) /\ producer'[c] = producer[c]
        /\ c = d => /\ Published(c)' = Published(c) + 1
                    /\ producer'[c] = (producer[c] + 1) % COUNTER_MOD
    BY <1>4, PublishCounts
  <2>2. ((Published(c) % COUNTER_MOD) + 1) % COUNTER_MOD = (Published(c) + 1) % COUNTER_MOD
    BY <1>0, NextCount
  <2>3. QED
    BY <1>0, <2>1, <2>2
<1>5. ASSUME NEW d \in Directions, Taken(d)
      PROVE  /\ Consumed(c)' \in Nat /\ consumer'[c] = Consumed(c)' % COUNTER_MOD
             /\ Published(c)' = Published(c) /\ producer'[c] = producer[c]
  <2>1. /\ Published(c)' = Published(c) /\ producer'[c] = producer[c]
        /\ c # d => Consumed(c)' = Consumed(c) /\ consumer'[c] = consumer[c]
        /\ c = d => /\ Consumed(c)' = Consumed(c) + 1
                    /\ consumer'[c] = (consumer[c] + 1) % COUNTER_MOD
    BY <1>5, TakenCounts
  <2>2. ((Consumed(c) % COUNTER_MOD) + 1) % COUNTER_MOD = (Consumed(c) + 1) % COUNTER_MOD
    BY <1>0, NextCount
  <2>3. QED
    BY <1>0, <2>1, <2>2
<1>6. QED
  BY <1>0, <1>1, <1>2, <1>3, <1>4, <1>5, GoesOrMoves DEF Moving

LEMMA Who ==
  /\ Directions = {"request", "reply"}
  /\ Sender("request") = "requester" /\ Receiver("request") = "responder"
  /\ Sender("reply") = "responder" /\ Receiver("reply") = "requester"
BY DEF Directions, Sender, Receiver

LEMMA NotTaken ==
  ASSUME NEW d \in Directions, Len(got[d]) \in Nat, pc[Receiver(d)] # "taken"
  PROVE  Consumed(d) = Len(got[d])
BY DEF Consumed

(* A ring that is not empty has an object to take.                         *)
LEMMA NotEmpty ==
  ASSUME TypeOK, CountersInv, ArcsInv, NEW d \in Directions,
         ~ISEMPTY(d), pc[Receiver(d)] # "taken"
  PROVE  Len(got[d]) < Published(d)
<1>1. Len(got[d]) <= Published(d)
  BY Who DEF ArcsInv
<1>2. Len(got[d]) \in Nat /\ Published(d) \in Nat
  BY Numbers DEF CountersInv
<1>3. Consumed(d) = Len(got[d])
  BY <1>2 DEF Consumed
<1>4. producer[d] # consumer[d]
  <2>1. producer[d] \in 0 .. COUNTER_MOD - 1 /\ consumer[d] \in 0 .. COUNTER_MOD - 1
    BY DEF TypeOK
  <2>2. QED
    BY <2>1, UsedNone DEF ISEMPTY
<1>5. Published(d) # Len(got[d])
  BY <1>3, <1>4 DEF CountersInv
<1>6. QED
  BY <1>1, <1>2, <1>5

LEMMA ArcsGo ==
  ASSUME TypeOK, CountersInv, ArcsInv, Goes, strain' = {}
  PROVE  ArcsInv'
<1>1. \A d \in Directions : Published(d)' = Published(d) /\ Consumed(d)' = Consumed(d)
  BY GoesCounts
<1>2. sent' = sent /\ got' = got
  BY DEF Goes
<1>3. /\ Len(sent["request"]) \in Nat /\ Len(got["reply"]) \in Nat
      /\ RING_BUFFER_SIZE \in Nat
  BY Constants, Numbers, Who
<1>4. pc'["responder"] = "insert" => Len(sent["reply"]) < Len(got["request"])
  BY DEF Goes, ArcsInv
<1>5. pc'["requester"] = "insert" => Len(sent["request"]) < Len(got["reply"]) + RING_BUFFER_SIZE
  <2>1. pc'["requester"] = "insert" => pc["requester"] = "insert" \/ Unanswered < RING_BUFFER_SIZE
    BY DEF Goes
  <2>2. Unanswered < RING_BUFFER_SIZE => Len(sent["request"]) < Len(got["reply"]) + RING_BUFFER_SIZE
    <3>1. \A a, b, n \in Nat : a - b < n => a < b + n
      OBVIOUS
    <3>2. QED
      BY <1>3, <3>1, Zenon DEF Unanswered
  <2>3. QED
    BY <2>1, <2>2 DEF ArcsInv
<1>6. \A d \in Directions : pc'[Receiver(d)] = "take" => Len(got[d]) < Published(d)
  <2> SUFFICES ASSUME NEW d \in Directions, pc'[Receiver(d)] = "take"
               PROVE  Len(got[d]) < Published(d)
    OBVIOUS
  <2>1. pc[Receiver(d)] # "taken" /\ (pc[Receiver(d)] = "take" \/ ~ISEMPTY(d))
    BY EndsOf DEF Goes
  <2>2. QED
    BY <2>1, NotEmpty DEF ArcsInv
<1>7. QED
  BY <1>1, <1>2, <1>4, <1>5, <1>6, Who DEF ArcsInv

(* An end that inserts has taken and counted what it has answered, or been *)
(* answered; an end that takes has counted what it took before.            *)
LEMMA ArcsInsert ==
  ASSUME TypeOK, CountersInv, ArcsInv, NEW d \in Directions, Insert(d)
  PROVE  ArcsInv'
<1>0. /\ \A c \in Directions :
           /\ Len(sent[c]) \in Nat /\ Len(got[c]) \in Nat
           /\ Published(c) \in Int /\ Consumed(c) \in Int
      /\ RING_BUFFER_SIZE \in Nat
  BY Constants, Numbers
<1>1. got' = got /\ pc'[Sender(d)] = "publish" /\ pc'[Receiver(d)] = pc[Receiver(d)]
  BY InsertCounts
<1>2. \A c \in Directions : Published(c)' = Published(c) /\ Consumed(c)' = Consumed(c)
  BY InsertCounts
<1>3. Len(sent'[d]) = Len(sent[d]) + 1 /\ \A c \in Directions : c # d => sent'[c] = sent[c]
  BY InsertCounts
<1>4. pc[Sender(d)] = "insert"
  BY InsertCounts
<1>5. CASE d = "request"
  <2>1. Consumed("reply") = Len(got["reply"])
    <3>1. pc[Receiver("reply")] # "taken" /\ Len(got["reply"]) \in Nat
      BY <1>0, <1>4, <1>5, Who
    <3>2. QED
      BY <3>1, NotTaken, Who
  <2>2. Len(sent["request"]) < Len(got["reply"]) + RING_BUFFER_SIZE
    BY <1>4, <1>5, Who DEF ArcsInv
  <2>3. Len(sent'["request"]) <= Consumed("reply")' + RING_BUFFER_SIZE
    BY <1>0, <1>2, <1>3, <1>5, <2>1, <2>2, Who
  <2>4. QED
    BY <1>1, <1>2, <1>3, <1>5, <2>3, Who DEF ArcsInv
<1>6. CASE d = "reply"
  <2>1. Consumed("request") = Len(got["request"])
    <3>1. pc[Receiver("request")] # "taken" /\ Len(got["request"]) \in Nat
      BY <1>0, <1>4, <1>6, Who
    <3>2. QED
      BY <3>1, NotTaken, Who
  <2>2. Len(sent["reply"]) < Len(got["request"])
    BY <1>4, <1>6, Who DEF ArcsInv
  <2>3. Len(sent'["reply"]) <= Consumed("request")'
    BY <1>0, <1>2, <1>3, <1>6, <2>1, <2>2, Who
  <2>4. QED
    BY <1>1, <1>2, <1>3, <1>6, <2>3, Who DEF ArcsInv
<1>7. QED
  BY <1>5, <1>6, Who

LEMMA ArcsPublish ==
  ASSUME TypeOK, CountersInv, ArcsInv, NEW d \in Directions, Publish(d)
  PROVE  ArcsInv'
<1>0. \A c \in Directions : Len(got[c]) \in Nat /\ Published(c) \in Int
  BY Numbers
<1>1. /\ sent' = sent /\ got' = got
      /\ pc'[Sender(d)] = "published" /\ pc'[Receiver(d)] = pc[Receiver(d)]
  BY PublishCounts
<1>2. \A c \in Directions : Consumed(c)' = Consumed(c)
  BY PublishCounts
<1>3. Published(d)' = Published(d) + 1 /\ \A c \in Directions : c # d => Published(c)' = Published(c)
  BY PublishCounts
<1>4. \A c \in Directions : \A n \in Nat : /\ n <= Published(c) => n <= Published(c)'
                                           /\ n < Published(c) => n < Published(c)'
  BY <1>0, <1>3
<1>5. /\ Len(got'["reply"]) <= Published("reply")' /\ Len(got'["request"]) <= Published("request")'
      /\ \A c \in Directions : pc[Receiver(c)] = "take" => Len(got'[c]) < Published(c)'
  BY <1>0, <1>1, <1>4, Who DEF ArcsInv
<1>6. \A e \in Ends : pc'[e] \in {"insert", "take"} => pc'[e] = pc[e]
  BY <1>1 DEF Ends, Directions, Sender, Receiver
<1>7. QED
  BY <1>1, <1>2, <1>5, <1>6, EndsOf, Who DEF ArcsInv, Ends

LEMMA ArcsTake ==
  ASSUME TypeOK, CountersInv, ArcsInv, NEW d \in Directions, Take(d)
  PROVE  ArcsInv'
<1>0. \A c \in Directions : Len(got[c]) \in Nat /\ Len(sent[c]) \in Nat /\ Published(c) \in Int
  BY Numbers
<1>1. /\ sent' = sent /\ pc[Receiver(d)] = "take"
      /\ pc'[Receiver(d)] = "taken" /\ pc'[Sender(d)] = pc[Sender(d)]
  BY TakeCounts
<1>2. \A c \in Directions : Consumed(c)' = Consumed(c) /\ Published(c)' = Published(c)
  BY TakeCounts
<1>3. Len(got'[d]) = Len(got[d]) + 1 /\ \A c \in Directions : c # d => got'[c] = got[c]
  BY TakeCounts
<1>4. Len(got[d]) < Published(d)
  BY <1>1 DEF ArcsInv
<1>5. \A c \in Directions : Len(got'[c]) <= Published(c)'
  BY <1>0, <1>2, <1>3, <1>4, Who DEF ArcsInv
<1>6. CASE d = "request"
  <2>1. pc'["responder"] = "taken" /\ pc'["requester"] = pc["requester"] /\ got'["reply"] = got["reply"]
    BY <1>1, <1>3, <1>6, Who
  <2>2. QED
    BY <1>1, <1>2, <1>5, <2>1, Who DEF ArcsInv
<1>7. CASE d = "reply"
  <2>1. pc'["requester"] = "taken" /\ pc'["responder"] = pc["responder"] /\ got'["request"] = got["request"]
    BY <1>1, <1>3, <1>7, Who
  <2>2. QED
    BY <1>1, <1>2, <1>5, <2>1, Who DEF ArcsInv
<1>8. QED
  BY <1>6, <1>7, Who

LEMMA ArcsTaken ==
  ASSUME TypeOK, CountersInv, ArcsInv, NEW d \in Directions, Taken(d)
  PROVE  ArcsInv'
<1>0. /\ \A c \in Directions : Len(sent[c]) \in Nat /\ Consumed(c) \in Int
      /\ RING_BUFFER_SIZE \in Nat
  BY Constants, Numbers
<1>1. /\ sent' = sent /\ got' = got
      /\ pc'[Receiver(d)] = "ready" /\ pc'[Sender(d)] = pc[Sender(d)]
  BY TakenCounts
<1>2. \A c \in Directions : Published(c)' = Published(c)
  BY TakenCounts
<1>3. Consumed(d)' = Consumed(d) + 1 /\ \A c \in Directions : c # d => Consumed(c)' = Consumed(c)
  BY TakenCounts
<1>4. /\ Len(sent["reply"]) <= Consumed("request")'
      /\ Len(sent["request"]) <= Consumed("reply")' + RING_BUFFER_SIZE
  BY <1>0, <1>3, Who DEF ArcsInv
<1>5. \A e \in Ends : pc'[e] \in {"insert", "take"} => pc'[e] = pc[e]
  BY <1>1 DEF Ends, Directions, Sender, Receiver
<1>6. QED
  BY <1>1, <1>2, <1>4, <1>5, EndsOf, Who DEF ArcsInv, Ends

LEMMA ArcsNext ==
  ASSUME TypeOK, CountersInv, strain = {} => ArcsInv, [Next]_vars, strain' = {}
  PROVE  strain = {} /\ ArcsInv'
<1>1. CASE Goes
  <2>1. strain = {}
    BY <1>1 DEF Goes
  <2>2. QED
    BY <1>1, <2>1, ArcsGo
<1>2. ASSUME NEW d \in Directions, Moving(d)
      PROVE  strain = {} /\ ArcsInv'
  <2>1. strain = {}
    BY <1>2, InsertCounts, PublishCounts, TakeCounts, TakenCounts DEF Moving
  <2>2. QED
    BY <1>2, <2>1, ArcsInsert, ArcsPublish, ArcsTake, ArcsTaken DEF Moving
<1>3. QED
  BY <1>1, <1>2, GoesOrMoves

-------------------------------------------------------------------------------
(* The ring.  The numbers follow each other round it: replies taken,       *)
(* replies sent, requests taken, requests sent, which a ring separates     *)
(* from the replies taken.                                                 *)

LEMMA Round ==
  ASSUME TypeOK, CountersInv, ArcsInv
  PROVE  /\ Consumed("reply") <= Len(got["reply"]) /\ Len(got["reply"]) <= Published("reply")
         /\ Published("reply") <= Len(sent["reply"]) /\ Len(sent["reply"]) <= Consumed("request")
         /\ Consumed("request") <= Len(got["request"])
         /\ Len(got["request"]) <= Published("request")
         /\ Published("request") <= Len(sent["request"])
         /\ Len(sent["request"]) <= Consumed("reply") + RING_BUFFER_SIZE
         /\ {Consumed("reply"), Published("reply"), Consumed("request"), Published("request")} \subseteq Nat
         /\ {Len(sent["reply"]), Len(sent["request"]), Len(got["reply"]), Len(got["request"])} \subseteq Nat
BY Numbers, Who DEF ArcsInv, CountersInv

(* The same, for what a step that inserts or takes needs of it.            *)
LEMMA Window ==
  ASSUME TypeOK, CountersInv, ArcsInv
  PROVE  /\ Len(sent["reply"]) <= Len(got["request"]) /\ Len(got["request"]) <= Len(sent["request"])
         /\ Len(got["reply"]) <= Len(sent["reply"])
         /\ Len(sent["request"]) <= Len(got["reply"]) + RING_BUFFER_SIZE
         /\ Published("reply") <= Len(sent["reply"]) /\ Published("request") <= Len(sent["request"])
         /\ {Len(sent["reply"]), Len(sent["request"]), Len(got["reply"]), Len(got["request"])} \subseteq Nat
         /\ {Published("reply"), Published("request")} \subseteq Nat
         /\ RING_BUFFER_SIZE \in Nat \ {0}
<1> DEFINE a == Consumed("reply")
           b == Len(got["reply"])
           c == Published("reply")
           d == Len(sent["reply"])
           e == Consumed("request")
           f == Len(got["request"])
           g == Published("request")
           h == Len(sent["request"])
<1>1. /\ a \in Nat /\ b \in Nat /\ c \in Nat /\ d \in Nat /\ e \in Nat /\ f \in Nat /\ g \in Nat /\ h \in Nat
      /\ a <= b /\ b <= c /\ c <= d /\ d <= e /\ e <= f /\ f <= g /\ g <= h /\ h <= a + RING_BUFFER_SIZE
  BY Round
<1>2. RING_BUFFER_SIZE \in Nat \ {0}
  BY Constants
<1> HIDE DEF a, b, c, d, e, f, g, h
<1>3. d <= f /\ f <= h /\ b <= d /\ h <= b + RING_BUFFER_SIZE
  BY <1>1, <1>2
<1>4. QED
  BY <1>1, <1>2, <1>3 DEF a, b, c, d, e, f, g, h

LEMMA ArcsImply ==
  ASSUME TypeOK, CountersInv, strain = {} => ArcsInv
  PROVE  Arcs
<1> SUFFICES ASSUME strain = {}
             PROVE  Used(producer["request"], consumer["request"])
                    + Used(consumer["request"], producer["reply"])
                    + Used(producer["reply"], consumer["reply"]) <= RING_BUFFER_SIZE
  BY DEF Arcs
<1> DEFINE a == Consumed("reply")
           b == Published("reply")
           c == Consumed("request")
           e == Published("request")
<1>1. /\ a \in Nat /\ b \in Nat /\ c \in Nat /\ e \in Nat /\ RING_BUFFER_SIZE \in Nat
      /\ a <= b /\ b <= c /\ c <= e /\ e <= a + RING_BUFFER_SIZE
  <2>1. ArcsInv /\ RING_BUFFER_SIZE \in Nat
    BY Constants
  <2>2. QED
    BY <2>1, Round
<1>2. /\ consumer["reply"] = a % COUNTER_MOD /\ producer["reply"] = b % COUNTER_MOD
      /\ consumer["request"] = c % COUNTER_MOD /\ producer["request"] = e % COUNTER_MOD
  BY Who DEF CountersInv
<1> HIDE DEF a, b, c, e
<1>3. Used(e % COUNTER_MOD, c % COUNTER_MOD) = e - c
  <2>1. e - c \in 0 .. RING_BUFFER_SIZE
    BY <1>1
  <2>2. QED
    BY <1>1, <2>1, UsedCount
<1>4. Used(c % COUNTER_MOD, b % COUNTER_MOD) = c - b
  <2>1. c - b \in 0 .. RING_BUFFER_SIZE
    BY <1>1
  <2>2. QED
    BY <1>1, <2>1, UsedCount
<1>5. Used(b % COUNTER_MOD, a % COUNTER_MOD) = b - a
  <2>1. b - a \in 0 .. RING_BUFFER_SIZE
    BY <1>1
  <2>2. QED
    BY <1>1, <2>1, UsedCount
<1>6. (e - c) + (c - b) + (b - a) <= RING_BUFFER_SIZE
  BY <1>1
<1>7. QED
  BY <1>2, <1>3, <1>4, <1>5, <1>6

(* The slot an object is put in is a free one of the ring, or the one its  *)
(* request has left.                                                       *)
LEMMA InsertSlot ==
  ASSUME TypeOK, CountersInv, ArcsInv, NEW d \in Directions, Insert(d)
  PROVE  /\ Len(sent[d]) \in Len(got["reply"]) .. Len(got["reply"]) + RING_BUFFER_SIZE - 1
         /\ Len(sent["reply"]) <= Len(got["request"]) /\ Len(got["request"]) <= Len(sent["request"])
         /\ d = "reply" => Len(sent["reply"]) < Len(got["request"])
         /\ MASK(producer[d]) = MASK(Len(sent[d]))
<1>1. pc[Sender(d)] = "insert" /\ Published(d) = Len(sent[d]) /\ Len(sent[d]) \in Nat
  BY InsertCounts, Numbers
<1>2. producer[d] = Len(sent[d]) % COUNTER_MOD
  BY <1>1 DEF CountersInv
<1>3. MASK(producer[d]) = MASK(Len(sent[d]))
  BY <1>1, <1>2, MaskCount
<1>4. /\ d = "request" => Len(sent["request"]) < Len(got["reply"]) + RING_BUFFER_SIZE
      /\ d = "reply" => Len(sent["reply"]) < Len(got["request"])
  BY <1>1, Who DEF ArcsInv
<1>5. RING_BUFFER_SIZE \in Nat
  BY Constants
<1>6. d = "request" \/ d = "reply"
  BY Who
<1>7. Len(sent[d]) < Len(got["reply"]) + RING_BUFFER_SIZE
  <2> DEFINE n == Len(got["reply"])
             m == Len(sent["reply"])
             k == Len(got["request"])
             l == Len(sent["request"])
  <2>1. /\ n \in Nat /\ m \in Nat /\ k \in Nat /\ l \in Nat
        /\ m <= k /\ k <= l /\ l <= n + RING_BUFFER_SIZE
    BY Window
  <2>2. /\ d = "request" => l < n + RING_BUFFER_SIZE
        /\ d = "reply" => m < k
    BY <1>4
  <2> HIDE DEF n, m, k, l
  <2>3. m < k => m < n + RING_BUFFER_SIZE
    BY <1>5, <2>1
  <2>4. QED
    BY <1>6, <2>2, <2>3 DEF n, m, k, l
<1>8. Len(got["reply"]) <= Len(sent[d])
  <2> DEFINE n == Len(got["reply"])
             m == Len(sent["reply"])
             k == Len(got["request"])
             l == Len(sent["request"])
  <2>1. n \in Nat /\ m \in Nat /\ k \in Nat /\ l \in Nat /\ n <= m /\ m <= k /\ k <= l
    BY Window
  <2> HIDE DEF n, m, k, l
  <2>2. n <= m /\ n <= l
    BY <2>1
  <2>3. QED
    BY <1>6, <2>2 DEF n, m, k, l
<1>9. Len(sent[d]) \in Len(got["reply"]) .. Len(got["reply"]) + RING_BUFFER_SIZE - 1
  <2>1. \A x, n \in Nat : n <= x /\ x < n + RING_BUFFER_SIZE => x \in n .. n + RING_BUFFER_SIZE - 1
    BY <1>5
  <2>2. Len(got["reply"]) \in Nat
    BY Window
  <2>3. QED
    BY <1>1, <1>7, <1>8, <2>1, <2>2, Zenon
<1>10. QED
  BY <1>3, <1>4, <1>9, Window

(* The slot an object is taken from has what was sent at its turn.         *)
LEMMA TakeSlot ==
  ASSUME TypeOK, CountersInv, ArcsInv, RingInv, NEW d \in Directions, Take(d)
  PROVE  /\ Len(got[d]) \in Len(got["reply"]) .. Len(got["reply"]) + RING_BUFFER_SIZE - 1
         /\ Len(got[d]) < Len(sent[d])
         /\ d = "request" => Len(sent["reply"]) <= Len(got["request"])
         /\ d = "reply" => Len(sent["request"]) <= Len(got["reply"]) + RING_BUFFER_SIZE
         /\ MASK(consumer[d]) = MASK(Len(got[d]))
         /\ queue[MASK(consumer[d])] = sent[d][Len(got[d]) + 1]
<1>1. pc[Receiver(d)] = "take" /\ Consumed(d) = Len(got[d]) /\ Len(got[d]) \in Nat
  BY TakeCounts, Numbers
<1>2. consumer[d] = Len(got[d]) % COUNTER_MOD
  BY <1>1 DEF CountersInv
<1>3. MASK(consumer[d]) = MASK(Len(got[d]))
  BY <1>1, <1>2, MaskCount
<1>4. Len(got[d]) < Published(d)
  BY <1>1 DEF ArcsInv
<1>5. RING_BUFFER_SIZE \in Nat \ {0}
  BY Constants
<1>6. /\ Len(got[d]) \in Len(got["reply"]) .. Len(got["reply"]) + RING_BUFFER_SIZE - 1
      /\ Len(got[d]) < Len(sent[d])
      /\ d = "request" => Len(sent["reply"]) <= Len(got["request"])
      /\ d = "reply" => Len(sent["request"]) <= Len(got["reply"]) + RING_BUFFER_SIZE
  <2> DEFINE n == Len(got["reply"])
             m == Len(sent["reply"])
             k == Len(got["request"])
             l == Len(sent["request"])
             p == Published("reply")
             q == Published("request")
  <2>1. /\ n \in Nat /\ m \in Nat /\ k \in Nat /\ l \in Nat /\ p \in Nat /\ q \in Nat
        /\ n <= m /\ m <= k /\ k <= l /\ l <= n + RING_BUFFER_SIZE /\ p <= m /\ q <= l
    BY Window
  <2>2. /\ d = "request" => k < q
        /\ d = "reply" => n < p
    BY <1>4
  <2>3. d = "request" \/ d = "reply"
    BY Who
  <2> HIDE DEF n, m, k, l, p, q
  <2>4. k < q => k < l /\ k \in n .. n + RING_BUFFER_SIZE - 1
    BY <1>5, <2>1
  <2>5. n < p => n < m /\ n \in n .. n + RING_BUFFER_SIZE - 1
    BY <1>5, <2>1
  <2>6. QED
    BY <2>1, <2>2, <2>3, <2>4, <2>5 DEF n, m, k, l
<1>7. Slot(Len(got[d])) = sent[d][Len(got[d]) + 1]
  <2>1. CASE d = "request"
    <3>1. /\ ~(Len(got[d]) < Len(sent["reply"]))
          /\ Len(got[d]) >= Len(got["request"]) /\ Len(got[d]) < Len(sent["request"])
      BY <1>6, <2>1, Round
    <3>2. QED
      BY <2>1, <3>1 DEF Slot
  <2>2. CASE d = "reply"
    BY <1>6, <2>2 DEF Slot
  <2>3. QED
    BY <2>1, <2>2, Who
<1>8. queue[MASK(Len(got[d]))] = Slot(Len(got[d]))
  BY <1>6 DEF RingInv
<1>9. QED
  BY <1>3, <1>6, <1>7, <1>8

LEMMA AppendAt ==
  \A s \in Seq(Objects), x \in Objects :
    /\ Append(s, x) \in Seq(Objects) /\ Append(s, x)[Len(s) + 1] = x
    /\ \A i \in 1 .. Len(s) : Append(s, x)[i] = s[i]
OBVIOUS

(* What an object put in the ring leaves there.                            *)
LEMMA RingInsert ==
  ASSUME TypeOK, CountersInv, ArcsInv, RingInv, NEW d \in Directions, Insert(d)
  PROVE  RingInv'
<1> DEFINE n == Len(got["reply"])
           j == Len(sent[d])
<1>1. PICK x \in Object(d) : /\ queue' = [queue EXCEPT ![MASK(producer[d])] = x]
                             /\ sent' = [sent EXCEPT ![d] = Append(@, x)]
  BY DEF Insert
<1>2. x \in Objects
  <2>1. Len(sent[d]) + 1 \in Nat
    BY Numbers
  <2>2. QED
    BY <1>1, <2>1 DEF Object, Objects
<1>3. /\ j \in n .. n + RING_BUFFER_SIZE - 1 /\ n \in Nat /\ j \in Nat
      /\ Len(sent["reply"]) <= Len(got["request"]) /\ Len(got["request"]) <= Len(sent["request"])
      /\ d = "reply" => Len(sent["reply"]) < Len(got["request"])
      /\ MASK(producer[d]) = MASK(j)
  BY InsertSlot, Numbers, Who
<1>4. /\ got' = got /\ Len(sent'[d]) = j + 1 /\ sent'[d][j + 1] = x
      /\ \A i \in 1 .. j : sent'[d][i] = sent[d][i]
      /\ \A c \in Directions : c # d => sent'[c] = sent[c]
  <2>1. sent[d] \in Seq(Objects) /\ sent'[d] = Append(sent[d], x)
    BY <1>1 DEF TypeOK
  <2>2. QED
    BY <1>2, <2>1, InsertCounts, AppendAt
<1>5. /\ Len(sent["reply"]) \in Nat /\ Len(sent["request"]) \in Nat
      /\ Len(got["request"]) \in Nat /\ RING_BUFFER_SIZE \in Nat \ {0}
  BY Numbers, Constants, Who
<1> SUFFICES ASSUME NEW i \in n .. n + RING_BUFFER_SIZE - 1
             PROVE  queue'[MASK(i)] = Slot(i)'
  BY <1>4 DEF RingInv
<1>6. i \in Nat /\ MASK(i) \in 0 .. RING_BUFFER_SIZE - 1
  <2>1. i \in Nat
    BY <1>3, <1>5
  <2>2. QED
    BY ONLY <2>1, MaskType
<1>7. DOMAIN queue = 0 .. RING_BUFFER_SIZE - 1
  BY DEF TypeOK
<1>8. CASE i = j
  <2>1. queue'[MASK(i)] = x
    BY <1>1, <1>3, <1>6, <1>7, <1>8
  <2>2. Slot(i)' = x
    <3>1. CASE d = "reply"
      BY <1>3, <1>4, <1>8, <3>1 DEF Slot
    <3>2. CASE d = "request"
      <4>1. ~(i < Len(sent'["reply"])) /\ i >= Len(got'["request"]) /\ i < Len(sent'["request"])
        BY <1>3, <1>4, <1>5, <1>8, <3>2, Who
      <4>2. QED
        BY <1>4, <1>8, <3>2, <4>1 DEF Slot
    <3>3. QED
      BY <3>1, <3>2, Who
  <2>3. QED
    BY <2>1, <2>2
<1>9. CASE i # j
  <2>1. MASK(i) # MASK(j)
    BY <1>3, <1>9, SlotsDiffer
  <2>2. queue'[MASK(i)] = Slot(i)
    BY <1>1, <1>3, <1>6, <1>7, <2>1 DEF RingInv
  <2>3. Slot(i)' = Slot(i)
    <3>1. CASE d = "reply"
      <4>1. i < Len(sent'["reply"]) <=> i < Len(sent["reply"])
        BY <1>3, <1>4, <1>6, <1>9, <3>1
      <4>2. i < Len(sent["reply"]) => sent'["reply"][i + 1] = sent["reply"][i + 1]
        <5>1. i < j => i + 1 \in 1 .. j
          BY <1>3, <1>6
        <5>2. QED
          BY <1>4, <3>1, <5>1
      <4>3. sent'["request"] = sent["request"] /\ got' = got
        BY <1>4, <3>1, Who
      <4>4. QED
        BY <4>1, <4>2, <4>3 DEF Slot
    <3>2. CASE d = "request"
      <4>1. i < Len(sent'["request"]) <=> i < Len(sent["request"])
        BY <1>3, <1>4, <1>6, <1>9, <3>2
      <4>2. i < Len(sent["request"]) => sent'["request"][i + 1] = sent["request"][i + 1]
        <5>1. i < j => i + 1 \in 1 .. j
          BY <1>3, <1>6
        <5>2. QED
          BY <1>4, <3>2, <5>1
      <4>3. sent'["reply"] = sent["reply"] /\ got' = got
        BY <1>4, <3>2, Who
      <4>4. QED
        BY <4>1, <4>2, <4>3 DEF Slot
    <3>3. QED
      BY <3>1, <3>2, Who
  <2>4. QED
    BY <2>2, <2>3
<1>10. QED
  BY <1>8, <1>9

(* What a removal leaves: a free slot, which the next ring begins after.   *)
LEMMA RingTake ==
  ASSUME TypeOK, CountersInv, ArcsInv, RingInv, NEW d \in Directions, Take(d)
  PROVE  RingInv'
<1> DEFINE n == Len(got["reply"])
           j == Len(got[d])
<1>1. /\ sent' = sent /\ Len(got'[d]) = j + 1
      /\ \A c \in Directions : c # d => got'[c] = got[c]
  BY TakeCounts
<1>2. /\ n \in Nat /\ j \in Nat /\ RING_BUFFER_SIZE \in Nat \ {0}
      /\ Len(sent["reply"]) \in Nat /\ Len(sent["request"]) \in Nat /\ Len(got["request"]) \in Nat
      /\ Len(sent["reply"]) <= Len(got["request"]) /\ Len(got["request"]) <= Len(sent["request"])
      /\ Len(sent["request"]) <= n + RING_BUFFER_SIZE
  BY Window, Numbers
<1>3. /\ j \in n .. n + RING_BUFFER_SIZE - 1 /\ MASK(consumer[d]) = MASK(j)
      /\ d = "reply" => n < Len(sent["reply"])
  BY TakeSlot
<1>4. queue' = [queue EXCEPT ![MASK(j)] = nil] /\ DOMAIN queue = 0 .. RING_BUFFER_SIZE - 1
  BY <1>3 DEF Take, TypeOK
<1>5. ASSUME NEW i \in n .. n + RING_BUFFER_SIZE - 1, i # j
      PROVE  queue'[MASK(i)] = Slot(i)
  <2>1. i \in Nat
    BY <1>2
  <2>2. MASK(i) \in 0 .. RING_BUFFER_SIZE - 1
    BY ONLY <2>1, MaskType
  <2>3. MASK(i) # MASK(j)
    BY <1>2, <1>3, <1>5, SlotsDiffer
  <2>4. QED
    BY <1>4, <2>2, <2>3 DEF RingInv
<1>6. MASK(j) \in 0 .. RING_BUFFER_SIZE - 1
  BY <1>2, MaskType
<1>7. queue'[MASK(j)] = nil
  BY <1>4, <1>6
<1>8. CASE d = "request"
  <2>1. got'["reply"] = got["reply"] /\ Len(got'["request"]) = j + 1 /\ j = Len(got["request"])
    BY <1>1, <1>8, Who
  <2>2. ASSUME NEW i \in n .. n + RING_BUFFER_SIZE - 1
        PROVE  queue'[MASK(i)] = Slot(i)'
    <3>1. CASE i = j
      <4>1. ~(i < Len(sent["reply"])) /\ ~(i >= Len(got'["request"]))
        BY <1>2, <2>1, <3>1
      <4>2. Slot(i)' = nil
        BY <1>1, <4>1 DEF Slot
      <4>3. QED
        BY <1>7, <3>1, <4>2
    <3>2. CASE i # j
      <4>1. i >= Len(got'["request"]) <=> i >= Len(got["request"])
        BY <1>2, <2>1, <3>2
      <4>2. Slot(i)' = Slot(i)
        BY <1>1, <4>1 DEF Slot
      <4>3. QED
        BY <1>5, <3>2, <4>2
    <3>3. QED
      BY <3>1, <3>2
  <2>3. QED
    BY <2>1, <2>2 DEF RingInv
<1>9. CASE d = "reply"
  <2>1. got'["request"] = got["request"] /\ Len(got'["reply"]) = n + 1 /\ j = n
    BY <1>1, <1>9, Who
  <2>2. ASSUME NEW i \in n + 1 .. n + 1 + RING_BUFFER_SIZE - 1
        PROVE  queue'[MASK(i)] = Slot(i)'
    <3>1. Slot(i)' = Slot(i)
      BY <1>1, <2>1 DEF Slot
    <3>2. CASE i = n + RING_BUFFER_SIZE
      <4>1. MASK(i) = MASK(j)
        BY <1>2, <2>1, <3>2, SlotAgain
      <4>2. ~(i < Len(sent["reply"])) /\ ~(i < Len(sent["request"]))
        BY <1>2, <3>2
      <4>3. Slot(i) = nil
        BY <4>2 DEF Slot
      <4>4. QED
        BY <1>7, <3>1, <4>1, <4>3
    <3>3. CASE i # n + RING_BUFFER_SIZE
      <4>1. i \in n .. n + RING_BUFFER_SIZE - 1 /\ i # j
        BY <1>2, <2>1, <3>3
      <4>2. QED
        BY <1>5, <3>1, <4>1
    <3>4. QED
      BY <3>2, <3>3
  <2>3. QED
    BY <2>1, <2>2 DEF RingInv
<1>10. QED
  BY <1>8, <1>9, Who

LEMMA RingNext ==
  ASSUME TypeOK, CountersInv, ArcsInv, RingInv, [Next]_vars
  PROVE  RingInv'
<1>1. CASE Goes
  <2>1. sent' = sent /\ got' = got /\ queue' = queue
    BY <1>1 DEF Goes
  <2>2. QED
    BY <2>1 DEF RingInv, Slot
<1>2. ASSUME NEW d \in Directions, Publish(d) \/ Taken(d)
      PROVE  RingInv'
  <2>1. sent' = sent /\ got' = got /\ queue' = queue
    BY <1>2, PublishCounts, TakenCounts
  <2>2. QED
    BY <2>1 DEF RingInv, Slot
<1>3. QED
  BY <1>1, <1>2, RingInsert, RingTake, GoesOrMoves DEF Moving

(* What is taken is what was sent at that turn.                            *)
LEMMA GotNext ==
  ASSUME TypeOK, CountersInv, ArcsInv, RingInv, GotInv, [Next]_vars
  PROVE  GotInv'
<1> SUFFICES ASSUME NEW c \in Directions, NEW i \in 1 .. Len(got'[c])
             PROVE  got'[c][i] = sent'[c][i]
  BY DEF GotInv
<1>0. /\ sent[c] \in Seq(Objects) /\ got[c] \in Seq(Objects)
      /\ \A k \in 1 .. Len(got[c]) : got[c][k] = sent[c][k]
      /\ Len(got[c]) <= Len(sent[c])
  <2>1. Len(got[c]) <= Len(sent[c])
    <3>1. \A a, b, e \in Nat : a <= b /\ b <= e => a <= e
      OBVIOUS
    <3>2. /\ Len(got["reply"]) <= Len(sent["reply"])
          /\ Len(got["request"]) <= Len(sent["request"])
      BY Window
    <3>3. QED
      BY <3>2, Who
  <2>2. QED
    BY <2>1 DEF TypeOK, GotInv
<1>1. CASE sent'[c] = sent[c] /\ got'[c] = got[c]
  BY <1>0, <1>1
<1>2. ASSUME NEW d \in Directions, Insert(d), c = d
      PROVE  got'[c][i] = sent'[c][i]
  <2>1. PICK x : sent' = [sent EXCEPT ![d] = Append(@, x)]
    BY <1>2 DEF Insert
  <2>2. got' = got
    BY <1>2, InsertCounts
  <2>3. sent'[c] = Append(sent[c], x)
    BY <1>2, <2>1 DEF TypeOK
  <2>4. i \in 1 .. Len(sent[c])
    BY <1>0, <2>2
  <2>5. sent'[c][i] = sent[c][i]
    BY <1>0, <2>3, <2>4
  <2>6. QED
    BY <1>0, <2>2, <2>5
<1>3. ASSUME NEW d \in Directions, Take(d), c = d
      PROVE  got'[c][i] = sent'[c][i]
  <2> DEFINE x == sent[c][Len(got[c]) + 1]
  <2>1. got'[c] = Append(got[c], x)
    <3>1. got' = [got EXCEPT ![d] = Append(@, queue[MASK(consumer[d])])]
      BY <1>3 DEF Take
    <3>2. queue[MASK(consumer[d])] = x
      BY <1>3, TakeSlot
    <3> HIDE DEF x
    <3>3. QED
      BY <1>3, <3>1, <3>2 DEF TypeOK
  <2>2. sent' = sent
    BY <1>3, TakeCounts
  <2> HIDE DEF x
  <2>3. /\ Len(got'[c]) = Len(got[c]) + 1 /\ got'[c][Len(got[c]) + 1] = x
        /\ \A k \in 1 .. Len(got[c]) : got'[c][k] = got[c][k]
    BY <1>0, <2>1
  <2>4. CASE i = Len(got[c]) + 1
    BY <2>2, <2>3, <2>4 DEF x
  <2>5. CASE i # Len(got[c]) + 1
    <3>1. i \in 1 .. Len(got[c])
      BY <1>0, <2>3, <2>5
    <3>2. QED
      BY <1>0, <2>2, <2>3, <3>1
  <2>6. QED
    BY <2>4, <2>5
<1>4. ASSUME NEW d \in Directions, Moving(d), ~(Insert(d) \/ Take(d)) \/ c # d
      PROVE  sent'[c] = sent[c] /\ got'[c] = got[c]
  BY <1>4, InsertCounts, PublishCounts, TakeCounts, TakenCounts DEF Moving
<1>5. Goes => sent'[c] = sent[c] /\ got'[c] = got[c]
  BY DEF Goes
<1>6. QED
  BY <1>1, <1>2, <1>3, <1>4, <1>5, GoesOrMoves

LEMMA PipeInit == Init => PipeInv
<1> SUFFICES ASSUME Init PROVE PipeInv
  OBVIOUS
<1>1. \A d \in Directions : /\ sent[d] = <<>> /\ got[d] = <<>>
                            /\ producer[d] = 0 /\ consumer[d] = 0
  BY DEF Init
<1>2. \A e \in Ends : pc[e] = "ready"
  BY DEF Init
<1>3. \A d \in Directions : Len(sent[d]) = 0 /\ Len(got[d]) = 0 /\ Published(d) = 0 /\ Consumed(d) = 0
  BY <1>1, <1>2, EndsOf DEF Published, Consumed
<1>4. 0 % COUNTER_MOD = 0 /\ RING_BUFFER_SIZE \in Nat \ {0}
  BY Constants, SmallMod
<1>5. CountersInv
  BY <1>1, <1>3, <1>4 DEF CountersInv
<1>6. ArcsInv
  BY <1>2, <1>3, <1>4, Who, EndsOf DEF ArcsInv, Ends
<1>7. RingInv
  <2> SUFFICES ASSUME NEW i \in 0 .. RING_BUFFER_SIZE - 1
               PROVE  queue[MASK(i)] = Slot(i)
    BY <1>3, <1>4, Who DEF RingInv
  <2>1. MASK(i) \in 0 .. RING_BUFFER_SIZE - 1
    BY <1>4, ModRange DEF MASK
  <2>2. Slot(i) = nil
    BY <1>3, Who DEF Slot
  <2>3. QED
    BY <2>1, <2>2 DEF Init
<1>8. GotInv
  BY <1>3 DEF GotInv
<1>9. QED
  BY <1>5, <1>6, <1>7, <1>8 DEF PipeInv

LEMMA PipeNext ==
  ASSUME TypeOK, PipeInv, [Next]_vars
  PROVE  PipeInv'
<1>1. CountersInv /\ CountersInv'
  BY CountersNext DEF PipeInv
<1>2. strain' = {} => strain = {} /\ ArcsInv'
  BY <1>1, ArcsNext DEF PipeInv
<1>3. strain' = {} => RingInv'
  BY <1>1, <1>2, RingNext DEF PipeInv
<1>4. strain' = {} => GotInv'
  BY <1>1, <1>2, GotNext DEF PipeInv
<1>5. QED
  BY <1>1, <1>2, <1>3, <1>4 DEF PipeInv

(* The counters are those of the objects sent and received, and while      *)
(* nothing strains the pipe each slot holds the request or the reply that  *)
(* INSERT put there and REMOVE has yet to take.                            *)
THEOREM PipeCorrect == Spec => [](TypeOK /\ PipeInv)
BY TypeInit, TypeNext, PipeInit, PipeNext, PTL DEF Spec

(* The requests waiting, being served and answered but not received are    *)
(* never more than the slots: INSERT's test, of one direction, is enough   *)
(* for the ring that both share.                                           *)
THEOREM ArcsCorrect == Spec => []Arcs
<1>1. TypeOK /\ PipeInv => Arcs
  BY ArcsImply DEF PipeInv
<1>2. QED
  BY <1>1, PipeCorrect, PTL

(* sendRequest:, nextRequest, sendReply: and nextReply: each direction     *)
(* delivers what was sent in it, in order, once.                           *)
THEOREM InOrderCorrect == Spec => []InOrderUnstrained
<1>1. TypeOK /\ PipeInv => InOrderUnstrained
  <2> SUFFICES ASSUME TypeOK, PipeInv, strain = {}, NEW d \in Directions
               PROVE  IsPrefix(got[d], sent[d])
    BY DEF InOrderUnstrained
  <2>1. Len(got[d]) <= Len(sent[d])
    <3>1. /\ Len(got["reply"]) <= Len(sent["reply"])
          /\ Len(got["request"]) <= Len(sent["request"])
      BY Window DEF PipeInv
    <3>2. QED
      BY <3>1, Who
  <2>2. \A i \in 1 .. Len(got[d]) : got[d][i] = sent[d][i]
    BY DEF PipeInv, GotInv
  <2>3. got[d] \in Seq(Objects) /\ sent[d] \in Seq(Objects)
    BY DEF TypeOK
  <2>4. SubSeq(got[d], 1, Len(got[d])) = SubSeq(sent[d], 1, Len(got[d]))
    BY <2>1, <2>2, <2>3
  <2>5. QED
    BY <2>1, <2>4 DEF IsPrefix
<1>2. QED
  BY <1>1, PipeCorrect, PTL

(* INSERT writes only in a slot that is free: an object nobody has taken   *)
(* is not overwritten.                                                     *)
THEOREM NothingOverwrittenCorrect == Spec => NothingOverwritten
<1>1. ASSUME TypeOK, PipeInv, [Next]_vars,
             NEW i \in DOMAIN queue, strain = {}, queue[i] # nil, queue'[i] # queue[i]
      PROVE  queue'[i] = nil
  <2>1. ASSUME NEW d \in Directions, Take(d)
        PROVE  queue'[i] = nil
    BY <1>1, <2>1 DEF Take, TypeOK
  <2>2. ASSUME NEW d \in Directions, Insert(d)
        PROVE  FALSE
    <3>1. PICK x : queue' = [queue EXCEPT ![MASK(producer[d])] = x]
      BY <2>2 DEF Insert
    <3>2. i = MASK(producer[d])
      BY <1>1, <3>1 DEF TypeOK
    <3>3. CountersInv /\ ArcsInv /\ RingInv
      BY <1>1 DEF PipeInv
    <3>4. /\ Len(sent[d]) \in Len(got["reply"]) .. Len(got["reply"]) + RING_BUFFER_SIZE - 1
          /\ Len(sent["reply"]) <= Len(got["request"]) /\ Len(got["request"]) <= Len(sent["request"])
          /\ d = "reply" => Len(sent["reply"]) < Len(got["request"])
          /\ MASK(producer[d]) = MASK(Len(sent[d]))
      BY <1>1, <2>2, <3>3, InsertSlot
    <3>5. queue[i] = Slot(Len(sent[d]))
      BY <3>2, <3>3, <3>4 DEF RingInv
    <3>6. Slot(Len(sent[d])) = nil
      <4>1. /\ Len(sent["reply"]) \in Nat /\ Len(sent["request"]) \in Nat /\ Len(got["request"]) \in Nat
        BY <1>1, <3>3, Window
      <4>2. CASE d = "request"
        <5>1. ~(Len(sent[d]) < Len(sent["reply"])) /\ ~(Len(sent[d]) < Len(sent["request"]))
          BY <3>4, <4>1, <4>2
        <5>2. QED
          BY <5>1 DEF Slot
      <4>3. CASE d = "reply"
        <5>1. ~(Len(sent[d]) < Len(sent["reply"])) /\ ~(Len(sent[d]) >= Len(got["request"]))
          BY <3>4, <4>1, <4>3
        <5>2. QED
          BY <5>1 DEF Slot
      <4>4. QED
        BY <4>2, <4>3, Who
    <3>7. QED
      BY <1>1, <3>5, <3>6
  <2>3. ASSUME NEW d \in Directions, Publish(d) \/ Taken(d)
        PROVE  FALSE
    BY <1>1, <2>3, PublishCounts, TakenCounts
  <2>4. Goes => FALSE
    BY <1>1 DEF Goes
  <2>5. QED
    BY <1>1, <2>1, <2>2, <2>3, <2>4, GoesOrMoves DEF Moving
<1>2. TypeOK /\ PipeInv /\ [Next]_vars =>
        [\A i \in DOMAIN queue : strain = {} /\ queue[i] # nil /\ queue'[i] # queue[i]
                                 => queue'[i] = nil]_vars
  BY <1>1
<1>3. QED
  BY <1>2, PipeCorrect, PTL DEF Spec, NothingOverwritten
===============================================================================
