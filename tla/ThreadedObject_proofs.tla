------------------------ MODULE ThreadedObject_proofs ------------------------
(***************************************************************************)
(* Proofs about ThreadedObject, for every size of the ring buffer, every   *)
(* width of the counters and every number of messages.                     *)
(***************************************************************************)
EXTENDS ThreadedObject, TLAPS

-------------------------------------------------------------------------------
(* Arithmetic of the ring.                                                 *)

(* Euclid's division, on which the rest of this part is built.             *)
LEMMA DivMod ==
  \A x \in Int, n \in Nat \ {0} :
    /\ x \div n \in Int /\ x % n \in 0 .. n - 1
    /\ x = n * (x \div n) + (x % n)
OBVIOUS

LEMMA ModUnique ==
  ASSUME NEW n \in Nat \ {0}, NEW q \in Int, NEW r \in 0 .. n - 1,
         NEW x \in Int, x = n * q + r
  PROVE  x % n = r
<1> DEFINE p == x \div n
<1>1. p \in Int /\ x % n \in 0 .. n - 1 /\ x = n * p + (x % n)
  BY DivMod
<1>2. n * (p - q) \in -n + 1 .. n - 1
  BY <1>1
<1>3. p - q >= 1 => n * (p - q) >= n
  BY <1>1
<1>4. p - q <= -1 => n * (p - q) <= -n
  BY <1>1
<1>5. p = q
  BY <1>1, <1>2, <1>3, <1>4
<1>6. QED
  BY <1>1, <1>5

LEMMA ModPlus ==
  ASSUME NEW x \in Int, NEW n \in Nat \ {0}, NEW k \in Int
  PROVE  (x + n * k) % n = x % n
<1> DEFINE d == x \div n
           r == x % n
<1>1. d \in Int /\ r \in 0 .. n - 1 /\ x = n * d + r
  BY DivMod
<1>2. x + n * k = n * (d + k) + r /\ d + k \in Int /\ x + n * k \in Int
  BY <1>1
<1> HIDE DEF d, r
<1>3. (x + n * k) % n = r
  BY <1>1, <1>2, ModUnique
<1>4. QED
  BY <1>3 DEF r

LEMMA ModShift ==
  ASSUME NEW n \in Nat \ {0}, NEW x \in Int, NEW k \in Int, NEW q \in Int,
         (x % n) + k \in 0 .. n - 1
  PROVE  (x + k + n * q) % n = (x % n) + k
<1> DEFINE r == x % n
           e == (x \div n) + q
           s == r + k
           y == x + k + n * q
<1>1. x \div n \in Int /\ r \in 0 .. n - 1 /\ x = n * (x \div n) + r
  BY DivMod
<1>2. e \in Int /\ n * e = n * (x \div n) + n * q
  BY <1>1
<1>3. y = n * e + s /\ s \in 0 .. n - 1 /\ y \in Int
  BY <1>1, <1>2
<1> HIDE DEF r, e, s, y
<1>4. y % n = s
  BY ONLY <1>2, <1>3, n \in Nat \ {0}, ModUnique
<1>5. QED
  BY <1>4 DEF r, s, y

LEMMA ModDiffer ==
  ASSUME NEW a \in Int, NEW b \in Int, NEW n \in Nat \ {0}, a - b \in 1 .. n - 1
  PROVE  a % n # b % n
<1> SUFFICES ASSUME a % n = b % n PROVE FALSE
  OBVIOUS
<1> DEFINE d == a \div n
           e == b \div n
<1>1. d \in Int /\ e \in Int /\ a = n * d + (a % n) /\ b = n * e + (b % n)
  BY DivMod
<1> HIDE DEF d, e
<1>2. a - b = n * (d - e)
  BY <1>1
<1>3. d - e <= 0 => n * (d - e) <= 0
  BY <1>1
<1>4. d - e >= 1 => n * (d - e) >= n
  BY <1>1
<1>5. QED
  BY <1>1, <1>2, <1>3, <1>4

(* A remainder is in range: the counters keep to their width, and MASK     *)
(* gives an index of the array.                                            *)
LEMMA ModRange == \A i \in Int, n \in Nat \ {0} : i % n \in 0 .. n - 1
OBVIOUS

LEMMA Constants ==
  /\ QUEUE_SIZE \in Nat \ {0} /\ COUNTER_MOD \in Nat \ {0}
  /\ MaxMessages \in Nat /\ COUNTER_MOD > QUEUE_SIZE /\ QUEUE_SIZE >= 2
BY QueueAssumption

LEMMA MaskType == \A i \in Nat : MASK(i) \in 0 .. QUEUE_SIZE - 1
BY Constants, ModRange DEF MASK

LEMMA AdvanceType ==
  \A c \in 0 .. COUNTER_MOD - 1 : Advance(c) \in 0 .. COUNTER_MOD - 1
<1>1. \A c \in 0 .. COUNTER_MOD - 1 : c + 2 \in Int
  BY Constants
<1>2. QED
  BY <1>1, Constants, ModRange DEF Advance

(* What an advanced counter is, up to its width.                           *)
LEMMA AdvanceIs ==
  ASSUME NEW c \in 0 .. COUNTER_MOD - 1
  PROVE  \E f \in Int : c + 2 = COUNTER_MOD * f + Advance(c) /\ Advance(c) \in Int
<1>1. c + 2 \in Int /\ COUNTER_MOD \in Nat \ {0}
  BY Constants
<1>2. /\ (c + 2) \div COUNTER_MOD \in Int /\ (c + 2) % COUNTER_MOD \in Int
      /\ c + 2 = COUNTER_MOD * ((c + 2) \div COUNTER_MOD) + ((c + 2) % COUNTER_MOD)
  BY ONLY <1>1, DivMod
<1>3. QED
  BY <1>2 DEF Advance

(* A message put in the ring: two more slots in use, wrapped or not.       *)
LEMMA UsedAfterInsert ==
  ASSUME NEW p \in 0 .. COUNTER_MOD - 1, NEW c \in 0 .. COUNTER_MOD - 1,
         ((p - c) % COUNTER_MOD) + 2 < COUNTER_MOD
  PROVE  (Advance(p) - c) % COUNTER_MOD = ((p - c) % COUNTER_MOD) + 2
<1> DEFINE x == p - c
           y == Advance(p) - c
<1>0. PICK f \in Int : p + 2 = COUNTER_MOD * f + Advance(p) /\ Advance(p) \in Int
  BY AdvanceIs
<1>1. PICK q \in Int : Advance(p) = p + 2 + COUNTER_MOD * q
  <2>1. -f \in Int /\ Advance(p) = p + 2 + COUNTER_MOD * (-f)
    BY <1>0, Constants
  <2>2. QED
    BY ONLY <2>1
<1> DEFINE k == 2
<1>2. /\ x \in Int /\ y \in Int /\ q \in Int /\ k \in Int
      /\ y = x + k + COUNTER_MOD * q
  BY <1>1, Constants
<1>3. (x % COUNTER_MOD) + k \in 0 .. COUNTER_MOD - 1
  BY <1>2, Constants, ModRange
<1>4. y % COUNTER_MOD = (x % COUNTER_MOD) + k
  <2>1. COUNTER_MOD \in Nat \ {0}
    BY Constants
  <2> HIDE DEF x, y, k
  <2>2. (x + k + COUNTER_MOD * q) % COUNTER_MOD = (x % COUNTER_MOD) + k
    BY ONLY <1>2, <1>3, <2>1, ModShift, Zenon
  <2>3. QED
    BY ONLY <1>2, <2>2, Zenon
<1>5. QED
  BY <1>4

(* A message taken from the ring: two slots less.                          *)
LEMMA UsedAfterRemove ==
  ASSUME NEW p \in 0 .. COUNTER_MOD - 1, NEW c \in 0 .. COUNTER_MOD - 1,
         (p - c) % COUNTER_MOD >= 2
  PROVE  (p - Advance(c)) % COUNTER_MOD = ((p - c) % COUNTER_MOD) - 2
<1> DEFINE x == p - c
           y == p - Advance(c)
<1>1. PICK f \in Int : c + 2 = COUNTER_MOD * f + Advance(c) /\ Advance(c) \in Int
  BY AdvanceIs
<1> DEFINE k == -2
<1>2. /\ x \in Int /\ y \in Int /\ f \in Int /\ k \in Int
      /\ y = x + k + COUNTER_MOD * f
  <2>1. p \in Int /\ c \in Int /\ COUNTER_MOD * f \in Int
    BY Constants
  <2>2. QED
    BY <1>1, <2>1
<1>3. (x % COUNTER_MOD) + k \in 0 .. COUNTER_MOD - 1
  BY <1>2, Constants, ModRange
<1>4. y % COUNTER_MOD = (x % COUNTER_MOD) + k
  <2>1. COUNTER_MOD \in Nat \ {0}
    BY Constants
  <2> HIDE DEF x, y, k
  <2>2. (x + k + COUNTER_MOD * f) % COUNTER_MOD = (x % COUNTER_MOD) + k
    BY ONLY <1>2, <1>3, <2>1, ModShift, Zenon
  <2>3. QED
    BY ONLY <1>2, <2>2, Zenon
<1>5. x % COUNTER_MOD \in Int
  BY <1>2, Constants, ModRange
<1>6. QED
  BY <1>4, <1>5

(* The slot the client writes next is not one the worker has yet to read:  *)
(* the width of the counters is a multiple of the size of the ring, so the *)
(* slots go round with the counters.                                       *)
LEMMA FreeSlot ==
  ASSUME NEW p \in 0 .. COUNTER_MOD - 1, NEW c \in 0 .. COUNTER_MOD - 1,
         NEW k \in {0, 1}, ((p - c) % COUNTER_MOD) + k < QUEUE_SIZE,
         NEW j \in 0 .. ((p - c) % COUNTER_MOD) - 1
  PROVE  MASK(p + k) # MASK(c + j)
<1> USE Constants
<1> DEFINE d == (p - c) % COUNTER_MOD
           e == (p - c) \div COUNTER_MOD
           g == COUNTER_MOD \div QUEUE_SIZE
<1>1. d \in 0 .. COUNTER_MOD - 1 /\ e \in Int /\ p - c = COUNTER_MOD * e + d
  BY DivMod
<1>2. g \in Int /\ COUNTER_MOD = QUEUE_SIZE * g
  <2>1. COUNTER_MOD = QUEUE_SIZE * g + (COUNTER_MOD % QUEUE_SIZE) /\ g \in Int
    BY DivMod
  <2>2. QED
    BY <2>1, QueueAssumption
<1> DEFINE x == c + d + k
<1>3. (p + k) % QUEUE_SIZE = x % QUEUE_SIZE
  <2> HIDE DEF d, e, g
  <2>1. p + k = x + COUNTER_MOD * e
    BY <1>1
  <2>2. COUNTER_MOD * e = QUEUE_SIZE * (g * e) /\ g * e \in Int
    BY <1>1, <1>2
  <2>3. x \in Int
    BY <1>1
  <2> HIDE DEF x
  <2>4. (x + QUEUE_SIZE * (g * e)) % QUEUE_SIZE = x % QUEUE_SIZE
    BY ONLY <2>2, <2>3, Constants, ModPlus
  <2>5. QED
    BY ONLY <2>1, <2>2, <2>4
<1>4. x - (c + j) \in 1 .. QUEUE_SIZE - 1 /\ x \in Int /\ c + j \in Int
  BY <1>1
<1> HIDE DEF d, e, g, x
<1>5. QED
  BY <1>3, <1>4, ModDiffer DEF MASK

-------------------------------------------------------------------------------
(* Frames: the steps that change each variable.  The other invariants rest *)
(* on these, so that each has to look only at the steps that matter to it. *)

LEMMA CounterFrame ==
  ASSUME [Next]_vars
  PROVE  /\ producer' = producer \/ Publish
         /\ consumer' = consumer \/ Consume
         /\ invocations' = invocations \/ InsertInvocation \/ InsertRetVal
<1> USE DEF Next, Insert, Dealloc, Remove, Run, vars, queueVars, Forward, TestSignal,
    SignalLock, Signal, Poll, DeallocLock, DeallocPoke, DeallocRelock, DeallocSignal,
    Join, DrainPool, Start, TestEmpty, TestTerminate, Lock, WaitOrUnlock, Woken,
    ReadInvocation, ReadRetVal, SpuriousWakeup, Invoke, SetProxy, Release, Exit
<1>1. producer' = producer \/ Publish
  BY DEF InsertInvocation, InsertRetVal, Consume
<1>2. consumer' = consumer \/ Consume
  BY DEF InsertInvocation, InsertRetVal, Publish
<1>3. invocations' = invocations \/ InsertInvocation \/ InsertRetVal
  BY DEF Publish, Consume
<1>4. QED
  BY <1>1, <1>2, <1>3

LEMMA LocalFrame ==
  ASSUME [Next]_vars
  PROVE  /\ invocation' = invocation \/ ReadInvocation
         /\ retVal' = retVal \/ ReadRetVal
<1> USE DEF Next, Insert, Dealloc, Remove, Run, vars, localVars, Forward, TestSignal,
    SignalLock, Signal, Poll, DeallocLock, DeallocPoke, DeallocRelock, DeallocSignal,
    Join, DrainPool, Start, TestEmpty, TestTerminate, Lock, WaitOrUnlock, Woken,
    SpuriousWakeup, Invoke, SetProxy, Release, Exit, InsertInvocation, InsertRetVal,
    Publish, Consume
<1>1. invocation' = invocation \/ ReadInvocation
  BY DEF ReadRetVal
<1>2. retVal' = retVal \/ ReadRetVal
  BY DEF ReadInvocation
<1>3. QED
  BY <1>1, <1>2

LEMMA MessageFrame ==
  ASSUME [Next]_vars
  PROVE  /\ kind' = kind \/ \E k \in Kinds : Forward(k)
         /\ executed' = executed \/ Invoke
         /\ fulfilled' = fulfilled \/ SetProxy
         /\ retained' = retained \/ Release \/ \E k \in Kinds : Forward(k)
<1> USE DEF Next, Insert, Dealloc, Remove, Run, vars, TestSignal,
    SignalLock, Signal, Poll, DeallocLock, DeallocPoke, DeallocRelock, DeallocSignal,
    Join, DrainPool, Start, TestEmpty, TestTerminate, Lock, WaitOrUnlock, Woken,
    SpuriousWakeup, Exit, InsertInvocation, InsertRetVal, Publish, Consume,
    ReadInvocation, ReadRetVal
<1>1. kind' = kind \/ \E k \in Kinds : Forward(k)
  BY DEF Invoke, SetProxy, Release
<1>2. executed' = executed \/ Invoke
  BY DEF Forward, SetProxy, Release
<1>3. fulfilled' = fulfilled \/ SetProxy
  BY DEF Forward, Invoke, Release
<1>4. retained' = retained \/ Release \/ \E k \in Kinds : Forward(k)
  BY DEF Invoke, SetProxy
<1>5. QED
  BY <1>1, <1>2, <1>3, <1>4

LEMMA ObjectFrame ==
  ASSUME [Next]_vars
  PROVE  UNCHANGED <<objectRefs, pooled>> \/ Join \/ DrainPool
BY DEF Next, Insert, Dealloc, Remove, Run, vars, objectVars, Forward, TestSignal,
   SignalLock, Signal, Poll, DeallocLock, DeallocPoke, DeallocRelock, DeallocSignal,
   Start, TestEmpty, TestTerminate, Lock, WaitOrUnlock, Woken,
   SpuriousWakeup, Invoke, SetProxy, Release, Exit, InsertInvocation, InsertRetVal,
   Publish, Consume, ReadInvocation, ReadRetVal

(* The client's place changes by its own steps, which take it from one     *)
(* place to the next.                                                      *)
LEMMA ClientFrame ==
  ASSUME [Next]_vars
  PROVE  \/ clientPc' = clientPc
         \/ \E k \in Kinds : Forward(k)
         \/ InsertInvocation \/ InsertRetVal \/ Publish \/ TestSignal \/ SignalLock
         \/ Signal \/ Poll \/ DeallocLock \/ Dealloc
BY DEF Next, Insert, Remove, Run, vars, DrainPool,
   Start, TestEmpty, TestTerminate, Lock, WaitOrUnlock, Woken,
   SpuriousWakeup, Invoke, SetProxy, Release, Exit,
   Consume, ReadInvocation, ReadRetVal

LEMMA WorkerFrame ==
  ASSUME [Next]_vars
  PROVE  \/ workerPc' = workerPc
         \/ workerPc = "waiting" /\ workerPc' = "woken"
         \/ Start \/ Remove \/ Run
BY DEF Next, Insert, Dealloc, vars, Forward, TestSignal,
   SignalLock, Signal, Poll, DeallocLock, DeallocPoke, DeallocRelock, DeallocSignal,
   Join, DrainPool, SpuriousWakeup, WorkerStep, SignalAndUnlock, InsertInvocation,
   InsertRetVal, Publish

-------------------------------------------------------------------------------
(* Types.  A client that is sending has a message to send.                 *)

Sending == {"insert", "insertRetVal", "publish", "published", "signalLock",
            "signal", "poll"}
TypeInv == TypeOK /\ (clientPc \in Sending => Len(kind) > 0)

LEMMA TypeInit == Init => TypeInv
BY Constants, FlagAssumption DEF Init, TypeInv, TypeOK, Sending, ClientPcs,
   WorkerPcs

(* The messages: what was sent, retained, performed and answered.          *)
LEMMA MessageTypes ==
  ASSUME TypeInv, [Next]_vars
  PROVE  /\ kind' \in Seq(Kinds) /\ Len(kind') <= MaxMessages
         /\ Len(kind') >= Len(kind)
         /\ retained' \subseteq Messages /\ fulfilled' \subseteq Messages
         /\ executed' \in Seq(Messages \union {nil})
<1> USE Constants
<1>1. /\ kind \in Seq(Kinds) /\ Len(kind) <= MaxMessages
      /\ retained \subseteq Messages /\ fulfilled \subseteq Messages
      /\ executed \in Seq(Messages \union {nil})
      /\ invocation \in Messages \union {nil} /\ retVal \in Messages \union {nil}
  BY DEF TypeInv, TypeOK
<1>2. kind' \in Seq(Kinds) /\ Len(kind') <= MaxMessages /\ Len(kind') >= Len(kind)
  <2>1. ASSUME NEW k \in Kinds, Forward(k)
        PROVE  kind' \in Seq(Kinds) /\ Len(kind') = Len(kind) + 1 /\ Len(kind) < MaxMessages
    BY <1>1, <2>1 DEF Forward
  <2>2. QED
    BY <1>1, <2>1, MessageFrame
<1>3. retained' \subseteq Messages
  <2>1. ASSUME NEW k \in Kinds, Forward(k)
        PROVE  Len(kind) + 1 \in Messages /\ retained' = retained \union {Len(kind) + 1}
    BY <1>1, <2>1 DEF Forward, Messages
  <2>2. Release => retained' \subseteq retained
    BY DEF Release
  <2>3. QED
    BY <1>1, <2>1, <2>2, MessageFrame
<1>4. fulfilled' \subseteq Messages
  BY <1>1, MessageFrame DEF SetProxy
<1>5. executed' \in Seq(Messages \union {nil})
  BY <1>1, MessageFrame DEF Invoke
<1>6. QED
  BY <1>2, <1>3, <1>4, <1>5

(* The ring, the counters and what the worker has read.                    *)
LEMMA RingTypes ==
  ASSUME TypeInv, [Next]_vars
  PROVE  /\ producer' \in 0 .. COUNTER_MOD - 1 /\ consumer' \in 0 .. COUNTER_MOD - 1
         /\ invocations' \in [0 .. QUEUE_SIZE - 1 -> Messages \union {nil}]
         /\ invocation' \in Messages \union {nil} /\ retVal' \in Messages \union {nil}
<1>1. /\ producer \in 0 .. COUNTER_MOD - 1 /\ consumer \in 0 .. COUNTER_MOD - 1
      /\ invocations \in [0 .. QUEUE_SIZE - 1 -> Messages \union {nil}]
      /\ invocation \in Messages \union {nil} /\ retVal \in Messages \union {nil}
  BY DEF TypeInv, TypeOK
<1>2. MASK(consumer) \in 0 .. QUEUE_SIZE - 1 /\ MASK(consumer + 1) \in 0 .. QUEUE_SIZE - 1
  <2>1. consumer \in Nat /\ consumer + 1 \in Nat
    BY <1>1
  <2>2. QED
    BY ONLY <2>1, MaskType
<1>3. clientPc \in {"insert", "insertRetVal"} => Len(kind) \in Messages
  <2>1. Len(kind) \in Nat /\ Len(kind) <= MaxMessages
    BY DEF TypeInv, TypeOK
  <2>2. clientPc \in {"insert", "insertRetVal"} => Len(kind) > 0
    BY DEF TypeInv, Sending
  <2>3. QED
    BY <2>1, <2>2, Constants DEF Messages
<1>4. producer' \in 0 .. COUNTER_MOD - 1
  BY <1>1, CounterFrame, AdvanceType DEF Publish
<1>5. consumer' \in 0 .. COUNTER_MOD - 1
  BY <1>1, CounterFrame, AdvanceType DEF Consume
<1>6. invocations' \in [0 .. QUEUE_SIZE - 1 -> Messages \union {nil}]
  <2>1. \A i, x : x \in Messages \union {nil} =>
          [invocations EXCEPT ![i] = x] \in [0 .. QUEUE_SIZE - 1 -> Messages \union {nil}]
    BY <1>1
  <2>2. InsertInvocation => \E i, x : /\ x \in Messages \union {nil}
                                      /\ invocations' = [invocations EXCEPT ![i] = x]
    BY <1>3 DEF InsertInvocation, ClientStep
  <2>3. InsertRetVal => \E i, x : /\ x \in Messages \union {nil}
                                  /\ invocations' = [invocations EXCEPT ![i] = x]
    BY <1>3 DEF InsertRetVal, ClientStep
  <2>4. QED
    BY <1>1, <2>1, <2>2, <2>3, CounterFrame
<1>7. invocation' \in Messages \union {nil}
  BY <1>1, <1>2, LocalFrame DEF ReadInvocation
<1>8. retVal' \in Messages \union {nil}
  BY <1>1, <1>2, LocalFrame DEF ReadRetVal
<1>9. QED
  BY <1>4, <1>5, <1>6, <1>7, <1>8

(* The places of the two threads, and what only they change.               *)
LEMMA PlaceTypes ==
  ASSUME TypeInv, [Next]_vars
  PROVE  /\ clientPc' \in ClientPcs /\ workerPc' \in WorkerPcs
         /\ clientPc' \in Sending => clientPc \in Sending \/ Len(kind') > 0
<1>1. clientPc \in ClientPcs /\ workerPc \in WorkerPcs /\ Len(kind) \in Nat
  BY DEF TypeInv, TypeOK
<1>2. clientPc' \in ClientPcs
  BY <1>1, ClientFrame DEF ClientPcs, ClientStep, Forward, InsertInvocation, InsertRetVal,
     Publish, TestSignal, SignalLock, Signal, Poll, DeallocLock, Dealloc, DeallocPoke,
     DeallocRelock, DeallocSignal, Join, AfterInsert
<1>3. workerPc' \in WorkerPcs
  BY <1>1, WorkerFrame DEF WorkerPcs, WorkerStep, Start, Remove, Run, TestEmpty,
     TestTerminate, Lock, WaitOrUnlock, Woken, ReadInvocation, ReadRetVal, Consume,
     Invoke, SetProxy, Release, Exit
<1>4. ASSUME NEW k \in Kinds, Forward(k)
      PROVE  Len(kind') > 0
  BY <1>4 DEF Forward, TypeInv, TypeOK
<1>5. clientPc' \in Sending => clientPc \in Sending \/ \E k \in Kinds : Forward(k)
  BY ClientFrame DEF Sending, ClientStep, InsertInvocation, InsertRetVal,
     Publish, TestSignal, SignalLock, Signal, Poll, DeallocLock, Dealloc, DeallocPoke,
     DeallocRelock, DeallocSignal, Join
<1>6. QED
  BY <1>2, <1>3, <1>4, <1>5

LEMMA FlagTypes ==
  ASSUME TypeInv, [Next]_vars
  PROVE  /\ mutex' \in {"none", "client", "worker"}
         /\ terminate' \in BOOLEAN /\ thread' \in BOOLEAN
         /\ objectRefs' \in Int /\ pooled' \in BOOLEAN
<1>1. /\ mutex \in {"none", "client", "worker"}
      /\ terminate \in BOOLEAN /\ thread \in BOOLEAN
      /\ objectRefs \in Int /\ pooled \in BOOLEAN
  BY DEF TypeInv, TypeOK
<1>2. objectRefs' \in Int /\ pooled' \in BOOLEAN
  <2>1. CASE UNCHANGED <<objectRefs, pooled>>
    BY <1>1, <2>1
  <2>2. CASE Join
    BY <1>1, <2>2 DEF Join
  <2>3. CASE DrainPool
    <3>1. objectRefs' = objectRefs - 1 /\ pooled' = FALSE
      BY <2>3, Zenon DEF DrainPool
    <3>2. objectRefs \in Int
      BY ONLY <1>1, Zenon
    <3>3. objectRefs' \in Int
      BY ONLY <3>1, <3>2
    <3>4. pooled' \in BOOLEAN
      BY ONLY <3>1, Zenon
    <3>5. QED
      BY ONLY <3>3, <3>4, Zenon
  <2>4. QED
    BY <2>1, <2>2, <2>3, ObjectFrame
<1> USE DEF Next, Insert, Dealloc, Remove, Run, vars, Forward, TestSignal,
    SignalLock, Signal, Poll, DeallocLock, DeallocPoke, DeallocRelock, DeallocSignal,
    Join, DrainPool, Start, TestEmpty, TestTerminate, Lock, WaitOrUnlock, Woken,
    SpuriousWakeup, Invoke, SetProxy, Release, Exit, InsertInvocation, InsertRetVal,
    Publish, Consume, ReadInvocation, ReadRetVal, SignalAndUnlock
<1>3. mutex' = mutex \/ mutex' \in {"none", "client", "worker"}
  OBVIOUS
<1>4. terminate' = terminate \/ terminate' = TRUE
  OBVIOUS
<1>5. thread' = thread \/ thread' = TRUE
  OBVIOUS
<1>6. QED
  BY ONLY <1>1, <1>2, <1>3, <1>4, <1>5

LEMMA TypeNext == TypeInv /\ [Next]_vars => TypeInv'
<1> SUFFICES ASSUME TypeInv, [Next]_vars PROVE TypeInv'
  OBVIOUS
<1>1. TypeOK'
  BY MessageTypes, RingTypes, PlaceTypes, FlagTypes DEF TypeOK
<1>2. clientPc' \in Sending => Len(kind') > 0
  <2>1. clientPc \in Sending => Len(kind) > 0
    BY DEF TypeInv
  <2>2. Len(kind) \in Nat /\ Len(kind') \in Nat /\ Len(kind') >= Len(kind)
    BY MessageTypes DEF TypeInv, TypeOK
  <2>3. QED
    BY <2>1, <2>2, PlaceTypes
<1>3. QED
  BY <1>1, <1>2 DEF TypeInv

(* Every variable keeps its type, the counters their width.                *)
THEOREM TypeCorrect == Spec => []TypeOK
<1>1. TypeInv => TypeOK
  BY DEF TypeInv
<1>2. QED
  BY TypeInit, TypeNext, <1>1, PTL DEF Spec

-------------------------------------------------------------------------------
(* The wake-up of the worker.                                              *)

(* NoLostWakeup is inductive: only Publish fills the queue of a worker that *)
(* sleeps, and it was empty before, so that Used = 2 and the client signals.*)
LEMMA WakeupNext == TypeInv /\ NoLostWakeup /\ [Next]_vars => NoLostWakeup'
<1> SUFFICES ASSUME TypeInv, NoLostWakeup, [Next]_vars PROVE NoLostWakeup'
  OBVIOUS
<1> USE DEF NoLostWakeup, ISEMPTY, Used, ClientStep, WorkerStep, queueVars
<1>1. CASE \E k \in Kinds : Forward(k)
  BY <1>1 DEF Forward
<1>2. CASE InsertInvocation \/ InsertRetVal \/ SignalLock \/ Poll
  BY <1>2 DEF InsertInvocation, InsertRetVal, SignalLock, Poll
<1>3. CASE Publish
  <2>1. CASE workerPc = "waiting"
    <3>1. (producer - consumer) % COUNTER_MOD = 0
      BY <1>3, <2>1 DEF Publish
    <3>2. (producer' - consumer') % COUNTER_MOD = 2
      BY <1>3, <3>1, Constants, UsedAfterInsert DEF Publish, TypeInv, TypeOK
    <3>3. QED
      BY <1>3, <3>2 DEF Publish
  <2>2. CASE workerPc # "waiting"
    BY <1>3, <2>2 DEF Publish
  <2>3. QED
    BY <2>1, <2>2
<1>4. CASE TestSignal
  BY <1>4 DEF TestSignal
<1>5. CASE Signal \/ DeallocPoke \/ DeallocSignal
  BY <1>5 DEF Signal, DeallocPoke, DeallocSignal, SignalAndUnlock
<1>6. CASE DeallocLock \/ DeallocRelock \/ Join \/ DrainPool
  BY <1>6 DEF DeallocLock, DeallocRelock, Join, DrainPool
<1>7. CASE Start \/ TestEmpty \/ TestTerminate \/ Lock
  BY <1>7 DEF Start, TestEmpty, TestTerminate, Lock
<1>8. CASE WaitOrUnlock
  BY <1>8 DEF WaitOrUnlock
<1>9. CASE Woken \/ SpuriousWakeup \/ ReadInvocation \/ ReadRetVal \/ Consume
  BY <1>9 DEF Woken, SpuriousWakeup, ReadInvocation, ReadRetVal, Consume
<1>10. CASE Run
  BY <1>10 DEF Run, Invoke, SetProxy, Release, Exit
<1>11. CASE UNCHANGED vars
  BY <1>11 DEF vars
<1>12. QED
  BY <1>1, <1>2, <1>3, <1>4, <1>5, <1>6, <1>7, <1>8, <1>9, <1>10, <1>11
     DEF Next, Insert, Dealloc, Remove

(* A worker never sleeps over a message nobody is about to wake it for: the*)
(* test of ISEMPTY under the mutex and the client's test for an emptiness  *)
(* before its message (lines 116-123 and 144-150) fit together.            *)
THEOREM WakeupCorrect == Spec => []NoLostWakeup
<1>1. Init => NoLostWakeup
  BY DEF Init, NoLostWakeup
<1>2. QED
  BY TypeInit, TypeNext, WakeupNext, <1>1, PTL DEF Spec

-------------------------------------------------------------------------------
(* The slots of the ring.  Messages take two slots, so the ring is full or *)
(* has room for one; the client has passed the test of ISFULL while it     *)
(* writes, and the worker that of ISEMPTY while it reads.                  *)

Writing == {"insertRetVal", "publish"}
Reading == {"readInvocation", "readRetVal", "consume"}
RingInv == /\ Used \in 0 .. QUEUE_SIZE /\ Used % 2 = 0
           /\ clientPc \in Writing => Used + 2 <= QUEUE_SIZE
           /\ workerPc \in Reading => Used >= 2

LEMMA RingInit == Init => RingInv
<1> SUFFICES ASSUME Init PROVE RingInv
  OBVIOUS
<1>1. Used = 0
  <2>1. 0 = COUNTER_MOD * 0 + 0 /\ 0 \in 0 .. COUNTER_MOD - 1
    BY Constants
  <2>2. 0 % COUNTER_MOD = 0
    BY <2>1, Constants, ModUnique
  <2>3. QED
    BY <2>2 DEF Init, Used
<1>2. QED
  BY <1>1, Constants DEF Init, RingInv, Writing, Reading

(* Between the counters' moves nothing changes but who reads and writes.   *)
LEMMA RingNext == TypeInv /\ RingInv /\ [Next]_vars => RingInv'
<1> SUFFICES ASSUME TypeInv, RingInv, [Next]_vars PROVE RingInv'
  OBVIOUS
<1>u. Used \in Int /\ QUEUE_SIZE \in Int /\ QUEUE_SIZE % 2 = 0
  BY Constants, QueueAssumption DEF RingInv
<1>t. producer \in 0 .. COUNTER_MOD - 1 /\ consumer \in 0 .. COUNTER_MOD - 1
  BY DEF TypeInv, TypeOK
<1>1. CASE Publish
  <2>1. Used' = Used + 2
    <3>1. Used + 2 < COUNTER_MOD
      BY <1>1, Constants DEF Publish, ClientStep, RingInv, Writing
    <3>2. QED
      BY <1>1, <1>t, <3>1, UsedAfterInsert DEF Publish, Used
  <2>2. QED
    BY <1>1, <1>u, <2>1 DEF Publish, ClientStep, RingInv, Writing, Reading
<1>2. CASE Consume
  <2>1. Used' = Used - 2
    <3>1. Used >= 2
      BY <1>2 DEF Consume, WorkerStep, RingInv, Reading
    <3>2. QED
      BY <1>2, <1>t, <3>1, UsedAfterRemove DEF Consume, Used
  <2>2. QED
    BY <1>2, <1>u, <2>1 DEF Consume, WorkerStep, RingInv, Writing, Reading
<1>3. CASE InsertInvocation
  <2>1. Used' = Used /\ clientPc' = "insertRetVal" /\ workerPc' = workerPc
    BY <1>3 DEF InsertInvocation, ClientStep, Used
  <2>2. Used # QUEUE_SIZE
    BY <1>3, <1>u DEF InsertInvocation, ISFULL
  <2>3. Used + 2 <= QUEUE_SIZE
    BY <1>u, <2>2 DEF RingInv
  <2>4. QED
    BY <2>1, <2>3 DEF RingInv
<1>4. CASE TestEmpty
  <2>1. Used' = Used /\ clientPc' = clientPc
    BY <1>4 DEF TestEmpty, queueVars, Used
  <2>2. Used # 0 => Used >= 2
    BY <1>u DEF RingInv
  <2>3. workerPc' \in Reading => Used # 0
    BY <1>4 DEF TestEmpty, WorkerStep, ISEMPTY, Reading
  <2>4. QED
    BY <2>1, <2>2, <2>3 DEF RingInv
<1>5. CASE \/ \E k \in Kinds : Forward(k)
           \/ InsertRetVal \/ TestSignal \/ SignalLock \/ Signal \/ Poll
           \/ DeallocLock \/ Dealloc \/ DrainPool
           \/ Start \/ TestTerminate \/ Lock \/ WaitOrUnlock \/ Woken
           \/ ReadInvocation \/ ReadRetVal \/ SpuriousWakeup \/ Run
           \/ UNCHANGED vars
  <2> USE DEF queueVars, ClientStep, WorkerStep, Writing, Reading
  <2>1. producer' = producer /\ consumer' = consumer
    BY <1>5 DEF Forward, InsertRetVal, TestSignal, SignalLock, Signal, Poll,
       DeallocLock, Dealloc, DeallocPoke, DeallocRelock, DeallocSignal, Join,
       DrainPool, Start, TestTerminate, Lock, WaitOrUnlock, Woken,
       ReadInvocation, ReadRetVal, SpuriousWakeup, Run, Invoke, SetProxy,
       Release, Exit, vars
  <2>2. clientPc' \in Writing => clientPc \in Writing
    BY <1>5 DEF Forward, InsertRetVal, TestSignal, SignalLock, Signal, Poll,
       DeallocLock, Dealloc, DeallocPoke, DeallocRelock, DeallocSignal, Join,
       DrainPool, Start, TestTerminate, Lock, WaitOrUnlock, Woken,
       ReadInvocation, ReadRetVal, SpuriousWakeup, Run, Invoke, SetProxy,
       Release, Exit, vars, AfterInsert
  <2>3. workerPc' \in Reading => workerPc \in Reading
    BY <1>5 DEF Forward, InsertRetVal, TestSignal, SignalLock, Signal, Poll,
       DeallocLock, Dealloc, DeallocPoke, DeallocRelock, DeallocSignal, Join,
       DrainPool, Start, TestTerminate, Lock, WaitOrUnlock, Woken,
       ReadInvocation, ReadRetVal, SpuriousWakeup, Run, Invoke, SetProxy,
       Release, Exit, vars, SignalAndUnlock
  <2>4. Used' = Used
    BY <2>1 DEF Used
  <2>5. QED
    BY <2>2, <2>3, <2>4 DEF RingInv
<1>6. QED
  BY <1>1, <1>2, <1>3, <1>4, <1>5 DEF Next, Insert, Remove

(* Only InsertInvocation and InsertRetVal write, each into a slot that is  *)
(* not in use.                                                             *)
LEMMA UnreadStep ==
  TypeInv /\ RingInv /\ [Next]_vars => \A i \in Unread : invocations'[i] = invocations[i]
<1> SUFFICES ASSUME TypeInv, RingInv, [Next]_vars, NEW i \in Unread
             PROVE  invocations'[i] = invocations[i]
  OBVIOUS
<1>u. Used \in Int /\ QUEUE_SIZE \in Int /\ QUEUE_SIZE % 2 = 0
  BY Constants, QueueAssumption DEF RingInv
<1>t. producer \in 0 .. COUNTER_MOD - 1 /\ consumer \in 0 .. COUNTER_MOD - 1
  BY DEF TypeInv, TypeOK
<1>p. PICK j \in 0 .. Used - 1 : i = MASK(consumer + j)
  BY DEF Unread
<1>i. i \in 0 .. QUEUE_SIZE - 1
  <2>1. consumer + j \in Nat
    BY <1>t, <1>p
  <2>2. QED
    BY <1>p, <2>1, MaskType
<1>1. CASE InsertInvocation
  <2>1. Used + 0 < QUEUE_SIZE
    BY <1>1, <1>u DEF InsertInvocation, ISFULL, RingInv
  <2>2. i # MASK(producer + 0)
    BY <1>p, <1>t, <2>1, FreeSlot DEF Used
  <2>3. producer + 0 = producer
    BY <1>t
  <2>4. QED
    BY <1>1, <2>2, <2>3, <1>i DEF InsertInvocation, TypeInv, TypeOK
<1>2. CASE InsertRetVal
  <2>1. Used + 1 < QUEUE_SIZE
    BY <1>2, <1>u DEF InsertRetVal, ClientStep, RingInv, Writing
  <2>2. i # MASK(producer + 1)
    BY <1>p, <1>t, <2>1, FreeSlot DEF Used
  <2>3. QED
    BY <1>2, <2>2, <1>i DEF InsertRetVal, TypeInv, TypeOK
<1>3. CASE ~InsertInvocation /\ ~InsertRetVal
  <2>1. invocations' = invocations
    BY <1>3 DEF Next, Insert, Remove, Forward, Publish, TestSignal, SignalLock,
       Signal, Poll, DeallocLock, Dealloc, DeallocPoke, DeallocRelock,
       DeallocSignal, Join, DrainPool, Start, TestEmpty, TestTerminate, Lock,
       WaitOrUnlock, Woken, ReadInvocation, ReadRetVal, Consume,
       SpuriousWakeup, Run, Invoke, SetProxy, Release, Exit, vars, queueVars
  <2>2. QED
    BY <2>1
<1>4. QED
  BY <1>1, <1>2, <1>3

(* A slot that holds a message the worker has not read yet is never        *)
(* written, however the counters have wrapped (INSERT, lines 108-115).     *)
THEOREM UnreadCorrect == Spec => UnreadSlotsKept
<1>1. Spec => [](TypeInv /\ RingInv)
  BY TypeInit, TypeNext, RingInit, RingNext, PTL DEF Spec
<1>2. TypeInv /\ RingInv /\ [Next]_vars
        => [\A i \in Unread : invocations'[i] = invocations[i]]_vars
  BY UnreadStep
<1>3. QED
  BY <1>1, <1>2, PTL DEF Spec, UnreadSlotsKept

-------------------------------------------------------------------------------
(* The life of the object: the proxy's reference lasts until it has joined *)
(* the worker, and the creator's pool has one of its own.                  *)

LifeInv ==
  /\ objectRefs = (IF pooled THEN 1 ELSE 0) + (IF clientPc = "freed" THEN 0 ELSE 1)
  /\ clientPc = "freed" => workerPc = "exited"

LEMMA LifeInit == Init /\ Owned => LifeInv
BY FlagAssumption DEF Init, LifeInv

LEMMA LifeNext == TypeInv /\ LifeInv /\ [Next]_vars => LifeInv'
<1> SUFFICES ASSUME TypeInv, LifeInv, [Next]_vars PROVE LifeInv'
  OBVIOUS
<1> USE DEF LifeInv, ClientStep, WorkerStep, objectVars
<1>1. CASE (\E k \in Kinds : Forward(k)) \/ Insert \/ DeallocLock
  <2>1. /\ UNCHANGED <<objectRefs, pooled>>
        /\ clientPc # "freed" /\ clientPc' # "freed"
    BY <1>1 DEF Forward, Insert, InsertInvocation, InsertRetVal, Publish,
       TestSignal, SignalLock, Signal, Poll, DeallocLock, AfterInsert
  <2>2. QED
    BY <2>1
<1>2. CASE DeallocPoke \/ DeallocRelock \/ DeallocSignal
  <2>1. /\ UNCHANGED <<objectRefs, pooled>>
        /\ clientPc # "freed" /\ clientPc' # "freed"
    BY <1>2 DEF DeallocPoke, DeallocRelock, DeallocSignal
  <2>2. QED
    BY <2>1
<1>3. CASE Join
  BY <1>3 DEF Join
<1>4. CASE DrainPool
  BY <1>4 DEF DrainPool
<1>5. CASE Start \/ Remove \/ SpuriousWakeup \/ Run
  <2>1. UNCHANGED <<objectRefs, pooled, clientPc>> /\ workerPc # "exited"
    BY <1>5 DEF Start, Remove, TestEmpty, TestTerminate, Lock, WaitOrUnlock,
       Woken, ReadInvocation, ReadRetVal, Consume, SpuriousWakeup, Run, Invoke,
       SetProxy, Release, Exit
  <2>2. QED
    BY <2>1
<1>6. CASE UNCHANGED vars
  BY <1>6 DEF vars
<1>7. QED
  BY <1>1, <1>2, <1>3, <1>4, <1>5, <1>6 DEF Next, Dealloc

(* An object of its own is never used after its last reference is gone,    *)
(* nor released twice (dealloc, lines 225-236); the assumption is what     *)
(* +threadedNew does and -inNewThread leaves to its caller.                *)
THEOREM ObjectCorrect == Owned /\ Spec => []ObjectOutlivesUse
<1>1. LifeInv => ObjectOutlivesUse
  <2> SUFFICES ASSUME LifeInv PROVE ObjectOutlivesUse
    OBVIOUS
  <2>1. CASE clientPc = "freed"
    BY <2>1 DEF LifeInv, ObjectOutlivesUse
  <2>2. CASE clientPc # "freed"
    BY <2>2 DEF LifeInv, ObjectOutlivesUse
  <2>3. QED
    BY <2>1, <2>2
<1>2. QED
  BY TypeInit, TypeNext, LifeInit, LifeNext, <1>1, PTL DEF Spec
-------------------------------------------------------------------------------
(* The way of the messages: put in the ring in the order they are sent,    *)
(* taken from it in that order, each with its own future.                  *)

Put   == Len(kind) - (IF clientPc \in {"insert", "insertRetVal", "publish"} THEN 1 ELSE 0)
Taken == Len(executed) + (IF workerPc = "invoke" THEN 1 ELSE 0)
Future(m) == IF kind[m] = "object" THEN m ELSE nil

(* As many slots are in use as the messages put and not taken need.        *)
CountInv == Used = 2 * (Put - Taken)

(* The ring holds these messages and their futures, and behind them what   *)
(* the client has written so far.                                          *)
ContentInv ==
  /\ \A j \in 0 .. Put - Taken - 1 :
       /\ invocations[MASK(consumer + 2 * j)] = Taken + 1 + j
       /\ invocations[MASK(consumer + (2 * j + 1))] = Future(Taken + 1 + j)
  /\ clientPc \in Writing => invocations[MASK(producer)] = Len(kind)
  /\ clientPc = "publish" => invocations[MASK(producer + 1)] = Future(Len(kind))

(* What runloop: has in its locals.                                        *)
LocalInv ==
  /\ workerPc \in {"readRetVal", "consume"} => invocation = Taken + 1
  /\ workerPc = "consume" => retVal = Future(Taken + 1)
  /\ workerPc \in {"invoke", "setProxy", "release"} => invocation = Taken /\ Taken > 0
  /\ workerPc \in {"invoke", "setProxy"} => retVal = Future(Taken)

(* What it has done with the messages it took.                             *)
DoneInv ==
  /\ \A m \in 1 .. Len(executed) : executed[m] = m
  /\ fulfilled = {m \in 1 .. Len(executed) :
                    kind[m] = "object" /\ (workerPc = "setProxy" => m # Len(executed))}
  /\ Len(executed) + 1 .. Len(kind) \subseteq retained

FlowInv == CountInv /\ ContentInv /\ LocalInv /\ DoneInv

(* The slots go round with the counters: the client writes where the       *)
(* messages in the ring end, and the worker goes on where it has read.     *)
LEMMA SlotEnd ==
  ASSUME NEW p \in 0 .. COUNTER_MOD - 1, NEW c \in 0 .. COUNTER_MOD - 1, NEW k \in Nat
  PROVE  MASK(c + ((p - c) % COUNTER_MOD) + k) = MASK(p + k)
<1> DEFINE d == (p - c) % COUNTER_MOD
           e == (p - c) \div COUNTER_MOD
           g == COUNTER_MOD \div QUEUE_SIZE
           x == c + d + k
<1>1. d \in Int /\ e \in Int /\ p - c = COUNTER_MOD * e + d
  BY Constants, DivMod
<1>2. g \in Int /\ COUNTER_MOD = QUEUE_SIZE * g
  <2>1. COUNTER_MOD = QUEUE_SIZE * g + (COUNTER_MOD % QUEUE_SIZE) /\ g \in Int
    BY Constants, DivMod
  <2>2. QED
    BY <2>1, QueueAssumption
<1> HIDE DEF d, e, g
<1>3. p + k = x + COUNTER_MOD * e /\ x \in Int
  BY <1>1, Constants
<1>4. COUNTER_MOD * e = QUEUE_SIZE * (g * e) /\ g * e \in Int
  BY <1>1, <1>2, Constants
<1>5. (x + QUEUE_SIZE * (g * e)) % QUEUE_SIZE = x % QUEUE_SIZE
  BY ONLY <1>3, <1>4, Constants, ModPlus
<1>6. QED
  BY ONLY <1>3, <1>4, <1>5 DEF MASK, x, d

LEMMA SlotNext ==
  ASSUME NEW c \in 0 .. COUNTER_MOD - 1, NEW k \in Nat
  PROVE  MASK(Advance(c) + k) = MASK(c + 2 + k)
<1> DEFINE g == COUNTER_MOD \div QUEUE_SIZE
<1>1. PICK f \in Int : c + 2 = COUNTER_MOD * f + Advance(c) /\ Advance(c) \in Int
  BY AdvanceIs
<1>2. g \in Int /\ COUNTER_MOD = QUEUE_SIZE * g
  <2>1. COUNTER_MOD = QUEUE_SIZE * g + (COUNTER_MOD % QUEUE_SIZE) /\ g \in Int
    BY Constants, DivMod
  <2>2. QED
    BY <2>1, QueueAssumption
<1> DEFINE x == Advance(c) + k
<1> HIDE DEF g
<1>3. c + 2 + k = x + COUNTER_MOD * f /\ x \in Int
  BY <1>1, Constants
<1>4. COUNTER_MOD * f = QUEUE_SIZE * (g * f) /\ g * f \in Int
  BY <1>1, <1>2, Constants
<1>5. (x + QUEUE_SIZE * (g * f)) % QUEUE_SIZE = x % QUEUE_SIZE
  <2> HIDE DEF x
  <2>1. QED
    BY ONLY <1>3, <1>4, Constants, ModPlus
<1>6. QED
  BY ONLY <1>3, <1>4, <1>5 DEF MASK, x

(* The client's two slots are two slots.                                   *)
LEMMA SlotPair ==
  ASSUME NEW p \in 0 .. COUNTER_MOD - 1
  PROVE  MASK(p) # MASK(p + 1)
<1>1. (p + 1) - p \in 1 .. QUEUE_SIZE - 1 /\ p \in Int /\ p + 1 \in Int
  BY Constants
<1>2. QED
  BY <1>1, Constants, ModDiffer DEF MASK

(* How Used, Put and Taken move.                                           *)
LEMMA UsedMoves ==
  ASSUME TypeInv, RingInv, [Next]_vars
  PROVE  /\ Publish => Used' = Used + 2 /\ ~Consume
         /\ Consume => Used' = Used - 2 /\ ~Publish
         /\ ~Publish /\ ~Consume => Used' = Used
<1>t. producer \in 0 .. COUNTER_MOD - 1 /\ consumer \in 0 .. COUNTER_MOD - 1
  BY DEF TypeInv, TypeOK
<1>1. ASSUME Publish PROVE Used' = Used + 2
  <2>1. Used + 2 < COUNTER_MOD
    BY <1>1, Constants DEF Publish, ClientStep, RingInv, Writing
  <2>2. QED
    BY <1>1, <1>t, <2>1, UsedAfterInsert DEF Publish, Used
<1>2. ASSUME Consume PROVE Used' = Used - 2
  <2>1. Used >= 2
    BY <1>2 DEF Consume, WorkerStep, RingInv, Reading
  <2>2. QED
    BY <1>2, <1>t, <2>1, UsedAfterRemove DEF Consume, Used
<1>3. ~(Publish /\ Consume)
  BY DEF Publish, Consume, WorkerStep
<1>4. ~Publish /\ ~Consume => Used' = Used
  BY CounterFrame DEF Used
<1>5. QED
  BY <1>1, <1>2, <1>3, <1>4

LEMMA FlowTypes ==
  ASSUME TypeInv
  PROVE  /\ Len(kind) \in Nat /\ Len(executed) \in Nat
         /\ Put \in Nat /\ Put <= Len(kind)
         /\ Taken \in Nat /\ Taken >= Len(executed)
<1>1. Len(kind) \in Nat /\ Len(executed) \in Nat
  BY DEF TypeInv, TypeOK
<1>2. clientPc \in {"insert", "insertRetVal", "publish"} => Len(kind) > 0
  BY DEF TypeInv, Sending
<1>3. QED
  BY <1>1, <1>2 DEF Put, Taken

LEMMA PutMoves ==
  ASSUME TypeInv, [Next]_vars
  PROVE  /\ Publish => Put' = Put + 1
         /\ ~Publish => Put' = Put
<1>0. Len(kind) \in Nat /\ kind \in Seq(Kinds)
  BY DEF TypeInv, TypeOK
<1>1. CASE \E k \in Kinds : Forward(k)
  <2>1. Len(kind') = Len(kind) + 1 /\ clientPc = "ready" /\ clientPc' = "insert"
    BY <1>0, <1>1 DEF Forward, ClientStep
  <2>2. ~Publish
    BY <2>1 DEF Publish, ClientStep
  <2>3. QED
    BY <1>0, <2>1, <2>2 DEF Put
<1>2. CASE ~\E k \in Kinds : Forward(k)
  <2>1. kind' = kind
    BY <1>2, MessageFrame
  <2>2. CASE Publish
    BY <1>0, <2>1, <2>2 DEF Publish, ClientStep, Put
  <2>3. CASE ~Publish
    <3> DEFINE Before == {"insert", "insertRetVal", "publish"}
    <3>1. clientPc' \in Before <=> clientPc \in Before
      BY <1>2, <2>3, ClientFrame DEF ClientStep, InsertInvocation, InsertRetVal,
         TestSignal, SignalLock, Signal, Poll, DeallocLock, Dealloc, DeallocPoke,
         DeallocRelock, DeallocSignal, Join, AfterInsert
    <3>2. QED
      BY <2>1, <2>3, <3>1 DEF Put
  <2>4. QED
    BY <2>2, <2>3
<1>3. QED
  BY <1>1, <1>2

LEMMA TakenMoves ==
  ASSUME TypeInv, [Next]_vars
  PROVE  /\ Consume => Taken' = Taken + 1
         /\ ~Consume => Taken' = Taken
<1>0. Len(executed) \in Nat /\ executed \in Seq(Messages \union {nil})
  BY DEF TypeInv, TypeOK
<1>1. CASE Invoke
  <2>1. /\ Len(executed') = Len(executed) + 1
        /\ workerPc = "invoke" /\ workerPc' = "setProxy"
    BY <1>0, <1>1 DEF Invoke, WorkerStep, TypeInv, TypeOK
  <2>2. ~Consume
    BY <2>1 DEF Consume, WorkerStep
  <2>3. QED
    BY <1>0, <2>1, <2>2 DEF Taken
<1>2. CASE ~Invoke
  <2>1. executed' = executed
    BY <1>2, MessageFrame
  <2>2. CASE Consume
    BY <1>0, <2>1, <2>2 DEF Consume, WorkerStep, Taken
  <2>3. CASE ~Consume
    <3>1. workerPc' = "invoke" <=> workerPc = "invoke"
      BY <1>2, <2>3, WorkerFrame DEF WorkerStep, Start, Remove, Run, TestEmpty,
         TestTerminate, Lock, WaitOrUnlock, Woken, ReadInvocation, ReadRetVal,
         SetProxy, Release, Exit
    <3>2. QED
      BY <2>1, <2>3, <3>1 DEF Taken
  <2>4. QED
    BY <2>2, <2>3
<1>3. QED
  BY <1>1, <1>2

LEMMA CountNext ==
  ASSUME TypeInv, RingInv, CountInv, [Next]_vars
  PROVE  CountInv'
<1>1. Put \in Int /\ Taken \in Int /\ Used = 2 * (Put - Taken)
  BY FlowTypes DEF CountInv
<1>2. CASE Publish
  BY <1>1, <1>2, UsedMoves, PutMoves, TakenMoves DEF CountInv
<1>3. CASE Consume
  BY <1>1, <1>3, UsedMoves, PutMoves, TakenMoves DEF CountInv
<1>4. CASE ~Publish /\ ~Consume
  BY <1>1, <1>4, UsedMoves, PutMoves, TakenMoves DEF CountInv
<1>5. QED
  BY <1>2, <1>3, <1>4

(* A message that has been sent keeps its return type.                     *)
LEMMA KindKept ==
  ASSUME TypeInv, [Next]_vars, NEW m \in 1 .. Len(kind)
  PROVE  kind'[m] = kind[m]
<1>1. kind \in Seq(Kinds)
  BY DEF TypeInv, TypeOK
<1>2. ASSUME NEW k \in Kinds, Forward(k) PROVE kind'[m] = kind[m]
  BY <1>1, <1>2 DEF Forward
<1>3. QED
  BY <1>2, MessageFrame

(* Where the messages in the ring are, by their number in it.              *)
LEMMA PairSlots ==
  ASSUME TypeInv, CountInv, NEW j \in 0 .. Put - Taken - 1
  PROVE  /\ MASK(consumer + 2 * j) \in Unread /\ MASK(consumer + (2 * j + 1)) \in Unread
         /\ Taken + 1 + j \in 1 .. Len(kind)
<1>1. Put \in Nat /\ Taken \in Nat /\ Put <= Len(kind) /\ Len(kind) \in Nat
  BY FlowTypes
<1>2. 2 * j \in 0 .. Used - 1 /\ 2 * j + 1 \in 0 .. Used - 1
  BY <1>1 DEF CountInv
<1>3. MASK(consumer + 2 * j) \in Unread /\ MASK(consumer + (2 * j + 1)) \in Unread
  BY <1>2 DEF Unread
<1>4. QED
  BY <1>1, <1>3

LEMMA ContentsNext ==
  ASSUME TypeInv, RingInv, CountInv, ContentInv, [Next]_vars,
         NEW j \in 0 .. (Put - Taken - 1)'
  PROVE  /\ invocations'[MASK(consumer' + 2 * j)] = Taken' + 1 + j
         /\ invocations'[MASK(consumer' + (2 * j + 1))] = Future(Taken + 1 + j)'
<1>t. producer \in 0 .. COUNTER_MOD - 1 /\ consumer \in 0 .. COUNTER_MOD - 1
  BY DEF TypeInv, TypeOK
<1>p. /\ Put \in Nat /\ Taken \in Nat /\ Put <= Len(kind) /\ Len(kind) \in Nat
      /\ j \in Nat /\ Used \in Nat
  BY FlowTypes DEF RingInv
<1>c. \A i \in 0 .. Put - Taken - 1 :
        /\ invocations[MASK(consumer + 2 * i)] = Taken + 1 + i
        /\ invocations[MASK(consumer + (2 * i + 1))] = Future(Taken + 1 + i)
  BY DEF ContentInv
<1>1. CASE Publish
  <2>1. Put' = Put + 1 /\ Taken' = Taken /\ clientPc = "publish"
    BY <1>1, UsedMoves, PutMoves, TakenMoves DEF Publish, ClientStep
  <2>2. consumer' = consumer /\ invocations' = invocations /\ kind' = kind
    BY <1>1 DEF Publish
  <2>3. CASE j \in 0 .. Put - Taken - 1
    BY <1>c, <2>1, <2>2, <2>3 DEF Future
  <2>4. CASE j = Put - Taken
    <3>1. 2 * j = Used /\ Taken + 1 + j = Len(kind)
      <4>1. Put = Len(kind) - 1
        BY <2>1 DEF Put
      <4>2. QED
        BY <1>p, <2>4, <4>1 DEF CountInv
    <3>2. MASK(consumer + Used + 0) = MASK(producer + 0)
      BY <1>t, SlotEnd DEF Used
    <3>3. MASK(consumer + Used + 1) = MASK(producer + 1)
      BY <1>t, SlotEnd DEF Used
    <3>4. /\ consumer + Used + 0 = consumer + 2 * j /\ producer + 0 = producer
          /\ consumer + Used + 1 = consumer + (2 * j + 1)
      BY <1>t, <1>p, <3>1
    <3>5. /\ invocations[MASK(producer)] = Len(kind)
          /\ invocations[MASK(producer + 1)] = Future(Len(kind))
      BY <2>1 DEF ContentInv, Writing
    <3>6. QED
      BY <2>1, <2>2, <3>1, <3>2, <3>3, <3>4, <3>5 DEF Future
  <2>5. QED
    BY <1>p, <2>1, <2>3, <2>4
<1>2. CASE Consume
  <2>1. Put' = Put /\ Taken' = Taken + 1
    BY <1>2, UsedMoves, PutMoves, TakenMoves
  <2>2. consumer' = Advance(consumer) /\ invocations' = invocations /\ kind' = kind
    BY <1>2 DEF Consume
  <2>3. j + 1 \in 0 .. Put - Taken - 1
    BY <1>p, <2>1
  <2>4. MASK(Advance(consumer) + 2 * j) = MASK(consumer + 2 * (j + 1))
    <3>1. 2 * j \in Nat /\ consumer + 2 + 2 * j = consumer + 2 * (j + 1)
      BY <1>t, <1>p
    <3>2. QED
      BY <1>t, <3>1, SlotNext
  <2>5. MASK(Advance(consumer) + (2 * j + 1)) = MASK(consumer + (2 * (j + 1) + 1))
    <3>1. 2 * j + 1 \in Nat /\ consumer + 2 + (2 * j + 1) = consumer + (2 * (j + 1) + 1)
      BY <1>t, <1>p
    <3>2. QED
      BY <1>t, <3>1, SlotNext
  <2>6. Taken' + 1 + j = Taken + 1 + (j + 1)
    BY <1>p, <2>1
  <2>7. QED
    BY <1>c, <2>2, <2>3, <2>4, <2>5, <2>6 DEF Future
<1>3. CASE ~Publish /\ ~Consume
  <2>1. Put' = Put /\ Taken' = Taken /\ consumer' = consumer
    BY <1>3, PutMoves, TakenMoves, CounterFrame
  <2>2. j \in 0 .. Put - Taken - 1
    BY <2>1
  <2>3. /\ MASK(consumer + 2 * j) \in Unread /\ MASK(consumer + (2 * j + 1)) \in Unread
        /\ Taken + 1 + j \in 1 .. Len(kind)
    BY <2>2, PairSlots
  <2>4. /\ invocations'[MASK(consumer + 2 * j)] = invocations[MASK(consumer + 2 * j)]
        /\ invocations'[MASK(consumer + (2 * j + 1))] = invocations[MASK(consumer + (2 * j + 1))]
    BY <2>3, UnreadStep
  <2>5. kind'[Taken + 1 + j] = kind[Taken + 1 + j]
    BY <2>3, KindKept
  <2>6. QED
    BY <1>c, <2>1, <2>2, <2>4, <2>5 DEF Future
<1>4. QED
  BY <1>1, <1>2, <1>3

LEMMA WrittenNext ==
  ASSUME TypeInv, RingInv, ContentInv, [Next]_vars
  PROVE  /\ clientPc' \in Writing => invocations'[MASK(producer')] = Len(kind')
         /\ clientPc' = "publish" => invocations'[MASK(producer' + 1)] = Future(Len(kind))'
<1>t. /\ producer \in 0 .. COUNTER_MOD - 1
      /\ invocations \in [0 .. QUEUE_SIZE - 1 -> Messages \union {nil}]
  BY DEF TypeInv, TypeOK
<1>m. /\ MASK(producer) \in 0 .. QUEUE_SIZE - 1 /\ MASK(producer + 1) \in 0 .. QUEUE_SIZE - 1
      /\ MASK(producer) # MASK(producer + 1)
  <2>1. producer \in Nat /\ producer + 1 \in Nat
    BY <1>t
  <2>2. QED
    BY <1>t, <2>1, MaskType, SlotPair
<1>1. CASE InsertInvocation
  <2>1. /\ invocations' = [invocations EXCEPT ![MASK(producer)] = Len(kind)]
        /\ producer' = producer /\ kind' = kind /\ clientPc' = "insertRetVal"
    BY <1>1 DEF InsertInvocation, ClientStep
  <2>2. QED
    BY <1>t, <1>m, <2>1
<1>2. CASE InsertRetVal
  <2>1. /\ invocations' = [invocations EXCEPT ![MASK(producer + 1)] = Future(Len(kind))]
        /\ producer' = producer /\ kind' = kind /\ clientPc = "insertRetVal"
    BY <1>2 DEF InsertRetVal, ClientStep, Future
  <2>2. invocations[MASK(producer)] = Len(kind)
    BY <2>1 DEF ContentInv, Writing
  <2>3. QED
    BY <1>t, <1>m, <2>1, <2>2 DEF Future
<1>3. CASE ~InsertInvocation /\ ~InsertRetVal
  <2>1. invocations' = invocations
    BY <1>3, CounterFrame
  <2>2. clientPc' \in Writing => clientPc' = clientPc
    BY <1>3, ClientFrame DEF Writing, ClientStep, Forward, Publish, TestSignal, SignalLock,
       Signal, Poll, DeallocLock, Dealloc, DeallocPoke, DeallocRelock, DeallocSignal, Join,
       AfterInsert
  <2>3. ASSUME clientPc' \in Writing PROVE producer' = producer /\ kind' = kind
    <3>1. clientPc' # "published" /\ clientPc' # "insert"
      BY <2>3 DEF Writing
    <3>2. QED
      BY <3>1, CounterFrame, MessageFrame DEF Publish, Forward, ClientStep
  <2>4. QED
    BY <2>1, <2>2, <2>3 DEF ContentInv, Writing, Future
<1>4. QED
  BY <1>1, <1>2, <1>3

LEMMA ContentNext ==
  ASSUME TypeInv, RingInv, CountInv, ContentInv, [Next]_vars
  PROVE  ContentInv'
BY ContentsNext, WrittenNext DEF ContentInv, Future

LEMMA LocalNext ==
  ASSUME TypeInv, RingInv, CountInv, ContentInv, LocalInv, [Next]_vars
  PROVE  LocalInv'
<1>t. /\ Put \in Nat /\ Taken \in Nat /\ Put <= Len(kind) /\ Len(kind) \in Nat
      /\ Len(executed) \in Nat /\ Used \in Nat
  BY FlowTypes DEF RingInv
<1>r. ASSUME workerPc \in Reading
      PROVE  /\ invocations[MASK(consumer)] = Taken + 1
             /\ invocations[MASK(consumer + 1)] = Future(Taken + 1)
             /\ Taken + 1 \in 1 .. Len(kind)
  <2>1. 0 \in 0 .. Put - Taken - 1
    BY <1>t, <1>r DEF RingInv, CountInv
  <2>2. /\ invocations[MASK(consumer + 2 * 0)] = Taken + 1 + 0
        /\ invocations[MASK(consumer + (2 * 0 + 1))] = Future(Taken + 1 + 0)
    BY <2>1 DEF ContentInv
  <2>3. /\ consumer + 2 * 0 = consumer /\ consumer + (2 * 0 + 1) = consumer + 1
        /\ Taken + 1 + 0 = Taken + 1
    BY <1>t DEF TypeInv, TypeOK
  <2>4. QED
    BY <1>t, <2>1, <2>2, <2>3
<1>1. CASE ReadInvocation
  <2>1. Taken' = Taken /\ invocation' = invocations[MASK(consumer)]
    BY <1>1, TakenMoves DEF ReadInvocation, Consume, WorkerStep
  <2>2. invocation' = Taken + 1 /\ workerPc' = "readRetVal"
    BY <1>1, <1>r, <2>1 DEF ReadInvocation, WorkerStep, Reading
  <2>3. QED
    BY <2>1, <2>2 DEF LocalInv
<1>2. CASE ReadRetVal
  <2>1. Taken' = Taken /\ retVal' = invocations[MASK(consumer + 1)] /\ kind' = kind
    BY <1>2, TakenMoves DEF ReadRetVal, Consume, WorkerStep
  <2>2. /\ retVal' = Future(Taken + 1) /\ workerPc' = "consume"
        /\ invocation' = Taken + 1
    BY <1>2, <1>r, <2>1 DEF ReadRetVal, WorkerStep, Reading, LocalInv
  <2>3. QED
    BY <2>1, <2>2 DEF LocalInv, Future
<1>3. CASE Consume
  <2>1. Taken' = Taken + 1 /\ workerPc = "consume" /\ workerPc' = "invoke"
    BY <1>3, TakenMoves DEF Consume, WorkerStep
  <2>2. UNCHANGED <<invocation, retVal, kind>>
    BY <1>3 DEF Consume, localVars
  <2>3. QED
    BY <1>t, <2>1, <2>2 DEF LocalInv, Future
<1>4. CASE ~ReadInvocation /\ ~ReadRetVal /\ ~Consume
  <2>1. invocation' = invocation /\ retVal' = retVal /\ Taken' = Taken
    BY <1>4, LocalFrame, TakenMoves
  <2>2. \A place \in {"readRetVal", "consume", "invoke"} :
          workerPc' = place => workerPc = place
    BY <1>4, WorkerFrame DEF WorkerStep, Start, Remove, Run, TestEmpty,
       TestTerminate, Lock, WaitOrUnlock, Woken, Invoke, SetProxy, Release, Exit
  <2>3. /\ workerPc' = "setProxy" => workerPc \in {"setProxy", "invoke"}
        /\ workerPc' = "release" => workerPc \in {"release", "setProxy"}
    BY <1>4, WorkerFrame DEF WorkerStep, Start, Remove, Run, TestEmpty,
       TestTerminate, Lock, WaitOrUnlock, Woken, Invoke, SetProxy, Release, Exit
  <2>4. ASSUME workerPc = "consume" PROVE kind'[Taken + 1] = kind[Taken + 1]
    BY <1>r, <2>4, KindKept DEF Reading
  <2>5. ASSUME workerPc \in {"invoke", "setProxy"} PROVE kind'[Taken] = kind[Taken]
    <3>1. Taken \in 1 .. Len(kind)
      BY <1>t, <2>5 DEF LocalInv, CountInv
    <3>2. QED
      BY <3>1, KindKept
  <2>6. QED
    BY <2>1, <2>2, <2>3, <2>4, <2>5 DEF LocalInv, Future
<1>5. QED
  BY <1>1, <1>2, <1>3, <1>4

(* No message is performed before it is sent.                              *)
LEMMA SentFirst ==
  ASSUME TypeInv, RingInv, CountInv
  PROVE  Taken <= Put /\ Len(executed) \in 0 .. Len(kind)
BY FlowTypes DEF CountInv, RingInv

LEMMA DoneNext ==
  ASSUME TypeInv, RingInv, CountInv, LocalInv, DoneInv, [Next]_vars
  PROVE  DoneInv'
<1>t. /\ Len(kind) \in Nat /\ Len(executed) \in Nat /\ Len(executed) <= Len(kind)
      /\ executed \in Seq(Messages \union {nil}) /\ Len(kind) <= MaxMessages
      /\ Taken = Len(executed) + (IF workerPc = "invoke" THEN 1 ELSE 0)
  BY SentFirst, FlowTypes DEF TypeInv, TypeOK, Taken
<1>d. /\ \A m \in 1 .. Len(executed) : executed[m] = m
      /\ fulfilled = {m \in 1 .. Len(executed) :
                        kind[m] = "object" /\ (workerPc = "setProxy" => m # Len(executed))}
      /\ Len(executed) + 1 .. Len(kind) \subseteq retained
  BY DEF DoneInv
<1>k. \A m \in 1 .. Len(executed) : kind'[m] = kind[m]
  BY <1>t, KindKept
<1>1. CASE Invoke
  <2>1. /\ executed' = Append(executed, invocation) /\ invocation = Len(executed) + 1
        /\ workerPc = "invoke" /\ workerPc' = "setProxy"
    BY <1>1, <1>t DEF Invoke, WorkerStep, LocalInv
  <2>2. kind' = kind /\ fulfilled' = fulfilled /\ retained' = retained
    BY <1>1 DEF Invoke
  <2>3. invocation \in Messages \union {nil}
    BY DEF TypeInv, TypeOK
  <2>4. /\ Len(executed') = Len(executed) + 1
        /\ \A m \in 1 .. Len(executed) + 1 : executed'[m] = m
    BY <1>t, <1>d, <2>1, <2>3
  <2>5. fulfilled' = {m \in 1 .. Len(executed') :
                       kind'[m] = "object" /\ (workerPc' = "setProxy" => m # Len(executed'))}
    BY <1>t, <1>d, <2>1, <2>2, <2>4
  <2>6. Len(executed') + 1 .. Len(kind') \subseteq retained'
    BY <1>t, <1>d, <2>2, <2>4
  <2>7. QED
    BY <2>4, <2>5, <2>6 DEF DoneInv
<1>2. CASE SetProxy
  <2>1. /\ fulfilled' = fulfilled \union ({retVal} \ {nil})
        /\ workerPc = "setProxy" /\ workerPc' = "release"
        /\ executed' = executed /\ kind' = kind /\ retained' = retained
    BY <1>2 DEF SetProxy, WorkerStep
  <2>2. retVal = Future(Len(executed)) /\ Len(executed) > 0
    <3>1. Taken = Len(executed)
      BY <1>t, <2>1
    <3>2. QED
      BY <2>1, <3>1 DEF LocalInv
  <2>3. Len(executed) # nil
    <3>1. Len(executed) \in Messages
      BY <1>t, <2>2, Constants DEF Messages
    <3>2. QED
      BY ONLY <3>1, NilAssumption, Zenon
  <2>4. {retVal} \ {nil} = {m \in {Len(executed)} : kind[m] = "object"}
    BY <2>2, <2>3 DEF Future
  <2>5. fulfilled' = {m \in 1 .. Len(executed) : kind[m] = "object"}
    BY <1>t, <1>d, <2>1, <2>2, <2>4
  <2>6. QED
    BY <1>d, <2>1, <2>5 DEF DoneInv
<1>3. CASE ~Invoke /\ ~SetProxy
  <2>1. executed' = executed /\ fulfilled' = fulfilled
    BY <1>3, MessageFrame
  <2>2. workerPc' = "setProxy" <=> workerPc = "setProxy"
    BY <1>3, WorkerFrame DEF WorkerStep, Start, Remove, Run, TestEmpty,
       TestTerminate, Lock, WaitOrUnlock, Woken, ReadInvocation, ReadRetVal, Consume,
       Release, Exit
  <2>3. Len(executed) + 1 .. Len(kind') \subseteq retained'
    <3>1. ASSUME NEW k \in Kinds, Forward(k)
          PROVE  Len(kind') = Len(kind) + 1 /\ retained' = retained \union {Len(kind) + 1}
      BY <3>1 DEF Forward, TypeInv, TypeOK
    <3>2. ASSUME Release
          PROVE  kind' = kind /\ retained' = retained \ {Len(executed)}
      BY <1>t, <3>2 DEF Release, WorkerStep, LocalInv
    <3>3. QED
      BY <1>t, <1>d, <3>1, <3>2, MessageFrame
  <2>4. {m \in 1 .. Len(executed) : kind'[m] = "object" /\ (workerPc' = "setProxy" => m # Len(executed))}
          = {m \in 1 .. Len(executed) : kind[m] = "object" /\ (workerPc = "setProxy" => m # Len(executed))}
    BY <1>k, <2>2
  <2>5. QED
    BY <1>d, <2>1, <2>3, <2>4 DEF DoneInv
<1>4. QED
  BY <1>1, <1>2, <1>3

LEMMA FlowInit == Init => FlowInv
<1> SUFFICES ASSUME Init PROVE FlowInv
  OBVIOUS
<1>1. Used = 0
  <2>1. 0 = COUNTER_MOD * 0 + 0 /\ 0 \in 0 .. COUNTER_MOD - 1
    BY Constants
  <2>2. 0 % COUNTER_MOD = 0
    BY <2>1, Constants, ModUnique
  <2>3. QED
    BY <2>2 DEF Init, Used
<1>2. Put = 0 /\ Taken = 0 /\ Len(kind) = 0 /\ Len(executed) = 0
  BY DEF Init, Put, Taken
<1>3. CountInv
  BY <1>1, <1>2 DEF CountInv
<1>4. ContentInv /\ LocalInv
  BY <1>2 DEF Init, ContentInv, LocalInv, Writing
<1>5. DoneInv
  BY <1>2 DEF Init, DoneInv
<1>6. QED
  BY <1>3, <1>4, <1>5 DEF FlowInv

LEMMA FlowNext == TypeInv /\ RingInv /\ FlowInv /\ [Next]_vars => FlowInv'
BY CountNext, ContentNext, LocalNext, DoneNext DEF FlowInv

(* The ring, the two counters, the sender and the run loop agree on which  *)
(* messages were sent, taken and performed, in the middle of INSERT, REMOVE*)
(* and of the invocation as well (lines 108-150 and 238-262).              *)
THEOREM FlowCorrect == Spec => [](TypeInv /\ RingInv /\ FlowInv)
BY TypeInit, TypeNext, RingInit, RingNext, FlowInit, FlowNext, PTL DEF Spec

(* A future gets its object only from the message it was made for, and has *)
(* it when the next message is taken (runloop:, lines 253-262).            *)
THEOREM FuturesCorrect == Spec => []FuturesKept
<1>1. ASSUME TypeInv, FlowInv PROVE FuturesKept
  <2>1. Len(executed) \in Nat
    BY <1>1, FlowTypes
  <2>2. fulfilled = {m \in 1 .. Len(executed) :
                      kind[m] = "object" /\ (workerPc = "setProxy" => m # Len(executed))}
    BY <1>1 DEF FlowInv, DoneInv
  <2>3. QED
    BY <2>1, <2>2 DEF FuturesKept
<1>2. QED
  BY <1>1, FlowCorrect, PTL

-------------------------------------------------------------------------------
(* The abstract object.  Performed and Awaited are what ThreadedObject     *)
(* gives AsyncObject for what has been performed and what is awaited.      *)

Performed == [i \in 1 .. Len(executed) |-> kind[executed[i]]]
Awaited   == IF clientPc \in Sending /\ kind[Len(kind)] = "concrete" THEN Len(kind) ELSE 0

(* The client has joined a worker before it frees the object.              *)
JoinedInv == clientPc = "freed" => workerPc = "exited"

LEMMA JoinedNext == JoinedInv /\ [Next]_vars => JoinedInv'
<1> SUFFICES ASSUME JoinedInv, [Next]_vars, clientPc' = "freed" PROVE workerPc' = "exited"
  BY DEF JoinedInv
<1>1. workerPc = "exited"
  BY ClientFrame DEF JoinedInv, Forward, InsertInvocation, InsertRetVal, Publish, TestSignal,
     SignalLock, Signal, Poll, DeallocLock, Dealloc, DeallocPoke, DeallocRelock,
     DeallocSignal, Join, AfterInsert, ClientStep
<1>2. QED
  BY <1>1, WorkerFrame DEF WorkerStep, Start, Remove, Run, TestEmpty, TestTerminate, Lock,
     WaitOrUnlock, Woken, ReadInvocation, ReadRetVal, Consume, Invoke, SetProxy, Release, Exit

(* What is performed is a prefix of what was sent.                         *)
LEMMA PerformedIs ==
  ASSUME TypeInv, RingInv, FlowInv
  PROVE  /\ Performed = [i \in 1 .. Len(executed) |-> kind[i]]
         /\ Performed \in Seq(Kinds) /\ Len(Performed) = Len(executed)
<1>1. /\ kind \in Seq(Kinds) /\ Len(executed) \in 0 .. Len(kind)
      /\ \A m \in 1 .. Len(executed) : executed[m] = m
  BY SentFirst DEF FlowInv, DoneInv, TypeInv, TypeOK
<1>2. Performed = [i \in 1 .. Len(executed) |-> kind[i]]
  BY <1>1 DEF Performed
<1>3. QED
  BY <1>1, <1>2

(* Sending a message is the client's first step, and only the last of a    *)
(* message that returns a concrete value changes what the client awaits.   *)
LEMMA PerformedKept ==
  ASSUME TypeInv, RingInv, FlowInv, [Next]_vars, executed' = executed
  PROVE  Performed' = Performed
<1>1. /\ Len(executed) \in 0 .. Len(kind)
      /\ \A m \in 1 .. Len(executed) : executed[m] = m
  BY SentFirst DEF FlowInv, DoneInv
<1>2. \A m \in 1 .. Len(executed) : kind'[executed[m]] = kind[executed[m]]
  BY <1>1, KindKept
<1>3. QED
  BY <1>2 DEF Performed

LEMMA SendStep ==
  ASSUME TypeInv, RingInv, FlowInv, [Next]_vars, NEW k \in Kinds, Forward(k)
  PROVE  Promised!Send(k)
<1>1. /\ kind \in Seq(Kinds) /\ kind' = Append(kind, k) /\ Len(kind) < MaxMessages
      /\ clientPc = "ready" /\ clientPc' = "insert" /\ executed' = executed
  BY DEF Forward, ClientStep, TypeInv, TypeOK
<1>2. Performed' = Performed
  BY <1>1, PerformedKept
<1>3. Awaited = 0
  BY <1>1 DEF Awaited, Sending
<1>4. Awaited' = IF k = "concrete" THEN Len(kind) + 1 ELSE 0
  <2>1. Len(kind') = Len(kind) + 1 /\ kind'[Len(kind) + 1] = k
    BY <1>1
  <2>2. QED
    BY <1>1, <2>1 DEF Awaited, Sending
<1>5. QED
  BY <1>1, <1>2, <1>3, <1>4 DEF Promised!Send, Performed, Awaited, Sending

LEMMA ExecuteStep ==
  ASSUME TypeInv, RingInv, FlowInv, JoinedInv, [Next]_vars, Invoke
  PROVE  Promised!Execute
<1>1. /\ executed' = Append(executed, invocation) /\ workerPc = "invoke"
      /\ kind' = kind /\ clientPc' = clientPc
  BY DEF Invoke, WorkerStep
<1>2. Taken = Len(executed) + 1 /\ Len(executed) \in Nat /\ Len(kind) \in Nat
  BY <1>1, FlowTypes DEF Taken
<1>3. invocation = Len(executed) + 1 /\ Len(executed) < Len(kind)
  BY <1>1, <1>2, SentFirst, FlowTypes DEF FlowInv, LocalInv
<1>4. Performed' = Append(Performed, kind[Len(Performed) + 1])
  <2>1. executed \in Seq(Messages \union {nil}) /\ invocation \in Messages \union {nil}
    BY DEF TypeInv, TypeOK
  <2>2. /\ Len(executed') = Len(executed) + 1
        /\ \A i \in 1 .. Len(executed) : executed'[i] = executed[i]
        /\ executed'[Len(executed) + 1] = Len(executed) + 1
    BY <1>1, <1>3, <2>1
  <2>3. \A i \in 1 .. Len(executed) : executed[i] = i
    BY DEF FlowInv, DoneInv
  <2>4. Performed' = [i \in 1 .. Len(executed) + 1 |-> kind[i]]
    BY <1>1, <1>2, <2>2, <2>3 DEF Performed
  <2>5. /\ Performed = [i \in 1 .. Len(executed) |-> kind[i]]
        /\ Performed \in Seq(Kinds) /\ Len(Performed) = Len(executed)
    BY PerformedIs
  <2>6. kind[Len(executed) + 1] \in Kinds
    BY <1>2, <1>3 DEF TypeInv, TypeOK
  <2>7. QED
    BY <1>2, <2>4, <2>5, <2>6
<1>5. Len(Performed) = Len(executed)
  BY PerformedIs
<1>6. clientPc # "freed"
  BY <1>1 DEF JoinedInv
<1>7. QED
  BY <1>1, <1>3, <1>4, <1>5, <1>6 DEF Promised!Execute, Performed, Sending

LEMMA ReturnStep ==
  ASSUME TypeInv, RingInv, FlowInv, [Next]_vars, Poll, kind[Len(kind)] = "concrete"
  PROVE  Promised!Return
<1>1. /\ clientPc = "poll" /\ clientPc' = "ready" /\ Len(kind) \notin retained
      /\ kind' = kind /\ executed' = executed
  BY DEF Poll, ClientStep
<1>2. Len(kind) > 0 /\ Len(kind) \in Nat /\ Len(executed) \in Nat
  BY <1>1, FlowTypes DEF TypeInv, Sending
<1>3. Len(executed) >= Len(kind)
  BY <1>1, <1>2 DEF FlowInv, DoneInv
<1>4. Awaited = Len(kind) /\ Awaited' = 0
  BY <1>1 DEF Awaited, Sending
<1>5. Len(Performed) = Len(executed) /\ Performed' = Performed
  BY <1>1, PerformedIs, PerformedKept
<1>6. QED
  BY <1>1, <1>2, <1>3, <1>4, <1>5 DEF Promised!Return, Performed, Awaited, Sending

LEMMA DestroyStep ==
  ASSUME TypeInv, RingInv, FlowInv, [Next]_vars, Join
  PROVE  Promised!Destroy
<1>1. /\ clientPc = "join" /\ clientPc' = "freed" /\ kind' = kind /\ executed' = executed
  BY DEF Join, ClientStep
<1>2. Awaited = 0 /\ Awaited' = 0
  BY <1>1 DEF Awaited, Sending
<1>3. Performed' = Performed
  BY <1>1, PerformedKept
<1>4. QED
  BY <1>1, <1>2, <1>3 DEF Promised!Destroy, Performed, Awaited, Sending

(* Every other step is one the client of an AsyncObject does not see.      *)
LEMMA HiddenStep ==
  ASSUME TypeInv, RingInv, FlowInv, [Next]_vars, ~\E k \in Kinds : Forward(k), ~Invoke, ~Join,
         Poll => kind[Len(kind)] # "concrete"
  PROVE  UNCHANGED Promised!vars
<1>1. kind' = kind /\ executed' = executed
  BY MessageFrame
<1>2. Performed' = Performed
  BY <1>1, PerformedKept
<1>3. (clientPc' = "freed") = (clientPc = "freed")
  BY ClientFrame DEF InsertInvocation, InsertRetVal, Publish, TestSignal, SignalLock, Signal,
     Poll, DeallocLock, Dealloc, DeallocPoke, DeallocRelock, DeallocSignal, AfterInsert,
     ClientStep
<1>4. Awaited' = Awaited
  <2>1. CASE kind[Len(kind)] = "concrete"
    <3>1. clientPc' \in Sending <=> clientPc \in Sending
      BY <1>1, <2>1, ClientFrame DEF InsertInvocation, InsertRetVal, Publish, TestSignal, SignalLock,
         Signal, Poll, DeallocLock, Dealloc, DeallocPoke, DeallocRelock, DeallocSignal, Join,
         AfterInsert, ClientStep, Sending
    <3>2. QED
      BY <1>1, <3>1 DEF Awaited
  <2>2. CASE kind[Len(kind)] # "concrete"
    BY <1>1, <2>2 DEF Awaited
  <2>3. QED
    BY <2>1, <2>2
<1>5. QED
  BY <1>1, <1>2, <1>3, <1>4 DEF Promised!vars, Performed, Awaited, Sending

(* Every step of the ring buffer, the mutex and the sleeping worker is a   *)
(* step of the abstract object or one it does not see: messages are        *)
(* performed once, in the order they were sent, a concrete value holds its *)
(* sender until its message was performed, and nothing is performed once   *)
(* the object is destroyed.                                                *)
THEOREM AsyncCorrect == Spec => ImplementsAsyncObject
<1>1. Init => Promised!Init /\ JoinedInv
  <2> SUFFICES ASSUME Init PROVE Promised!Init /\ JoinedInv
    OBVIOUS
  <2>1. Len(executed) = 0 /\ kind = <<>> /\ clientPc = "ready"
    BY DEF Init
  <2>2. [i \in 1 .. Len(executed) |-> kind[executed[i]]] = <<>>
    BY <2>1
  <2>3. QED
    BY <2>1, <2>2 DEF Promised!Init, JoinedInv
<1>2. TypeInv /\ RingInv /\ FlowInv /\ JoinedInv /\ [Next]_vars => [Promised!Next]_(Promised!vars)
  <2> SUFFICES ASSUME TypeInv, RingInv, FlowInv, JoinedInv, [Next]_vars
               PROVE  Promised!Next \/ UNCHANGED Promised!vars
    OBVIOUS
  <2>1. CASE \E k \in Kinds : Forward(k)
    BY <2>1, SendStep DEF Promised!Next
  <2>2. CASE Invoke
    BY <2>2, ExecuteStep DEF Promised!Next
  <2>3. CASE Join
    BY <2>3, DestroyStep DEF Promised!Next
  <2>4. CASE Poll /\ kind[Len(kind)] = "concrete"
    BY <2>4, ReturnStep DEF Promised!Next
  <2>5. CASE /\ ~\E k \in Kinds : Forward(k)
             /\ ~Invoke /\ ~Join
             /\ Poll => kind[Len(kind)] # "concrete"
    BY <2>5, HiddenStep
  <2>6. QED
    BY <2>1, <2>2, <2>3, <2>4, <2>5
<1>3. QED
  BY <1>1, <1>2, FlowCorrect, JoinedNext, PTL DEF Spec, Promised!Spec, ImplementsAsyncObject
==============================================================================
