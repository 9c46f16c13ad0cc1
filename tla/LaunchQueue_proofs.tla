-------------------------- MODULE LaunchQueue_proofs --------------------------
(***************************************************************************)
(* Proofs about LaunchQueue, for every set of tasks, whatever their        *)
(* entries, the processes and the configuration file do.                   *)
(***************************************************************************)
EXTENDS LaunchQueue, TLAPS

-----------------------------------------------------------------------------
(***************************************************************************)
(* The inductive invariants.                                               *)
(***************************************************************************)

\* The short runs of a task are its failures, but for one that may be lost; one that runs, or has
\* just run, has failed less than three times; one that is not in the table has no past, and
\* neither has an SCTask that is no copy before its end is counted.
Attempts ==
    \A t \in Task :
        /\ shortRuns[t] = failureCount[t] + IF t \in lost THEN 1 ELSE 0
        /\ state[t] = "running" \/ (state[t] = "exited" /\ ~stopped[t]) => failureCount[t] < 3
        /\ t \notin processes => failureCount[t] = 0 /\ t \notin lost
        /\ t \in counting \/ (t \notin plain /\ ~stopped[t]) => failureCount[t] = 0 /\ t \notin lost
        /\ t \in counting => stopped[t] \/ t \in plain

\* A failure that is still to be counted is of a task of the table, which nobody synchronizes now.
Returning ==
    /\ counting \subseteq processes
    /\ phase \in {"sync", "apply"} => counting = {}

\* What is left of the loop is in the group it waits for, and in nothing else than the loop.
Looping ==
    /\ rest \subseteq launchGroup
    /\ phase # "group" => rest = {}
    /\ phase = "group" => scheduled
    /\ ~scheduled => launchQueue = {}

\* Every OnStart task was its turn or is still to come, and has launched or is waited for.
Pending ==
    /\ boot \cap onStart \subseteq tried \cup rest \cup launchQueue
    /\ boot \cap onStart \subseteq finishedOnce \cup launchGroup \cup launchQueue
    /\ phase = "group" /\ ~hasLaunched => launchGroup \cap onStart \subseteq rest

\* The group has one priority, and what is queued a higher one.
Sorted ==
    /\ \A x, y \in launchGroup : priority[x] = priority[y]
    /\ \A x \in launchGroup, y \in launchQueue : priority[x] < priority[y]

Queue == Looping /\ Pending /\ Sorted

\* The dates were read before now, and the contents after their date.
Dates ==
    /\ attrDate <= fileDate /\ readDate <= fileDate
    /\ phase = "apply" /\ attrDate = fileDate /\ readable => newTable = config

Inv == TypeOK /\ Attempts /\ Returning /\ Queue

-----------------------------------------------------------------------------
(***************************************************************************)
(* The launch queue.                                                       *)
(***************************************************************************)

LEMMA Groups ==
    ASSUME TypeOK, NEW queue \in SUBSET Task
    PROVE  /\ FirstGroup(queue) \subseteq queue
           /\ \A x, y \in FirstGroup(queue) : priority[x] = priority[y]
           /\ \A x \in FirstGroup(queue), y \in queue \ FirstGroup(queue) : priority[x] < priority[y]
<1>1. \A x \in queue : priority[x] \in Nat
  BY DEF TypeOK
<1>2. ASSUME NEW x \in FirstGroup(queue), NEW y \in queue \ FirstGroup(queue)
      PROVE  priority[x] < priority[y]
  <2>1. PICK u \in queue : ~(priority[y] <= priority[u])
    BY DEF FirstGroup
  <2>2. priority[x] <= priority[u] /\ x \in queue
    BY DEF FirstGroup
  <2>3. QED
    BY <1>1, <2>1, <2>2
<1>3. \A x, y \in FirstGroup(queue) : priority[x] = priority[y]
  BY <1>1 DEF FirstGroup
<1>4. QED
  BY <1>2, <1>3 DEF FirstGroup

\* The next group is started when nothing of the one before is left to wait for.
LEMMA GroupStarted ==
    ASSUME TypeOK, NEW queue \in SUBSET Task, StartSequentially(queue),
           priority' = priority, onStart' = onStart,
           boot' \cap onStart \subseteq tried' \cup queue,
           boot' \cap onStart \subseteq finishedOnce' \cup queue
    PROVE  Queue'
<1>1. Looping' /\ Pending'
  BY Groups DEF StartSequentially, Looping, Pending
<1>2. Sorted'
  BY Groups DEF StartSequentially, Sorted
<1>3. QED
  BY <1>1, <1>2 DEF Queue

\* Nothing moves but the history.
LEMMA QueueKept ==
    ASSUME Queue, UNCHANGED queueVars, priority' = priority, onStart' = onStart, boot' = boot,
           tried' = tried, finishedOnce \subseteq finishedOnce'
    PROVE  Queue'
BY DEF Queue, Looping, Pending, Sorted, queueVars

LEMMA LaunchNoted ==
    ASSUME TypeOK, Queue, NEW posting \in SUBSET Task, phase = "events",
           NoteApplicationLaunched(posting),
           priority' = priority, onStart' = onStart, boot' = boot, tried' = tried,
           finishedOnce \cup posting \subseteq finishedOnce'
    PROVE  Queue'
<1>1. CASE ~scheduled
  BY <1>1, QueueKept DEF NoteApplicationLaunched
<1>2. CASE scheduled /\ launchGroup \ posting = {}
  <2>1. boot' \cap onStart \subseteq tried' \cup launchQueue
    BY DEF Queue, Looping, Pending
  <2>2. boot' \cap onStart \subseteq finishedOnce' \cup launchQueue
    BY <1>2 DEF Queue, Pending
  <2>3. launchQueue \in SUBSET Task /\ StartSequentially(launchQueue)
    BY <1>2 DEF TypeOK, NoteApplicationLaunched
  <2>4. QED
    BY <2>1, <2>2, <2>3, GroupStarted
<1>3. CASE scheduled /\ launchGroup \ posting # {}
  <2> USE <1>3 DEF NoteApplicationLaunched, Queue
  <2>1. Looping'
    BY DEF Looping
  <2>2. Pending'
    BY DEF Pending
  <2>3. Sorted'
    BY DEF Sorted
  <2>4. QED
    BY <2>1, <2>2, <2>3
<1>4. QED
  BY <1>1, <1>2, <1>3

\* The types of the queue, for each way to change it.
QueueTypes ==
    /\ launchQueue \subseteq Task
    /\ launchGroup \subseteq Task
    /\ scheduled \in BOOLEAN
    /\ phase \in {"group", "events", "sync", "apply"}
    /\ rest \subseteq Task
    /\ hasLaunched \in BOOLEAN

LEMMA StartedTypes ==
    ASSUME TypeOK, NEW queue \in SUBSET Task, StartSequentially(queue)
    PROVE  QueueTypes'
BY Groups DEF StartSequentially, QueueTypes

LEMMA NotedTypes ==
    ASSUME TypeOK, NEW posting \in SUBSET Task, NoteApplicationLaunched(posting)
    PROVE  QueueTypes'
<1>1. launchQueue \in SUBSET Task
  BY DEF TypeOK
<1>2. CASE StartSequentially(launchQueue)
  BY <1>1, <1>2, StartedTypes
<1>3. CASE ~StartSequentially(launchQueue)
  BY <1>3 DEF NoteApplicationLaunched, TypeOK, QueueTypes, queueVars
<1>4. QED
  BY <1>2, <1>3

-----------------------------------------------------------------------------
(***************************************************************************)
(* The tasks.                                                              *)
(***************************************************************************)

TaskTypes ==
    /\ state \in [Task -> {"new", "running", "exited"}]
    /\ stopped \in [Task -> BOOLEAN]
    /\ launchFinished \in [Task -> BOOLEAN]
    /\ failureCount \in [Task -> 0 .. 3]
    /\ plain \subseteq Task
    /\ timer \in [Task -> BOOLEAN]

\* A task is launched, or not, and its failures are kept.
LEMMA LaunchTried ==
    ASSUME TypeOK, Attempts, NEW t \in Task,
           IF Launches(t) THEN LaunchForDomain(t) ELSE NotLaunched(t),
           UNCHANGED countVars, processes' = processes
    PROVE  TaskTypes' /\ Attempts'
<1>1. CASE Launches(t)
  <2> USE <1>1 DEF LaunchForDomain, Copied, TypeOK, countVars
  <2>1. TaskTypes'
    <3>1. launchFinished' \in [Task -> BOOLEAN] /\ timer' \in [Task -> BOOLEAN]
      <4> HIDE DEF Copied
      <4>1. (t \notin App \ plain') \in BOOLEAN /\ (t \in App \ plain') \in BOOLEAN
        OBVIOUS
      <4>2. QED
        BY <4>1, Zenon
    <3>2. stopped' \in [Task -> BOOLEAN]
      OBVIOUS
    <3>3. plain' \subseteq Task
      OBVIOUS
    <3>4. state' \in [Task -> {"new", "running", "exited"}]
      OBVIOUS
    <3>5. failureCount' \in [Task -> 0 .. 3]
      OBVIOUS
    <3>6. QED
      BY <3>1, <3>2, <3>3, <3>4, <3>5 DEF TaskTypes
  <2>2. Attempts'
    BY DEF Attempts, Launches, Startable
  <2>3. QED
    BY <2>1, <2>2
<1>2. CASE ~Launches(t)
  <2> USE <1>2 DEF NotLaunched, Copied, taskVars, TypeOK, countVars
  <2>1. TaskTypes'
    <3>1. launchFinished' \in [Task -> BOOLEAN] /\ timer' \in [Task -> BOOLEAN]
      OBVIOUS
    <3>2. stopped' \in [Task -> BOOLEAN]
      OBVIOUS
    <3>3. plain' \subseteq Task
      OBVIOUS
    <3>4. state' \in [Task -> {"new", "running", "exited"}]
      OBVIOUS
    <3>5. failureCount' \in [Task -> 0 .. 3]
      OBVIOUS
    <3>6. QED
      BY <3>1, <3>2, <3>3, <3>4, <3>5 DEF TaskTypes
  <2>2. Attempts'
    BY DEF Attempts
  <2>3. QED
    BY <2>1, <2>2
<1>3. QED
  BY <1>1, <1>2

-----------------------------------------------------------------------------
(***************************************************************************)
(* The steps.                                                              *)
(***************************************************************************)

LEMMA Starts == Init => Inv
<1> SUFFICES ASSUME Init PROVE Inv
  OBVIOUS
<1>1. PICK layout \in Layouts :
        priority = layout.priority /\ onStart = layout.onStart /\ raising = layout.raising
  BY DEF Init
<1>2. TypeOK
  <2>1. layout \in [priority : [Task -> Nat], onStart : SUBSET Task, raising : SUBSET Task]
    BY LayoutAssumption
  <2>2. priority \in [Task -> Nat] /\ onStart \subseteq Task /\ raising \subseteq Task
    BY <1>1, <2>1
  <2>3. config \subseteq Task /\ {fileDate, attrDate, readDate} \subseteq 0 .. MaxDate
    BY FileAssumption, DateAssumption DEF Init
  <2>4. TaskTypes
    BY DEF Init, TaskTypes
  <2>5. shortRuns \in [Task -> 0 .. 4] /\ counting \subseteq Task /\ lost \subseteq Task
    BY DEF Init
  <2>6. QED
    BY <2>2, <2>3, <2>4, <2>5 DEF Init, TypeOK, TaskTypes
<1>3. Attempts /\ Returning
  BY DEF Init, Attempts, Returning
<1>4. Queue
  BY DEF Init, Queue, Looping, Pending, Sorted
<1>5. QED
  BY <1>2, <1>3, <1>4 DEF Inv

\* The steps of the queue leave the count of the failures alone.
LEMMA CountKept ==
    ASSUME Returning, UNCHANGED <<counting, processes>>, phase' \in {"sync", "apply"} => phase = phase'
    PROVE  Returning'
BY DEF Returning

LEMMA CountTypes ==
    ASSUME TypeOK, UNCHANGED countVars
    PROVE  shortRuns' \in [Task -> 0 .. 4] /\ counting' \subseteq Task /\ lost' \subseteq Task
BY DEF TypeOK, countVars

LEMMA NotedPhase ==
    ASSUME NEW posting, NoteApplicationLaunched(posting), phase' \in {"sync", "apply"}
    PROVE  phase' = phase
BY DEF NoteApplicationLaunched, StartSequentially, queueVars

LEMMA StartProcessPreserves ==
    ASSUME Inv, NEW t \in Task, StartProcess(t)
    PROVE  Inv'
<1> USE DEF Inv
<1> DEFINE posts == t \notin plain /\ PostsAtOnce(t)
           left == launchGroup \ ({t} \ plain')
<1>1. TaskTypes' /\ Attempts'
  <2>1. CASE t \in plain
    BY <2>1 DEF StartProcess, LoopVars, countVars, taskVars, TypeOK, TaskTypes, Attempts
  <2>2. CASE t \notin plain
    BY <2>2, LaunchTried DEF StartProcess, LoopVars
  <2>3. QED
    BY <2>1, <2>2
<1>2. launchQueue \in SUBSET Task
  BY DEF TypeOK
<1>3. t \in launchGroup /\ t \in rest
  BY DEF StartProcess, Queue, Looping
<1>4. /\ shortRuns' \in [Task -> 0 .. 4] /\ counting' \subseteq Task /\ lost' \subseteq Task
      /\ Returning'
  BY CountTypes, CountKept DEF StartProcess, StartSequentially, LoopVars, countVars
<1>5. CASE posts /\ left = {}
  <2>1. StartSequentially(launchQueue)
    BY <1>5 DEF StartProcess
  <2>2. launchGroup = {t}
    BY <1>3, <1>5
  <2>3. Queue'
    <3>1. boot' \cap onStart \subseteq tried' \cup launchQueue
      BY <2>2 DEF StartProcess, LoopVars, Queue, Looping, Pending
    <3>2. boot' \cap onStart \subseteq finishedOnce' \cup launchQueue
      BY <1>5, <2>2 DEF StartProcess, LoopVars, Queue, Pending
    <3>3. QED
      BY <1>2, <2>1, <3>1, <3>2, GroupStarted DEF StartProcess, LoopVars, confVars
  <2>4. QueueTypes'
    BY <1>2, <2>1, StartedTypes
  <2>5. QED
    BY <1>1, <1>4, <2>3, <2>4
    DEF TypeOK, TaskTypes, QueueTypes, StartProcess, LoopVars, confVars, fileVars, dateVars
<1>6. CASE ~(posts /\ left = {})
  <2>1. /\ launchGroup' = IF posts THEN left ELSE launchGroup
        /\ rest' = rest \ {t} /\ hasLaunched' = TRUE
        /\ UNCHANGED <<launchQueue, scheduled, phase, priority, onStart, boot>>
        /\ phase = "group" /\ tried' = tried \cup {t}
        /\ finishedOnce' = IF posts THEN finishedOnce \cup {t} ELSE finishedOnce
    BY <1>6 DEF StartProcess, LoopVars, confVars
  <2>2. Queue'
    <3> HIDE DEF posts
    <3> USE <2>1
    <3>1. Looping'
      BY DEF Queue, Looping
    <3>2. Pending'
      BY DEF Queue, Pending
    <3>3. Sorted'
      BY DEF Queue, Sorted
    <3>4. QED
      BY <3>1, <3>2, <3>3 DEF Queue
  <2>3. launchGroup' \subseteq Task /\ stuck' \in BOOLEAN /\ raising' = raising
    BY <2>1 DEF StartProcess, LoopVars, confVars, TypeOK
  <2>4. QED
    BY <1>1, <1>4, <2>1, <2>2, <2>3 DEF StartProcess, LoopVars, TypeOK, TaskTypes, fileVars, dateVars
<1>7. QED
  BY <1>5, <1>6

LEMMA SkipProcessPreserves ==
    ASSUME Inv, NEW t \in Task, SkipProcess(t)
    PROVE  Inv'
<1> USE DEF Inv, SkipProcess, LoopVars, confVars, fileVars, dateVars, taskVars, countVars
<1>1. TypeOK'
  BY DEF TypeOK
<1>2. Attempts' /\ Returning'
  BY CountKept DEF Attempts
<1>3. Looping' /\ Pending'
  BY DEF Queue, Looping, Pending
<1>4. Sorted'
  BY DEF Queue, Sorted
<1>5. QED
  BY <1>1, <1>2, <1>3, <1>4 DEF Queue

LEMMA EndGroupPreserves ==
    ASSUME Inv, EndGroup
    PROVE  Inv'
<1> USE DEF Inv, EndGroup, LoopVars, confVars, fileVars, dateVars, taskVars, countVars
<1>1. Attempts' /\ Returning'
  BY CountKept DEF Attempts, StartSequentially
<1>2. CASE hasLaunched
  <2>1. TypeOK'
    BY <1>2 DEF TypeOK
  <2>2. Queue'
    BY <1>2 DEF Queue, Looping, Pending, Sorted
  <2>3. QED
    BY <1>1, <2>1, <2>2
<1>3. CASE ~hasLaunched
  <2>1. launchQueue \in SUBSET Task /\ StartSequentially(launchQueue)
    BY <1>3 DEF TypeOK
  <2>2. boot' \cap onStart \subseteq tried' \cup launchQueue
    BY DEF Queue, Pending
  <2>3. boot' \cap onStart \subseteq finishedOnce' \cup launchQueue
    BY <1>3 DEF Queue, Pending
  <2>4. Queue'
    BY <2>1, <2>2, <2>3, GroupStarted
  <2>5. QueueTypes'
    BY <2>1, StartedTypes
  <2>6. QED
    BY <1>1, <2>4, <2>5 DEF TypeOK, QueueTypes
<1>4. QED
  BY <1>2, <1>3

LEMMA TaskLaunchedPreserves ==
    ASSUME Inv, NEW t \in Task, TaskLaunched(t) \/ ReplacedLaunched(t)
    PROVE  Inv'
<1> USE DEF Inv, TaskLaunched, ReplacedLaunched, LoopVars, confVars, fileVars, dateVars, taskVars,
             countVars, Idle
<1>1. PICK posting \in SUBSET {t} : NoteApplicationLaunched(posting)
  OBVIOUS
<1>2. Attempts' /\ Returning'
  BY <1>1, NotedPhase, CountKept DEF Attempts
<1>3. Queue'
  BY <1>1, LaunchNoted
<1>4. QueueTypes'
  BY <1>1, NotedTypes
<1>5. QED
  BY <1>2, <1>3, <1>4 DEF TypeOK, QueueTypes

LEMMA CheckLaunchTimeOutPreserves ==
    ASSUME Inv, NEW t \in Task, CheckLaunchTimeOut(t)
    PROVE  Inv'
<1> USE DEF Inv, CheckLaunchTimeOut, LoopVars, confVars, fileVars, dateVars, countVars, Idle
<1>1. Attempts' /\ Returning'
  BY NotedPhase, CountKept DEF Attempts, queueVars
<1>2. CASE launchFinished[t]
  <2>1. Queue'
    BY <1>2, QueueKept
  <2>2. QED
    BY <1>1, <1>2, <2>1 DEF TypeOK, queueVars
<1>3. CASE ~launchFinished[t]
  <2>1. Queue'
    BY <1>3, LaunchNoted
  <2>2. QueueTypes'
    BY <1>3, NotedTypes
  <2>3. /\ launchFinished' \in [Task -> BOOLEAN] /\ timer' \in [Task -> BOOLEAN]
        /\ finishedOnce' \subseteq Task
    BY <1>3 DEF TypeOK
  <2>4. QED
    BY <1>1, <2>1, <2>2, <2>3 DEF TypeOK, QueueTypes
<1>4. QED
  BY <1>2, <1>3

LEMMA ExitPreserves ==
    ASSUME Inv, NEW t \in Task, Exit(t)
    PROVE  Inv'
<1> USE DEF Inv, Exit, confVars, fileVars, dateVars, countVars, historyVars
<1>1. TypeOK'
  BY DEF TypeOK, queueVars
<1>2. Attempts' /\ Returning'
  BY CountKept DEF Attempts, TypeOK, queueVars
<1>3. Queue'
  BY QueueKept
<1>4. QED
  BY <1>1, <1>2, <1>3

\* The end of a run is counted on the task that ended, or on an SCTask nobody has any more.
LEMMA FailureUpdated ==
    ASSUME TypeOK, Attempts, NEW t \in Task, NEW replaced \in BOOLEAN, UpdateFailureCount(t, replaced),
           UNCHANGED <<state, plain, processes>>, stopped' \in [Task -> BOOLEAN], counting' = {},
           \A u \in Task \ {t} : stopped'[u] = stopped[u],
           t \in processes,
           replaced => failureCount[t] = 0 /\ t \notin lost /\ t \in plain /\ ~stopped[t],
           ~replaced => failureCount[t] < 3 /\ stopped'[t] /\ (state[t] = "running" => failureCount[t] = 0)
    PROVE  /\ failureCount' \in [Task -> 0 .. 3] /\ shortRuns' \in [Task -> 0 .. 4] /\ lost' \subseteq Task
           /\ Attempts'
<1>1. PICK short \in BOOLEAN :
        /\ shortRuns' = [shortRuns EXCEPT ![t] = IF short THEN @ + 1 ELSE 0]
        /\ failureCount' = [failureCount EXCEPT ![t] = IF replaced THEN @ ELSE IF short THEN @ + 1 ELSE 0]
        /\ lost' = IF ~short THEN lost \ {t} ELSE IF replaced THEN lost \cup {t} ELSE lost
  BY DEF UpdateFailureCount
<1>2. failureCount[t] \in 0 .. 2 /\ shortRuns[t] = failureCount[t] + IF t \in lost THEN 1 ELSE 0
  BY DEF Attempts, TypeOK
<1>3. failureCount' \in [Task -> 0 .. 3] /\ shortRuns' \in [Task -> 0 .. 4] /\ lost' \subseteq Task
  BY <1>1, <1>2 DEF TypeOK
<1>4. ASSUME NEW u \in Task PROVE
        /\ shortRuns'[u] = failureCount'[u] + IF u \in lost' THEN 1 ELSE 0
        /\ state'[u] = "running" \/ (state'[u] = "exited" /\ ~stopped'[u]) => failureCount'[u] < 3
        /\ u \notin processes' => failureCount'[u] = 0 /\ u \notin lost'
        /\ u \notin plain' /\ ~stopped'[u] => failureCount'[u] = 0 /\ u \notin lost'
  <2>1. CASE u = t
    <3>1. CASE replaced
      <4>1. failureCount'[t] = 0 /\ t \in plain' /\ t \in processes'
        BY <1>1, <3>1 DEF TypeOK
      <4>2. shortRuns'[t] = IF t \in lost' THEN 1 ELSE 0
        <5>1. CASE short
          BY <1>1, <1>2, <3>1, <5>1 DEF TypeOK
        <5>2. CASE ~short
          BY <1>1, <5>2 DEF TypeOK
        <5>3. QED
          BY <5>1, <5>2
      <4>3. QED
        BY <2>1, <4>1, <4>2
    <3>2. CASE ~replaced
      <4>1. failureCount'[t] < 3 \/ stopped'[t]
        BY <3>2
      <4>2. shortRuns'[t] = failureCount'[t] + IF t \in lost' THEN 1 ELSE 0
        <5>1. CASE short
          BY <1>1, <1>2, <3>2, <5>1 DEF TypeOK
        <5>2. CASE ~short
          BY <1>1, <3>2, <5>2 DEF TypeOK
        <5>3. QED
          BY <5>1, <5>2
      <4>3. state'[t] = "running" => failureCount'[t] < 3
        BY <1>1, <3>2 DEF TypeOK
      <4>4. QED
        BY <2>1, <3>2, <4>1, <4>2, <4>3
    <3>3. QED
      BY <3>1, <3>2
  <2>2. CASE u # t
    BY <1>1, <2>2 DEF TypeOK, Attempts
  <2>3. QED
    BY <2>1, <2>2
<1>5. Attempts'
  BY <1>4 DEF Attempts
<1>6. QED
  BY <1>3, <1>5

LEMMA TaskTerminatedPreserves ==
    ASSUME Inv, NEW t \in Task, TaskTerminated(t)
    PROVE  Inv'
<1> USE DEF Inv, TaskTerminated, SetStopped, confVars, fileVars, dateVars, Idle
<1>1. stopped' \in [Task -> BOOLEAN] /\ launchFinished' \in [Task -> BOOLEAN] /\ failureCount[t] < 3
  BY DEF TypeOK, Attempts
<1>2. CASE IsApplication(t) /\ ~launchFinished[t]
  <2>1. NoteApplicationLaunched({t}) /\ counting' = {t} /\ UNCHANGED <<failureCount, shortRuns, lost>>
    BY <1>2
  <2>2. Queue' /\ QueueTypes'
    BY <2>1, LaunchNoted, NotedTypes
  <2>3. Returning'
    BY <2>1, NotedPhase DEF Returning
  <2>4. Attempts'
    BY <1>2, <2>1 DEF Attempts, TypeOK, IsApplication
  <2>5. QED
    BY <1>1, <2>1, <2>2, <2>3, <2>4 DEF TypeOK, QueueTypes
<1>3. CASE ~(IsApplication(t) /\ ~launchFinished[t])
  <2>1. UpdateFailureCount(t, FALSE) /\ counting' = {} /\ UNCHANGED queueVars
    BY <1>3
  <2>2. /\ failureCount' \in [Task -> 0 .. 3] /\ shortRuns' \in [Task -> 0 .. 4] /\ lost' \subseteq Task
        /\ Attempts'
    BY <1>1, <2>1, FailureUpdated DEF TypeOK
  <2>3. Queue'
    BY <2>1, QueueKept
  <2>4. QED
    BY <1>1, <2>1, <2>2, <2>3 DEF TypeOK, Returning, queueVars
<1>4. QED
  BY <1>2, <1>3

LEMMA CountFailurePreserves ==
    ASSUME Inv, NEW t \in Task, CountFailure(t)
    PROVE  Inv'
<1> USE DEF Inv, CountFailure, confVars, fileVars, dateVars, historyVars
<1>1. stopped[t] \in BOOLEAN /\ t \in processes /\ failureCount[t] = 0 /\ t \notin lost
  BY DEF TypeOK, Attempts, Returning
<1>2. ~stopped[t] => t \in plain
  BY DEF Attempts
<1>3. /\ failureCount' \in [Task -> 0 .. 3] /\ shortRuns' \in [Task -> 0 .. 4] /\ lost' \subseteq Task
      /\ Attempts'
  <2>1. /\ UNCHANGED <<state, plain, processes, stopped>> /\ counting' = {}
        /\ stopped' \in [Task -> BOOLEAN] /\ \A u \in Task \ {t} : stopped'[u] = stopped[u]
    BY DEF TypeOK
  <2>2. CASE stopped[t]
    <3>1. UpdateFailureCount(t, FALSE)
      BY <2>2
    <3>2. failureCount[t] < 3 /\ stopped'[t] /\ (state[t] = "running" => failureCount[t] = 0)
      BY <1>1, <2>1, <2>2
    <3>3. QED
      BY ONLY Inv, <1>1, <2>1, <3>1, <3>2, FailureUpdated DEF Inv
  <2>3. CASE ~stopped[t]
    <3>1. UpdateFailureCount(t, TRUE)
      BY <2>3
    <3>2. QED
      BY ONLY Inv, <1>1, <1>2, <2>1, <2>3, <3>1, FailureUpdated DEF Inv
  <2>4. QED
    BY <1>1, <2>2, <2>3
<1>4. Queue'
  BY QueueKept
<1>5. QED
  BY <1>3, <1>4 DEF TypeOK, Returning, queueVars

LEMMA ClientStartsPreserves ==
    ASSUME Inv, NEW t \in Task, ClientStarts(t)
    PROVE  Inv'
<1> USE DEF Inv, ClientStarts, LoopVars, confVars, fileVars, dateVars, Idle
<1>1. TaskTypes' /\ Attempts'
  BY LaunchTried
<1>2. QueueTypes' /\ Queue'
  <2>1. CASE PostsAtOnce(t)
    <3>1. ({t} \ plain') \in SUBSET Task /\ NoteApplicationLaunched({t} \ plain')
      BY <2>1
    <3>2. QED
      BY <2>1, <3>1, LaunchNoted, NotedTypes
  <2>2. CASE ~PostsAtOnce(t)
    BY <2>2, QueueKept DEF TypeOK, QueueTypes, queueVars
  <2>3. QED
    BY <2>1, <2>2
<1>3. finishedOnce' \subseteq Task
  BY DEF TypeOK
<1>4. Returning'
  BY NotedPhase, CountKept DEF queueVars, countVars
<1>5. QED
  BY <1>1, <1>2, <1>3, <1>4, CountTypes DEF TypeOK, TaskTypes, QueueTypes

\* The steps of the configuration file up to the reading of its contents.
LEMMA FilePreserves ==
    ASSUME Inv, SaveConfig \/ CheckConfigFileUpdate \/ ReadTable
    PROVE  Inv'
<1> USE DEF Inv, confVars, taskVars, countVars, historyVars
<1>1. Attempts' /\ Returning'
  BY DEF Attempts, Returning, SaveConfig, CheckConfigFileUpdate, ReadTable, Idle, queueVars
<1>2. CASE SaveConfig
  <2>1. TypeOK'
    BY <1>2, FileAssumption, DateAssumption DEF SaveConfig, TypeOK, dateVars, queueVars
  <2>2. Queue'
    BY <1>2, QueueKept DEF SaveConfig
  <2>3. QED
    BY <1>1, <2>1, <2>2
<1>3. CASE CheckConfigFileUpdate
  BY <1>1, <1>3
  DEF CheckConfigFileUpdate, TypeOK, fileVars, Queue, Looping, Pending, Sorted
<1>4. CASE ReadTable
  BY <1>1, <1>4 DEF ReadTable, TypeOK, fileVars, Queue, Looping, Pending, Sorted
<1>5. QED
  BY <1>2, <1>3, <1>4

\* The flags of the tasks after a synchronization: those of the changed ones and of the others.
LEMMA FlagType ==
    ASSUME NEW flag \in BOOLEAN, NEW changed, NEW some, NEW t
    PROVE  (IF t \in changed THEN t \in some ELSE flag) \in BOOLEAN
<1>1. (t \in some) \in BOOLEAN
  OBVIOUS
<1>2. QED
  BY <1>1, Zenon

LEMMA SynchronizeProcessesPreserves ==
    ASSUME Inv, SynchronizeProcesses
    PROVE  Inv'
<1> USE DEF Inv, SynchronizeProcesses, confVars, fileVars
<1>1. TaskTypes'
  <2>1. state' \in [Task -> {"new", "running", "exited"}] /\ failureCount' \in [Task -> 0 .. 3]
    BY DEF TypeOK
  <2>2. stopped' \in [Task -> BOOLEAN]
    BY DEF TypeOK
  <2>3. launchFinished' \in [Task -> BOOLEAN]
    <3>1. PICK changed, some :
            launchFinished' = [t \in Task |-> IF t \in changed THEN t \in some ELSE launchFinished[t]]
      BY Zenon
    <3>2. launchFinished \in [Task -> BOOLEAN]
      BY DEF TypeOK
    <3>3. ASSUME NEW t \in Task
          PROVE  (IF t \in changed THEN t \in some ELSE launchFinished[t]) \in BOOLEAN
      <4>1. launchFinished[t] \in BOOLEAN
        BY ONLY <3>2
      <4>2. QED
        BY ONLY <4>1, FlagType, Zenon
    <3>4. QED
      BY ONLY <3>1, <3>3, Zenon
  <2>4. timer' \in [Task -> BOOLEAN]
    <3>1. PICK changed, some :
            timer' = [t \in Task |-> IF t \in changed THEN t \in some ELSE timer[t]]
      BY Zenon
    <3>2. timer \in [Task -> BOOLEAN]
      BY DEF TypeOK
    <3>3. ASSUME NEW t \in Task
          PROVE  (IF t \in changed THEN t \in some ELSE timer[t]) \in BOOLEAN
      <4>1. timer[t] \in BOOLEAN
        BY ONLY <3>2
      <4>2. QED
        BY ONLY <4>1, FlagType, Zenon
    <3>4. QED
      BY ONLY <3>1, <3>3, Zenon
  <2>5. plain' \subseteq Task
    BY DEF TypeOK
  <2>6. QED
    BY <2>1, <2>2, <2>3, <2>4, <2>5 DEF TaskTypes
<1>2. shortRuns' \in [Task -> 0 .. 4] /\ lost' \subseteq Task /\ counting' \subseteq Task
  BY DEF TypeOK
<1>3. Attempts' /\ Returning'
  <2>1. Returning' /\ counting = {}
    BY DEF Returning
  <2>2. Attempts'
    BY <2>1 DEF Attempts, TypeOK
  <2>3. QED
    BY <2>1, <2>2
<1>4. QueueTypes' /\ Queue' /\ boot' \subseteq Task
  <2>1. CASE scheduled
    BY <2>1, GroupStarted, StartedTypes DEF TypeOK
  <2>2. CASE ~scheduled
    BY <2>2 DEF TypeOK, QueueTypes, Queue, Looping, Pending, Sorted
  <2>3. QED
    BY <2>1, <2>2
<1>5. QED
  BY <1>1, <1>2, <1>3, <1>4 DEF TypeOK, TaskTypes, QueueTypes, ModificationDate

LEMMA Preserved == Inv /\ [Next]_vars => Inv'
<1> SUFFICES ASSUME Inv, [Next]_vars PROVE Inv'
  OBVIOUS
<1>1. CASE UNCHANGED vars
  BY <1>1 DEF Inv, TypeOK, Attempts, Returning, Queue, Looping, Pending, Sorted,
              vars, confVars, fileVars, dateVars, taskVars, queueVars, countVars, historyVars
<1>2. QED
  BY <1>1, StartProcessPreserves, SkipProcessPreserves, EndGroupPreserves, TaskLaunchedPreserves,
     CheckLaunchTimeOutPreserves, ExitPreserves, TaskTerminatedPreserves, CountFailurePreserves,
     ClientStartsPreserves, FilePreserves, SynchronizeProcessesPreserves
  DEF Next, Loop, Timers

-----------------------------------------------------------------------------
(***************************************************************************)
(* The theorems.                                                           *)
(***************************************************************************)

\* Every variable keeps its type: no SCTask counts more than three failures, and no task has more
\* than four short runs in a row.
THEOREM TypeCorrect == Spec => []TypeOK
<1>1. Inv => TypeOK
  BY DEF Inv
<1>2. QED
  BY Starts, Preserved, <1>1, PTL DEF Spec

\* The launch queue is not over before every OnStart task was its turn, whatever group the
\* notifications start from inside the loop of another.
THEOREM NoneSkippedCorrect == Spec => []NoneSkipped
<1>1. Inv => NoneSkipped
  BY DEF Inv, Queue, Looping, Pending, NoneSkipped
<1>2. QED
  BY Starts, Preserved, <1>1, PTL DEF Spec

\* The queue launches in the order of the priorities.
THEOREM PriorityCorrect == Spec => InPriorityOrder
<1> DEFINE InOrder ==
      \A t \in tried' \ tried : \A u \in boot \cap onStart :
          priority[u] < priority[t] => u \in finishedOnce
<1>1. Inv /\ [Next]_vars => [InOrder]_vars
  <2> SUFFICES ASSUME Inv, Next, NEW t \in tried' \ tried, NEW u \in boot \cap onStart,
                      priority[u] < priority[t]
               PROVE  u \in finishedOnce
    OBVIOUS
  <2>1. t \in Task /\ StartProcess(t)
    BY DEF Next, Loop, Timers, StartProcess, SkipProcess, EndGroup, TaskLaunched, ReplacedLaunched,
           CheckLaunchTimeOut, Exit, TaskTerminated, CountFailure, ClientStarts, SaveConfig,
           CheckConfigFileUpdate, ReadTable, SynchronizeProcesses, historyVars
  <2>2. t \in launchGroup
    BY <2>1 DEF StartProcess, Inv, Queue, Looping
  <2>3. priority[t] \in Nat /\ priority[u] \in Nat
    BY <2>1 DEF Inv, TypeOK
  <2>4. u \notin launchGroup
    BY <2>2, <2>3 DEF Inv, Queue, Sorted
  <2>5. u \notin launchQueue
    BY <2>2, <2>3 DEF Inv, Queue, Sorted
  <2>6. QED
    BY <2>4, <2>5 DEF Inv, Queue, Pending
<1>2. QED
  BY Starts, Preserved, <1>1, PTL DEF Spec, InPriorityOrder

\* A task that failed three times in a row is not launched again, or four times when one of them
\* was lost; no task loses two.
THEOREM GivesUpCorrect == Spec => GivesUp
<1> DEFINE Given ==
      \A t \in Task : state[t] # "running" /\ state'[t] = "running" =>
          shortRuns[t] < IF t \in lost THEN 4 ELSE 3
<1>1. Inv /\ [Next]_vars => [Given]_vars
  <2> SUFFICES ASSUME Inv, Next, NEW t \in Task, state[t] # "running", state'[t] = "running"
               PROVE  shortRuns[t] < IF t \in lost THEN 4 ELSE 3
    OBVIOUS
  <2>1. shortRuns[t] = failureCount[t] + (IF t \in lost THEN 1 ELSE 0) /\ failureCount[t] \in Nat
    BY DEF Inv, Attempts, TypeOK
  <2>2. ASSUME NEW u \in Task, StartProcess(u) \/ ClientStarts(u)
        PROVE  failureCount[t] < 3
    BY <2>2 DEF StartProcess, ClientStarts, Launches, LaunchForDomain, NotLaunched, taskVars, Inv, TypeOK
  <2>3. CASE SynchronizeProcesses
    BY <2>1, <2>3 DEF SynchronizeProcesses, Inv, Attempts
  <2>4. \/ \E u \in Task : StartProcess(u) \/ ClientStarts(u)
        \/ SynchronizeProcesses
    BY DEF Next, Loop, Timers, SkipProcess, EndGroup, TaskLaunched, ReplacedLaunched, CheckLaunchTimeOut,
           Exit, TaskTerminated, CountFailure, SaveConfig, CheckConfigFileUpdate, ReadTable, LoopVars,
           taskVars, Inv, TypeOK
  <2>5. QED
    BY <2>1, <2>2, <2>3, <2>4
<1>2. QED
  BY Starts, Preserved, <1>1, PTL DEF Spec, GivesUp

\* A task that is stopped is not launching: the assertion of -checkLaunchTimeOut never fails.
THEOREM NotStoppedCorrect == Spec => []NotStoppedWhileLaunching
<1>1. Init => NotStoppedWhileLaunching
  BY DEF Init, NotStoppedWhileLaunching
<1>2. Inv /\ NotStoppedWhileLaunching /\ [Next]_vars => NotStoppedWhileLaunching'
  <2> SUFFICES ASSUME TypeOK, NotStoppedWhileLaunching, [Next]_vars,
                      NEW u \in Task, timer'[u], ~launchFinished'[u]
               PROVE  ~stopped'[u]
    BY DEF Inv, NotStoppedWhileLaunching
  <2> USE DEF NotStoppedWhileLaunching, TypeOK
  <2>1. CASE UNCHANGED taskVars
    BY <2>1 DEF taskVars
  <2>2. ASSUME NEW t \in Task, LaunchForDomain(t)
        PROVE  ~stopped'[u]
    BY <2>2 DEF LaunchForDomain
  <2>3. ASSUME NEW t \in Task, NotLaunched(t)
        PROVE  ~stopped'[u]
    BY <2>1, <2>3 DEF NotLaunched
  <2>4. ASSUME NEW t \in Task, TaskLaunched(t) \/ CheckLaunchTimeOut(t) \/ Exit(t) \/ TaskTerminated(t)
        PROVE  ~stopped'[u]
    BY <2>4 DEF TaskLaunched, CheckLaunchTimeOut, Exit, TaskTerminated, SetStopped
  <2>5. CASE SynchronizeProcesses
    BY <2>5 DEF SynchronizeProcesses
  <2>6. QED
    BY <2>1, <2>2, <2>3, <2>4, <2>5
    DEF Next, Loop, Timers, StartProcess, ClientStarts, SkipProcess, EndGroup, SaveConfig, ReplacedLaunched,
        CountFailure, CheckConfigFileUpdate, ReadTable, vars, taskVars
<1>3. QED
  BY Starts, Preserved, <1>1, <1>2, PTL DEF Spec

\* With the date of the file, the table has its contents, when no two saves have the same date.
THEOREM TableCorrect ==
    ASSUME SameSecond = FALSE
    PROVE  Spec => []TableFollowsFile
<1> DEFINE Follows == Dates /\ TableFollowsFile
<1>1. Init => Follows
  BY DateAssumption DEF Init, Dates, TableFollowsFile
<1>2. Inv /\ Follows /\ [Next]_vars => Follows'
  <2> SUFFICES ASSUME TypeOK, Queue, Follows, [Next]_vars PROVE Follows'
    BY DEF Inv
  <2>0. fileDate \in Nat /\ attrDate \in Nat /\ readDate \in Nat
    BY DateAssumption DEF TypeOK
  <2> USE <2>0 DEF Dates, TableFollowsFile
  <2>1. CASE SaveConfig
    <3>1. fileDate' = fileDate + 1
      BY <2>1 DEF SaveConfig
    <3>2. QED
      BY <2>1, <3>1 DEF SaveConfig, dateVars
  <2>2. CASE CheckConfigFileUpdate
    BY <2>2 DEF CheckConfigFileUpdate, Idle, fileVars
  <2>3. CASE ReadTable
    BY <2>3 DEF ReadTable, fileVars
  <2>4. CASE SynchronizeProcesses
    <3>1. processes' = newTable /\ readDate' = attrDate /\ phase = "apply"
      BY <2>4 DEF SynchronizeProcesses, ModificationDate
    <3>2. UNCHANGED <<config, readable, fileDate, attrDate>>
      BY <2>4 DEF SynchronizeProcesses, fileVars
    <3>3. phase' \in {"events", "group"}
      BY <2>4, Zenon DEF SynchronizeProcesses, StartSequentially
    <3>4. QED
      BY <3>1, <3>2, <3>3
  <2>5. ASSUME UNCHANGED <<fileVars, dateVars, processes>>,
               phase' # phase => phase \in {"events", "group"} /\ phase' \in {"events", "group"}
        PROVE  Follows'
    BY <2>5 DEF fileVars, dateVars
  <2>6. CASE UNCHANGED vars
    BY <2>5, <2>6 DEF vars, queueVars
  <2>7. ASSUME NEW t \in Task, StartProcess(t) \/ SkipProcess(t) \/ TaskLaunched(t) \/ Exit(t)
                               \/ CheckLaunchTimeOut(t) \/ TaskTerminated(t) \/ ClientStarts(t)
                               \/ ReplacedLaunched(t) \/ CountFailure(t)
        PROVE  Follows'
    BY <2>5, <2>7 DEF StartProcess, SkipProcess, TaskLaunched, Exit, CheckLaunchTimeOut, TaskTerminated,
                      ClientStarts, ReplacedLaunched, CountFailure, Idle, NoteApplicationLaunched,
                      StartSequentially, LoopVars, queueVars
  <2>8. CASE EndGroup
    BY <2>5, <2>8 DEF EndGroup, StartSequentially, LoopVars
  <2>9. QED
    BY <2>1, <2>2, <2>3, <2>4, <2>6, <2>7, <2>8 DEF Next, Loop, Timers
<1>3. Inv /\ [Next]_vars => Inv'
  BY Preserved
<1>4. Follows => TableFollowsFile
  OBVIOUS
<1>5. QED
  BY Starts, <1>1, <1>2, <1>3, <1>4, PTL DEF Spec

=============================================================================
