----------------------------- MODULE LaunchQueue -----------------------------
(***************************************************************************)
(* The supervision of system processes by SCSystem (EtoileSystem.m) and    *)
(* SCTask (SCTask.m): the launch queue that starts the tasks of the        *)
(* session group by group, the table of tasks that follows its             *)
(* configuration file, and the starts clients ask for.                     *)
(*                                                                         *)
(* Everything runs on the main thread of etoile_system, between the events *)
(* of its run loop.  `phase' tells where that thread is: it handles events *)
(* ("events"), it is inside the loop of startProcessesParallely ("group"), *)
(* it has read the date of the configuration file and not yet its contents *)
(* ("sync"), or it has read both ("apply").  The file and the processes    *)
(* change at any time.                                                     *)
(*                                                                         *)
(* A task stands for a domain of the table and for its current SCTask.     *)
(* The launch queue holds the SCTasks the table had when it was made: one  *)
(* that was replaced by a copy (`plain') is still there, and its copy is   *)
(* not.                                                                    *)
(***************************************************************************)
EXTENDS Naturals

CONSTANTS
    Task,        \* the domains a configuration file may list
    App,         \* those whose launch path ends in .app
    Layouts,     \* what the entries may say: records of a priority of each task, the OnStart ones,
                 \* and those whose -launch raises (there is a file, but it cannot be executed)
    Files,       \* what the file may list, sets of domains whose launch path leads to a file
    Wanted,      \* bound: the tasks clients start themselves
    SameSecond,  \* two saves of the file may have the same date
    MaxDate      \* bound: modification dates are 0 .. MaxDate

ASSUME TaskAssumption == App \subseteq Task
ASSUME LayoutAssumption ==
    Layouts \subseteq [priority : [Task -> Nat], onStart : SUBSET Task, raising : SUBSET Task]
ASSUME FileAssumption == Files \subseteq SUBSET Task /\ Wanted \subseteq Task
ASSUME DateAssumption == SameSecond \in BOOLEAN /\ MaxDate \in Nat

VARIABLES
    priority, onStart, raising,             \* the layout of the entries
    config, readable, fileDate,             \* the file: its entries, whether it parses, its date
    attrDate, newTable,                     \* fileAttributes and newProcessTable, read in that order
    readDate,                               \* modificationDate
    processes,                              \* _processes: the domains of the table
    state,                                  \* of the NSTask: "new", "running", "exited"
    stopped, launchFinished, failureCount,  \* ivars of the SCTask
    plain,                                  \* tasks whose SCTask is a copy, made from an executable path
    timer,                                  \* the time-out timer of the SCTask is armed
    counting,                               \* the task whose taskTerminated: has still to count its failure
    launchQueue, launchGroup, scheduled,    \* _launchQueue, _launchGroup, _launchQueueScheduled
    phase, rest, hasLaunched,               \* the loop of startProcessesParallely
    finishedOnce, tried, boot, stuck, shortRuns, lost  \* history, for the properties

confVars == <<priority, onStart, raising>>
fileVars == <<config, readable, fileDate>>
dateVars == <<attrDate, newTable, readDate>>
taskVars == <<state, stopped, launchFinished, failureCount, plain, timer>>
queueVars == <<launchQueue, launchGroup, scheduled, phase, rest, hasLaunched>>
countVars == <<counting, shortRuns, lost>>
historyVars == <<finishedOnce, tried, boot, stuck>>
vars == <<confVars, fileVars, dateVars, processes, taskVars, queueVars, countVars, historyVars>>

\* applicationDidFinishLaunching: has found the file and read its date; no task is created yet.
Init ==
    /\ \E layout \in Layouts :
          priority = layout.priority /\ onStart = layout.onStart /\ raising = layout.raising
    /\ config \in Files
    /\ readable = TRUE
    /\ fileDate = 0
    /\ attrDate = 0
    /\ newTable = {}
    /\ readDate = 0
    /\ processes = {}
    /\ state = [t \in Task |-> "new"]
    /\ stopped = [t \in Task |-> FALSE]
    /\ launchFinished = [t \in Task |-> FALSE]
    /\ failureCount = [t \in Task |-> 0]
    /\ plain = {}
    /\ timer = [t \in Task |-> FALSE]
    /\ launchQueue = {}
    /\ launchGroup = {}
    /\ scheduled = TRUE
    /\ phase = "sync"
    /\ rest = {}
    /\ hasLaunched = FALSE
    /\ finishedOnce = {}
    /\ tried = {}
    /\ boot = {}
    /\ stuck = FALSE
    /\ counting = {}
    /\ shortRuns = [t \in Task |-> 0]
    /\ lost = {}

-----------------------------------------------------------------------------
(***************************************************************************)
(* The launch queue.  Sorted by priority and split where it changes, it is *)
(* known from the set of its tasks: its first group are those of lowest    *)
(* priority.                                                               *)
(***************************************************************************)
FirstGroup(queue) == {t \in queue : \A u \in queue : priority[t] <= priority[u]}

BrokenStartSequentially(queue) ==
    /\ launchGroup' = FirstGroup(queue)
    /\ launchQueue' = queue \ FirstGroup(queue)
    /\ rest' = FirstGroup(queue)
    /\ hasLaunched' = FALSE
    /\ scheduled' = (launchQueue' # {})
    /\ phase' = IF scheduled' THEN "group" ELSE "events"

\* startProcessesSequentiallyByPriorityOrder: takes the next group, and startProcessesParallely:
\* copies it to _launchGroup; without one the queue is over.
StartSequentially(queue) ==
    /\ launchGroup' = FirstGroup(queue)
    /\ launchQueue' = queue \ FirstGroup(queue)
    /\ rest' = FirstGroup(queue)
    /\ hasLaunched' = FALSE
    /\ scheduled' = (queue # {})
    /\ phase' = IF queue = {} THEN "events" ELSE "group"

BrokenNoteApplicationLaunched(posting) ==
    IF ~scheduled THEN UNCHANGED queueVars ELSE StartSequentially(launchQueue)

\* noteApplicationLaunched:, for the task in `posting', or for a copy when there is none: the
\* group does not hold it, removeObject: finds nothing.
NoteApplicationLaunched(posting) ==
    IF ~scheduled
    THEN UNCHANGED queueVars
    ELSE IF launchGroup \ posting = {}
         THEN StartSequentially(launchQueue)
         ELSE /\ launchGroup' = launchGroup \ posting
              /\ UNCHANGED <<launchQueue, scheduled, phase, rest, hasLaunched>>

-----------------------------------------------------------------------------
(***************************************************************************)
(* startProcessWithDomain:error:.  A task that was stopped is first        *)
(* replaced by a copy of itself (taskWithTask:), made from the executable  *)
(* path: the copy is no longer taken for an application.                   *)
(***************************************************************************)
IsApplication(t) == t \in App \ plain

\* The call gets as far as -launchForDomain:, or would but for the three failures.
Startable(t) ==
    /\ t \in processes
    /\ state[t] # "running"

\* An NSTask runs once: -launch raises when it has exited and the SCTask does not know it yet.
LaunchRaises(t) == t \in raising \/ (state[t] = "exited" /\ ~stopped[t])

Launches(t) == Startable(t) /\ ~LaunchRaises(t) /\ failureCount[t] < 3

BrokenCopied(t) ==
    /\ plain' = IF stopped[t] THEN plain \cup {t} ELSE plain
    /\ failureCount' = [failureCount EXCEPT ![t] = IF stopped[t] THEN 0 ELSE @]

\* taskWithTask: gives the copy the failures of the task it replaces.
Copied(t) ==
    /\ plain' = IF stopped[t] THEN plain \cup {t} ELSE plain
    /\ UNCHANGED failureCount

BrokenLaunchForDomain(t) ==
    /\ state' = [state EXCEPT ![t] = "running"]
    /\ stopped' = [stopped EXCEPT ![t] = FALSE]
    /\ Copied(t)
    /\ launchFinished' = [launchFinished EXCEPT ![t] = t \notin App \ plain']
    /\ UNCHANGED timer

\* launchForDomain: a tool has finished launching at once, an application has a timer.
LaunchForDomain(t) ==
    /\ state' = [state EXCEPT ![t] = "running"]
    /\ stopped' = [stopped EXCEPT ![t] = FALSE]
    /\ Copied(t)
    /\ launchFinished' = [launchFinished EXCEPT ![t] = t \notin App \ plain']
    /\ timer' = [timer EXCEPT ![t] = t \in App \ plain']

\* The task is not launched; a stopped one has been replaced all the same.
NotLaunched(t) ==
    IF Startable(t) /\ stopped[t]
    THEN /\ state' = [state EXCEPT ![t] = "new"]
         /\ stopped' = [stopped EXCEPT ![t] = FALSE]
         /\ launchFinished' = [launchFinished EXCEPT ![t] = FALSE]
         /\ timer' = [timer EXCEPT ![t] = FALSE]
         /\ Copied(t)
    ELSE UNCHANGED taskVars

\* A tool, as it is launched, posts that it is (-postTaskLaunched).
PostsAtOnce(t) == Launches(t) /\ (t \notin App \/ t \in plain \/ stopped[t])

-----------------------------------------------------------------------------
(***************************************************************************)
(* The loop of startProcessesParallely:, one task at a time.               *)
(***************************************************************************)
LoopVars == <<confVars, fileVars, dateVars, processes, countVars, boot>>

\* An OnStart task is launched, and its launch awaited; a failure is not looked at.  One that a
\* client started before and that has exited is launched as a copy; one that was replaced by a
\* copy already is not in the table, and nothing is launched.  Either stays in the group.
StartProcess(t) ==
    LET posts == t \notin plain /\ PostsAtOnce(t)
    IN  /\ phase = "group"
        /\ t \in rest \cap onStart
        /\ tried' = tried \cup {t}
        /\ IF t \in plain THEN UNCHANGED taskVars
           ELSE IF Launches(t) THEN LaunchForDomain(t) ELSE NotLaunched(t)
        /\ finishedOnce' = IF posts THEN finishedOnce \cup {t} ELSE finishedOnce
        /\ IF posts /\ launchGroup \ ({t} \ plain') = {}
           THEN StartSequentially(launchQueue)
           ELSE /\ launchGroup' = IF posts THEN launchGroup \ ({t} \ plain') ELSE launchGroup
                /\ rest' = rest \ {t}
                /\ hasLaunched' = TRUE
                /\ UNCHANGED <<launchQueue, scheduled, phase>>
        /\ stuck' = (stuck \/ t \in plain' \/ (~Launches(t) /\ (state'[t] = "new" \/ launchFinished'[t])))
        /\ UNCHANGED LoopVars

BrokenSkipProcess(t) ==
    /\ phase = "group"
    /\ t \in rest \ onStart
    /\ rest' = rest \ {t}
    /\ UNCHANGED <<LoopVars, taskVars, launchGroup, launchQueue, scheduled, phase, hasLaunched,
                   finishedOnce, tried, stuck>>

\* Any other task leaves the group, lest it block the queue.  The loop does not look whether
\* it was the last one the group waited for.
SkipProcess(t) ==
    /\ phase = "group"
    /\ t \in rest \ onStart
    /\ launchGroup' = launchGroup \ {t}
    /\ rest' = rest \ {t}
    /\ stuck' = (stuck \/ (hasLaunched /\ launchGroup = {t}))
    /\ UNCHANGED <<LoopVars, taskVars, launchQueue, scheduled, phase, hasLaunched, finishedOnce, tried>>

\* With nothing launched no notification will come, and the loop goes on by itself.
EndGroup ==
    /\ phase = "group"
    /\ rest = {}
    /\ IF hasLaunched
       THEN /\ phase' = "events"
            /\ UNCHANGED <<launchQueue, launchGroup, scheduled, rest, hasLaunched>>
       ELSE StartSequentially(launchQueue)
    /\ UNCHANGED <<LoopVars, taskVars, finishedOnce, tried, stuck>>

-----------------------------------------------------------------------------
(***************************************************************************)
(* Events.                                                                 *)
(***************************************************************************)

\* The main thread waits for the next event.
Idle == phase = "events" /\ counting = {}

\* taskLaunched: an application of that name has launched: this one, or one the user started.
TaskLaunched(t) ==
    /\ Idle
    /\ t \in processes \cap App
    /\ launchFinished' = [launchFinished EXCEPT ![t] = TRUE]
    /\ finishedOnce' = finishedOnce \cup {t}
    /\ NoteApplicationLaunched({t} \ plain)
    /\ UNCHANGED <<LoopVars, state, stopped, failureCount, plain, timer, tried, stuck>>

\* The same method of an SCTask that was replaced by a copy, which the queue keeps alive.
ReplacedLaunched(t) ==
    /\ Idle
    /\ t \in App \cap plain \cap (launchGroup \cup launchQueue)
    /\ finishedOnce' = finishedOnce \cup {t}
    /\ NoteApplicationLaunched({t})
    /\ UNCHANGED <<LoopVars, taskVars, tried, stuck>>

\* checkLaunchTimeOut
CheckLaunchTimeOut(t) ==
    /\ Idle
    /\ timer[t]
    /\ timer' = [timer EXCEPT ![t] = FALSE]
    /\ IF launchFinished[t]
       THEN UNCHANGED <<launchFinished, finishedOnce, queueVars>>
       ELSE /\ launchFinished' = [launchFinished EXCEPT ![t] = TRUE]
            /\ finishedOnce' = finishedOnce \cup {t}
            /\ NoteApplicationLaunched({t} \ plain)
    /\ UNCHANGED <<LoopVars, state, stopped, failureCount, plain, tried, stuck>>

\* The process ends, by itself or by the SIGTERM of stopProcessWithDomain:error:.
Exit(t) ==
    /\ state[t] = "running"
    /\ state' = [state EXCEPT ![t] = "exited"]
    /\ UNCHANGED <<confVars, fileVars, dateVars, processes, stopped, launchFinished, failureCount,
                   plain, timer, queueVars, countVars, historyVars>>

BrokenSetStopped(t) ==
    /\ stopped' = [stopped EXCEPT ![t] = TRUE]
    /\ UNCHANGED launchFinished

\* The task is stopped, and no longer launching.
SetStopped(t) ==
    /\ stopped' = [stopped EXCEPT ![t] = TRUE]
    /\ launchFinished' = [launchFinished EXCEPT ![t] = TRUE]

\* The run was of less than ten seconds, or longer.  When a copy has replaced the SCTask since it
\* was stopped, the copy has its count of before.
UpdateFailureCount(t, replaced) ==
    \E short \in BOOLEAN :
        /\ shortRuns' = [shortRuns EXCEPT ![t] = IF short THEN @ + 1 ELSE 0]
        /\ failureCount' = [failureCount EXCEPT ![t] = IF replaced THEN @ ELSE IF short THEN @ + 1 ELSE 0]
        /\ lost' = IF ~short THEN lost \ {t} ELSE IF replaced THEN lost \cup {t} ELSE lost

\* taskTerminated:  The end of an application that was still launching is posted before its failure
\* is counted, and the post may start a group.  The relaunch of -[SCSystem processTerminated:] is
\* commented out.
TaskTerminated(t) ==
    /\ Idle
    /\ t \in processes
    /\ state[t] = "exited"
    /\ ~stopped[t]
    /\ SetStopped(t)
    /\ finishedOnce' = finishedOnce \cup {t}
    /\ IF IsApplication(t) /\ ~launchFinished[t]
       THEN NoteApplicationLaunched({t}) /\ counting' = {t} /\ UNCHANGED <<failureCount, shortRuns, lost>>
       ELSE UpdateFailureCount(t, FALSE) /\ UNCHANGED <<counting, queueVars>>
    /\ UNCHANGED <<confVars, fileVars, dateVars, processes, state, plain, timer, tried, boot, stuck>>

\* The post returns, with the loops it has started, and taskTerminated: goes on.
CountFailure(t) ==
    /\ phase = "events"
    /\ t \in counting
    /\ counting' = {}
    /\ UpdateFailureCount(t, ~stopped[t])
    /\ UNCHANGED <<confVars, fileVars, dateVars, processes, state, stopped, launchFinished, plain, timer,
                   queueVars, historyVars>>

\* A client calls startProcessWithDomain:error:.
ClientStarts(t) ==
    /\ Idle
    /\ t \in Wanted
    /\ Startable(t)
    /\ IF Launches(t) THEN LaunchForDomain(t) ELSE NotLaunched(t)
    /\ IF PostsAtOnce(t)
       THEN NoteApplicationLaunched({t} \ plain') /\ finishedOnce' = finishedOnce \cup {t}
       ELSE UNCHANGED <<queueVars, finishedOnce>>
    /\ UNCHANGED <<LoopVars, tried, stuck>>

-----------------------------------------------------------------------------
(***************************************************************************)
(* The configuration file.                                                 *)
(***************************************************************************)

\* Somebody saves the file; two saves within a second leave it the same date.
SaveConfig ==
    /\ config' \in Files
    /\ readable' \in BOOLEAN
    /\ fileDate' \in IF SameSecond THEN {fileDate, fileDate + 1} ELSE {fileDate + 1}
    /\ fileDate' <= MaxDate
    /\ UNCHANGED <<confVars, dateVars, processes, taskVars, queueVars, countVars, historyVars>>

\* checkConfigFileUpdate: and the beginning of synchronizeProcessesWithConfigFile.
CheckConfigFileUpdate ==
    /\ Idle
    /\ ~scheduled
    /\ fileDate > readDate
    /\ attrDate' = fileDate
    /\ phase' = "sync"
    /\ UNCHANGED <<confVars, fileVars, newTable, readDate, processes, taskVars, launchQueue, launchGroup,
                   scheduled, rest, hasLaunched, countVars, historyVars>>

\* The contents are read.  A file that does not parse changes nothing.
ReadTable ==
    /\ phase = "sync"
    /\ newTable' = IF readable THEN config ELSE processes
    /\ phase' = "apply"
    /\ UNCHANGED <<confVars, fileVars, attrDate, readDate, processes, taskVars, launchQueue, launchGroup,
                   scheduled, rest, hasLaunched, countVars, historyVars>>

BrokenModificationDate == fileDate

\* The date to remember is that of the attributes, read before the contents.
ModificationDate == attrDate

\* The rest of it: entries that are gone are stopped and forgotten, new ones are created.  They
\* are started too, OnStart or not, except in the first synchronization, which is followed by
\* the launch queue.
SynchronizeProcesses ==
    LET new == newTable \ processes
        changed == new \cup (processes \ newTable)
        launched == IF scheduled THEN {} ELSE new \ raising
    IN  /\ phase = "apply"
        /\ processes' = newTable
        /\ newTable' = {}
        /\ readDate' = ModificationDate
        /\ state' = [t \in Task |-> IF t \in launched THEN "running"
                                    ELSE IF t \in changed THEN "new" ELSE state[t]]
        /\ stopped' = [t \in Task |-> stopped[t] /\ t \notin changed]
        /\ failureCount' = [t \in Task |-> IF t \in changed THEN 0 ELSE failureCount[t]]
        /\ shortRuns' = [t \in Task |-> IF t \in changed THEN 0 ELSE shortRuns[t]]
        /\ lost' = lost \ changed
        /\ plain' = plain \ changed
        /\ launchFinished' = [t \in Task |-> IF t \in changed THEN t \in launched \ App
                                             ELSE launchFinished[t]]
        /\ timer' = [t \in Task |-> IF t \in changed THEN t \in launched \cap App ELSE timer[t]]
        /\ IF scheduled
           THEN StartSequentially(newTable) /\ boot' = newTable
           ELSE /\ phase' = "events"
                /\ UNCHANGED <<launchQueue, launchGroup, scheduled, rest, hasLaunched, boot>>
        /\ UNCHANGED <<confVars, fileVars, attrDate, counting, finishedOnce, tried, stuck>>

-----------------------------------------------------------------------------
Loop == \E t \in Task : StartProcess(t) \/ SkipProcess(t)
Timers == \E t \in Task : CheckLaunchTimeOut(t)

Next ==
    \/ Loop
    \/ EndGroup
    \/ Timers
    \/ \E t \in Task : TaskLaunched(t) \/ ReplacedLaunched(t) \/ Exit(t) \/ ClientStarts(t)
    \/ \E t \in Task : TaskTerminated(t) \/ CountFailure(t)
    \/ SaveConfig
    \/ CheckConfigFileUpdate
    \/ ReadTable
    \/ SynchronizeProcesses

(***************************************************************************)
(* Fairness: the main thread leaves the methods it is in, and its run loop *)
(* fires the timers, that of each task and that of the configuration file. *)
(* Nobody else has to do anything.                                         *)
(***************************************************************************)
Fairness ==
    /\ WF_vars(Loop)
    /\ WF_vars(EndGroup)
    /\ \A t \in Task : WF_vars(CountFailure(t))
    /\ \A t \in Task : WF_vars(CheckLaunchTimeOut(t))
    /\ WF_vars(CheckConfigFileUpdate)
    /\ WF_vars(ReadTable)
    /\ WF_vars(SynchronizeProcesses)

Spec == Init /\ [][Next]_vars /\ Fairness

-----------------------------------------------------------------------------
(***************************************************************************)
(* Properties.                                                             *)
(***************************************************************************)

\* The types of the variables.
TypeOK ==
    /\ priority \in [Task -> Nat]
    /\ onStart \subseteq Task /\ raising \subseteq Task
    /\ config \subseteq Task
    /\ readable \in BOOLEAN
    /\ {fileDate, attrDate, readDate} \subseteq 0 .. MaxDate
    /\ newTable \subseteq Task
    /\ processes \subseteq Task
    /\ state \in [Task -> {"new", "running", "exited"}]
    /\ stopped \in [Task -> BOOLEAN]
    /\ launchFinished \in [Task -> BOOLEAN]
    /\ failureCount \in [Task -> 0 .. 3]
    /\ plain \subseteq Task
    /\ timer \in [Task -> BOOLEAN]
    /\ launchQueue \subseteq Task
    /\ launchGroup \subseteq Task
    /\ scheduled \in BOOLEAN
    /\ phase \in {"group", "events", "sync", "apply"}
    /\ rest \subseteq Task
    /\ hasLaunched \in BOOLEAN
    /\ finishedOnce \subseteq Task /\ tried \subseteq Task /\ boot \subseteq Task
    /\ stuck \in BOOLEAN
    /\ counting \subseteq Task
    /\ shortRuns \in [Task -> 0 .. 4]
    /\ lost \subseteq Task

\* The assertion of -checkLaunchTimeOut (SCTask.m:354): a task is not stopped while it is still
\* launching.  It relies on every way to stop one to end its launch.
NotStoppedWhileLaunching == \A t \in Task : timer[t] /\ ~launchFinished[t] => ~stopped[t]

\* Tasks are launched by ascending priority (EtoileSystem.h): the queue starts none before every
\* OnStart task of lower priority has launched, has exited or has used up its time.
InPriorityOrder ==
    [][\A t \in tried' \ tried : \A u \in boot \cap onStart :
          priority[u] < priority[t] => u \in finishedOnce]_vars

\* The queue is not over before every OnStart task was its turn, whatever groups its nested calls
\* and late notifications have taken in between.
NoneSkipped == ~scheduled => boot \cap onStart \subseteq tried

\* A task that failed three times in a row is not launched again, although each launch is of a new
\* SCTask; unless its entry was taken out of the file and put back.  One failure is lost when a task
\* that ends while it launches is launched again out of the notification of its end.
GivesUp ==
    [][\A t \in Task : state[t] # "running" /\ state'[t] = "running" =>
          shortRuns[t] < IF t \in lost THEN 4 ELSE 3]_vars

\* The comment of startProcessWithDomain:error: (EtoileSystem.m:513-514), without that exception.
NeverAFourthTime ==
    [][\A t \in Task : state[t] # "running" /\ state'[t] = "running" => shortRuns[t] < 3]_vars

\* With the date of the file in modificationDate, the table has its contents: no save between the
\* reads of a synchronization is lost; if no two have the same date.
TableFollowsFile ==
    phase \in {"events", "group"} /\ readDate = fileDate /\ readable => processes = config

\* The queue comes to its end, thanks to the timers, whatever the processes do.  Except where it
\* gets stuck: it waits for a task that was not launched, had launched before or was replaced by a
\* copy, or skips the last task of a group after the others have launched.
QueueDrains == scheduled ~> (~scheduled \/ stuck)

\* What the comment of startProcessesParallely (EtoileSystem.m:440-443) is about.
QueueNeverBlocks == scheduled ~> ~scheduled

\* A save is noticed, even one made during the launch, unless the queue is stuck.
SaveIsNoticed == fileDate > readDate ~> (fileDate = readDate \/ stuck)

=============================================================================
