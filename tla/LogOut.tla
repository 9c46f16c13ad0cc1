------------------------------- MODULE LogOut -------------------------------
(***************************************************************************)
(* The log out procedure of etoile_system: SCSystem takes the requests and *)
(* ends the session (EtoileSystem.m), ApplicationManager asks the running  *)
(* applications to terminate and collects their answers                    *)
(* (ApplicationManager.m), and each application plays its part of the      *)
(* session protocol (NSApplication+Etoile.m).                              *)
(*                                                                         *)
(* etoile_system has one thread.  While it waits for the answer to a       *)
(* remote call it still serves remote requests and notifications, nested   *)
(* in the method that waits, but fires no timer and performs nothing on    *)
(* the main thread.  `asking' is the application the loop of               *)
(* terminateAllApplicationsOnOperation: waits for, `checking' the one      *)
(* checkTerminatingLaterApplicationWithName: waits for.                    *)
(*                                                                         *)
(* A process of application a is a pair <<a, n>>, its n-th life.           *)
(***************************************************************************)
EXTENDS Integers, Sequences

CONSTANTS
    App,           \* the applications
    Masked,        \* those of hidden system tasks, which maskedProcesses lists
    Unreachable,   \* those _connectApplication: finds no connection to
    Op,            \* the operations the hardware supports
    None,          \* nil
    Lives,         \* bound: how often an application is launched
    Requests       \* bound: how many requests clients send

ASSUME AppAssumption == Masked \subseteq App /\ Unreachable \subseteq App /\ None \notin App \X Nat
ASSUME OpAssumption == None \notin Op
ASSUME BoundAssumption == Lives \in Nat \ {0} /\ Requests \in Nat

VARIABLES
    operation,            \* _operation of SCSystem
    entry,                \* launchedApplications: the process of each application, 0 for none
    waited,               \* waitedApplications: proxies of processes, one for a name
    timers,               \* terminateLaterTimers: how many will fire for an application
    logOut,               \* the flag of ApplicationManager
    replies,              \* replyToLogOutOrPowerOff: calls the main thread is to perform
    loop,                 \* what the enumerator of the asking loop still has to return
    asking, checking,     \* the processes the main thread waits for, None if it does not
    ended,                \* exit(0)
    up, life,             \* is the application running, and its current life
    told, agreed,         \* terminateOnOperation: calls it has to handle; it said Now
    sent,                 \* replyToTerminate:info: calls on their way, for each application
    news,                 \* workspace notifications on their way, for each application
    requests,             \* the requests clients may still send
    askedFor, members, toldNow, refused, stray, fickle  \* history, for the properties

serverVars == <<entry, waited, timers, logOut, loop, asking, checking>>
appVars == <<up, life, told, agreed>>
netVars == <<sent, news, requests>>
historyVars == <<askedFor, members, toldNow, refused, stray, fickle>>
vars == <<operation, serverVars, replies, ended, appVars, netVars, historyVars>>

\* What is in news: the life that was launched, or that the application terminated.
Quitting == 0

Process == App \X (0 .. Lives)
Alive(p) == up[p[1]] /\ life[p[1]] = p[2]
Launched(e) == {a \in App : e[a] # 0}

\* userApplications, when launchedApplications is e.
UserApplications(e) == Launched(e) \ Masked

\* The session has started, and knows the applications that run.
Init ==
    /\ operation = None
    /\ up \in [App -> BOOLEAN]
    /\ life = [a \in App |-> IF up[a] THEN 1 ELSE 0]
    /\ entry = life
    /\ waited = {}
    /\ timers = [a \in App |-> 0]
    /\ logOut = FALSE
    /\ replies = <<>>
    /\ loop = {}
    /\ asking = None
    /\ checking = None
    /\ ended = FALSE
    /\ told = [a \in App |-> 0]
    /\ agreed = {}
    /\ sent = [a \in App |-> <<>>]
    /\ news = [a \in App |-> <<>>]
    /\ requests = Requests
    /\ askedFor = None
    /\ members = {}
    /\ toldNow = {}
    /\ refused = FALSE
    /\ stray = FALSE
    /\ fickle = {}

-----------------------------------------------------------------------------
(***************************************************************************)
(* What the main thread may do.                                            *)
(***************************************************************************)
\* It waits for an event, in the run loop or for the answer to a remote call.
Serves == ~ended /\ (asking # None \/ loop = {})

\* It waits in the run loop, where timers fire too.
Idle == Serves /\ asking = None /\ checking = None

\* Some of the queued answers lets the session end.
Ready(rs) == \E i \in DOMAIN rs : rs[i] = "ready"

BrokenLeaveProcedure(reply) ==
    /\ timers' = [a \in App |-> 0]
    /\ waited' = {}
    /\ replies' = Append(replies, reply)
    /\ UNCHANGED logOut

\* The lines that leave the procedure and call SCSystem back.
LeaveProcedure(reply) ==
    /\ logOut' = FALSE
    /\ timers' = [a \in App |-> 0]
    /\ waited' = {}
    /\ replies' = Append(replies, reply)

BrokenCancelProcedure ==
    /\ LeaveProcedure("ready")
    /\ refused' = (refused \/ (logOut /\ ~Ready(replies)))
    /\ stray' = (stray \/ ~logOut)

\* An application cancels.  It refuses the operation underway, if that has no answer yet; the
\* cancellation is stray when there is no procedure to cancel.
CancelProcedure ==
    /\ LeaveProcedure("cancel")
    /\ refused' = (refused \/ (logOut /\ ~Ready(replies)))
    /\ stray' = (stray \/ ~logOut)

WithoutName(ps, a) == {p \in ps : p[1] # a}

-----------------------------------------------------------------------------
(***************************************************************************)
(* Requests: logOut and powerOff:.                                         *)
(***************************************************************************)
BrokenStartProcedure(op) ==
    /\ waited' = {}
    /\ logOut' = TRUE
    /\ replies' = replies
    /\ loop' = UserApplications(entry)
    /\ askedFor' = op
    /\ members' = {a \in UserApplications(entry) :
                     up[a] /\ entry[a] = life[a] /\ news[a] = <<>>}
    /\ toldNow' = {}
    /\ refused' = FALSE

\* terminateAllApplicationsOnOperation: up to its loop.
StartProcedure(op) ==
    /\ waited' = {}
    /\ logOut' = TRUE
    /\ replies' = IF UserApplications(entry) = {} THEN Append(replies, "ready") ELSE replies
    /\ loop' = UserApplications(entry)
    /\ askedFor' = op
    /\ members' = {a \in UserApplications(entry) :
                     up[a] /\ entry[a] = life[a] /\ news[a] = <<>>}
    /\ toldNow' = {}
    /\ refused' = FALSE

BrokenRequest(op) ==
    /\ Serves
    /\ requests > 0
    /\ requests' = requests - 1
    /\ operation' = op
    /\ IF logOut
       THEN UNCHANGED <<waited, logOut, replies, loop, askedFor, members, toldNow, refused>>
       ELSE StartProcedure(op)
    /\ UNCHANGED <<entry, timers, asking, checking, ended, appVars, sent, news, stray, fickle>>

\* A client asks for op: refused while another operation is underway, else handed to
\* ApplicationManager, which discards it during its own procedure.
Request(op) ==
    /\ Serves
    /\ requests > 0
    /\ requests' = requests - 1
    /\ operation' = IF operation = None THEN op ELSE operation
    /\ IF operation # None \/ logOut
       THEN UNCHANGED <<waited, logOut, replies, loop, askedFor, members, toldNow, refused>>
       ELSE StartProcedure(op)
    /\ UNCHANGED <<entry, timers, asking, checking, ended, appVars, sent, news, stray, fickle>>

-----------------------------------------------------------------------------
(***************************************************************************)
(* The loop that asks every application.                                   *)
(***************************************************************************)
\* The next application: one that cannot be reached is ignored, the others are waited for.
AskNext(a) ==
    /\ ~ended
    /\ asking = None
    /\ a \in loop
    /\ loop' = loop \ {a}
    /\ IF up[a] /\ a \notin Unreachable
       THEN /\ waited' = WithoutName(waited, a) \cup {<<a, life[a]>>}
            /\ asking' = <<a, life[a]>>
       ELSE UNCHANGED <<waited, asking>>
    /\ UNCHANGED <<operation, entry, timers, logOut, replies, checking, ended, appVars,
                   netVars, historyVars>>

\* Application a gives an answer; a fickle one had agreed to terminate.
Says(a, answer) ==
    /\ agreed' = IF answer = "now" THEN agreed \cup {a} ELSE agreed \ {a}
    /\ fickle' = IF answer # "now" /\ a \in agreed THEN fickle \cup {a} ELSE fickle

\* Its answer to shouldTerminateOnOperation: comes: Later sets a timer, and whatever it
\* answered it is told to terminate.
Answered(answer) ==
    LET a == asking[1] IN
    /\ asking # None
    /\ ~ended
    /\ Alive(asking)
    /\ Says(a, answer)
    /\ timers' = IF answer = "later" THEN [timers EXCEPT ![a] = @ + 1] ELSE timers
    /\ told' = [told EXCEPT ![a] = @ + 1]
    /\ toldNow' = toldNow \cup {a}
    /\ asking' = None
    /\ UNCHANGED <<operation, entry, waited, logOut, replies, loop, checking, ended, up, life,
                   netVars, askedFor, members, refused, stray>>

\* The remote call raises: the loop goes on with the next application.
AnswerRaises ==
    /\ asking # None
    /\ ~ended
    /\ asking' = None
    /\ UNCHANGED <<operation, entry, waited, timers, logOut, replies, loop, checking, ended,
                   appVars, netVars, historyVars>>

\* The application had answered, and is gone when it is told: this call raises outside the
\* handler, and ends the loop.
TellRaises(later) ==
    /\ asking # None
    /\ ~ended
    /\ ~Alive(asking)
    /\ timers' = IF later THEN [timers EXCEPT ![asking[1]] = @ + 1] ELSE timers
    /\ asking' = None
    /\ loop' = {}
    /\ UNCHANGED <<operation, entry, waited, logOut, replies, checking, ended, appVars,
                   netVars, historyVars>>

-----------------------------------------------------------------------------
(***************************************************************************)
(* The timer of an application that answered Later.                        *)
(***************************************************************************)
TimerFires(a) ==
    /\ Idle
    /\ timers[a] > 0
    /\ timers' = [timers EXCEPT ![a] = @ - 1]
    /\ checking' = IF \E p \in waited : p[1] = a
                   THEN CHOOSE p \in waited : p[1] = a
                   ELSE None
    /\ UNCHANGED <<operation, entry, waited, logOut, replies, loop, asking, ended, appVars,
                   netVars, historyVars>>

\* The rest of it: the answer comes, and only Now lets the log out go on.
Checked(answer) ==
    LET a == checking[1] IN
    /\ checking # None
    /\ Serves
    /\ asking = None
    /\ Alive(checking)
    /\ Says(a, answer)
    /\ checking' = None
    /\ IF answer = "now"
       THEN /\ waited' = WithoutName(waited, a)
            /\ UNCHANGED <<timers, logOut, replies, refused, stray>>
       ELSE CancelProcedure
    /\ UNCHANGED <<operation, entry, loop, asking, ended, up, life, told, netVars,
                   askedFor, members, toldNow>>

\* The remote call raises, out of the timer.
CheckRaises ==
    /\ checking # None
    /\ Serves
    /\ asking = None
    /\ checking' = None
    /\ UNCHANGED <<operation, entry, waited, timers, logOut, replies, loop, asking, ended,
                   appVars, netVars, historyVars>>

-----------------------------------------------------------------------------
(***************************************************************************)
(* Answers and notifications from applications.                            *)
(***************************************************************************)
\* replyToTerminate:info: counts if the application is still waited for.
ReplyToTerminate(a) ==
    /\ Serves
    /\ sent[a] # <<>>
    /\ sent' = [sent EXCEPT ![a] = Tail(@)]
    /\ IF \A p \in waited : p[1] # a
       THEN UNCHANGED <<waited, timers, logOut, replies, refused, stray>>
       ELSE IF Head(sent[a]) = "now"
            THEN /\ waited' = WithoutName(waited, a)
                 /\ UNCHANGED <<timers, logOut, replies, refused, stray>>
            ELSE CancelProcedure
    /\ UNCHANGED <<operation, entry, loop, asking, checking, ended, appVars, news, requests,
                   askedFor, members, toldNow, fickle>>

\* noteApplicationLaunched:.  The enumerator of a loop that is running may return a new entry.
NoteApplicationLaunched(a) ==
    /\ Serves
    /\ news[a] # <<>>
    /\ Head(news[a]) # Quitting
    /\ news' = [news EXCEPT ![a] = Tail(@)]
    /\ entry' = [entry EXCEPT ![a] = Head(news[a])]
    /\ \/ UNCHANGED loop
       \/ asking # None /\ entry[a] = 0 /\ a \notin Masked /\ loop' = loop \cup {a}
    /\ UNCHANGED <<operation, waited, timers, logOut, replies, asking, checking, ended,
                   appVars, sent, requests, historyVars>>

BrokenTerminated(gone) ==
    /\ entry' = [a \in App |-> IF a \in gone THEN 0 ELSE entry[a]]
    /\ loop' = loop \ gone
    /\ IF logOut /\ \A p \in waited : p[1] \in gone \cup Masked
       THEN LeaveProcedure("ready")
       ELSE UNCHANGED <<logOut, timers, waited, replies>>

\* What noteApplicationTerminated: does for the applications of gone, one after the other.
Terminated(gone) ==
    /\ entry' = [a \in App |-> IF a \in gone THEN 0 ELSE entry[a]]
    /\ loop' = loop \ gone
    /\ IF logOut /\ UserApplications(entry') = {}
       THEN LeaveProcedure("ready")
       ELSE UNCHANGED <<logOut, timers, waited, replies>>

NoteApplicationTerminated(a) ==
    /\ Serves
    /\ news[a] # <<>>
    /\ Head(news[a]) = Quitting
    /\ news' = [news EXCEPT ![a] = Tail(@)]
    /\ Terminated({a})
    /\ UNCHANGED <<operation, asking, checking, ended, appVars, sent, requests, historyVars>>

\* The entries whose process is no more.
Gone == {a \in Launched(entry) : ~Alive(<<a, entry[a]>>)}

\* checkLiveApplications, every second: the notification it posts reaches this process too,
\* through the distributed centre.
CheckLiveApplications ==
    /\ Idle
    /\ Gone # {}
    /\ Terminated(Gone)
    /\ news' = [a \in App |-> IF a \in Gone THEN Append(news[a], Quitting) ELSE news[a]]
    /\ UNCHANGED <<operation, asking, checking, ended, appVars, sent, requests, historyVars>>

-----------------------------------------------------------------------------
(***************************************************************************)
(* The answer to SCSystem.                                                 *)
(***************************************************************************)
\* replyToLogOutOrPowerOff:, for the calls that have been queued, in their order: the first
\* that is ready stops the tasks and exits, the others show an alert and forget the operation.
ReplyToLogOutOrPowerOff ==
    /\ Idle
    /\ replies # <<>>
    /\ replies' = <<>>
    /\ ended' = Ready(replies)
    /\ operation' = IF Head(replies) = "ready" THEN operation ELSE None
    /\ UNCHANGED <<serverVars, appVars, netVars, historyVars>>

-----------------------------------------------------------------------------
(***************************************************************************)
(* The applications.                                                       *)
(***************************************************************************)
\* It starts, and posts NSWorkspaceDidLaunchApplicationNotification.
Launch(a) ==
    /\ ~ended
    /\ ~up[a]
    /\ life[a] < Lives
    /\ up' = [up EXCEPT ![a] = TRUE]
    /\ life' = [life EXCEPT ![a] = @ + 1]
    /\ news' = [news EXCEPT ![a] = Append(@, life'[a])]
    /\ UNCHANGED <<operation, serverVars, replies, ended, told, agreed, sent, requests,
                   historyVars>>

Dies(a) ==
    /\ ~ended
    /\ up[a]
    /\ up' = [up EXCEPT ![a] = FALSE]
    /\ told' = [told EXCEPT ![a] = 0]
    /\ agreed' = agreed \ {a}
    /\ members' = members \ {a}
    /\ toldNow' = toldNow \ {a}
    /\ fickle' = fickle \ {a}
    /\ UNCHANGED <<operation, serverVars, replies, ended, life, sent, requests,
                   askedFor, refused, stray>>

\* It quits, by itself or because it agreed to, and posts
\* NSWorkspaceDidTerminateApplicationNotification.
Quit(a) == Dies(a) /\ news' = [news EXCEPT ![a] = Append(@, Quitting)]

\* It crashes, and posts nothing.
Crash(a) == Dies(a) /\ UNCHANGED news

\* terminateOnOperation:inSession: the application asks its delegate or its user, and
\* answers with replyToTerminate:info:.
TerminateOnOperation(a, answer) ==
    /\ ~ended
    /\ up[a]
    /\ told[a] > 0
    /\ told' = [told EXCEPT ![a] = @ - 1]
    /\ Says(a, answer)
    /\ sent' = [sent EXCEPT ![a] = Append(@, answer)]
    /\ UNCHANGED <<operation, serverVars, replies, ended, up, life, news, requests,
                   askedFor, members, toldNow, refused, stray>>

-----------------------------------------------------------------------------
Manager ==
    \/ \E a \in App : AskNext(a) \/ TimerFires(a) \/ ReplyToTerminate(a)
                      \/ NoteApplicationLaunched(a) \/ NoteApplicationTerminated(a)
    \/ \E answer \in {"now", "later", "cancel"} : Answered(answer) \/ Checked(answer)
    \/ AnswerRaises \/ CheckRaises
    \/ \E later \in BOOLEAN : TellRaises(later)
    \/ CheckLiveApplications
    \/ ReplyToLogOutOrPowerOff

Applications ==
    \E a \in App :
       \/ Launch(a) \/ Quit(a) \/ Crash(a)
       \/ \E answer \in {"now", "cancel"} : TerminateOnOperation(a, answer)

Next == Manager \/ Applications \/ \E op \in Op : Request(op)

\* The manager goes on while something is to be done: what it handles is finite.  An
\* application handles what it is told to, and one that has said Now then quits.
Fairness ==
    /\ WF_vars(Manager)
    /\ \A a \in App :
          /\ WF_vars(\E answer \in {"now", "cancel"} : TerminateOnOperation(a, answer))
          /\ WF_vars(a \in agreed /\ told[a] = 0 /\ Quit(a))

Spec == Init /\ [][Next]_vars /\ Fairness

-----------------------------------------------------------------------------
(***************************************************************************)
(* Properties.                                                             *)
(***************************************************************************)
\* The types of the variables.
TypeOK ==
    /\ operation \in Op \cup {None}
    /\ entry \in [App -> 0 .. Lives]
    /\ waited \subseteq Process
    /\ timers \in [App -> Nat]
    /\ logOut \in BOOLEAN
    /\ replies \in Seq({"ready", "cancel"})
    /\ loop \subseteq App
    /\ asking \in Process \cup {None}
    /\ checking \in Process \cup {None}
    /\ ended \in BOOLEAN
    /\ up \in [App -> BOOLEAN]
    /\ life \in [App -> 0 .. Lives]
    /\ told \in [App -> Nat]
    /\ agreed \subseteq App
    /\ sent \in [App -> Seq({"now", "cancel"})]
    /\ news \in [App -> Seq(0 .. Lives)]
    /\ requests \in 0 .. Requests
    /\ askedFor \in Op \cup {None}
    /\ members \subseteq App
    /\ toldNow \subseteq App
    /\ refused \in BOOLEAN
    /\ stray \in BOOLEAN
    /\ fickle \subseteq App

\* The two locks of the log out agree: SCSystem refuses requests (_operation) exactly while
\* ApplicationManager is in its procedure (logOut) or its answer is on its way, unless an
\* application cancelled what no procedure was waiting for.
LocksAgree ==
    /\ operation # None /\ ~ended => logOut \/ replies # <<>>
    /\ logOut => operation # None \/ stray

\* The session ends only when the user applications that were running, and known, when the
\* operation began have quit since, unless an application cancelled what no procedure was
\* waiting for.
NoneLeftRunning == ended /\ ~stray => members = {}

\* Once an application has refused an operation underway, the session does not end before
\* applications have been asked again.
RefusalHolds == refused => ~ended

\* The session ends with the operation its applications were asked about, unless an
\* application cancelled what no procedure was waiting for.
EndsAsAsked == ended /\ ~stray => operation = askedFor

\* What powerOff: documents ("Shuts down or reboots the computer depending on reboot flag
\* value"), with no exception: the session ends with the operation it was asked for.
EndsAsDocumented == ended => operation = askedFor

\* A log out that has been accepted is answered, or held up by a user application that is
\* running: one that was never told to terminate (launched since, not reachable, or its call
\* raised), or one that agreed to terminate and then would not.
Answers ==
    operation # None ~>
       \/ ended \/ operation = None
       \/ \E a \in App \ Masked : up[a] /\ (a \notin toldNow \/ a \in fickle)

\* What the manager says of an application it cannot connect to ("ignoring"): it does not
\* hold up the log out, which is answered.
IgnoresUnreachable == operation # None ~> ended \/ operation = None
=============================================================================
