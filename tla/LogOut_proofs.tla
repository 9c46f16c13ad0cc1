--------------------------- MODULE LogOut_proofs ---------------------------
(***************************************************************************)
(* Proofs about LogOut, for any applications, launches and requests.       *)
(***************************************************************************)
EXTENDS LogOut, SequenceTheorems, TLAPS

Reply == {"ready", "cancel"}
Answer == {"now", "later", "cancel"}

-----------------------------------------------------------------------------
(* The queue of answers.                                                   *)

Cancelled(rs) == \E i \in DOMAIN rs : rs[i] = "cancel"

LEMMA NoReply == ~Ready(<<>>) /\ ~Cancelled(<<>>)
BY DEF Ready, Cancelled

LEMMA FirstReply ==
  ASSUME NEW rs \in Seq(Reply), rs # <<>>
  PROVE  /\ Head(rs) \in Reply
         /\ Head(rs) = "ready" => Ready(rs)
         /\ Head(rs) = "cancel" => Cancelled(rs)
<1>1. Len(rs) \in Nat /\ Len(rs) > 0 /\ Head(rs) = rs[1] /\ 1 \in DOMAIN rs /\ rs[1] \in Reply
  BY EmptySeq, HeadTailProperties, ElementOfSeq
<1>2. QED
  BY <1>1 DEF Ready, Cancelled

LEMMA HeadTailType ==
  ASSUME NEW S, NEW s \in Seq(S), s # <<>>
  PROVE  Head(s) \in S /\ Tail(s) \in Seq(S)
<1>1. Len(s) \in Nat /\ Len(s) > 0 /\ Head(s) = s[1] /\ s[1] \in S
  BY EmptySeq, HeadTailProperties, ElementOfSeq
<1>2. QED
  BY <1>1, HeadTailProperties

LEMMA QueuedReply ==
  ASSUME NEW rs \in Seq(Reply), NEW r \in Reply
  PROVE  /\ Append(rs, r) \in Seq(Reply) /\ Append(rs, r) # <<>>
         /\ Head(Append(rs, r)) = IF rs = <<>> THEN r ELSE Head(rs)
         /\ Ready(Append(rs, r)) <=> Ready(rs) \/ r = "ready"
         /\ Cancelled(Append(rs, r)) <=> Cancelled(rs) \/ r = "cancel"
<1> DEFINE qs == Append(rs, r)
<1>1. /\ Len(rs) \in Nat /\ qs \in Seq(Reply) /\ Len(qs) = Len(rs) + 1
      /\ \A i \in 1 .. Len(rs) : qs[i] = rs[i]
      /\ qs[Len(rs) + 1] = r
      /\ DOMAIN qs = 1 .. Len(rs) + 1 /\ DOMAIN rs = 1 .. Len(rs)
  BY AppendProperties, LenProperties
<1>2. qs # <<>> /\ Head(qs) = qs[1]
  BY <1>1
<1>3. Head(qs) = IF rs = <<>> THEN r ELSE Head(rs)
  <2>1. CASE rs = <<>>
    BY <1>1, <1>2, <2>1
  <2>2. CASE rs # <<>>
    BY <1>1, <1>2, <2>2
  <2>3. QED
    BY <2>1, <2>2
<1>4. Ready(qs) <=> Ready(rs) \/ r = "ready"
  <2> HIDE DEF qs
  <2>1. ASSUME Ready(qs), r # "ready" PROVE Ready(rs)
    BY <1>1, <2>1 DEF Ready
  <2>2. ASSUME Ready(rs) PROVE Ready(qs)
    BY <1>1, <2>2 DEF Ready
  <2>3. ASSUME r = "ready" PROVE Ready(qs)
    BY <1>1, <2>3 DEF Ready
  <2>4. QED
    BY <2>1, <2>2, <2>3
<1>5. Cancelled(qs) <=> Cancelled(rs) \/ r = "cancel"
  <2> HIDE DEF qs
  <2>1. ASSUME Cancelled(qs), r # "cancel" PROVE Cancelled(rs)
    BY <1>1, <2>1 DEF Cancelled
  <2>2. ASSUME Cancelled(rs) PROVE Cancelled(qs)
    BY <1>1, <2>2 DEF Cancelled
  <2>3. ASSUME r = "cancel" PROVE Cancelled(qs)
    BY <1>1, <2>3 DEF Cancelled
  <2>4. QED
    BY <2>1, <2>2, <2>3
<1>6. QED
  BY <1>1, <1>2, <1>3, <1>4, <1>5

-----------------------------------------------------------------------------
(* Type correctness.                                                       *)

LEMMA CancelType ==
  ASSUME TypeOK, CancelProcedure
  PROVE  /\ logOut' \in BOOLEAN /\ timers' \in [App -> Nat] /\ waited' \subseteq Process
         /\ replies' \in Seq(Reply) /\ refused' \in BOOLEAN /\ stray' \in BOOLEAN
<1>1. replies' = Append(replies, "cancel") /\ replies \in Seq(Reply) /\ "cancel" \in Reply
  BY DEF CancelProcedure, LeaveProcedure, TypeOK, Reply
<1>2. replies' \in Seq(Reply)
  BY <1>1, QueuedReply
<1>3. QED
  BY <1>2 DEF CancelProcedure, LeaveProcedure, TypeOK, Ready

LEMMA TerminatedType ==
  ASSUME TypeOK, NEW gone, Terminated(gone)
  PROVE  /\ entry' \in [App -> 0 .. Lives] /\ loop' \subseteq App
         /\ logOut' \in BOOLEAN /\ timers' \in [App -> Nat] /\ waited' \subseteq Process
         /\ replies' \in Seq(Reply)
<1>1. replies' \in Seq(Reply)
  <2>1. "ready" \in Reply /\ replies \in Seq(Reply)
    BY DEF Reply, TypeOK
  <2>2. replies' = Append(replies, "ready") \/ replies' = replies
    BY DEF Terminated, LeaveProcedure
  <2>3. QED
    BY <2>1, <2>2, QueuedReply
<1>2. entry' \in [App -> 0 .. Lives]
  BY BoundAssumption DEF Terminated, TypeOK
<1>3. CASE logOut /\ UserApplications(entry') = {}
  <2>1. /\ logOut' = FALSE /\ waited' = {} /\ timers' = [a \in App |-> 0]
        /\ loop' = loop \ gone /\ loop \subseteq App
    BY <1>3 DEF Terminated, LeaveProcedure, TypeOK
  <2>2. timers' \in [App -> Nat]
    BY <2>1
  <2>3. QED
    BY <1>1, <1>2, <2>1, <2>2
<1>4. CASE ~(logOut /\ UserApplications(entry') = {})
  BY <1>1, <1>2, <1>4 DEF Terminated, TypeOK
<1>5. QED
  BY <1>3, <1>4

LEMMA SaysType ==
  ASSUME TypeOK, NEW a \in App, NEW answer, Says(a, answer)
  PROVE  agreed' \subseteq App /\ fickle' \subseteq App
BY DEF Says, TypeOK

LEMMA TypeStep == TypeOK /\ [Next]_vars => TypeOK'
<1> USE DEF serverVars, appVars, netVars, historyVars
<1> SUFFICES ASSUME TypeOK, [Next]_vars PROVE TypeOK'
  OBVIOUS
<1>1. ASSUME NEW a \in App, AskNext(a) PROVE TypeOK'
  <2>1. CASE up[a] /\ a \notin Unreachable
    <3>1. <<a, life[a]>> = asking' /\ life[a] \in 0 .. Lives
      BY <1>1, <2>1 DEF AskNext, TypeOK
    <3>2. asking' \in Process
      BY <3>1 DEF Process
    <3>3. waited' \subseteq Process
      BY <1>1, <2>1, <3>1, <3>2 DEF AskNext, TypeOK, WithoutName
    <3>4. QED
      BY <1>1, <3>2, <3>3 DEF AskNext, TypeOK
  <2>2. CASE ~(up[a] /\ a \notin Unreachable)
    BY <1>1, <2>2 DEF AskNext, TypeOK
  <2>3. QED
    BY <2>1, <2>2
<1>2. ASSUME NEW a \in App, TimerFires(a) PROVE TypeOK'
  <2>1. checking' \in Process \cup {None}
    BY <1>2 DEF TimerFires, TypeOK
  <2>2. timers' \in [App -> Nat]
    BY <1>2 DEF TimerFires, TypeOK
  <2>3. QED
    BY <1>2, <2>1, <2>2 DEF TimerFires, TypeOK
<1>3. ASSUME NEW a \in App, ReplyToTerminate(a) PROVE TypeOK'
  <2>1. sent' \in [App -> Seq({"now", "cancel"})]
    BY <1>3 DEF ReplyToTerminate, TypeOK
  <2>2. /\ logOut' \in BOOLEAN /\ timers' \in [App -> Nat] /\ waited' \subseteq Process
        /\ replies' \in Seq(Reply) /\ refused' \in BOOLEAN /\ stray' \in BOOLEAN
    BY <1>3, CancelType DEF ReplyToTerminate, TypeOK, WithoutName, Reply
  <2>3. QED
    BY <1>3, <2>1, <2>2 DEF ReplyToTerminate, TypeOK, Reply
<1>4. ASSUME NEW a \in App, NoteApplicationLaunched(a) PROVE TypeOK'
  <2>1. news[a] \in Seq(0 .. Lives) /\ news[a] # <<>>
    BY <1>4 DEF NoteApplicationLaunched, TypeOK
  <2>2. Head(news[a]) \in 0 .. Lives /\ Tail(news[a]) \in Seq(0 .. Lives)
    BY <2>1, HeadTailType
  <2>3. QED
    BY <1>4, <2>2 DEF NoteApplicationLaunched, TypeOK
<1>5. ASSUME NEW a \in App, NoteApplicationTerminated(a) PROVE TypeOK'
  <2>1. news[a] \in Seq(0 .. Lives) /\ news[a] # <<>>
    BY <1>5 DEF NoteApplicationTerminated, TypeOK
  <2>2. Tail(news[a]) \in Seq(0 .. Lives)
    BY <2>1, HeadTailType
  <2>3. /\ entry' \in [App -> 0 .. Lives] /\ loop' \subseteq App
        /\ logOut' \in BOOLEAN /\ timers' \in [App -> Nat] /\ waited' \subseteq Process
        /\ replies' \in Seq(Reply)
    BY <1>5, TerminatedType DEF NoteApplicationTerminated
  <2>4. QED
    BY <1>5, <2>2, <2>3 DEF NoteApplicationTerminated, TypeOK, Reply
<1>6. ASSUME NEW answer \in Answer, Answered(answer) PROVE TypeOK'
  <2>1. asking \in Process /\ asking[1] \in App
    BY <1>6 DEF Answered, TypeOK, Process
  <2>2. agreed' \subseteq App /\ fickle' \subseteq App
    BY <1>6, <2>1, SaysType DEF Answered
  <2>3. timers' \in [App -> Nat] /\ told' \in [App -> Nat]
    <3>1. timers \in [App -> Nat] /\ told \in [App -> Nat]
      BY DEF TypeOK
    <3>2. [timers EXCEPT ![asking[1]] = @ + 1] \in [App -> Nat]
      BY ONLY <2>1, <3>1
    <3>3. [told EXCEPT ![asking[1]] = @ + 1] \in [App -> Nat]
      BY ONLY <2>1, <3>1
    <3>4. QED
      BY <1>6, <3>1, <3>2, <3>3, Zenon DEF Answered
  <2>4. QED
    BY <1>6, <2>1, <2>2, <2>3 DEF Answered, TypeOK
<1>7. ASSUME NEW answer \in Answer, Checked(answer) PROVE TypeOK'
  <2>1. checking \in Process /\ checking[1] \in App
    BY <1>7 DEF Checked, TypeOK, Process
  <2>2. agreed' \subseteq App /\ fickle' \subseteq App
    BY <1>7, <2>1, SaysType DEF Checked
  <2>3. /\ logOut' \in BOOLEAN /\ timers' \in [App -> Nat] /\ waited' \subseteq Process
        /\ replies' \in Seq(Reply) /\ refused' \in BOOLEAN /\ stray' \in BOOLEAN
    BY <1>7, CancelType DEF Checked, TypeOK, WithoutName, Reply
  <2>4. QED
    BY <1>7, <2>1, <2>2, <2>3 DEF Checked, TypeOK, Reply
<1>8. ASSUME AnswerRaises PROVE TypeOK'
  BY <1>8 DEF AnswerRaises, TypeOK
<1>9. ASSUME CheckRaises PROVE TypeOK'
  BY <1>9 DEF CheckRaises, TypeOK
<1>10. ASSUME NEW later \in BOOLEAN, TellRaises(later) PROVE TypeOK'
  <2>1. asking \in Process /\ asking[1] \in App
    BY <1>10 DEF TellRaises, TypeOK, Process
  <2>2. timers' \in [App -> Nat]
    BY <1>10, <2>1 DEF TellRaises, TypeOK
  <2>3. QED
    BY <1>10, <2>2 DEF TellRaises, TypeOK
<1>11. ASSUME CheckLiveApplications PROVE TypeOK'
  <2>1. \A a \in App : Append(news[a], Quitting) \in Seq(0 .. Lives)
    BY BoundAssumption DEF TypeOK, Quitting
  <2>2. news' \in [App -> Seq(0 .. Lives)]
    BY <1>11, <2>1 DEF CheckLiveApplications, TypeOK
  <2>3. /\ entry' \in [App -> 0 .. Lives] /\ loop' \subseteq App
        /\ logOut' \in BOOLEAN /\ timers' \in [App -> Nat] /\ waited' \subseteq Process
        /\ replies' \in Seq(Reply)
    BY <1>11, TerminatedType DEF CheckLiveApplications
  <2>4. QED
    BY <1>11, <2>2, <2>3 DEF CheckLiveApplications, TypeOK, Reply
<1>12. ASSUME ReplyToLogOutOrPowerOff PROVE TypeOK'
  BY <1>12 DEF ReplyToLogOutOrPowerOff, TypeOK, Ready
<1>13. ASSUME NEW a \in App, Launch(a) PROVE TypeOK'
  <2>1. life' \in [App -> 0 .. Lives]
    BY <1>13, BoundAssumption DEF Launch, TypeOK
  <2>2. news' \in [App -> Seq(0 .. Lives)]
    BY <1>13, <2>1 DEF Launch, TypeOK
  <2>3. QED
    BY <1>13, <2>1, <2>2 DEF Launch, TypeOK
<1>14. ASSUME NEW a \in App, Quit(a) \/ Crash(a) PROVE TypeOK'
  <2>1. Append(news[a], Quitting) \in Seq(0 .. Lives)
    BY BoundAssumption DEF TypeOK, Quitting
  <2>2. news' \in [App -> Seq(0 .. Lives)]
    BY <1>14, <2>1 DEF Quit, Crash, TypeOK
  <2>3. up' \in [App -> BOOLEAN]
    BY <1>14, Zenon DEF Quit, Crash, Dies, TypeOK
  <2>4. told' \in [App -> Nat]
    <3>1. told \in [App -> Nat] /\ told' = [told EXCEPT ![a] = 0]
      BY <1>14 DEF Quit, Crash, Dies, TypeOK
    <3>2. QED
      BY <3>1
  <2>5. /\ agreed' \subseteq App
        /\ members' \subseteq App /\ toldNow' \subseteq App /\ fickle' \subseteq App
    BY <1>14 DEF Quit, Crash, Dies, TypeOK
  <2>6. QED
    BY <1>14, <2>2, <2>3, <2>4, <2>5 DEF Quit, Crash, Dies, TypeOK
<1>15. ASSUME NEW a \in App, NEW answer \in {"now", "cancel"}, TerminateOnOperation(a, answer)
       PROVE TypeOK'
  <2>1. sent' \in [App -> Seq({"now", "cancel"})] /\ told' \in [App -> Nat]
    BY <1>15 DEF TerminateOnOperation, TypeOK
  <2>2. QED
    BY <1>15, <2>1, SaysType DEF TerminateOnOperation, TypeOK
<1>16. ASSUME NEW op \in Op, Request(op) PROVE TypeOK'
  <2>1. operation' \in Op \cup {None} /\ requests' \in 0 .. Requests
    BY <1>16, BoundAssumption DEF Request, TypeOK
  <2>2. CASE operation # None \/ logOut
    BY <1>16, <2>1, <2>2 DEF Request, TypeOK
  <2>3. CASE ~(operation # None \/ logOut)
    <3>1. StartProcedure(op)
      BY <1>16, <2>3 DEF Request
    <3>2. "ready" \in Reply /\ replies \in Seq(Reply)
      BY DEF Reply, TypeOK
    <3>3. replies' \in Seq(Reply)
      BY <3>1, <3>2, QueuedReply DEF StartProcedure
    <3>4. /\ waited' \subseteq Process /\ logOut' \in BOOLEAN /\ loop' \subseteq App
          /\ askedFor' \in Op \cup {None} /\ members' \subseteq App /\ toldNow' \subseteq App
          /\ refused' \in BOOLEAN
      BY <3>1 DEF StartProcedure, UserApplications, Launched
    <3>5. QED
      BY <1>16, <2>1, <3>3, <3>4 DEF Request, TypeOK, Reply
  <2>4. QED
    BY <2>2, <2>3
<1>17. CASE UNCHANGED vars
  BY <1>17 DEF TypeOK, vars
<1>18. QED
  BY <1>1, <1>2, <1>3, <1>4, <1>5, <1>6, <1>7, <1>8, <1>9, <1>10, <1>11, <1>12, <1>13, <1>14,
     <1>15, <1>16, <1>17 DEF Next, Manager, Applications, Answer

(* The variables keep their types, however the calls are nested.           *)
THEOREM TypeCorrect == Spec => []TypeOK
<1>1. ASSUME Init PROVE TypeOK
  <2>1. life \in [App -> 0 .. Lives] /\ entry \in [App -> 0 .. Lives]
    <3>1. Lives \in Nat /\ Lives >= 1
      BY BoundAssumption
    <3>2. QED
      BY <1>1, <3>1 DEF Init
  <2>2. /\ news \in [App -> Seq(0 .. Lives)] /\ sent \in [App -> Seq({"now", "cancel"})]
        /\ replies \in Seq({"ready", "cancel"})
    BY <1>1 DEF Init
  <2>3. timers \in [App -> Nat] /\ told \in [App -> Nat] /\ requests \in 0 .. Requests
    BY <1>1, BoundAssumption DEF Init
  <2>4. QED
    BY <1>1, <2>1, <2>2, <2>3 DEF Init, TypeOK
<1>2. QED
  BY <1>1, TypeStep, PTL DEF Spec

-----------------------------------------------------------------------------
(* The locks and the queue of answers.  Without a stray cancellation, an   *)
(* answer is queued only for the operation underway, once; a cancellation  *)
(* leaves the procedure, and SCSystem takes no other operation before it   *)
(* has performed what is queued.                                           *)

Locks ==
  /\ operation # None /\ ~ended => logOut \/ replies # <<>>
  /\ logOut => operation # None \/ stray
  /\ ~stray /\ Cancelled(replies) => ~logOut

Queued ==
  /\ ~stray /\ replies # <<>> => operation # None
  /\ ~stray /\ operation # None => operation = askedFor
  /\ ~stray /\ replies # <<>> /\ Head(replies) = "cancel" => ~Ready(replies)

Refusal == refused => ~Ready(replies) /\ ~logOut /\ ~ended

LogInv == Locks /\ Queued /\ Refusal

logVars == <<operation, logOut, replies, ended, stray, refused, askedFor>>

LEMMA CancelStep ==
  ASSUME TypeOK, LogInv, ~ended, CancelProcedure, UNCHANGED <<operation, ended, askedFor>>
  PROVE  LogInv'
<1>1. /\ logOut' = FALSE /\ replies' = Append(replies, "cancel")
      /\ refused' = (refused \/ (logOut /\ ~Ready(replies)))
      /\ stray' = (stray \/ ~logOut)
  BY DEF CancelProcedure, LeaveProcedure
<1>2. replies \in Seq(Reply) /\ "cancel" \in Reply
  BY DEF TypeOK, Reply
<1>3. /\ replies' # <<>>
      /\ Head(replies') = IF replies = <<>> THEN "cancel" ELSE Head(replies)
      /\ Ready(replies') <=> Ready(replies)
      /\ Cancelled(replies')
  BY <1>1, <1>2, QueuedReply
<1>4. replies = <<>> => ~Ready(replies)
  BY NoReply
<1>5. refused \in BOOLEAN /\ stray \in BOOLEAN /\ logOut \in BOOLEAN
  BY DEF TypeOK
<1>6. Locks'
  BY <1>1, <1>3, <1>5 DEF LogInv, Locks
<1>7. Queued'
  BY <1>1, <1>3, <1>4, <1>5 DEF LogInv, Locks, Queued
<1>8. Refusal'
  BY <1>1, <1>3, <1>5 DEF LogInv, Refusal
<1>9. QED
  BY <1>6, <1>7, <1>8 DEF LogInv

LEMMA TerminatedStep ==
  ASSUME TypeOK, LogInv, NEW gone, Terminated(gone),
         UNCHANGED <<operation, ended, stray, refused, askedFor>>
  PROVE  LogInv'
<1>1. CASE logOut /\ UserApplications(entry') = {}
  <2>1. logOut' = FALSE /\ replies' = Append(replies, "ready")
    BY <1>1 DEF Terminated, LeaveProcedure
  <2>2. replies \in Seq(Reply) /\ "ready" \in Reply
    BY DEF TypeOK, Reply
  <2>3. /\ replies' # <<>>
        /\ Head(replies') = IF replies = <<>> THEN "ready" ELSE Head(replies)
        /\ Cancelled(replies') <=> Cancelled(replies)
    BY <2>1, <2>2, QueuedReply
  <2>4. replies # <<>> /\ Head(replies) = "cancel" => Cancelled(replies)
    BY <2>2, FirstReply
  <2>5. Locks'
    BY <2>1, <2>3 DEF LogInv, Locks
  <2>6. Queued'
    BY <1>1, <2>1, <2>3, <2>4 DEF LogInv, Locks, Queued
  <2>7. Refusal'
    BY <1>1 DEF LogInv, Refusal
  <2>8. QED
    BY <2>5, <2>6, <2>7 DEF LogInv
<1>2. CASE ~(logOut /\ UserApplications(entry') = {})
  BY <1>2 DEF Terminated, LogInv, Locks, Queued, Refusal
<1>3. QED
  BY <1>1, <1>2

LEMMA ReplyStep ==
  ASSUME TypeOK, LogInv, ReplyToLogOutOrPowerOff
  PROVE  LogInv'
<1>1. /\ replies \in Seq(Reply) /\ replies # <<>> /\ replies' = <<>> /\ ended' = Ready(replies)
      /\ operation' = IF Head(replies) = "ready" THEN operation ELSE None
      /\ UNCHANGED <<logOut, stray, refused, askedFor>>
  BY DEF ReplyToLogOutOrPowerOff, TypeOK, Reply, serverVars, historyVars
<1>2. /\ Head(replies) \in {"ready", "cancel"}
      /\ Head(replies) = "ready" => Ready(replies)
      /\ Head(replies) = "cancel" => Cancelled(replies)
  BY <1>1, FirstReply DEF Reply
<1>3. ~Ready(replies') /\ ~Cancelled(replies')
  BY <1>1, NoReply
<1>4. QED
  BY <1>1, <1>2, <1>3 DEF LogInv, Locks, Queued, Refusal

LEMMA RequestStep ==
  ASSUME TypeOK, LogInv, NEW op \in Op, Request(op)
  PROVE  LogInv'
<1>0. /\ op # None /\ ~ended
      /\ operation' = IF operation = None THEN op ELSE operation
      /\ UNCHANGED <<ended, stray>>
  BY OpAssumption DEF Request, Serves, historyVars
<1>1. CASE operation # None
  BY <1>0, <1>1 DEF Request, LogInv, Locks, Queued, Refusal
<1>2. CASE operation = None /\ logOut
  BY <1>0, <1>2 DEF Request, LogInv, Locks, Queued, Refusal
<1>3. CASE operation = None /\ ~logOut
  <2>1. StartProcedure(op) /\ operation' = op
    BY <1>0, <1>3 DEF Request
  <2>2. replies \in Seq(Reply) /\ "ready" \in Reply
    BY DEF TypeOK, Reply
  <2>3. CASE stray
    BY <1>0, <2>1, <2>3 DEF StartProcedure, LogInv, Locks, Queued, Refusal
  <2>4. CASE ~stray
    <3>1. replies = <<>>
      BY <1>3, <2>4 DEF LogInv, Queued
    <3>2. ~Cancelled(replies') /\ (replies' # <<>> => Head(replies') = "ready")
      BY <2>1, <2>2, <3>1, QueuedReply, NoReply DEF StartProcedure
    <3>3. logOut' /\ askedFor' = op /\ ~refused'
      BY <2>1 DEF StartProcedure
    <3>4. QED
      BY <1>0, <2>1, <2>4, <3>2, <3>3 DEF LogInv, Locks, Queued, Refusal
  <2>5. QED
    BY <2>3, <2>4
<1>4. QED
  BY <1>1, <1>2, <1>3

LEMMA QuietStep == LogInv /\ UNCHANGED logVars => LogInv'
BY DEF LogInv, Locks, Queued, Refusal, logVars

LEMMA LogStep == TypeOK /\ LogInv /\ [Next]_vars => LogInv'
<1> USE DEF serverVars, appVars, netVars, historyVars
<1> SUFFICES ASSUME TypeOK, LogInv, [Next]_vars PROVE LogInv'
  OBVIOUS
<1>1. ASSUME NEW a \in App, AskNext(a) \/ TimerFires(a) \/ NoteApplicationLaunched(a)
      PROVE LogInv'
  <2>1. UNCHANGED logVars
    BY <1>1 DEF AskNext, TimerFires, NoteApplicationLaunched, logVars
  <2>2. QED
    BY <2>1, QuietStep
<1>2. ASSUME NEW a \in App, ReplyToTerminate(a) PROVE LogInv'
  <2>1. CASE CancelProcedure
    BY <1>2, <2>1, CancelStep DEF ReplyToTerminate, Serves
  <2>2. CASE ~CancelProcedure
    <3>1. UNCHANGED logVars
      BY <1>2, <2>2 DEF ReplyToTerminate, logVars
    <3>2. QED
      BY <3>1, QuietStep
  <2>3. QED
    BY <2>1, <2>2
<1>3. ASSUME NEW a \in App, NoteApplicationTerminated(a) PROVE LogInv'
  BY <1>3, TerminatedStep DEF NoteApplicationTerminated
<1>4. ASSUME CheckLiveApplications PROVE LogInv'
  BY <1>4, TerminatedStep DEF CheckLiveApplications
<1>5. ASSUME NEW answer \in Answer, Answered(answer) PROVE LogInv'
  <2>1. UNCHANGED logVars
    BY <1>5 DEF Answered, logVars
  <2>2. QED
    BY <2>1, QuietStep
<1>6. ASSUME NEW answer \in Answer, Checked(answer) PROVE LogInv'
  <2>1. CASE CancelProcedure
    BY <1>6, <2>1, CancelStep DEF Checked, Serves
  <2>2. CASE ~CancelProcedure
    <3>1. UNCHANGED logVars
      BY <1>6, <2>2 DEF Checked, logVars
    <3>2. QED
      BY <3>1, QuietStep
  <2>3. QED
    BY <2>1, <2>2
<1>7. ASSUME AnswerRaises \/ CheckRaises \/ \E later \in BOOLEAN : TellRaises(later)
      PROVE LogInv'
  <2>1. UNCHANGED logVars
    BY <1>7 DEF AnswerRaises, CheckRaises, TellRaises, logVars
  <2>2. QED
    BY <2>1, QuietStep
<1>8. ASSUME NEW a \in App,
             \/ Launch(a) \/ Quit(a) \/ Crash(a)
             \/ \E answer \in {"now", "cancel"} : TerminateOnOperation(a, answer)
      PROVE LogInv'
  <2>1. UNCHANGED logVars
    BY <1>8 DEF Launch, Quit, Crash, Dies, TerminateOnOperation, logVars
  <2>2. QED
    BY <2>1, QuietStep
<1>9. CASE UNCHANGED vars
  <2>1. UNCHANGED logVars
    BY <1>9 DEF vars, logVars
  <2>2. QED
    BY <2>1, QuietStep
<1>10. QED
  BY <1>1, <1>2, <1>3, <1>4, <1>5, <1>6, <1>7, <1>8, <1>9, ReplyStep, RequestStep
     DEF Next, Manager, Applications, Answer

LEMMA LogHolds == Spec => []LogInv
<1>1. Init => LogInv
  BY NoReply DEF Init, LogInv, Locks, Queued, Refusal
<1>2. QED
  BY <1>1, LogStep, TypeCorrect, PTL DEF Spec

(* The two flags that keep requests from being mixed up agree: SCSystem    *)
(* refuses requests exactly while ApplicationManager works on one.         *)
THEOREM LocksCorrect == Spec => []LocksAgree
<1>1. LogInv => LocksAgree
  BY DEF LogInv, Locks, LocksAgree
<1>2. QED
  BY <1>1, LogHolds, PTL

(* A refusal is final: the session goes on until applications are asked    *)
(* again.                                                                  *)
THEOREM RefusalCorrect == Spec => []RefusalHolds
<1>1. LogInv => RefusalHolds
  BY DEF LogInv, Refusal, RefusalHolds
<1>2. QED
  BY <1>1, LogHolds, PTL

-----------------------------------------------------------------------------
(* What the session knows when it ends.  The members of an operation, the  *)
(* applications it found running, are the processes of their entries, and  *)
(* no notification of theirs is on its way: their entries go when they     *)
(* quit, and not before.                                                   *)

Known ==
  \A a \in members :
    a \notin Masked /\ entry[a] # 0 /\ entry[a] = life[a] /\ up[a] /\ news[a] = <<>>

Ends ==
  /\ Ready(replies) /\ ~stray => members = {}
  /\ ended /\ ~stray => operation = askedFor /\ members = {}

EndInv == Known /\ Ends

endVars == <<operation, entry, replies, ended, up, life, news, askedFor, members, stray>>

LEMMA QuietEnd == EndInv /\ UNCHANGED endVars => EndInv'
BY DEF EndInv, Known, Ends, endVars

LEMMA CancelEnd ==
  ASSUME TypeOK, EndInv, ~ended, CancelProcedure,
         UNCHANGED <<operation, entry, ended, up, life, news, askedFor, members>>
  PROVE  EndInv'
<1>1. replies' = Append(replies, "cancel") /\ stray' = (stray \/ ~logOut)
  BY DEF CancelProcedure, LeaveProcedure
<1>2. replies \in Seq(Reply) /\ "cancel" \in Reply /\ stray \in BOOLEAN /\ logOut \in BOOLEAN
  BY DEF TypeOK, Reply
<1>3. Ready(replies') <=> Ready(replies)
  BY <1>1, <1>2, QueuedReply
<1>4. QED
  BY <1>1, <1>2, <1>3 DEF EndInv, Known, Ends

LEMMA TerminatedEnd ==
  ASSUME TypeOK, EndInv, NEW gone, gone \cap members = {}, Terminated(gone), ~ended,
         UNCHANGED <<operation, ended, up, life, askedFor, members, stray>>,
         \A a \in members : news'[a] = news[a]
  PROVE  EndInv'
<1>1. \A a \in members : entry'[a] = entry[a]
  BY DEF Terminated, TypeOK
<1>2. Known'
  BY <1>1 DEF EndInv, Known
<1>3. CASE logOut /\ UserApplications(entry') = {}
  <2>1. members = {}
    BY <1>1, <1>3 DEF EndInv, Known, UserApplications, Launched, TypeOK
  <2>2. QED
    BY <1>2, <2>1 DEF EndInv, Ends
<1>4. CASE ~(logOut /\ UserApplications(entry') = {})
  <2>1. replies' = replies
    BY <1>4 DEF Terminated
  <2>2. QED
    BY <1>2, <2>1 DEF EndInv, Ends
<1>5. QED
  BY <1>3, <1>4

LEMMA ReplyEnd ==
  ASSUME TypeOK, LogInv, EndInv, ReplyToLogOutOrPowerOff
  PROVE  EndInv'
<1>1. /\ replies \in Seq(Reply) /\ replies # <<>> /\ replies' = <<>> /\ ended' = Ready(replies)
      /\ operation' = IF Head(replies) = "ready" THEN operation ELSE None
      /\ UNCHANGED <<entry, up, life, news, askedFor, members, stray>>
  BY DEF ReplyToLogOutOrPowerOff, TypeOK, Reply, serverVars, appVars, netVars, historyVars
<1>2. Head(replies) \in {"ready", "cancel"}
  BY <1>1, FirstReply DEF Reply
<1>3. ~Ready(replies')
  BY <1>1, NoReply
<1>4. ended' /\ ~stray => operation' = askedFor
  BY <1>1, <1>2 DEF LogInv, Queued
<1>5. QED
  BY <1>1, <1>3, <1>4 DEF EndInv, Known, Ends

LEMMA RequestEnd ==
  ASSUME TypeOK, LogInv, EndInv, NEW op \in Op, Request(op)
  PROVE  EndInv'
<1>0. ~ended /\ UNCHANGED <<entry, ended, up, life, news, stray>>
  BY DEF Request, Serves, appVars
<1>1. CASE operation # None \/ logOut
  BY <1>0, <1>1 DEF Request, EndInv, Known, Ends
<1>2. CASE operation = None /\ ~logOut
  <2>1. StartProcedure(op)
    BY <1>2 DEF Request
  <2>2. Known'
    BY <1>0, <2>1 DEF StartProcedure, Known, UserApplications, Launched
  <2>3. ASSUME Ready(replies'), ~stray PROVE members' = {}
    <3>1. replies = <<>>
      BY <1>2, <2>3 DEF LogInv, Queued
    <3>2. UserApplications(entry) = {}
      BY <2>1, <2>3, <3>1, NoReply DEF StartProcedure
    <3>3. QED
      BY <2>1, <3>2 DEF StartProcedure
  <2>4. QED
    BY <1>0, <2>2, <2>3 DEF EndInv, Ends
<1>3. QED
  BY <1>1, <1>2

LEMMA EndStep == TypeOK /\ LogInv /\ EndInv /\ [Next]_vars => EndInv'
<1> USE DEF serverVars, appVars, netVars, historyVars
<1> SUFFICES ASSUME TypeOK, LogInv, EndInv, [Next]_vars PROVE EndInv'
  OBVIOUS
<1>1. ASSUME NEW a \in App, AskNext(a) \/ TimerFires(a) PROVE EndInv'
  <2>1. UNCHANGED endVars
    BY <1>1 DEF AskNext, TimerFires, endVars
  <2>2. QED
    BY <2>1, QuietEnd
<1>2. ASSUME NEW a \in App, ReplyToTerminate(a) PROVE EndInv'
  <2>1. CASE CancelProcedure
    BY <1>2, <2>1, CancelEnd DEF ReplyToTerminate, Serves
  <2>2. CASE ~CancelProcedure
    <3>1. UNCHANGED endVars
      BY <1>2, <2>2 DEF ReplyToTerminate, endVars
    <3>2. QED
      BY <3>1, QuietEnd
  <2>3. QED
    BY <2>1, <2>2
<1>3. ASSUME NEW a \in App, NoteApplicationLaunched(a) PROVE EndInv'
  <2>1. a \notin members
    BY <1>3 DEF NoteApplicationLaunched, EndInv, Known
  <2>2. \A b \in members : b \in App /\ entry'[b] = entry[b] /\ news'[b] = news[b]
    BY <1>3, <2>1 DEF NoteApplicationLaunched, TypeOK
  <2>3. QED
    BY <1>3, <2>2 DEF NoteApplicationLaunched, EndInv, Known, Ends
<1>4. ASSUME NEW a \in App, NoteApplicationTerminated(a) PROVE EndInv'
  <2>1. a \notin members
    BY <1>4 DEF NoteApplicationTerminated, EndInv, Known
  <2>2. \A b \in members : news'[b] = news[b]
    BY <1>4, <2>1 DEF NoteApplicationTerminated, TypeOK
  <2>3. QED
    BY <1>4, <2>1, <2>2, TerminatedEnd DEF NoteApplicationTerminated, Serves
<1>5. ASSUME CheckLiveApplications PROVE EndInv'
  <2>1. Gone \cap members = {}
    BY DEF Gone, Alive, EndInv, Known
  <2>2. \A b \in members : news'[b] = news[b]
    BY <1>5, <2>1 DEF CheckLiveApplications, TypeOK
  <2>3. QED
    BY <1>5, <2>1, <2>2, TerminatedEnd DEF CheckLiveApplications, Idle, Serves
<1>6. ASSUME NEW answer \in Answer, Answered(answer) PROVE EndInv'
  <2>1. UNCHANGED endVars
    BY <1>6 DEF Answered, endVars
  <2>2. QED
    BY <2>1, QuietEnd
<1>7. ASSUME NEW answer \in Answer, Checked(answer) PROVE EndInv'
  <2>1. CASE CancelProcedure
    BY <1>7, <2>1, CancelEnd DEF Checked, Serves
  <2>2. CASE ~CancelProcedure
    <3>1. UNCHANGED endVars
      BY <1>7, <2>2 DEF Checked, endVars
    <3>2. QED
      BY <3>1, QuietEnd
  <2>3. QED
    BY <2>1, <2>2
<1>8. ASSUME AnswerRaises \/ CheckRaises \/ \E later \in BOOLEAN : TellRaises(later)
      PROVE EndInv'
  <2>1. UNCHANGED endVars
    BY <1>8 DEF AnswerRaises, CheckRaises, TellRaises, endVars
  <2>2. QED
    BY <2>1, QuietEnd
<1>9. ASSUME NEW a \in App, Launch(a) PROVE EndInv'
  <2>1. a \notin members
    BY <1>9 DEF Launch, EndInv, Known
  <2>2. \A b \in members : /\ b \in App /\ entry'[b] = entry[b] /\ news'[b] = news[b]
                           /\ up'[b] = up[b] /\ life'[b] = life[b]
    BY <1>9, <2>1 DEF Launch, TypeOK
  <2>3. QED
    BY <1>9, <2>2 DEF Launch, EndInv, Known, Ends
<1>10. ASSUME NEW a \in App, Quit(a) \/ Crash(a) PROVE EndInv'
  <2>1. /\ members' = members \ {a} /\ ~ended
        /\ UNCHANGED <<operation, entry, replies, ended, life, askedFor, stray>>
    BY <1>10 DEF Quit, Crash, Dies
  <2>2. \A b \in members' : b \in App /\ news'[b] = news[b] /\ up'[b] = up[b]
    BY <1>10, <2>1 DEF Quit, Crash, Dies, TypeOK
  <2>3. QED
    BY <2>1, <2>2 DEF EndInv, Known, Ends
<1>11. ASSUME NEW a \in App, NEW answer \in {"now", "cancel"}, TerminateOnOperation(a, answer)
       PROVE EndInv'
  <2>1. UNCHANGED endVars
    BY <1>11 DEF TerminateOnOperation, endVars
  <2>2. QED
    BY <2>1, QuietEnd
<1>12. CASE UNCHANGED vars
  <2>1. UNCHANGED endVars
    BY <1>12 DEF vars, endVars
  <2>2. QED
    BY <2>1, QuietEnd
<1>13. QED
  BY <1>1, <1>2, <1>3, <1>4, <1>5, <1>6, <1>7, <1>8, <1>9, <1>10, <1>11, <1>12, ReplyEnd,
     RequestEnd DEF Next, Manager, Applications, Answer

LEMMA EndHolds == Spec => []EndInv
<1>1. Init => EndInv
  BY NoReply DEF Init, EndInv, Known, Ends
<1>2. QED
  BY <1>1, EndStep, TypeCorrect, LogHolds, PTL DEF Spec

(* The session ends with no application running that it knew when the      *)
(* operation began.                                                        *)
THEOREM EndCorrect == Spec => []NoneLeftRunning
<1>1. EndInv => NoneLeftRunning
  BY DEF EndInv, Ends, NoneLeftRunning
<1>2. QED
  BY <1>1, EndHolds, PTL

(* It ends with the operation its applications were asked about.           *)
THEOREM OperationCorrect == Spec => []EndsAsAsked
<1>1. EndInv => EndsAsAsked
  BY DEF EndInv, Ends, EndsAsAsked
<1>2. QED
  BY <1>1, EndHolds, PTL
=============================================================================
