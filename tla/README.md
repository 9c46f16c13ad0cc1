# Étoilé: models and proofs

TLA+ models of the parts of Étoilé 0.4 (`src/Etoile`) whose correctness depends on orderings no
unit test enumerates, TLC configurations that check them on small instances, and TLAPS proofs for
every instance.

## 1. Inventory

Étoilé is a desktop environment in Objective-C over GNUstep: frameworks, languages, system services
and applications. Most of it is user interface, file formats and vendored code. What carries the
project's own protocols and state machines is:

| Part | State it keeps | Operations | Interacts with | What is hard |
|---|---|---|---|---|
| EtoileThread / threaded objects (`ETThreadedObject`) | ring buffer, two free-running counters, mutex, condition variable, `terminate`, worker thread | `forwardInvocation:`, `runloop:`, `dealloc` | client thread, `ETThread`, `ETThreadProxyReturn` | lock-free queue that falls back to a lock, lost wake-ups, destruction under a running worker |
| EtoileThread / futures (`ETThreadProxyReturn`) | object or "invalid", reference count, mutex, condition variable | `value`, `setProxyObject:`, `dealloc` | the worker that fulfils it, the threads that wait | several waiters, spurious wake-ups, release by two threads |
| EtoileThread / threads (`ETThread`) | pthread handle, reference count | `detachNewThreadSelector:`, `waitForTermination`, `exitWithValue:`, `isCurrentThread` | POSIX threads | the new thread runs before the creator has the handle; object freed under the joiner |
| EtoileThread / object pipes (`ETObjectPipe`) | one ring of slots shared by requests and replies, four counters, two conditions, `disconnect` | `sendRequest:`, `nextRequest`, `sendReply:`, `nextReply`, polls, `disconnect` | two threads | slots reused across the two directions, wake-ups on disconnect, wrapping counters |
| CoreObject / object history (`COObject`, `COSerializer`, `COObjectContext`) | per object: version, full saves, deltas; metadata database | record an invocation, snapshot, restore to a version | EtoileSerialize, the metadata server, the file system | order of save, log and mutation; which save a restore starts from; stops in between |
| CoreObject / context history (`COObjectContext+GraphRollback`) | context version, history rows, undo cursor | record, restore to a version, undo, redo | all objects of the context | history that contains restore points that contain history; undo cursor at its limits |
| CoreObject / groups, faults, merging (`COGroup`, `COObjectServer`) | members as instances or faults, instances by UUID, merge policy | add, remove, `members`, `resolveFaults`, `replaceObject`, restore | the contexts, the deserializer | two instances of one object, faults compared with instances, replacement while groups are replaced themselves |
| System / launch queue (`SCSystem`, `SCTask`) | table of tasks, queue, group underway, dates of the configuration file; per task its launch, timer and failures | launch group by group, start, task notifications, time-out, synchronization with the file | processes, `NSWorkspace`, the configuration file, clients | notifications that arrive inside the loop that launches, late, twice or never; timers that race them |
| System / log out (`ApplicationManager`, `SCSystem`, `EtoileBehavior`) | operation, applications waited for, timers, answers queued for the main thread | request, ask, delay, reply, cancel, notifications, check of crashed applications | applications, by remote calls that nest | requests, refusals and exits served inside the loop that asks; stale cancellations; remote calls that raise |
| XMPPKit | connection state, roster, stanza stacks | connect, features, authentication, dispatch | sockets, parser | reconnection, out of order answers |

`PROJECT.json` lists every other component with the reason it is not modelled.

What makes each part correct:

- threaded objects: every message is performed once, in order, and reaches its own future; a sleeping worker is
  woken; slots are not reused before they are read; releasing the object ends its worker and never pulls the
  object from under it;
- futures: `value` returns the object and nothing else, to every caller; the future is freed once, by the last
  user;
- threads: joining gives the thread's value; a thread given up unjoined is detached at its end; `exitWithValue:` ends its
  own thread only;
- object pipes: requests and replies stay in order and apart, nothing is overwritten, a waiting end is woken by an
  object or by `disconnect`;
- object and context history: every version once reached can be brought back as it was, after any
  sequence of changes, undos, restores, unloads and restarts, wherever the process stopped; the store has
  what memory has;
- groups and faults: a group holds each of its members once, as its present instance or as a fault it knows of; a
  restore gives every group the members it had;
- launch queue: no task is skipped or started before those of lower priority, the queue comes to its end,
  a task that keeps failing is given up, the table follows its file;
- log out: a request is answered once; the session ends when those asked have gone and none refused, with the
  operation it was asked for; another request may then begin;
- XMPPKit: stanzas reach the handler of their conversation, and a lost connection comes back in a known state.

How the parts meet: a threaded object owns an `ETThread` (which it joins when it is destroyed) and hands out
`ETThreadProxyReturn` futures that its run loop fulfils; the object pipe is the two-way variant of the
same ring buffer. A CoreObject context receives every recorded message of its objects through the
`RECORD`/`END_RECORD` macros, asks the serializer to write it, the metadata server to store the version
and the history row, and tells the object server to replace instances in the groups in memory. In
`etoile_system`, `SCSystem` launches tasks, and hands requests to end the session to `ApplicationManager`,
which answers by `replyToLogOutOrPowerOff:` on the main thread.

## 2. Plan

Done:

1. `AsyncObject`, `ThreadedObject`: the threaded object. `Future`: `ETThreadProxyReturn`. `ThreadLifecycle`: `ETThread`.
   `ObjectPipe`: `ETObjectPipe`.
2. `VersionedGraph`, `ContextHistory`: the history of a CoreObject context; `ContextStops` composes it with stops
   inside an operation; `ObjectGraph` is the second implementation of `VersionedGraph`, for relationships.
3. `LaunchQueue` and `LogOut`: the System service.
4. Proofs: `ThreadedObject_proofs`, `Future_proofs`, `ThreadLifecycle_proofs`, `ObjectPipe_proofs`,
   `ContextHistory_proofs` (with `ContextStops`), `ObjectGraph_proofs`, `LaunchQueue_proofs`, `LogOut_proofs`. The refinements of
   `AsyncObject` and both of `VersionedGraph` are among them: every safety property of the passing runs is proved.

Left:

5. `COProxy`, whose start of persistency while an object is read from the store inserts it again; MediaKit's
   player (a threaded object with an idle step and a play queue); XMPPKit's connection and stanza dispatch.

## 3. The modules

Every component module keeps the names of the source for state, macros and methods. Operators whose name
starts with `Broken` are plausible mistakes in the definition that follows them; `PROJECT.json` names the
property that catches each.

### Threaded objects: `ThreadedObject`, `AsyncObject`

`ETThreadedObject.m`. Two threads, the client (`clientPc`) and the worker (`workerPc`), and the shared
state of the proxy: `producer`, `consumer`, `invocations`, `mutex`, `terminate`, `thread`. Each action
touches shared memory once, except under the mutex: `INSERT` is `InsertInvocation`, `InsertRetVal`,
`Publish`, `TestSignal`, `SignalLock`, `Signal`; `REMOVE` is `TestEmpty` to `Consume`;
`forwardInvocation:` adds `Forward` and `Poll` (a concrete return type), `runloop:` adds `Start`, `Invoke`,
`SetProxy`, `Release`, and `dealloc` is `DeallocLock` to `Join`. Messages are numbers, in the order they
were sent, with their return type. `objectRefs` counts the references of the proxied object: the proxy's
own (`Owned`) and the one in the creator's autorelease pool (`Pooled`, released by `DrainPool`).

`AsyncObject` is what a client may rely on: messages performed once, in order, a concrete message holding
its sender. `ThreadedObject` implements it through the mapping `Promised`.

*Bounds.* `QUEUE_SIZE` 4 is two messages, so the ring is full, partly full and empty; `COUNTER_MOD` 8 and
five messages make the counters wrap; both stand in the ratio the code has (256 and 2^64: the one divides
the other). `MaxMessages` bounds `Forward`.

*Fairness.* Weak fairness of each thread: a thread with a step to take is scheduled. The client is not
obliged to send or to release, and nothing obliges `pthread_cond_wait` to return unsignalled. Weak fairness is
enough although a step that waits for the mutex is enabled only while it is free: the worker locks it only
to look at the queue once, and a client that sends again finds the queue of a worker that does not run non-empty
and leaves the mutex alone.

### Futures: `Future`

`ETThreadProxyReturn.m`. The callers of a future and the worker that fulfils it: `value`'s test before the
mutex, under it, and the wait that is not in a loop; `setProxyObject:`'s store, signal, unlock and
release. `refs` is the retain count, `startled` remembers who was woken without a signal. *Bounds:* two
callers, enough for one signal to miss one of them and for a caller to hold the last reference; callers may ask any number of
times. *Fairness:* threads inside `value` and the worker are scheduled; a caller that can give up
its reference again and again does so in the end (strong fairness of `Drop`: an autorelease pool is
drained).

### Threads: `ThreadLifecycle`

`ETThread.m`. A creator and two threads: creation, `waitForTermination` in two steps (the handle is read,
then joined), `kill`, `exitWithValue:` from outside and inside, `release` and the detach of `dealloc`.
`BodyRetains` is the protocol `ETThreadedObject` follows (the thread retains and publishes its own
`ETThread`); with it a creator may also give the thread up without joining it (`Abandon`), the case `dealloc` detaches
for. The handle is taken to be stored before the new thread runs.

*Bounds.* Two threads (315 states); they share nothing but their creator.

### Object pipes: `ObjectPipe`

`ETObjectPipe.m`. A requester and a responder over one ring: requests and replies reuse the same slots, each
direction has a producer and a consumer counter, a lock and a condition. Sending is `SendRequest` or
`SendReply` and then `Spin` to `Signal`; a blocking receive is `Next_` and `TestEmpty` to `Taken`;
the polls are single actions, as they touch the shared counters once. `disconnect`, its two broadcasts
and a condition shared with another pipe (`OtherPipeSignals`) are included. `strain` remembers the two things the
pipe does not withstand: a requester with more requests unanswered than there are slots, and an end woken over
an empty ring, which takes what was never sent. `AfterLate` FALSE leaves out what a receiver does after the latter.

*Bounds.* Two slots, counters modulo 4, five requests: the ring is empty, half full and full, with requests and with replies,
and the counters wrap. Three buffers, one more than there are slots, so that callers may overrun the ring. The
responder blocks, on a condition other pipes signal too; the requester polls; either disconnects (2.5 million states).
*Fairness* (`FairSpec`, in the configurations run by hand): each end is scheduled.

### Context history: `ContextHistory`, `VersionedGraph`

`COObjectContext.m`, `COObjectContext+GraphRollback.m`, the record session and the stored side of the
servers and serializers. The stored state is the History table (`history`, in the order of
`globalVersion`), the metadata row of each object (`metadata`) and its files (`fullSave`, `delta`); the
memory is `version`, the registered instances with their version and content, the undo cursor and the
record stack. An object's content is the sequence of the messages that made it, so two contents are equal
exactly when they come from the same messages. Actions are whole operations: `Change` (a recorded message, with the base
snapshot of a first one, and a message nested in it), `Insert`, `Save` (with or without unrecorded
edits), `Load`, `Unregister`, `Register`, `RestoreObject`, `RestoreToVersion`, `Undo`, `Redo`, and
`Restart` between two of them (`Reopen` is what `-initWithUUID:` reads back). `Found` is the scan of the history,
including its jump at restore points; it is a recursive function, so that the module can be proved about. `Entry` and `Over`
build the finite functions (files by version, versions by object) one entry at a time. `seen` is a
history variable: the graph the client had at each version.

`VersionedGraph` is the promise: every version once reached stays available and unchanged, and an
operation changes one object or takes the whole graph back. `ImplementsVersionedGraph` maps `graph` to
what the client sees, `past` to `seen` and `origin` to the restore points.

*Bounds.* Two objects and five versions. Five are enough for: a change, an undo, an undo or restore of that restore
point, and a further change or redo; for an object that joins the graph, is discarded by a restore and comes back. Six
versions (1.5 million states) pass the invariants as well. The interval of periodic snapshots is 100 in the
passing run, beyond the bound: with an interval that bites, `PastIsKept` fails
(`ContextHistory_snapshot.cfg`). Messages do not nest there for the same reason (`ContextHistory_session.cfg`), and the client
does not undo past the first version (`ContextHistory_undo.cfg`).

*Assumptions.* One thread uses the context; the database and the file system store what they are given. The objects are
`COObject` instances without members; messages are deterministic on replay.

### Stops inside an operation: `ContextStops`

Extends `ContextHistory`. An operation is turned into the sequence of its writes, in the order of the code: a file of
the object bundle, the object version in the UUID table, a row of the History table (`SnapshotWrites`,
`RecordWrites`, `RestoreWrites`). A stop (`StoppedRecord`, `StoppedSave` and so on) leaves a proper first part of
them and opens the context again. The writes of a restore come in any order of its objects, as those of a dictionary do.
`promised` remembers the graph each version restored to when it was reached; `buried` the objects of which an invocation was
recorded at the version of a snapshot that a stopped merge had left: `ContextStops_buried.cfg` exhibits the case, and
`ViewIsLogged` excepts it. What was past stays past even then, so `PastStays` excepts nothing.

*Bounds.* Two objects, four versions, one stop (378,000 states); with three versions two stops pass as well (464,000).
A restore of two objects has five writes, so every place to stop in it occurs.

### Groups, members and faults: `ObjectGraph`

`COGroup.m`, and what `COObjectContext.m`, `COObjectContext+GraphRollback.m`, `COObjectServer.m` and the serializers do to
the references of a group. A reference is to an instance, to a UUID (a fault), or to an instance that was replaced or
left the context (stale); `IsEqual` is `-isEqual:`, which compares UUID and object version and never finds a fault equal to
an instance. `stored` holds the files of each object, of which `Playback` makes the members, with the rule of
`-lookUpObjectForUUID:` that what is not in memory becomes a fault. `Replace` is the whole of
`-replaceObject:byObject:collectAllErrors:`: resolve, swap, resolve, update the groups in memory, merge by the
policy, commit. A restore of the context is `RestoreToVersion`, which discards the objects of the
future, one step for each object in any order (`SkipRestored`, `RestoreCached`, `RestoreMissing`), and `RestoreEnds`, which
resolves the pending faults and logs the restore point. In between nothing else happens; the steps are apart because the
order matters. The scan of the history is `ContextHistory`'s; here each version knows what it finds.

The client is careful, unless `Liberties` says otherwise: it asks for the members of a group before it adds or removes one
("unresolved"), does not use or change what left the context ("departed"), and sets the policy back before it restores the context
("merging"). It also never removes a member its group was stored with as a fault ("frozen"): no client can know that, but the
removal is a defect of the code which would hide whatever else goes wrong. Each liberty breaks a property, see 4.

*Bounds.* Two groups, one of which may contain the other, and an object both may contain, the example in the warning of
`-replaceObject:byObject:isTemporalMerge:error:`; six versions and the policies "old" and "union" (851,000 states). All
four policies pass with five versions (132,000 states, `ObjectGraph_policies.cfg`) and with six (1.45 million).

### The launch queue: `LaunchQueue`

`EtoileSystem.m` and `SCTask.m`. Everything runs on the main thread, whose place is `phase`; processes and the
configuration file change at any time. `StartProcess` and `SkipProcess` are the body of the loop of
`startProcessesParallely`, in any order of the group, `EndGroup` its end; a tool reports its launch at once, inside of the
loop, so that `NoteApplicationLaunched` may start the next group there (the nested loop replaces `launchGroup` and `rest`). `TaskLaunched`,
`CheckLaunchTimeOut` and `TaskTerminated` are the notifications and the timer.

A task stopped before is started as a copy (`Copied`, remembered in `plain`), which takes its place in the table but
not in the queue. What the copy posts removes nothing from the group; a task of the queue that a client replaced is
not found by the loop, which then launches nothing; and the replaced `SCTask` still hears of launches
(`ReplacedLaunched`). `taskTerminated:` posts the end of an application that was still launching before it counts the
failure: `counting` keeps the rest of it (`CountFailure`), as the post may run the loops of several groups. If one of
these launches the task again, the copy has the count of before and the failure is lost (`lost`).

The synchronization with the file is three steps, since the file may be saved between the reading of its date,
of its contents, and the remembering of the date.

*Bounds.* Two applications and a tool, in one group or two, all but one of them started or all, one that cannot be
executed or none; one task clients start; two saves of the file (451,000 states). Entries are files that exist: one whose path
leads nowhere gives no task (`EtoileSystem.m:1082`), and `Files` stands for the others. *Fairness:* the main thread
leaves the method it is in and its timers fire; processes need not do anything.

`stuck` marks the queues that never end, which `QueueDrains` and `SaveIsNoticed` leave out: the group waits for a task that was not
launched, had launched before or was replaced by a copy, or its last task is skipped after the others have launched.

### Log out: `LogOut`

`ApplicationManager.m`, `SCSystem`'s requests and end of session, and the applications' side in `NSApplication+Etoile.m`.
The main thread asks one application after the other (`StartProcedure`, `AskNext`, `Answered`); while it waits for an answer
(`asking`) it serves replies, notifications and requests, nested in the call that waits (`Serves`), and fires no timer. A
delay sets a timer (`TimerFires`, `Checked`). A remote call to an application that is gone raises (`AnswerRaises`, `TellRaises`,
`CheckRaises`). `ReplyToTerminate` is the late answer, `CheckLiveApplications` finds applications that ended
without a notification, `ReplyToLogOutOrPowerOff` is performed later on the main thread. Applications answer, change their
mind, quit, crash and start at any time. The alert panel of a cancellation is taken to be answered at once.

*Bounds.* Two applications, each of which runs once, and two requests (684,000 states): enough for one application to cancel while
another is asked and for a second request to come in between. Three applications (6.8 million states) pass by
hand. *Fairness:* the manager goes on while it has something to do; an application handles what it was told, and one that
agreed to terminate then quits.

## 4. What the runs show

| Run | Shows |
|---|---|
| `threaded_object` | `NoLostWakeup`: no worker sleeps over a message nobody will wake it for; `FuturesKept`: each future gets the result of its own message; `ObjectOutlivesUse`; `UnreadSlotsKept`; `ImplementsAsyncObject`; and, under fairness, `AllExecuted`, `ConcreteReturns`, `SleeperIsDestroyed` |
| `threaded_object_completes` | *violated*: `terminate` is tested outside the mutex, so `dealloc` may wait for ever for a worker that sleeps for ever |
| `future` | the placeholder is returned only after a spurious wake-up; the future is freed once, with nobody in it; a caller that waits alone is answered |
| `thread_lifecycle` | the protocol of `ETThreadedObject` never joins a detached thread or a dead `ETThread`; a thread given up unjoined is detached by the last of the two releases, unless it is killed |
| `object_pipe` | the four arcs of the ring never overlap, nothing is overwritten and both directions stay in order, unless the callers overrun the ring or a receiver was woken over an empty one; a blocking responder is never left asleep over a request |
| `context_history` | past versions are kept, memory agrees with the store, redo always has a place to go and ends the sequence, and the context implements `VersionedGraph` |
| `context_stops` | wherever an operation is stopped, what is named on the disk can be played back, past versions stay, and the reopened context shows the last version it logged |
| `object_graph` | a group holds each member once, as its present instance or as a fault it knows of, in the middle of a restore too as far as faults go; a restore of the context gives every group the members it had (`VersionedGraph` again) |
| `object_graph_policy` | *violated*: the merge policy applies in a restore of the whole context, which the header says it does not |
| `launch_queue` | no task to launch is skipped or launched before those of lower priority; a task that keeps failing is given up, after three failures or, if one is lost, four; the table follows its file and a save is noticed; the queue drains unless it is stuck |
| `log_out` | the locks of the two classes agree; after a refusal the session does not end; it ends only when those asked are gone, as it was asked to; every request is answered unless an application holds it up; except for the cancellation of a procedure that is over (`stray`), see the next |
| `log_out_documented` | *violated*: a cancellation does not stop the loop that asks, whose later cancellation then forgets the operation of the next request: a power off becomes a log out |

`TypeOK` is not among the runs' properties: it is proved for `ThreadedObject`, `Future`, `ThreadLifecycle`, `ObjectPipe`,
`LaunchQueue` and `LogOut`, and checked by hand for the other two. `PROJECT.json` quotes the line of the source each
violated property comes from. More configurations are kept beside these for running by hand (`tlc -config X.cfg M`, with the
`MC` module where there is one); each checks or refutes a property stated in its module.

These pass: `ContextHistory` with `TypeOK` added to its invariants, `ObjectGraph_policies` (`TypeOK` as well), and `ObjectPipe_live` (`EveryRequestAnswered`, as long as
the counters do not wrap).

These are violated, and show what the code does otherwise than it says or than its client would expect:

- `ThreadedObject_drains` (`DeallocDrains`): a message sent just before the release may be dropped;
- `ThreadedObject_inNewThread` (`ObjectOutlivesUse`): `-inNewThread` without a reference given to the proxy;
- `Future_two` (`CallersReturn`): one `pthread_cond_signal` wakes one of several waiting threads, the others never;
- `Future_spurious` (`ValueIsReal`): a spurious wake-up returns the placeholder;
- `ThreadLifecycle_exit` (`ExitOnlyOwnThread`): `isCurrentThread` answers the opposite, so `exitWithValue:` ends its caller (`ETThread.h:75-76`);
- `ThreadLifecycle_killed` (`KilledToo`): a killed thread never releases its `ETThread`, which nobody detaches then; and with `BodyRetains`
  FALSE, `ValueGiven`: using what `detachNewThreadSelector:` returns instead of a published, retained thread;
- `ObjectPipe_late` (`InOrder`): a signal decided on earlier wakes the receiver over an empty ring; the wait is under an `if`, and it takes what was never sent;
- `ObjectPipe_disconnect` (`DisconnectUnblocks`), `ObjectPipe_poll` (`PollFindsReply`): an end about to wait misses the disconnection; after the wrap a poll finds no reply;
- `ContextHistory_undo` (`RestorePointsRecognized`): undoing past the first version logs a restore to -1, which a later scan takes for a message;
- `ContextHistory_session` (`SessionEnds`): a nested recorded message is pushed and never popped; after it nothing is recorded;
- `ContextHistory_snapshot` (`PastIsKept`): the periodic snapshot misses the message it is filed under;
- `ContextHistory_sequence` (`SequenceCleared`): a restore that logs no object leaves the undo sequence open, against the comment of `-undo`;
- `ContextStops_unlogged` (`VersionHasItsObjects`): a stop between metadata and history leaves an object version no context version names;
- `ContextStops_buried` (`RecordsAreStored`): an invocation recorded over the snapshot of a stopped merge is not played back;
- `ObjectGraph_removed` (`PastIsKept`): a restore of an object that was not in memory stores its members as faults (`COSerializer.m:152`); a later removal of
  one is not replayed when the member is in memory, and the member is back; `ObjectGraph_added` (`MembersAreCurrent`): added
  again, it is there twice once both are loaded, which takes seven versions, one more than the run has. The attempt to prove
  `MembersAreCurrent` showed it; the run leaves the removal out ("frozen") since;
- `ObjectGraph_twice` (`MembersAreCurrent`): `-addMember:` of a member that is still a fault adds it a second time, `-removeMember:` leaves the fault (`COGroup.m:186`);
- `ObjectGraph_departed` (`MembersAreCurrent`): recalling a version whose member has left the context leaves a stale member after a later restore.
  A message to a group that left it does the same, when a fault that is resolved during a restore has loaded the group: it is back in the
  context, its member is not. That takes nine versions, three more than the run has; the attempt to prove `MembersAreCurrent` showed it, and a
  careful client sends none since;
- `LaunchQueue_blocks` (`QueueNeverBlocks`): a group whose last task is skipped after the others have launched is never left, and the configuration
  file is ignored from then on (`EtoileSystem.m:441-443` says the removal prevents "any blocking of the launch queue"). With all tasks OnStart and
  `Wanted = {b}` the same property fails by way of a copy;
- `LaunchQueue_fourth` (`NeverAFourthTime`): an application that ends while it launches is started again, as a copy, out of the notification of its end, and
  that failure is not counted: it is launched a fourth time, against `EtoileSystem.m:513-514`;
- `LaunchQueue` with `SameSecond` TRUE (`TableFollowsFile`): two saves of one second are one to the dates;
- `LogOut_unreachable` (`IgnoresUnreachable`): an application that cannot be connected to is said to be ignored and holds up the log out.

Met while modelling, without a configuration of their own: `restartProcessWithDomain:` stops the process and calls itself
(`EtoileSystem.m:544-557`); the relaunch of a terminated process is commented out (1120) though the comment above describes it (1101-1103);
the synchronization ignores entries that changed (1036; 1046 speaks of them) and starts new entries that are not on-start (1088); a copied task
is no longer an application and loses its user (`SCTask.m:181-185`); `terminateOnOperation:` is sent even after an
application has cancelled, against `NSApplication+Etoile.m:60-62`; `checkTerminatingNow` is not implemented; `-dealloc` of `ETThread`
detaches a thread that was joined; `-resolveFaults` in `-replaceObject:byObject:collectAllErrors:` (`COObjectContext.m:456`) loads again
an object a restore has discarded.

Deadlock is not checked in the runs, as the systems may stop: a client that has destroyed its object,
a future that is freed, a context at its bound, a session that has ended.

## 5. What is proved

With TLAPS, for every value of the constants that meets the named assumptions: 46 theorems in eight modules.

`ThreadedObject_proofs` (`QueueAssumption`: an even ring size that divides the counters' range, which
is larger; `FlagAssumption`):

- `TypeCorrect`: `Spec => []TypeOK`. `TypeOK` alone is not inductive, since a client in the middle of a send
  indexes `kind`; `TypeInv` adds that it has a message to send.
- `WakeupCorrect`: `Spec => []NoLostWakeup`. The property is inductive with `TypeInv`: only `Publish`
  fills the queue of a sleeping worker, and by `UsedAfterInsert` two slots are then in use, the case in
  which the client signals.
- `UnreadCorrect`: `Spec => UnreadSlotsKept`. The invariant `RingInv` says that an even number of slots, at most
  the whole ring, is in use; that a writing client has room for its two slots and a reading worker two
  slots to read. The lemma `FreeSlot` then says the slot written is not an unread one: the slots go round
  with the counters, because the ring size divides their range. `UsedAfterInsert` and `UsedAfterRemove`
  do the modular arithmetic, from Euclid's division.
- `ObjectCorrect`: `Owned /\ Spec => []ObjectOutlivesUse`, from `LifeInv`, which accounts for both
  references. `Owned` is what `+threadedNew` establishes; without it the property fails
  (`ThreadedObject_inNewThread`).

- `FlowCorrect`: `FlowInv` accounts for every message: how many were sent, are in the ring and were taken (`CountInv`), what is
  in each used slot (`ContentInv`), what either thread holds (`LocalInv`), and what the worker has done (`DoneInv`). `SlotEnd` says
  that the slots go round with the counters.
- `FuturesCorrect`: `Spec => []FuturesKept`, from `DoneInv`. `AsyncCorrect`: `Spec => ImplementsAsyncObject`, one lemma for each step
  of the abstract object (send, perform, answer, end) and one for all the steps it does not see.

`Future_proofs` (`FutureAssumption`: a finite, non-empty set of callers), from one inductive invariant
`Inv`: the types, an owner for every reference (`Refs`), who holds the mutex and when the object is
there (`Holders`), and that a caller on its way out without the object was woken unsignalled (`Startled`):

- `TypeCorrect`, with the retain count in its range; `FreedLastCorrect`: `Spec => []FreedLast`;
  `ValueCorrect`: `Spec => []ValueIsRealUnlessStartled`.

`ThreadLifecycle_proofs` (for a body that retains its `ETThread`; any set of threads): `TypeCorrect`, `ValueCorrect`,
`NoneLeftBehindCorrect`, from an invariant that gives each reference its owner: the creator's comes from the body, which
releases its own only when it ends. A thread is detached exactly when no reference is left (`Placed`), and one that was given
up and has ended has neither owner (`Counted`).

`ObjectPipe_proofs` (`PipeAssumption`: a ring size that divides the counters' range, which is larger; any choice of
blocking ends, of a shared condition, and of disconnects): `TypeCorrect`, and `WakeupCorrect`: `Spec => []NoLostWakeup`. The strengthening
`Wakeups` says of a receiver asleep over an object that its sender is on its way to signal, or has just published and finds one
slot used, which is the case in which it signals; `UsedNone` and `UsedOne` relate that count to the emptiness the receiver saw.
`PipeCorrect` is the inductive invariant of the ring: the counters count what was sent and received, modulo their
range (`CountersInv`), and while nothing strains the pipe the arcs do not overlap (`ArcsInv`) and each slot of the ring holds
what the latest of its four users put there (`RingInv`). From it `ArcsCorrect`, `InOrderCorrect` and `NothingOverwrittenCorrect`.

`ContextHistory_proofs` (`IntervalAssumption`, `NamesAssumption`: a positive interval; the name of the context,
`nil` and those of the finitely many objects differ) is built in layers:

- `RowsInv`, `InstanceInv`, `CursorInv`: the rows name stored versions and go back to past ones; an instance has the version of
  its metadata; the undo cursor lies in its sequence. They hold whatever the constants: `VersionsCorrect`, and
  `RedoCorrect`: `Spec => []RedoComesBack`.
- What the scan finds: `FoundIs` turns the recursive `Found` into its equation at each version, by induction over versions;
  `CurrentInv` says the scan at the last version finds the stored versions. The lemmas `FoundOne`, `FoundTwo`, `FoundRestore` and
  `FoundNothing` say what a new row of each kind adds, and that the older versions find what they found.
- What a playback returns: `FilesInv` (each object has a first save, and every invocation since its last one), and `PlaySnapshot`,
  `PlayDelta`, `PlayKept` for the three ways a file may be written.
- `MemoryInv`, `LoggedInv` and `PastInv` follow: instances are what plays back, each object version is logged by a context
  version, and each context version restores to what the client had. `MemoryIsStoredCorrect` and `PastIsKeptCorrect`
  suppose `Plain`: no message nests another, and no version reaches the interval of periodic snapshots. Without either the properties fail
  (`ContextHistory_session`, `ContextHistory_snapshot`), so the hypothesis says exactly where the code keeps its promise: for
  histories of fewer than 100 versions, of messages that do not record others.
- `Refinement`: the context implements `VersionedGraph`, and `OperationsCorrect` says which of its steps each operation is. Both
  suppose besides that the client does not undo past the first version (`ContextHistory_undo`), under which
  `RestorePointsCorrect` shows that no restore point is misread.

The second part is about `ContextStops`. Its argument goes write by write:

- `Left` says what a stop may leave of a store: the rows and the files up to the stored version of each object are still there; each object has the files
  of its versions and at most one more above them; each new row names a version between the old and the new one of the UUID table, and no
  object has two. `Runs` says of a
  sequence of writes that `Left` holds after each of them. One lemma for each sequence of the code shows it (`SnapshotWrites`,
  `RecordWrites` and its base version, `RestoreWrites` by an induction over the objects of the restore).
- `LeftInv` is what that means for the store in memory and on the disk; with `RowsInv`, `InstanceInv` and `CursorInv` it is inductive, also
  for the operations that are not stopped, which now run over the remains of stopped ones: `StopsCorrect`. `NamedIsPlayableCorrect` follows.
- `PastStaysCorrect`: playing back a version looks at no file above it, and writes touch files above the stored version only.
- `ViewIsLoggedCorrect` needs `NamedInv` (the scan at the last version finds the last version of an object, if the history names it) and
  `MemoryLeft` (an instance is what its last version plays back to, unless it is buried). It supposes that messages do not nest,
  and `[]Unsnapped`, that no object reaches the version of a periodic snapshot: with either `ViewIsLogged` fails without any stop. With
  the interval of 100 the run has, `Unsnapped` holds in all its states.

The scan and the playback are recursive functions over versions. The library's induction over numbers takes an operator; `Least` and
`Induction` state it for sets of numbers instead, from the well-foundedness of `<`, and each use names the set of
numbers for which its claim holds.


`ObjectGraph_proofs` (`KindsAssumption`, `MayContainAssumption`, `PoliciesAssumption`: finitely many leaves and groups, which may
contain one another in any way but a group itself; any policies and liberties). `GraphInv` says of the files of an object that they begin with a
snapshot and hold only references to stored objects it may contain (`StoredInv`), the same of the instances and that those with a
fault are flagged (`InstancesOK`), and that every version names stored versions (`HistoryInv`, `RestoringInv`).
`PlaybackHeld` and `MetKeeps` are the inductions, over the files that are played back and over the faults that are resolved;
`ReplaceKeeps` goes through the replacement of an instance. `StoredCorrect`: loading a fault or a past version
always finds what it reads. `FaultsCorrect`: `Spec => []FaultsFlagged`.

Three more are about a careful client (`Liberties = {}`; without that they fail, see `ObjectGraph_twice`, `_departed`, `_removed` and
`object_graph_policy`; the policies stay arbitrary, and `RestoringAssumption` says that `nil` is not the record of a restore). They follow
from `CurrentInv`:

- `FilesInv`: each file of an object follows the ones before. `Plain` is what files play back to as they were stored, independent of what is
  in memory; `PlainCorrect` shows by induction that a playback in any memory reads the references of `Plain` (`Read` of each), each member
  once. An added member is not there before, a removed one is there as it is stored (this is where "frozen" is needed).
- `Matching`: an instance has the last version of its object and, by UUID, the members that plays back to, each once. `ReplaceSound`
  follows the replacement of an instance through its five parts: no other instance gets a stale member it had not.
- `Closed`: the members of a version of the context are among its objects, so an object that a restore discards is a member of none it keeps.
- Between two operations (`Steady`) the history finds the last version of each object and nothing in memory is stale. During a restore
  (`Underway`) a group with a stale member is still to be merged, and what was merged has the members of the version that is restored.
- `SeenInv`: the record of the past is what `Plain` gives for each version.

`MembersCurrent` and `PastKept` (`MembersAreCurrent`, `PastIsKept`) are then immediate; `RefinesVersionedGraph` takes one lemma for each
operation that logs (`LogsChange`) and one for the end of a restore (`RestoresGraph`).

`LaunchQueue_proofs` (any tasks, layouts, files and bounds): the invariant `Inv` is the types, `Attempts` (the short
runs of a task are the failures its `SCTask` counts, which follow it through its copies, and the one that may be lost:
a task that is no copy has not failed before its end is counted, so only its first failure can be lost), `Returning`
(a failure still to be counted is of a task in the table) and `Queue`: what is left of the loop is in the group
(`Looping`), every task had its turn or is still to come (`Pending`), the group has one priority and what is queued a
higher one (`Sorted`). From it `TypeCorrect`, `NoneSkippedCorrect`, `PriorityCorrect`, `GivesUpCorrect`,
`NotStoppedCorrect`; `TableCorrect` needs `Dates` besides (what was read is not newer than the file), and that no two
saves have one date.

`LogOut_proofs` (any applications, operations and bounds): `TypeCorrect`; `LocksCorrect` and `RefusalCorrect` from `LogInv`, which relates
the two locks by way of the answers that are queued (`Locks`, `Queued`, `Refusal`); `EndCorrect` and `OperationCorrect` from `EndInv`: an application
still counted as a member is known to the manager and runs, with no notification on its way (`Known`), and "ready" is
answered only when no member is left (`Ends`).

Only model-checked: liveness under fairness (out of the prover's reach), and the violations, which are counterexamples of TLC's.

## 6. What is not modelled

- `COProxy`; parents and the order of members of a group; notifications of a context; database and file errors; a file cut
  in the middle, which `ContextStops` does not tell from a whole one above the stored version.
- Of the System service: suspending a task, arguments and users, the alert panels.
- `threadedInvocationTrampoline`, which nothing calls; `MKObjectPipe`, an unused copy of the pipe.
- XMPPKit, MediaKit's player and other candidates named in `PROJECT.json`.
- Weak memory: the models are sequentially consistent, as the code assumes of its `volatile` and
  `__sync` accesses.
- User interface, file formats, language front ends, applications and vendored code, listed in `PROJECT.json`.

The project's own protocols are in Objective-C (`.m`) files. A count of mapped lines over the C and C++ files of the
repository says nothing about them: those files are vendored (Oniguruma, SQLite, shttpd, vttest) or bindings.
