--------------------------- MODULE ContextHistory ---------------------------
(* The history of an object context: CoreObject/COObjectContext.m and         *)
(* COObjectContext+GraphRollback.m, with the record session of                *)
(* COPersistentPool.m, the RECORD and END_RECORD macros of COUtility.h, and   *)
(* the stored side of COObjectServer.m, COMetadataServer.m and                *)
(* CODeserializer.m. The objects are COObject instances of one context, used  *)
(* by one thread; each operation runs to its end. Stopping and starting the   *)
(* process between two operations is Restart.                                 *)
(* The content of an object is the sequence of the messages that made it,     *)
(* each one identified by the context version that was to log it.             *)
EXTENDS Integers, Sequences, FiniteSetsExt, SequencesExt

CONSTANTS
  Objects,          \* the objects of the context, by UUID
  Context,          \* the UUID of the context itself
  SnapshotInterval, \* -snapshotTimeInterval
  Nested,           \* what a message may send to whom before it returns: Objects, or nil for nothing
  UndoesPastFirst,  \* whether the client calls -undo when there is nothing left to undo
  MaxVersion,       \* bound on the context version
  nil

ASSUME IntervalAssumption == SnapshotInterval \in Nat \ {0} /\ MaxVersion \in Nat
ASSUME NamesAssumption ==
  Context \notin Objects /\ nil \notin Objects \cup {Context} /\ IsFiniteSet(Objects)

VARIABLES
  version,          \* _version
  history,          \* the rows of the History table, in the order of globalVersion
  metadata,         \* objectVersion of each object in the UUID table, -1 without a row
  fullSave,         \* for each object, its snapshots by version (FullSave/root)
  delta,            \* for each object, its invocations by version (Delta/root)
  registered,       \* _registeredObjects: [version, content] of each instance, or nil
  firstUndoVersion, \* _firstUndoVersion
  cursor,           \* _restoredVersionUndoCursor
  session,          \* _recordedObjectStack
  raised,           \* whether an assertion of the code has failed
  seen              \* the graph the client had at each version: a record of the past, never read

stored == <<metadata, fullSave, delta>>
undoing == <<firstUndoVersion, cursor>>
vars == <<version, history, stored, registered, undoing, session, raised, seen>>

Row == [object : Objects \cup {Context}, objectVersion : -1..MaxVersion, contextVersion : 1..MaxVersion]
Content == Seq(1..MaxVersion)

\* Versions, contents and rows stay in their range, the files are snapshots
\* and invocations, and an instance has the version its content was recorded with.
TypeOK ==
  /\ version \in 0..MaxVersion
  /\ history \in Seq(Row)
  /\ metadata \in [Objects -> -1..MaxVersion]
  /\ \A o \in Objects :
       /\ DOMAIN fullSave[o] \subseteq 0..MaxVersion /\ Range(fullSave[o]) \subseteq Content
       /\ DOMAIN delta[o] \subseteq 1..MaxVersion /\ Range(delta[o]) \subseteq 1..MaxVersion
       /\ registered[o] \in [version : -1..MaxVersion, content : Content] \cup {nil}
  /\ firstUndoVersion \in {-1} \cup 1..MaxVersion + 1
  /\ cursor \in -1..MaxVersion
  /\ session \in Seq(Objects)
  /\ raised \in BOOLEAN

------------------------------------------------------------------------------
(* What is stored. *)

\* f, and g where f says nothing.
Over(f, g) == [x \in DOMAIN f \cup DOMAIN g |-> IF x \in DOMAIN f THEN f[x] ELSE g[x]]
Entry(x, y) == [z \in {x} |-> y]

Loaded == {o \in Objects : registered[o] # nil}
IsStored(o) == metadata[o] # -1
LastVersion(o) == Max(DOMAIN fullSave[o] \cup DOMAIN delta[o])

\* The last snapshot at or before v, then the invocations up to v.
Playback(o, v) ==
  LET base == Max({s \in DOMAIN fullSave[o] : s <= v})
  IN  fullSave[o][base] \o [i \in 1..(v - base) |-> delta[o][base + i]]

LogRow(o, v, c) == [object |-> o, objectVersion |-> v, contextVersion |-> c]

------------------------------------------------------------------------------
(* The scan of the history, from the rows of a version back; the first row    *)
(* met for an object counts. At a restore point, whose row is the newest of   *)
(* its version, the rows of the objects it restored are collected and the     *)
(* scan skips to the rows of the version it went back to.                     *)

RowsAt(c) == {row \in Range(history) : row.contextVersion = c}
IsRestorePoint(c) == \E row \in RowsAt(c) : row.object = Context
RestoredVersion(c) == (CHOOSE row \in RowsAt(c) : row.object = Context).objectVersion
VersionsAt(c) ==
  [o \in {row.object : row \in RowsAt(c)} \ {Context} |->
     (CHOOSE row \in RowsAt(c) : row.object = o).objectVersion]

\* As if REAL_RESTORE_POINT_TRAVERSAL were not defined.
BrokenBefore(c) == c - 1

\* The version whose rows are visited after those of c.
Before(c) == IF IsRestorePoint(c) THEN RestoredVersion(c) ELSE c - 1

NotFound == [o \in {} |-> -1]

\* -findAllObjectVersionsMatchingContextVersion:
Found(v) ==
  LET from[c \in -1..version] == IF c < 1 THEN NotFound ELSE Over(VersionsAt(c), from[Before(c)])
  IN  from[v]

\* The scan from v meets a restore point to version -1, which it cannot tell
\* from the row of an object.
IsMisread(v) ==
  LET from[c \in -1..version] == c > 0 /\ (Before(c) = -1 \/ from[Before(c)])
  IN  from[v]

\* The graph a restore to version v shows.
Restored(v) == LET found == Found(v) IN [o \in DOMAIN found |-> Playback(o, found[o])]

\* The graph the client sees: the objects that belong to the context at its
\* version; those that are not in memory are read when they are first used.
View ==
  [o \in DOMAIN Found(version) |->
     IF registered[o] # nil THEN registered[o].content ELSE Playback(o, metadata[o])]

------------------------------------------------------------------------------
Init ==
  /\ version = 0
  /\ history = <<>>
  /\ metadata = [o \in Objects |-> -1]
  /\ fullSave = [o \in Objects |-> <<>>]
  /\ delta = [o \in Objects |-> <<>>]
  /\ registered = [o \in Objects |-> nil]
  /\ firstUndoVersion = -1
  /\ cursor = -1
  /\ session = <<>>
  /\ raised = FALSE
  /\ seen = <<>>

HasRoom(n) == version + n <= MaxVersion

\* Part of every operation: no assertion failed before, and the graph the client
\* sees afterwards is that of the new version, if there is one; a version made on
\* the way, with the base snapshot of an object, is what it restores to.
Observed ==
  /\ ~raised
  /\ seen' = [v \in 1..version' |->
       IF v <= version THEN seen[v] ELSE IF v = version' THEN View' ELSE Restored(v)']

(* -logRecord:objectVersion:timestamp:shouldIncrementContextVersion: with YES. *)
LogRecord(o, v) ==
  /\ version' = version + 1
  /\ history' = Append(history, LogRow(o, v, version + 1))
  /\ firstUndoVersion' = -1
  /\ UNCHANGED cursor

\* As if -_setObjectVersion: were forgotten after the snapshot.
BrokenSnapshot(o, v, content) ==
  /\ fullSave' = [fullSave EXCEPT ![o] = Over(Entry(v + 1, content), @)]
  /\ metadata' = [metadata EXCEPT ![o] = v + 1]
  /\ registered' = [registered EXCEPT ![o] = [version |-> v, content |-> content]]

(* -snapshotObject:shouldIncrementObjectVersion: with YES, on an instance that *)
(* has the given version and content; it is registered at the end.            *)
Snapshot(o, v, content) ==
  /\ fullSave' = [fullSave EXCEPT ![o] = Over(Entry(v + 1, content), @)]
  /\ metadata' = [metadata EXCEPT ![o] = v + 1]
  /\ registered' = [registered EXCEPT ![o] = [version |-> v + 1, content |-> content]]

(* -registerObject: on an object that was never stored. *)
Register(o) ==
  /\ registered[o] = nil /\ ~IsStored(o)
  /\ registered' = [registered EXCEPT ![o] = [version |-> -1, content |-> <<>>]]
  /\ UNCHANGED <<version, history, stored, undoing, session, raised>>
  /\ Observed

(* -insertObject: *)
Insert(o) ==
  /\ registered[o] = nil /\ ~IsStored(o) /\ HasRoom(1)
  /\ Snapshot(o, -1, <<>>)
  /\ LogRecord(o, 0)
  /\ UNCHANGED <<delta, session, raised>>
  /\ Observed

(* -save; with edited, after messages sent between -disablePersistency and    *)
(* -enablePersistency.                                                        *)
Save(o, edited) ==
  /\ o \in Loaded /\ HasRoom(1)
  /\ LET r == registered[o] IN
       /\ Snapshot(o, r.version, IF edited THEN Append(r.content, version + 1) ELSE r.content)
       /\ LogRecord(o, r.version + 1)
  /\ UNCHANGED <<delta, session, raised>>
  /\ Observed

(* The pushes of a message to o that sends another one to p, nil for none, *)
(* before it returns.                                                      *)
Pushes(o, p) == IF p = nil THEN <<o>> ELSE <<o, p>>

(* A message outside of a record session: -recordInvocation: starts one,      *)
(* writes the invocation, and when the version is a multiple of the interval  *)
(* a snapshot of the object, which has not run the method yet. END_RECORD     *)
(* ends one record.                                                           *)
Record(o, p) ==
  LET r == registered[o]
      first == r.version = -1
      n == IF first THEN 1 ELSE r.version + 1
      c == version + IF first THEN 2 ELSE 1
      snapshots == (IF first THEN {0} ELSE {}) \cup (IF n % SnapshotInterval = 0 THEN {n} ELSE {})
  IN /\ HasRoom(c - version)
     /\ fullSave' = [fullSave EXCEPT ![o] = Over([s \in snapshots |-> r.content], @)]
     /\ delta' = [delta EXCEPT ![o] = Over(Entry(n, c), @)]
     /\ metadata' = [metadata EXCEPT ![o] = n]
     /\ version' = c
     /\ history' = history \o (IF first THEN <<LogRow(o, 0, c - 1)>> ELSE <<>>) \o <<LogRow(o, n, c)>>
     /\ firstUndoVersion' = -1
     /\ registered' = [q \in Objects |->
          IF q = o THEN [version |-> n, content |-> Append(r.content, c)]
          ELSE IF q = p THEN [registered[q] EXCEPT !.content = Append(@, c)]
          ELSE registered[q]]
     /\ session' = Front(Pushes(o, p))
     /\ UNCHANGED <<cursor, raised>>

(* A message while the record stack is not empty: it is pushed and, the       *)
(* version being the same, never popped; the object changes.                  *)
Ignore(o, p) ==
  /\ HasRoom(1) /\ Len(session) < MaxVersion - 1
  /\ session' = session \o Pushes(o, p)
  /\ registered' = [q \in Objects |->
       IF q \in {o, p} THEN [registered[q] EXCEPT !.content = Append(@, version + 1)] ELSE registered[q]]
  /\ UNCHANGED <<version, history, stored, undoing, raised>>

(* A message that changes an object of the context. *)
Change(o, p) ==
  /\ o \in Loaded /\ p \in Loaded \cup {nil}
  /\ IF session = <<>> THEN Record(o, p) ELSE Ignore(o, p)
  /\ Observed

(* -objectForUUID: on a stored object that is not in memory; the clients of   *)
(* a group reach it through the resolution of faults.                         *)
Load(o) ==
  /\ registered[o] = nil /\ IsStored(o)
  /\ registered' = [registered EXCEPT
       ![o] = [version |-> metadata[o], content |-> Playback(o, metadata[o])]]
  /\ UNCHANGED <<version, history, stored, undoing, session, raised>>
  /\ Observed

(* -unregisterObject: *)
Unregister(o) ==
  /\ o \in Loaded
  /\ registered' = [registered EXCEPT ![o] = nil]
  /\ UNCHANGED <<version, history, stored, undoing, session, raised>>
  /\ Observed

\* As if the merge did not give the temporal instance the version of the object
\* it replaces.
BrokenRestoreObject(o, v) ==
  /\ o \in Loaded /\ IsStored(o) /\ HasRoom(1)
  /\ v <= LastVersion(o) /\ v # registered[o].version
  /\ Snapshot(o, v, Playback(o, v))
  /\ LogRecord(o, v + 1)
  /\ UNCHANGED <<delta, session, raised>>
  /\ Observed

(* -objectByRestoringObject:toVersion:mergeImmediately: with YES: the old     *)
(* content becomes the next version, a snapshot.                              *)
RestoreObject(o, v) ==
  /\ o \in Loaded /\ IsStored(o) /\ HasRoom(1)
  /\ v <= LastVersion(o) /\ v # registered[o].version
  /\ Snapshot(o, registered[o].version, Playback(o, v))
  /\ LogRecord(o, registered[o].version + 1)
  /\ UNCHANGED <<delta, session, raised>>
  /\ Observed

------------------------------------------------------------------------------
(* -_restoreToVersion:, with what the undo sequence becomes when an object is *)
(* restored, which logs it.                                                   *)

\* The version an object has before it is restored.
CurrentVersion(o) == IF registered[o] # nil THEN registered[o].version ELSE metadata[o]

RestoreGraph(v) ==
  LET found == Found(v)
      stale == {o \in DOMAIN found : found[o] # CurrentVersion(o)}
      content == [o \in stale |-> Playback(o, found[o])]
      next == [o \in stale |-> CurrentVersion(o) + 1]
      rows == [i \in 1..Cardinality(stale) |->
                 LET o == SetToSeq(stale)[i] IN LogRow(o, next[o], version + 1)]
  IN /\ registered' = [o \in Objects |->
          IF o \in stale THEN [version |-> next[o], content |-> content[o]]
          ELSE IF o \in DOMAIN found THEN registered[o]
          ELSE nil]
     /\ fullSave' = [o \in Objects |->
          IF o \in stale THEN Over(Entry(next[o], content[o]), fullSave[o]) ELSE fullSave[o]]
     /\ metadata' = Over(next, metadata)
     /\ history' = history \o rows \o <<LogRow(Context, v, version + 1)>>
     /\ version' = version + 1
     /\ UNCHANGED <<delta, session, raised>>

\* The scan reads a restore point as a logged message: NSAssert3 raises after
\* the context has taken its new version.
Misread ==
  /\ raised' = TRUE
  /\ version' = version + 1
  /\ UNCHANGED <<history, stored, registered, undoing, session>>

\* Whether a restore to v logs at least one object.
LogsObjects(v) == \E o \in DOMAIN Found(v) : Found(v)[o] # CurrentVersion(o)

(* -restoreToVersion: sent by the client; a version that is not a past one is *)
(* refused.                                                                   *)
RestoreToVersion(v) ==
  /\ v < version /\ HasRoom(1)
  /\ IF IsMisread(v) THEN Misread
     ELSE /\ RestoreGraph(v)
          /\ firstUndoVersion' = IF LogsObjects(v) THEN -1 ELSE firstUndoVersion
          /\ UNCHANGED cursor
  /\ Observed

(* -undo: the cursor starts at the version and moves back by one. *)
Undo ==
  LET starts == firstUndoVersion = -1
      v == (IF starts THEN version ELSE cursor) - 1
  IN /\ HasRoom(1)
     /\ v >= IF UndoesPastFirst THEN -1 ELSE 0
     /\ IF IsMisread(v) THEN Misread
        ELSE /\ RestoreGraph(v)
             /\ cursor' = v
             /\ firstUndoVersion' = IF starts THEN version + 1 ELSE firstUndoVersion
     /\ Observed

\* As if the sequence ended one redo too late.
BrokenRedo ==
  LET v == cursor + 1 IN
  /\ firstUndoVersion # -1 /\ HasRoom(1)
  /\ IF IsMisread(v) THEN Misread
     ELSE /\ RestoreGraph(v)
          /\ cursor' = v
          /\ firstUndoVersion' = IF v = firstUndoVersion THEN -1 ELSE firstUndoVersion
  /\ Observed

(* -redo *)
Redo ==
  LET v == cursor + 1 IN
  /\ firstUndoVersion # -1 /\ HasRoom(1)
  /\ IF IsMisread(v) THEN Misread
     ELSE /\ RestoreGraph(v)
          /\ cursor' = v
          /\ firstUndoVersion' = IF v = firstUndoVersion - 1 THEN -1 ELSE firstUndoVersion
  /\ Observed

\* -latestVersion
LatestVersion(rows) == Max({0} \cup {row.contextVersion : row \in Range(rows)})

\* -initWithUUID: opens the context again.
Reopen ==
  /\ version' = LatestVersion(history')
  /\ registered' = [o \in Objects |-> nil]
  /\ firstUndoVersion' = -1 /\ cursor' = -1
  /\ session' = <<>>

(* The process stops between two operations and starts again. *)
Restart ==
  /\ UNCHANGED <<history, stored, raised>>
  /\ Reopen
  /\ Observed

Next ==
  \/ \E o \in Objects : Register(o) \/ Insert(o) \/ Load(o) \/ Unregister(o)
  \/ \E o \in Objects, p \in Nested : Change(o, p)
  \/ \E o \in Objects, edited \in BOOLEAN : Save(o, edited)
  \/ \E o \in Objects, v \in 0..MaxVersion : RestoreObject(o, v)
  \/ \E v \in 0..MaxVersion : RestoreToVersion(v)
  \/ Undo
  \/ Redo
  \/ Restart

Spec == Init /\ [][Next]_vars

------------------------------------------------------------------------------
(* The context keeps its promise: it is a versioned graph. Restores of        *)
(* restores, undo and redo, with objects that enter, leave, come back and are *)
(* read again from the disk, show exactly the graph of the version they go    *)
(* to, and change one object or the graph as they say in the history.         *)
VG == INSTANCE VersionedGraph WITH
        graph <- IF version = 0 THEN NotFound ELSE seen[version],
        past <- seen,
        origin <- [v \in 1..version |-> IF IsRestorePoint(v) THEN RestoredVersion(v) ELSE -1]
ImplementsVersionedGraph == VG!Spec

(* The rows and files of every version that was reached still give the graph  *)
(* the client had, whatever was recorded, merged or restored since; and what  *)
(* it sees now, part in memory and part on disk, is the last of them, whatever*)
(* was loaded, unloaded or restarted.                                         *)
PastIsKept ==
  /\ \A v \in 1..version : Restored(v) = seen[v]
  /\ version > 0 => View = seen[version]

(* Nothing is only in memory: the last stored version of an object that was   *)
(* saved plays back to its instance, so unloading or stopping loses nothing   *)
(* (-objectForUUID:, -objectWithUUID:).                                       *)
MemoryIsStored ==
  \A o \in Loaded : registered[o].version # -1 =>
    /\ registered[o].version = metadata[o]
    /\ registered[o].content = Playback(o, metadata[o])

(* -redo always has a past version to go to, so the restore is never refused  *)
(* while the cursor has moved, and undoing n times then redoing n times ends  *)
(* the sequence with the graph it began with.                                 *)
RedoComesBack ==
  firstUndoVersion # -1 =>
    /\ cursor + 1 < version
    /\ cursor < firstUndoVersion - 1

(* The restore points are never taken for messages (the NSAssert3 of          *)
(* -findAllObjectVersionsMatchingContextVersion:).                            *)
RestorePointsRecognized == ~raised

(* Between two messages no record is open (the second NSAssert1 of            *)
(* -endRecordSession: "The record session stack must be empty when a record   *)
(* session has been terminated").                                             *)
SessionEnds == session = <<>>

(* A sequence of undo and redo is over as soon as the version changes by      *)
(* other means (the comment of -undo).                                        *)
SequenceCleared ==
  [][version' # version /\ firstUndoVersion # -1 => Undo \/ Redo \/ firstUndoVersion' = -1]_vars
=============================================================================
