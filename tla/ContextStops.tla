---------------------------- MODULE ContextStops ----------------------------
(* An object context whose process may stop in the middle of an operation:    *)
(* CoreObject/COObjectContext.m and COObjectContext+GraphRollback.m. An       *)
(* operation reaches the store in steps, a file of the object bundle, the     *)
(* objectVersion column of the UUID table, a row of the History table, and    *)
(* nothing makes them one: each is on the disk when its call returns. The     *)
(* context runs in one thread, so what is left of an operation is a first     *)
(* part of its writes, and the next thing that happens is -initWithUUID:.     *)
(* A file cut in the middle is above the object version of the UUID table, as *)
(* a whole one would be, and is not told from it here.                        *)
EXTENDS ContextHistory, SequencesExt

CONSTANT MaxStops \* bound on the operations that are stopped

VARIABLES
  stops,    \* how many were
  promised, \* history: the graph each version restored to when the context reached it
  buried    \* history: the objects of which an invocation was recorded at the version
            \* of a snapshot that a stopped operation had left

stopVars == <<vars, stops, promised, buried>>

------------------------------------------------------------------------------
(* The writes. *)

SnapshotFile(o, v, content) == [in |-> "FullSave", object |-> o, version |-> v, data |-> content]
DeltaFile(o, v, c)          == [in |-> "Delta", object |-> o, version |-> v, data |-> c]
Metadata(o, v)              == [in |-> "UUID", object |-> o, version |-> v]
HistoryRow(o, v, c)         == [in |-> "History", row |-> LogRow(o, v, c)]

Store == [fullSave |-> fullSave, delta |-> delta, metadata |-> metadata, history |-> history]

Written(store, w) ==
  CASE w.in = "FullSave" -> [store EXCEPT !.fullSave[w.object] = Over(Entry(w.version, w.data), @)]
    [] w.in = "Delta"    -> [store EXCEPT !.delta[w.object] = Over(Entry(w.version, w.data), @)]
    [] w.in = "UUID"     -> [store EXCEPT !.metadata[w.object] = w.version]
    [] w.in = "History"  -> [store EXCEPT !.history = Append(@, w.row)]

\* The store after each number of writes.
After(store, writes) ==
  LET after[n \in 0..Len(writes)] == IF n = 0 THEN store ELSE Written(after[n - 1], writes[n])
  IN  after

\* As if -_setObjectVersion: came with its metadata before the file.
BrokenSnapshotWrites(o, v, content) == <<Metadata(o, v + 1), SnapshotFile(o, v + 1, content)>>

\* -snapshotObject:shouldIncrementObjectVersion: with YES.
SnapshotWrites(o, v, content) == <<SnapshotFile(o, v + 1, content), Metadata(o, v + 1)>>

\* -snapshotObject:, and the merge of one object.
LoggedWrites(o, v, content) == Append(SnapshotWrites(o, v, content), HistoryRow(o, v + 1, version + 1))

\* As if -serializeObject:withName: did not call -newVersion.
BrokenRecordWrites(o) ==
  LET r == registered[o]
      first == r.version = -1
      n == IF first THEN 0 ELSE r.version
      c == version + IF first THEN 2 ELSE 1
  IN (IF first THEN LoggedWrites(o, -1, r.content) ELSE <<>>)
       \o <<DeltaFile(o, n, c), Metadata(o, n), HistoryRow(o, n, c)>>

\* -recordInvocation:, with the base version before the first invocation.
RecordWrites(o) ==
  LET r == registered[o]
      first == r.version = -1
      n == IF first THEN 1 ELSE r.version + 1
      c == version + IF first THEN 2 ELSE 1
      files == <<DeltaFile(o, n, c)>>
                 \o IF n % SnapshotInterval = 0 THEN <<SnapshotFile(o, n, r.content)>> ELSE <<>>
  IN Append((IF first THEN LoggedWrites(o, -1, r.content) ELSE <<>>) \o files \o <<Metadata(o, n)>>,
            HistoryRow(o, n, c))

\* The objects a restore to v finds at another version.
StaleAt(v) == {o \in DOMAIN Found(v) : Found(v)[o] # CurrentVersion(o)}

\* -restoreObjectsIfNeededForObjectVersions:, in an order of the objects.
ObjectsWrites(order, v) ==
  LET writes[n \in 0..Len(order)] ==
        IF n = 0 THEN <<>>
        ELSE writes[n - 1] \o LoggedWrites(order[n], CurrentVersion(order[n]), Playback(order[n], Found(v)[order[n]]))
  IN  writes[Len(order)]

\* As if the restore point were logged with the increment of the version.
BrokenRestoreWrites(v) ==
  {<<HistoryRow(Context, v, version + 1)>> \o ObjectsWrites(order, v) : order \in SetToSeqs(StaleAt(v))}

\* -_restoreToVersion:, the objects in the order of a dictionary, the restore
\* point last.
RestoreWrites(v) ==
  {Append(ObjectsWrites(order, v), HistoryRow(Context, v, version + 1)) : order \in SetToSeqs(StaleAt(v))}

Promised ==
  promised' = [v \in 1..version' |-> IF v <= version THEN promised[v] ELSE Restored(v)']

------------------------------------------------------------------------------
(* An operation that is stopped after some of its writes, but not all, and    *)
(* the context opened again.                                                  *)
Stopped(writes) ==
  /\ stops < MaxStops /\ ~raised
  /\ \E n \in 1 .. Len(writes) - 1 :
       LET store == After(Store, writes)[n] IN
         /\ fullSave' = store.fullSave
         /\ delta' = store.delta
         /\ metadata' = store.metadata
         /\ history' = store.history
  /\ Reopen
  /\ stops' = stops + 1
  /\ seen' = [v \in 1..version' |-> IF v <= version THEN seen[v] ELSE NotFound]
  /\ Promised
  /\ UNCHANGED <<raised, buried>>

StoppedInsert(o) ==
  /\ registered[o] = nil /\ ~IsStored(o) /\ HasRoom(1)
  /\ Stopped(LoggedWrites(o, -1, <<>>))

StoppedSave(o, edited) ==
  /\ o \in Loaded /\ HasRoom(1)
  /\ LET r == registered[o] IN
       Stopped(LoggedWrites(o, r.version, IF edited THEN Append(r.content, version + 1) ELSE r.content))

StoppedRecord(o) ==
  /\ o \in Loaded /\ session = <<>> /\ HasRoom(IF registered[o].version = -1 THEN 2 ELSE 1)
  /\ Stopped(RecordWrites(o))

StoppedRestoreObject(o, v) ==
  /\ o \in Loaded /\ IsStored(o) /\ HasRoom(1)
  /\ v <= LastVersion(o) /\ v # registered[o].version
  /\ Stopped(LoggedWrites(o, registered[o].version, Playback(o, v)))

\* By -restoreToVersion:, -undo or -redo.
StoppedRestore(v) ==
  /\ v < version /\ HasRoom(1) /\ ~IsMisread(v)
  /\ \E writes \in RestoreWrites(v) : Stopped(writes)

\* The snapshot of the new version of o is one that was there.
Buried(o) ==
  LET v == metadata'[o] IN
  v # metadata[o] /\ v \in DOMAIN fullSave[o] /\ fullSave'[o][v] = fullSave[o][v]

Whole ==
  /\ Next
  /\ buried' = buried \cup {o \in Objects : Buried(o)}
  /\ Promised
  /\ UNCHANGED stops

StopInit == Init /\ stops = 0 /\ promised = <<>> /\ buried = {}

StopNext ==
  \/ Whole
  \/ \E o \in Objects : StoppedInsert(o) \/ StoppedRecord(o)
  \/ \E o \in Objects, edited \in BOOLEAN : StoppedSave(o, edited)
  \/ \E o \in Objects, v \in 0..MaxVersion : StoppedRestoreObject(o, v)
  \/ \E v \in 0..MaxVersion : StoppedRestore(v)

StopSpec == StopInit /\ [][StopNext]_stopVars

------------------------------------------------------------------------------
(* What a stop leaves behind. *)

IsPlayable(o, v) ==
  \E s \in DOMAIN fullSave[o] : s <= v /\ s + 1 .. v \subseteq DOMAIN delta[o]

LastLogged(o) ==
  Max({-1} \cup {row.objectVersion : row \in {r \in Range(history) : r.object = o}})

(* The three steps of -recordInvocation: and of -snapshotObject: come in an   *)
(* order that survives a stop between any two of them: a version that the     *)
(* UUID table or the history names has its snapshot and all the invocations   *)
(* since.                                                                     *)
NamedIsPlayable ==
  \A o \in Objects :
    /\ IsStored(o) => IsPlayable(o, metadata[o])
    /\ \A row \in Range(history) : row.object = o =>
         row.objectVersion <= metadata[o] /\ IsPlayable(o, row.objectVersion)

(* Whatever is done, stopped or recorded over the remains of a stopped        *)
(* operation, no past version restores to another graph than before           *)
(* (-version: "the context will restore back to the unique set of temporal    *)
(* instances bound to this version").                                         *)
PastStays == \A v \in 1..version : Restored(v) = promised[v]

(* The graph the client sees is the one the history gives for the version of  *)
(* the context, whatever was stopped on the way there, but for buried objects *)
(* and for those whose last version a stopped operation did not log.          *)
ViewIsLogged ==
  \A o \in DOMAIN Found(version) \ buried :
    metadata[o] = LastLogged(o) => View[o] = Restored(version)[o]

(* -version: "Each object context version is associated with a unique set of  *)
(* object versions".  The code does not keep it: an operation stopped between *)
(* the UUID table and the history leaves an object version no version of the  *)
(* context names, and the next -undo and -redo lose its message.              *)
VersionHasItsObjects == \A o \in DOMAIN Found(version) : View[o] = Restored(version)[o]

(* -commitMergeOfInstance:forObject:, "syncing the object version and taking  *)
(* a snapshot".  The code does not keep it: the snapshot of a merge that was  *)
(* stopped before the UUID table stays, and the invocation then recorded with *)
(* its version is played back from it.                                        *)
RecordsAreStored == MemoryIsStored
=============================================================================
