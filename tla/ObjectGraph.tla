---------------------------- MODULE ObjectGraph -----------------------------
(* The graph between the groups of an object context and their members, in    *)
(* memory and on the disk: CoreObject/COGroup.m, with what COObjectContext.m, *)
(* COObjectContext+GraphRollback.m, COObjectServer.m, CODeserializer.m and    *)
(* COSerializer.m do to it when an object is loaded, replaced or restored. A  *)
(* group refers to a member by its instance or, while nobody has asked for    *)
(* it, by its UUID, a fault; an instance that was replaced or left the        *)
(* context, and is still referred to, is stale. The two arrays of a group,    *)
(* children and subgroups, are one set of references, without their order.    *)
(* The rows of the history are reduced to what their scan finds at each       *)
(* version; ContextHistory models the scan. Parents, which are not stored, are*)
(* left out.                                                                  *)
EXTENDS Integers, Sequences, FiniteSetsExt, SequencesExt

CONSTANTS
  Leaves,      \* the objects that are not groups, by UUID
  Groups,      \* the groups
  MayContain,  \* the pairs <<group, object>> the client puts together
  Policies,    \* the merge policies the client chooses from, "old" is the first one
  Liberties,   \* what the client does beyond careful use, see Careful
  MaxVersion,  \* bound on the context version
  nil

Objects == Leaves \cup Groups

ASSUME KindsAssumption == Leaves \cap Groups = {} /\ nil \notin Objects /\ IsFiniteSet(Objects)
ASSUME MayContainAssumption == MayContain \subseteq Groups \X Objects /\ \A g \in Groups : <<g, g>> \notin MayContain
ASSUME PoliciesAssumption == Policies \subseteq {"old", "existing", "union", "intersection"}
ASSUME RestoringAssumption ==
  nil \notin [to : Nat, todo : SUBSET Objects, rows : UNION {[S -> Nat] : S \in SUBSET Objects}]
ASSUME LibertiesAssumption == Liberties \subseteq {"unresolved", "departed", "merging", "frozen"}

VARIABLES
  history,   \* for each version, the object versions the scan finds and the version it restores, or -1
  stored,    \* the files of each object by object version: snapshots and invocations
  instance,  \* the registered instance of each object, nil if it is not in memory
  policy,    \* _mergePolicy
  restoring, \* the restore of the context that is underway, or nil
  seen       \* the members each group had at each version: a record of the past, never read

vars == <<history, stored, instance, policy, restoring, seen>>

------------------------------------------------------------------------------
(* References and files. *)

Ref == [of : Objects, is : {"instance", "fault", "stale"}, version : -1..MaxVersion]
Instance(x) == [of |-> x, is |-> "instance", version |-> -1]
Fault(x) == [of |-> x, is |-> "fault", version |-> -1]
Stale(x, v) == [of |-> x, is |-> "stale", version |-> v]

File == [is : {"snapshot", "addMember", "removeMember", "change"}, members : SUBSET Ref]
Loaded == [version : -1..MaxVersion, members : SUBSET Ref, hasFaults : BOOLEAN]

\* References are to members the client may have put there, only groups have
\* any, and the files of an object begin with a snapshot.
TypeOK ==
  /\ history \in Seq([found : UNION {[S -> 0..MaxVersion] : S \in SUBSET Objects}, origin : -1..MaxVersion])
  /\ stored \in [Objects -> Seq(File)]
  /\ \A o \in Objects : stored[o] # <<>> => stored[o][1].is = "snapshot"
  /\ instance \in [Objects -> Loaded \cup {nil}]
  /\ \A o \in Objects : instance[o] # nil =>
       \A r \in instance[o].members : <<o, r.of>> \in MayContain /\ (r.is = "stale" <=> r.version # -1)
  /\ policy \in Policies
  /\ restoring # nil => restoring.todo \subseteq Objects

Cached == {o \in Objects : instance[o] # nil}
IsStored(o) == stored[o] # <<>>
LastVersion(o) == Len(stored[o]) - 1
Uuids(refs) == {r.of : r \in refs}

\* -isEqual: two instances are equal when UUID and object version are; a UUID
\* equals a UUID only.
VersionIn(inst, r) == IF r.is = "instance" THEN inst[r.of].version ELSE r.version
IsEqual(inst, r, s) ==
  /\ r.of = s.of
  /\ r.is = "fault" <=> s.is = "fault"
  /\ VersionIn(inst, r) = VersionIn(inst, s)
HasEqual(inst, refs, r) == \E s \in refs : IsEqual(inst, r, s)
Without(inst, refs, r) == {s \in refs : ~IsEqual(inst, r, s)}

\* -storeObjectFromAddress:withName: an instance is stored as its UUID, a fault
\* as an object like any other.
Written(r) == IF r.is = "fault" THEN r ELSE Instance(r.of)

\* -lookUpObjectForUUID: of the deserializer, for what was stored as a UUID.
Read(inst, r) == IF r.is = "instance" /\ inst[r.of] = nil THEN Fault(r.of) ELSE r

Played(inst, refs, file) ==
  LET member == {Read(inst, r) : r \in file.members} IN
  CASE file.is = "snapshot"     -> member
    [] file.is = "addMember"    -> refs \cup {r \in member : ~HasEqual(inst, refs, r)}
    [] file.is = "removeMember" -> {s \in refs : \A r \in member : ~IsEqual(inst, s, r)}
    [] file.is = "change"       -> refs

\* As if the last invocation were not replayed.
BrokenPlayback(inst, o, v) ==
  LET base == Max({s \in 0..v : stored[o][s + 1].is = "snapshot"})
      after[n \in base..v] == Played(inst, IF n = base THEN {} ELSE after[n - 1], stored[o][n + 1])
  IN  after[Max({base, v - 1})]

\* The members of o at an object version, read from its last snapshot and the
\* invocations after it while inst is in memory.
Playback(inst, o, v) ==
  LET base == Max({s \in 0..v : stored[o][s + 1].is = "snapshot"})
      after[n \in base..v] == Played(inst, IF n = base THEN {} ELSE after[n - 1], stored[o][n + 1])
  IN  after[v]

\* A finite function with one argument, and the second with the entries of the first in their place.
Entry(x, y) == [z \in {x} |-> y]
Over(f, g) == [x \in DOMAIN f \cup DOMAIN g |-> IF x \in DOMAIN f THEN f[x] ELSE g[x]]

\* -findAllObjectVersionsMatchingContextVersion:
Found(v) == IF v = 0 THEN [o \in {} |-> 0] ELSE history[v].found
Here == Found(Len(history))

------------------------------------------------------------------------------
(* What happens to the instances. *)

\* As if -setHasFaults: were forgotten.
BrokenLoad(inst, o) ==
  [inst EXCEPT ![o] = [version   |-> LastVersion(o),
                       members   |-> Playback(inst, o, LastVersion(o)),
                       hasFaults |-> FALSE]]

\* -objectForUUID: on a stored object that is not in memory.
Load(inst, o) ==
  [inst EXCEPT ![o] = [version   |-> LastVersion(o),
                       members   |-> Playback(inst, o, LastVersion(o)),
                       hasFaults |-> o \in Groups]]

\* The orders in which faults may be met, the children of a group first.
Orders == {order \in [1..Cardinality(Objects) -> Objects] :
             IsInjective(order) /\ \A i, j \in DOMAIN order : order[i] \in Leaves /\ order[j] \in Groups => i < j}

\* The instances after the faults among the first n objects of an order were met.
Met(inst, faults, order, n) ==
  LET after[k \in 0..n] ==
        IF k = 0 THEN inst
        ELSE IF order[k] \in faults /\ after[k - 1][order[k]] = nil THEN Load(after[k - 1], order[k])
        ELSE after[k - 1]
  IN  after[n]

\* -resolveFaults of the group g: every fault is replaced by the instance, which
\* is loaded if need be.
Resolve(inst, g, order) ==
  LET faults == {r.of : r \in {s \in inst[g].members : s.is = "fault"}}
      loaded == Met(inst, faults, order, Cardinality(Objects))
  IN IF ~inst[g].hasFaults THEN inst
     ELSE [loaded EXCEPT ![g].members = {IF r.is = "fault" THEN Instance(r.of) ELSE r : r \in @},
                         ![g].hasFaults = FALSE]

ResolveIfGroup(inst, o, order) == IF o \in Groups THEN Resolve(inst, o, order) ELSE inst

\* The references to the instances of objects that leave the context.
Left(inst, objects) ==
  [o \in Objects |->
     IF inst[o] = nil THEN nil
     ELSE [inst[o] EXCEPT !.members =
             {IF r.is = "instance" /\ r.of \in objects THEN Stale(r.of, inst[r.of].version) ELSE r : r \in @}]]

\* -unregisterObject: of each
Unregister(inst, objects) ==
  [o \in Objects |-> IF o \in objects THEN nil ELSE Left(inst, objects)[o]]

\* As if groups with unresolved members were left as they are.
BrokenUpdate(inst, o, old) ==
  [g \in Objects |->
     IF inst[g] = nil \/ inst[g].hasFaults \/ ~HasEqual(inst, inst[g].members, Stale(o, old.version)) THEN inst[g]
     ELSE [inst[g] EXCEPT !.members = Without(inst, @, Stale(o, old.version)) \cup {Instance(o)}]]

\* -updateRelationshipsToObject:withInstance: in each group that is in memory, with
\* -replaceObject:byObject:isTemporalMerge:error: of COGroup.
Update(inst, o, old) ==
  [g \in Objects |->
     IF inst[g] = nil \/ ~HasEqual(inst, inst[g].members, Stale(o, old.version)) THEN inst[g]
     ELSE [inst[g] EXCEPT !.members = Without(inst, @, Stale(o, old.version)) \cup {Instance(o)}]]

\* -mergeArray:intoArray:policy:
Merge(inst, existing, old) ==
  CASE policy = "old"          -> old
    [] policy = "existing"     -> existing
    [] policy = "union"        -> old \cup {r \in existing : ~HasEqual(inst, old, r)}
    [] policy = "intersection" -> {r \in old : HasEqual(inst, existing, r)}

\* -replaceObject:byObject:collectAllErrors: the instance of o by one that has
\* these references at object version v, up to the merge; the version the
\* temporal instance gets is that of the object it replaces, plus one.
Replace(inst, o, v, refs, order) ==
  LET resolved == ResolveIfGroup(inst, o, order)
      old      == resolved[o]
      swapped  == [Left(resolved, {o}) EXCEPT ![o] = [version |-> v, members |-> refs, hasFaults |-> o \in Groups]]
      linked   == Update(ResolveIfGroup(swapped, o, order), o, old)
  IN [linked EXCEPT ![o].members = IF o \in Groups THEN Merge(linked, old.members, @) ELSE @,
                    ![o].version = old.version + 1]

\* -snapshotObject:shouldIncrementObjectVersion: of an instance in memory
Snapshot(inst, o) == [is |-> "snapshot", members |-> {Written(r) : r \in inst[o].members}]

------------------------------------------------------------------------------
\* The members of each group at the end of a step; of those not in memory, the
\* members they would be loaded with.
Members(inst, o) == IF inst[o] # nil THEN Uuids(inst[o].members) ELSE Uuids(Playback(inst, o, LastVersion(o)))
View == [o \in DOMAIN Here |-> Members(instance, o)]

Init ==
  /\ history = <<>>
  /\ stored = [o \in Objects |-> <<>>]
  /\ instance = [o \in Objects |-> nil]
  /\ policy = "old"
  /\ restoring = nil
  /\ seen = <<>>

Idle == restoring = nil

\* -logRecord:objectVersion:timestamp:shouldIncrementContextVersion: with YES, after
\* the file of the next object version.
Log(o, file) ==
  /\ Len(history) < MaxVersion
  /\ stored' = [stored EXCEPT ![o] = Append(@, file)]
  /\ history' = Append(history, [found |-> Over(Entry(o, Len(stored[o])), Here), origin |-> -1])
  /\ seen' = Append(seen, View')
  /\ UNCHANGED <<policy, restoring>>

\* -insertObject: of a new object, a group without members.
Insert(o) ==
  /\ Idle /\ ~IsStored(o)
  /\ instance' = [instance EXCEPT ![o] = [version |-> 0, members |-> {}, hasFaults |-> FALSE]]
  /\ Log(o, [is |-> "snapshot", members |-> {}])

\* A careful client asks for the members of a group before it adds or removes one,
\* uses objects that belong to the context at its version, and sets the policy back
\* before it restores the context. It also removes no member that was stored as a
\* fault, though it cannot know: that one is the defect "frozen" shows.
Careful(liberty, condition) == liberty \in Liberties \/ condition

\* A recorded message that changes an object and no relationship.
Change(o) ==
  /\ Idle /\ o \in Cached
  /\ Careful("departed", o \in DOMAIN Here)
  /\ instance' = [instance EXCEPT ![o].version = @ + 1]
  /\ Log(o, [is |-> "change", members |-> {}])

\* -addMember: and -addGroup: refused if the group contains the instance.
AddMember(g, x) ==
  /\ Idle /\ {g, x} \subseteq Cached /\ <<g, x>> \in MayContain
  /\ Careful("unresolved", ~instance[g].hasFaults)
  /\ Careful("departed", {g, x} \subseteq DOMAIN Here)
  /\ ~HasEqual(instance, instance[g].members, Instance(x))
  /\ instance' = [instance EXCEPT ![g].members = @ \cup {Instance(x)}, ![g].version = @ + 1]
  /\ Log(g, [is |-> "addMember", members |-> {Instance(x)}])

\* The last snapshot of the group holds the member as a fault, which -storeObjectFromAddress:withName:
\* writes as another object: the removal of the member is not replayed on it.
StoredAsFault(g, x) ==
  LET base == Max({n \in DOMAIN stored[g] : stored[g][n].is = "snapshot"})
  IN  Fault(x) \in stored[g][base].members

\* -removeMember: and -removeGroup: refused unless the group contains the instance.
RemoveMember(g, x) ==
  /\ Idle /\ {g, x} \subseteq Cached
  /\ Careful("unresolved", ~instance[g].hasFaults)
  /\ Careful("departed", {g, x} \subseteq DOMAIN Here)
  /\ Careful("frozen", ~StoredAsFault(g, x))
  /\ HasEqual(instance, instance[g].members, Instance(x))
  /\ instance' = [instance EXCEPT ![g].members = Without(instance, @, Instance(x)), ![g].version = @ + 1]
  /\ Log(g, [is |-> "removeMember", members |-> {Instance(x)}])

\* -objectForUUID: sent by the client.
LoadObject(o) ==
  /\ Idle /\ o \notin Cached /\ IsStored(o)
  /\ Careful("departed", o \in DOMAIN Here)
  /\ instance' = Load(instance, o)
  /\ UNCHANGED <<history, stored, policy, restoring, seen>>

\* -members
AskMembers(g, order) ==
  /\ Idle /\ g \in Cached /\ instance[g].hasFaults
  /\ instance' = Resolve(instance, g, order)
  /\ UNCHANGED <<history, stored, policy, restoring, seen>>

\* -setMergePolicy:
SetPolicy(p) ==
  /\ Idle /\ p # policy
  /\ policy' = p
  /\ UNCHANGED <<history, stored, instance, restoring, seen>>

\* -objectByRestoringObject:toVersion:mergeImmediately: with YES.
RestoreObject(o, v, order) ==
  LET refs == Playback(instance, o, v) IN
  /\ Idle /\ o \in Cached /\ v <= LastVersion(o) /\ v # instance[o].version
  /\ Careful("departed", {o} \cup Uuids(refs) \subseteq DOMAIN Here)
  /\ instance' = Replace(instance, o, v, refs, order)
  /\ Log(o, Snapshot(instance', o))

\* The process stops between two operations and starts again.
Restart ==
  /\ Idle
  /\ instance' = [o \in Objects |-> nil]
  /\ policy' = "old"
  /\ UNCHANGED <<history, stored, restoring, seen>>

------------------------------------------------------------------------------
(* -_restoreToVersion:, one object at a time in the order of a dictionary; it *)
(* is not interrupted.                                                        *)

\* -discardCurrentObjectsNotYetCreatedAtVersion:forObjectVersions:
RestoreToVersion(v) ==
  /\ Idle /\ v < Len(history) /\ Len(history) < MaxVersion
  /\ Careful("merging", policy = "old")
  /\ restoring' = [to |-> v, todo |-> DOMAIN Found(v), rows |-> [o \in {} |-> 0]]
  /\ instance' = Unregister(instance, Cached \ DOMAIN Found(v))
  /\ UNCHANGED <<history, stored, policy, seen>>

\* What the step of an object leaves: the instances, its snapshot and its row.
Merged(o, inst) ==
  /\ instance' = inst
  /\ stored' = [stored EXCEPT ![o] = Append(@, Snapshot(inst, o))]
  /\ restoring' = [restoring EXCEPT !.todo = @ \ {o}, !.rows = Over(Entry(o, Len(stored[o])), @)]
  /\ UNCHANGED <<history, policy, seen>>

Restores(o) == restoring # nil /\ o \in restoring.todo

\* An object that has, in memory or on the disk, the version already.
SkipRestored(o) ==
  /\ Restores(o)
  /\ Found(restoring.to)[o] = IF o \in Cached THEN instance[o].version ELSE LastVersion(o)
  /\ restoring' = [restoring EXCEPT !.todo = @ \ {o}]
  /\ UNCHANGED <<history, stored, instance, policy, seen>>

\* -objectByRestoringObject:toVersion:mergeImmediately: on one that is in memory.
RestoreCached(o, order) ==
  LET v == Found(restoring.to)[o] IN
  /\ Restores(o) /\ o \in Cached /\ v # instance[o].version
  /\ Merged(o, Replace(instance, o, v, Playback(instance, o, v), order))

\* -objectForUUID:version: and -mergeFreshObject: on one that is not.
RestoreMissing(o) ==
  LET v == Found(restoring.to)[o] IN
  /\ Restores(o) /\ o \notin Cached /\ v # LastVersion(o)
  /\ Merged(o, [instance EXCEPT ![o] = [version   |-> LastVersion(o) + 1,
                                        members   |-> Playback(instance, o, v),
                                        hasFaults |-> o \in Groups]])

\* -resolvePendingFaultsWithinCachedObjectGraph and -logRestoreContextVersion:
RestoreEnds ==
  /\ restoring # nil /\ restoring.todo = {}
  /\ instance' = [o \in Objects |->
       IF o \notin Cached THEN nil
       ELSE [instance[o] EXCEPT !.members =
               {IF r.is = "fault" /\ r.of \in Cached THEN Instance(r.of) ELSE r : r \in @}]]
  /\ history' = Append(history, [found |-> Over(restoring.rows, Found(restoring.to)), origin |-> restoring.to])
  /\ restoring' = nil
  /\ UNCHANGED <<stored, policy>>
  /\ seen' = Append(seen, View')

Next ==
  \/ \E o \in Objects : Insert(o) \/ Change(o) \/ LoadObject(o)
  \/ \E g \in Groups, x \in Objects : AddMember(g, x) \/ RemoveMember(g, x)
  \/ \E g \in Groups, order \in Orders : AskMembers(g, order)
  \/ \E p \in Policies : SetPolicy(p)
  \/ \E o \in Objects, v \in 0..MaxVersion, order \in Orders : RestoreObject(o, v, order)
  \/ Restart
  \/ \E v \in 0..MaxVersion : RestoreToVersion(v)
  \/ \E o \in Objects : SkipRestored(o) \/ RestoreMissing(o)
  \/ \E o \in Objects, order \in Orders : RestoreCached(o, order)
  \/ RestoreEnds

Spec == Init /\ [][Next]_vars

------------------------------------------------------------------------------
(* Between two operations a group holds each of its members once, as its fault*)
(* or as the instance the context has now, never as one that was replaced or  *)
(* left the context, to which changes would be lost                           *)
(* (-updateRelationshipsToObject:withInstance:, and the warning of            *)
(* -replaceObject:byObject:isTemporalMerge:error: of COGroup).                *)
MembersAreCurrent ==
  Idle => \A g \in Cached : \A r, s \in instance[g].members :
    r.is # "stale" /\ (r.of = s.of => r = s)

(* A group that holds a fault knows it, so -members never answers one         *)
(* (-resolveFaults: "Until unresolved faults exist, -hasFaults will return    *)
(* YES"), also in the middle of a restore, when faults are resolved.          *)
FaultsFlagged ==
  \A g \in Cached : (\E r \in instance[g].members : r.is = "fault") => instance[g].hasFaults

(* The groups of every past version play back to the members they had, and    *)
(* the last version to those the client sees, whatever is in memory when they *)
(* are read.                                                                  *)
PastIsKept ==
  Idle =>
    /\ \A v \in 1..Len(history) : \A g \in DOMAIN Found(v) \cap Groups :
         Uuids(Playback(instance, g, Found(v)[g])) = seen[v][g]
    /\ history # <<>> => View = seen[Len(history)]

(* The context is a versioned graph for the relationships too: a restore of   *)
(* the context gives every group the members it had, and a change or the      *)
(* merge of one object changes the members of no other.                       *)
VG == INSTANCE VersionedGraph WITH
        graph <- IF seen = <<>> THEN [o \in {} |-> {}] ELSE Last(seen),
        past <- seen,
        origin <- [v \in DOMAIN history |-> history[v].origin]
ImplementsVersionedGraph == VG!Spec
=============================================================================
