--------------------------- MODULE VersionedGraph ---------------------------
(* What an object context promises about its objects (the class and -version  *)
(* comments of CoreObject/COObjectContext.m): a graph of objects of which     *)
(* every version, once reached, stays available for ever and unchanged, to    *)
(* which the whole graph or one object can be taken back at any time, and     *)
(* which tells how it came to each version. A version is a position in past;  *)
(* version 0 is the empty graph.                                              *)
EXTENDS Integers, Sequences

CONSTANT Objects

VARIABLES
  graph,   \* the content of each object that is in the graph
  past,    \* the graph at each version
  origin   \* for each version, the version the graph was taken back to, -1 for a change

vars == <<graph, past, origin>>

Nothing == [o \in {} |-> {}]
At(v) == IF v = 0 THEN Nothing ELSE past[v]

\* h is g but for o, which is in h.
ChangesOnly(o, g, h) ==
  /\ DOMAIN h = DOMAIN g \cup {o}
  /\ \A p \in DOMAIN g \ {o} : h[p] = g[p]

\* No version so far gave o the content it has in g.
IsNew(o, g) == \A v \in DOMAIN past : o \in DOMAIN past[v] => past[v][o] # g[o]

Init == graph = Nothing /\ past = <<>> /\ origin = <<>>

\* An object enters the graph or receives a message: one more version.
Change(o) ==
  /\ ChangesOnly(o, graph, graph')
  /\ IsNew(o, graph')
  /\ past' = Append(past, graph')
  /\ origin' = Append(origin, -1)

\* The first message of an object is preceded by a version of its own for the
\* object as it was.
FirstChange(o) ==
  /\ o \notin DOMAIN graph
  /\ Len(past') = Len(past) + 2
  /\ LET base == past'[Len(past) + 1] IN
       /\ ChangesOnly(o, graph, base) /\ ChangesOnly(o, base, graph')
       /\ IsNew(o, base) /\ IsNew(o, graph') /\ base[o] # graph'[o]
       /\ past' = past \o <<base, graph'>>
  /\ origin' = origin \o <<-1, -1>>

\* One object is taken back to a content it had, or saved as it is.
Recall(o) ==
  /\ ChangesOnly(o, graph, graph')
  /\ ~IsNew(o, graph')
  /\ past' = Append(past, graph')
  /\ origin' = Append(origin, -1)

\* The whole graph is taken back to version v, which makes a new version.
RestoreGraph(v) ==
  /\ graph' = At(v)
  /\ past' = Append(past, At(v))
  /\ origin' = Append(origin, v)

Next ==
  \/ \E o \in Objects : Change(o) \/ FirstChange(o) \/ Recall(o)
  \/ \E v \in 0..Len(past) : RestoreGraph(v)

Spec == Init /\ [][Next]_vars
=============================================================================
