----------------------------- MODULE AsyncObject -----------------------------
(***************************************************************************)
(* What an object with a thread of its own promises its client             *)
(* (EtoileThread/README, ETThreadedObject.h:42-54): messages are performed *)
(* exactly once, in the order they were sent; a message whose return type  *)
(* is concrete (neither void nor an object) holds its sender until it has  *)
(* been performed, any other message returns at once; and nothing is       *)
(* performed once the object is destroyed, which the client may do while   *)
(* messages wait.                                                          *)
(***************************************************************************)
EXTENDS Naturals, Sequences

CONSTANTS Kinds,       \* the return types of messages
          MaxMessages  \* bound on the messages sent

VARIABLES sent,       \* the messages sent, in order
          executed,   \* the messages performed, in order
          awaited,    \* number of the message its sender waits for, 0 for none
          destroyed   \* the object and its thread are gone

vars == <<sent, executed, awaited, destroyed>>

Init == /\ sent = <<>>
        /\ executed = <<>>
        /\ awaited = 0
        /\ destroyed = FALSE

(* The client sends a message; only a concrete return type makes it wait.  *)
Send(kind) ==
  /\ ~destroyed /\ awaited = 0
  /\ Len(sent) < MaxMessages
  /\ sent' = Append(sent, kind)
  /\ awaited' = IF kind = "concrete" THEN Len(sent) + 1 ELSE 0
  /\ UNCHANGED <<executed, destroyed>>

(* The object's thread performs the oldest message not performed yet.      *)
Execute ==
  /\ ~destroyed
  /\ Len(executed) < Len(sent)
  /\ executed' = Append(executed, sent[Len(executed) + 1])
  /\ UNCHANGED <<sent, awaited, destroyed>>

(* The client gets the concrete value it waits for.                        *)
Return ==
  /\ awaited # 0
  /\ Len(executed) >= awaited
  /\ awaited' = 0
  /\ UNCHANGED <<sent, executed, destroyed>>

(* The client releases the object.                                         *)
Destroy ==
  /\ ~destroyed /\ awaited = 0
  /\ destroyed' = TRUE
  /\ UNCHANGED <<sent, executed, awaited>>

Next == \/ \E kind \in Kinds : Send(kind)
        \/ Execute
        \/ Return
        \/ Destroy

Spec == Init /\ [][Next]_vars
==============================================================================
