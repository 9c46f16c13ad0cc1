---------------------------- MODULE MCLaunchQueue ----------------------------
(* Instances of LaunchQueue: two applications and a tool. *)
EXTENDS LaunchQueue

CONSTANTS a, b, t

At(x, y, z) == [u \in Task |-> IF u = a THEN x ELSE IF u = b THEN y ELSE z]

\* One group, or an application after the others; all tasks OnStart, or all but one; one
\* application that cannot be executed, or none.
AllLayouts ==
    [priority : {At(1, 1, 1), At(1, 2, 1)},
     onStart : {Task, {a, t}, {b, t}},
     raising : {{}, {a}}]

\* As above, everything can be executed and there is one group.
PlainLayouts == [priority : {At(1, 1, 1)}, onStart : {Task, {a, t}, {b, t}}, raising : {{}}]

AllFiles == {Task, {a, t}}

=============================================================================
