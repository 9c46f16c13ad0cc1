--------------------------- MODULE MCObjectGraph ----------------------------
(* Instances of ObjectGraph for TLC. *)
EXTENDS ObjectGraph

\* A group g that may contain another one, h, and an object both may contain.
Pairs == {<<"g", "x">>, <<"h", "x">>, <<"g", "h">>}

\* One group with one possible member, for longer histories.
OnePair == {<<"g", "x">>}
=============================================================================
