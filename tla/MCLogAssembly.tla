--------------------------- MODULE MCLogAssembly ---------------------------
(***************************************************************************)
(* Instances of LogAssembly for TLC.                                       *)
(***************************************************************************)
EXTENDS LogAssembly

Whole == <<"[", "x", "]", " ", "[", "in", "fo", "]", " ", "[", "x", "]",
           " ", "[", "x", "]">>

(* A whole log with more fields after the message.                         *)
WithFields == Whole \o <<" ", "[", "x", "]">>

(* A log cut in the time, in the level, between the level's halves, in the *)
(* position and in the message; the rest of a level and of a message; a    *)
(* line of text; an empty line; a log whose level comes third.             *)
MCLineKinds ==
    {Whole, WithFields}
    \cup {SubSeq(Whole, 1, n) : n \in {2, 5, 6, 8, 11, 15}}
    \cup {SubSeq(Whole, n, 16) : n \in {7, 15}}
    \cup {<<"x">>, <<>>,
          <<"[", "x", "]", " ", "[", "x", "]", " ", "[", "in", "fo", "]",
            " ", "[", "x", "]">>}
===========================================================================
