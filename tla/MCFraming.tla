----------------------------- MODULE MCFraming -----------------------------
(***************************************************************************)
(* Streams for TLC.                                                        *)
(***************************************************************************)
EXTENDS Framing

\* Bodies that are empty, shorter than a header, longer, and as long as one
MixedBody  == [i \in 1..4 |-> CASE i = 1 -> 0 [] i = 2 -> 3 [] i = 3 -> 20 [] i = 4 -> 16]
MixedStart == [i \in 1..5 |-> CASE i = 1 -> 0 [] i = 2 -> 16 [] i = 3 -> 35 [] i = 4 -> 71 [] i = 5 -> 103]

\* Cut anywhere, and between frames only
Anywhere == 1..103
Between  == {16, 35, 71, 103}

EveryLoop == {"strip", "keep", "chat", "data", "client"}
JustKeep  == {"keep"}

\* Three of the loops only bear cuts between frames.
Bearable == [k \in EveryLoop |-> IF k \in {"strip", "chat"} THEN Anywhere ELSE Between]
KeepCut  == [k \in JustKeep |-> Anywhere]
=============================================================================
