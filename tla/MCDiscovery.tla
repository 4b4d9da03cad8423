---------------------------- MODULE MCDiscovery ----------------------------
(* Instances of Discovery for TLC: two chat servers *)
EXTENDS Discovery

CONSTANTS s1, s2

EachItsOwn == [s \in Server |-> IF s = s1 THEN 1 ELSE 2]
BothTheSame == [s \in Server |-> 1]
=============================================================================
