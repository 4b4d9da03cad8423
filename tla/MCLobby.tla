------------------------------ MODULE MCLobby ------------------------------
(***************************************************************************)
(* Instances of Lobby for TLC: one server with one or two connections, or  *)
(* two servers that know each other, with one connection each.             *)
(***************************************************************************)
EXTENDS Lobby

CONSTANTS s1, s2, c1, c2, u1, u2

\* Topologies
OneServer  == [c \in Conn |-> s1]
NoPeer     == [s \in Server |-> {}]
EachItsOwn == [c \in Conn |-> IF c = c1 THEN s1 ELSE s2]
EachOther  == [s \in Server |-> Server \ {s}]

\* Who logs in through which connection
ThroughC1    == {c1} \X {u1, u2}
SomeoneFails == {<<c1, u1>>, <<c1, u2>>, <<c2, u2>>, <<c2, Nobody>>}
Roaming      == {<<c1, u1>>, <<c2, u2>>, <<c1, u2>>}
AtHome       == {<<c1, u1>>, <<c2, u2>>}

\* Who may black-list whom
U2BlocksU1 == {<<u2, u1>>}
NoBlock    == {}

\* What is posted
Private(n, from, to)     == [id |-> n, type |-> "private", sender |-> from, receiver |-> to]
Broadcast(n, type, from) == [id |-> n, type |-> type, sender |-> from, receiver |-> Nobody]

OnePrivate    == {Private(1, u1, u2)}
TwoPrivate    == {Private(1, u1, u2), Private(2, u1, u2)}
OneServerCast == {Broadcast(2, "server", u1)}
=============================================================================
