------------------------------ MODULE MCProxy ------------------------------
(* Constants of module Proxy for TLC *)
EXTENDS Proxy, TLC

CONSTANTS c1, c2, c3

\* The first user the database knows has the uid of an area.
MCUid == {1, 10}
OneHome == {<<1, 1>>, <<10, 2>>}        \* each user in one area
BadHome == OneHome \cup {<<None, 1>>}   \* a wrong password, too
TwoHomes == BadHome \cup {<<10, 1>>}    \* and a user who goes to both areas

\* Client.cc's 102, 0, 103, 90, 203 and 0, which are stamps of the proxy too
FourStamps == [LOGIN |-> 2, SIGN_UP |-> 0, INFO |-> 3, BLACK_LIST |-> 1,
               PLAYER_LIST |-> 4, LOGOUT |-> 0]
\* The same for a proxy that has two stamps
TwoStamps == [LOGIN |-> 2, SIGN_UP |-> 0, INFO |-> 1, BLACK_LIST |-> 1,
              PLAYER_LIST |-> 1, LOGOUT |-> 0]

Clients == Permutations(Client)

=============================================================================
