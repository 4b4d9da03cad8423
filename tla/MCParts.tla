------------------------------ MODULE MCParts ------------------------------
(***************************************************************************)
(* One instance for the parts that are small and have nothing to do with   *)
(* each other: the loops of Framing, a Hiredis, a message, the client and  *)
(* the load generators.  The first state says which part moves; the others *)
(* stay in a first state of theirs.                                        *)
(***************************************************************************)
EXTENDS MCFraming, Sequences, TLC

CONSTANTS set, lrange, del, get, subscribe, None

VARIABLES
    part,
    context_, channel_, revents, socket, obuf, sent, replies, callbacks, sub,
    live, issued, pushes, called, process, misuse,
    type, m, expected, wire, stage, hops, stored, ok, copy,
    g_uid, screen, requests, pending, sessions, frames, crossed,
    program, state, timers, client_index, request_count, success_login, bad_login,
    conn, asked, inbox, cut, due, messages, received, foreign, finish_count

theHiredis == <<context_, channel_, revents, socket, obuf, sent, replies, callbacks, sub,
                live, issued, pushes, called, process, misuse>>
theMessage == <<type, m, expected, wire, stage, hops, stored, ok, copy>>
theClient  == <<g_uid, screen, requests, pending, sessions, frames, crossed>>
theBench   == <<program, state, timers, client_index, request_count, success_login, bad_login,
                conn, asked, inbox, cut, due, messages, received, foreign, finish_count>>

-----------------------------------------------------------------------------
(* A Hiredis with the commands of a server: handleOfflineMessage issues the  *)
(* DEL; a lost SUBSCRIBE ends the process.                                   *)

Command == {set, lrange, del, get, subscribe}
Kind    == [c \in Command |-> CASE c \in {set, del} -> "forget"
                                [] c = subscribe    -> "keep"
                                [] OTHER            -> "read"]
Follow  == [c \in Command |-> IF c = lrange THEN del ELSE None]

R == INSTANCE HiRedis WITH Vital <- {subscribe}, MaxPush <- 2

ASSUME CommandsIssuedOnce == R!CommandAssumption

-----------------------------------------------------------------------------
(* Messages: texts with a zero byte and texts that are not UTF-8, lengths    *)
(* and numbers of one and of two bytes, negative numbers                     *)

A     == <<65>>
Texts == {A, <<65, 0, 66>>, <<200>>}

Values == [
    PlayerInfo |-> <<{130, -1}, Texts, {A}, {8000}, {2}, {1}, {1}>>,
    Message    |-> <<{2}, {8000}, {130, -1}, {-8192}, Texts>>,
    ServerInfo |-> <<{A}, {8000}, {1, 2}, {1}>>]

Changes == [PlayerInfo |-> {<<1, 7>>, <<4, 5>>}, Message |-> {<<2, 127>>}]

Players  == {<<0, <<>>, <<>>, 0, 0, 0, 0>>, <<1, A, A, 1, 1, 1, 1>>}
Chats    == {<<0, 0, 0, 0, <<>>>>, <<1, 1, 1, 1, A>>, <<0, 0, 300, -5, <<200>>>>}
Olds     == [
    PlayerInfo  |-> Players,
    PlayerList  |-> Players \cup {<<128, <<200>>, A, 0, 0, 0, -3>>},
    Message     |-> Chats,
    MessageList |-> Chats,
    ServerInfo  |-> {<<A, 1, 1, 1>>}]

M == INSTANCE Messages WITH
    Tails <- {<<>>, A, <<200>>}, MaxHops <- 3, MaxList <- 2

-----------------------------------------------------------------------------
(* The client, used by a player whose number reads the same backwards and by *)
(* one whose does not, written to by one whose does and by the first user;   *)
(* two logins in a window of one                                             *)

C == INSTANCE Client WITH Account <- {10, 21}, Speaker <- {1, 20}, MaxOpen <- 2

ASSUME NumberedPlayers == C!ClientAssumption

B == INSTANCE Bench WITH
    client_count <- 2, Window <- 1, messageLimit <- 2, MaxForeign <- 3

ASSUME CountsAndLimits == B!BenchAssumption

-----------------------------------------------------------------------------
MCInit ==
    /\ part \in {"framing", "hiredis", "message", "client", "bench"}
    /\ Init /\ (part # "framing" => kind = "strip")
    /\ R!Init
    /\ M!Init /\ (part # "message" => type = "Message")
    /\ C!Init
    /\ B!Init /\ (part # "bench" => program = "signup")

MCNext ==
    /\ UNCHANGED part
    /\ \/ part = "framing" /\ Next /\ UNCHANGED <<theHiredis, theMessage, theClient, theBench>>
       \/ part = "hiredis" /\ R!Next /\ UNCHANGED <<vars, theMessage, theClient, theBench>>
       \/ part = "message" /\ M!Next /\ UNCHANGED <<vars, theHiredis, theClient, theBench>>
       \/ part = "client" /\ C!Next /\ UNCHANGED <<vars, theHiredis, theMessage, theBench>>
       \/ part = "bench" /\ B!Next /\ UNCHANGED <<vars, theHiredis, theMessage, theClient>>

MCSpec ==
    /\ MCInit /\ [][MCNext]_<<part, vars, theHiredis, theMessage, theClient, theBench>>
    /\ WF_vars(Loop)
    /\ R!Fairness
    /\ part = "bench" => B!Fairness

-----------------------------------------------------------------------------
(* Properties: those of Framing, and                                         *)

\* HiRedis: see Guarded there.
Guarded == R!Guarded

\* HiRedis: see InOrder there.
InOrder == R!InOrder

\* Messages: see Intact there.
Intact == M!Intact

\* Client: see SpeaksForItself there.
SpeaksForItself == C!SpeaksForItself

\* Client: see Addressed there.
Addressed == C!Addressed

\* Bench: see Measured there.
Measured == B!Measured

\* Bench: see Finishes there.
Finishes == part = "bench" => B!Finishes

=============================================================================
