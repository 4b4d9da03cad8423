------------------------------- MODULE Client -------------------------------
(***************************************************************************)
(* The client: two coroutines of one thread.  output_func reads a command  *)
(* from the keyboard and sends a request; input_func reads what the proxy  *)
(* sends, answers and notifications, in the order in which they come (that *)
(* frames arrive whole is module Framing's subject).                       *)
(*                                                                         *)
(* The servers are modelled by what they do for one client: what it sends  *)
(* is handled in order, but a LOGIN is granted or refused when Redis has   *)
(* replied, in each area in the order of the LOGINs.                       *)
(*                                                                         *)
(* The process ends when the proxy closes the connection and on lines that *)
(* the code indexes past their end (no word, no text, no colon); then a    *)
(* behaviour ends.  What is only shown (g_area, user_info, texts) is left  *)
(* out, and so are commands that only print an error.                      *)
(*                                                                         *)
(* An operator XMutant is a wrong X, put in its place to see that the      *)
(* properties notice; nothing else uses it.                                *)
(***************************************************************************)
EXTENDS Integers, SequencesExt

CONSTANTS
    Account,    \* uids of those who use this client
    Speaker,    \* uids of those who write to it
    MaxOpen,    \* bound: requests and frames that are under way
    None

\* Redis counts uids from 1, so that what is shown of them has a sign for the
\* first eight; the others here are shown with one digit or two, the case that
\* Reversed states.
ClientAssumption == Account \subseteq 1..108 /\ Speaker \subseteq 1..108

VARIABLES
    g_uid,
    screen,     \* the last "player:<number>" that was shown, and who it is
    requests,   \* requests the servers have not handled
    pending,    \* LOGINs that wait for Redis
    sessions,   \* whom the servers have logged in for this client
    frames,     \* what is on its way to the client
    crossed     \* a LOGOUT was sent while a LOGIN had not been answered

servers == <<requests, pending, sessions, frames>>
vars    == <<g_uid, screen, servers, crossed>>

Area  == {1, 2}
Nouid == -1

Init ==
    /\ g_uid = Nouid /\ screen = None
    /\ requests = <<>> /\ pending = <<>> /\ sessions = {} /\ frames = <<>>
    /\ crossed = FALSE

Open == Len(requests) + Len(pending) + Len(frames)

-----------------------------------------------------------------------------
(* Names: a player is shown as "player:" and uid - 9, and a name that is     *)
(* typed is read from its last character to its first, until stoi meets one  *)
(* that is not a digit: of "player:-8" that is 8.                            *)

Shown(uid) == uid - 9

Reversed(n) == CASE n < 0  -> - n
                 [] n \in 0..9 -> n
                 [] n > 9  -> 10 * (n % 10) + n \div 10

typedMutant(n) == Reversed(n)                    \* no + 9
typed(n) == Reversed(n) + 9

-----------------------------------------------------------------------------
(* Commands: output_func and what it calls *)

Request(type, uid, to) ==
    /\ Open < MaxOpen
    /\ requests' = Append(requests, [type |-> type, uid |-> uid, to |-> to])
    /\ UNCHANGED <<screen, pending, sessions, frames>>

\* A user who has logged in is told so, and logged in again all the same;
\* the uid of the header is the area.
Login ==
    /\ \E u \in Account \cup {None}, area \in Area : Request("LOGIN", area, u)
    /\ UNCHANGED <<g_uid, crossed>>

\* These are sent whether or not anybody is logged in.
SignUp        == Request("OTHER", Nouid, None) /\ UNCHANGED <<g_uid, crossed>>
Info          == Request("OTHER", g_uid, None) /\ UNCHANGED <<g_uid, crossed>>
GetPlayerList == Request("OTHER", g_uid, None) /\ UNCHANGED <<g_uid, crossed>>

\* AddBlackList and DelBlackList, of the name that is on the screen
BlackList ==
    /\ screen # None
    /\ Request("BLACK_LIST", g_uid, typed(screen.name))
    /\ UNCHANGED <<g_uid, crossed>>

Chat ==
    /\ screen # None /\ g_uid >= 0
    /\ Request("CHAT", g_uid, typed(screen.name))
    /\ UNCHANGED <<g_uid, crossed>>

\* Broadcast and BroadcastAll
Broadcast ==
    /\ g_uid # Nouid
    /\ Request("CHAT", g_uid, None)
    /\ UNCHANGED <<g_uid, crossed>>

Unanswered ==
    \/ pending # <<>>
    \/ \E i \in DOMAIN requests : requests[i].type = "LOGIN"
    \/ \E i \in DOMAIN frames : frames[i].type = "LOGIN"

LoggedOutMutant == UNCHANGED g_uid               \* goes on as that user
LoggedOut == g_uid' = Nouid
Logout ==
    /\ g_uid # Nouid
    /\ Request("LOGOUT", g_uid, None)
    /\ LoggedOut
    /\ crossed' = (crossed \/ Unanswered)

-----------------------------------------------------------------------------
(* The servers; the answers to requests other than LOGIN change nothing of   *)
(* what is modelled here.                                                    *)

Handle ==
    LET r == Head(requests)
    IN  /\ requests # <<>>
        /\ requests' = Tail(requests)
        /\ pending' = IF r.type = "LOGIN" THEN Append(pending, r) ELSE pending
        /\ sessions' = IF r.type = "LOGOUT" THEN sessions \ {r.uid} ELSE sessions
        /\ UNCHANGED <<g_uid, screen, frames, crossed>>

\* None stands for a bad name or password.
Grant ==
    \E i \in DOMAIN pending :
        LET r == pending[i]
        IN  /\ \A j \in 1..(i - 1) : pending[j].uid # r.uid
            /\ pending' = RemoveAt(pending, i)
            /\ sessions' = sessions \cup ({r.to} \ {None})
            /\ frames' = Append(frames, [type |-> "LOGIN", uid |-> r.to])
            /\ UNCHANGED <<g_uid, screen, requests, crossed>>

\* Somebody's message to a user who is logged in
Notify ==
    /\ sessions # {} /\ Open < MaxOpen
    /\ \E u \in Speaker \cup Account, type \in {"PRIVATE", "BROADCAST"} :
           frames' = Append(frames, [type |-> type, uid |-> u])
    /\ UNCHANGED <<g_uid, screen, requests, pending, sessions, crossed>>

-----------------------------------------------------------------------------
(* input_func *)

\* The answer with stamp 102
HandleResponse(f) ==
    /\ f.type = "LOGIN"
    /\ g_uid' = IF f.uid = None THEN g_uid ELSE f.uid
    /\ UNCHANGED screen

\* A broadcast of one's own is not shown.
HandleNotify(f) ==
    /\ f.type # "LOGIN"
    /\ screen' = IF f.type = "BROADCAST" /\ f.uid = g_uid THEN screen
                 ELSE [name |-> Shown(f.uid), who |-> f.uid]
    /\ UNCHANGED g_uid

Receive ==
    /\ frames # <<>>
    /\ frames' = Tail(frames)
    /\ HandleResponse(Head(frames)) \/ HandleNotify(Head(frames))
    /\ UNCHANGED <<requests, pending, sessions, crossed>>

-----------------------------------------------------------------------------
Next ==
    \/ Login \/ SignUp \/ Info \/ GetPlayerList \/ BlackList \/ Chat \/ Broadcast \/ Logout
    \/ Receive
    \/ Handle \/ Grant \/ Notify

Spec == Init /\ [][Next]_vars

-----------------------------------------------------------------------------
(* Properties *)

Sends(types) == Len(requests') > Len(requests) /\ Last(requests').type \in types

\* What the client sends in somebody's name it sends for one whom the servers
\* have logged in for it, unless a LOGOUT was sent while a LOGIN had not been
\* answered: the answer then makes the client go on as a user whom they may
\* have logged out since (Client.cc 45-83, 186-200, 337-349).
SpeaksForItself ==
    [][Sends({"CHAT", "LOGOUT"}) /\ ~ crossed => Last(requests').uid \in sessions]_vars

\* A message to, or a black list entry for, a name as it was shown is about
\* who it was shown for exactly if the number has no sign and is the same
\* backwards, so never for the first eight users
\* (Client.cc 125-137, 239-247, 393).
Addressed ==
    [][Sends({"CHAT", "BLACK_LIST"}) /\ Last(requests').to # None
           => (Last(requests').to = screen.who
                <=> screen.name \in 0..9 \/ screen.name % 11 = 0)]_vars

=============================================================================
