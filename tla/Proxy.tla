------------------------------- MODULE Proxy -------------------------------
(***************************************************************************)
(* One thread of the proxy: its ThreadEnvironment, the ProxyParser of each *)
(* client connection, and the connections to the chat server of each area  *)
(* and to the database server.  Threads share nothing, so one is enough.   *)
(*                                                                         *)
(* The proxy gives a login or sign-up request a stamp of its own and finds *)
(* the client again by the stamp of the answer; all other answers and chat *)
(* messages are routed by the uid in their header, and requests by the     *)
(* area in which that uid logged in.  The stamps of other requests are the *)
(* client's own and the answer to a failed LOGIN has the area for its uid, *)
(* so that numbers may meet that do not belong together.                   *)
(*                                                                         *)
(* The chat servers are modelled by how they answer, and one ends when it  *)
(* is asked for a user it does not have: see module Lobby.                 *)
(*                                                                         *)
(* An operator XMutant is a wrong X, put in its place to see that the      *)
(* properties notice; nothing else uses it.                                *)
(***************************************************************************)
EXTENDS Integers, Sequences, FiniteSets

CONSTANTS
    Client,         \* TCP connections from clients
    Uid,            \* users, whom the database counts from 1: areas may be among them
    Area,           \* {1, 2}: a LOGIN request has its area in header.uid
    Home,           \* bound: the (user, area) pairs clients log in with; no user
                    \* for a wrong name or password
    StampMax,       \* INT32_MAX
    ClientStamp,    \* the stamp that a client puts into each kind of request
    MaxLogin,       \* bound: LOGIN and SIGN_UP requests in a behaviour
    MaxTalk,        \* bound: other requests and chat messages in a behaviour
    ClientLogout,   \* whether clients send LOGOUT before they close
    Overlap,        \* whether a user may log in while logged in elsewhere
    Mixed,          \* whether INFO and SIGN_UP are open together at the database
    Impatient,      \* whether a client acts, or goes, while a request of its is
                    \* unanswered, or asks when it is not logged in
    None            \* no client, no request, no frame, no user

Key   == Uid \cup Area      \* what the maps by uid are indexed with
Stamp == 1..StampMax
Kind  == {"LOGIN", "LOGOUT", "SIGN_UP", "INFO", "BLACK_LIST", "PLAYER_LIST"}

ASSUME ProxyAssumption ==
    /\ Area = {1, 2}
    /\ Uid \subseteq Nat \ {0}
    /\ Home \in SUBSET ((Uid \cup {None}) \X Area)
    /\ StampMax \in Nat \ {0}
    /\ ClientStamp \in [Kind -> Nat]
    /\ ClientStamp["LOGIN"] \notin {ClientStamp["SIGN_UP"], ClientStamp["INFO"]}
    /\ MaxLogin \in Nat /\ MaxTalk \in Nat
    /\ {ClientLogout, Overlap, Mixed, Impatient} \subseteq BOOLEAN
    /\ None \notin Client \cup Nat \cup [client : Client, area : Area]

VARIABLES
    alive,              \* the proxy's process runs
    cstate,             \* state of a client's connection
    client_state_,      \* ProxyParser::client_state_
    player_uid,         \* ProxyParser::player_uid; None while it is not set
    login_clients,      \* weak pointers to clients, by uid
    user_info,          \* areas, by uid
    login_requests,     \* [client, area], by stamp
    sign_up_requests,   \* clients, by stamp
    current_stamp_,
    chat_server,        \* chat_server_area_1 and _2: whether not null
    toChat,             \* requests on their way to a chat server
    fromChat,           \* answers and messages on their way from one
    data, parsed,       \* requests open at the database, the first ones parsed
    serving,            \* serving[a]: the chat server of area a runs
    online,             \* online[a]: the users it has
    g_uid,              \* Client.cc: who the client believes it is
    granted,            \* the users whose password a client gave
    misled,             \* the uids a client is registered for by mistake
    late,               \* the clients registered when they were no longer up
    sent,               \* what this step wrote to a client
    asked, talked       \* requests so far

parsers  == <<client_state_, player_uid>>
requests == <<login_requests, sign_up_requests, current_stamp_>>
routes   == <<login_clients, user_info, misled, late>>
database == <<data, parsed>>
servers  == <<serving, online, granted>>
bounds   == <<asked, talked>>
vars == <<alive, cstate, parsers, routes, requests, chat_server, toChat, fromChat,
          database, servers, g_uid, sent, bounds>>

-----------------------------------------------------------------------------
(* A frame is a header and what the body is about.  user, from: whose      *)
(* password a LOGIN has, and which client asked; the proxy sees neither.   *)

(* BLACK_LIST stands for ADD_ and DEL_BLACK_LIST; a client that is told no *)
(* uid takes 0 for its own.                                                *)

Frame == [type : Kind \cup {"CHAT", "answer", "refused"},
          uid : Key \cup {0, None}, stamp : Nat,
          user : Uid \cup {None}, from : Client \cup {None}]

TypeOK ==
    /\ alive \in BOOLEAN
    /\ cstate \in [Client -> {"new", "up", "closing", "gone"}]
    /\ client_state_ \in [Client -> {"NOT_LOGIN", "LOGIN"}]
    /\ player_uid \in [Client -> Key \cup {None}]
    /\ login_clients \in [Key -> Client \cup {None}]
    /\ user_info \in [Key -> Area \cup {None}]
    /\ login_requests \in [Stamp -> [client : Client, area : Area] \cup {None}]
    /\ sign_up_requests \in [Stamp -> Client \cup {None}]
    /\ current_stamp_ \in Stamp
    /\ chat_server \in [Area -> BOOLEAN]
    /\ toChat \in [Area -> Seq(Frame)]
    /\ fromChat \in [Area -> Seq(Frame)]
    /\ data \in Seq(Frame)
    /\ parsed \in 0..Len(data)
    /\ serving \in [Area -> BOOLEAN]
    /\ online \in [Area -> SUBSET Uid]
    /\ g_uid \in [Client -> Uid \cup {0, None}]
    /\ granted \in [Client -> SUBSET Uid]
    /\ misled \in [Client -> SUBSET Key]
    /\ late \in SUBSET Client
    /\ sent \in [to : Client, frame : Frame] \cup {None}
    /\ asked \in 0..MaxLogin
    /\ talked \in 0..MaxTalk

Init ==
    /\ alive = TRUE
    /\ cstate = [c \in Client |-> "new"]
    /\ client_state_ = [c \in Client |-> "NOT_LOGIN"]
    /\ player_uid = [c \in Client |-> None]
    /\ login_clients = [k \in Key |-> None]
    /\ user_info = [k \in Key |-> None]
    /\ login_requests = [n \in Stamp |-> None]
    /\ sign_up_requests = [n \in Stamp |-> None]
    /\ current_stamp_ \in Stamp        \* newChatClient takes one for every server
    /\ chat_server = [a \in Area |-> TRUE]
    /\ toChat = [a \in Area |-> <<>>]
    /\ fromChat = [a \in Area |-> <<>>]
    /\ data = <<>>
    /\ parsed = 0
    /\ serving = [a \in Area |-> TRUE]
    /\ online = [a \in Area |-> {}]
    /\ g_uid = [c \in Client |-> None]
    /\ granted = [c \in Client |-> {}]
    /\ misled = [c \in Client |-> {}]
    /\ late = {}
    /\ sent = None
    /\ asked = 0
    /\ talked = 0

-----------------------------------------------------------------------------
(* Helpers *)

Up(c) == alive /\ cstate[c] = "up"

\* Whether a request of the client or an answer is on its way; clients may be
\* held to wait for it.
Has(q, c)  == \E i \in DOMAIN q : q[i].from = c
Busy(c)    == Has(data, c) \/ \E a \in Area : Has(toChat[a], c) \/ Has(fromChat[a], c)
MayAct(c)  == Impatient \/ ~ Busy(c)

\* weak_ptr::lock
Locks(c) == cstate[c] # "gone"

\* TcpConnection::send, which does nothing once the connection is closing
Send(c, f) == sent' = IF cstate[c] = "up" THEN [to |-> c, frame |-> f] ELSE None

\* A null pointer is dereferenced.
Die == /\ alive' = FALSE
       /\ sent' = None
       /\ UNCHANGED <<parsers, routes, requests>>

\* ThreadEnvironment::getStamp
getStampMutant == current_stamp_                          \* not incremented
WrapMutant == current_stamp_ + 1                          \* no end
getStamp == IF current_stamp_ = StampMax THEN 1 ELSE current_stamp_ + 1

\* unordered_map::insert: a key that is there keeps its value
Insert(map, k, v) == [map EXCEPT ![k] = IF @ = None THEN v ELSE @]

\* chat_server_area_<a>->connection()->send
ToServer(a, f) == toChat' = [toChat EXCEPT ![a] = IF serving[a] THEN Append(@, f) ELSE @]

-----------------------------------------------------------------------------
(* Clients: proxy.cc's callbacks *)

Connect(c) ==
    /\ alive /\ cstate[c] = "new"
    /\ cstate' = [cstate EXCEPT ![c] = "up"]
    /\ sent' = None
    /\ UNCHANGED <<alive, parsers, routes, requests, chat_server, toChat, fromChat,
                   database, servers, g_uid, bounds>>

\* The area a client's LOGOUT goes to: 2 unless user_info says 1.
AreaOfMutant(u) == 1                                      \* not looked up
AreaOf(u) == IF user_info[u] = 1 THEN 1 ELSE 2

\* login_clients.erase
EraseMutant(u) == [k \in Key |-> None]                     \* clear()
ForgetMutant(u) == login_clients                          \* left out
Erase(u) == [login_clients EXCEPT ![u] = None]

Disconnect(c) ==
    LET u == player_uid[c]
    IN  /\ Up(c) /\ MayAct(c)
        /\ cstate' = [cstate EXCEPT ![c] = "closing"]
        /\ \/ /\ client_state_[c] = "NOT_LOGIN"
              /\ sent' = None
              /\ UNCHANGED <<alive, parsers, routes, requests, toChat>>
           \/ /\ client_state_[c] = "LOGIN"
              /\ IF chat_server[AreaOf(u)]
                 THEN /\ login_clients' = Erase(u)
                      /\ ToServer(AreaOf(u), [type |-> "LOGOUT", uid |-> u, stamp |-> 0,
                                              user |-> None, from |-> c])
                      /\ sent' = None
                      /\ UNCHANGED <<alive, parsers, user_info, misled, late, requests>>
                 ELSE Die /\ UNCHANGED toChat
        /\ UNCHANGED <<chat_server, fromChat, database, servers, g_uid, bounds>>

\* TcpConnection::connectDestroyed
Destroy(c) ==
    /\ cstate[c] = "closing"
    /\ cstate' = [cstate EXCEPT ![c] = "gone"]
    /\ sent' = None
    /\ UNCHANGED <<alive, parsers, routes, requests, chat_server, toChat, fromChat,
                   database, servers, g_uid, bounds>>

-----------------------------------------------------------------------------
(* Requests: ProxyParser *)

\* An account that some client is logged in or logging in with
Engaged(u) ==
    \/ \E c \in Client : cstate[c] = "up" /\ u \in granted[c]
    \/ \E a \in Area : \E i \in DOMAIN toChat[a] : toChat[a][i].user = u

Refuses(c) == client_state_[c] # "NOT_LOGIN"

\* Client.cc: Login, for area a with u's password, or a wrong one.  It says
\* "already login" and goes on.
Asks(u, a) == <<u, a>> \in Home /\ (u # None /\ Engaged(u) => Overlap)

\* ProxyParser::parseLogin.  A client that is logged in is refused.
Login(c, u, a) ==
    LET f == [type |-> "LOGIN", uid |-> a, stamp |-> getStamp, user |-> u, from |-> c]
    IN  /\ Up(c) /\ MayAct(c) /\ asked < MaxLogin
        /\ Asks(u, a)
        /\ asked' = asked + 1
        /\ \/ /\ Refuses(c)
              /\ Send(c, [f EXCEPT !.type = "refused", !.stamp = ClientStamp["LOGIN"]])
              /\ UNCHANGED <<alive, parsers, routes, requests, toChat>>
           \/ /\ ~ Refuses(c) /\ chat_server[a]
              /\ current_stamp_' = getStamp
              /\ login_requests' = Insert(login_requests, getStamp, [client |-> c, area |-> a])
              /\ ToServer(a, f)
              /\ sent' = None
              /\ UNCHANGED <<alive, parsers, routes, sign_up_requests>>
           \/ /\ ~ Refuses(c) /\ ~ chat_server[a]
              /\ Die
              /\ UNCHANGED toChat
        /\ UNCHANGED <<cstate, chat_server, fromChat, database, servers, g_uid, talked>>

Joins(type) == Mixed \/ \A i \in DOMAIN data : data[i].type = type

\* ProxyParser::parseSignUp.  Clients send uid -1.
SignUp(c) ==
    LET f == [type |-> "SIGN_UP", uid |-> None, stamp |-> getStamp, user |-> None, from |-> c]
    IN  /\ Up(c) /\ MayAct(c) /\ asked < MaxLogin /\ Joins("SIGN_UP")
        /\ asked' = asked + 1
        /\ IF Refuses(c)
           THEN /\ Send(c, [f EXCEPT !.type = "refused", !.stamp = ClientStamp["SIGN_UP"]])
                /\ UNCHANGED <<requests, data>>
           ELSE /\ current_stamp_' = getStamp
                /\ sign_up_requests' = Insert(sign_up_requests, getStamp, c)
                /\ data' = Append(data, f)
                /\ sent' = None
                /\ UNCHANGED login_requests
        /\ UNCHANGED <<alive, cstate, parsers, routes, chat_server, toChat, fromChat,
                       parsed, servers, g_uid, talked>>

\* ProxyParser::parseInfo: as it is to the database
Info(c) ==
    /\ Up(c) /\ MayAct(c) /\ talked < MaxTalk /\ Joins("INFO")
    /\ g_uid[c] # None \/ Impatient
    /\ talked' = talked + 1
    /\ data' = Append(data, [type |-> "INFO", uid |-> g_uid[c], user |-> None,
                             stamp |-> ClientStamp["INFO"], from |-> c])
    /\ sent' = None
    /\ UNCHANGED <<alive, cstate, parsers, routes, requests, chat_server, toChat,
                   fromChat, parsed, servers, g_uid, asked>>

\* Client.cc: Logout, which forgets the user, and AddBlackList, DelBlackList
\* and GetPlayerList, which do not ask whether there is one.
Commands(c, type) ==
    \/ /\ type = "LOGOUT" /\ ClientLogout
       /\ g_uid[c] # None
       /\ g_uid' = [g_uid EXCEPT ![c] = None]
    \/ /\ type \in {"BLACK_LIST", "PLAYER_LIST"}
       /\ g_uid[c] # None \/ Impatient
       /\ UNCHANGED g_uid

\* ProxyParser::parseNormalRequest, by the area that user_info has for the
\* uid of the header.
Normal(c, type) ==
    LET u == g_uid[c]
        a == IF u \in Key THEN user_info[u] ELSE None
    IN  /\ Up(c) /\ MayAct(c) /\ talked < MaxTalk
        /\ Commands(c, type)
        /\ talked' = talked + 1
        /\ \/ /\ a # None /\ chat_server[a]
              /\ ToServer(a, [type |-> type, uid |-> u, stamp |-> ClientStamp[type],
                              user |-> None, from |-> c])
              /\ sent' = None
              /\ UNCHANGED <<alive, parsers, routes, requests>>
           \/ /\ a # None => ~ chat_server[a]
              /\ Die
              /\ UNCHANGED toChat
        /\ UNCHANGED <<cstate, chat_server, fromChat, database, servers, asked>>

-----------------------------------------------------------------------------
(* Answers: ThreadEnvironment::onChatServerMessage, onDataServerMessage *)

\* The client that is registered for the uid of the header
Registrant(f) == IF f.uid \in Key THEN login_clients[f.uid] ELSE None

ByUid(f) ==
    LET c == Registrant(f)
    IN  /\ c # None
        /\ \/ /\ Locks(c)
              /\ Send(c, f)
              /\ UNCHANGED <<alive, parsers, routes, requests>>
           \/ ~ Locks(c) /\ Die

\* An answer that onChatServerMessage takes for one to a login request
LoginPending(f) ==
    /\ f.type \in {"answer", "refused"}
    /\ f.stamp \in Stamp /\ login_requests[f.stamp] # None

\* Three ways to register a client for a uid that is not its own: by a failed
\* LOGIN, whose uid is the area; by the answer to another request, when the
\* stamp of a client is one that the proxy gave out; by a stamp given twice.
Misleads(f, c) == f.user = None \/ (f.from # c /\ asked > StampMax)

\* Whatever the answer says, the client is registered for the uid of its header.
ByLoginStamp(f) ==
    LET r == login_requests[f.stamp]
        c == r.client
    IN  /\ Registrant(f) = None /\ LoginPending(f)
        /\ login_requests' = [login_requests EXCEPT ![f.stamp] = None]
        /\ login_clients' = Insert(login_clients, f.uid, c)
        /\ user_info' = Insert(user_info, f.uid, r.area)
        /\ misled' = [misled EXCEPT ![c] = @ \cup {k \in {f.uid} : Misleads(f, c)}]
        /\ late' = late \cup {d \in {c} : cstate[d] # "up"}
        /\ IF Locks(c)
           THEN /\ Send(c, [f EXCEPT !.stamp = ClientStamp["LOGIN"]])
                /\ player_uid' = [player_uid EXCEPT ![c] = f.uid]
                /\ client_state_' = [client_state_ EXCEPT ![c] = "LOGIN"]
           ELSE sent' = None /\ UNCHANGED parsers
        /\ UNCHANGED <<alive, sign_up_requests, current_stamp_>>

\* "invalid response to client"
Dropped(f, pending) ==
    /\ Registrant(f) = None
    /\ ~ pending
    /\ sent' = None
    /\ UNCHANGED <<alive, parsers, routes, requests>>

\* Client.cc: handleResponse.  A good answer with the stamp of its LOGINs is
\* one to a LOGIN, and who has logged in is in its body; without a body, 0.
Learns ==
    g_uid' = IF /\ sent' # None
                /\ sent'.frame.type = "answer"
                /\ sent'.frame.stamp = ClientStamp["LOGIN"]
             THEN [g_uid EXCEPT ![sent'.to] = IF sent'.frame.user = None THEN 0
                                              ELSE sent'.frame.user]
             ELSE g_uid

ChatServerMessage(a) ==
    LET f == Head(fromChat[a])
    IN  /\ alive /\ fromChat[a] # <<>>
        /\ fromChat' = [fromChat EXCEPT ![a] = Tail(@)]
        /\ \/ ByUid(f)
           \/ ByLoginStamp(f)
           \/ Dropped(f, LoginPending(f))
        /\ Learns
        /\ UNCHANGED <<cstate, chat_server, toChat, database, servers, bounds>>

BySignUpStamp(f) ==
    LET c == sign_up_requests[f.stamp]
    IN  /\ Registrant(f) = None /\ f.stamp \in Stamp /\ c # None
        /\ sign_up_requests' = [sign_up_requests EXCEPT ![f.stamp] = None]
        /\ IF Locks(c) THEN Send(c, [f EXCEPT !.stamp = ClientStamp["SIGN_UP"]])
           ELSE sent' = None
        /\ UNCHANGED <<alive, parsers, routes, login_requests, current_stamp_>>

\* An answer of the database: to an INFO whose name exists with the header
\* that was parsed last, to another request with its own (module Database).
\* That it is sent before it is received can be left out: in between, nothing
\* here depends on it.
DataServerMessage ==
    LET q == Head(data)
    IN  /\ alive /\ parsed > 0
        /\ data' = Tail(data) /\ parsed' = parsed - 1
        /\ \E h \in {q} \cup (IF q.type = "INFO" THEN {data[parsed]} ELSE {}) :
             LET f == [q EXCEPT !.uid = h.uid, !.stamp = h.stamp]
             IN  \/ ByUid(f)
                 \/ BySignUpStamp(f)
                 \/ Dropped(f, f.stamp \in Stamp /\ sign_up_requests[f.stamp] # None)
        /\ UNCHANGED <<cstate, chat_server, toChat, fromChat, servers, g_uid, bounds>>

\* The end of a chat server's connection, behind all that it sent.  Nobody
\* is told: its users stay registered.
ServerLost(a) ==
    /\ alive /\ chat_server[a] /\ ~ serving[a] /\ fromChat[a] = <<>>
    /\ chat_server' = [chat_server EXCEPT ![a] = FALSE]
    /\ sent' = None
    /\ UNCHANGED <<alive, cstate, parsers, routes, requests, toChat, fromChat, database,
                   servers, g_uid, bounds>>

-----------------------------------------------------------------------------
(* The database and the chat server of an area, seen from here *)

\* database's Parser::parseData: header_ is that of the next request.  Head and
\* body arrive together here (module Database says what happens otherwise).
DataParse ==
    /\ parsed < Len(data)
    /\ parsed' = parsed + 1
    /\ sent' = None
    /\ UNCHANGED <<alive, cstate, parsers, routes, requests, chat_server, toChat, fromChat,
                   data, servers, g_uid, bounds>>

Answer(a, f) == fromChat' = [fromChat EXCEPT ![a] = Append(@, f)]

ChatServer(a) ==
    LET f == Head(toChat[a])
        rest == [toChat EXCEPT ![a] = Tail(@)]
    IN  /\ serving[a] /\ toChat[a] # <<>>
        /\ \/ /\ f.type = "LOGIN" /\ f.user # None    \* handleLogin: the uid is set
              /\ online' = [online EXCEPT ![a] = @ \cup {f.user}]
              /\ granted' = [granted EXCEPT ![f.from] = @ \cup {f.user}]
              /\ Answer(a, [f EXCEPT !.type = "answer", !.uid = f.user])
              /\ toChat' = rest /\ UNCHANGED serving
           \/ /\ f.type = "LOGIN" /\ f.user = None    \* the uid is still the area
              /\ Answer(a, [f EXCEPT !.type = "refused"])
              /\ toChat' = rest /\ UNCHANGED <<serving, online, granted>>
           \/ /\ f.type = "PLAYER_LIST" \/ (f.type = "BLACK_LIST" /\ f.uid \in online[a])
              /\ Answer(a, [f EXCEPT !.type = "answer"])
              /\ toChat' = rest /\ UNCHANGED <<serving, online, granted>>
           \/ /\ f.type = "LOGOUT" /\ f.uid \in online[a]
              /\ online' = [online EXCEPT ![a] = @ \ {f.uid}]
              /\ toChat' = rest /\ UNCHANGED <<serving, granted, fromChat>>
           \/ /\ f.type \in {"BLACK_LIST", "LOGOUT"} /\ f.uid \notin online[a]
              /\ serving' = [serving EXCEPT ![a] = FALSE]
              /\ online' = [online EXCEPT ![a] = {}]
              /\ toChat' = [toChat EXCEPT ![a] = <<>>]
              /\ UNCHANGED <<granted, fromChat>>
        /\ sent' = None
        /\ UNCHANGED <<alive, cstate, parsers, routes, requests, chat_server, database, g_uid, bounds>>

\* A message for a user who is there
ChatMessage(a, u) ==
    /\ serving[a] /\ u \in online[a] /\ talked < MaxTalk
    /\ talked' = talked + 1
    /\ Answer(a, [type |-> "CHAT", uid |-> u, stamp |-> 0, user |-> None, from |-> None])
    /\ sent' = None
    /\ UNCHANGED <<alive, cstate, parsers, routes, requests, chat_server, toChat, database,
                   servers, g_uid, asked>>

-----------------------------------------------------------------------------
Request ==
    \E c \in Client :
        \/ Connect(c) \/ Disconnect(c) \/ Destroy(c) \/ SignUp(c)
        \/ \E u \in Uid \cup {None}, a \in Area : Login(c, u, a)
        \/ Info(c) \/ \E t \in {"BLACK_LIST", "PLAYER_LIST", "LOGOUT"} : Normal(c, t)

Next ==
    \/ Request
    \/ DataServerMessage \/ DataParse
    \/ \E a \in Area : ChatServerMessage(a) \/ ServerLost(a) \/ ChatServer(a)
    \/ \E a \in Area, u \in Uid : ChatMessage(a, u)

Spec == Init /\ [][Next]_vars

\* The thread's event loop handles what arrives, and servers answer.
Fairness ==
    /\ WF_vars(DataServerMessage) /\ WF_vars(DataParse)
    /\ \A a \in Area : WF_vars(ChatServerMessage(a)) /\ WF_vars(ChatServer(a))
    /\ \A c \in Client : WF_vars(Destroy(c))

FairSpec == Spec /\ Fairness

-----------------------------------------------------------------------------
(* Properties *)

\* Chat messages and answers are written to the client that asked, or to one
\* that gave the password of the user they are for, or that was registered for
\* that user in one of the ways of Misleads; the answer to a SIGN_UP to the one
\* that asked, before stamps are given twice: though several requests are open
\* at two servers and the database, answers come after their clients went, and
\* numbers collide.  (The answer to an INFO may end up anywhere.)
RightClient ==
    sent # None /\ sent.frame.type # "INFO" =>
        \/ sent.frame.from = sent.to
        \/ sent.frame.uid \in granted[sent.to] \cup misled[sent.to]
        \/ sent.frame.type = "SIGN_UP" /\ asked > StampMax

\* Between patient clients every answer goes to the one that asked.  (An answer
\* to INFO may reach the one that asked last.)
AnswersToAsker ==
    sent # None /\ sent.frame.type \in {"answer", "refused", "SIGN_UP"} =>
        sent.frame.from = sent.to

\* A client in state LOGIN is the one registered for its player_uid, so that
\* messages reach it and its disconnection unregisters nobody else: however
\* logins and closes overlap, and whatever answers they are taken to have.
Registered ==
    \A c \in Client :
        Up(c) /\ client_state_[c] = "LOGIN" => login_clients[player_uid[c]] = c

\* The connection that is registered for a uid, which is used unchecked, is
\* gone only if the client was closing when it was registered, or has been
\* registered for another uid since: these are not erased.
LivePlayer ==
    \A k \in Key : alive /\ login_clients[k] # None =>
        LET c == login_clients[k] IN Locks(c) \/ c \in late \/ player_uid[c] # k

\* "forward to a valid player" (ThreadEnvironment.cc:63): the connection that
\* is registered for a uid can still be locked; it is used unchecked.
PlayerLocks ==
    \A k \in Key : alive /\ login_clients[k] # None => Locks(login_clients[k])

\* No chat server is sent a LOGOUT or black list request for a user it does not
\* have, which it would not survive (Lobby.cc:34): proxy.cc's LOGOUT and
\* parseNormalRequest choose the server where the user is.
ServersSurvive == \A a \in Area : serving[a]

\* Every LOGIN and every SIGN_UP of a client that stays is answered, to it.
Waiting(c) == \E n \in Stamp : login_requests[n] # None /\ login_requests[n].client = c

Answered ==
    /\ \A c \in Client : Waiting(c) ~> client_state_[c] = "LOGIN" /\ sent # None /\ sent.to = c
    /\ \A c \in Client : (\E n \in Stamp : sign_up_requests[n] = c) ~>
           \/ cstate[c] # "up"
           \/ sent # None /\ sent.to = c /\ sent.frame.type = "SIGN_UP"

=============================================================================
