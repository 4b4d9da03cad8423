------------------------------- MODULE Lobby -------------------------------
(***************************************************************************)
(* The chat servers of GameChatServer: Lobby, Player and ProxyConnection   *)
(* (src/chat), and the Redis keys they share.                              *)
(*                                                                         *)
(* A chat server is one thread, so one callback (a request read from a     *)
(* proxy connection, a Redis answer, the 50 ms timer) is one action.       *)
(* Redis commands are pipelined: a callback appends commands to the        *)
(* server's pipe, Redis executes the head of a pipe, and the answer's      *)
(* callback runs later, in the same order.  Everything in between may      *)
(* interleave.                                                             *)
(*                                                                         *)
(* A null or freed pointer that the code dereferences ends the process:    *)
(* that is Die, and nothing in the code restarts a server.                 *)
(*                                                                         *)
(* An operator XMutant is a wrong X, put in its place to see that the      *)
(* properties notice; nothing else uses it.                                *)
(***************************************************************************)
EXTENDS Integers, Sequences, FiniteSets

CONSTANTS
    Server,     \* chat server processes
    Conn,       \* TCP connections from proxy threads to chat servers
    ServerOf,   \* the server a connection leads to
    Peer,       \* other_servers_: the servers each server forwards to
    Uid,        \* user ids, Nobody included
    Nobody,     \* uid 0: no user, and the receiver of a broadcast
    Message,    \* messages clients may post: [id, type, sender, receiver]
    Batch,      \* messages a player is sent per timer tick (100 in the code)
    MaxLogin,   \* bound: login requests in a behaviour
    Reach,      \* bound: the (connection, uid) pairs clients log in with
    Ends,       \* bound: the connections that may end
    Stay,       \* bound: the users who log in once and stay
    Block,      \* bound: the (user, user) pairs black lists are made of
    Overlap,    \* whether one account may log in while it is logged in
    Absent,     \* a key that is not in a map
    Null        \* a key whose value is a null shared_ptr

Account == Uid \ {Nobody}
Handle  == 1..MaxLogin      \* identities of Player objects
Pair    == Conn \X Account  \* a user logged in through a connection

ASSUME ServerAssumption ==
    /\ ServerOf \in [Conn -> Server]
    /\ Peer \in [Server -> SUBSET Server]
    /\ \A s \in Server : s \notin Peer[s]
ASSUME UserAssumption ==
    /\ Nobody \in Uid
    /\ \A m \in Message : /\ m.type \in {"private", "lobby", "server"}
                          /\ m.sender \in Account
                          /\ m.receiver \in Uid
ASSUME BoundAssumption ==
    /\ Batch \in Nat \ {0}
    /\ MaxLogin \in Nat
    /\ Reach \in SUBSET (Conn \X Uid)
    /\ Block \in SUBSET (Account \X Account)
    /\ Overlap \in BOOLEAN
VARIABLES
    alive,      \* alive[s]: the process of server s runs
    local,      \* local_players_: a Player object, Null or Absent per uid
    player,     \* the Player objects made so far; Absent for the others
    active,     \* active_players_
    bcast,      \* broadcast_message_list_
    cstate,     \* state of a TCP connection
    owner,      \* uid_ of a ProxyConnection; Nobody while login_ is false
    addr,       \* the memory block a connection's ProxyConnection lives in
    session,    \* the (connection, user) pairs the proxies keep logged in
    pipe,       \* commands Redis has not executed yet, per server
    answer,     \* answers whose callback has not run yet, per server
    wire,       \* messages forwarded from server to server, in flight
    online,     \* Redis key <uid>:online
    mailbox,    \* Redis list msg:<uid>
    blackKey,   \* Redis list black:<uid>, the leading uid of each string
    asked,      \* login requests so far
    posted,     \* messages posted so far
    fetched     \* what each Player was given from its user's offline list

memory == <<local, player, active, bcast>>
conns  == <<cstate, owner, addr>>
redis  == <<online, mailbox, blackKey>>
env    == <<asked, posted, fetched>>
vars   == <<alive, memory, conns, session, pipe, answer, wire, redis, env>>

-----------------------------------------------------------------------------
(* Types *)

Player == [uid : Account, conn : Conn, queue : Seq(Message),
           black : SUBSET Uid, sent : [Message -> Nat]]

ASSUME NullAssumption ==
    /\ Absent \notin Server \cup Nat \cup Player
    /\ Null \notin Server \cup Nat
    /\ Absent # Null

Command ==
    [op : {"login"}, conn : Conn, uid : Uid] \cup
    [op : {"setOnline", "delOnline", "lrangeMsg", "delMsg",
           "lrangeBlack", "delBlack"}, uid : Uid] \cup
    [op : {"lpushBlack"}, uid : Uid, first : Uid] \cup
    [op : {"getOnline", "rpushMsg"}, msg : Message]

Answer ==
    [op : {"login"}, conn : Conn, uid : Uid] \cup
    [op : {"lrangeMsg"}, uid : Uid, list : Seq(Message)] \cup
    [op : {"lrangeBlack"}, uid : Uid, list : Seq(Uid)] \cup
    [op : {"getOnline"}, msg : Message, at : Server \cup {Absent}]

TypeOK ==
    /\ alive \in [Server -> BOOLEAN]
    /\ local \in [Server -> [Uid -> Handle \cup {Absent, Null}]]
    /\ player \in [Handle -> Player \cup {Absent}]
    /\ active \in [Server -> SUBSET Handle]
    /\ bcast \in [Server -> Seq(Message)]
    /\ cstate \in [Conn -> {"new", "up", "closing", "gone"}]
    /\ owner \in [Conn -> Uid]
    /\ addr \in [Conn -> Conn]
    /\ session \in SUBSET Pair
    /\ pipe \in [Server -> Seq(Command)]
    /\ answer \in [Server -> Seq(Answer)]
    /\ wire \in [Server -> [Server -> Seq(Message)]]
    /\ online \in [Uid -> Server \cup {Absent}]
    /\ mailbox \in [Uid -> Seq(Message)]
    /\ blackKey \in [Uid -> Seq(Uid)]
    /\ asked \in 0..MaxLogin
    /\ posted \in SUBSET Message
    /\ fetched \in SUBSET (Handle \X Message)

Init ==
    /\ alive = [s \in Server |-> TRUE]
    /\ local = [s \in Server |-> [u \in Uid |-> Absent]]
    /\ player = [h \in Handle |-> Absent]
    /\ active = [s \in Server |-> {}]
    /\ bcast = [s \in Server |-> <<>>]
    /\ cstate = [c \in Conn |-> "new"]
    /\ owner = [c \in Conn |-> Nobody]
    /\ addr = [c \in Conn |-> c]
    /\ session = {}
    /\ pipe = [s \in Server |-> <<>>]
    /\ answer = [s \in Server |-> <<>>]
    /\ wire = [s \in Server |-> [t \in Server |-> <<>>]]
    /\ online = [u \in Uid |-> Absent]
    /\ mailbox = [u \in Uid |-> <<>>]
    /\ blackKey = [u \in Uid |-> <<>>]
    /\ asked = 0
    /\ posted = {}
    /\ fetched = {}

-----------------------------------------------------------------------------
(* Helpers *)

Made(h) == player[h] # Absent

IsPlayer(s, u) == local[s][u] \in Handle

Up(c) == cstate[c] = "up" /\ alive[ServerOf[c]]

\* redis_client->command: append commands to the pipeline of server s.
Issue(s, cmds) == pipe' = [pipe EXCEPT ![s] = @ \o cmds]

\* The process of s ends: its memory is gone, and so are the commands that
\* have not got to Redis (they are in hiredis' output buffer until the next
\* iteration of the loop) and the answers nobody waits for any more.
Die(s) ==
    /\ alive' = [alive EXCEPT ![s] = FALSE]
    /\ local' = [local EXCEPT ![s] = [u \in Uid |-> Absent]]
    /\ active' = [active EXCEPT ![s] = {}]
    /\ bcast' = [bcast EXCEPT ![s] = <<>>]
    /\ pipe' = [pipe EXCEPT ![s] = <<>>]
    /\ answer' = [answer EXCEPT ![s] = <<>>]
    /\ UNCHANGED player

\* Player::isInBlackList, for the player whose black list is B
isInBlackListMutant(B, m) == m.receiver \in B   \* tests the wrong end
isInBlackList(B, m) == m.sender \in B

\* Player::newMessage for each element of list in turn: the queue of a
\* player with black list B, once the messages it accepts are appended.
Accepted(queue, list, B) ==
    LET q[i \in 0..Len(list)] ==
            IF i = 0 THEN queue
            ELSE IF isInBlackList(B, list[i]) THEN q[i-1]
            ELSE Append(q[i-1], list[i])
    IN  q[Len(list)]

\* Player h of server s gets list, and a place in active_players_.
EnqueueMutant(s, h, list) ==                     \* forgets active_players_
    /\ player' = [player EXCEPT ![h].queue = Accepted(@, list, player[h].black)]
    /\ UNCHANGED active
Enqueue(s, h, list) ==
    /\ player' = [player EXCEPT ![h].queue = Accepted(@, list, player[h].black)]
    /\ active' = [active EXCEPT ![s] = IF list = <<>> THEN @ ELSE @ \cup {h}]

\* Player::Player
NewPlayer(u, c) == [uid |-> u, conn |-> c, queue |-> <<>>, black |-> {},
                    sent |-> [m \in Message |-> 0]]

-----------------------------------------------------------------------------
(* Connections from the proxies: chat.cc's connection callback *)

\* A new connection gets a fresh ProxyConnection, in a block of its own or
\* in one that an earlier ProxyConnection of this server has left.
Connect(c) ==
    /\ cstate[c] = "new" /\ alive[ServerOf[c]]
    /\ cstate' = [cstate EXCEPT ![c] = "up"]
    /\ \E a \in {c} \cup {addr[d] : d \in {d \in Conn : /\ ServerOf[d] = ServerOf[c]
                                                        /\ cstate[d] \in {"closing", "gone"}}} :
          /\ \A d \in Conn : Up(d) => addr[d] # a
          /\ addr' = [addr EXCEPT ![c] = a]
    /\ UNCHANGED <<alive, memory, owner, session, pipe, answer, wire, redis, env>>

\* The commands of Lobby::logout for a user with black list B: formatBlackList
\* puts the entries in any order into one string.
LogoutCommandsMutant(u, B) ==                    \* leaves <u>:online
    IF B = {} THEN {<<[op |-> "delBlack", uid |-> u]>>}
    ELSE {<<[op |-> "delBlack", uid |-> u],
            [op |-> "lpushBlack", uid |-> u, first |-> b]>> : b \in B}
LogoutCommands(u, B) ==
    LET dels == <<[op |-> "delOnline", uid |-> u], [op |-> "delBlack", uid |-> u]>>
    IN  IF B = {} THEN {dels}
        ELSE {Append(dels, [op |-> "lpushBlack", uid |-> u, first |-> b]) : b \in B}

\* Lobby::logout(u)
LobbyLogout(s, u) ==
    \/ /\ IsPlayer(s, u)
       /\ \E cmds \in LogoutCommands(u, player[local[s][u]].black) : Issue(s, cmds)
       /\ local' = [local EXCEPT ![s][u] = Absent]
       /\ UNCHANGED <<alive, player, active, bcast, answer>>
    \/ /\ ~ IsPlayer(s, u)
       /\ Die(s)

\* The callback installs a fresh ProxyConnection on disconnection too; the
\* destructor of the old one logs out uid_ if login_ was ever set.
Disconnect(c) ==
    /\ Up(c) /\ c \in Ends
    /\ cstate' = [cstate EXCEPT ![c] = "closing"]
    /\ owner' = [owner EXCEPT ![c] = Nobody]
    /\ session' = {p \in session : p[1] # c}
    /\ IF owner[c] = Nobody
       THEN UNCHANGED <<alive, memory, pipe, answer>>
       ELSE LobbyLogout(ServerOf[c], owner[c])
    /\ UNCHANGED <<addr, wire, redis, env>>

\* TcpConnection::connectDestroyed, at the end of the loop iteration: from
\* here on weak pointers to the connection no longer lock.
Destroy(c) ==
    /\ cstate[c] = "closing"
    /\ cstate' = [cstate EXCEPT ![c] = "gone"]
    /\ UNCHANGED <<alive, memory, owner, addr, session, pipe, answer, wire, redis, env>>

-----------------------------------------------------------------------------
(* Login: ProxyConnection::handleLogin and Lobby::login *)

\* An account that is logged in, or is logging in, somewhere.
Engaged(u) ==
    \/ \E p \in session : p[2] = u
    \/ \E s \in Server : \/ \E i \in DOMAIN pipe[s] : /\ pipe[s][i].op = "login"
                                                      /\ pipe[s][i].uid = u
                         \/ \E i \in DOMAIN answer[s] : /\ answer[s][i].op = "login"
                                                        /\ answer[s][i].uid = u

\* A LOGIN request: the user name and password are checked by a script that
\* Redis runs.  Nobody stands for a bad name or password.
LoginRequest(c, u) ==
    /\ Up(c) /\ asked < MaxLogin /\ <<c, u>> \in Reach
    /\ Overlap \/ ~ Engaged(u)
    /\ u \in Stay => \A h \in Handle : Made(h) => player[h].uid # u
    /\ asked' = asked + 1
    /\ Issue(ServerOf[c], <<[op |-> "login", conn |-> c, uid |-> u]>>)
    /\ UNCHANGED <<alive, memory, conns, session, answer, wire, redis, posted, fetched>>

\* The commands of Lobby::login
LoginCommandsMutant(u) ==                        \* does not set <u>:online
    <<[op |-> "lrangeMsg", uid |-> u], [op |-> "lrangeBlack", uid |-> u]>>
LoginCommands(u) ==
    <<[op |-> "setOnline", uid |-> u], [op |-> "lrangeMsg", uid |-> u],
      [op |-> "lrangeBlack", uid |-> u]>>

\* A new Player in the slot of u
Insert(s, u, c) ==
    \E h \in Handle :
        /\ ~ Made(h) /\ \A g \in 1..(h-1) : Made(g)
        /\ local' = [local EXCEPT ![s][u] = h]
        /\ player' = [player EXCEPT ![h] = NewPlayer(u, c)]

\* Lobby::login.  insert() keeps the Player, or the null, already there.
LobbyLoginMutant(s, u, c) ==                     \* assigns to the slot
    /\ Insert(s, u, c)
    /\ Issue(s, LoginCommands(u))
    /\ UNCHANGED <<alive, active, bcast>>
LobbyLogin(s, u, c) ==
    /\ IF local[s][u] = Absent THEN Insert(s, u, c) ELSE UNCHANGED <<local, player>>
    /\ Issue(s, LoginCommands(u))
    /\ UNCHANGED <<alive, active, bcast>>

\* The answer is valid and `this` is connection d's ProxyConnection.  The
\* client may have left before the answer: then its proxy keeps no session.
LoginThrough(s, u, d) ==
    /\ owner' = [owner EXCEPT ![d] = u]
    /\ session' \in {session, session \cup {<<d, u>>}}
    /\ LobbyLogin(s, u, d)

\* A bad user name or password
RefusedMutant(uid) == FALSE                      \* no early return
Refused(uid) == uid = Nobody

\* `this` was captured by the callback: the ProxyConnection may be gone by
\* the time the answer comes, and its memory used again.
LoginAnswer(s) ==
    LET a  == Head(answer[s])
        c  == a.conn
        In == {d \in Conn : Up(d) /\ ServerOf[d] = s /\ addr[d] = addr[c]}
    IN  /\ answer[s] # <<>> /\ a.op = "login"
        /\ \/ /\ Refused(a.uid)          \* only an error response
              /\ answer' = [answer EXCEPT ![s] = Tail(@)]
              /\ UNCHANGED <<alive, memory, owner, session, pipe>>
           \/ /\ ~ Refused(a.uid)        \* c itself, or what replaced it
              /\ answer' = [answer EXCEPT ![s] = Tail(@)]
              /\ \E d \in In : LoginThrough(s, a.uid, d)
           \/ /\ ~ Refused(a.uid)        \* freed, but not overwritten yet
              /\ cstate[c] = "closing" /\ In = {}
              /\ answer' = [answer EXCEPT ![s] = Tail(@)]
              /\ LobbyLogin(s, a.uid, c)
              /\ UNCHANGED <<owner, session>>
           \/ /\ In = {}                 \* freed
              /\ Die(s)
              /\ UNCHANGED <<owner, session>>
        /\ UNCHANGED <<cstate, addr, wire, redis, env>>

\* The command that empties the list once it is read
EmptiedMutant(u) == <<>>                         \* keeps the list
Emptied(u) == <<[op |-> "delMsg", uid |-> u]>>

\* Lobby::handleOfflineMessage.  operator[] makes a null for a user who has
\* logged out in the meantime, and newMessage on that null ends the process.
OfflineAnswer(s) ==
    LET a == Head(answer[s])
        u == a.uid
        h == local[s][u]
    IN  /\ answer[s] # <<>> /\ a.op = "lrangeMsg"
        /\ IF IsPlayer(s, u) \/ a.list = <<>>
           THEN /\ answer' = [answer EXCEPT ![s] = Tail(@)]
                /\ Issue(s, Emptied(u))
                /\ IF IsPlayer(s, u)
                   THEN /\ Enqueue(s, h, a.list)
                        /\ fetched' = fetched \cup {<<h, a.list[i]>> : i \in DOMAIN a.list}
                        /\ UNCHANGED local
                   ELSE /\ local' = [local EXCEPT ![s][u] = Null]
                        /\ UNCHANGED <<player, active, fetched>>
                /\ UNCHANGED <<alive, bcast>>
           ELSE Die(s) /\ UNCHANGED fetched
        /\ UNCHANGED <<conns, session, wire, redis, asked, posted>>

\* Player::initBlackList reads (uid, name) pairs from a list whose strings
\* each hold a whole black list: of every two strings it takes one uid.
Restored(list) == {list[2*k - 1] : k \in 1..(Len(list) \div 2)}

\* Lobby::initBlackList
BlackAnswer(s) ==
    LET a == Head(answer[s])
        u == a.uid
        h == local[s][u]
    IN  /\ answer[s] # <<>> /\ a.op = "lrangeBlack"
        /\ IF IsPlayer(s, u) \/ Restored(a.list) = {}
           THEN /\ answer' = [answer EXCEPT ![s] = Tail(@)]
                /\ IF IsPlayer(s, u)
                   THEN /\ player' = [player EXCEPT ![h].black = @ \cup Restored(a.list)]
                        /\ UNCHANGED local
                   ELSE /\ local' = [local EXCEPT ![s][u] = Null]
                        /\ UNCHANGED player
                /\ UNCHANGED <<alive, pipe, active, bcast>>
           ELSE Die(s)
        /\ UNCHANGED <<conns, session, wire, redis, env>>

-----------------------------------------------------------------------------
(* Requests of a user who is logged in *)

\* A LOGOUT request: the client asked for it, or it left and its proxy did.
\* After a client's own LOGOUT the proxy still holds it to be logged in.
Logout(c, u) ==
    /\ Up(c) /\ <<c, u>> \in session /\ u \notin Stay
    /\ session' \in {session, session \ {<<c, u>>}}
    /\ LobbyLogout(ServerOf[c], u)
    /\ UNCHANGED <<conns, wire, redis, env>>

\* ADD_BLACK_LIST and DEL_BLACK_LIST: addBlackList and delBlackList
EditBlackList(c, u, add, del) ==
    LET s == ServerOf[c]
        h == local[s][u]
    IN  /\ Up(c) /\ <<c, u>> \in session /\ {u} \X (add \cup del) \subseteq Block
        /\ IF IsPlayer(s, u)
           THEN /\ player' = [player EXCEPT ![h].black = (@ \ del) \cup add]
                /\ UNCHANGED <<alive, local, active, bcast, pipe, answer>>
           ELSE Die(s)
        /\ UNCHANGED <<conns, session, wire, redis, env>>

AddBlackList(c, u, b) == EditBlackList(c, u, {b}, {})
DelBlackList(c, u, b) == EditBlackList(c, u, {}, {b})

\* GET_BLACK_LIST and PLAYER_LIST only read, but through pointers that may
\* be null: the user's own, or any of the list's.
GetBlackList(c, u) ==
    /\ Up(c) /\ <<c, u>> \in session
    /\ ~ IsPlayer(ServerOf[c], u)
    /\ Die(ServerOf[c])
    /\ UNCHANGED <<conns, session, wire, redis, env>>

PlayerList(c) ==
    /\ Up(c) /\ \E p \in session : p[1] = c
    /\ \E u \in Uid : local[ServerOf[c]][u] = Null
    /\ Die(ServerOf[c])
    /\ UNCHANGED <<conns, session, wire, redis, env>>

-----------------------------------------------------------------------------
(* Messages: Lobby::newMessage and what it calls *)

\* Lobby::broadcastMessage
AnnounceMutant(s, m) ==                          \* for every type
    bcast' = [bcast EXCEPT ![s] = Append(@, m)]
Announce(s, m) ==
    bcast' = [bcast EXCEPT ![s] = IF m.type = "private" THEN @ ELSE Append(@, m)]

\* Lobby::forwardMessage, to each of a set of servers.  A connection to a
\* dead peer is null once its end has been noticed; until then the bytes go
\* nowhere.  w is the wire before.
Sent(w, s, m, to) ==
    [w EXCEPT ![s] = [t \in Server |-> IF t \in to THEN Append(@[t], m) ELSE @[t]]]

Forward(s, m, to, w) ==
    LET up == {t \in to : alive[t]}
    IN  \/ /\ wire' = Sent(w, s, m, up)
           /\ Announce(s, m)
           /\ UNCHANGED <<alive, local, player, active, pipe, answer>>
        \/ /\ up # to
           /\ Die(s)
           /\ \E before \in SUBSET up : wire' = Sent(w, s, m, before)

\* Lobby::privateChatMessage
PrivateChat(s, m) ==
    LET u == m.receiver
        h == local[s][u]
    IN  \/ /\ IsPlayer(s, u)
           /\ Enqueue(s, h, <<m>>)
           /\ Announce(s, m)
           /\ UNCHANGED <<alive, local, pipe, answer>>
        \/ /\ local[s][u] = Null
           /\ Die(s)
        \/ /\ local[s][u] = Absent
           /\ Issue(s, <<[op |-> "getOnline", msg |-> m]>>)
           /\ Announce(s, m)
           /\ UNCHANGED <<alive, local, player, active, answer>>

\* Lobby::newMessage.  A broadcast joins broadcast_message_list_; then a
\* server broadcast of a local sender goes to the peers, and everything
\* else, lobby broadcasts included, is handled as a private message too.
NewMessageMutant(s, m, w) ==                     \* forwards what was forwarded
    IF m.type = "server" THEN Forward(s, m, Peer[s], w)
    ELSE PrivateChat(s, m) /\ wire' = w
NewMessage(s, m, w) ==
    IF m.type = "server" /\ local[s][m.sender] # Absent
    THEN Forward(s, m, Peer[s], w)
    ELSE PrivateChat(s, m) /\ wire' = w

\* A CHAT request of a user who is logged in
Chat(c, m) ==
    /\ Up(c) /\ <<c, m.sender>> \in session /\ m \notin posted
    /\ posted' = posted \cup {m}
    /\ NewMessage(ServerOf[c], m, wire)
    /\ UNCHANGED <<conns, session, redis, asked, fetched>>

\* A CHAT that server s forwarded reaches server t: the same handler.
Receive(s, t) ==
    /\ alive[t] /\ wire[s][t] # <<>>
    /\ NewMessage(t, Head(wire[s][t]), [wire EXCEPT ![s][t] = Tail(@)])
    /\ UNCHANGED <<conns, session, redis, env>>

\* The callback of GET <receiver>:online: an absent key means the message is
\* stored, a server that is not in other_servers_ that it is dropped.
OnlineAnswer(s) ==
    LET a == Head(answer[s])
        rest == [answer EXCEPT ![s] = Tail(@)]
    IN  /\ answer[s] # <<>> /\ a.op = "getOnline"
        /\ \/ /\ a.at = Absent
              /\ Issue(s, <<[op |-> "rpushMsg", msg |-> a.msg]>>)
              /\ answer' = rest
              /\ UNCHANGED <<alive, memory, wire>>
           \/ /\ a.at \in Peer[s] /\ alive[a.at]
              /\ wire' = [wire EXCEPT ![s][a.at] = Append(@, a.msg)]
              /\ answer' = rest
              /\ UNCHANGED <<alive, memory, pipe>>
           \/ /\ a.at \in Server /\ (a.at \in Peer[s] => ~ alive[a.at])
              /\ answer' = rest
              /\ UNCHANGED <<alive, memory, pipe, wire>>
           \/ /\ a.at \in Peer[s] /\ ~ alive[a.at]
              /\ Die(s)
              /\ UNCHANGED wire
        /\ UNCHANGED <<conns, session, redis, env>>

-----------------------------------------------------------------------------
(* The 50 ms timer: Lobby::handleMessage *)

\* What handleMessageQueue takes from the front of a queue: all of it, or
\* the first Batch messages once there are that many.
Front(q) == IF Len(q) < Batch THEN Len(q) ELSE Batch

\* How often m is among the first n messages of q
TimesMutant(m, q, n) == Cardinality({i \in 2..n : q[i] = m})   \* off by one
Times(m, q, n) == Cardinality({i \in 1..n : q[i] = m})

\* sendMessageByShared drops the messages of black-listed senders, and
\* dereferences the connection for any other.
Speaks(h, q, n) == \E i \in 1..n : ~ isInBlackList(player[h].black, q[i])
Unlocked(h)     == cstate[player[h].conn] = "gone"

Hearers(s) == {h \in Handle : \E u \in Uid : local[s][u] = h}

TickDies(s) ==
    \/ \E h \in active[s] : /\ Unlocked(h)
                            /\ Speaks(h, player[h].queue, Front(player[h].queue))
    \/ /\ bcast[s] # <<>>
       /\ \/ \E u \in Uid : local[s][u] = Null
          \/ \E h \in Hearers(s) : Unlocked(h) /\ Speaks(h, bcast[s], Len(bcast[s]))

\* Player::handleMessageQueue and then Player::sendBroadcastMessage.  On a
\* connection that is closing, send() does nothing.
Flushed(s, h) ==
    LET p  == player[h]
        n  == IF h \in active[s] THEN Front(p.queue) ELSE 0
        b  == IF h \in Hearers(s) THEN Len(bcast[s]) ELSE 0
        up == cstate[p.conn] = "up"
    IN  [p EXCEPT !.queue = SubSeq(@, n + 1, Len(@)),
                  !.sent = [m \in Message |->
                      IF up /\ ~ isInBlackList(p.black, m)
                      THEN @[m] + Times(m, p.queue, n) + Times(m, bcast[s], b)
                      ELSE @[m]]]

\* Ticks with nothing to do are left out.
PendingMutant(s) == bcast[s] # <<>>              \* only for broadcasts
Pending(s) == active[s] # {} \/ bcast[s] # <<>>

\* active_players_ is cleared, also of players with messages left to send.
Tick(s) ==
    /\ alive[s]
    /\ Pending(s)
    /\ \/ /\ ~ TickDies(s)
          /\ player' = [h \in Handle |-> IF h \in active[s] \cup Hearers(s)
                                         THEN Flushed(s, h) ELSE player[h]]
          /\ active' = [active EXCEPT ![s] = {}]
          /\ bcast' = [bcast EXCEPT ![s] = <<>>]
          /\ UNCHANGED <<alive, local, pipe, answer>>
       \/ /\ TickDies(s)
          /\ Die(s)
    /\ UNCHANGED <<conns, session, wire, redis, env>>

-----------------------------------------------------------------------------
(* Redis executes the head of a pipe; commands whose callback does nothing *)
(* leave no answer.                                                        *)

Reply(s, a) == answer' = [answer EXCEPT ![s] = Append(@, a)]

RedisExec(s) ==
    LET c == Head(pipe[s])
    IN  /\ pipe[s] # <<>>
        /\ pipe' = [pipe EXCEPT ![s] = Tail(@)]
        /\ \/ /\ c.op = "login"
              /\ Reply(s, c)
              /\ UNCHANGED redis
           \/ /\ c.op = "getOnline"
              /\ Reply(s, [op |-> "getOnline", msg |-> c.msg, at |-> online[c.msg.receiver]])
              /\ UNCHANGED redis
           \/ /\ c.op = "lrangeMsg"
              /\ Reply(s, [op |-> "lrangeMsg", uid |-> c.uid, list |-> mailbox[c.uid]])
              /\ UNCHANGED redis
           \/ /\ c.op = "lrangeBlack"
              /\ Reply(s, [op |-> "lrangeBlack", uid |-> c.uid, list |-> blackKey[c.uid]])
              /\ UNCHANGED redis
           \/ /\ c.op = "setOnline"
              /\ online' = [online EXCEPT ![c.uid] = s]
              /\ UNCHANGED <<mailbox, blackKey, answer>>
           \/ /\ c.op = "delOnline"
              /\ online' = [online EXCEPT ![c.uid] = Absent]
              /\ UNCHANGED <<mailbox, blackKey, answer>>
           \/ /\ c.op = "rpushMsg"
              /\ mailbox' = [mailbox EXCEPT ![c.msg.receiver] = Append(@, c.msg)]
              /\ UNCHANGED <<online, blackKey, answer>>
           \/ /\ c.op = "delMsg"
              /\ mailbox' = [mailbox EXCEPT ![c.uid] = <<>>]
              /\ UNCHANGED <<online, blackKey, answer>>
           \/ /\ c.op = "lpushBlack"
              /\ blackKey' = [blackKey EXCEPT ![c.uid] = <<c.first>> \o @]
              /\ UNCHANGED <<online, mailbox, answer>>
           \/ /\ c.op = "delBlack"
              /\ blackKey' = [blackKey EXCEPT ![c.uid] = <<>>]
              /\ UNCHANGED <<online, mailbox, answer>>
        /\ UNCHANGED <<alive, memory, conns, session, wire, env>>

-----------------------------------------------------------------------------
Request ==
    \/ \E c \in Conn : Connect(c) \/ Disconnect(c) \/ Destroy(c) \/ PlayerList(c)
    \/ \E c \in Conn, u \in Uid : LoginRequest(c, u)
    \/ \E c \in Conn, u \in Account : Logout(c, u) \/ GetBlackList(c, u)
    \/ \E c \in Conn, u, b \in Account : AddBlackList(c, u, b) \/ DelBlackList(c, u, b)
    \/ \E c \in Conn, m \in Message : Chat(c, m)

AnswerCallback(s) == LoginAnswer(s) \/ OfflineAnswer(s) \/ BlackAnswer(s) \/ OnlineAnswer(s)

Next ==
    \/ Request
    \/ \E s \in Server : AnswerCallback(s) \/ Tick(s) \/ RedisExec(s)
    \/ \E s, t \in Server : Receive(s, t)

Spec == Init /\ [][Next]_vars

\* The event loop of a running server handles what has arrived, its timer
\* fires, and Redis executes what it was sent.
Fairness ==
    /\ \A s \in Server : WF_vars(AnswerCallback(s)) /\ WF_vars(Tick(s)) /\ WF_vars(RedisExec(s))
    /\ \A s, t \in Server : WF_vars(Receive(s, t))
    /\ \A c \in Conn : WF_vars(Destroy(c))

FairSpec == Spec /\ Fairness

-----------------------------------------------------------------------------
(* Properties *)

Elements(q) == {q[i] : i \in DOMAIN q}

\* A slot of local_players_ holds a Player of that uid; queues, stored lists
\* and the answers that carry them hold only their user's messages; and
\* broadcast_message_list_ holds no private message.
SlotsAddressed ==
    \A s \in Server, u \in Uid : IsPlayer(s, u) =>
        Made(local[s][u]) /\ player[local[s][u]].uid = u
QueuesAddressed ==
    \A h \in Handle : Made(h) =>
        \A m \in Elements(player[h].queue) : m.receiver = player[h].uid
MailboxesAddressed ==
    \A u \in Uid : \A m \in Elements(mailbox[u]) : m.receiver = u
AnswersAddressed ==
    \A s \in Server : \A a \in Elements(answer[s]) :
        a.op = "lrangeMsg" => \A m \in Elements(a.list) : m.receiver = a.uid
BroadcastsListed ==
    \A s \in Server : \A m \in Elements(bcast[s]) : m.type # "private"

\* A private message is only ever sent towards its receiver, whichever way it
\* took: local queue, offline store or another server (Player.cc 14-39,
\* Lobby.cc 53-128).
PrivateStaysPrivate ==
    \A h \in Handle, m \in Message :
        Made(h) /\ m.type = "private" /\ player[h].sent[m] > 0 => m.receiver = player[h].uid

\* A user's slot in local_players_ is taken over by nobody: while the server
\* runs, an occupied slot changes only by the logout of its Player, and a null
\* that operator[] left there (Lobby.cc 110, 253) is never repaired.
SlotSticky ==
    [][\A s \in Server, u \in Uid :
         alive'[s] /\ local[s][u] # Absent /\ local'[s][u] # local[s][u]
             => local[s][u] # Null /\ local'[s][u] = Absent]_vars

\* No message of a sender is sent to a player whose black list held the
\* sender when the timer fired, even one queued before (Player.h 58-64).
BlackListRespected ==
    [][\A h \in Handle, m \in Message :
         Made(h) /\ m.sender \in player[h].black => player'[h].sent[m] = player[h].sent[m]]_vars

\* A private message reaches its receiver at most once over all of the
\* receiver's logins, a broadcast at most once per login; accounts do not log
\* in twice at a time.  With several servers there is one exception: the list
\* that one server has read and not yet deleted (the DEL follows one round
\* trip later) is read by another one, and both give what is on it to their
\* Player (Lobby.cc 19-21, 107-122).
AtMostOnce ==
    /\ \A h \in Handle, m \in Message : Made(h) => player[h].sent[m] <= 1
    /\ \A m \in Message, g, h \in Handle :
          m.type = "private" /\ Made(g) /\ Made(h) /\ player[g].sent[m] > 0 /\ player[h].sent[m] > 0
              => \/ g = h
                 \/ /\ ServerOf[player[g].conn] # ServerOf[player[h].conn]
                    /\ {<<g, m>>, <<h, m>>} \subseteq fetched

\* What still owns a private message
Waiting(m) ==
    \/ \E s \in Server : \/ \E c \in Elements(pipe[s]) : c.op \in {"getOnline", "rpushMsg"} /\ c.msg = m
                         \/ \E a \in Elements(answer[s]) : a.op = "getOnline" /\ a.msg = m
                         \/ \E a \in Elements(answer[s]) : a.op = "lrangeMsg" /\ m \in Elements(a.list)
                         \/ \E h \in active[s] : m \in Elements(player[h].queue)
                         \/ \E t \in Server : alive[t] /\ m \in Elements(wire[s][t])
    \/ m \in Elements(mailbox[m.receiver])

SentTo(m) == \E h \in Handle : Made(h) /\ player[h].sent[m] > 0

\* A Player of the receiver, on a server or on its list for the next tick,
\* has black-listed the sender.
Blocked(m) ==
    \E s \in Server : \E h \in Hearers(s) \cup active[s] :
        player[h].uid = m.receiver /\ isInBlackList(player[h].black, m)

\* The next tick takes m from a queue, but the connection is closing, or
\* leaves it there, behind a whole batch, and forgets about the player.
Ended(m) ==
    \E s \in Server : \E h \in active[s] : m \in Elements(player[h].queue) /\ cstate[player[h].conn] # "up"
Behind(m) ==
    \E s \in Server : \E h \in active[s] : \E i \in DOMAIN player[h].queue : i > Batch /\ player[h].queue[i] = m

\* Redis names another server for the receiver, but that one is not among the
\* peers, or it has ended.
Unreachable(m) ==
    \E s \in Server : LET a == Head(answer[s])
                      IN  /\ answer[s] # <<>> /\ a.op = "getOnline" /\ a.msg = m
                          /\ a.at \in Server \ {s} /\ (a.at \in Peer[s] => ~ alive[a.at])

\* The next command deletes an offline list m is on.
ListDropped(m) ==
    \E s \in Server : /\ pipe[s] # <<>>
                      /\ Head(pipe[s]) = [op |-> "delMsg", uid |-> m.receiver]
                      /\ m \in Elements(mailbox[m.receiver])

\* A private message stops waiting only by being sent, by the receiver's black
\* list, on a connection that is closing, behind a whole batch, on a server
\* that cannot reach the one Redis names, with a process, or in the one race
\* the code has: stored after a login's LRANGE and before its DEL
\* (Lobby.cc 19-21, 120-122).
NoSilentLoss ==
    [][\A m \in Message :
         Waiting(m) /\ m.type = "private" /\ ~ Waiting(m)' =>
            \/ SentTo(m)' \/ Blocked(m) \/ Ended(m) \/ Behind(m)
            \/ Unreachable(m) \/ ListDropped(m)
            \/ \E s \in Server : alive[s] /\ ~ alive'[s]]_vars

\* Every message queued for a player will be looked at by the next tick: the
\* player is in active_players_ of the server its connection leads to.  Needs
\* queues that never outgrow a batch: the tick clears active_players_ also of
\* players with messages left (Lobby.cc 155-158, Player.cc 14-39).
QueueTracked ==
    \A h \in Handle : Made(h) /\ player[h].queue # <<>> =>
        LET s == ServerOf[player[h].conn]
        IN  h \in active[s] \/ ~ alive[s]

\* With one server the last SET or DEL on its way to <u>:online always says
\* whether u has a slot, so that a user who is not in local_players_ is
\* offline in Redis and never looked for elsewhere.
LastWord(s, u) ==
    LET I == {i \in DOMAIN pipe[s] : pipe[s][i].op \in {"setOnline", "delOnline"} /\ pipe[s][i].uid = u}
    IN  IF I = {} THEN online[u]
        ELSE IF pipe[s][CHOOSE i \in I : \A j \in I : j <= i].op = "setOnline" THEN s ELSE Absent

OnlineIsLocal ==
    \A s \in Server, u \in Account :
        alive[s] => /\ local[s][u] = Absent => LastWord(s, u) = Absent
                    /\ IsPlayer(s, u) => LastWord(s, u) = s

\* No message is dropped because its receiver is "on" the server that looks
\* for it
\* (the "invalid server id" branch of forwardMessage).
NeverForwardedToSelf ==
    \A s \in Server : \A a \in Elements(answer[s]) : a.op = "getOnline" => a.at # s

\* A broadcast only leaves the list of a server when every player the server
\* has at that time was sent it, unless the player blocks the sender or its
\* connection has ended: players come, go and are replaced while it waits.
BroadcastReaches ==
    [][\A s \in Server : alive'[s] =>
         \A m \in Elements(bcast[s]) \ Elements(bcast'[s]), h \in Hearers(s) :
             \/ cstate[player[h].conn] # "up"
             \/ m.sender \in player[h].black
             \/ player'[h].sent[m] > 0]_vars

\* Nothing stays under way for ever: every private message comes to rest, at
\* its receiver, in the offline store or nowhere.
UnderWay(m) ==
    \/ \E s, t \in Server : m \in Elements(wire[s][t]) /\ alive[t]
    \/ Waiting(m) /\ m \notin Elements(mailbox[m.receiver])

Settles == \A m \in Message : UnderWay(m) ~> ~ UnderWay(m)

=============================================================================
