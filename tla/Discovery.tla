----------------------------- MODULE Discovery -----------------------------
(***************************************************************************)
(* How the processes find the chat servers.  A second after its launch a   *)
(* chat server reads the set server:info, adds itself to it and publishes  *)
(* itself on service_notify; a second later it subscribes to that channel, *)
(* on a connection of its own.  A thread of the proxy only subscribes.     *)
(* Each chat server keeps a TcpClient for each other one in                *)
(* other_servers_, the proxy thread one for each area.                     *)
(*                                                                         *)
(* Redis does not stop, a chat server that ends may be launched again with *)
(* the same area and port, and the proxy is started once.                  *)
(*                                                                         *)
(* An operator XMutant is a wrong X, put in its place to see that the      *)
(* properties notice; nothing else uses it.                                *)
(***************************************************************************)
EXTENDS Integers, Sequences

CONSTANTS
    Server,     \* chat servers
    Proxy,      \* a thread of the proxy
    AreaOf,     \* [Server -> Nat], the first argument of a chat server
    MaxLaunch,  \* bound: launches of chat servers
    None

ASSUME DiscoveryAssumption ==
    /\ Proxy \notin Server
    /\ AreaOf \in [Server -> Nat]
    /\ MaxLaunch \in Nat

VARIABLES
    phase,          \* how far each process has got
    launches,       \* launches so far
    pipe,           \* commands of a chat server that are not executed
    reply,          \* the reply to SMEMBERS, until its callback
    server_info,    \* the set server:info
    notices,        \* published servers whose callback has not run
    other_servers_, \* the TcpClient of each chat server to each other one
    chat_server,    \* chat_server_area_1 and _2 of the proxy thread
    closing         \* connections of TcpClients that are gone, to be closed

start == <<phase, launches, pipe, reply>>
redis == <<server_info, notices>>
vars == <<start, redis, other_servers_, chat_server, closing>>

Area    == {1, 2}
Process == Server \cup {Proxy}

TypeOK ==
    /\ phase \in [Process -> {"down", "launched", "started", "subscribed"}]
    /\ launches \in 0..MaxLaunch
    /\ pipe \in [Server -> Seq({"SMEMBERS", "SADD", "PUBLISH"})]
    /\ reply \in [Server -> (SUBSET Server) \cup {None}]
    /\ server_info \subseteq Server
    /\ notices \in [Process -> Seq(Server)]
    /\ other_servers_ \in [Server -> [Server ->
           {"none", "connecting", "connected", "lost"}]]
    /\ chat_server \in [Area -> {None} \cup
           [server : Server, link : {"connecting", "connected", "broken"}]]
    /\ closing \in [Area -> Nat]

NoClients == [s \in Server |-> "none"]

Init ==
    /\ phase = [p \in Process |-> IF p = Proxy THEN "launched" ELSE "down"]
    /\ launches = 0
    /\ pipe = [s \in Server |-> <<>>]
    /\ reply = [s \in Server |-> None]
    /\ server_info = {}
    /\ notices = [p \in Process |-> <<>>]
    /\ other_servers_ = [s \in Server |-> NoClients]
    /\ chat_server = [a \in Area |-> None]
    /\ closing = [a \in Area |-> 0]

-----------------------------------------------------------------------------
(* Chat servers *)

\* chat.cc: main
Launch(s) ==
    /\ phase[s] = "down" /\ launches < MaxLaunch
    /\ phase' = [phase EXCEPT ![s] = "launched"]
    /\ launches' = launches + 1
    /\ UNCHANGED <<pipe, reply, redis, other_servers_, chat_server, closing>>

\* The commands of Lobby::start
StartCommandsMutant == <<"SMEMBERS", "SADD">>
StartCommands == <<"SMEMBERS", "SADD", "PUBLISH">>

\* The timer of main: Lobby::start, all but its timer
Start(s) ==
    /\ phase[s] = "launched"
    /\ phase' = [phase EXCEPT ![s] = "started"]
    /\ pipe' = [pipe EXCEPT ![s] = StartCommands]
    /\ UNCHANGED <<launches, reply, redis, other_servers_, chat_server, closing>>

\* The timer of Lobby::start, or that of a proxy thread, and the execution of
\* its SUBSCRIBE
Subscribe(p) ==
    /\ phase[p] = IF p = Proxy THEN "launched" ELSE "started"
    /\ phase' = [phase EXCEPT ![p] = "subscribed"]
    /\ UNCHANGED <<launches, pipe, reply, redis, other_servers_, chat_server, closing>>

\* Lobby::newServerInfo for each of infos, by chat server s: not itself, and
\* not one that has a TcpClient already, whatever has become of that.
NewServerInfoMutant(s, infos) ==
    other_servers_' = [other_servers_ EXCEPT ![s] = [t \in Server |->
        IF t \in infos /\ @[t] = "none" THEN "connecting" ELSE @[t]]]
NewServerInfo(s, infos) ==
    other_servers_' = [other_servers_ EXCEPT ![s] = [t \in Server |->
        IF t \in infos \ {s} /\ @[t] = "none" THEN "connecting" ELSE @[t]]]

\* The callback of SMEMBERS
Members(s) ==
    /\ reply[s] # None
    /\ NewServerInfo(s, reply[s])
    /\ reply' = [reply EXCEPT ![s] = None]
    /\ UNCHANGED <<phase, launches, pipe, redis, chat_server, closing>>

\* The callback of SUBSCRIBE in a chat server
ServerNotified(s) ==
    /\ notices[s] # <<>>
    /\ NewServerInfo(s, {Head(notices[s])})
    /\ notices' = [notices EXCEPT ![s] = Tail(@)]
    /\ UNCHANGED <<start, server_info, chat_server, closing>>

\* Connector tries until it has a connection.
Connected(s, t) ==
    /\ other_servers_[s][t] = "connecting" /\ phase[t] # "down"
    /\ other_servers_' = [other_servers_ EXCEPT ![s][t] = "connected"]
    /\ UNCHANGED <<start, redis, chat_server, closing>>

-----------------------------------------------------------------------------
(* The proxy thread *)

\* A server of any area but 1 is taken for one of area 2.
SlotOf(s) == IF AreaOf[s] = 1 THEN 1 ELSE 2

\* TcpClient::~TcpClient of the client of area a: a connection is closed
\* later, and then runs the client's connection callback.
Destroyed(a) ==
    closing' = [closing EXCEPT ![a] =
        IF chat_server[a] # None /\ chat_server[a].link # "connecting" THEN @ + 1 ELSE @]

\* The callback of SUBSCRIBE in redis_init_subscribe
ProxyNotified ==
    LET s == Head(notices[Proxy])
    IN  /\ notices[Proxy] # <<>>
        /\ notices' = [notices EXCEPT ![Proxy] = Tail(@)]
        /\ chat_server' = [chat_server EXCEPT ![SlotOf(s)] =
               [server |-> s, link |-> "connecting"]]
        /\ Destroyed(SlotOf(s))
        /\ UNCHANGED <<start, server_info, other_servers_>>

\* The connection callback, which does nothing for a new connection
ProxyConnectedMutant(a) ==                       \* disconnected() not asked
    /\ chat_server[a] # None
    /\ chat_server[a].link = "connecting" /\ phase[chat_server[a].server] # "down"
    /\ chat_server' = [chat_server EXCEPT ![a] = None]
    /\ UNCHANGED <<start, redis, other_servers_, closing>>
ProxyConnected(a) ==
    /\ chat_server[a] # None
    /\ chat_server[a].link = "connecting" /\ phase[chat_server[a].server] # "down"
    /\ chat_server' = [chat_server EXCEPT ![a].link = "connected"]
    /\ UNCHANGED <<start, redis, other_servers_, closing>>

\* The connection callback, when the server has closed the connection
ProxyClosed(a) ==
    /\ chat_server[a] # None /\ chat_server[a].link = "broken"
    /\ chat_server' = [chat_server EXCEPT ![a] = None]
    /\ UNCHANGED <<start, redis, other_servers_, closing>>

\* The connection callback of a client that is gone resets the pointer to
\* its successor, and destroys it.
ProxyForcedMutant(a) ==                          \* also for no client
    /\ chat_server' = [chat_server EXCEPT ![a] = None]
    /\ closing' = [closing EXCEPT ![a] =
           IF chat_server[a] # None /\ chat_server[a].link # "connecting" THEN @ ELSE @ - 1]
    /\ UNCHANGED <<start, redis, other_servers_>>
ProxyForced(a) ==
    /\ closing[a] > 0
    /\ chat_server' = [chat_server EXCEPT ![a] = None]
    /\ closing' = [closing EXCEPT ![a] =
           IF chat_server[a] # None /\ chat_server[a].link # "connecting" THEN @ ELSE @ - 1]
    /\ UNCHANGED <<start, redis, other_servers_>>

-----------------------------------------------------------------------------
(* Redis, and the end of a chat server *)

RedisExec(s) ==
    /\ pipe[s] # <<>>
    /\ pipe' = [pipe EXCEPT ![s] = Tail(@)]
    /\ \/ /\ Head(pipe[s]) = "SMEMBERS"
          /\ reply' = [reply EXCEPT ![s] = server_info]
          /\ UNCHANGED <<server_info, notices>>
       \/ /\ Head(pipe[s]) = "SADD"
          /\ server_info' = server_info \cup {s}
          /\ UNCHANGED <<reply, notices>>
       \/ /\ Head(pipe[s]) = "PUBLISH"
          /\ notices' = [p \in Process |->
                 IF phase[p] = "subscribed" THEN Append(notices[p], s) ELSE notices[p]]
          /\ UNCHANGED <<reply, server_info>>
    /\ UNCHANGED <<phase, launches, other_servers_, chat_server, closing>>

\* TcpClient::removeConnection in another chat server: retry_ is false, so
\* the TcpClient stays without a connection.
Lost(link) == IF link = "connected" THEN "lost" ELSE link

\* server:info keeps the server.  The other chat servers, which do nothing
\* else about it, run removeConnection in the same step.
Die(s) ==
    /\ phase[s] # "down"
    /\ phase' = [phase EXCEPT ![s] = "down"]
    /\ pipe' = [pipe EXCEPT ![s] = <<>>]
    /\ reply' = [reply EXCEPT ![s] = None]
    /\ notices' = [notices EXCEPT ![s] = <<>>]
    /\ other_servers_' = [t \in Server |->
           IF t = s THEN NoClients
           ELSE [other_servers_[t] EXCEPT ![s] = Lost(@)]]
    /\ chat_server' = [a \in Area |->
           IF chat_server[a] # None /\ chat_server[a].server = s
           THEN [chat_server[a] EXCEPT !.link = IF @ = "connected" THEN "broken" ELSE @]
           ELSE chat_server[a]]
    /\ UNCHANGED <<launches, server_info, closing>>

-----------------------------------------------------------------------------
ServerStep(s) ==
    \/ Start(s) \/ Members(s) \/ ServerNotified(s)
    \/ \E t \in Server : Connected(s, t)
ProxyStep ==
    \/ ProxyNotified
    \/ \E a \in Area : ProxyConnected(a) \/ ProxyClosed(a) \/ ProxyForced(a)

Next ==
    \/ \E s \in Server : Launch(s) \/ Die(s) \/ ServerStep(s) \/ RedisExec(s)
    \/ \E p \in Process : Subscribe(p)
    \/ ProxyStep

\* The timers go off, Redis executes what it is sent and the event loops run
\* the callbacks.  No one has to launch a server.
Fairness ==
    /\ \A p \in Process : WF_vars(Subscribe(p))
    /\ \A s \in Server :
           /\ WF_vars(Start(s)) /\ WF_vars(Members(s)) /\ WF_vars(ServerNotified(s))
           /\ WF_vars(RedisExec(s))
           /\ \A t \in Server : WF_vars(Connected(s, t))
    /\ WF_vars(ProxyNotified)
    /\ \A a \in Area :
           WF_vars(ProxyConnected(a)) /\ WF_vars(ProxyClosed(a)) /\ WF_vars(ProxyForced(a))

Spec == Init /\ [][Next]_vars /\ Fairness

-----------------------------------------------------------------------------
(* Properties *)

Ready(s) == phase[s] = "subscribed" /\ pipe[s] = <<>>

\* No chat server connects to itself, though server:info still has it when
\* it is launched again, and every message it forwards would come back.
NeverDialsSelf == \A s \in Server : other_servers_[s][s] = "none"

\* A server that is launched when another one is ready and has not met it
\* before is connected to it, and it to the newcomer: the set tells one of
\* them and the channel the other.
Acquainted ==
    \A s, t \in Server :
        s # t /\ Ready(s) /\ other_servers_[s][t] = "none" /\ phase[t] = "launched" ~>
            \/ phase[s] = "down" \/ phase[t] = "down"
            \/ other_servers_[s][t] = "connected" /\ other_servers_[t][s] = "connected"

\* The proxy thread has no client for the area of s, and none is due.
Unserved(s) ==
    /\ chat_server[SlotOf(s)] = None /\ closing[SlotOf(s)] = 0
    /\ \A i \in DOMAIN notices[Proxy] : SlotOf(notices[Proxy][i]) # SlotOf(s)

\* A server that is about to publish itself, for the first time or again,
\* gets a connection from a proxy thread that has subscribed and has none for
\* its area, if the area has no other server.  Without Unserved the callback
\* of the earlier connection may come later and reset the new client.
Served ==
    \A s \in Server :
        /\ phase[Proxy] = "subscribed" /\ Unserved(s)
        /\ \E i \in DOMAIN pipe[s] : pipe[s][i] = "PUBLISH"
        ~> phase[s] = "down" \/ chat_server[SlotOf(s)] = [server |-> s, link |-> "connected"]
=============================================================================
