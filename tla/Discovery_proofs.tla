-------------------------- MODULE Discovery_proofs --------------------------
(***************************************************************************)
(* That no chat server ever dials itself, however often the servers are    *)
(* launched and whatever server:info holds, for any number of servers,     *)
(* areas and launches.                                                     *)
(***************************************************************************)
EXTENDS Discovery, TLAPS

Command == {"SMEMBERS", "SADD", "PUBLISH"}
Link    == {"none", "connecting", "connected", "lost"}
Client  == [server : Server, link : {"connecting", "connected", "broken"}]

\* NeverDialsSelf is inductive once the types are known.
IInv == TypeOK /\ NeverDialsSelf

-----------------------------------------------------------------------------
LEMMA TailFacts ==
    ASSUME NEW S, NEW q \in Seq(S), q # <<>>
    PROVE  Tail(q) \in Seq(S) /\ Head(q) \in S
  OBVIOUS

\* What is added to other_servers_: links of the right type, and none to
\* the server itself.
LEMMA NewServerInfoKeeps ==
    ASSUME IInv, NEW s \in Server, NEW infos, NewServerInfo(s, infos)
    PROVE  /\ other_servers_' \in [Server -> [Server -> Link]]
           /\ NeverDialsSelf'
<1>1. other_servers_ \in [Server -> [Server -> Link]]
  BY DEF IInv, TypeOK, Link
<1> DEFINE new == [t \in Server |-> IF t \in infos \ {s} /\ other_servers_[s][t] = "none"
                                    THEN "connecting" ELSE other_servers_[s][t]]
<1>2. new \in [Server -> Link]
  BY <1>1 DEF Link
<1>3. other_servers_' = [other_servers_ EXCEPT ![s] = new]
  BY DEF NewServerInfo
<1>4. new[s] = "none"
  BY DEF IInv, NeverDialsSelf
<1> HIDE DEF new
<1>5. other_servers_' \in [Server -> [Server -> Link]]
  BY <1>1, <1>2, <1>3
<1>6. \A t \in Server : other_servers_'[t][t] = "none"
  BY <1>1, <1>3, <1>4 DEF IInv, NeverDialsSelf
<1> QED BY <1>5, <1>6 DEF NeverDialsSelf

\* A server that leaves has no clients; those of the others to it are lost.
LEMMA DieKeeps ==
    ASSUME IInv, NEW s \in Server, Die(s)
    PROVE  IInv'
<1> USE DEF Die
<1>1. phase' \in [Process -> {"down", "launched", "started", "subscribed"}]
  BY DEF IInv, TypeOK, Process
<1>2. /\ pipe' \in [Server -> Seq(Command)]
      /\ notices' \in [Process -> Seq(Server)]
  BY DEF IInv, TypeOK, Process, Command
<1>3. reply' \in [Server -> (SUBSET Server) \cup {None}]
  BY DEF IInv, TypeOK
<1>4. other_servers_ \in [Server -> [Server -> Link]]
  BY DEF IInv, TypeOK, Link
<1>5. \A t \in Server : /\ other_servers_'[t] \in [Server -> Link]
                        /\ other_servers_'[t][t] = "none"
  <2> SUFFICES ASSUME NEW t \in Server
               PROVE  other_servers_'[t] \in [Server -> Link] /\ other_servers_'[t][t] = "none"
    OBVIOUS
  <2>1. CASE t = s
    BY <2>1 DEF NoClients, Link
  <2>2. CASE t # s
    <3>1. other_servers_'[t] = [other_servers_[t] EXCEPT ![s] = Lost(@)]
      BY <2>2
    <3>2. Lost(other_servers_[t][s]) \in Link
      BY <1>4 DEF Lost, Link
    <3> QED BY <1>4, <2>2, <3>1, <3>2 DEF IInv, NeverDialsSelf
  <2> QED BY <2>1, <2>2
<1>6. other_servers_' \in [Server -> [Server -> Link]]
  BY <1>4, <1>5
<1>7. chat_server' \in [Area -> {None} \cup Client]
  <2> SUFFICES ASSUME NEW a \in Area, chat_server[a] # None, chat_server[a].server = s
               PROVE  [chat_server[a] EXCEPT !.link = IF @ = "connected" THEN "broken" ELSE @]
                          \in Client
    BY DEF IInv, TypeOK, Client
  <2>1. chat_server[a] \in Client
    BY DEF IInv, TypeOK, Client
  <2> QED BY <2>1 DEF Client
<1> QED BY <1>1, <1>2, <1>3, <1>5, <1>6, <1>7
        DEF IInv, TypeOK, NeverDialsSelf, Command, Link, Client

\* A step of Redis: replies, the set and the notices.
LEMMA RedisKeeps ==
    ASSUME IInv, NEW s \in Server, RedisExec(s)
    PROVE  IInv'
<1> USE DEF RedisExec
<1>1. pipe[s] \in Seq(Command) /\ pipe[s] # <<>>
  BY DEF IInv, TypeOK, Command
<1>2. pipe' \in [Server -> Seq(Command)]
  BY <1>1, TailFacts DEF IInv, TypeOK, Command
<1>3. reply' \in [Server -> (SUBSET Server) \cup {None}] /\ server_info' \subseteq Server
  BY DEF IInv, TypeOK
<1>4. notices' \in [Process -> Seq(Server)]
  <2>1. \A p \in Process : notices[p] \in Seq(Server) /\ Append(notices[p], s) \in Seq(Server)
    BY DEF IInv, TypeOK
  <2>2. CASE notices' = notices
    BY <2>2 DEF IInv, TypeOK
  <2>3. CASE notices' = [p \in Process |->
                IF phase[p] = "subscribed" THEN Append(notices[p], s) ELSE notices[p]]
    <3> DEFINE after(p) == IF phase[p] = "subscribed" THEN Append(notices[p], s) ELSE notices[p]
    <3>1. \A p \in Process : after(p) \in Seq(Server)
      BY <2>1
    <3>2. notices' = [p \in Process |-> after(p)]
      BY <2>3
    <3> HIDE DEF after
    <3> QED BY <3>1, <3>2
  <2> QED BY <2>2, <2>3
<1> QED BY <1>2, <1>3, <1>4 DEF IInv, TypeOK, NeverDialsSelf, Command

\* The callbacks of the proxy thread.
LEMMA ProxyKeeps ==
    ASSUME IInv, ProxyStep
    PROVE  IInv'
<1>1. /\ chat_server \in [Area -> {None} \cup Client]
      /\ closing \in [Area -> Nat]
  BY DEF IInv, TypeOK, Client
<1> SUFFICES /\ chat_server' \in [Area -> {None} \cup Client]
             /\ closing' \in [Area -> Nat]
             /\ notices' \in [Process -> Seq(Server)]
             /\ UNCHANGED <<start, server_info, other_servers_>>
  BY DEF IInv, TypeOK, NeverDialsSelf, Client, start
<1>2. CASE ProxyNotified
  <2>1. notices[Proxy] \in Seq(Server) /\ notices[Proxy] # <<>>
    BY <1>2 DEF IInv, TypeOK, Process, ProxyNotified
  <2>2. Head(notices[Proxy]) \in Server /\ Tail(notices[Proxy]) \in Seq(Server)
    BY <2>1, TailFacts
  <2>3. notices' \in [Process -> Seq(Server)]
    BY <1>2, <2>2 DEF IInv, TypeOK, ProxyNotified
  <2>4. SlotOf(Head(notices[Proxy])) \in Area
    BY DEF SlotOf, Area
  <2>5. chat_server' \in [Area -> {None} \cup Client]
    BY <1>1, <1>2, <2>2 DEF ProxyNotified, Client
  <2>6. closing' \in [Area -> Nat]
    BY <1>1, <1>2, <2>4 DEF ProxyNotified, Destroyed
  <2> QED BY <1>2, <2>3, <2>5, <2>6 DEF ProxyNotified
<1>3. ASSUME NEW a \in Area, ProxyConnected(a)
      PROVE  chat_server' \in [Area -> {None} \cup Client]
  <2>1. chat_server[a] \in Client
    BY <1>1, <1>3 DEF ProxyConnected
  <2>2. [chat_server[a] EXCEPT !.link = "connected"] \in Client
    BY <2>1 DEF Client
  <2> QED BY <1>1, <1>3, <2>2 DEF ProxyConnected
<1>4. ASSUME NEW a \in Area, ProxyClosed(a)
      PROVE  chat_server' \in [Area -> {None} \cup Client]
  BY <1>1, <1>4 DEF ProxyClosed
<1>5. ASSUME NEW a \in Area, ProxyForced(a)
      PROVE  chat_server' \in [Area -> {None} \cup Client] /\ closing' \in [Area -> Nat]
  BY <1>1, <1>5 DEF ProxyForced
<1>6. notices \in [Process -> Seq(Server)]
  BY DEF IInv, TypeOK
<1> QED BY <1>1, <1>2, <1>3, <1>4, <1>5, <1>6
        DEF ProxyStep, ProxyConnected, ProxyClosed, ProxyForced, redis

LEMMA ServerKeeps ==
    ASSUME IInv, NEW s \in Server, Launch(s) \/ ServerStep(s)
    PROVE  IInv'
<1>1. CASE Launch(s)
  BY <1>1, DiscoveryAssumption DEF Launch, IInv, TypeOK, NeverDialsSelf, redis, Process
<1>2. CASE Start(s)
  <2>1. StartCommands \in Seq(Command)
    BY DEF StartCommands, Command
  <2>2. pipe' \in [Server -> Seq(Command)]
    BY <1>2, <2>1 DEF Start, IInv, TypeOK, Command
  <2> HIDE DEF StartCommands
  <2> QED BY <1>2, <2>2 DEF Start, IInv, TypeOK, NeverDialsSelf, redis, Process, Command
<1>3. CASE Members(s)
  <2>1. /\ other_servers_' \in [Server -> [Server -> Link]]
        /\ NeverDialsSelf'
    BY <1>3, NewServerInfoKeeps DEF Members
  <2> QED BY <1>3, <2>1 DEF Members, IInv, TypeOK, redis, Link
<1>4. CASE ServerNotified(s)
  <2>1. /\ other_servers_' \in [Server -> [Server -> Link]]
        /\ NeverDialsSelf'
    BY <1>4, NewServerInfoKeeps DEF ServerNotified
  <2>2. notices' \in [Process -> Seq(Server)]
    <3>1. notices[s] \in Seq(Server) /\ notices[s] # <<>>
      BY <1>4 DEF ServerNotified, IInv, TypeOK, Process
    <3> QED BY <1>4, <3>1, TailFacts DEF ServerNotified, IInv, TypeOK
  <2> QED BY <1>4, <2>1, <2>2 DEF ServerNotified, IInv, TypeOK, start, Link
<1>5. ASSUME NEW t \in Server, Connected(s, t)
      PROVE  IInv'
  <2>1. other_servers_ \in [Server -> [Server -> Link]]
    BY DEF IInv, TypeOK, Link
  <2>2. s # t
    BY <1>5 DEF Connected, IInv, NeverDialsSelf
  <2>3. other_servers_' \in [Server -> [Server -> Link]]
    BY <1>5, <2>1 DEF Connected, Link
  <2>4. NeverDialsSelf'
    BY <1>5, <2>1, <2>2 DEF Connected, IInv, NeverDialsSelf
  <2> QED BY <1>5, <2>3, <2>4 DEF Connected, IInv, TypeOK, start, redis, Link
<1> QED BY <1>1, <1>2, <1>3, <1>4, <1>5 DEF ServerStep

-----------------------------------------------------------------------------
LEMMA Inductive == Spec => []IInv
<1>1. Init => IInv
  BY DiscoveryAssumption DEF Init, IInv, TypeOK, NeverDialsSelf, NoClients, Process, Area
<1>2. IInv /\ [Next]_vars => IInv'
  <2> SUFFICES ASSUME IInv, [Next]_vars PROVE IInv'
    OBVIOUS
  <2>1. ASSUME NEW p \in Process, Subscribe(p)
        PROVE  IInv'
    BY <2>1 DEF Subscribe, IInv, TypeOK, NeverDialsSelf, redis
  <2>2. CASE UNCHANGED vars
    BY <2>2 DEF vars, start, redis, IInv, TypeOK, NeverDialsSelf
  <2> QED BY <2>1, <2>2, DieKeeps, RedisKeeps, ProxyKeeps, ServerKeeps DEF Next
<1> QED BY <1>1, <1>2, PTL DEF Spec

\* Every variable keeps its type: among others closing is never negative,
\* so that ProxyForced runs once for each connection that is closed.
THEOREM TypeCorrect == Spec => []TypeOK
<1>1. IInv => TypeOK
  BY DEF IInv
<1> QED BY <1>1, Inductive, PTL

\* Lobby::newServerInfo: no chat server has a TcpClient to itself, though
\* server:info and the channel both bring back its own description.
THEOREM NobodyDialsSelf == Spec => []NeverDialsSelf
<1>1. IInv => NeverDialsSelf
  BY DEF IInv
<1> QED BY <1>1, Inductive, PTL
=============================================================================
