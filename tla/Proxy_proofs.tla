---------------------------- MODULE Proxy_proofs ----------------------------
(***************************************************************************)
(* What a thread of the proxy may never do, for any number of clients and  *)
(* users, that send what they like when they like and whose numbers may    *)
(* collide: its state has its types; nothing is written to a client that   *)
(* neither asked nor gave the password of the user it is for, but in the   *)
(* ways that are named; a client that is logged in is the one registered;  *)
(* and a registered connection is gone in two cases only.                  *)
(***************************************************************************)
EXTENDS Proxy, TLAPS

LoginRequest == [client : Client, area : Area]
Delivery     == [to : Client, frame : Frame]

\* What a chat server answers has the uid of a user or an area, and only a
\* LOGIN names a user before it is answered.
Truthful ==
    /\ \A a \in Area : \A i \in DOMAIN fromChat[a] : fromChat[a][i].uid \in Key
    /\ \A a \in Area : \A i \in DOMAIN toChat[a] :
           /\ toChat[a][i].type # "LOGOUT" => toChat[a][i].uid \in Key
           /\ toChat[a][i].type # "LOGIN" => toChat[a][i].user = None

TInv == TypeOK /\ Truthful

-----------------------------------------------------------------------------
(* Sequences and frames *)

LEMMA TailFacts ==
    ASSUME NEW S, NEW q \in Seq(S), q # <<>>
    PROVE  /\ Tail(q) \in Seq(S) /\ Head(q) \in S /\ Head(q) = q[1] /\ 1 \in DOMAIN q
           /\ \A i \in DOMAIN Tail(q) : i + 1 \in DOMAIN q /\ Tail(q)[i] = q[i + 1]
  OBVIOUS

LEMMA AppendFacts ==
    ASSUME NEW S, NEW q \in Seq(S), NEW e \in S
    PROVE  /\ Append(q, e) \in Seq(S)
           /\ \A i \in DOMAIN Append(q, e) :
                  \/ i \in DOMAIN q /\ Append(q, e)[i] = q[i]
                  \/ Append(q, e)[i] = e
  OBVIOUS

\* What is sent to a chat server is the frame, behind those that are there.
LEMMA ToServerFacts ==
    ASSUME toChat \in [Area -> Seq(Frame)], NEW a \in Area, NEW f \in Frame, ToServer(a, f)
    PROVE  /\ toChat' \in [Area -> Seq(Frame)]
           /\ \A b \in Area : \A i \in DOMAIN toChat'[b] :
                  \/ i \in DOMAIN toChat[b] /\ toChat'[b][i] = toChat[b][i]
                  \/ toChat'[b][i] = f
<1> HIDE DEF Frame
<1>1. toChat[a] \in Seq(Frame)
  OBVIOUS
<1>2. /\ Append(toChat[a], f) \in Seq(Frame)
      /\ \A i \in DOMAIN Append(toChat[a], f) :
             \/ i \in DOMAIN toChat[a] /\ Append(toChat[a], f)[i] = toChat[a][i]
             \/ Append(toChat[a], f)[i] = f
  BY <1>1, AppendFacts
<1>3. CASE serving[a]
  <2>1. toChat' = [toChat EXCEPT ![a] = Append(toChat[a], f)]
    BY <1>3 DEF ToServer
  <2> QED BY <1>2, <2>1
<1>4. CASE ~ serving[a]
  <2>1. toChat' = toChat
    BY <1>4 DEF ToServer
  <2> QED BY <2>1
<1> QED BY <1>3, <1>4

LEMMA AnswerFacts ==
    ASSUME fromChat \in [Area -> Seq(Frame)], NEW a \in Area, NEW f \in Frame, Answer(a, f)
    PROVE  /\ fromChat' \in [Area -> Seq(Frame)]
           /\ \A b \in Area : \A i \in DOMAIN fromChat'[b] :
                  \/ i \in DOMAIN fromChat[b] /\ fromChat'[b][i] = fromChat[b][i]
                  \/ fromChat'[b][i] = f
<1> HIDE DEF Frame
<1>1. fromChat[a] \in Seq(Frame)
  OBVIOUS
<1>2. /\ Append(fromChat[a], f) \in Seq(Frame)
      /\ \A i \in DOMAIN Append(fromChat[a], f) :
             \/ i \in DOMAIN fromChat[a] /\ Append(fromChat[a], f)[i] = fromChat[a][i]
             \/ Append(fromChat[a], f)[i] = f
  BY <1>1, AppendFacts
<1>3. fromChat' = [fromChat EXCEPT ![a] = Append(fromChat[a], f)]
  BY DEF Answer
<1> QED BY <1>2, <1>3

\* Taking the first frame of a queue leaves frames that were there.
LEMMA TakeFacts ==
    ASSUME NEW box \in [Area -> Seq(Frame)], NEW a \in Area, box[a] # <<>>
    PROVE  /\ Head(box[a]) \in Frame /\ 1 \in DOMAIN box[a] /\ Head(box[a]) = box[a][1]
           /\ [box EXCEPT ![a] = Tail(@)] \in [Area -> Seq(Frame)]
           /\ \A b \in Area : \A i \in DOMAIN [box EXCEPT ![a] = Tail(@)][b] :
                  \E j \in DOMAIN box[b] : [box EXCEPT ![a] = Tail(@)][b][i] = box[b][j]
<1> HIDE DEF Frame
<1>1. box[a] \in Seq(Frame) /\ box[a] # <<>>
  OBVIOUS
<1>2. /\ Tail(box[a]) \in Seq(Frame) /\ Head(box[a]) \in Frame
      /\ Head(box[a]) = box[a][1] /\ 1 \in DOMAIN box[a]
      /\ \A i \in DOMAIN Tail(box[a]) : i + 1 \in DOMAIN box[a] /\ Tail(box[a])[i] = box[a][i + 1]
  BY <1>1, TailFacts
<1>3. [box EXCEPT ![a] = Tail(@)] = [box EXCEPT ![a] = Tail(box[a])]
  OBVIOUS
<1> QED BY <1>2, <1>3

-----------------------------------------------------------------------------
(* Types *)

\* Frames that are made from others.
LEMMA FrameExcept ==
    ASSUME NEW f \in Frame, NEW k \in Key \cup {0, None}, NEW n \in Nat,
           NEW t \in {"answer", "refused"}
    PROVE  /\ [f EXCEPT !.type = t] \in Frame
           /\ [f EXCEPT !.type = t, !.uid = k] \in Frame
           /\ [f EXCEPT !.type = t, !.stamp = n] \in Frame
           /\ [f EXCEPT !.uid = k, !.stamp = n] \in Frame
           /\ [f EXCEPT !.stamp = n] \in Frame
<1>1. [f EXCEPT !.type = t] \in Frame
  BY DEF Frame
<1>2. [f EXCEPT !.type = t, !.uid = k] \in Frame
  BY <1>1 DEF Frame
<1>3. [f EXCEPT !.type = t, !.stamp = n] \in Frame
  BY <1>1 DEF Frame
<1>4. [f EXCEPT !.uid = k, !.stamp = n] \in Frame
  BY DEF Frame
<1>5. [f EXCEPT !.stamp = n] \in Frame
  BY DEF Frame
<1> QED BY <1>1, <1>2, <1>3, <1>4, <1>5

LEMMA StampType == TypeOK => getStamp \in Stamp
  BY ProxyAssumption DEF TypeOK, getStamp, Stamp

\* The numbers that frames carry.
LEMMA Numbers ==
    /\ Stamp \subseteq Nat /\ Uid \subseteq Key /\ Area \subseteq Key /\ Key \subseteq Nat
    /\ None \notin Nat /\ None \notin Key /\ None \notin Uid /\ None \notin Area
    /\ None \notin Client /\ None \notin LoginRequest
    /\ \A t \in Kind : ClientStamp[t] \in Nat
  BY ProxyAssumption DEF Stamp, Key, LoginRequest

\* The three ways in which an answer is handled; sent and Learns aside.
LEMMA HandledTypes ==
    ASSUME TInv, NEW f \in Frame,
           \/ ByUid(f)
           \/ ByLoginStamp(f) /\ f.uid \in Key
           \/ BySignUpStamp(f)
           \/ \E p \in BOOLEAN : Dropped(f, p)
    PROVE  /\ alive' \in BOOLEAN
           /\ client_state_' \in [Client -> {"NOT_LOGIN", "LOGIN"}]
           /\ player_uid' \in [Client -> Key \cup {None}]
           /\ login_clients' \in [Key -> Client \cup {None}]
           /\ user_info' \in [Key -> Area \cup {None}]
           /\ misled' \in [Client -> SUBSET Key] /\ late' \in SUBSET Client
           /\ login_requests' \in [Stamp -> LoginRequest \cup {None}]
           /\ sign_up_requests' \in [Stamp -> Client \cup {None}]
           /\ current_stamp_' \in Stamp
           /\ sent' \in Delivery \cup {None}
<1>1. /\ login_clients \in [Key -> Client \cup {None}]
      /\ user_info \in [Key -> Area \cup {None}]
      /\ login_requests \in [Stamp -> LoginRequest \cup {None}]
      /\ sign_up_requests \in [Stamp -> Client \cup {None}]
      /\ client_state_ \in [Client -> {"NOT_LOGIN", "LOGIN"}]
      /\ player_uid \in [Client -> Key \cup {None}]
      /\ alive \in BOOLEAN /\ current_stamp_ \in Stamp
      /\ misled \in [Client -> SUBSET Key] /\ late \in SUBSET Client
  BY DEF TInv, TypeOK, LoginRequest
<1>2. \A c \in Client, g \in Frame : Send(c, g) => sent' \in Delivery \cup {None}
  BY DEF Send, Delivery
<1>3. /\ [f EXCEPT !.stamp = ClientStamp["LOGIN"]] \in Frame
      /\ [f EXCEPT !.stamp = ClientStamp["SIGN_UP"]] \in Frame
  <2>1. ClientStamp["LOGIN"] \in Nat /\ ClientStamp["SIGN_UP"] \in Nat
    BY Numbers DEF Kind
  <2> QED BY <2>1 DEF Frame
<1>4. CASE ByUid(f)
  <2>1. Registrant(f) \in Client
    BY <1>1, <1>4 DEF ByUid, Registrant
  <2> QED BY <1>1, <1>2, <1>4, <2>1 DEF ByUid, Die, parsers, routes, requests
<1>5. CASE ByLoginStamp(f) /\ f.uid \in Key
  <2> DEFINE r == login_requests[f.stamp]
  <2>1. r \in LoginRequest /\ f.stamp \in Stamp
    BY <1>1, <1>5 DEF ByLoginStamp, LoginPending
  <2>2. r.client \in Client /\ r.area \in Area
    BY <2>1 DEF LoginRequest
  <2>3. login_requests' \in [Stamp -> LoginRequest \cup {None}]
    BY <1>1, <1>5 DEF ByLoginStamp
  <2>4. login_clients' \in [Key -> Client \cup {None}]
    BY <1>1, <1>5, <2>2 DEF ByLoginStamp, Insert
  <2>5. user_info' \in [Key -> Area \cup {None}]
    BY <1>1, <1>5, <2>2 DEF ByLoginStamp, Insert
  <2>6. /\ sent' \in Delivery \cup {None}
        /\ player_uid' \in [Client -> Key \cup {None}]
        /\ client_state_' \in [Client -> {"NOT_LOGIN", "LOGIN"}]
    BY <1>1, <1>2, <1>3, <1>5, <2>2 DEF ByLoginStamp, parsers
  <2>7. misled' \in [Client -> SUBSET Key] /\ late' \in SUBSET Client
    <3>1. /\ misled' = [misled EXCEPT ![r.client] = @ \cup {k \in {f.uid} : Misleads(f, r.client)}]
          /\ late' = late \cup {d \in {r.client} : cstate[d] # "up"}
      BY <1>5 DEF ByLoginStamp
    <3>2. {k \in {f.uid} : Misleads(f, r.client)} \subseteq Key
      BY <1>5
    <3> QED BY <1>1, <2>2, <3>1, <3>2
  <2> QED BY <1>1, <1>5, <2>3, <2>4, <2>5, <2>6, <2>7 DEF ByLoginStamp
<1>6. CASE BySignUpStamp(f)
  <2>1. sign_up_requests[f.stamp] \in Client /\ f.stamp \in Stamp
    BY <1>1, <1>6 DEF BySignUpStamp
  <2>2. sign_up_requests' \in [Stamp -> Client \cup {None}]
    BY <1>1, <1>6 DEF BySignUpStamp
  <2>3. sent' \in Delivery \cup {None}
    BY <1>2, <1>3, <1>6, <2>1 DEF BySignUpStamp
  <2> QED BY <1>1, <1>6, <2>2, <2>3 DEF BySignUpStamp, parsers, routes
<1>7. CASE \E p \in BOOLEAN : Dropped(f, p)
  BY <1>1, <1>7 DEF Dropped, parsers, routes, requests
<1> QED BY <1>4, <1>5, <1>6, <1>7

\* Truthful, when each frame under way is one that was there or is new.
LEMMA TruthfulKept ==
    ASSUME Truthful,
           \A a \in Area : \A i \in DOMAIN fromChat'[a] :
               \/ \E j \in DOMAIN fromChat[a] : fromChat'[a][i] = fromChat[a][j]
               \/ fromChat'[a][i].uid \in Key,
           \A a \in Area : \A i \in DOMAIN toChat'[a] :
               \/ \E j \in DOMAIN toChat[a] : toChat'[a][i] = toChat[a][j]
               \/ /\ toChat'[a][i].type # "LOGOUT" => toChat'[a][i].uid \in Key
                  /\ toChat'[a][i].type # "LOGIN" => toChat'[a][i].user = None
    PROVE  Truthful'
  BY DEF Truthful

\* proxy.cc's callbacks
LEMMA ConnectionTypes ==
    ASSUME TInv, NEW c \in Client, Connect(c) \/ Disconnect(c) \/ Destroy(c)
    PROVE  TInv'
<1> USE DEF TInv
<1>1. CASE Connect(c)
  BY <1>1 DEF Connect, TypeOK, Truthful, parsers, routes, requests, database, servers, bounds
<1>2. CASE Destroy(c)
  BY <1>2 DEF Destroy, TypeOK, Truthful, parsers, routes, requests, database, servers, bounds
<1>3. CASE Disconnect(c)
  <2> DEFINE f == [type |-> "LOGOUT", uid |-> player_uid[c], stamp |-> 0, user |-> None, from |-> c]
  <2>1. f \in Frame
    BY DEF TypeOK, Frame, Kind
  <2>2. toChat \in [Area -> Seq(Frame)] /\ AreaOf(player_uid[c]) \in Area
    BY ProxyAssumption DEF TypeOK, AreaOf
  <2>3. f.user = None /\ f.type = "LOGOUT"
    OBVIOUS
  <2> HIDE DEF f
  <2>4. /\ toChat' \in [Area -> Seq(Frame)]
        /\ \A b \in Area : \A i \in DOMAIN toChat'[b] :
               \/ i \in DOMAIN toChat[b] /\ toChat'[b][i] = toChat[b][i]
               \/ toChat'[b][i] = f
    <3>1. CASE toChat' = toChat
      BY <2>2, <3>1
    <3>2. CASE ToServer(AreaOf(player_uid[c]), f)
      BY <2>1, <2>2, <3>2, ToServerFacts
    <3> QED BY <1>3, <3>1, <3>2 DEF Disconnect, f
  <2>5. /\ fromChat' = fromChat
        /\ cstate' \in [Client -> {"new", "up", "closing", "gone"}]
        /\ login_clients' \in [Key -> Client \cup {None}]
        /\ alive' \in BOOLEAN /\ sent' = None
        /\ UNCHANGED <<parsers, user_info, misled, late, requests>>
    BY <1>3 DEF Disconnect, TypeOK, Erase, Die, routes
  <2>6. UNCHANGED <<chat_server, fromChat, database, servers, g_uid, bounds>>
    BY <1>3 DEF Disconnect
  <2>7. Truthful'
    BY <2>3, <2>4, <2>5, TruthfulKept
  <2> QED BY <2>4, <2>5, <2>6, <2>7 DEF TypeOK, parsers, requests, database, servers, bounds
<1> QED BY <1>1, <1>2, <1>3

\* ProxyParser::parseLogin
LEMMA LoginTypes ==
    ASSUME TInv, NEW c \in Client, NEW u \in Uid \cup {None}, NEW a \in Area, Login(c, u, a)
    PROVE  TInv'
<1> DEFINE f == [type |-> "LOGIN", uid |-> a, stamp |-> getStamp, user |-> u, from |-> c]
           e == [f EXCEPT !.type = "refused", !.stamp = ClientStamp["LOGIN"]]
           q == [client |-> c, area |-> a]
<1> USE DEF TInv
<1>1. f \in Frame /\ e \in Frame /\ f.type = "LOGIN" /\ f.stamp = getStamp /\ f.uid \in Key
  <2>1. getStamp \in Nat /\ ClientStamp["LOGIN"] \in Nat
    BY StampType, Numbers DEF Kind
  <2>2. a \in Key /\ u \in Uid \cup {None} /\ c \in Client \cup {None}
    BY DEF Key
  <2>3. f \in Frame /\ f.uid \in Key
    BY <2>1, <2>2 DEF Frame, Kind
  <2> HIDE DEF f
  <2>4. e \in Frame
    BY <2>1, <2>2, <2>3, FrameExcept
  <2> QED BY <2>3, <2>4 DEF f
<1>2. q \in LoginRequest
  BY DEF LoginRequest
<1>3. /\ toChat \in [Area -> Seq(Frame)]
      /\ login_requests \in [Stamp -> LoginRequest \cup {None}]
  BY DEF TypeOK, LoginRequest
<1>4. \/ Send(c, e) /\ UNCHANGED <<alive, parsers, routes, requests, toChat>>
      \/ /\ current_stamp_' = getStamp /\ login_requests' = Insert(login_requests, getStamp, q)
         /\ ToServer(a, f) /\ sent' = None
         /\ UNCHANGED <<alive, parsers, routes, sign_up_requests>>
      \/ Die /\ UNCHANGED toChat
  BY DEF Login
<1>5. /\ asked' \in 0..MaxLogin
      /\ UNCHANGED <<cstate, chat_server, fromChat, database, servers, g_uid, talked>>
  BY ProxyAssumption DEF Login, TypeOK
<1> HIDE DEF f, e, q
<1>6. /\ toChat' \in [Area -> Seq(Frame)]
      /\ \A b \in Area : \A i \in DOMAIN toChat'[b] :
             \/ i \in DOMAIN toChat[b] /\ toChat'[b][i] = toChat[b][i]
             \/ toChat'[b][i] = f
  <2>1. CASE toChat' = toChat
    BY <1>3, <2>1
  <2>2. CASE ToServer(a, f)
    BY <1>1, <1>3, <2>2, ToServerFacts
  <2> QED BY <1>4, <2>1, <2>2
<1>7. /\ login_requests' \in [Stamp -> LoginRequest \cup {None}]
      /\ current_stamp_' \in Stamp
  BY <1>2, <1>3, <1>4, StampType DEF Insert, TypeOK, Die, requests
<1>8. /\ sent' \in Delivery \cup {None} /\ alive' \in BOOLEAN
      /\ UNCHANGED <<parsers, routes, sign_up_requests>>
  <2>1. sent' \in Delivery \cup {None}
    BY <1>1, <1>4 DEF Send, Delivery, Die
  <2> QED BY <1>4, <2>1 DEF TypeOK, Die, requests
<1>9. Truthful'
  BY <1>1, <1>5, <1>6, TruthfulKept
<1> QED BY <1>5, <1>6, <1>7, <1>8, <1>9
        DEF TypeOK, parsers, routes, database, servers, LoginRequest, Delivery

\* ProxyParser::parseSignUp and parseInfo
LEMMA DatabaseRequestTypes ==
    ASSUME TInv, NEW c \in Client, SignUp(c) \/ Info(c)
    PROVE  TInv'
<1> USE DEF TInv
<1>1. data \in Seq(Frame) /\ parsed \in 0..Len(data)
  BY DEF TypeOK
<1>2. ASSUME NEW f \in Frame, data' = Append(data, f), parsed' = parsed
      PROVE  data' \in Seq(Frame) /\ parsed' \in 0..Len(data')
  <2> HIDE DEF Frame
  <2> QED BY <1>1, <1>2
<1>3. CASE SignUp(c)
  <2> DEFINE f == [type |-> "SIGN_UP", uid |-> None, stamp |-> getStamp, user |-> None, from |-> c]
             e == [f EXCEPT !.type = "refused", !.stamp = ClientStamp["SIGN_UP"]]
  <2>1. f \in Frame /\ e \in Frame
    <3>1. getStamp \in Nat /\ ClientStamp["SIGN_UP"] \in Nat
      BY StampType, Numbers DEF Kind
    <3>2. f \in Frame
      BY <3>1 DEF Frame, Kind
    <3> HIDE DEF f
    <3>3. None \in Key \cup {0, None} /\ e \in Frame
      BY <3>1, <3>2, FrameExcept
    <3> QED BY <3>2, <3>3
  <2>2. \/ Send(c, e) /\ UNCHANGED <<requests, data>>
        \/ /\ current_stamp_' = getStamp
           /\ sign_up_requests' = Insert(sign_up_requests, getStamp, c)
           /\ data' = Append(data, f) /\ sent' = None /\ UNCHANGED login_requests
    BY <1>3 DEF SignUp
  <2>3. /\ asked' \in 0..MaxLogin
        /\ UNCHANGED <<alive, cstate, parsers, routes, chat_server, toChat, fromChat,
                       parsed, servers, g_uid, talked>>
    BY <1>3, ProxyAssumption DEF SignUp, TypeOK
  <2> HIDE DEF f, e
  <2>4. data' \in Seq(Frame) /\ parsed' \in 0..Len(data')
    BY <1>1, <1>2, <2>1, <2>2, <2>3
  <2>5. /\ sent' \in Delivery \cup {None} /\ current_stamp_' \in Stamp
        /\ sign_up_requests' \in [Stamp -> Client \cup {None}]
        /\ login_requests' = login_requests
    <3>1. sent' \in Delivery \cup {None}
      BY <2>1, <2>2 DEF Send, Delivery
    <3> QED BY <2>2, <3>1, StampType DEF TypeOK, requests, Insert
  <2> QED BY <2>3, <2>4, <2>5 DEF TypeOK, Truthful, parsers, routes, servers, Delivery
<1>4. CASE Info(c)
  <2> DEFINE f == [type |-> "INFO", uid |-> g_uid[c], user |-> None,
                   stamp |-> ClientStamp["INFO"], from |-> c]
  <2>1. f \in Frame
    <3>1. ClientStamp["INFO"] \in Nat
      BY Numbers DEF Kind
    <3> QED BY <3>1 DEF TypeOK, Frame, Key, Kind
  <2>2. data' = Append(data, f)
    BY <1>4 DEF Info
  <2>3. /\ talked' \in 0..MaxTalk /\ sent' = None
        /\ UNCHANGED <<alive, cstate, parsers, routes, requests, chat_server, toChat,
                       fromChat, parsed, servers, g_uid, asked>>
    BY <1>4, ProxyAssumption DEF Info, TypeOK
  <2> HIDE DEF f
  <2>4. data' \in Seq(Frame) /\ parsed' \in 0..Len(data')
    BY <1>2, <2>1, <2>2, <2>3
  <2> QED BY <2>3, <2>4 DEF TypeOK, Truthful, parsers, routes, requests, servers
<1> QED BY <1>3, <1>4

\* ProxyParser::parseNormalRequest
LEMMA NormalTypes ==
    ASSUME TInv, NEW c \in Client, NEW t \in {"BLACK_LIST", "PLAYER_LIST", "LOGOUT"}, Normal(c, t)
    PROVE  TInv'
<1> DEFINE u == g_uid[c]
           a == IF u \in Key THEN user_info[u] ELSE None
           f == [type |-> t, uid |-> u, stamp |-> ClientStamp[t], user |-> None, from |-> c]
<1> USE DEF TInv
<1>1. f \in Frame /\ f.user = None
  <2>1. ClientStamp[t] \in Nat
    BY Numbers DEF Kind
  <2> QED BY <2>1 DEF TypeOK, Frame, Key, Kind
<1>2. /\ toChat \in [Area -> Seq(Frame)] /\ a \in Area \cup {None}
      /\ a # None => f.uid \in Key
  BY DEF TypeOK
<1>3. \/ /\ a # None /\ ToServer(a, f) /\ sent' = None
         /\ UNCHANGED <<alive, parsers, routes, requests>>
      \/ Die /\ UNCHANGED toChat
  BY DEF Normal
<1>4. /\ talked' \in 0..MaxTalk /\ g_uid' \in [Client -> Uid \cup {0, None}]
      /\ UNCHANGED <<cstate, chat_server, fromChat, database, servers, asked>>
  <2>1. talked' \in 0..MaxTalk
    BY ProxyAssumption DEF Normal, TypeOK
  <2>2. g_uid' \in [Client -> Uid \cup {0, None}]
    BY DEF Normal, Commands, TypeOK
  <2> QED BY <2>1, <2>2 DEF Normal
<1> HIDE DEF a, f
<1>5. /\ toChat' \in [Area -> Seq(Frame)]
      /\ \A b \in Area : \A i \in DOMAIN toChat'[b] :
             \/ i \in DOMAIN toChat[b] /\ toChat'[b][i] = toChat[b][i]
             \/ toChat'[b][i] = f /\ f.uid \in Key
  <2>1. CASE toChat' = toChat
    BY <1>2, <2>1
  <2>2. CASE a # None /\ ToServer(a, f)
    BY <1>1, <1>2, <2>2, ToServerFacts
  <2> QED BY <1>3, <2>1, <2>2
<1>6. sent' = None /\ alive' \in BOOLEAN /\ UNCHANGED <<parsers, routes, requests>>
  BY <1>3 DEF TypeOK, Die
<1>7. Truthful'
  BY <1>1, <1>4, <1>5, TruthfulKept
<1> QED BY <1>4, <1>5, <1>6, <1>7 DEF TypeOK, parsers, routes, requests, database, servers

\* onChatServerMessage
LEMMA ChatAnswerTypes ==
    ASSUME TInv, NEW a \in Area, ChatServerMessage(a)
    PROVE  TInv'
<1> DEFINE f == Head(fromChat[a])
<1> USE DEF TInv
<1>1. fromChat \in [Area -> Seq(Frame)] /\ fromChat[a] # <<>>
  BY DEF TypeOK, ChatServerMessage
<1>2. /\ f \in Frame /\ 1 \in DOMAIN fromChat[a] /\ f = fromChat[a][1]
      /\ [fromChat EXCEPT ![a] = Tail(@)] \in [Area -> Seq(Frame)]
      /\ \A b \in Area : \A i \in DOMAIN [fromChat EXCEPT ![a] = Tail(@)][b] :
             \E j \in DOMAIN fromChat[b] :
                 [fromChat EXCEPT ![a] = Tail(@)][b][i] = fromChat[b][j]
  BY <1>1, TakeFacts
<1>3. f.uid \in Key
  BY <1>2 DEF Truthful
<1> HIDE DEF f
<1>4. /\ fromChat' = [fromChat EXCEPT ![a] = Tail(@)]
      /\ ByUid(f) \/ ByLoginStamp(f) \/ \E p \in BOOLEAN : Dropped(f, p)
      /\ Learns
      /\ UNCHANGED <<cstate, chat_server, toChat, database, servers, bounds>>
  BY DEF ChatServerMessage, LoginPending, f
<1>5. /\ alive' \in BOOLEAN
      /\ client_state_' \in [Client -> {"NOT_LOGIN", "LOGIN"}]
      /\ player_uid' \in [Client -> Key \cup {None}]
      /\ login_clients' \in [Key -> Client \cup {None}]
      /\ user_info' \in [Key -> Area \cup {None}]
      /\ misled' \in [Client -> SUBSET Key] /\ late' \in SUBSET Client
      /\ login_requests' \in [Stamp -> LoginRequest \cup {None}]
      /\ sign_up_requests' \in [Stamp -> Client \cup {None}]
      /\ current_stamp_' \in Stamp
      /\ sent' \in Delivery \cup {None}
  BY <1>2, <1>3, <1>4, HandledTypes
<1>6. g_uid' \in [Client -> Uid \cup {0, None}]
  <2>1. sent' # None => sent'.frame.user \in Uid \cup {None}
    BY <1>5 DEF Delivery, Frame
  <2> QED BY <1>4, <2>1 DEF Learns, TypeOK
<1>7. fromChat' \in [Area -> Seq(Frame)] /\ Truthful'
  <2>1. toChat' = toChat /\ toChat \in [Area -> Seq(Frame)]
    BY <1>4 DEF TypeOK
  <2>2. \A b \in Area : \A i \in DOMAIN fromChat'[b] :
            \E j \in DOMAIN fromChat[b] : fromChat'[b][i] = fromChat[b][j]
    BY <1>2, <1>4
  <2> QED BY <1>2, <1>4, <2>1, <2>2, TruthfulKept
<1> QED BY <1>4, <1>5, <1>6, <1>7
        DEF TypeOK, database, servers, bounds, LoginRequest, Delivery

\* The frame that the database answers with: the request, under its own
\* header or that of the last one parsed.
LEMMA DataFacts ==
    ASSUME TypeOK, DataServerMessage
    PROVE  /\ data \in Seq(Frame) /\ data # <<>> /\ Head(data) = data[1]
           /\ 1 \in DOMAIN data /\ parsed \in DOMAIN data
           /\ Tail(data) \in Seq(Frame) /\ parsed' \in 0..Len(Tail(data))
           /\ \A i \in DOMAIN Tail(data) : i + 1 \in DOMAIN data /\ Tail(data)[i] = data[i + 1]
           /\ \E h \in {data[1]} \cup (IF data[1].type = "INFO" THEN {data[parsed]} ELSE {}) :
                  LET f == [data[1] EXCEPT !.uid = h.uid, !.stamp = h.stamp]
                  IN  /\ h \in Frame /\ f \in Frame
                      /\ f.type = data[1].type /\ f.from = data[1].from /\ f.stamp = h.stamp
                      /\ \/ ByUid(f) \/ BySignUpStamp(f)
                         \/ \E p \in BOOLEAN : Dropped(f, p)
<1>1. data \in Seq(Frame) /\ parsed \in 0..Len(data) /\ parsed > 0 /\ parsed' = parsed - 1
  BY DEF TypeOK, DataServerMessage
<1>2. /\ data # <<>> /\ Head(data) = data[1] /\ 1 \in DOMAIN data /\ parsed \in DOMAIN data
      /\ Tail(data) \in Seq(Frame) /\ parsed' \in 0..Len(Tail(data))
      /\ \A i \in DOMAIN Tail(data) : i + 1 \in DOMAIN data /\ Tail(data)[i] = data[i + 1]
  <2> HIDE DEF Frame
  <2> QED BY <1>1
<1>3. data[1] \in Frame /\ data[parsed] \in Frame
  BY <1>1, <1>2
<1>4. PICK h \in {data[1]} \cup (IF data[1].type = "INFO" THEN {data[parsed]} ELSE {}) :
        LET f == [data[1] EXCEPT !.uid = h.uid, !.stamp = h.stamp]
        IN  ByUid(f) \/ BySignUpStamp(f) \/ \E p \in BOOLEAN : Dropped(f, p)
  BY <1>2 DEF DataServerMessage
<1>5. h.uid \in Key \cup {0, None} /\ h.stamp \in Nat
  BY <1>3 DEF Frame
<1> DEFINE f == [data[1] EXCEPT !.uid = h.uid, !.stamp = h.stamp]
<1>6. f \in Frame
  BY <1>3, <1>5, FrameExcept
<1>7. f.type = data[1].type /\ f.from = data[1].from /\ f.stamp = h.stamp
  BY <1>3 DEF Frame
<1> QED BY <1>1, <1>2, <1>3, <1>4, <1>6, <1>7

\* onDataServerMessage and the database
LEMMA DatabaseTypes ==
    ASSUME TInv, DataServerMessage \/ DataParse
    PROVE  TInv'
<1> USE DEF TInv
<1>1. CASE DataParse
  <2>1. parsed' \in 0..Len(data)
    BY <1>1 DEF DataParse, TypeOK
  <2> QED BY <1>1, <2>1 DEF DataParse, TypeOK, Truthful, parsers, routes, requests, servers, bounds
<1>2. CASE DataServerMessage
  <2>1. PICK f \in Frame :
            ByUid(f) \/ BySignUpStamp(f) \/ \E p \in BOOLEAN : Dropped(f, p)
    BY <1>2, DataFacts
  <2>2. /\ alive' \in BOOLEAN
        /\ client_state_' \in [Client -> {"NOT_LOGIN", "LOGIN"}]
        /\ player_uid' \in [Client -> Key \cup {None}]
        /\ login_clients' \in [Key -> Client \cup {None}]
        /\ user_info' \in [Key -> Area \cup {None}]
        /\ misled' \in [Client -> SUBSET Key] /\ late' \in SUBSET Client
        /\ login_requests' \in [Stamp -> LoginRequest \cup {None}]
        /\ sign_up_requests' \in [Stamp -> Client \cup {None}]
        /\ current_stamp_' \in Stamp
        /\ sent' \in Delivery \cup {None}
    BY <2>1, HandledTypes
  <2>3. /\ data' = Tail(data)
        /\ UNCHANGED <<cstate, chat_server, toChat, fromChat, servers, g_uid, bounds>>
    BY <1>2 DEF DataServerMessage
  <2>4. data' \in Seq(Frame) /\ parsed' \in 0..Len(data')
    BY <1>2, <2>3, DataFacts
  <2> QED BY <2>2, <2>3, <2>4 DEF TypeOK, Truthful, servers, bounds, LoginRequest, Delivery
<1> QED BY <1>1, <1>2

\* The first request of a chat server and what it does about it.
LEMMA ServedFacts ==
    ASSUME TInv, NEW a \in Area, ChatServer(a)
    PROVE  /\ Head(toChat[a]) \in Frame
           /\ 1 \in DOMAIN toChat[a] /\ Head(toChat[a]) = toChat[a][1]
           /\ toChat' \in [Area -> Seq(Frame)]
           /\ \A b \in Area : \A i \in DOMAIN toChat'[b] :
                  \E j \in DOMAIN toChat[b] : toChat'[b][i] = toChat[b][j]
<1> DEFINE rest == [toChat EXCEPT ![a] = Tail(@)]
<1>1. toChat \in [Area -> Seq(Frame)] /\ toChat[a] # <<>>
  BY DEF TInv, TypeOK, ChatServer
<1>2. /\ Head(toChat[a]) \in Frame
      /\ 1 \in DOMAIN toChat[a] /\ Head(toChat[a]) = toChat[a][1]
      /\ rest \in [Area -> Seq(Frame)]
      /\ \A b \in Area : \A i \in DOMAIN rest[b] :
             \E j \in DOMAIN toChat[b] : rest[b][i] = toChat[b][j]
  BY <1>1, TakeFacts
<1>3. toChat' = rest \/ toChat' = [toChat EXCEPT ![a] = <<>>]
  BY DEF ChatServer
<1> HIDE DEF rest
<1>4. CASE toChat' = rest
  BY <1>2, <1>4
<1>5. CASE toChat' = [toChat EXCEPT ![a] = <<>>]
  <2> HIDE DEF Frame
  <2>1. <<>> \in Seq(Frame)
    OBVIOUS
  <2>2. toChat' \in [Area -> Seq(Frame)]
    BY <1>1, <1>5, <2>1
  <2>3. \A b \in Area : \A i \in DOMAIN toChat'[b] :
            \E j \in DOMAIN toChat[b] : toChat'[b][i] = toChat[b][j]
    <3>1. \A b \in Area : b # a => toChat'[b] = toChat[b]
      BY <1>1, <1>5
    <3>2. toChat'[a] = <<>>
      BY <1>1, <1>5
    <3> QED BY <3>1, <3>2
  <2> QED BY <1>2, <2>2, <2>3
<1> QED BY <1>3, <1>4, <1>5

\* The answers of a chat server.
LEMMA AnsweredFacts ==
    ASSUME TInv, NEW a \in Area, ChatServer(a)
    PROVE  LET q == Head(toChat[a])
           IN  \/ fromChat' = fromChat /\ granted' = granted
               \/ \E f \in Frame :
                      /\ Answer(a, f)
                      /\ f.stamp = q.stamp /\ f.from = q.from /\ f.user = q.user
                      /\ f.uid \in Key
                      /\ \/ /\ q.type = "LOGIN" /\ q.user # None /\ f.uid = q.user
                            /\ granted' = [granted EXCEPT ![q.from] = @ \cup {q.user}]
                         \/ q.user = None /\ granted' = granted
<1> DEFINE q == Head(toChat[a])
<1>1. q \in Frame /\ 1 \in DOMAIN toChat[a] /\ q = toChat[a][1]
  BY ServedFacts
<1>2. /\ q.user \in Uid \cup {None} /\ (q.type # "LOGIN" => q.user = None)
      /\ q.type # "LOGOUT" => q.uid \in Key
  BY <1>1 DEF Frame, TInv, Truthful
<1>3. CASE q.type = "LOGIN" /\ q.user # None
  <2> DEFINE f == [q EXCEPT !.type = "answer", !.uid = q.user]
  <2>1. /\ Answer(a, f) /\ granted' = [granted EXCEPT ![q.from] = @ \cup {q.user}]
    BY <1>3 DEF ChatServer
  <2>2. f.uid \in Key /\ f \in Frame
    BY <1>1, <1>2, <1>3, FrameExcept, Numbers DEF Key, Frame
  <2>3. f.stamp = q.stamp /\ f.from = q.from /\ f.user = q.user /\ f.uid = q.user
    BY <1>1 DEF Frame
  <2> QED BY <1>3, <2>1, <2>2, <2>3
<1>4. ASSUME NEW t \in {"answer", "refused"}, Answer(a, [q EXCEPT !.type = t]),
             q.user = None, q.uid \in Key, granted' = granted
      PROVE  \E f \in Frame :
                 /\ Answer(a, f)
                 /\ f.stamp = q.stamp /\ f.from = q.from /\ f.user = q.user /\ f.uid \in Key
  <2> DEFINE f == [q EXCEPT !.type = t]
  <2>1. f \in Frame
    BY <1>1 DEF Frame
  <2>2. f.stamp = q.stamp /\ f.from = q.from /\ f.user = q.user /\ f.uid = q.uid
    BY <1>1 DEF Frame
  <2> QED BY <1>4, <2>1, <2>2
<1>5. CASE q.type = "LOGIN" /\ q.user = None
  <2>1. Answer(a, [q EXCEPT !.type = "refused"]) /\ granted' = granted
    BY <1>5 DEF ChatServer
  <2> QED BY <1>2, <1>4, <1>5, <2>1
<1>6. CASE q.type \in {"BLACK_LIST", "PLAYER_LIST"}
  <2>1. /\ granted' = granted
        /\ Answer(a, [q EXCEPT !.type = "answer"]) \/ fromChat' = fromChat
    BY <1>6 DEF ChatServer
  <2> QED BY <1>2, <1>4, <1>6, <2>1
<1>7. CASE q.type = "LOGOUT"
  BY <1>7 DEF ChatServer
<1> QED BY <1>3, <1>5, <1>6, <1>7 DEF ChatServer

\* The chat servers
LEMMA ChatServerTypes ==
    ASSUME TInv, NEW a \in Area,
           ChatServer(a) \/ ServerLost(a) \/ \E u \in Uid : ChatMessage(a, u)
    PROVE  TInv'
<1> USE DEF TInv
<1>1. fromChat \in [Area -> Seq(Frame)] /\ granted \in [Client -> SUBSET Uid]
  BY DEF TypeOK
<1>2. CASE ServerLost(a)
  BY <1>2 DEF ServerLost, TypeOK, Truthful, parsers, routes, requests, database, servers, bounds
<1>3. ASSUME NEW u \in Uid, ChatMessage(a, u)
      PROVE  TInv'
  <2> DEFINE f == [type |-> "CHAT", uid |-> u, stamp |-> 0, user |-> None, from |-> None]
  <2>1. f \in Frame /\ f.uid \in Key
    BY DEF Frame, Key
  <2>2. /\ Answer(a, f) /\ sent' = None
        /\ UNCHANGED <<alive, cstate, parsers, routes, requests, chat_server, toChat,
                       database, servers, g_uid, asked>>
    BY <1>3 DEF ChatMessage
  <2>3. talked' \in 0..MaxTalk
    BY <1>3, ProxyAssumption DEF ChatMessage, TypeOK
  <2> HIDE DEF f
  <2>4. /\ fromChat' \in [Area -> Seq(Frame)]
        /\ \A b \in Area : \A i \in DOMAIN fromChat'[b] :
               \/ i \in DOMAIN fromChat[b] /\ fromChat'[b][i] = fromChat[b][i]
               \/ fromChat'[b][i] = f
    BY <1>1, <2>1, <2>2, AnswerFacts
  <2>5. Truthful'
    BY <2>1, <2>2, <2>4, TruthfulKept
  <2> QED BY <2>2, <2>3, <2>4, <2>5 DEF TypeOK, parsers, routes, requests, database, servers
<1>4. CASE ChatServer(a)
  <2> DEFINE q == Head(toChat[a])
  <2>1. /\ q \in Frame /\ 1 \in DOMAIN toChat[a] /\ q = toChat[a][1]
        /\ toChat' \in [Area -> Seq(Frame)]
        /\ \A b \in Area : \A i \in DOMAIN toChat'[b] :
               \E j \in DOMAIN toChat[b] : toChat'[b][i] = toChat[b][j]
    BY <1>4, ServedFacts
  <2>3. q.user \in Uid \cup {None}
    BY <2>1 DEF Frame
  <2>4. granted' \in [Client -> SUBSET Uid]
    BY <1>1, <1>4, <2>3, AnsweredFacts
  <2>5. /\ fromChat' \in [Area -> Seq(Frame)]
        /\ \A b \in Area : \A i \in DOMAIN fromChat'[b] :
               \/ i \in DOMAIN fromChat[b] /\ fromChat'[b][i] = fromChat[b][i]
               \/ fromChat'[b][i].uid \in Key
    <3> HIDE DEF q
    <3>1. CASE fromChat' = fromChat
      BY <1>1, <3>1
    <3>2. ASSUME NEW f \in Frame, Answer(a, f), f.uid \in Key
          PROVE  /\ fromChat' \in [Area -> Seq(Frame)]
                 /\ \A b \in Area : \A i \in DOMAIN fromChat'[b] :
                        \/ i \in DOMAIN fromChat[b] /\ fromChat'[b][i] = fromChat[b][i]
                        \/ fromChat'[b][i].uid \in Key
      BY <1>1, <3>2, AnswerFacts
    <3>3. \/ fromChat' = fromChat
          \/ \E f \in Frame : Answer(a, f) /\ f.uid \in Key
      BY <1>4, AnsweredFacts DEF q
    <3> QED BY <3>1, <3>2, <3>3
  <2>6. serving' \in [Area -> BOOLEAN] /\ online' \in [Area -> SUBSET Uid]
    <3>1. serving \in [Area -> BOOLEAN] /\ online \in [Area -> SUBSET Uid]
      BY DEF TypeOK
    <3>2. serving' = serving \/ serving' = [serving EXCEPT ![a] = FALSE]
      BY <1>4 DEF ChatServer
    <3>3. \/ online' = online
          \/ q.user # None /\ online' = [online EXCEPT ![a] = @ \cup {q.user}]
          \/ online' = [online EXCEPT ![a] = @ \ {q.uid}]
          \/ online' = [online EXCEPT ![a] = {}]
      BY <1>4 DEF ChatServer
    <3> HIDE DEF q
    <3>4. online' \in [Area -> SUBSET Uid]
      BY <2>3, <3>1, <3>3
    <3> QED BY <3>1, <3>2, <3>4
  <2>7. /\ sent' = None
        /\ UNCHANGED <<alive, cstate, parsers, routes, requests, chat_server, database,
                       g_uid, bounds>>
    BY <1>4 DEF ChatServer
  <2>8. Truthful'
    BY <2>1, <2>5, TruthfulKept
  <2> QED BY <2>1, <2>4, <2>5, <2>6, <2>7, <2>8
          DEF TypeOK, parsers, routes, requests, database, bounds
<1> QED BY <1>2, <1>3, <1>4

LEMMA TypesInit == Init => TInv
  BY ProxyAssumption DEF Init, TInv, TypeOK, Truthful, Key

LEMMA TypesNext == TInv /\ [Next]_vars => TInv'
<1> SUFFICES ASSUME TInv, [Next]_vars PROVE TInv'
  OBVIOUS
<1>1. CASE UNCHANGED vars
  BY <1>1 DEF vars, TInv, TypeOK, Truthful, parsers, routes, requests, database, servers, bounds
<1>2. CASE Request
  BY <1>2, ConnectionTypes, LoginTypes, DatabaseRequestTypes, NormalTypes DEF Request
<1>3. CASE DataServerMessage \/ DataParse
  BY <1>3, DatabaseTypes
<1>4. ASSUME NEW a \in Area,
             \/ ChatServerMessage(a) \/ ServerLost(a) \/ ChatServer(a)
             \/ \E u \in Uid : ChatMessage(a, u)
      PROVE  TInv'
  BY <1>4, ChatAnswerTypes, ChatServerTypes
<1> QED BY <1>1, <1>2, <1>3, <1>4 DEF Next

LEMMA TypesInductive == Spec => []TInv
  BY TypesInit, TypesNext, PTL DEF Spec

\* Every variable of the thread, of the clients and of the servers keeps its
\* type; Client.cc's g_uid in particular is always a user, 0 or none, and what a
\* chat server answers always has a user or an area in its header.
THEOREM TypeCorrect == Spec => []TypeOK
<1>1. TInv => TypeOK
  BY DEF TInv
<1> QED BY <1>1, TypesInductive, PTL

-----------------------------------------------------------------------------
(* The right client.  Until asked exceeds StampMax, stamps are given once: *)
(* those given are the last ones, as many as there were requests at most.  *)

Fresh    == asked <= StampMax
Age(n)   == current_stamp_ - n + (IF n <= current_stamp_ THEN 0 ELSE StampMax)
Given(n) == Age(n) < asked

\* Whoever the proxy finds by the stamp of f is the client that asked.
Own(f) == f.from \in Client /\ (Fresh => f.stamp \in Stamp /\ Given(f.stamp))
LoginTraced(f) ==
    /\ Own(f)
    /\ Fresh /\ login_requests[f.stamp] # None => login_requests[f.stamp].client = f.from
SignUpTraced(f) ==
    /\ Own(f)
    /\ Fresh /\ sign_up_requests[f.stamp] # None => sign_up_requests[f.stamp] = f.from

AskedWell(f)   == f.type = "LOGIN" => LoginTraced(f)
RepliedWell(f) == f.user # None => LoginTraced(f) /\ f.uid \in granted[f.from]
SignedWell(f)  == f.type = "INFO" \/ (f.type = "SIGN_UP" /\ SignUpTraced(f))

Asked   == \A a \in Area : \A i \in DOMAIN toChat[a] : AskedWell(toChat[a][i])
Replied == \A a \in Area : \A i \in DOMAIN fromChat[a] : RepliedWell(fromChat[a][i])
Signed  == \A i \in DOMAIN data : SignedWell(data[i])

StampsGiven ==
    \A n \in Stamp : Fresh /\ (login_requests[n] # None \/ sign_up_requests[n] # None) => Given(n)
Routed ==
    \A k \in Key : login_clients[k] # None =>
        k \in granted[login_clients[k]] \cup misled[login_clients[k]]

\* RightClient, with what makes it inductive: what is under way is found by
\* its stamp, and what is registered has a password or is a mistake.
IInv == Asked /\ Replied /\ Signed /\ StampsGiven /\ Routed /\ RightClient

\* What no step takes back: given stamps stay given, lead to where they led
\* or nowhere, and passwords are not forgotten.
Later ==
    /\ asked' \in Int /\ asked' >= asked
    /\ \A n \in Stamp : Fresh' /\ Given(n) =>
           /\ Given(n)'
           /\ login_requests'[n] \in {login_requests[n], None}
           /\ sign_up_requests'[n] \in {sign_up_requests[n], None}
    /\ \A c \in Client : granted[c] \subseteq granted'[c]

LEMMA Counters ==
    ASSUME TInv
    PROVE  /\ current_stamp_ \in Int /\ 1 <= current_stamp_ /\ current_stamp_ <= StampMax
           /\ StampMax \in Int /\ asked \in Int /\ 0 <= asked
           /\ \A n \in Stamp : n \in Int /\ 1 <= n /\ n <= StampMax
  BY ProxyAssumption DEF TInv, TypeOK, Stamp

\* A step that gives no stamp.
LEMMA NoStamp ==
    ASSUME TInv, current_stamp_' = current_stamp_, asked' \in {asked, asked + 1},
           \A n \in Stamp : /\ login_requests'[n] \in {login_requests[n], None}
                            /\ sign_up_requests'[n] \in {sign_up_requests[n], None},
           \A c \in Client : granted[c] \subseteq granted'[c]
    PROVE  Later /\ (StampsGiven => StampsGiven')
<1>1. asked' \in Int /\ asked' >= asked /\ (Fresh' => Fresh)
  BY Counters DEF Fresh
<1>2. \A n \in Stamp : Given(n) => Given(n)'
  BY Counters DEF Given, Age
<1>3. Later
  BY <1>1, <1>2 DEF Later
<1> QED BY <1>1, <1>2, <1>3 DEF StampsGiven

\* A stamp is used up: the next one has not been given.
LEMMA NextStamp ==
    ASSUME TInv, StampsGiven, NEW m \in Stamp, m = getStamp, current_stamp_' = m,
           asked' = asked + 1,
           \A n \in Stamp \ {m} :
               login_requests'[n] = login_requests[n] /\ sign_up_requests'[n] = sign_up_requests[n],
           granted' = granted
    PROVE  /\ Later /\ StampsGiven' /\ Given(m)'
           /\ Fresh' => login_requests[m] = None /\ sign_up_requests[m] = None
<1>1. m = IF current_stamp_ = StampMax THEN 1 ELSE current_stamp_ + 1
  BY DEF getStamp
<1>2. asked' \in Int /\ asked' >= asked /\ (Fresh' => Fresh /\ asked < StampMax)
  BY Counters DEF Fresh
<1>3. Fresh' => ~ Given(m)
  BY <1>1, <1>2, Counters DEF Given, Age
<1>4. Given(m)'
  BY <1>1, Counters DEF Given, Age
<1>5. ASSUME NEW n \in Stamp, Given(n), Fresh' PROVE Given(n)'
  <2>1. n # m
    BY <1>3, <1>5
  <2>2. Age(n)' = Age(n) + 1 /\ Age(n) \in Int
    BY <1>1, <2>1, Counters DEF Age
  <2> QED BY <1>5, <2>2, Counters DEF Given
<1>6. Later
  BY <1>2, <1>3, <1>5 DEF Later
<1>7. ASSUME NEW n \in Stamp, Fresh', login_requests'[n] # None \/ sign_up_requests'[n] # None
      PROVE  Given(n)'
  <2>1. CASE n = m
    BY <1>4, <2>1
  <2>2. CASE n # m
    BY <1>2, <1>5, <1>7, <2>2 DEF StampsGiven
  <2> QED BY <2>1, <2>2
<1>8. Fresh' => login_requests[m] = None /\ sign_up_requests[m] = None
  BY <1>2, <1>3 DEF StampsGiven
<1> QED BY <1>4, <1>6, <1>7, <1>8 DEF StampsGiven

LEMMA FramesKept ==
    ASSUME TInv, Later, NEW f \in Frame
    PROVE  /\ AskedWell(f) => AskedWell(f)'
           /\ RepliedWell(f) => RepliedWell(f)'
           /\ SignedWell(f) => SignedWell(f)'
<1>1. Fresh' => Fresh
  BY Counters DEF Later, Fresh
<1>2. Own(f) => Own(f)'
  BY <1>1 DEF Own, Later
<1>3. LoginTraced(f) => LoginTraced(f)'
  BY <1>1, <1>2 DEF LoginTraced, Own, Later
<1>4. SignUpTraced(f) => SignUpTraced(f)'
  BY <1>1, <1>2 DEF SignUpTraced, Own, Later
<1>5. RepliedWell(f) => RepliedWell(f)'
  BY <1>3 DEF RepliedWell, LoginTraced, Own, Later
<1> QED BY <1>3, <1>4, <1>5 DEF AskedWell, SignedWell

LEMMA QueuesKept ==
    ASSUME TInv, IInv, Later,
           \A b \in Area : \A i \in DOMAIN toChat'[b] :
               \/ \E j \in DOMAIN toChat[b] : toChat'[b][i] = toChat[b][j]
               \/ \E f \in Frame : toChat'[b][i] = f /\ AskedWell(f)',
           \A b \in Area : \A i \in DOMAIN fromChat'[b] :
               \/ \E j \in DOMAIN fromChat[b] : fromChat'[b][i] = fromChat[b][j]
               \/ \E f \in Frame : fromChat'[b][i] = f /\ RepliedWell(f)',
           \A i \in DOMAIN data' :
               \/ \E j \in DOMAIN data : data'[i] = data[j]
               \/ \E f \in Frame : data'[i] = f /\ SignedWell(f)'
    PROVE  Asked' /\ Replied' /\ Signed'
<1>1. /\ toChat \in [Area -> Seq(Frame)] /\ fromChat \in [Area -> Seq(Frame)]
      /\ data \in Seq(Frame)
  BY DEF TInv, TypeOK
<1>2. /\ \A b \in Area : /\ \A j \in DOMAIN toChat[b] : toChat[b][j] \in Frame
                         /\ \A j \in DOMAIN fromChat[b] : fromChat[b][j] \in Frame
      /\ \A j \in DOMAIN data : data[j] \in Frame
  <2> HIDE DEF Frame
  <2> QED BY <1>1
<1>3. ASSUME NEW b \in Area, NEW i \in DOMAIN toChat'[b] PROVE AskedWell(toChat[b][i])'
  <2>1. PICK f \in Frame : toChat'[b][i] = f /\ AskedWell(f)'
    BY <1>2, <1>3, FramesKept DEF IInv, Asked
  <2> QED BY <2>1 DEF AskedWell, LoginTraced, Own, Given, Age
<1>4. ASSUME NEW b \in Area, NEW i \in DOMAIN fromChat'[b] PROVE RepliedWell(fromChat[b][i])'
  <2>1. PICK f \in Frame : fromChat'[b][i] = f /\ RepliedWell(f)'
    BY <1>2, <1>4, FramesKept DEF IInv, Replied
  <2> QED BY <2>1 DEF RepliedWell, LoginTraced, Own, Given, Age
<1>5. ASSUME NEW i \in DOMAIN data' PROVE SignedWell(data[i])'
  <2>1. PICK f \in Frame : data'[i] = f /\ SignedWell(f)'
    BY <1>2, <1>5, FramesKept DEF IInv, Signed
  <2> QED BY <2>1 DEF SignedWell, SignUpTraced, Own, Given, Age
<1> QED BY <1>3, <1>4, <1>5 DEF Asked, Replied, Signed

\* A step that gives no stamp and answers at most one request.
LEMMA QuietKeeps ==
    ASSUME TInv, IInv, current_stamp_' = current_stamp_, asked' \in {asked, asked + 1},
           granted' = granted,
           \A n \in Stamp : /\ login_requests'[n] \in {login_requests[n], None}
                            /\ sign_up_requests'[n] \in {sign_up_requests[n], None},
           \A b \in Area : \A i \in DOMAIN toChat'[b] :
               \/ \E j \in DOMAIN toChat[b] : toChat'[b][i] = toChat[b][j]
               \/ \E f \in Frame : toChat'[b][i] = f /\ f.type # "LOGIN",
           \A b \in Area : \A i \in DOMAIN fromChat'[b] :
               \/ \E j \in DOMAIN fromChat[b] : fromChat'[b][i] = fromChat[b][j]
               \/ \E f \in Frame : fromChat'[b][i] = f /\ f.user = None,
           \A i \in DOMAIN data' :
               \/ \E j \in DOMAIN data : data'[i] = data[j]
               \/ \E f \in Frame : data'[i] = f /\ f.type = "INFO",
           Routed', RightClient'
    PROVE  IInv'
<1>1. Later /\ StampsGiven'
  BY NoStamp DEF IInv
<1>2. \A f \in Frame : /\ f.type # "LOGIN" => AskedWell(f)'
                       /\ f.user = None => RepliedWell(f)'
                       /\ f.type = "INFO" => SignedWell(f)'
  BY DEF AskedWell, RepliedWell, SignedWell
<1>3. Asked' /\ Replied' /\ Signed'
  BY <1>1, <1>2, QueuesKept
<1> QED BY <1>1, <1>3 DEF IInv

LEMMA Silent == sent' = None => RightClient'
  BY DEF RightClient

\* What is written was asked for, or concerns a user of the client's.
LEMMA SendRight ==
    ASSUME NEW c \in Client, NEW f \in Frame, Send(c, f),
           \/ f.type = "INFO" \/ f.from = c \/ f.uid \in granted'[c] \cup misled'[c]
           \/ f.type = "SIGN_UP" /\ asked' > StampMax
    PROVE  RightClient'
  BY DEF Send, RightClient

LEMMA RoutedKept ==
    ASSUME IInv, granted' = granted, misled' = misled,
           \A k \in Key : login_clients'[k] \in {login_clients[k], None}
    PROVE  Routed'
  BY DEF IInv, Routed

\* The actions that neither give nor look up a stamp.
LEMMA OthersRight ==
    ASSUME TInv, IInv,
           \/ \E c \in Client : \/ Connect(c) \/ Disconnect(c) \/ Destroy(c) \/ Info(c)
                                \/ \E t \in {"BLACK_LIST", "PLAYER_LIST", "LOGOUT"} : Normal(c, t)
           \/ DataParse
           \/ \E a \in Area : ServerLost(a) \/ \E u \in Uid : ChatMessage(a, u)
    PROVE  IInv'
<1>1. /\ toChat \in [Area -> Seq(Frame)] /\ fromChat \in [Area -> Seq(Frame)]
      /\ data \in Seq(Frame)
  BY DEF TInv, TypeOK
<1>2. ASSUME NEW c \in Client, Connect(c) \/ Destroy(c) PROVE IInv'
  <2>1. /\ UNCHANGED <<routes, requests, granted, asked, toChat, fromChat, data>>
        /\ sent' = None
    BY <1>2 DEF Connect, Destroy, servers, bounds, database
  <2> QED BY <2>1, Silent, RoutedKept, QuietKeeps DEF routes, requests
<1>3. CASE DataParse \/ \E a \in Area : ServerLost(a)
  <2>1. /\ UNCHANGED <<routes, requests, granted, asked, toChat, fromChat, data>>
        /\ sent' = None
    BY <1>3 DEF DataParse, ServerLost, servers, bounds, database
  <2> QED BY <2>1, Silent, RoutedKept, QuietKeeps DEF routes, requests
<1>4. ASSUME NEW c \in Client, Disconnect(c) PROVE IInv'
  <2> DEFINE a == AreaOf(player_uid[c])
             f == [type |-> "LOGOUT", uid |-> player_uid[c], stamp |-> 0, user |-> None, from |-> c]
  <2>1. f \in Frame /\ f.type = "LOGOUT" /\ a \in Area
    <3>1. a \in Area
      BY ProxyAssumption DEF AreaOf
    <3>2. player_uid[c] \in Key \cup {None}
      BY DEF TInv, TypeOK
    <3> QED BY <3>1, <3>2 DEF Frame, Kind
  <2>2. /\ UNCHANGED <<requests, granted, misled, asked, fromChat, data>>
        /\ sent' = None
        /\ login_clients' = login_clients \/ login_clients' = Erase(player_uid[c])
        /\ toChat' = toChat \/ ToServer(a, f)
    BY <1>4 DEF Disconnect, Die, servers, bounds, routes, database
  <2> HIDE DEF a, f
  <2>3. \A b \in Area : \A i \in DOMAIN toChat'[b] :
            \/ i \in DOMAIN toChat[b] /\ toChat'[b][i] = toChat[b][i]
            \/ toChat'[b][i] = f
    BY <1>1, <2>1, <2>2, ToServerFacts
  <2>4. \A k \in Key : login_clients'[k] \in {login_clients[k], None}
    BY <2>2 DEF Erase, TInv, TypeOK
  <2> QED BY <2>1, <2>2, <2>3, <2>4, Silent, RoutedKept, QuietKeeps DEF requests
<1>5. ASSUME NEW c \in Client, Info(c) PROVE IInv'
  <2> DEFINE f == [type |-> "INFO", uid |-> g_uid[c], user |-> None,
                   stamp |-> ClientStamp["INFO"], from |-> c]
  <2>1. f \in Frame /\ f.type = "INFO"
    <3>1. ClientStamp["INFO"] \in Nat
      BY Numbers DEF Kind
    <3> QED BY <3>1 DEF TInv, TypeOK, Frame, Key, Kind
  <2>2. /\ UNCHANGED <<routes, requests, granted, asked, toChat, fromChat>>
        /\ sent' = None /\ data' = Append(data, f)
    BY <1>5 DEF Info, servers
  <2> HIDE DEF f
  <2>3. \A i \in DOMAIN data' : (i \in DOMAIN data /\ data'[i] = data[i]) \/ data'[i] = f
    BY <1>1, <2>1, <2>2, AppendFacts
  <2> QED BY <2>1, <2>2, <2>3, Silent, RoutedKept, QuietKeeps DEF routes, requests
<1>6. ASSUME NEW c \in Client, NEW t \in {"BLACK_LIST", "PLAYER_LIST", "LOGOUT"}, Normal(c, t)
      PROVE  IInv'
  <2> DEFINE u == g_uid[c]
             a == IF u \in Key THEN user_info[u] ELSE None
             f == [type |-> t, uid |-> u, stamp |-> ClientStamp[t], user |-> None, from |-> c]
  <2>1. f \in Frame /\ f.type # "LOGIN" /\ a \in Area \cup {None}
    <3>1. ClientStamp[t] \in Nat
      BY Numbers DEF Kind
    <3> QED BY <3>1 DEF TInv, TypeOK, Frame, Key, Kind
  <2>2. /\ UNCHANGED <<routes, requests, granted, asked, fromChat, data>>
        /\ sent' = None
        /\ toChat' = toChat \/ (a # None /\ ToServer(a, f))
    <3>1. \/ a # None /\ ToServer(a, f) /\ sent' = None /\ UNCHANGED <<routes, requests>>
          \/ Die /\ UNCHANGED toChat
      BY <1>6 DEF Normal
    <3>2. UNCHANGED <<fromChat, database, servers, asked>>
      BY <1>6 DEF Normal
    <3> HIDE DEF a, f
    <3> QED BY <3>1, <3>2 DEF Die, servers, database
  <2> HIDE DEF a, f
  <2>3. \A b \in Area : \A i \in DOMAIN toChat'[b] :
            \/ i \in DOMAIN toChat[b] /\ toChat'[b][i] = toChat[b][i]
            \/ toChat'[b][i] = f
    BY <1>1, <2>1, <2>2, ToServerFacts
  <2> QED BY <2>1, <2>2, <2>3, Silent, RoutedKept, QuietKeeps DEF routes, requests
<1>7. ASSUME NEW a \in Area, NEW u \in Uid, ChatMessage(a, u) PROVE IInv'
  <2> DEFINE f == [type |-> "CHAT", uid |-> u, stamp |-> 0, user |-> None, from |-> None]
  <2>1. f \in Frame /\ f.user = None
    BY DEF Frame, Key
  <2>2. /\ UNCHANGED <<routes, requests, granted, asked, toChat, data>>
        /\ sent' = None /\ Answer(a, f)
    BY <1>7 DEF ChatMessage, servers, database
  <2> HIDE DEF f
  <2>3. \A b \in Area : \A i \in DOMAIN fromChat'[b] :
            \/ i \in DOMAIN fromChat[b] /\ fromChat'[b][i] = fromChat[b][i]
            \/ fromChat'[b][i] = f
    BY <1>1, <2>1, <2>2, AnswerFacts
  <2> QED BY <2>1, <2>2, <2>3, Silent, RoutedKept, QuietKeeps DEF routes, requests
<1> QED BY <1>2, <1>3, <1>4, <1>5, <1>6, <1>7

\* A stamp is taken for a request, which is put at the end of a queue.
LEMMA LoginRight ==
    ASSUME TInv, IInv, NEW c \in Client, NEW u \in Uid \cup {None}, NEW a \in Area, Login(c, u, a)
    PROVE  IInv'
<1>1. /\ toChat \in [Area -> Seq(Frame)] /\ getStamp \in Stamp
      /\ login_requests \in [Stamp -> LoginRequest \cup {None}]
  BY StampType DEF TInv, TypeOK, LoginRequest
<1>2. PICK f \in Frame :
          f = [type |-> "LOGIN", uid |-> a, stamp |-> getStamp, user |-> u, from |-> c]
  BY <1>1, Numbers DEF Frame, Key, Kind
<1>3. f.type = "LOGIN" /\ f.stamp = getStamp /\ f.from = c
  BY <1>2
<1>4. UNCHANGED <<fromChat, data, granted>> /\ asked' = asked + 1
  BY DEF Login, database, servers
<1>5. \/ /\ Send(c, [f EXCEPT !.type = "refused", !.stamp = ClientStamp["LOGIN"]])
         /\ UNCHANGED <<routes, requests, toChat>>
      \/ /\ current_stamp_' = getStamp
         /\ login_requests' = Insert(login_requests, getStamp, [client |-> c, area |-> a])
         /\ ToServer(a, f) /\ sent' = None /\ UNCHANGED <<routes, sign_up_requests>>
      \/ Die /\ UNCHANGED toChat
  BY <1>2 DEF Login
<1>6. CASE /\ Send(c, [f EXCEPT !.type = "refused", !.stamp = ClientStamp["LOGIN"]])
           /\ UNCHANGED <<routes, requests, toChat>>
  <2>1. ClientStamp["LOGIN"] \in Nat
    BY Numbers DEF Kind
  <2>2. PICK e \in Frame : e = [f EXCEPT !.type = "refused", !.stamp = ClientStamp["LOGIN"]]
    BY <2>1, FrameExcept
  <2>3. e.from = c
    BY <1>3, <2>2 DEF Frame
  <2>4. RightClient'
    BY <1>6, <2>2, <2>3, SendRight
  <2> QED BY <1>4, <1>6, <2>4, RoutedKept, QuietKeeps DEF routes, requests
<1>7. CASE Die /\ UNCHANGED toChat
  BY <1>4, <1>7, Silent, RoutedKept, QuietKeeps DEF Die, routes, requests
<1>8. CASE /\ current_stamp_' = getStamp
           /\ login_requests' = Insert(login_requests, getStamp, [client |-> c, area |-> a])
           /\ ToServer(a, f) /\ sent' = None /\ UNCHANGED <<routes, sign_up_requests>>
  <2>1. PICK m \in Stamp : m = getStamp
    BY <1>1
  <2>2. \A n \in Stamp \ {m} : login_requests'[n] = login_requests[n]
    BY <1>1, <1>8, <2>1 DEF Insert
  <2>3. /\ Later /\ StampsGiven' /\ Given(m)'
        /\ Fresh' => login_requests[m] = None
    BY <1>4, <1>8, <2>1, <2>2, NextStamp DEF IInv
  <2>4. Fresh' => login_requests'[m].client = c
    BY <1>1, <1>8, <2>1, <2>3 DEF Insert
  <2>5. AskedWell(f)'
    BY <1>3, <2>1, <2>3, <2>4 DEF AskedWell, LoginTraced, Own
  <2>6. \A b \in Area : \A i \in DOMAIN toChat'[b] :
            \/ i \in DOMAIN toChat[b] /\ toChat'[b][i] = toChat[b][i]
            \/ toChat'[b][i] = f
    BY <1>1, <1>8, ToServerFacts
  <2>7. Asked' /\ Replied' /\ Signed'
    BY <1>4, <2>3, <2>5, <2>6, QueuesKept
  <2>8. Routed' /\ RightClient'
    BY <1>4, <1>8, Silent, RoutedKept DEF routes
  <2> QED BY <2>3, <2>7, <2>8 DEF IInv
<1> QED BY <1>5, <1>6, <1>7, <1>8

LEMMA SignUpRight ==
    ASSUME TInv, IInv, NEW c \in Client, SignUp(c)
    PROVE  IInv'
<1>1. /\ getStamp \in Stamp /\ data \in Seq(Frame)
      /\ sign_up_requests \in [Stamp -> Client \cup {None}]
  BY StampType DEF TInv, TypeOK
<1>2. PICK f \in Frame :
          f = [type |-> "SIGN_UP", uid |-> None, stamp |-> getStamp, user |-> None, from |-> c]
  BY <1>1, Numbers DEF Frame, Kind
<1>3. f.type = "SIGN_UP" /\ f.stamp = getStamp /\ f.from = c
  BY <1>2
<1>4. /\ UNCHANGED <<fromChat, toChat, granted, routes, login_requests>>
      /\ asked' = asked + 1
  BY DEF SignUp, servers, requests
<1>5. \/ /\ Send(c, [f EXCEPT !.type = "refused", !.stamp = ClientStamp["SIGN_UP"]])
         /\ UNCHANGED <<requests, data>>
      \/ /\ current_stamp_' = getStamp
         /\ sign_up_requests' = Insert(sign_up_requests, getStamp, c)
         /\ data' = Append(data, f) /\ sent' = None
  BY <1>2 DEF SignUp
<1>6. CASE /\ Send(c, [f EXCEPT !.type = "refused", !.stamp = ClientStamp["SIGN_UP"]])
           /\ UNCHANGED <<requests, data>>
  <2>1. ClientStamp["SIGN_UP"] \in Nat
    BY Numbers DEF Kind
  <2>2. PICK e \in Frame : e = [f EXCEPT !.type = "refused", !.stamp = ClientStamp["SIGN_UP"]]
    BY <2>1, FrameExcept
  <2>3. e.from = c
    BY <1>3, <2>2 DEF Frame
  <2>4. RightClient'
    BY <1>6, <2>2, <2>3, SendRight
  <2> QED BY <1>4, <1>6, <2>4, RoutedKept, QuietKeeps DEF routes, requests
<1>7. CASE /\ current_stamp_' = getStamp
           /\ sign_up_requests' = Insert(sign_up_requests, getStamp, c)
           /\ data' = Append(data, f) /\ sent' = None
  <2>1. PICK m \in Stamp : m = getStamp
    BY <1>1
  <2>2. \A n \in Stamp \ {m} : sign_up_requests'[n] = sign_up_requests[n]
    BY <1>1, <1>7, <2>1 DEF Insert
  <2>3. /\ Later /\ StampsGiven' /\ Given(m)'
        /\ Fresh' => sign_up_requests[m] = None
    BY <1>4, <1>7, <2>1, <2>2, NextStamp DEF IInv
  <2>4. Fresh' => sign_up_requests'[m] = c
    BY <1>1, <1>7, <2>1, <2>3 DEF Insert
  <2>5. SignedWell(f)'
    BY <1>3, <2>1, <2>3, <2>4 DEF SignedWell, SignUpTraced, Own
  <2>6. \A i \in DOMAIN data' : (i \in DOMAIN data /\ data'[i] = data[i]) \/ data'[i] = f
    BY <1>1, <1>7, AppendFacts
  <2>7. Asked' /\ Replied' /\ Signed'
    BY <1>4, <2>3, <2>5, <2>6, QueuesKept
  <2>8. Routed' /\ RightClient'
    BY <1>4, <1>7, Silent, RoutedKept DEF routes
  <2> QED BY <2>3, <2>7, <2>8 DEF IInv
<1> QED BY <1>5, <1>6, <1>7

\* What ByUid writes concerns the client that is registered for it.
LEMMA ByUidRight ==
    ASSUME TInv, IInv, NEW f \in Frame, ByUid(f), granted' = granted
    PROVE  UNCHANGED <<routes, requests>> /\ RightClient'
<1>1. login_clients \in [Key -> Client \cup {None}]
  BY DEF TInv, TypeOK
<1>2. /\ Registrant(f) \in Client
      /\ f.uid \in granted[Registrant(f)] \cup misled[Registrant(f)]
  BY <1>1 DEF ByUid, Registrant, IInv, Routed
<1>3. CASE Send(Registrant(f), f) /\ UNCHANGED <<routes, requests>>
  BY <1>2, <1>3, SendRight DEF routes
<1>4. CASE Die
  BY <1>4, Silent DEF Die
<1> QED BY <1>3, <1>4 DEF ByUid

\* onChatServerMessage: the client found by a stamp is the one that asked and
\* gave the password, or is registered by mistake.
LEMMA ChatAnswerRight ==
    ASSUME TInv, IInv, NEW a \in Area, ChatServerMessage(a)
    PROVE  IInv'
<1> DEFINE f == Head(fromChat[a])
<1>1. fromChat \in [Area -> Seq(Frame)] /\ fromChat[a] # <<>>
  BY DEF TInv, TypeOK, ChatServerMessage
<1>2. /\ f \in Frame /\ 1 \in DOMAIN fromChat[a] /\ f = fromChat[a][1]
      /\ \A b \in Area : \A i \in DOMAIN [fromChat EXCEPT ![a] = Tail(@)][b] :
             \E j \in DOMAIN fromChat[b] :
                 [fromChat EXCEPT ![a] = Tail(@)][b][i] = fromChat[b][j]
  BY <1>1, TakeFacts
<1>3. /\ fromChat' = [fromChat EXCEPT ![a] = Tail(@)]
      /\ ByUid(f) \/ ByLoginStamp(f) \/ \E p \in BOOLEAN : Dropped(f, p)
      /\ UNCHANGED <<toChat, data, granted, asked>>
  BY DEF ChatServerMessage, LoginPending, database, servers, bounds
<1>4. RepliedWell(f) /\ f.uid \in Key
  BY <1>2 DEF IInv, Replied, TInv, Truthful
<1>5. \A b \in Area : \A i \in DOMAIN fromChat'[b] :
          \E j \in DOMAIN fromChat[b] : fromChat'[b][i] = fromChat[b][j]
  BY <1>2, <1>3
<1> HIDE DEF f
<1>6. CASE ByUid(f)
  BY <1>2, <1>3, <1>5, <1>6, ByUidRight, RoutedKept, QuietKeeps DEF routes, requests
<1>7. CASE \E p \in BOOLEAN : Dropped(f, p)
  BY <1>3, <1>5, <1>7, Silent, RoutedKept, QuietKeeps DEF Dropped, routes, requests
<1>8. CASE ByLoginStamp(f)
  <2>1. /\ f.stamp \in Stamp /\ login_requests[f.stamp] # None
        /\ login_requests \in [Stamp -> LoginRequest \cup {None}]
    BY <1>8 DEF ByLoginStamp, LoginPending, TInv, TypeOK, LoginRequest
  <2>2. PICK c \in Client : c = login_requests[f.stamp].client
    BY <2>1 DEF LoginRequest
  <2>3. /\ login_requests' = [login_requests EXCEPT ![f.stamp] = None]
        /\ login_clients' = Insert(login_clients, f.uid, c)
        /\ misled' = [misled EXCEPT ![c] = @ \cup {k \in {f.uid} : Misleads(f, c)}]
        /\ Send(c, [f EXCEPT !.stamp = ClientStamp["LOGIN"]]) \/ sent' = None
        /\ UNCHANGED <<sign_up_requests, current_stamp_>>
    BY <1>8, <2>2 DEF ByLoginStamp
  <2>4. misled \in [Client -> SUBSET Key] /\ login_clients \in [Key -> Client \cup {None}]
    BY DEF TInv, TypeOK
  <2>5. f.uid \in granted[c] \cup misled'[c]
    <3>1. CASE Misleads(f, c)
      BY <2>3, <2>4, <3>1
    <3>2. CASE ~ Misleads(f, c)
      <4>1. f.user # None /\ (f.from = c \/ Fresh)
        BY <3>2, Counters DEF Misleads, Fresh
      <4>2. f.from = c
        BY <1>4, <2>1, <2>2, <4>1 DEF RepliedWell, LoginTraced
      <4> QED BY <1>4, <4>1, <4>2 DEF RepliedWell
    <3> QED BY <3>1, <3>2
  <2>6. Routed'
    <3>1. \A k \in Key : \/ login_clients'[k] = login_clients[k]
                         \/ k = f.uid /\ login_clients'[k] = c
      BY <2>3, <2>4 DEF Insert
    <3>2. \A d \in Client : misled[d] \subseteq misled'[d]
      BY <2>3, <2>4
    <3> QED BY <1>3, <2>4, <2>5, <3>1, <3>2, Numbers DEF IInv, Routed
  <2>7. RightClient'
    <3>1. CASE sent' = None
      BY <3>1, Silent
    <3>2. CASE Send(c, [f EXCEPT !.stamp = ClientStamp["LOGIN"]])
      <4>1. ClientStamp["LOGIN"] \in Nat
        BY Numbers DEF Kind
      <4>2. [f EXCEPT !.stamp = ClientStamp["LOGIN"]] \in Frame
        BY <1>2, <4>1 DEF Frame
      <4>3. [f EXCEPT !.stamp = ClientStamp["LOGIN"]].uid = f.uid
        BY <1>2 DEF Frame
      <4> QED BY <1>3, <2>5, <3>2, <4>2, <4>3, SendRight
    <3> QED BY <2>3, <3>1, <3>2
  <2>8. /\ \A n \in Stamp : login_requests'[n] \in {login_requests[n], None}
        /\ \A n \in Stamp : sign_up_requests'[n] \in {sign_up_requests[n], None}
    BY <2>1, <2>3
  <2> QED BY <1>3, <1>5, <2>3, <2>6, <2>7, <2>8, QuietKeeps
<1> QED BY <1>3, <1>6, <1>7, <1>8

\* onDataServerMessage: the answer to a SIGN_UP has the stamp of the SIGN_UP.
LEMMA DataAnswerRight ==
    ASSUME TInv, IInv, DataServerMessage
    PROVE  IInv'
<1>1. TypeOK
  BY DEF TInv
<1>2. /\ UNCHANGED <<toChat, fromChat, granted, asked>> /\ data' = Tail(data)
  BY DEF DataServerMessage, servers, bounds
<1>3. PICK h \in {data[1]} \cup (IF data[1].type = "INFO" THEN {data[parsed]} ELSE {}) :
          LET f == [data[1] EXCEPT !.uid = h.uid, !.stamp = h.stamp]
          IN  /\ h \in Frame /\ f \in Frame
              /\ f.type = data[1].type /\ f.from = data[1].from /\ f.stamp = h.stamp
              /\ \/ ByUid(f) \/ BySignUpStamp(f)
                 \/ \E p \in BOOLEAN : Dropped(f, p)
  BY <1>1, DataFacts
<1>4. PICK f \in Frame :
          /\ f.type = data[1].type /\ f.from = data[1].from /\ f.stamp = h.stamp
          /\ \/ ByUid(f) \/ BySignUpStamp(f)
             \/ \E p \in BOOLEAN : Dropped(f, p)
  BY <1>3
<1>5. SignedWell(data[1])
  BY <1>1, DataFacts DEF IInv, Signed
<1>6. /\ f.type = "INFO" \/ (f.type = "SIGN_UP" /\ f.stamp = data[1].stamp)
      /\ f.type = "SIGN_UP" /\ Fresh => sign_up_requests[f.stamp] \in {None, f.from}
  BY <1>3, <1>4, <1>5 DEF SignedWell, SignUpTraced
<1>7. \A i \in DOMAIN data' : \E j \in DOMAIN data : data'[i] = data[j]
  BY <1>1, <1>2, DataFacts
<1>8. CASE ByUid(f)
  BY <1>2, <1>7, <1>8, ByUidRight, RoutedKept, QuietKeeps DEF routes, requests
<1>9. CASE \E p \in BOOLEAN : Dropped(f, p)
  BY <1>2, <1>7, <1>9, Silent, RoutedKept, QuietKeeps DEF Dropped, routes, requests
<1>10. CASE BySignUpStamp(f)
  <2>1. PICK c \in Client : c = sign_up_requests[f.stamp]
    BY <1>10 DEF BySignUpStamp, TInv, TypeOK
  <2>2. /\ f.stamp \in Stamp /\ c # None
        /\ Send(c, [f EXCEPT !.stamp = ClientStamp["SIGN_UP"]]) \/ sent' = None
        /\ sign_up_requests' = [sign_up_requests EXCEPT ![f.stamp] = None]
        /\ UNCHANGED <<routes, login_requests, current_stamp_>>
    BY <1>10, <2>1 DEF BySignUpStamp
  <2>3. f.type = "INFO" \/ f.from = c \/ (f.type = "SIGN_UP" /\ asked' > StampMax)
    BY <1>2, <1>6, <2>1, <2>2, Counters DEF Fresh
  <2>4. RightClient'
    <3>1. CASE sent' = None
      BY <3>1, Silent
    <3>2. CASE Send(c, [f EXCEPT !.stamp = ClientStamp["SIGN_UP"]])
      <4>1. ClientStamp["SIGN_UP"] \in Nat
        BY Numbers DEF Kind
      <4>2. [f EXCEPT !.stamp = ClientStamp["SIGN_UP"]] \in Frame
        BY <4>1 DEF Frame
      <4>3. /\ [f EXCEPT !.stamp = ClientStamp["SIGN_UP"]].type = f.type
            /\ [f EXCEPT !.stamp = ClientStamp["SIGN_UP"]].from = f.from
        BY DEF Frame
      <4> QED BY <2>3, <3>2, <4>2, <4>3, SendRight
    <3> QED BY <2>2, <3>1, <3>2
  <2>5. \A n \in Stamp : sign_up_requests'[n] \in {sign_up_requests[n], None}
    BY <2>2 DEF TInv, TypeOK
  <2> QED BY <1>2, <1>7, <2>2, <2>4, <2>5, RoutedKept, QuietKeeps DEF routes
<1> QED BY <1>4, <1>8, <1>9, <1>10

\* A chat server answers the client that gave the password.
LEMMA ServerRight ==
    ASSUME TInv, IInv, NEW a \in Area, ChatServer(a)
    PROVE  IInv'
<1> DEFINE q == Head(toChat[a])
<1>1. /\ q \in Frame /\ AskedWell(q)
      /\ \A b \in Area : \A i \in DOMAIN toChat'[b] :
             \E j \in DOMAIN toChat[b] : toChat'[b][i] = toChat[b][j]
  BY ServedFacts DEF IInv, Asked
<1>2. UNCHANGED <<requests, routes, data, asked>> /\ sent' = None
  BY DEF ChatServer, database, bounds
<1>3. /\ fromChat \in [Area -> Seq(Frame)] /\ granted \in [Client -> SUBSET Uid]
      /\ login_clients \in [Key -> Client \cup {None}]
  BY DEF TInv, TypeOK
<1>4. granted' = granted \/ granted' = [granted EXCEPT ![q.from] = @ \cup {q.user}]
  BY AnsweredFacts
<1>5. \A c \in Client : granted[c] \subseteq granted'[c]
  BY <1>3, <1>4
<1>6. Later /\ StampsGiven'
  BY <1>2, <1>5, NoStamp DEF requests, IInv
<1>7. ASSUME NEW f \in Frame, f.stamp = q.stamp, f.from = q.from, f.user = q.user,
             \/ /\ q.type = "LOGIN" /\ q.user # None /\ f.uid = q.user
                /\ granted' = [granted EXCEPT ![q.from] = @ \cup {q.user}]
             \/ q.user = None
      PROVE  RepliedWell(f)'
  <2>1. CASE q.user = None
    BY <1>7, <2>1 DEF RepliedWell
  <2>2. CASE q.type = "LOGIN" /\ f.uid = q.user /\ granted' = [granted EXCEPT ![q.from] = @ \cup {q.user}]
    <3>1. LoginTraced(q)
      BY <1>1, <2>2 DEF AskedWell
    <3>2. LoginTraced(f)
      BY <1>7, <3>1 DEF LoginTraced, Own
    <3>3. LoginTraced(f)'
      BY <1>2, <3>2 DEF LoginTraced, Own, Fresh, Given, Age, requests
    <3>4. f.uid \in granted'[f.from]
      BY <1>3, <1>7, <2>2, <3>1 DEF LoginTraced, Own
    <3> QED BY <3>3, <3>4 DEF RepliedWell
  <2> QED BY <1>7, <2>1, <2>2
<1>8. \A b \in Area : \A i \in DOMAIN fromChat'[b] :
           \/ \E j \in DOMAIN fromChat[b] : fromChat'[b][i] = fromChat[b][j]
           \/ \E f \in Frame : fromChat'[b][i] = f /\ RepliedWell(f)'
  <2> HIDE DEF q
  <2>1. fromChat' = fromChat \/ \E f \in Frame : Answer(a, f) /\ RepliedWell(f)'
    BY <1>7, AnsweredFacts DEF q
  <2> QED BY <1>3, <2>1, AnswerFacts
<1>9. Asked' /\ Replied' /\ Signed'
  BY <1>1, <1>2, <1>6, <1>8, QueuesKept
<1>10. Routed' /\ RightClient'
  BY <1>2, <1>3, <1>5, Silent, Numbers DEF IInv, Routed, routes
<1> QED BY <1>6, <1>9, <1>10 DEF IInv

LEMMA RightInit == Init => IInv
  BY DEF Init, IInv, StampsGiven, Asked, Replied, Signed, Routed, RightClient

LEMMA RightNext == TInv /\ IInv /\ [Next]_vars => IInv'
<1> SUFFICES ASSUME TInv, IInv, [Next]_vars PROVE IInv'
  OBVIOUS
<1>1. CASE UNCHANGED vars
  <2>1. UNCHANGED <<requests, routes, granted, asked, toChat, fromChat, data, sent>>
    BY <1>1 DEF vars, database, servers, bounds
  <2>2. RightClient'
    BY <1>1, <2>1 DEF IInv, RightClient, routes
  <2> QED BY <2>1, <2>2, RoutedKept, QuietKeeps DEF routes, requests
<1>2. ASSUME NEW c \in Client, SignUp(c) PROVE IInv'
  BY <1>2, SignUpRight
<1>3. ASSUME NEW c \in Client, NEW u \in Uid \cup {None}, NEW a \in Area, Login(c, u, a)
      PROVE  IInv'
  BY <1>3, LoginRight
<1>4. CASE DataServerMessage
  BY <1>4, DataAnswerRight
<1>5. ASSUME NEW a \in Area, ChatServerMessage(a) \/ ChatServer(a) PROVE IInv'
  BY <1>5, ChatAnswerRight, ServerRight
<1> QED BY <1>1, <1>2, <1>3, <1>4, <1>5, OthersRight DEF Next, Request

\* onChatServerMessage, onDataServerMessage: what is written to a client was
\* asked for by it or concerns a user whose password it gave, but for the ways
\* of Misleads: whatever clients do, whichever stamps they use, however often
\* chat servers end and however many users and requests there are.
THEOREM NobodyElse == Spec => []RightClient
<1>1. IInv => RightClient
  BY DEF IInv
<1> QED BY <1>1, RightInit, RightNext, TypesInductive, PTL DEF Spec

-----------------------------------------------------------------------------
(* Who is registered.  A registration and the state of its client's parser *)
(* are made together, and taken back together unless the client has been   *)
(* registered again, or was closing.                                       *)

\* A client in state LOGIN has a player_uid, and was connected.
Held  == \A c \in Client : client_state_[c] = "LOGIN" => player_uid[c] \in Key /\ cstate[c] # "new"
Begun == \A n \in Stamp : login_requests[n] # None => cstate[login_requests[n].client] # "new"
Here  == \A k \in Key, c \in Client :
             alive /\ login_clients[k] = c /\ c \notin late /\ player_uid[c] = k =>
                 cstate[c] = "up" /\ client_state_[c] = "LOGIN"

\* Registered, with what makes it and LivePlayer inductive.
PInv == Held /\ Begun /\ Here /\ Registered

LEMMA Tables ==
    ASSUME TInv
    PROVE  /\ alive \in BOOLEAN
           /\ cstate \in [Client -> {"new", "up", "closing", "gone"}]
           /\ client_state_ \in [Client -> {"NOT_LOGIN", "LOGIN"}]
           /\ player_uid \in [Client -> Key \cup {None}]
           /\ login_clients \in [Key -> Client \cup {None}]
           /\ login_requests \in [Stamp -> LoginRequest \cup {None}]
  BY DEF TInv, TypeOK, LoginRequest

\* A step that registers nobody, opens and closes no connection.
LEMMA SameRegistered ==
    ASSUME PInv, UNCHANGED <<cstate, parsers, routes>>, alive' = alive \/ ~ alive',
           \A n \in Stamp : \/ login_requests'[n] \in {login_requests[n], None}
                            \/ cstate[login_requests'[n].client] # "new"
    PROVE  PInv'
<1>1. Held' /\ Begun'
  BY DEF PInv, Held, Begun, parsers
<1>2. Here' /\ Registered'
  BY DEF PInv, Here, Registered, Up, parsers, routes
<1> QED BY <1>1, <1>2 DEF PInv

LEMMA ConnectionRegistered ==
    ASSUME TInv, PInv, NEW c \in Client, Connect(c) \/ Disconnect(c) \/ Destroy(c)
    PROVE  PInv'
<1>1. CASE Connect(c)
  <2>1. /\ cstate[c] = "new" /\ cstate' = [cstate EXCEPT ![c] = "up"]
        /\ UNCHANGED <<alive, parsers, routes, requests>>
    BY <1>1 DEF Connect
  <2>2. client_state_[c] # "LOGIN"
    BY <2>1 DEF PInv, Held
  <2>3. Held' /\ Begun'
    BY <2>1, Tables DEF PInv, Held, Begun, parsers, requests
  <2>4. Here' /\ Registered'
    BY <2>1, <2>2, Tables DEF PInv, Here, Registered, Up, parsers, routes
  <2> QED BY <2>3, <2>4 DEF PInv
<1>2. CASE Destroy(c)
  <2>1. /\ cstate[c] = "closing" /\ cstate' = [cstate EXCEPT ![c] = "gone"]
        /\ UNCHANGED <<alive, parsers, routes, requests>>
    BY <1>2 DEF Destroy
  <2>2. Held' /\ Begun'
    BY <2>1, Tables DEF PInv, Held, Begun, parsers, requests
  <2>3. Here' /\ Registered'
    BY <2>1, Tables DEF PInv, Here, Registered, Up, parsers, routes
  <2> QED BY <2>2, <2>3 DEF PInv
<1>3. CASE Disconnect(c)
  <2>1. /\ Up(c) /\ cstate' = [cstate EXCEPT ![c] = "closing"]
        /\ UNCHANGED <<parsers, user_info, misled, late, requests>>
        /\ \/ client_state_[c] = "NOT_LOGIN" /\ UNCHANGED <<alive, login_clients>>
           \/ client_state_[c] = "LOGIN" /\ login_clients' = Erase(player_uid[c]) /\ alive' = alive
           \/ ~ alive'
    BY <1>3 DEF Disconnect, Die, routes
  <2>2. Held' /\ Begun'
    BY <2>1, Tables DEF PInv, Held, Begun, parsers, requests
  <2>3. CASE client_state_[c] = "NOT_LOGIN" /\ UNCHANGED <<alive, login_clients>>
    BY <2>1, <2>2, <2>3, Tables DEF PInv, Here, Registered, Up, parsers
  <2>4. CASE client_state_[c] = "LOGIN" /\ login_clients' = Erase(player_uid[c]) /\ alive' = alive
    <3>1. player_uid[c] \in Key /\ login_clients[player_uid[c]] = c
      BY <2>1, <2>4 DEF PInv, Held, Registered
    <3>2. login_clients' = [login_clients EXCEPT ![player_uid[c]] = None]
      BY <2>4 DEF Erase
    <3>3. Here'
      BY <2>1, <2>4, <3>1, <3>2, Tables, Numbers DEF PInv, Here, Up, parsers
    <3>4. Registered'
      <4> SUFFICES ASSUME NEW d \in Client, Up(d)', client_state_'[d] = "LOGIN"
                   PROVE  login_clients'[player_uid'[d]] = d
        BY DEF Registered
      <4>1. d # c /\ Up(d) /\ client_state_[d] = "LOGIN" /\ player_uid'[d] = player_uid[d]
        BY <2>1, <2>4, Tables DEF Up, parsers
      <4>2. player_uid[d] \in Key /\ login_clients[player_uid[d]] = d
        BY <4>1 DEF PInv, Held, Registered
      <4> QED BY <3>1, <3>2, <4>1, <4>2, Tables
    <3> QED BY <2>2, <3>3, <3>4 DEF PInv
  <2>5. CASE ~ alive'
    BY <2>2, <2>5 DEF PInv, Here, Registered, Up
  <2> QED BY <2>1, <2>3, <2>4, <2>5
<1> QED BY <1>1, <1>2, <1>3

\* A client is registered, and its parser told when there still is one.
LEMMA LoginRegistered ==
    ASSUME TInv, PInv, NEW f \in Frame, f.uid \in Key, ByLoginStamp(f), cstate' = cstate
    PROVE  PInv'
<1>1. PICK c \in Client : c = login_requests[f.stamp].client /\ cstate[c] # "new"
  <2>1. f.stamp \in Stamp /\ login_requests[f.stamp] # None
    BY DEF ByLoginStamp, LoginPending
  <2> QED BY <2>1, Tables DEF LoginRequest, PInv, Begun
<1>2. /\ login_clients[f.uid] = None /\ alive' = alive
      /\ login_requests' = [login_requests EXCEPT ![f.stamp] = None]
      /\ login_clients' = [login_clients EXCEPT ![f.uid] = c]
      /\ late' = late \cup {d \in {c} : cstate[d] # "up"}
      /\ IF Locks(c)
         THEN /\ player_uid' = [player_uid EXCEPT ![c] = f.uid]
              /\ client_state_' = [client_state_ EXCEPT ![c] = "LOGIN"]
         ELSE UNCHANGED parsers
  BY <1>1, Tables DEF ByLoginStamp, Registrant, Insert
<1>3. Begun'
  BY <1>2, Tables DEF PInv, Begun
<1>4. CASE Locks(c)
  <2>1. Held'
    BY <1>1, <1>2, <1>4, Tables DEF PInv, Held
  <2>2. Here'
    <3> SUFFICES ASSUME NEW k \in Key, NEW d \in Client, alive', login_clients'[k] = d,
                        d \notin late', player_uid'[d] = k
                 PROVE  cstate'[d] = "up" /\ client_state_'[d] = "LOGIN"
      BY DEF Here
    <3>1. CASE d = c
      BY <1>2, <1>4, <3>1, Tables
    <3>2. CASE d # c
      BY <1>2, <1>4, <3>2, Tables DEF PInv, Here
    <3> QED BY <3>1, <3>2
  <2>3. Registered'
    <3> SUFFICES ASSUME NEW d \in Client, Up(d)', client_state_'[d] = "LOGIN"
                 PROVE  login_clients'[player_uid'[d]] = d
      BY DEF Registered
    <3>1. CASE d = c
      BY <1>2, <1>4, <3>1, Tables
    <3>2. CASE d # c
      <4>1. Up(d) /\ client_state_[d] = "LOGIN" /\ player_uid'[d] = player_uid[d]
        BY <1>2, <1>4, <3>2, Tables DEF Up
      <4>2. player_uid[d] \in Key /\ login_clients[player_uid[d]] = d
        BY <4>1 DEF PInv, Held, Registered
      <4> QED BY <1>2, <4>1, <4>2, Tables, Numbers
    <3> QED BY <3>1, <3>2
  <2> QED BY <1>3, <2>1, <2>2, <2>3 DEF PInv
<1>5. CASE ~ Locks(c)
  <2>1. cstate[c] = "gone" /\ c \in late' /\ UNCHANGED parsers
    BY <1>2, <1>5 DEF Locks
  <2>2. Held'
    BY <2>1 DEF PInv, Held, parsers
  <2>3. Here'
    BY <1>2, <2>1, Tables DEF PInv, Here, parsers
  <2>4. Registered'
    <3> SUFFICES ASSUME NEW d \in Client, Up(d)', client_state_'[d] = "LOGIN"
                 PROVE  login_clients'[player_uid'[d]] = d
      BY DEF Registered
    <3>1. Up(d) /\ client_state_[d] = "LOGIN" /\ player_uid'[d] = player_uid[d]
      BY <1>2, <2>1 DEF Up, parsers
    <3>2. player_uid[d] \in Key /\ login_clients[player_uid[d]] = d
      BY <3>1 DEF PInv, Held, Registered
    <3> QED BY <1>2, <3>1, <3>2, Tables, Numbers
  <2> QED BY <1>3, <2>2, <2>3, <2>4 DEF PInv
<1> QED BY <1>4, <1>5

LEMMA AnswerRegistered ==
    ASSUME TInv, PInv, (\E a \in Area : ChatServerMessage(a)) \/ DataServerMessage
    PROVE  PInv'
<1>1. ASSUME NEW f \in Frame, cstate' = cstate,
             ByUid(f) \/ BySignUpStamp(f) \/ \E p \in BOOLEAN : Dropped(f, p)
      PROVE  PInv'
  <2>1. /\ UNCHANGED <<parsers, routes, login_requests>> /\ (alive' = alive \/ ~ alive')
    BY <1>1 DEF ByUid, BySignUpStamp, Dropped, Die, requests
  <2> QED BY <1>1, <2>1, SameRegistered
<1>2. CASE DataServerMessage
  <2>1. cstate' = cstate /\ TypeOK
    BY <1>2 DEF DataServerMessage, TInv
  <2>2. PICK f \in Frame :
            ByUid(f) \/ BySignUpStamp(f) \/ \E p \in BOOLEAN : Dropped(f, p)
    BY <1>2, <2>1, DataFacts
  <2> QED BY <1>1, <2>1, <2>2
<1>3. ASSUME NEW a \in Area, ChatServerMessage(a) PROVE PInv'
  <2> DEFINE f == Head(fromChat[a])
  <2>1. fromChat \in [Area -> Seq(Frame)] /\ fromChat[a] # <<>>
    BY <1>3 DEF TInv, TypeOK, ChatServerMessage
  <2>2. f \in Frame /\ f.uid \in Key
    BY <2>1, TakeFacts DEF TInv, Truthful
  <2>3. /\ ByUid(f) \/ ByLoginStamp(f) \/ \E p \in BOOLEAN : Dropped(f, p)
        /\ cstate' = cstate
    BY <1>3 DEF ChatServerMessage, LoginPending
  <2> HIDE DEF f
  <2> QED BY <1>1, <2>2, <2>3, LoginRegistered
<1> QED BY <1>2, <1>3

LEMMA RequestRegistered ==
    ASSUME TInv, PInv, NEW c \in Client,
           \/ SignUp(c) \/ Info(c)
           \/ \E u \in Uid \cup {None}, a \in Area : Login(c, u, a)
           \/ \E t \in {"BLACK_LIST", "PLAYER_LIST", "LOGOUT"} : Normal(c, t)
    PROVE  PInv'
<1>1. CASE SignUp(c) \/ Info(c) \/ \E t \in {"BLACK_LIST", "PLAYER_LIST", "LOGOUT"} : Normal(c, t)
  <2>1. /\ UNCHANGED <<cstate, parsers, routes, login_requests>>
        /\ alive' = alive \/ ~ alive'
    BY <1>1 DEF SignUp, Info, Normal, Die, requests
  <2> QED BY <2>1, SameRegistered
<1>2. ASSUME NEW u \in Uid \cup {None}, NEW a \in Area, Login(c, u, a) PROVE PInv'
  <2>1. /\ UNCHANGED <<cstate, parsers, routes>> /\ cstate[c] = "up"
        /\ alive' = alive \/ ~ alive'
        /\ \/ login_requests' = login_requests
           \/ login_requests' = Insert(login_requests, getStamp, [client |-> c, area |-> a])
    BY <1>2 DEF Login, Die, requests, Up
  <2>2. \A n \in Stamp : \/ login_requests'[n] \in {login_requests[n], None}
                         \/ cstate[login_requests'[n].client] # "new"
    BY <2>1, Tables DEF Insert
  <2> QED BY <2>1, <2>2, SameRegistered
<1> QED BY <1>1, <1>2

LEMMA RegisteredInit == Init => PInv
<1> SUFFICES ASSUME Init PROVE PInv
  OBVIOUS
<1>1. None \notin Client
  BY Numbers
<1>2. Registered
  BY DEF Init, Registered, Up
<1>3. Held
  BY DEF Init, Held
<1>4. Begun
  BY DEF Init, Begun
<1>5. Here
  BY <1>1 DEF Init, Here, Up
<1> QED BY <1>2, <1>3, <1>4, <1>5 DEF PInv

LEMMA RegisteredNext == TInv /\ PInv /\ [Next]_vars => PInv'
<1> SUFFICES ASSUME TInv, PInv, [Next]_vars PROVE PInv'
  OBVIOUS
<1>1. CASE UNCHANGED vars
  BY <1>1, SameRegistered DEF vars, requests
<1>2. CASE Request
  BY <1>2, ConnectionRegistered, RequestRegistered DEF Request
<1>3. CASE DataServerMessage \/ \E a \in Area : ChatServerMessage(a)
  BY <1>3, AnswerRegistered
<1>4. CASE \/ DataParse
           \/ \E a \in Area : ServerLost(a) \/ ChatServer(a) \/ \E u \in Uid : ChatMessage(a, u)
  <2>1. UNCHANGED <<alive, cstate, parsers, routes, requests>>
    BY <1>4 DEF DataParse, ServerLost, ChatServer, ChatMessage
  <2> QED BY <2>1, SameRegistered DEF requests
<1> QED BY <1>1, <1>2, <1>3, <1>4 DEF Next

LEMMA RegisteredInductive == Spec => []PInv
  BY RegisteredInit, RegisteredNext, TypesInductive, PTL DEF Spec

\* setLogin and login_clients.insert, proxy.cc's erase: a client in state LOGIN
\* is the one registered for its player_uid, whatever clients do and whatever
\* answer their LOGIN is taken to have.
THEOREM Registrations == Spec => []Registered
<1>1. PInv => Registered
  BY DEF PInv
<1> QED BY <1>1, RegisteredInductive, PTL

\* "forward to a valid player": a registered connection is gone only when it
\* was closing already, or has been registered for another uid since.
THEOREM PlayersLive == Spec => []LivePlayer
<1>1. TInv /\ PInv => LivePlayer
  <2> SUFFICES ASSUME TInv, PInv, NEW k \in Key, alive, login_clients[k] # None
               PROVE  \/ Locks(login_clients[k]) \/ login_clients[k] \in late
                      \/ player_uid[login_clients[k]] # k
    BY DEF LivePlayer
  <2>1. PICK c \in Client : c = login_clients[k]
    BY Tables
  <2> QED BY <2>1 DEF PInv, Here, Locks
<1> QED BY <1>1, RegisteredInductive, TypesInductive, PTL

=============================================================================
