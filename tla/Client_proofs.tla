--------------------------- MODULE Client_proofs ----------------------------
(***************************************************************************)
(* The client, for any accounts: in whose name it sends, and whom a name   *)
(* that is typed stands for.                                               *)
(***************************************************************************)
EXTENDS Client, SequenceTheorems, TLAPS

Uid == Account \cup Speaker

Ask == [type : {"LOGIN"}, uid : Int, to : Account \cup {None}]

Requests ==
    Ask \cup [type : {"OTHER", "BLACK_LIST", "CHAT", "LOGOUT"}, uid : Int, to : Int \cup {None}]

Frames ==
    [type : {"LOGIN"}, uid : Account \cup {None}] \cup [type : {"PRIVATE", "BROADCAST"}, uid : Uid]

TypeOK ==
    /\ g_uid \in Int
    /\ screen = None \/ screen \in [name : Int, who : Uid]
    /\ requests \in Seq(Requests)
    /\ pending \in Seq(Ask)
    /\ frames \in Seq(Frames)
    /\ crossed \in BOOLEAN

\* The name on the screen is the sender's.
Named == screen # None => screen.name = Shown(screen.who)

NoLogin(q) == \A i \in DOMAIN q : q[i].type # "LOGIN"

\* As long as no LOGOUT has crossed a LOGIN: the user, and whoever an answer is
\* about to make the user, is logged in; a LOGOUT that is under way found
\* every LOGIN answered, and nobody has become the user since.
Current ==
    ~ crossed =>
        /\ g_uid # Nouid => g_uid \in sessions
        /\ \A i \in DOMAIN frames :
              frames[i].type = "LOGIN" => frames[i].uid \in sessions \cup {None}
        /\ \A i \in DOMAIN requests :
              requests[i].type = "LOGOUT" =>
                  /\ g_uid = Nouid /\ pending = <<>> /\ NoLogin(frames)
                  /\ \A j \in 1..(i - 1) : requests[j].type # "LOGIN"

IInv == TypeOK /\ Named /\ Current

-----------------------------------------------------------------------------
(* Sequences                                                                 *)

LEMMA Appended ==
    ASSUME NEW S, NEW s \in Seq(S), NEW e \in S
    PROVE  /\ Append(s, e) \in Seq(S) /\ Len(Append(s, e)) = Len(s) + 1
           /\ Len(s) \in Nat /\ DOMAIN s = 1..Len(s) /\ DOMAIN Append(s, e) = 1..(Len(s) + 1)
           /\ Append(s, e)[Len(s) + 1] = e
           /\ \A i \in 1..Len(s) : Append(s, e)[i] = s[i]
           /\ \A i \in DOMAIN Append(s, e) : i \in DOMAIN s \/ i = Len(s) + 1
<1>1. Len(s) \in Nat /\ DOMAIN s = 1..Len(s)
  BY LenProperties
<1>2. /\ Append(s, e) \in Seq(S) /\ Len(Append(s, e)) = Len(s) + 1
      /\ Append(s, e)[Len(s) + 1] = e
      /\ \A i \in 1..Len(s) : Append(s, e)[i] = s[i]
  BY AppendProperties
<1>3. DOMAIN Append(s, e) = 1..(Len(s) + 1)
  BY <1>2, LenProperties
<1> QED BY <1>1, <1>2, <1>3

LEMMA Behead ==
    ASSUME NEW S, NEW s \in Seq(S), s # <<>>
    PROVE  /\ Head(s) = s[1] /\ s[1] \in S /\ 1 \in DOMAIN s
           /\ Tail(s) \in Seq(S) /\ Len(Tail(s)) = Len(s) - 1 /\ Len(s) \in Nat \ {0}
           /\ DOMAIN s = 1..Len(s) /\ DOMAIN Tail(s) = 1..(Len(s) - 1)
           /\ \A i \in DOMAIN Tail(s) : i + 1 \in DOMAIN s /\ Tail(s)[i] = s[i + 1]
<1>1. Len(s) \in Nat /\ Len(s) # 0 /\ DOMAIN s = 1..Len(s)
  BY EmptySeq, LenProperties
<1>2. /\ Head(s) \in S /\ Tail(s) \in Seq(S) /\ Len(Tail(s)) = Len(s) - 1
      /\ \A i \in 1..Len(Tail(s)) : Tail(s)[i] = s[i + 1]
  BY HeadTailProperties
<1>3. DOMAIN Tail(s) = 1..(Len(s) - 1)
  BY <1>2, LenProperties
<1>4. Head(s) = s[1] /\ 1 \in DOMAIN s
  BY <1>1
<1> QED BY <1>1, <1>2, <1>3, <1>4

LEMMA Removed ==
    ASSUME NEW S, NEW s \in Seq(S), NEW i \in DOMAIN s
    PROVE  RemoveAt(s, i) \in Seq(S) /\ s[i] \in S
<1>1. Len(s) \in Nat /\ i \in 1..Len(s) /\ s[i] \in S
  BY LenProperties, ElementOfSeq
<1>2. SubSeq(s, 1, i - 1) \in Seq(S) /\ SubSeq(s, i + 1, Len(s)) \in Seq(S)
  BY <1>1, SubSeqProperties
<1> QED BY <1>1, <1>2, ConcatProperties DEF RemoveAt

-----------------------------------------------------------------------------
(* Types                                                                     *)

LEMMA Typed ==
    ASSUME ClientAssumption, NEW n \in Int
    PROVE  typed(n) \in Int
<1>1. Reversed(n) \in Int
  BY DEF Reversed
<1> QED BY <1>1 DEF typed

\* What a command sends
LEMMA Sent ==
    ASSUME TypeOK, NEW t, NEW u, NEW to, Request(t, u, to),
           [type |-> t, uid |-> u, to |-> to] \in Requests
    PROVE  /\ requests' \in Seq(Requests) /\ Len(requests) \in Nat
           /\ Len(requests') = Len(requests) + 1
           /\ DOMAIN requests = 1..Len(requests) /\ DOMAIN requests' = 1..(Len(requests) + 1)
           /\ requests'[Len(requests) + 1] = [type |-> t, uid |-> u, to |-> to]
           /\ \A i \in 1..Len(requests) : requests'[i] = requests[i]
           /\ UNCHANGED <<screen, pending, sessions, frames>>
<1> DEFINE r == [type |-> t, uid |-> u, to |-> to]
<1>1. requests' = Append(requests, r) /\ UNCHANGED <<screen, pending, sessions, frames>>
  BY DEF Request
<1>2. requests \in Seq(Requests) /\ r \in Requests
  BY DEF TypeOK
<1> HIDE DEF r
<1>3. /\ Append(requests, r) \in Seq(Requests) /\ Len(Append(requests, r)) = Len(requests) + 1
      /\ Len(requests) \in Nat /\ DOMAIN requests = 1..Len(requests)
      /\ DOMAIN Append(requests, r) = 1..(Len(requests) + 1)
      /\ Append(requests, r)[Len(requests) + 1] = r
      /\ \A i \in 1..Len(requests) : Append(requests, r)[i] = requests[i]
  BY <1>2, Appended
<1> QED BY <1>1, <1>3 DEF r

LEMMA InitTyped == Init => IInv
<1> SUFFICES ASSUME Init PROVE IInv
  OBVIOUS
<1>1. /\ <<>> \in Seq(Requests) /\ <<>> \in Seq(Ask) /\ <<>> \in Seq(Frames) /\ Len(<<>>) = 0
  BY EmptySeq
<1>2. DOMAIN <<>> = {}
  OBVIOUS
<1>3. TypeOK
  <2>1. -1 \in Int
    OBVIOUS
  <2> QED BY <1>1, <2>1 DEF Init, TypeOK, Nouid
<1>5. Named
  BY DEF Init, Named
<1>4. Current
  BY <1>2 DEF Init, Current
<1> QED BY <1>3, <1>4, <1>5 DEF IInv

\* Nothing in the state of a command but the request, and who the user is
LEMMA Commanded ==
    ASSUME TypeOK, Named, NEW t, NEW u, NEW to, Request(t, u, to),
           [type |-> t, uid |-> u, to |-> to] \in Requests,
           g_uid' \in Int, crossed' \in BOOLEAN
    PROVE  TypeOK' /\ Named'
<1>1. requests' \in Seq(Requests) /\ UNCHANGED <<screen, pending, sessions, frames>>
  BY Sent
<1>2. TypeOK'
  BY <1>1 DEF TypeOK
<1>3. Named'
  BY <1>1 DEF Named
<1> QED BY <1>2, <1>3

LEMMA CommandsTyped ==
    ASSUME ClientAssumption, TypeOK, Named,
           \/ Login \/ SignUp \/ Info \/ GetPlayerList \/ BlackList \/ Chat \/ Broadcast \/ Logout
    PROVE  TypeOK' /\ Named'
<1> USE DEF Requests, Ask
<1>0. g_uid \in Int /\ crossed \in BOOLEAN /\ Nouid \in Int /\ Area \subseteq Int
  BY DEF TypeOK, Nouid, Area
<1>1. ASSUME screen # None PROVE typed(screen.name) \in Int
  <2>1. screen.name \in Int
    BY <1>1 DEF TypeOK
  <2> QED BY <2>1, Typed
<1>2. CASE Login
  <2>1. PICK u \in Account \cup {None}, area \in Area : Request("LOGIN", area, u)
    BY <1>2 DEF Login
  <2>2. UNCHANGED <<g_uid, crossed>>
    BY <1>2 DEF Login
  <2>3. area \in Int
    BY <1>0
  <2> QED BY <1>0, <2>1, <2>2, <2>3, Commanded
<1>3. CASE SignUp
  BY <1>0, <1>3, Commanded DEF SignUp
<1>4. CASE Info
  BY <1>0, <1>4, Commanded DEF Info
<1>5. CASE GetPlayerList
  BY <1>0, <1>5, Commanded DEF GetPlayerList
<1>6. CASE BlackList
  BY <1>0, <1>1, <1>6, Commanded DEF BlackList
<1>7. CASE Chat
  BY <1>0, <1>1, <1>7, Commanded DEF Chat
<1>8. CASE Broadcast
  BY <1>0, <1>8, Commanded DEF Broadcast
<1>9. CASE Logout
  <2>1. crossed' \in BOOLEAN
    BY <1>0, <1>9 DEF Logout, Unanswered
  <2>2. Request("LOGOUT", g_uid, None) /\ g_uid' = Nouid
    BY <1>9 DEF Logout, LoggedOut
  <2> QED BY <1>0, <2>1, <2>2, Commanded
<1> QED BY <1>2, <1>3, <1>4, <1>5, <1>6, <1>7, <1>8, <1>9

LEMMA StepTyped ==
    ASSUME ClientAssumption, TypeOK, Named, [Next]_vars
    PROVE  TypeOK' /\ Named'
<1>1. CASE \/ Login \/ SignUp \/ Info \/ GetPlayerList \/ BlackList \/ Chat \/ Broadcast \/ Logout
  BY <1>1, CommandsTyped
<1>2. CASE Receive
  <2>1. frames # <<>> /\ frames \in Seq(Frames)
    BY <1>2 DEF Receive, TypeOK
  <2>2. frames' \in Seq(Frames) /\ Head(frames) \in Frames
    <3>1. Tail(frames) \in Seq(Frames) /\ Head(frames) \in Frames
      BY <2>1, Behead
    <3> QED BY <1>2, <3>1 DEF Receive
  <2>3. PICK f \in Frames : HandleResponse(f) \/ HandleNotify(f)
    BY <1>2, <2>2 DEF Receive
  <2>4. UNCHANGED <<requests, pending, sessions, crossed>>
    BY <1>2 DEF Receive
  <2>5. CASE HandleResponse(f)
    <3>1. g_uid' \in Int /\ screen' = screen
      BY <2>5 DEF HandleResponse, Frames, ClientAssumption, TypeOK
    <3> QED BY <2>2, <2>4, <3>1 DEF TypeOK, Named
  <2>6. CASE HandleNotify(f)
    <3>1. f.uid \in Uid /\ f.uid \in Int
      <4>1. f.uid \in Uid /\ Uid \subseteq 1..108
        BY <2>6 DEF HandleNotify, Frames, Uid, ClientAssumption
      <4>2. f.uid \in 1..108
        BY <4>1
      <4> QED BY <4>1, <4>2
    <3>2. screen' = screen \/ screen' = [name |-> Shown(f.uid), who |-> f.uid]
      BY <2>6 DEF HandleNotify
    <3>3. Shown(f.uid) \in Int
      BY <3>1 DEF Shown
    <3>4. screen' = None \/ screen' \in [name : Int, who : Uid]
      BY <3>1, <3>2, <3>3 DEF TypeOK
    <3>5. Named'
      BY <3>2 DEF Named
    <3>6. g_uid' = g_uid
      BY <2>6 DEF HandleNotify
    <3> QED BY <2>2, <2>4, <3>4, <3>5, <3>6 DEF TypeOK
  <2> QED BY <2>3, <2>5, <2>6
<1>3. CASE Handle
  <2>1. requests # <<>> /\ requests \in Seq(Requests) /\ pending \in Seq(Ask)
    BY <1>3 DEF Handle, TypeOK
  <2>2. Tail(requests) \in Seq(Requests) /\ Head(requests) \in Requests
    BY <2>1, Behead
  <2>3. requests' = Tail(requests) /\ UNCHANGED <<g_uid, screen, frames, crossed>>
    BY <1>3 DEF Handle
  <2>4. pending' = IF Head(requests).type = "LOGIN" THEN Append(pending, Head(requests))
                   ELSE pending
    BY <1>3 DEF Handle
  <2>5. pending' \in Seq(Ask)
    <3>1. CASE Head(requests).type = "LOGIN"
      <4>1. Head(requests) \in Ask
        BY <2>2, <3>1 DEF Requests
      <4>2. Append(pending, Head(requests)) \in Seq(Ask)
        BY <2>1, <4>1, Appended
      <4> QED BY <2>4, <3>1, <4>2
    <3>2. CASE Head(requests).type # "LOGIN"
      BY <2>1, <2>4, <3>2
    <3> QED BY <3>1, <3>2
  <2> QED BY <2>2, <2>3, <2>5 DEF TypeOK, Named
<1>4. CASE Grant
  <2>1. PICK i \in DOMAIN pending :
            /\ pending' = RemoveAt(pending, i)
            /\ frames' = Append(frames, [type |-> "LOGIN", uid |-> pending[i].to])
            /\ UNCHANGED <<g_uid, screen, requests, crossed>>
    BY <1>4 DEF Grant
  <2>2. pending \in Seq(Ask) /\ frames \in Seq(Frames)
    BY DEF TypeOK
  <2>3. RemoveAt(pending, i) \in Seq(Ask) /\ pending[i] \in Ask
    BY <2>2, Removed
  <2>4. [type |-> "LOGIN", uid |-> pending[i].to] \in Frames
    BY <2>3 DEF Ask, Frames
  <2>5. frames' \in Seq(Frames)
    BY <2>1, <2>2, <2>4, Appended
  <2> QED BY <2>1, <2>3, <2>5 DEF TypeOK, Named
<1>5. CASE Notify
  <2>1. PICK u \in Uid, type \in {"PRIVATE", "BROADCAST"} :
            frames' = Append(frames, [type |-> type, uid |-> u])
    BY <1>5 DEF Notify, Uid
  <2>2. [type |-> type, uid |-> u] \in Frames /\ frames \in Seq(Frames)
    BY DEF Frames, TypeOK
  <2>3. frames' \in Seq(Frames)
    BY <2>1, <2>2, Appended
  <2>4. UNCHANGED <<g_uid, screen, requests, pending, sessions, crossed>>
    BY <1>5 DEF Notify
  <2> QED BY <2>3, <2>4 DEF TypeOK, Named
<1>6. CASE UNCHANGED vars
  BY <1>6 DEF TypeOK, Named, vars, servers
<1> QED BY <1>1, <1>2, <1>3, <1>4, <1>5, <1>6 DEF Next

-----------------------------------------------------------------------------
(* In whose name                                                             *)

\* A command other than LOGOUT changes nothing that Current is about: a LOGIN
\* comes after every LOGOUT that is under way.
LEMMA CommandCurrent ==
    ASSUME TypeOK, Current, NEW t \in {"LOGIN", "OTHER", "BLACK_LIST", "CHAT"}, NEW u, NEW to,
           Request(t, u, to), [type |-> t, uid |-> u, to |-> to] \in Requests,
           UNCHANGED <<g_uid, crossed>>
    PROVE  Current'
<1>1. /\ Len(requests) \in Nat /\ DOMAIN requests = 1..Len(requests)
      /\ DOMAIN requests' = 1..(Len(requests) + 1)
      /\ requests'[Len(requests) + 1] = [type |-> t, uid |-> u, to |-> to]
      /\ \A i \in 1..Len(requests) : requests'[i] = requests[i]
      /\ UNCHANGED <<pending, sessions, frames>>
  BY Sent
<1>2. ASSUME ~ crossed, NEW i \in DOMAIN requests', requests'[i].type = "LOGOUT"
      PROVE  /\ g_uid = Nouid /\ pending = <<>> /\ NoLogin(frames)
             /\ \A j \in 1..(i - 1) : requests'[j].type # "LOGIN"
  <2>1. i \in 1..Len(requests)
    BY <1>1, <1>2
  <2>2. requests[i].type = "LOGOUT"
    BY <1>1, <1>2, <2>1
  <2>3. /\ g_uid = Nouid /\ pending = <<>> /\ NoLogin(frames)
        /\ \A j \in 1..(i - 1) : requests[j].type # "LOGIN"
    BY <1>1, <1>2, <2>1, <2>2 DEF Current
  <2>4. \A j \in 1..(i - 1) : j \in 1..Len(requests)
    BY <1>1, <2>1
  <2> QED BY <1>1, <2>3, <2>4
<1> QED BY <1>1, <1>2 DEF Current, NoLogin

LEMMA CommandsCurrent ==
    ASSUME ClientAssumption, TypeOK, Named, Current,
           \/ Login \/ SignUp \/ Info \/ GetPlayerList \/ BlackList \/ Chat \/ Broadcast \/ Logout
    PROVE  Current'
<1> USE DEF Requests, Ask
<1>0. g_uid \in Int /\ Nouid \in Int /\ Area \subseteq Int
  BY DEF TypeOK, Nouid, Area
<1>1. ASSUME screen # None PROVE typed(screen.name) \in Int
  <2>1. screen.name \in Int
    BY <1>1 DEF TypeOK
  <2> QED BY <2>1, Typed
<1>2. CASE Login
  <2>1. PICK u \in Account \cup {None}, area \in Area : Request("LOGIN", area, u)
    BY <1>2 DEF Login
  <2>2. UNCHANGED <<g_uid, crossed>> /\ area \in Int
    BY <1>0, <1>2 DEF Login
  <2> QED BY <2>1, <2>2, CommandCurrent
<1>3. CASE SignUp
  BY <1>0, <1>3, CommandCurrent DEF SignUp
<1>4. CASE Info
  BY <1>0, <1>4, CommandCurrent DEF Info
<1>5. CASE GetPlayerList
  BY <1>0, <1>5, CommandCurrent DEF GetPlayerList
<1>6. CASE BlackList
  BY <1>0, <1>1, <1>6, CommandCurrent DEF BlackList
<1>7. CASE Chat
  BY <1>0, <1>1, <1>7, CommandCurrent DEF Chat
<1>8. CASE Broadcast
  BY <1>0, <1>8, CommandCurrent DEF Broadcast
<1>9. CASE Logout
  <2>1. Request("LOGOUT", g_uid, None) /\ g_uid' = Nouid /\ crossed' = (crossed \/ Unanswered)
    BY <1>9 DEF Logout, LoggedOut
  <2>2. /\ Len(requests) \in Nat /\ DOMAIN requests = 1..Len(requests)
        /\ DOMAIN requests' = 1..(Len(requests) + 1)
        /\ \A i \in 1..Len(requests) : requests'[i] = requests[i]
        /\ UNCHANGED <<pending, sessions, frames>>
    BY <1>0, <2>1, Sent
  <2>3. ASSUME ~ crossed'
        PROVE  /\ ~ crossed /\ pending = <<>> /\ NoLogin(frames)
               /\ \A i \in DOMAIN requests : requests[i].type # "LOGIN"
    BY <2>1, <2>3 DEF Unanswered, NoLogin
  <2>4. ASSUME ~ crossed', NEW i \in DOMAIN requests'
        PROVE  \A j \in 1..(i - 1) : requests'[j].type # "LOGIN"
    <3>1. \A j \in 1..(i - 1) : j \in 1..Len(requests)
      BY <2>2
    <3> QED BY <2>2, <2>3, <2>4, <3>1
  <2> QED BY <2>1, <2>2, <2>3, <2>4 DEF Current, NoLogin
<1> QED BY <1>2, <1>3, <1>4, <1>5, <1>6, <1>7, <1>8, <1>9

LEMMA StepCurrent ==
    ASSUME ClientAssumption, TypeOK, Named, Current, [Next]_vars
    PROVE  Current'
<1>1. CASE \/ Login \/ SignUp \/ Info \/ GetPlayerList \/ BlackList \/ Chat \/ Broadcast \/ Logout
  BY <1>1, CommandsCurrent
<1>2. CASE Receive
  <2>1. frames # <<>> /\ frames \in Seq(Frames) /\ frames' = Tail(frames)
    BY <1>2 DEF Receive, TypeOK
  <2>2. /\ Head(frames) = frames[1] /\ 1 \in DOMAIN frames
        /\ \A i \in DOMAIN frames' : i + 1 \in DOMAIN frames /\ frames'[i] = frames[i + 1]
    BY <2>1, Behead
  <2>3. NoLogin(frames) => NoLogin(frames')
    BY <2>2 DEF NoLogin
  <2>4. UNCHANGED <<requests, pending, sessions, crossed>>
    BY <1>2 DEF Receive
  <2>5. HandleResponse(frames[1]) \/ HandleNotify(frames[1])
    BY <1>2, <2>2 DEF Receive
  <2>6. CASE HandleResponse(frames[1])
    <3>1. frames[1].type = "LOGIN" /\ ~ NoLogin(frames)
      BY <2>2, <2>6 DEF HandleResponse, NoLogin
    <3>2. g_uid' = IF frames[1].uid = None THEN g_uid ELSE frames[1].uid
      BY <2>6 DEF HandleResponse
    <3>3. ~ crossed => frames[1].uid \in sessions \cup {None}
      BY <2>2, <3>1 DEF Current
    <3> QED BY <2>2, <2>4, <3>1, <3>2, <3>3 DEF Current
  <2>7. CASE HandleNotify(frames[1])
    <3>1. g_uid' = g_uid
      BY <2>7 DEF HandleNotify
    <3> QED BY <2>2, <2>3, <2>4, <3>1 DEF Current
  <2> QED BY <2>5, <2>6, <2>7
<1>3. CASE Handle
  <2>1. requests # <<>> /\ requests \in Seq(Requests) /\ pending \in Seq(Ask)
    BY <1>3 DEF Handle, TypeOK
  <2>2. requests' = Tail(requests) /\ UNCHANGED <<g_uid, screen, frames, crossed>>
    BY <1>3 DEF Handle
  <2>3. /\ Head(requests) = requests[1] /\ 1 \in DOMAIN requests /\ Len(requests) \in Nat
        /\ DOMAIN requests' = 1..(Len(requests) - 1) /\ DOMAIN requests = 1..Len(requests)
        /\ \A i \in DOMAIN requests' : i + 1 \in DOMAIN requests /\ requests'[i] = requests[i + 1]
    BY <2>1, <2>2, Behead
  <2>4. /\ requests[1].type # "LOGIN" => pending' = pending
        /\ sessions' = IF requests[1].type = "LOGOUT" THEN sessions \ {requests[1].uid}
                       ELSE sessions
    BY <1>3, <2>3 DEF Handle
  <2>5. ASSUME ~ crossed PROVE g_uid # Nouid => g_uid \in sessions'
    BY <2>3, <2>4, <2>5 DEF Current
  <2>6. ASSUME ~ crossed, NEW i \in DOMAIN frames, frames[i].type = "LOGIN"
        PROVE  frames[i].uid \in sessions' \cup {None}
    <3>1. requests[1].type # "LOGOUT"
      BY <2>3, <2>6 DEF Current, NoLogin
    <3> QED BY <2>4, <2>6, <3>1 DEF Current
  <2>7. ASSUME ~ crossed, NEW i \in DOMAIN requests', requests'[i].type = "LOGOUT"
        PROVE  /\ g_uid = Nouid /\ pending' = <<>> /\ NoLogin(frames)
               /\ \A j \in 1..(i - 1) : requests'[j].type # "LOGIN"
    <3>1. i + 1 \in DOMAIN requests /\ requests[i + 1].type = "LOGOUT"
      BY <2>3, <2>7
    <3>2. /\ g_uid = Nouid /\ pending = <<>> /\ NoLogin(frames)
          /\ \A j \in 1..((i + 1) - 1) : requests[j].type # "LOGIN"
      BY <2>7, <3>1 DEF Current
    <3>3. i \in Nat \ {0} /\ 1 \in 1..((i + 1) - 1)
      BY <2>3
    <3>4. pending' = <<>>
      BY <2>4, <3>2, <3>3
    <3>5. ASSUME NEW j \in 1..(i - 1) PROVE requests'[j].type # "LOGIN"
      <4>1. j \in DOMAIN requests' /\ j + 1 \in 1..((i + 1) - 1)
        BY <2>3, <3>3
      <4>2. requests'[j] = requests[j + 1]
        BY <2>3, <4>1
      <4> QED BY <3>2, <4>1, <4>2
    <3> QED BY <3>2, <3>4, <3>5
  <2> QED BY <2>2, <2>5, <2>6, <2>7 DEF Current, NoLogin
<1>4. CASE Grant
  <2>1. PICK i \in DOMAIN pending :
            /\ frames' = Append(frames, [type |-> "LOGIN", uid |-> pending[i].to])
            /\ sessions' = sessions \cup ({pending[i].to} \ {None})
            /\ UNCHANGED <<g_uid, screen, requests, crossed>>
    BY <1>4 DEF Grant
  <2>2. pending \in Seq(Ask) /\ frames \in Seq(Frames)
    BY DEF TypeOK
  <2>3. pending # <<>>
    BY <2>1
  <2>4. pending[i] \in Ask
    BY <2>2, Removed
  <2>5. [type |-> "LOGIN", uid |-> pending[i].to] \in Frames
    BY <2>4 DEF Ask, Frames
  <2>6. /\ \A k \in DOMAIN frames' : k \in DOMAIN frames \/ k = Len(frames) + 1
        /\ \A k \in DOMAIN frames : frames'[k] = frames[k]
        /\ frames'[Len(frames) + 1] = [type |-> "LOGIN", uid |-> pending[i].to]
    BY <2>1, <2>2, <2>5, Appended
  <2>7. ASSUME ~ crossed, NEW k \in DOMAIN frames', frames'[k].type = "LOGIN"
        PROVE  frames'[k].uid \in sessions' \cup {None}
    <3>1. CASE k \in DOMAIN frames
      BY <2>1, <2>6, <2>7, <3>1 DEF Current
    <3>2. CASE k = Len(frames) + 1
      BY <2>1, <2>6, <3>2
    <3> QED BY <2>6, <3>1, <3>2
  <2>8. ~ crossed => \A k \in DOMAIN requests : requests[k].type # "LOGOUT"
    BY <2>3 DEF Current
  <2>9. sessions \subseteq sessions' /\ UNCHANGED <<g_uid, requests, crossed>>
    BY <2>1
  <2> HIDE DEF Frames, Ask
  <2> QED BY <2>7, <2>8, <2>9 DEF Current
<1>5. CASE Notify
  <2>1. PICK u \in Uid, type \in {"PRIVATE", "BROADCAST"} :
            frames' = Append(frames, [type |-> type, uid |-> u])
    BY <1>5 DEF Notify, Uid
  <2>2. [type |-> type, uid |-> u] \in Frames /\ frames \in Seq(Frames)
    BY DEF Frames, TypeOK
  <2>3. /\ \A k \in DOMAIN frames' : k \in DOMAIN frames \/ k = Len(frames) + 1
        /\ \A k \in DOMAIN frames : frames'[k] = frames[k]
        /\ frames'[Len(frames) + 1] = [type |-> type, uid |-> u]
    BY <2>1, <2>2, Appended
  <2>4. \A k \in DOMAIN frames' :
            frames'[k].type = "LOGIN" => k \in DOMAIN frames /\ frames'[k] = frames[k]
    BY <2>3
  <2>5. UNCHANGED <<g_uid, screen, requests, pending, sessions, crossed>>
    BY <1>5 DEF Notify
  <2> QED BY <2>4, <2>5 DEF Current, NoLogin
<1>6. CASE UNCHANGED vars
  BY <1>6 DEF Current, NoLogin, vars, servers
<1> QED BY <1>1, <1>2, <1>3, <1>4, <1>5, <1>6 DEF Next

\* The invariant of the client
LEMMA Invariant == ASSUME ClientAssumption PROVE Spec => []IInv
<1>1. ASSUME IInv, [Next]_vars PROVE IInv'
  BY <1>1, StepTyped, StepCurrent DEF IInv
<1> QED BY <1>1, InitTyped, PTL DEF Spec

-----------------------------------------------------------------------------
(* What a step sends                                                         *)

\* The steps that send nothing
LEMMA Silent ==
    ASSUME TypeOK, \/ Receive \/ Handle \/ Grant \/ Notify \/ UNCHANGED vars
    PROVE  ~ (Len(requests') > Len(requests))
<1>1. requests \in Seq(Requests) /\ Len(requests) \in Nat
  BY LenProperties DEF TypeOK
<1>2. CASE Handle
  <2>1. requests # <<>> /\ requests' = Tail(requests)
    BY <1>2 DEF Handle
  <2>2. Len(requests') = Len(requests) - 1
    BY <1>1, <2>1, Behead
  <2> QED BY <1>1, <2>2
<1>3. CASE Receive \/ Grant \/ Notify \/ UNCHANGED vars
  <2>1. requests' = requests
    BY <1>3 DEF Receive, Grant, Notify, vars, servers
  <2> QED BY <1>1, <2>1
<1> QED BY <1>2, <1>3

\* What is sent in somebody's name, and to whom
LEMMA SentAs ==
    ASSUME ClientAssumption, TypeOK, [Next]_vars, Len(requests') > Len(requests)
    PROVE  LET r == Last(requests')
           IN  /\ r.type \in {"CHAT", "LOGOUT"} => g_uid # Nouid /\ r.uid = g_uid
               /\ r.type \in {"CHAT", "BLACK_LIST"}
                  => r.to = None \/ (screen # None /\ r.to = typed(screen.name))
<1> USE DEF Requests, Ask
<1> DEFINE r == Last(requests')
           Fine == /\ r.type \in {"CHAT", "LOGOUT"} => g_uid # Nouid /\ r.uid = g_uid
                   /\ r.type \in {"CHAT", "BLACK_LIST"}
                      => r.to = None \/ (screen # None /\ r.to = typed(screen.name))
<1> SUFFICES Fine
  OBVIOUS
<1>0. g_uid \in Int /\ Nouid \in Int /\ Area \subseteq Int
  BY DEF TypeOK, Nouid, Area
<1>1. ASSUME NEW t, NEW u, NEW to, Request(t, u, to),
             [type |-> t, uid |-> u, to |-> to] \in Requests
      PROVE  r = [type |-> t, uid |-> u, to |-> to]
  <2> HIDE DEF Requests, Ask
  <2>1. /\ Len(requests') = Len(requests) + 1
        /\ requests'[Len(requests) + 1] = [type |-> t, uid |-> u, to |-> to]
    BY <1>1, Sent
  <2> QED BY <2>1 DEF Last
<1> HIDE DEF r
<1>2. CASE Login
  <2>1. PICK u \in Account \cup {None}, area \in Area : Request("LOGIN", area, u)
    BY <1>2 DEF Login
  <2>2. r = [type |-> "LOGIN", uid |-> area, to |-> u]
    BY <1>0, <1>1, <2>1
  <2> QED BY <2>2
<1>3. CASE SignUp \/ Info \/ GetPlayerList
  <2>1. PICK u \in Int : Request("OTHER", u, None)
    BY <1>0, <1>3 DEF SignUp, Info, GetPlayerList
  <2>2. r = [type |-> "OTHER", uid |-> u, to |-> None]
    BY <1>1, <2>1
  <2> QED BY <2>2
<1>4. ASSUME screen # None PROVE typed(screen.name) \in Int
  <2>1. screen.name \in Int
    BY <1>4 DEF TypeOK
  <2> QED BY <2>1, Typed
<1>5. CASE BlackList
  <2>1. screen # None /\ Request("BLACK_LIST", g_uid, typed(screen.name))
    BY <1>5 DEF BlackList
  <2>2. r = [type |-> "BLACK_LIST", uid |-> g_uid, to |-> typed(screen.name)]
    BY <1>0, <1>1, <1>4, <2>1
  <2> QED BY <2>1, <2>2
<1>6. CASE Chat
  <2>1. screen # None /\ g_uid >= 0 /\ Request("CHAT", g_uid, typed(screen.name))
    BY <1>6 DEF Chat
  <2>2. r = [type |-> "CHAT", uid |-> g_uid, to |-> typed(screen.name)]
    BY <1>0, <1>1, <1>4, <2>1
  <2>3. g_uid # Nouid
    BY <1>0, <2>1 DEF Nouid
  <2> QED BY <2>1, <2>2, <2>3
<1>7. CASE Broadcast
  <2>1. g_uid # Nouid /\ Request("CHAT", g_uid, None)
    BY <1>7 DEF Broadcast
  <2>2. r = [type |-> "CHAT", uid |-> g_uid, to |-> None]
    BY <1>0, <1>1, <2>1
  <2> QED BY <2>1, <2>2
<1>8. CASE Logout
  <2>1. g_uid # Nouid /\ Request("LOGOUT", g_uid, None)
    BY <1>8 DEF Logout
  <2>2. r = [type |-> "LOGOUT", uid |-> g_uid, to |-> None]
    BY <1>0, <1>1, <2>1
  <2> QED BY <2>1, <2>2
<1>9. ~ (Receive \/ Handle \/ Grant \/ Notify \/ UNCHANGED vars)
  BY Silent
<1> HIDE DEF Requests, Ask
<1> QED BY <1>2, <1>3, <1>5, <1>6, <1>7, <1>8, <1>9 DEF Next

\* As long as no LOGOUT has been sent while a LOGIN had not been answered, each
\* message and LOGOUT that the client sends is in the name of one whom the
\* servers have logged in for it: the answer to the LOGIN, not what was asked,
\* says who the user is, and Logout forgets the user at once.
THEOREM InOwnName == ASSUME ClientAssumption PROVE Spec => SpeaksForItself
<1>1. ASSUME IInv, [Next]_vars, Sends({"CHAT", "LOGOUT"}), ~ crossed
      PROVE  Last(requests').uid \in sessions
  <2>1. Len(requests') > Len(requests) /\ Last(requests').type \in {"CHAT", "LOGOUT"}
    BY <1>1 DEF Sends
  <2>2. g_uid # Nouid /\ Last(requests').uid = g_uid
    BY <1>1, <2>1, SentAs DEF IInv
  <2> QED BY <1>1, <2>2 DEF IInv, Current
<1>2. IInv /\ [Next]_vars
      => (Sends({"CHAT", "LOGOUT"}) /\ ~ crossed => Last(requests').uid \in sessions)
  <2> SUFFICES ASSUME IInv, [Next]_vars, Sends({"CHAT", "LOGOUT"}), ~ crossed
               PROVE  Last(requests').uid \in sessions
    OBVIOUS
  <2> QED BY <1>1
<1> QED BY <1>2, Invariant, PTL DEF Spec, SpeaksForItself

-----------------------------------------------------------------------------
(* Whom a name that is typed stands for                                      *)

\* A number of one digit or two is read as itself exactly if it has no sign
\* and is the same backwards.
LEMMA Backwards ==
    ASSUME NEW n \in -8..99
    PROVE  Reversed(n) = n <=> n \in 0..9 \/ n % 11 = 0
<1>1. CASE n \in 0..9
  BY <1>1 DEF Reversed
<1>2. CASE n > 9
  <2>1. PICK a \in 1..9, b \in 0..9 : n = 10 * a + b
    <3>1. n \div 10 \in 1..9 /\ n % 10 \in 0..9 /\ n = 10 * (n \div 10) + (n % 10)
      BY <1>2
    <3> QED BY <3>1
  <2>2. n % 10 = b /\ n \div 10 = a
    BY <2>1
  <2>3. Reversed(n) = 10 * b + a
    BY <1>2, <2>2 DEF Reversed
  <2>4. n % 11 = 0 <=> a = b
    BY <2>1
  <2> QED BY <1>2, <2>1, <2>3, <2>4
<1>3. CASE n < 0
  <2>1. n % 11 = n + 11
    BY <1>3
  <2> QED BY <1>3, <2>1 DEF Reversed
<1> QED BY <1>1, <1>2, <1>3

\* A message to a name on the screen, or a black list entry, is about the one
\* it was shown for exactly if the number has no sign and is the same
\* backwards: the client shows uid - 9, reads the characters from the last to
\* the first, up to a sign, and adds 9.
THEOREM RightAddress == ASSUME ClientAssumption PROVE Spec => Addressed
<1> DEFINE Right == Last(requests').to = screen.who
                    <=> screen.name \in 0..9 \/ screen.name % 11 = 0
<1>1. ASSUME IInv, [Next]_vars, Sends({"CHAT", "BLACK_LIST"}), Last(requests').to # None
      PROVE  Right
  <2>1. Len(requests') > Len(requests) /\ Last(requests').type \in {"CHAT", "BLACK_LIST"}
    BY <1>1 DEF Sends
  <2>2. screen # None /\ Last(requests').to = typed(screen.name)
    BY <1>1, <2>1, SentAs DEF IInv
  <2>3. screen.who \in Uid /\ screen.name \in Int /\ screen.name = screen.who - 9
    BY <1>1, <2>2 DEF IInv, TypeOK, Named, Shown
  <2>4. screen.who \in Int /\ screen.name \in -8..99
    <3>1. Uid \subseteq 1..108
      BY DEF ClientAssumption, Uid
    <3>2. screen.who \in 1..108
      BY <2>3, <3>1
    <3> QED BY <2>3, <3>2
  <2>5. Reversed(screen.name) = screen.name
        <=> screen.name \in 0..9 \/ screen.name % 11 = 0
    BY <2>4, Backwards
  <2>6. Reversed(screen.name) \in Int
    <3>1. CASE screen.name < 0
      BY <2>4, <3>1 DEF Reversed
    <3>2. CASE screen.name \in 0..9
      BY <2>4, <3>2 DEF Reversed
    <3>3. CASE screen.name > 9
      BY <2>4, <3>3 DEF Reversed
    <3> QED BY <2>4, <3>1, <3>2, <3>3
  <2>7. typed(screen.name) = screen.who <=> Reversed(screen.name) = screen.name
    BY <2>3, <2>4, <2>6 DEF typed
  <2> QED BY <2>2, <2>5, <2>7
<1>2. IInv /\ [Next]_vars
      => [Sends({"CHAT", "BLACK_LIST"}) /\ Last(requests').to # None => Right]_vars
  BY <1>1
<1> QED BY <1>2, Invariant, PTL DEF Spec, Addressed

=============================================================================
