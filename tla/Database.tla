------------------------------ MODULE Database ------------------------------
(***************************************************************************)
(* The database server: one thread, one Redis connection, one Parser for   *)
(* each TCP connection.  A request becomes a script for Redis, and the     *)
(* answer is sent in the callback of the script's reply, when the          *)
(* connection may have parsed more requests.                               *)
(*                                                                         *)
(* The proxy's threads send SIGN_UP and INFO, and database/bench sends     *)
(* LOGIN, which parseData refuses, and waits for each answer.  The body of *)
(* a request may come after its head has been parsed; how frames are cut   *)
(* otherwise is module Framing's subject.  Redis is connected.             *)
(*                                                                         *)
(* An operator XMutant is a wrong X, put in its place to see that the      *)
(* properties notice; nothing else uses it.                                *)
(***************************************************************************)
EXTENDS Integers, Sequences, Functions

CONSTANTS
    Conn,       \* connections
    Tester,     \* those of database/bench; the others are the proxy's
    Name,       \* nicknames
    MaxAsk,     \* bound: requests in a behaviour
    None

ASSUME DatabaseAssumption == MaxAsk \in Nat /\ None \notin Name \cup Nat /\ Tester \subseteq Conn

VARIABLES
    connected,  \* connections that have not ended
    asked,      \* requests sent so far; the n-th one has stamp n
    buffer,     \* requests that are not parsed yet
    header_,    \* stamp in the header_ of each Parser
    state_,     \* "head": WAIT_HEAD; "data": WAIT_DATA, for the body of the
                \* first request of buffer; "spoiled": WAIT_DATA, but a
                \* callback has overwritten type and length in header_;
                \* "lost": what is read begins in the middle of a frame
    commands,   \* Redis commands that are not executed
    replies,    \* replies whose callback has not run
    uid,        \* <name>:uid
    UID,        \* the counter
    player,     \* <uid>:player, the name in it
    answers,    \* answers that callbacks have sent: to which request, with
                \* which stamp, and what
    refusals    \* requests that parseBadHead has answered

parsers == <<header_, state_>>
redis == <<uid, UID, player>>
vars == <<connected, asked, buffer, parsers, commands, replies, redis, answers, refusals>>

Request == [type : {"SIGN_UP", "INFO", "LOGIN"}, name : Name, stamp : 1..MaxAsk, conn : Conn]
Uid     == 1..MaxAsk
Answer  == [request : Request, stamp : 1..MaxAsk, uid : Uid \cup {None}]

TypeOK ==
    /\ connected \subseteq Conn
    /\ asked \in 0..MaxAsk
    /\ buffer \in [Conn -> Seq(Request)]
    /\ header_ \in [Conn -> 0..MaxAsk]
    /\ state_ \in [Conn -> {"head", "data", "spoiled", "lost"}]
    /\ commands \in Seq(Request)
    /\ replies \in Seq([request : Request, uid : Uid \cup {None}])
    /\ uid \in [Name -> Uid \cup {None}]
    /\ UID \in 0..MaxAsk
    /\ player \in [Uid -> Name \cup {None}]
    /\ answers \subseteq Answer
    /\ refusals \subseteq Request

Init ==
    /\ connected = Conn
    /\ asked = 0
    /\ buffer = [c \in Conn |-> <<>>]
    /\ header_ = [c \in Conn |-> 0]
    /\ state_ = [c \in Conn |-> "head"]
    /\ commands = <<>>
    /\ replies = <<>>
    /\ uid = [n \in Name |-> None]
    /\ UID = 0
    /\ player = [u \in Uid |-> None]
    /\ answers = {}
    /\ refusals = {}

-----------------------------------------------------------------------------
Open(c) == {q \in Range(buffer[c]) \cup Range(commands) \cup {r.request : r \in Range(replies)} :
                q.conn = c}

\* A request arrives.
Ask(c, type, n) ==
    /\ c \in connected /\ asked < MaxAsk
    /\ IF c \in Tester THEN type = "LOGIN" /\ Open(c) = {} ELSE type # "LOGIN"
    /\ asked' = asked + 1
    /\ buffer' = [buffer EXCEPT ![c] =
           Append(@, [type |-> type, name |-> n, stamp |-> asked + 1, conn |-> c])]
    /\ UNCHANGED <<connected, parsers, commands, replies, redis, answers, refusals>>

\* A head is to be parsed, or a body to come for the head that was.
Ready(c, states) == c \in connected /\ state_[c] \in states /\ buffer[c] # <<>>

ParsedMutant(c) == header_' = [d \in Conn |-> Head(buffer[c]).stamp]  \* one for all Parsers
Parsed(c) == header_' = [header_ EXCEPT ![c] = Head(buffer[c]).stamp]
Goes(c, state) == state_' = [state_ EXCEPT ![c] = state]

\* BasicParser::parseHead, of a request whose body is not there yet
ParseHead(c) ==
    /\ Ready(c, {"head"})
    /\ Parsed(c) /\ Goes(c, "data")
    /\ UNCHANGED <<connected, asked, buffer, commands, replies, redis, answers, refusals>>

\* parseData has a handler for SIGN_UP and INFO only.
BadHead(c) == Head(buffer[c]).type = "LOGIN"

\* Parser::parseData, parseSignUp, parseInfo, at once with the head or when
\* the body has come
ParseMutant(c) ==                                         \* overtaking
    /\ Ready(c, {"head", "data"}) /\ ~ BadHead(c)
    /\ buffer' = [buffer EXCEPT ![c] = Tail(@)]
    /\ Parsed(c) /\ Goes(c, "head")
    /\ commands' = <<Head(buffer[c])>> \o commands
    /\ UNCHANGED <<connected, asked, replies, redis, answers, refusals>>
Parse(c) ==
    /\ Ready(c, {"head", "data"}) /\ ~ BadHead(c)
    /\ buffer' = [buffer EXCEPT ![c] = Tail(@)]
    /\ Parsed(c) /\ Goes(c, "head")
    /\ commands' = Append(commands, Head(buffer[c]))
    /\ UNCHANGED <<connected, asked, replies, redis, answers, refusals>>

\* Parser::parseBadHead: retrieveAll, and the answer without a copy of header_
ParseBadHead(c) ==
    /\ Ready(c, {"head", "data"}) /\ BadHead(c)
    /\ buffer' = [buffer EXCEPT ![c] = <<>>]
    /\ Parsed(c) /\ Goes(c, "head")
    /\ refusals' = refusals \cup {Head(buffer[c])}
    /\ UNCHANGED <<connected, asked, commands, replies, redis, answers>>

\* When as many bytes are there as the overwritten header_ says, which may be
\* never, its type 0 makes parseData refuse the request, twice: all bytes are
\* dropped that are there, to the end of a frame or not.
Misread(c) ==
    /\ Ready(c, {"spoiled"})
    /\ refusals' = refusals \cup {Head(buffer[c])}
    /\ \/ \E n \in DOMAIN buffer[c] :
              buffer' = [buffer EXCEPT ![c] = SubSeq(@, n + 1, Len(@))]
           /\ Goes(c, "head")
       \/ buffer' = [buffer EXCEPT ![c] = <<>>] /\ Goes(c, "lost")
    /\ UNCHANGED <<connected, asked, header_, commands, replies, redis, answers>>

\* What sign_up_cmd and info_cmd reply
Replied(q) == replies' = Append(replies, [request |-> q, uid |-> uid'[q.name]])
NotReplied(q) == replies' = Append(replies, [request |-> q, uid |-> None])

\* sign_up_cmd
TakenMutant(n) == FALSE                                   \* no EXISTS
Taken(n) == uid[n] # None
NewUidMutant == UID                                       \* INCR left out
NewUid == UID + 1

SignUpCommand(q) ==
    /\ q.type = "SIGN_UP"
    /\ \/ Taken(q.name) /\ NotReplied(q) /\ UNCHANGED redis
       \/ /\ ~ Taken(q.name)
          /\ UID' = NewUid
          /\ uid' = [uid EXCEPT ![q.name] = NewUid]
          /\ player' = [player EXCEPT ![NewUid] = q.name]
          /\ Replied(q)

\* info_cmd
InfoCommand(q) ==
    /\ q.type = "INFO"
    /\ UNCHANGED redis
    /\ Replied(q)

Execute ==
    /\ commands # <<>>
    /\ commands' = Tail(commands)
    /\ SignUpCommand(Head(commands)) \/ InfoCommand(Head(commands))
    /\ UNCHANGED <<connected, asked, buffer, parsers, answers, refusals>>

\* An INFO that finds its name
Found(r) == r.request.type = "INFO" /\ r.uid # None

\* The header of the answer is a copy made with the command, but parseInfo
\* answers with header_ when the name exists.
Header(r) == IF Found(r) THEN header_[r.request.conn] ELSE r.request.stamp

\* ... and setOk and formatMessage put the type and the length of that answer
\* into header_, which matters only to a request that waits for its body.
Overwrites(r) ==
    IF Found(r) /\ state_[r.request.conn] = "data" THEN Goes(r.request.conn, "spoiled")
    ELSE UNCHANGED state_

\* Hiredis::commandCallback: the callback of parseSignUp or parseInfo
ReplyMutant ==                                            \* none if taken
    LET r == Head(replies)
    IN  /\ replies # <<>>
        /\ replies' = Tail(replies)
        /\ answers' = IF r.request.conn \in connected /\ r.uid # None
                      THEN answers \cup {[request |-> r.request, stamp |-> Header(r), uid |-> r.uid]}
                      ELSE answers
        /\ Overwrites(r)
        /\ UNCHANGED <<connected, asked, buffer, header_, commands, redis, refusals>>
Reply ==
    LET r == Head(replies)
    IN  /\ replies # <<>>
        /\ replies' = Tail(replies)
        /\ answers' = IF r.request.conn \in connected
                      THEN answers \cup {[request |-> r.request, stamp |-> Header(r), uid |-> r.uid]}
                      ELSE answers
        /\ Overwrites(r)
        /\ UNCHANGED <<connected, asked, buffer, header_, commands, redis, refusals>>

\* DatabaseServer.cc: the Parser stays, for its connection is never freed.
Disconnect(c) ==
    /\ c \in connected
    /\ connected' = connected \ {c}
    /\ UNCHANGED <<asked, buffer, parsers, commands, replies, redis, answers, refusals>>

Next ==
    \/ \E c \in Conn :
           \/ \E t \in {"SIGN_UP", "INFO", "LOGIN"}, n \in Name : Ask(c, t, n)
           \/ ParseHead(c) \/ Parse(c) \/ ParseBadHead(c) \/ Misread(c) \/ Disconnect(c)
    \/ Execute
    \/ Reply

\* The rest of a request comes, Redis executes what it is sent, and the event
\* loop runs the callbacks.
Fairness == /\ \A c \in Conn : WF_vars(Parse(c) \/ ParseBadHead(c))
            /\ WF_vars(Execute)
            /\ WF_vars(Reply)

Spec == Init /\ [][Next]_vars /\ Fairness

-----------------------------------------------------------------------------
(* Properties *)

\* What callbacks answer has the stamp of the request or of a later one of
\* the same connection, so that the proxy never gives it to another proxy
\* thread's client (Parser.cc 71-109, 111-136).
LaterHeader ==
    \A a \in answers : state_[a.request.conn] # "lost" =>
        /\ a.request.stamp <= a.stamp
        /\ \A b \in answers : b.request.stamp = a.stamp => b.request.conn = a.request.conn

\* Who was told that a sign-up succeeded owns the name and the uid alone, then
\* and forever, whatever connections sign up at the same time.
Owners ==
    /\ \A a \in answers : a.request.type = "SIGN_UP" /\ a.uid # None =>
           uid[a.request.name] = a.uid /\ player[a.uid] = a.request.name
    /\ \A a, b \in answers :
           /\ a.request.type = "SIGN_UP" /\ a.uid # None
           /\ b.request.type = "SIGN_UP" /\ b.uid # None
           /\ a.request.name = b.request.name \/ a.uid = b.uid
           => a = b

\* The answers on a connection come in the order of its requests, so that an
\* INFO that was asked after a sign-up's answer finds the name.
ReadsOwnWrites ==
    \A a, b \in answers :
        /\ a.request.type = "SIGN_UP" /\ b.request.type = "INFO"
        /\ a.request.name = b.request.name /\ a.request.conn = b.request.conn
        /\ a.request.stamp < b.request.stamp
        => b.uid # None

\* Every request that arrives on a connection that stays is answered, unless
\* an INFO's callback overwrites header_ while it, or one before it, waits for
\* its body.
Answered ==
    \A n \in 1..MaxAsk :
        (\E c \in Conn : \E q \in Open(c) : q.stamp = n) ~>
            \/ \E c \in Conn : \E q \in Open(c) :
                   q.stamp = n /\ (c \notin connected \/ state_[c] \in {"spoiled", "lost"})
            \/ \E q \in {a.request : a \in answers} \cup refusals : q.stamp = n

=============================================================================
