------------------------------ MODULE Messages ------------------------------
(***************************************************************************)
(* The five messages of message.proto on their way: a process writes one   *)
(* to bytes, they travel in a frame or through Redis, another process      *)
(* parses them, changes some fields and sends the message on, and the last *)
(* one copies what it has parsed to an object that it had before.          *)
(*                                                                         *)
(* A flat message is the tuple of its fields, whose numbers are 1, 2, ...  *)
(* A text is a sequence of bytes; bytes from 128 on stand for what is not  *)
(* UTF-8.  Integers are scaled: 14 bits for 32 and words of 28 for 64, so  *)
(* that a negative one takes four bytes and not ten.                       *)
(*                                                                         *)
(* An operator XMutant is a wrong X, put in its place to see that the      *)
(* properties notice; nothing else uses it.                                *)
(***************************************************************************)
EXTENDS Integers, SequencesExt

CONSTANTS
    Values,     \* Values[t][f]: what field f of a t is set to, at first
    Changes,    \* Changes[t]: what the second process sets, <<field, value>>
    Olds,       \* Olds[t]: what is copied to
    Tails,      \* what may lie in memory behind a text that is cut short
    MaxHops,    \* bound: how often a message is sent
    MaxList,    \* bound: the length of a list
    None

VARIABLES
    type,       \* the message's type
    m,          \* the object, in the process that has it
    expected,   \* its fields as they were set
    wire,       \* the bytes
    stage,      \* "object", "frame" or "redis": where it is; "copied": the end
    hops,       \* how often it was sent
    stored,     \* it went through Redis
    ok,         \* ParseFromString has returned true; nobody looks at it
    copy        \* the object it was copied to

vars == <<type, m, expected, wire, stage, hops, stored, ok, copy>>

Group   == 128
Word    == Group ^ 4
IntWord == Group ^ 2

-----------------------------------------------------------------------------
(* The wire format, of the library protobuf *)

Varint[n \in 0..(Word - 1)] ==
    IF n < Group THEN <<n>> ELSE <<Group + (n % Group)>> \o Varint[n \div Group]

VarintLen[n \in 0..(Word - 1)] == IF n < Group THEN 1 ELSE 1 + VarintLen[n \div Group]

\* Negative integers are sign-extended to a word.
Extended(v) == IF v < 0 THEN Word + v ELSE v

WriteInt(v) == Varint[Extended(v)]
WriteText(t) == Varint[Len(t)] \o t

\* ReadVarint64: the value and how many bytes it has
ReadVarint(s) ==
    LET n == CHOOSE i \in DOMAIN s : s[i] < Group /\ \A j \in 1..(i - 1) : s[j] >= Group
        value[i \in 1..n] == (s[i] % Group) + (IF i = n THEN 0 ELSE Group * value[i + 1])
    IN  <<value[1], n>>

\* A 64-bit value is assigned to an int32.
ToInt(w) == LET i == w % IntWord IN IF i < IntWord \div 2 THEN i ELSE i - IntWord

IsUTF8(t) == \A i \in DOMAIN t : t[i] < 128

Tag(schema, f) == 8 * f + (IF schema[f] = "int" THEN 0 ELSE 2)

-----------------------------------------------------------------------------
(* What protoc generates for each message: a message is written without the  *)
(* fields that are zero or empty.                                            *)

Zero(schema, f) == IF schema[f] = "int" THEN 0 ELSE <<>>
Cleared(schema) == [f \in DOMAIN schema |-> Zero(schema, f)]

Written(schema, msg) == FlattenSeq([f \in DOMAIN schema |->
    IF msg[f] = Zero(schema, f) THEN <<>>
    ELSE <<Tag(schema, f)>> \o (IF schema[f] = "int" THEN WriteInt(msg[f]) ELSE WriteText(msg[f]))])

SizesSum(sizes) == FoldLeft(LAMBDA a, b : a + b, 0, sizes)

Size(schema, msg) == SizesSum([f \in DOMAIN schema |->
    IF msg[f] = Zero(schema, f) THEN 0
    ELSE 1 + (IF schema[f] = "int" THEN VarintLen[Extended(msg[f])]
              ELSE VarintLen[Len(msg[f])] + Len(msg[f]))])

\* The length that ReadString is given, and whether it accepts what it reads
Accepted(text, len) == Len(text) = len /\ IsUTF8(text)

\* One turn of the loop of _InternalParse.  An integer is never cut short: the
\* one thing that shortens a message cuts it at a zero byte, and integers have
\* none.  A text that is cut short gets what lies behind it too, or is empty.
ParseField(schema, p, tail) ==
    LET f    == Head(p.rest) \div 8
        read == ReadVarint(Tail(p.rest))
        rest == SubSeq(p.rest, 2 + read[2], Len(p.rest))
        here == IF read[1] > Len(rest) THEN rest ELSE SubSeq(rest, 1, read[1])
        text == IF Len(here) = read[1] THEN here
                ELSE IF tail = None THEN <<>> ELSE here \o tail
    IN  IF ~ p.ok \/ p.rest = <<>> THEN p
        ELSE IF schema[f] = "int"
        THEN [p EXCEPT !.msg[f] = ToInt(read[1]), !.rest = rest]
        ELSE [msg  |-> [p.msg EXCEPT ![f] = text],
              rest |-> SubSeq(rest, read[1] + 1, Len(rest)),
              ok   |-> Accepted(here, read[1])]

Parsed(schema, bytes, tail) ==
    FoldLeft(LAMBDA p, byte : ParseField(schema, p, tail),
             [msg |-> Cleared(schema), rest |-> bytes, ok |-> TRUE], bytes)

\* A field of from that is zero leaves the one of to as it is.
Merged(schema, to, from) ==
    [f \in DOMAIN schema |-> IF from[f] = Zero(schema, f) THEN to[f] ELSE from[f]]

\* Lists of messages: the one field of a list is repeated.
ListTag == 10
WrittenList(schema, list) == FlattenSeq([i \in DOMAIN list |->
    <<ListTag>> \o WriteText(Written(schema, list[i]))])

ListSize(schema, list) == SizesSum([i \in DOMAIN list |->
    LET size == Size(schema, list[i]) IN 1 + VarintLen[size] + size])

ParseElement(schema, p) ==
    LET read == ReadVarint(Tail(p.rest))
        from == 1 + read[2]
        elem == Parsed(schema, SubSeq(p.rest, from + 1, from + read[1]), None)
    IN  IF ~ p.ok \/ p.rest = <<>> THEN p
        ELSE [msg  |-> Append(p.msg, elem.msg),
              rest |-> SubSeq(p.rest, from + read[1] + 1, Len(p.rest)),
              ok   |-> elem.ok]

ParsedList(schema, bytes) ==
    FoldLeft(LAMBDA p, byte : ParseElement(schema, p),
             [msg |-> <<>>, rest |-> bytes, ok |-> TRUE], bytes)

-----------------------------------------------------------------------------
(* The messages *)

PlayerInfo == <<"int", "text", "text", "int", "int", "int", "int">>
PlayerInfo_set(x, f, v)         == [x EXCEPT ![f] = v]
PlayerInfo_Clear                == Cleared(PlayerInfo)
PlayerInfo_InternalSerialize(x) == Written(PlayerInfo, x)
PlayerInfo_ByteSizeLong(x)      == Size(PlayerInfo, x)
PlayerInfo_InternalParse(b)     == Parsed(PlayerInfo, b, None)
PlayerInfo_MergeFrom(to, x)     == Merged(PlayerInfo, to, x)

Message == <<"int", "int", "int", "int", "text">>
Message_set(x, f, v)            == [x EXCEPT ![f] = v]
Message_Clear                   == Cleared(Message)
Message_InternalSerialize(x)    == Written(Message, x)
Message_ByteSizeLong(x)         == Size(Message, x)
Message_InternalParse(b, tail)  == Parsed(Message, b, tail)
Message_MergeFrom(to, x)        == Merged(Message, to, x)

ServerInfo == <<"text", "int", "int", "int">>
ServerInfo_set(x, f, v)         == [x EXCEPT ![f] = v]
ServerInfo_Clear                == Cleared(ServerInfo)
ServerInfo_InternalSerialize(x) == Written(ServerInfo, x)
ServerInfo_ByteSizeLong(x)      == Size(ServerInfo, x)
ServerInfo_InternalParse(b)     == Parsed(ServerInfo, b, None)
ServerInfo_MergeFrom(to, x)     == Merged(ServerInfo, to, x)

PlayerList_add(list, x)         == Append(list, x)
PlayerList_InternalSerialize(x) == WrittenList(PlayerInfo, x)
PlayerList_ByteSizeLong(x)      == ListSize(PlayerInfo, x)
PlayerList_InternalParse(b)     == ParsedList(PlayerInfo, b)
PlayerList_MergeFrom(to, x)     == to \o x

MessageList_add(list, x)         == Append(list, x)
MessageList_InternalSerialize(x) == WrittenList(Message, x)
MessageList_ByteSizeLong(x)      == ListSize(Message, x)
MessageList_InternalParse(b)     == ParsedList(Message, b)
MessageList_MergeFrom(to, x)     == to \o x

Flat == [PlayerInfo |-> PlayerInfo, Message |-> Message, ServerInfo |-> ServerInfo]
Listed == [PlayerList |-> PlayerInfo, MessageList |-> Message]
Types == DOMAIN Flat \cup DOMAIN Listed

Set(t, x, f, v) ==
    CASE t = "PlayerInfo" -> PlayerInfo_set(x, f, v)
      [] t = "Message"    -> Message_set(x, f, v)
      [] t = "ServerInfo" -> ServerInfo_set(x, f, v)
Clear(t) ==
    CASE t = "PlayerInfo" -> PlayerInfo_Clear
      [] t = "Message"    -> Message_Clear
      [] t = "ServerInfo" -> ServerInfo_Clear
      [] OTHER            -> <<>>
Serialize(t, x) ==
    CASE t = "PlayerInfo"  -> PlayerInfo_InternalSerialize(x)
      [] t = "PlayerList"  -> PlayerList_InternalSerialize(x)
      [] t = "Message"     -> Message_InternalSerialize(x)
      [] t = "MessageList" -> MessageList_InternalSerialize(x)
      [] t = "ServerInfo"  -> ServerInfo_InternalSerialize(x)
ByteSizeLong(t, x) ==
    CASE t = "PlayerInfo"  -> PlayerInfo_ByteSizeLong(x)
      [] t = "PlayerList"  -> PlayerList_ByteSizeLong(x)
      [] t = "Message"     -> Message_ByteSizeLong(x)
      [] t = "MessageList" -> MessageList_ByteSizeLong(x)
      [] t = "ServerInfo"  -> ServerInfo_ByteSizeLong(x)
ParseFromString(t, b, tail) ==
    CASE t = "PlayerInfo"  -> PlayerInfo_InternalParse(b)
      [] t = "PlayerList"  -> PlayerList_InternalParse(b)
      [] t = "Message"     -> Message_InternalParse(b, tail)
      [] t = "MessageList" -> MessageList_InternalParse(b)
      [] t = "ServerInfo"  -> ServerInfo_InternalParse(b)
MergeFrom(t, to, x) ==
    CASE t = "PlayerInfo"  -> PlayerInfo_MergeFrom(to, x)
      [] t = "PlayerList"  -> PlayerList_MergeFrom(to, x)
      [] t = "Message"     -> Message_MergeFrom(to, x)
      [] t = "MessageList" -> MessageList_MergeFrom(to, x)
      [] t = "ServerInfo"  -> ServerInfo_MergeFrom(to, x)

CopyFromMutant(t, old, x) == MergeFrom(t, old, x)
CopyFrom(t, old, x) == MergeFrom(t, Clear(t), x)

-----------------------------------------------------------------------------
(* A message's way *)

Init ==
    /\ type \in Types
    /\ m = Clear(type) /\ expected = m
    /\ wire = <<>> /\ stage = "object" /\ hops = 0
    /\ stored = FALSE /\ ok = TRUE /\ copy = None

Made(x, y) ==
    /\ stage = "object"
    /\ m' = x /\ expected' = y
    /\ UNCHANGED <<type, wire, stage, hops, stored, ok, copy>>

\* The client and the servers make a message.
SetField ==
    /\ hops = 0 /\ type \in DOMAIN Flat
    /\ \E f \in DOMAIN Flat[type] : \E v \in Values[type][f] :
           Made(Set(type, m, f, v), Set(type, expected, f, v))

\* As Lobby::getOnlineList and getBlackList do
Add ==
    /\ hops = 0 /\ type \in DOMAIN Listed /\ Len(m) < MaxList
    /\ \E x \in Olds[type] :
           IF type = "PlayerList"
           THEN Made(PlayerList_add(m, x), PlayerList_add(expected, x))
           ELSE Made(MessageList_add(m, x), MessageList_add(expected, x))

\* handleChat sets the time; LOGIN, SIGN_UP and INFO are answered with what
\* was asked and what Redis has.
Complete ==
    /\ hops = 1 /\ type \in DOMAIN Changes
    /\ \E c \in Changes[type] :
           Made(Set(type, m, c[1], c[2]), Set(type, expected, c[1], c[2]))

\* formatMessage, with a Header that says how long it is
SendFrame ==
    /\ stage = "object" /\ type # "ServerInfo" /\ hops < MaxHops
    /\ wire' = Serialize(type, m)
    /\ stage' = "frame" /\ hops' = hops + 1
    /\ UNCHANGED <<type, m, expected, stored, ok, copy>>

\* What is given to a command as c_str() ends at the first zero byte, and so
\* does what is read from reply->str.
CStr(s) ==
    LET zeros == {i \in DOMAIN s : s[i] = 0}
    IN  IF zeros = {} THEN s
        ELSE SubSeq(s, 1, (CHOOSE i \in zeros : \A j \in zeros : i <= j) - 1)

\* offlineMessage, and SET online, SADD and PUBLISH of a server
StoreTo ==
    /\ stage = "object" /\ type \in {"Message", "ServerInfo"}
    /\ ~ stored /\ hops < MaxHops
    /\ wire' = CStr(Serialize(type, m))
    /\ stage' = "redis" /\ hops' = hops + 1 /\ stored' = TRUE
    /\ UNCHANGED <<type, m, expected, ok, copy>>

Parse ==
    /\ stage \in {"frame", "redis"}
    /\ \E tail \in Tails \cup {None} :
           LET p == ParseFromString(type, wire, tail)
           IN  m' = p.msg /\ ok' = (ok /\ p.ok)
    /\ stage' = "object" /\ wire' = <<>>
    /\ UNCHANGED <<type, expected, hops, stored, copy>>

\* As the client does with user_info
Copy ==
    /\ stage = "object" /\ hops > 0
    /\ \E old \in Olds[type] : copy' = CopyFrom(type, old, m)
    /\ stage' = "copied"
    /\ UNCHANGED <<type, m, expected, wire, hops, stored, ok>>

Next == SetField \/ Add \/ Complete \/ SendFrame \/ StoreTo \/ Parse \/ Copy

Spec == Init /\ [][Next]_vars

-----------------------------------------------------------------------------
(* Properties *)

HasZero(text) == \E i \in DOMAIN text : text[i] = 0
Spoils(text) == ~ IsUTF8(text) \/ (stored /\ HasZero(text))
SpoiltBy(schema, x, f) == schema[f] = "text" /\ Spoils(x[f])
Sound(schema, x) == \A f \in DOMAIN schema : ~ SpoiltBy(schema, x, f)

\* The object where it is now, and as it is after Copy
Arrived == IF stage = "copied" THEN copy ELSE m

Kept ==
    \/ type \in DOMAIN Flat /\ \A f \in DOMAIN m :
           Arrived[f] = expected[f] \/ \E g \in 1..f : SpoiltBy(Flat[type], expected, g)
    \/ type \in DOMAIN Listed /\
           ((\A i \in DOMAIN expected : Sound(Listed[type], expected[i])) => Arrived = expected)

SizeExact ==
    /\ stage = "frame" => Len(wire) = ByteSizeLong(type, m)
    /\ stage = "redis" /\ (\A f \in DOMAIN m : Flat[type][f] = "text" => ~ HasZero(m[f]))
           => Len(wire) = ByteSizeLong(type, m)

\* However often a message was sent, and through what, and whatever the
\* object had before it was copied to, the object has every field as it was
\* set, up to a text that is not UTF-8, or that has a zero byte and went
\* through Redis; and if ParseFromString returned true each time, which no
\* caller looks at, every field at all.  ByteSizeLong told how many bytes were
\* written, and c_str() gives Redis all of them if no text has a zero byte
\* (message.pb.cc 326-587, Lobby.cc 98-118, Client.cc 347).
Intact == Kept /\ (ok => Arrived = expected) /\ SizeExact

=============================================================================
