------------------------------ MODULE Framing ------------------------------
(***************************************************************************)
(* The five loops that cut a TCP stream into requests and answers: each    *)
(* frame is a 16-byte Header, which says how long its body is, and a body. *)
(*                                                                         *)
(*   strip  BasicParser(true): ProxyConnection and the database's Parser   *)
(*   keep   BasicParser(false): ProxyParser                                *)
(*   chat   ThreadEnvironment::onChatServerMessage                         *)
(*   data   ThreadEnvironment::onDataServerMessage                         *)
(*   client input_func of the client, on what one read has returned        *)
(*                                                                         *)
(* A loop runs in the callback for bytes that have arrived, and ends when  *)
(* it needs more.  Only positions are modelled, not the bytes.             *)
(*                                                                         *)
(* Between a head and its body nothing else writes header_, with one       *)
(* exception: a callback of the database's parseInfo (Parser.cc 98-99).    *)
(* Module Database has that case; here "strip" is the database's Parser    *)
(* for as long as it does not occur.                                       *)
(*                                                                         *)
(* An operator XMutant is a wrong X, put in its place to see that the      *)
(* properties notice; nothing else uses it.                                *)
(***************************************************************************)
EXTENDS Integers

CONSTANTS
    Kinds,      \* which of the loops
    HeadLen,    \* sizeof(Header)
    N,          \* frames in the stream
    Body,       \* Body[i]: data_length of frame i
    Start,      \* Start[i]: the position of frame i; Start[N + 1]: the end
    Cuts        \* Cuts[k]: where the network may cut the stream of loop k

ASSUME KindAssumption == Kinds \subseteq {"strip", "keep", "chat", "data", "client"}
ASSUME StreamAssumption ==
    /\ HeadLen \in Nat \ {0}
    /\ N \in Nat
    /\ Body \in [1..N -> Nat]
    /\ Start \in [1..(N + 1) -> Nat]
    /\ Start[1] = 0
    /\ \A i \in 1..N : Start[i + 1] = Start[i] + HeadLen + Body[i]
    /\ Cuts \in [Kinds -> SUBSET (1..Start[N + 1])]

VARIABLES
    kind,       \* the loop that reads the stream
    arrived,    \* bytes that have arrived
    consumed,   \* bytes the loop has retrieved from the buffer
    state_,     \* BasicParser::state_
    header,     \* the frame whose header is in header_; 0 before the first
    handled,    \* the last frame that was given to its handler
    busy,       \* the message callback runs
    fault       \* the process was stopped by an assertion of Buffer; for the
                \* client, it has lost track of the frames

vars == <<kind, arrived, consumed, state_, header, handled, busy, fault>>

TypeOK ==
    /\ kind \in Kinds
    /\ arrived \in 0..Start[N + 1]
    /\ consumed \in 0..Start[N + 1]
    /\ state_ \in {"WAIT_HEAD", "WAIT_DATA"}
    /\ header \in 0..N
    /\ handled \in 0..N
    /\ busy \in BOOLEAN
    /\ fault \in BOOLEAN

Init ==
    /\ kind \in Kinds
    /\ arrived = 0
    /\ consumed = 0
    /\ state_ = "WAIT_HEAD"
    /\ header = 0
    /\ handled = 0
    /\ busy = FALSE
    /\ fault = FALSE

-----------------------------------------------------------------------------
readableBytes == arrived - consumed

\* Header::request_length
request_length(i) == HeadLen + Body[i]

\* The frame whose first byte is the next one in the buffer
AtFrame(i) == Start[i] = consumed

\* Buffer::retrieve, with the assertion it begins with
retrieve(n) ==
    IF n <= readableBytes
    THEN consumed' = consumed + n /\ UNCHANGED fault
    ELSE fault' = TRUE /\ UNCHANGED consumed

\* TcpConnection::handleRead: some more bytes, and the message callback
Arrive ==
    /\ ~ busy /\ ~ fault
    /\ \E n \in Cuts[kind] : n > arrived /\ arrived' = n
    /\ busy' = TRUE
    /\ UNCHANGED <<kind, consumed, state_, header, handled, fault>>

-----------------------------------------------------------------------------
(* BasicParser::parse *)

Basic == kind \in {"strip", "keep"}

\* BasicParser::ableToReadHead and ableToReadData
ableToReadHeadMutant == readableBytes > HeadLen           \* off by one
ableToReadHead == readableBytes >= HeadLen
ableToReadDataMutant == TRUE                              \* no check
ableToReadData == readableBytes >= Body[header]

\* BasicParser::parseHead
ParseHead ==
    /\ Basic /\ busy /\ ~ fault
    /\ state_ = "WAIT_HEAD" /\ ableToReadHead
    /\ \E i \in 1..N : AtFrame(i) /\ header' = i
    /\ IF kind = "strip" THEN retrieve(HeadLen) ELSE UNCHANGED <<consumed, fault>>
    /\ state_' = "WAIT_DATA"
    /\ UNCHANGED <<kind, arrived, handled, busy>>

\* parseData: handlers retrieve the body, and the header if it is still there.
\* The length is that of the head that was read: header_ is as ParseHead left it.
ParseData ==
    /\ Basic /\ busy /\ ~ fault
    /\ state_ = "WAIT_DATA" /\ ableToReadData
    /\ handled' = header
    /\ retrieve(IF kind = "strip" THEN Body[header] ELSE request_length(header))
    /\ state_' = "WAIT_HEAD"
    /\ UNCHANGED <<kind, arrived, header, busy>>

NeedMore ==
    \/ state_ = "WAIT_HEAD" /\ ~ ableToReadHead
    \/ state_ = "WAIT_DATA" /\ ~ ableToReadData

-----------------------------------------------------------------------------
(* ThreadEnvironment and the client: loops that keep no state *)

\* The condition of onChatServerMessage's loop and its early return
WholeMutant(i) == readableBytes > request_length(i)       \* off by one
Whole(i) == readableBytes >= request_length(i)

ForwardChat ==
    /\ kind = "chat" /\ busy /\ ~ fault
    /\ readableBytes >= HeadLen
    /\ \E i \in 1..N : /\ AtFrame(i) /\ Whole(i)
                       /\ handled' = i
                       /\ retrieve(request_length(i))
    /\ UNCHANGED <<kind, arrived, state_, header, busy>>

\* With less than a header in the buffer, what is read past its end says how
\* much more to retrieve; whatever it says is more than the buffer holds.
ForwardData ==
    /\ kind = "data" /\ busy /\ ~ fault
    /\ readableBytes > 0
    /\ \E i \in 1..N : /\ AtFrame(i)
                       /\ handled' = i
                       /\ retrieve(request_length(i))
    /\ UNCHANGED <<kind, arrived, state_, header, busy>>

\* The client goes over what one read returned; a frame that is not all there
\* is handled with what the array held before, and the next read begins in
\* the middle of it.
ReadClient ==
    /\ kind = "client" /\ busy /\ ~ fault
    /\ readableBytes > 0
    /\ \E i \in 1..N : /\ AtFrame(i)
                       /\ handled' = i
                       /\ retrieve(request_length(i))
    /\ UNCHANGED <<kind, arrived, state_, header, busy>>

-----------------------------------------------------------------------------
\* The loop ends: the callback returns.
Break ==
    /\ busy /\ ~ fault
    /\ \/ Basic /\ NeedMore
       \/ kind = "chat" /\ readableBytes < HeadLen
       \/ kind = "chat" /\ \E i \in 1..N : AtFrame(i) /\ ~ Whole(i)
       \/ kind \in {"data", "client"} /\ readableBytes = 0
    /\ busy' = FALSE
    /\ UNCHANGED <<kind, arrived, consumed, state_, header, handled, fault>>

Loop == ParseHead \/ ParseData \/ ForwardChat \/ ForwardData \/ ReadClient \/ Break

Next == Arrive \/ Loop

Spec == Init /\ [][Next]_vars

\* A callback that was called runs to its end.
FairSpec == Spec /\ WF_vars(Loop)

-----------------------------------------------------------------------------
(* Properties *)

Stream == INSTANCE FrameStream WITH arrived <- arrived, handled <- handled

\* The loop is a correct FrameStream: every frame is handled once, in order,
\* when all of it is there, and no frame that is there is left for ever
\* (BasicParser.cc 7-48, ThreadEnvironment.cc 51-88).
HandlesFrames == Stream!FairSpec

\* A callback does not return while a whole frame is in the buffer: nothing
\* would call it again before the peer's next bytes.
Drained ==
    ~ busy /\ ~ fault /\ handled < N => arrived < Start[handled + 2]

\* No handler retrieves more than the buffer holds: the assertion of
\* Buffer.h 115, which the build keeps (CMakeLists.txt sets its own flags).
RetrieveInBounds == ~ fault

=============================================================================
