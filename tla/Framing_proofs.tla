--------------------------- MODULE Framing_proofs ---------------------------
(***************************************************************************)
(* The five loops, for any stream: those of BasicParser(true) and of       *)
(* onChatServerMessage however the network cuts it, the other three if it  *)
(* cuts it between frames only, as they do not bear another cut.           *)
(***************************************************************************)
EXTENDS Framing, WellFoundedInduction, TLAPS

\* A frame begins after the frames before it.
LEMMA Increasing == \A i, j \in 1..(N + 1) : i < j => Start[i] < Start[j]
<1> DEFINE Bad == {j \in 1..(N + 1) : \E i \in 1..(N + 1) : i < j /\ ~ (Start[i] < Start[j])}
           R == {p \in Nat \X Nat : p[1] < p[2]}
<1>1. SUFFICES ASSUME Bad # {} PROVE FALSE
  OBVIOUS
<1>2. Bad \in SUBSET Nat
  OBVIOUS
<1>3. PICK j \in Bad : \A k \in Bad : j <= k
  <2>1. IsWellFoundedOn(R, Nat)
    BY NatLessThanWellFounded DEF OpToRel
  <2>2. PICK j \in Bad : \A k \in Bad : ~ (<<k, j>> \in R)
    <3> HIDE DEF Bad, R
    <3> QED BY <1>1, <1>2, <2>1, WFMin
  <2>3. \A k \in Bad : ~ (k < j)
    BY <1>2, <2>2
  <2> QED BY <1>2, <2>3
<1>4. PICK i \in 1..(N + 1) : i < j /\ ~ (Start[i] < Start[j])
  BY <1>3
<1> DEFINE k == j - 1
<1>5. j \in 1..(N + 1) /\ k \in 1..N /\ k \in 1..(N + 1) /\ i <= k /\ k < j /\ j = k + 1
  BY <1>3, <1>4, StreamAssumption
<1>6. Start[k + 1] = Start[k] + HeadLen + Body[k]
  BY <1>5, StreamAssumption
<1>7. Start[k] \in Nat /\ Start[j] \in Nat /\ Start[i] \in Nat /\ Body[k] \in Nat /\ HeadLen > 0
  BY <1>5, StreamAssumption
<1>8. Start[k] < Start[j]
  BY <1>5, <1>6, <1>7, StreamAssumption
<1>9. i < k
  BY <1>4, <1>5, <1>8
<1>10. k \notin Bad
  BY <1>3, <1>5
<1>11. Start[i] < Start[k]
  BY <1>5, <1>9, <1>10
<1> QED BY <1>4, <1>7, <1>8, <1>11

LEMMA FrameFields ==
    ASSUME NEW i \in 1..N
    PROVE  /\ i \in 1..(N + 1) /\ i + 1 \in 1..(N + 1)
           /\ Start[i] \in Nat /\ Start[i + 1] \in Nat /\ Body[i] \in Nat
           /\ HeadLen \in Nat /\ HeadLen > 0
           /\ Start[i + 1] = Start[i] + HeadLen + Body[i]
           /\ Start[i + 1] <= Start[N + 1]
<1>1. i \in 1..(N + 1) /\ i + 1 \in 1..(N + 1) /\ N + 1 \in 1..(N + 1)
  BY StreamAssumption
<1>2. Start[i + 1] <= Start[N + 1]
  <2>1. CASE i = N
    BY <1>1, <2>1, StreamAssumption
  <2>2. CASE i # N
    <3>1. i + 1 < N + 1
      BY <2>2, StreamAssumption
    <3> QED BY <1>1, <3>1, Increasing, StreamAssumption
  <2> QED BY <2>1, <2>2
<1> QED BY <1>1, <1>2, StreamAssumption

\* No two frames begin at the same byte.
LEMMA OneFrame ==
    ASSUME NEW i \in 1..(N + 1), NEW j \in 1..(N + 1), Start[i] = Start[j]
    PROVE  i = j
<1>1. Start[i] \in Nat /\ Start[j] \in Nat /\ i \in Nat /\ j \in Nat
  BY StreamAssumption
<1> QED BY <1>1, Increasing

-----------------------------------------------------------------------------
\* BasicParser(false), onDataServerMessage and the client get whole frames.
Ends == {Start[i] : i \in 1..(N + 1)}
WholeFrames == \A k \in Kinds \ {"strip", "chat"} : Cuts[k] \subseteq Ends

\* Where the loop is in the stream
Placed ==
    /\ state_ = "WAIT_HEAD" => consumed = Start[handled + 1]
    /\ state_ = "WAIT_DATA" =>
          /\ header = handled + 1 /\ header \in 1..N
          /\ \/ kind = "strip" /\ consumed = Start[header] + HeadLen
             \/ kind = "keep" /\ consumed = Start[header] /\ consumed < arrived

\* Where the stream ends that has arrived
Cut == kind \in {"strip", "chat"} \/ arrived \in Ends

IInv == TypeOK /\ consumed <= arrived /\ Placed /\ Cut /\ RetrieveInBounds /\ Drained

\* Between frames, what there is of a frame is all of it.
LEMMA AllThere ==
    ASSUME TypeOK, Cut, kind \notin {"strip", "chat"}, consumed < arrived,
           consumed = Start[handled + 1]
    PROVE  /\ handled + 1 \in 1..N
           /\ Start[handled + 2] = Start[handled + 1] + HeadLen + Body[handled + 1]
           /\ Start[handled + 2] <= arrived
<1>1. PICK j \in 1..(N + 1) : arrived = Start[j]
  BY DEF Cut, Ends
<1> DEFINE i == handled + 1
<1>2. i \in 1..(N + 1) /\ i + 1 = handled + 2 /\ i \in Nat /\ j \in Nat /\ N \in Nat
  BY StreamAssumption DEF TypeOK
<1>3. Start[i] \in Nat /\ Start[j] \in Nat /\ Start[i] < Start[j]
  BY <1>1, <1>2, StreamAssumption DEF TypeOK
<1>4. i < j
  <2>1. i # j
    BY <1>3
  <2>2. ~ (j < i)
    <3>1. j < i => Start[j] < Start[i]
      BY <1>2, Increasing
    <3> QED BY <1>3, <3>1
  <2> QED BY <1>2, <2>1, <2>2
<1>5. i \in 1..N /\ i + 1 \in 1..(N + 1)
  BY <1>2, <1>4
<1>6. Start[i + 1] = Start[i] + HeadLen + Body[i]
  BY <1>5, FrameFields
<1>7. Start[i + 1] <= Start[j]
  <2>1. CASE i + 1 = j
    BY <1>3, <2>1
  <2>2. CASE i + 1 < j
    <3>1. Start[i + 1] < Start[j] /\ Start[i + 1] \in Nat
      BY <1>5, <2>2, Increasing, StreamAssumption
    <3> QED BY <1>3, <3>1
  <2> QED BY <1>2, <1>4, <2>1, <2>2
<1> QED BY <1>1, <1>2, <1>5, <1>6, <1>7

LEMMA InvInit == Init => IInv
<1>1. N + 1 \in 1..(N + 1) /\ 1 \in 1..(N + 1) /\ Start[N + 1] \in Nat
  BY StreamAssumption
<1>2. N > 0 => Start[2] > 0
  BY FrameFields, StreamAssumption
<1>3. ASSUME Init PROVE TypeOK /\ consumed <= arrived /\ Placed /\ Cut
  <2>1. TypeOK
    <3>1. 0 \in 0..N /\ 0 \in 0..Start[N + 1]
      BY <1>1, StreamAssumption
    <3> QED BY <1>3, <3>1 DEF Init, TypeOK
  <2>2. consumed <= arrived /\ consumed = Start[handled + 1] /\ state_ = "WAIT_HEAD"
    BY <1>3, StreamAssumption DEF Init
  <2>3. Cut
    BY <1>1, <1>3, StreamAssumption DEF Init, Cut, Ends
  <2> QED BY <2>1, <2>2, <2>3 DEF Placed
<1>4. ASSUME Init PROVE RetrieveInBounds
  BY <1>4 DEF Init, RetrieveInBounds
<1>5. ASSUME Init PROVE Drained
  BY <1>2, <1>5 DEF Init, Drained
<1> QED BY <1>3, <1>4, <1>5 DEF IInv

LEMMA ArriveKeeps ==
    ASSUME WholeFrames, IInv, Arrive
    PROVE  IInv'
<1>1. kind \in Kinds /\ Start[N + 1] \in Nat /\ Cuts[kind] \subseteq 1..Start[N + 1]
  BY StreamAssumption DEF IInv, TypeOK
<1>2. Cut'
  BY <1>1 DEF Cut, WholeFrames, Arrive
<1>3. TypeOK' /\ consumed' <= arrived' /\ Placed'
  BY <1>1 DEF IInv, TypeOK, Placed, Arrive
<1>4. RetrieveInBounds' /\ Drained'
  BY DEF IInv, RetrieveInBounds, Drained, Arrive
<1> QED BY <1>2, <1>3, <1>4 DEF IInv

LEMMA ParseHeadKeeps ==
    ASSUME IInv, ParseHead
    PROVE  IInv'
<1>0. kind \in {"strip", "keep"} /\ kind \in Kinds
  BY DEF ParseHead, Basic, IInv, TypeOK
<1>1. PICK i \in 1..N : AtFrame(i) /\ header' = i
  BY DEF ParseHead
<1>2. handled + 1 \in 1..(N + 1) /\ Start[i] = Start[handled + 1] /\ i \in 1..(N + 1)
  BY <1>1, StreamAssumption DEF AtFrame, ParseHead, IInv, Placed, TypeOK
<1>3. i = handled + 1
  BY <1>2, OneFrame
<1>4. HeadLen <= arrived - consumed /\ HeadLen \in Nat \ {0}
  BY StreamAssumption DEF ParseHead, ableToReadHead, readableBytes
<1>5. /\ UNCHANGED fault
      /\ kind = "strip" => consumed' = consumed + HeadLen
      /\ kind = "keep" => consumed' = consumed
  BY <1>0, <1>4 DEF ParseHead, retrieve, readableBytes
<1>6. /\ consumed' \in 0..Start[N + 1] /\ consumed' <= arrived
      /\ kind = "keep" => consumed' < arrived
  BY <1>0, <1>4, <1>5, StreamAssumption DEF IInv, TypeOK
<1>7. /\ header' \in 1..N /\ header' = handled + 1 /\ state_' = "WAIT_DATA"
      /\ UNCHANGED <<kind, arrived, handled, busy, fault>>
  BY <1>1, <1>3, <1>5 DEF ParseHead
<1>8. TypeOK' /\ consumed' <= arrived' /\ Cut'
  BY <1>6, <1>7, StreamAssumption DEF IInv, TypeOK, Cut
<1>9. /\ kind = "strip" => consumed' = Start[i] + HeadLen
      /\ kind = "keep" => consumed' = Start[i]
  BY <1>1, <1>5 DEF AtFrame
<1>10. Placed'
  <2>1. \/ kind = "strip" /\ consumed' = Start[header'] + HeadLen
        \/ kind = "keep" /\ consumed' = Start[header'] /\ consumed' < arrived
    BY <1>0, <1>1, <1>6, <1>9
  <2> QED BY <1>7, <2>1 DEF Placed
<1>11. RetrieveInBounds' /\ Drained'
  BY <1>7 DEF IInv, RetrieveInBounds, Drained, ParseHead
<1> QED BY <1>8, <1>10, <1>11 DEF IInv

\* A loop goes from the end of a frame to the end of the next one.
LEMMA NextFrame ==
    ASSUME IInv, busy, handled + 1 \in 1..N, handled' = handled + 1, state_' = "WAIT_HEAD",
           consumed' = Start[handled + 2], consumed' <= arrived,
           UNCHANGED <<kind, arrived, header, busy, fault>>
    PROVE  IInv'
<1>1. /\ Start[handled + 2] \in Nat /\ Start[handled + 2] <= Start[N + 1]
      /\ (handled + 1) + 1 = handled + 2 /\ Start[N + 1] \in Nat /\ N \in Nat
  <2>1. (handled + 1) + 1 = handled + 2
    BY DEF IInv, TypeOK
  <2> DEFINE i == handled + 1
  <2>2. i \in 1..N
    OBVIOUS
  <2>3. i + 1 = handled + 2
    BY <2>1
  <2> HIDE DEF i
  <2>4. Start[i + 1] \in Nat /\ Start[i + 1] <= Start[N + 1] /\ i + 1 \in 1..(N + 1)
    BY <2>2, FrameFields
  <2> QED BY <2>1, <2>3, <2>4, StreamAssumption
<1>2. TypeOK' /\ consumed' <= arrived' /\ Cut'
  BY <1>1 DEF IInv, TypeOK, Cut
<1>3. Placed' /\ RetrieveInBounds' /\ Drained'
  BY <1>1 DEF IInv, Placed, RetrieveInBounds, Drained
<1> QED BY <1>2, <1>3 DEF IInv

LEMMA ParseDataKeeps ==
    ASSUME IInv, ParseData
    PROVE  IInv' /\ handled' = handled + 1 /\ handled < N /\ Start[handled + 2] <= arrived
<1>0. kind \in {"strip", "keep"}
  BY DEF ParseData, Basic
<1>1. header \in 1..N /\ header = handled + 1 /\ handled + 2 = header + 1
  BY DEF IInv, TypeOK, Placed, ParseData
<1>2. Start[header + 1] = Start[header] + HeadLen + Body[header] /\ Start[header] \in Nat
      /\ Body[header] \in Nat /\ HeadLen \in Nat
  BY <1>1, FrameFields
<1>3. consumed' = Start[header + 1] /\ consumed' <= arrived /\ UNCHANGED fault
  <2>1. CASE kind = "strip"
    <3>1. consumed = Start[header] + HeadLen
      BY <2>1 DEF IInv, Placed, ParseData
    <3>2. consumed' = consumed + Body[header] /\ UNCHANGED fault /\ Body[header] <= arrived - consumed
      BY <2>1 DEF ParseData, ableToReadData, retrieve, readableBytes
    <3> QED BY <1>2, <3>1, <3>2 DEF IInv, TypeOK
  <2>2. CASE kind = "keep"
    <3>1. consumed = Start[header] /\ consumed < arrived
      BY <2>2 DEF IInv, Placed, ParseData
    <3>2. Start[header + 1] <= arrived
      BY <1>1, <2>2, <3>1, AllThere DEF IInv
    <3>3. request_length(header) <= arrived - consumed
      BY <1>2, <3>1, <3>2 DEF request_length, IInv, TypeOK
    <3>4. consumed' = consumed + request_length(header) /\ UNCHANGED fault
      BY <2>2, <3>3 DEF ParseData, retrieve, readableBytes
    <3> QED BY <1>2, <3>1, <3>2, <3>4 DEF request_length
  <2> QED BY <1>0, <2>1, <2>2
<1>4. handled' = handled + 1 /\ handled < N
  BY <1>1, StreamAssumption DEF ParseData, IInv, TypeOK
<1>5. IInv'
  BY <1>1, <1>3, <1>4, NextFrame DEF ParseData
<1> QED BY <1>1, <1>3, <1>4, <1>5

LEMMA ForwardKeeps ==
    ASSUME IInv, ForwardChat \/ ForwardData \/ ReadClient
    PROVE  IInv' /\ handled' = handled + 1 /\ handled < N /\ Start[handled + 2] <= arrived
<1>0. kind \in {"chat", "data", "client"} /\ busy /\ UNCHANGED <<kind, arrived, state_, header, busy>>
  BY DEF ForwardChat, ForwardData, ReadClient
<1>1. PICK i \in 1..N : /\ AtFrame(i) /\ handled' = i /\ retrieve(request_length(i))
                        /\ (kind = "chat" => Whole(i))
  BY DEF ForwardChat, ForwardData, ReadClient
<1>2. state_ = "WAIT_HEAD" /\ consumed = Start[handled + 1]
  BY <1>0 DEF IInv, TypeOK, Placed
<1>3. handled + 1 \in 1..(N + 1) /\ i \in 1..(N + 1) /\ Start[i] = Start[handled + 1]
  BY <1>1, <1>2, StreamAssumption DEF AtFrame, IInv, TypeOK
<1>4. i = handled + 1 /\ handled + 2 = i + 1
  BY <1>3, OneFrame DEF IInv, TypeOK
<1>5. /\ Start[i + 1] = Start[i] + HeadLen + Body[i]
      /\ Start[i] \in Nat /\ HeadLen \in Nat /\ Body[i] \in Nat
  BY <1>1, FrameFields
<1>6. Start[i + 1] <= arrived
  <2>1. CASE kind = "chat"
    BY <1>1, <1>2, <1>4, <1>5, <2>1 DEF Whole, readableBytes, request_length, IInv, TypeOK
  <2>2. CASE kind # "chat"
    <3>1. consumed < arrived
      BY <2>2 DEF ForwardChat, ForwardData, ReadClient, readableBytes, IInv, TypeOK
    <3> QED BY <1>0, <1>2, <1>4, <2>2, <3>1, AllThere DEF IInv
  <2> QED BY <2>1, <2>2
<1>7. request_length(i) <= arrived - consumed
  BY <1>2, <1>4, <1>5, <1>6 DEF request_length, IInv, TypeOK
<1>8. consumed' = Start[i + 1] /\ UNCHANGED fault
  BY <1>1, <1>2, <1>4, <1>5, <1>7 DEF retrieve, readableBytes, request_length
<1>9. handled' = handled + 1 /\ handled < N /\ state_' = "WAIT_HEAD"
  BY <1>0, <1>1, <1>2, <1>4, StreamAssumption DEF IInv, TypeOK
<1>10. IInv'
  BY <1>0, <1>1, <1>4, <1>6, <1>8, <1>9, NextFrame
<1> QED BY <1>4, <1>6, <1>9, <1>10

\* When the callback returns, the next frame is not complete.
LEMMA BreakKeeps ==
    ASSUME IInv, Break
    PROVE  IInv'
<1>0. kind \in {"strip", "keep", "chat", "data", "client"}
  BY KindAssumption DEF IInv, TypeOK
<1>1. TypeOK' /\ consumed' <= arrived' /\ Placed' /\ Cut' /\ RetrieveInBounds'
  BY DEF IInv, TypeOK, Placed, Cut, RetrieveInBounds, Break
<1>2. ASSUME handled < N PROVE arrived < Start[handled + 2]
  <2> DEFINE i == handled + 1
  <2>1. i \in 1..N /\ i + 1 = handled + 2
    BY <1>2, StreamAssumption DEF IInv, TypeOK
  <2>2. /\ Start[i + 1] = Start[i] + HeadLen + Body[i]
        /\ Start[i] \in Nat /\ HeadLen \in Nat \ {0} /\ Body[i] \in Nat
    BY <2>1, FrameFields
  <2>3. CASE kind \in {"strip", "keep"}
    <3>1. CASE state_ = "WAIT_HEAD" /\ arrived - consumed < HeadLen
      BY <2>1, <2>2, <3>1 DEF IInv, TypeOK, Placed
    <3>2. CASE kind = "strip" /\ state_ = "WAIT_DATA" /\ arrived - consumed < Body[header]
      BY <2>1, <2>2, <3>2 DEF IInv, TypeOK, Placed
    <3>3. CASE kind = "keep" /\ state_ = "WAIT_DATA" /\ arrived - consumed < Body[header]
      BY <2>1, <2>2, <3>3 DEF IInv, TypeOK, Placed
    <3>4. header \in 0..N /\ arrived - consumed \in Int /\ (state_ = "WAIT_DATA" => Body[header] \in Nat)
      BY StreamAssumption DEF IInv, TypeOK, Placed
    <3> QED BY <2>2, <2>3, <3>1, <3>2, <3>3, <3>4 DEF Break, NeedMore, ableToReadHead, ableToReadData, readableBytes
  <2>4. CASE kind \in {"chat", "data", "client"}
    <3>1. consumed = Start[i]
      BY <2>4 DEF IInv, TypeOK, Placed
    <3>2. CASE arrived - consumed < HeadLen
      BY <2>1, <2>2, <3>1, <3>2 DEF IInv, TypeOK
    <3>3. CASE \E j \in 1..N : AtFrame(j) /\ ~ Whole(j)
      <4>1. PICK j \in 1..N : AtFrame(j) /\ ~ Whole(j)
        BY <3>3
      <4>2. i \in 1..(N + 1) /\ j \in 1..(N + 1) /\ Start[j] = Start[i]
        BY <2>1, <3>1, <4>1, FrameFields DEF AtFrame
      <4>3. j = i
        BY <4>2, OneFrame
      <4>4. arrived - consumed < HeadLen + Body[i]
        BY <2>2, <4>1, <4>3 DEF Whole, readableBytes, request_length, IInv, TypeOK
      <4> QED BY <2>1, <2>2, <3>1, <4>4 DEF IInv, TypeOK
    <3>4. arrived - consumed \in Int
      BY DEF IInv, TypeOK
    <3> QED BY <2>2, <2>4, <3>2, <3>3, <3>4 DEF Break, Basic, readableBytes
  <2> QED BY <1>0, <2>3, <2>4
<1>3. Drained'
  BY <1>2 DEF Break, Drained
<1> QED BY <1>1, <1>3 DEF IInv

LEMMA InvNext ==
    ASSUME WholeFrames, IInv, [Next]_vars
    PROVE  IInv'
<1>1. CASE UNCHANGED vars
  BY <1>1 DEF vars, IInv, TypeOK, Placed, Cut, RetrieveInBounds, Drained
<1>2. CASE Arrive
  BY <1>2, ArriveKeeps
<1>3. CASE ParseHead
  BY <1>3, ParseHeadKeeps
<1>4. CASE ParseData
  BY <1>4, ParseDataKeeps
<1>5. CASE ForwardChat \/ ForwardData \/ ReadClient
  BY <1>5, ForwardKeeps
<1>6. CASE Break
  BY <1>6, BreakKeeps
<1> QED BY <1>1, <1>2, <1>3, <1>4, <1>5, <1>6 DEF Next, Loop

\* No loop retrieves more than the buffer holds, and none returns while a
\* whole frame is in it: BasicParser(true) and onChatServerMessage however
\* the stream is cut, the others if it is cut between frames
\* (BasicParser.cc 7-48, ThreadEnvironment.cc 21-88, Client.cc 400-432).
THEOREM FramesSafe ==
    ASSUME WholeFrames
    PROVE  Spec => [](TypeOK /\ RetrieveInBounds /\ Drained)
<1>1. Init => IInv
  BY InvInit
<1>2. IInv /\ [Next]_vars => IInv'
  BY InvNext
<1>3. IInv => TypeOK /\ RetrieveInBounds /\ Drained
  BY DEF IInv
<1> QED BY <1>1, <1>2, <1>3, PTL DEF Spec

LEMMA StepImplements ==
    ASSUME IInv, [Next]_vars
    PROVE  [Stream!Next]_(Stream!vars)
<1>0. kind \in Kinds
  BY DEF IInv, TypeOK
<1>1. CASE Arrive
  <2>1. PICK n \in Cuts[kind] : n > arrived /\ arrived' = n
    BY <1>1 DEF Arrive
  <2>2. n \in 1..Start[N + 1] /\ Start[N + 1] \in Nat /\ arrived \in Nat
    BY <1>0, <2>1, StreamAssumption DEF IInv, TypeOK
  <2>3. n - arrived \in 1..(Start[N + 1] - arrived) /\ arrived' = arrived + (n - arrived)
    BY <2>1, <2>2
  <2> QED BY <1>1, <2>3 DEF Arrive, Stream!Arrive, Stream!Next
<1>2. CASE ParseData \/ ForwardChat \/ ForwardData \/ ReadClient
  <2>1. handled' = handled + 1 /\ handled < N /\ Start[handled + 2] <= arrived
    BY <1>2, ParseDataKeeps, ForwardKeeps
  <2>2. UNCHANGED arrived
    BY <1>2 DEF ParseData, ForwardChat, ForwardData, ReadClient
  <2> QED BY <2>1, <2>2 DEF Stream!Handle, Stream!Next
<1>3. CASE UNCHANGED <<arrived, handled>>
  BY <1>3 DEF Stream!vars
<1> QED BY <1>1, <1>2, <1>3 DEF Next, Loop, ParseHead, Break, vars

\* They handle every frame once, in order and whole.
THEOREM ImplementsStream ==
    ASSUME WholeFrames
    PROVE  Spec => Stream!Spec
<1>1. Init => IInv
  BY InvInit
<1>2. IInv /\ [Next]_vars => IInv'
  BY InvNext
<1>3. Init => Stream!Init
  BY DEF Init, Stream!Init
<1>4. IInv /\ [Next]_vars => [Stream!Next]_(Stream!vars)
  BY StepImplements
<1> QED BY <1>1, <1>2, <1>3, <1>4, PTL DEF Spec, Stream!Spec

=============================================================================
