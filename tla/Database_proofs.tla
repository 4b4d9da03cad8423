-------------------------- MODULE Database_proofs --------------------------
(***************************************************************************)
(* What the database server promises, for any connections, names and       *)
(* number of requests.                                                     *)
(***************************************************************************)
EXTENDS Database, FiniteSetTheorems, TLAPS

-----------------------------------------------------------------------------
(* The inductive invariant *)

\* Requests Redis has not executed
Waits(q) == (\E c \in Conn : q \in Range(buffer[c])) \/ q \in Range(commands)

\* Requests it has, each with what it replied
Done == {[request |-> r.request, uid |-> r.uid] : r \in Range(replies) \cup answers}

SignedUp(x) == x.request.type = "SIGN_UP" /\ x.uid # None

Known(q) == Waits(q) \/ \E x \in Done : x.request = q

\* A stamp belongs to one connection, and those of a connection only grow on
\* their way from its buffer to the replies.
Stamped == \A q \in Request : Known(q) => q.stamp <= asked
Whose ==
    /\ \A c \in Conn : \A q \in Range(buffer[c]) : q.conn = c
    /\ \A q, r \in Request : Known(q) /\ Known(r) /\ q.stamp = r.stamp => q.conn = r.conn
Queued ==
    \A c \in Conn : \A i, j \in DOMAIN buffer[c] :
        i < j => buffer[c][i].stamp < buffer[c][j].stamp
Sent ==
    \A i, j \in DOMAIN commands :
        i < j /\ commands[i].conn = commands[j].conn => commands[i].stamp < commands[j].stamp
Behind ==
    \A q \in Range(commands) : \A c \in Conn : \A r \in Range(buffer[c]) :
        q.conn = c => q.stamp < r.stamp
Past ==
    \A x \in Done : \A q \in Request :
        Waits(q) /\ q.conn = x.request.conn => x.request.stamp < q.stamp

\* header_ is never behind what its Parser has handed on, nor is the stamp of
\* an answer behind that of its request, and neither is one of another
\* connection.
Headed ==
    /\ \A q \in Range(commands) : q.stamp <= header_[q.conn]
    /\ \A r \in Range(replies) : r.request.stamp <= header_[r.request.conn]
Heads ==
    \A c \in Conn : /\ header_[c] <= asked
                    /\ \A q \in Request : Known(q) /\ q.stamp = header_[c] => q.conn = c
Marked ==
    \A a \in answers :
        /\ a.request.stamp <= a.stamp /\ a.stamp <= asked
        /\ \A q \in Request : Known(q) /\ q.stamp = a.stamp => q.conn = a.request.conn

OrderInv == Stamped /\ Whose /\ Queued /\ Sent /\ Behind /\ Past
HeadInv  == Headed /\ Heads /\ Marked

\* Stamps of requests that are still to be executed: there are enough uids
\* for all of them.
Unused == {n \in 1..MaxAsk : n > asked \/ \E q \in Request : Waits(q) /\ q.stamp = n}
Budget == UID + Cardinality(Unused) <= MaxAsk

Fresh  == \A n \in Name : uid[n] # None => uid[n] <= UID
Owned  == \A x \in Done : SignedUp(x) =>
              uid[x.request.name] = x.uid /\ player[x.uid] = x.request.name
Unique == \A x, y \in Done : SignedUp(x) /\ SignedUp(y) /\ x.request.name = y.request.name => x = y
Signed == \A x \in Done : x.request.type = "SIGN_UP" => uid[x.request.name] # None
Later  == \A x, y \in Done :
              /\ x.request.type = "SIGN_UP"
              /\ y.request.type = "INFO" /\ y.uid = None
              /\ x.request.name = y.request.name /\ x.request.conn = y.request.conn
              => y.request.stamp < x.request.stamp

Copied == \A a \in answers : a.request.type = "SIGN_UP" => a.stamp = a.request.stamp

TruthInv == Budget /\ Fresh /\ Owned /\ Unique /\ Signed /\ Later /\ Copied

IInv == TypeOK /\ OrderInv /\ HeadInv /\ TruthInv

-----------------------------------------------------------------------------
(* Sequences *)

LEMMA TailFacts ==
    ASSUME NEW S, NEW s \in Seq(S), s # <<>>
    PROVE  /\ Tail(s) \in Seq(S) /\ Head(s) \in S /\ Head(s) = s[1] /\ 1 \in DOMAIN s
           /\ \A i \in DOMAIN Tail(s) : 1 < i + 1 /\ i + 1 \in DOMAIN s /\ Tail(s)[i] = s[i + 1]
           /\ \A i \in DOMAIN Tail(s) : i \in Int
           /\ Head(s) \in Range(s) /\ Range(Tail(s)) \subseteq Range(s)
           /\ \A e \in Range(s) : e = Head(s) \/ e \in Range(Tail(s))
<1>1. /\ Tail(s) \in Seq(S) /\ Head(s) \in S /\ Head(s) = s[1] /\ 1 \in DOMAIN s
      /\ \A i \in DOMAIN Tail(s) : 1 < i + 1 /\ i + 1 \in DOMAIN s /\ Tail(s)[i] = s[i + 1]
      /\ \A i \in DOMAIN Tail(s) : i \in Int
      /\ \A i \in DOMAIN s : i = 1 \/ (i - 1 \in DOMAIN Tail(s) /\ Tail(s)[i - 1] = s[i])
  OBVIOUS
<1>2. Head(s) \in Range(s)
  BY <1>1 DEF Range
<1>3. ASSUME NEW e \in Range(Tail(s)) PROVE e \in Range(s)
  <2>1. PICK i \in DOMAIN Tail(s) : e = Tail(s)[i]
    BY <1>3 DEF Range
  <2> QED BY <1>1, <2>1 DEF Range
<1>4. ASSUME NEW e \in Range(s) PROVE e = Head(s) \/ e \in Range(Tail(s))
  <2>1. PICK i \in DOMAIN s : e = s[i]
    BY <1>4 DEF Range
  <2> QED BY <1>1, <2>1 DEF Range
<1> QED BY <1>1, <1>2, <1>3, <1>4

LEMMA AppendFacts ==
    ASSUME NEW S, NEW s \in Seq(S), NEW e \in S
    PROVE  /\ Append(s, e) \in Seq(S)
           /\ \A i \in DOMAIN Append(s, e) :
                  \/ i \in DOMAIN s /\ Append(s, e)[i] = s[i]
                  \/ Append(s, e)[i] = e /\ \A j \in DOMAIN s : j < i
           /\ DOMAIN s \subseteq DOMAIN Append(s, e) /\ DOMAIN Append(s, e) \subseteq Int
           /\ Range(Append(s, e)) = Range(s) \cup {e}
<1>1. /\ Append(s, e) \in Seq(S)
      /\ DOMAIN Append(s, e) = 1..(Len(s) + 1) /\ DOMAIN s = 1..Len(s) /\ Len(s) \in Nat
      /\ \A i \in 1..Len(s) : Append(s, e)[i] = s[i]
      /\ Append(s, e)[Len(s) + 1] = e
  OBVIOUS
<1>2. Range(Append(s, e)) = Range(s) \cup {e}
  BY <1>1 DEF Range
<1> QED BY <1>1, <1>2

LEMMA RangeType == ASSUME NEW S, NEW s \in Seq(S) PROVE Range(s) \subseteq S
  BY DEF Range

LEMMA EmptyRange == Range(<<>>) = {}
  BY DEF Range

-----------------------------------------------------------------------------
(* Steps *)

LEMMA Types ==
    ASSUME TypeOK
    PROVE  /\ \A c \in Conn : Range(buffer[c]) \subseteq Request
           /\ Range(commands) \subseteq Request
           /\ Range(replies) \subseteq [request : Request, uid : Uid \cup {None}]
           /\ \A q : Waits(q) => q \in Request /\ Known(q)
           /\ \A x \in Done : x.request \in Request /\ x.uid \in Uid \cup {None} /\ Known(x.request)
           /\ \A q : Known(q) => q \in Request
           /\ MaxAsk \in Nat /\ asked \in Nat /\ UID \in Nat
<1>1. /\ \A c \in Conn : Range(buffer[c]) \subseteq Request
      /\ Range(commands) \subseteq Request
      /\ Range(replies) \subseteq [request : Request, uid : Uid \cup {None}]
  BY RangeType DEF TypeOK
<1>2. \A q : Waits(q) => q \in Request /\ Known(q)
  BY <1>1 DEF Waits, Known
<1>3. \A x \in Done : x.request \in Request /\ x.uid \in Uid \cup {None}
  BY <1>1 DEF TypeOK, Done, Answer
<1>4. /\ \A x \in Done : Known(x.request)
      /\ \A q : Known(q) => q \in Request
  BY <1>2, <1>3 DEF Known
<1> QED BY <1>1, <1>2, <1>3, <1>4, DatabaseAssumption DEF TypeOK

LEMMA UnusedFinite == TypeOK => IsFiniteSet(Unused) /\ Cardinality(Unused) \in Nat
<1> SUFFICES ASSUME TypeOK PROVE IsFiniteSet(Unused) /\ Cardinality(Unused) \in Nat
  OBVIOUS
<1>1. IsFiniteSet(1..MaxAsk)
  BY FS_Interval, DatabaseAssumption
<1>2. Unused \in SUBSET (1..MaxAsk)
  BY DEF Unused
<1> HIDE DEF Unused
<1>3. IsFiniteSet(Unused)
  BY <1>1, <1>2, FS_Subset
<1> QED BY <1>3, FS_CardinalityType

\* A step after which no other request waits, and Redis and the replies are as
\* they were
Quiet ==
    /\ asked' = asked /\ UNCHANGED redis
    /\ \A q \in Request : Waits(q)' => Waits(q)
    /\ Done' \subseteq Done

LEMMA QuietKeeps ==
    ASSUME IInv, Quiet, TypeOK'
    PROVE  /\ Stamped' /\ Past'
           /\ \A q, r \in Request : Known(q)' /\ Known(r)' /\ q.stamp = r.stamp => q.conn = r.conn
           /\ \A q \in Request : Known(q)' => Known(q)
           /\ Budget' /\ Fresh' /\ Owned' /\ Unique' /\ Signed' /\ Later'
<1> USE DEF Quiet
<1>1. \A q \in Request : Known(q)' => Known(q)
  BY DEF Known
<1>2. Stamped' /\ Past'
  BY <1>1 DEF IInv, OrderInv, Stamped, Past
<1>3. \A q, r \in Request : Known(q)' /\ Known(r)' /\ q.stamp = r.stamp => q.conn = r.conn
  BY <1>1 DEF IInv, OrderInv, Whose
<1>4. Budget'
  <2>1. Unused' \in SUBSET Unused
    BY DEF Unused
  <2> HIDE DEF Unused
  <2>2. IsFiniteSet(Unused) /\ Cardinality(Unused) \in Nat /\ Cardinality(Unused') \in Nat
    BY <2>1, UnusedFinite, FS_Subset, FS_CardinalityType DEF IInv
  <2>3. Cardinality(Unused') <= Cardinality(Unused)
    BY <2>1, <2>2, FS_Subset
  <2> QED BY <2>2, <2>3, Types DEF IInv, TruthInv, Budget, redis
<1>5. Fresh'
  BY DEF IInv, TruthInv, Fresh, redis
<1>6. Owned' /\ Unique' /\ Signed' /\ Later'
  BY DEF IInv, TruthInv, Owned, Unique, Signed, Later, SignedUp, redis
<1> QED BY <1>1, <1>2, <1>3, <1>4, <1>5, <1>6

\* A head is parsed, and its request is handed on or not.
LEMMA HeadParsed ==
    ASSUME IInv, NEW c \in Conn, buffer[c] # <<>>, Parsed(c),
           asked' = asked, answers' = answers, replies' = replies,
           \A q \in Request : Known(q)' => Known(q),
           \A p \in Range(commands') : p \in Range(commands) \/ p = Head(buffer[c])
    PROVE  HeadInv' /\ header_' \in [Conn -> 0..MaxAsk] /\ Head(buffer[c]) \in Request
<1> DEFINE q == Head(buffer[c])
<1>1. /\ TypeOK /\ OrderInv /\ HeadInv /\ header_ \in [Conn -> 0..MaxAsk]
      /\ Range(commands) \subseteq Request /\ asked \in Nat
  BY Types DEF IInv, TypeOK
<1>2. q \in Request /\ q \in Range(buffer[c])
  BY <1>1, TailFacts DEF TypeOK
<1>3. q.stamp \in 1..MaxAsk /\ q.conn = c /\ Waits(q) /\ Known(q) /\ q.stamp <= asked
  BY <1>1, <1>2 DEF Request, OrderInv, Whose, Waits, Known, Stamped
<1>4. /\ header_' \in [Conn -> 0..MaxAsk] /\ header_'[c] = q.stamp
      /\ \A d \in Conn : d # c => header_'[d] = header_[d]
  BY <1>1, <1>3 DEF Parsed
<1>5. ASSUME NEW p \in Range(commands') PROVE p.stamp <= header_'[p.conn]
  <2>1. CASE p = q
    BY <1>3, <1>4, <2>1
  <2>2. CASE p \in Range(commands) /\ p.conn = c
    <3>1. p.stamp < q.stamp /\ p \in Request
      BY <1>1, <1>2, <1>3, <2>2 DEF OrderInv, Behind
    <3> QED BY <1>3, <1>4, <2>2, <3>1 DEF Request
  <2>3. CASE p \in Range(commands) /\ p.conn # c
    <3>1. p.conn \in Conn /\ p.stamp <= header_[p.conn]
      BY <1>1, <2>3 DEF HeadInv, Headed, Request
    <3> QED BY <1>4, <2>3, <3>1
  <2> QED BY <2>1, <2>2, <2>3
<1>6. ASSUME NEW r \in Range(replies) PROVE r.request.stamp <= header_'[r.request.conn]
  <2>1. r.request \in Request /\ [request |-> r.request, uid |-> r.uid] \in Done
    BY <1>1, Types DEF Done
  <2>2. CASE r.request.conn = c
    <3>1. r.request.stamp < q.stamp
      BY <1>1, <1>2, <1>3, <2>1, <2>2 DEF OrderInv, Past
    <3> QED BY <1>3, <1>4, <2>1, <2>2, <3>1 DEF Request
  <2>3. CASE r.request.conn # c
    <3>1. r.request.conn \in Conn /\ r.request.stamp <= header_[r.request.conn]
      BY <1>1, <2>1 DEF HeadInv, Headed, Request
    <3> QED BY <1>4, <2>3, <3>1
  <2> QED BY <2>2, <2>3
<1>7. Headed'
  BY <1>5, <1>6 DEF Headed
<1>8. Heads'
  <2>1. SUFFICES ASSUME NEW d \in Conn
                 PROVE  /\ header_'[d] <= asked
                        /\ \A p \in Request : Known(p)' /\ p.stamp = header_'[d] => p.conn = d
    BY DEF Heads
  <2>2. CASE d = c
    BY <1>1, <1>2, <1>3, <1>4, <2>2 DEF OrderInv, Whose
  <2>3. CASE d # c
    BY <1>1, <1>4, <2>3 DEF HeadInv, Heads
  <2> QED BY <2>2, <2>3
<1>9. Marked'
  BY <1>1 DEF HeadInv, Marked
<1> QED BY <1>2, <1>4, <1>7, <1>8, <1>9 DEF HeadInv

LEMMA ParseKeeps ==
    ASSUME IInv, NEW c \in Conn, Parse(c)
    PROVE  IInv'
<1> DEFINE q == Head(buffer[c])
<1> USE DEF Parse, Ready
<1>1. /\ TypeOK /\ OrderInv /\ TruthInv /\ buffer[c] \in Seq(Request) /\ buffer[c] # <<>>
      /\ commands \in Seq(Request)
  BY DEF IInv, TypeOK
<1>2. /\ q \in Request /\ q \in Range(buffer[c]) /\ q = buffer[c][1] /\ 1 \in DOMAIN buffer[c]
      /\ Tail(buffer[c]) \in Seq(Request)
      /\ Range(Tail(buffer[c])) \subseteq Range(buffer[c])
      /\ \A i \in DOMAIN Tail(buffer[c]) :
             i \in Int /\ 1 < i + 1 /\ i + 1 \in DOMAIN buffer[c] /\ Tail(buffer[c])[i] = buffer[c][i + 1]
  BY <1>1, TailFacts
<1>3. q.stamp \in 1..MaxAsk /\ q.conn = c
  BY <1>1, <1>2 DEF Request, OrderInv, Whose
<1>4. /\ commands' \in Seq(Request) /\ Range(commands') = Range(commands) \cup {q}
      /\ \A i \in DOMAIN commands' :
             \/ i \in DOMAIN commands /\ commands'[i] = commands[i]
             \/ commands'[i] = q /\ \A j \in DOMAIN commands : j < i
      /\ DOMAIN commands' \subseteq Int /\ DOMAIN commands \subseteq DOMAIN commands'
  BY <1>1, <1>2, AppendFacts
<1>5. /\ \A d \in Conn : Range(buffer'[d]) \subseteq Range(buffer[d])
      /\ buffer' = [buffer EXCEPT ![c] = Tail(buffer[c])] /\ buffer \in [Conn -> Seq(Request)]
  BY <1>1, <1>2 DEF TypeOK
<1>7. Done' = Done /\ replies' = replies /\ answers' = answers /\ asked' = asked
  BY DEF Done
<1>8. Quiet
  <2>1. \A r \in Request : Waits(r)' => Waits(r)
    BY <1>2, <1>4, <1>5 DEF Waits
  <2> QED BY <1>7, <2>1 DEF Quiet
<1>14. HeadInv' /\ header_' \in [Conn -> 0..MaxAsk]
  <2>1. \A r \in Request : Known(r)' => Known(r)
    BY <1>8 DEF Quiet, Known
  <2> QED BY <1>1, <1>4, <1>7, <2>1, HeadParsed
<1>6. TypeOK'
  <2>1. state_' \in [Conn -> {"head", "data", "spoiled", "lost"}]
    BY <1>1 DEF TypeOK, Goes
  <2> QED BY <1>1, <1>2, <1>4, <1>5, <1>14, <2>1 DEF TypeOK, redis
<1>9. Stamped' /\ Past' /\ TruthInv'
  BY <1>6, <1>7, <1>8, <1>1, QuietKeeps DEF TruthInv, Copied
<1>10. Whose'
  BY <1>1, <1>5, <1>6, <1>8, QuietKeeps DEF OrderInv, Whose
<1>11. Queued'
  <2>1. SUFFICES ASSUME NEW d \in Conn, NEW i \in DOMAIN buffer'[d], NEW j \in DOMAIN buffer'[d], i < j
                 PROVE  buffer'[d][i].stamp < buffer'[d][j].stamp
    BY DEF Queued
  <2>2. CASE d # c
    BY <1>1, <1>5, <2>1, <2>2 DEF OrderInv, Queued
  <2>3. CASE d = c
    <3>1. buffer'[d] = Tail(buffer[c])
      BY <1>5, <2>3
    <3>2. i \in DOMAIN Tail(buffer[c]) /\ j \in DOMAIN Tail(buffer[c]) /\ i \in Int /\ j \in Int
      BY <1>2, <2>1, <3>1
    <3>3. i + 1 \in DOMAIN buffer[c] /\ buffer'[d][i] = buffer[c][i + 1]
      BY <1>2, <3>1, <3>2
    <3>4. j + 1 \in DOMAIN buffer[c] /\ buffer'[d][j] = buffer[c][j + 1]
      BY <1>2, <3>1, <3>2
    <3>6. i + 1 < j + 1
      BY <2>1, <3>2
    <3>5. buffer[c][i + 1].stamp < buffer[c][j + 1].stamp
      BY <1>1, <3>3, <3>4, <3>6 DEF OrderInv, Queued
    <3> QED BY <3>3, <3>4, <3>5
  <2> QED BY <2>2, <2>3
<1>12. Sent'
  <2>1. SUFFICES ASSUME NEW i \in DOMAIN commands', NEW j \in DOMAIN commands', i < j,
                        commands'[i].conn = commands'[j].conn
                 PROVE  commands'[i].stamp < commands'[j].stamp
    BY DEF Sent
  <2>2. i \in DOMAIN commands /\ commands'[i] = commands[i]
    <3>1. CASE j \in DOMAIN commands
      BY <1>4, <2>1, <3>1
    <3>2. CASE j \notin DOMAIN commands
      <4>1. i \in 1..Len(commands') /\ j \in 1..Len(commands') /\ Len(commands') = Len(commands) + 1
        BY <1>1, <1>2, <2>1
      <4>2. i \in DOMAIN commands
        BY <1>1, <4>1, <2>1, <3>2
      <4>3. ~ \A k \in DOMAIN commands : k < i
        BY <4>2, <2>1, <1>4
      <4> QED BY <4>2, <4>3, <1>4
    <3> QED BY <3>1, <3>2
  <2>3. CASE j \in DOMAIN commands /\ commands'[j] = commands[j]
    BY <1>1, <2>1, <2>2, <2>3 DEF OrderInv, Sent
  <2>4. CASE commands'[j] = q
    BY <1>1, <1>2, <1>3, <2>1, <2>2, <2>4 DEF OrderInv, Behind, Range
  <2> QED BY <1>4, <2>3, <2>4
<1>13. Behind'
  <2>1. SUFFICES ASSUME NEW p \in Range(commands'), NEW d \in Conn, NEW r \in Range(buffer'[d]), p.conn = d
                 PROVE  p.stamp < r.stamp
    BY DEF Behind
  <2>2. CASE p \in Range(commands)
    BY <1>1, <1>5, <2>1, <2>2 DEF OrderInv, Behind
  <2>3. CASE p = q
    <3>1. d = c /\ buffer'[d] = Tail(buffer[c])
      BY <1>3, <1>5, <2>1, <2>3
    <3>2. PICK i \in DOMAIN Tail(buffer[c]) : r = Tail(buffer[c])[i]
      BY <2>1, <3>1 DEF Range
    <3>3. r = buffer[c][i + 1] /\ i + 1 \in DOMAIN buffer[c] /\ 1 < i + 1
      BY <1>2, <3>2
    <3> QED BY <1>1, <1>2, <2>3, <3>3 DEF OrderInv, Queued
  <2> QED BY <1>4, <2>1, <2>2, <2>3
<1> QED BY <1>6, <1>9, <1>10, <1>11, <1>12, <1>13, <1>14 DEF IInv, OrderInv

\* A head is parsed, or a frame or more are dropped.
Drops(c) ==
    /\ buffer[c] # <<>>
    /\ \/ buffer' = buffer
       \/ \E n \in DOMAIN buffer[c] :
              buffer' = [buffer EXCEPT ![c] = SubSeq(@, n + 1, Len(@))]
       \/ buffer' = [buffer EXCEPT ![c] = <<>>]
    /\ Parsed(c) \/ header_' = header_
    /\ \E t \in {"head", "data", "lost"} : Goes(c, t)
    /\ refusals' = refusals \/ refusals' = refusals \cup {Head(buffer[c])}
    /\ UNCHANGED <<connected, asked, commands, replies, redis, answers>>

LEMMA DropsKeeps ==
    ASSUME IInv, NEW c \in Conn, Drops(c)
    PROVE  IInv'
<1> USE DEF Drops
<1>1. /\ TypeOK /\ OrderInv /\ HeadInv /\ TruthInv /\ buffer[c] \in Seq(Request) /\ buffer[c] # <<>>
      /\ buffer \in [Conn -> Seq(Request)]
  BY DEF IInv, TypeOK
<1>2. Head(buffer[c]) \in Request
  BY <1>1, TailFacts
<1>3. PICK k \in Nat :
        /\ buffer' = [buffer EXCEPT ![c] = SubSeq(buffer[c], k + 1, Len(buffer[c]))]
        /\ k <= Len(buffer[c])
  <2>1. CASE buffer' = buffer
    <3>1. SubSeq(buffer[c], 0 + 1, Len(buffer[c])) = buffer[c]
      BY <1>1
    <3>2. buffer' = [buffer EXCEPT ![c] = SubSeq(buffer[c], 0 + 1, Len(buffer[c]))] /\ 0 <= Len(buffer[c])
      BY <1>1, <2>1, <3>1
    <3> QED BY <3>2
  <2>2. CASE \E n \in DOMAIN buffer[c] :
               buffer' = [buffer EXCEPT ![c] = SubSeq(@, n + 1, Len(@))]
    <3>1. PICK n \in DOMAIN buffer[c] :
            buffer' = [buffer EXCEPT ![c] = SubSeq(buffer[c], n + 1, Len(buffer[c]))]
      BY <2>2
    <3>2. n \in Nat /\ n <= Len(buffer[c])
      BY <1>1
    <3> QED BY <3>1, <3>2
  <2>3. CASE buffer' = [buffer EXCEPT ![c] = <<>>]
    <3>1. Len(buffer[c]) \in Nat /\ SubSeq(buffer[c], Len(buffer[c]) + 1, Len(buffer[c])) = <<>>
      BY <1>1
    <3>2. buffer' = [buffer EXCEPT ![c] = SubSeq(buffer[c], Len(buffer[c]) + 1, Len(buffer[c]))]
      BY <2>3, <3>1, Zenon
    <3>3. Len(buffer[c]) <= Len(buffer[c])
      BY <3>1
    <3> QED BY <3>1, <3>2, <3>3, Zenon
  <2> QED BY <2>1, <2>2, <2>3
<1> DEFINE s == SubSeq(buffer[c], k + 1, Len(buffer[c]))
<1>4. /\ s \in Seq(Request)
      /\ \A i \in DOMAIN s : i \in Int /\ i + k \in DOMAIN buffer[c] /\ s[i] = buffer[c][i + k]
  BY <1>1, <1>3
<1>5. Range(s) \subseteq Range(buffer[c])
  BY <1>4 DEF Range
<1> HIDE DEF s
<1>6. /\ buffer' = [buffer EXCEPT ![c] = s] /\ buffer' \in [Conn -> Seq(Request)]
      /\ \A d \in Conn : Range(buffer'[d]) \subseteq Range(buffer[d])
  BY <1>1, <1>3, <1>4, <1>5 DEF s
<1>7. UNCHANGED <<connected, asked, commands, replies, redis, answers>> /\ Done' = Done
  BY DEF Done
<1>8. Quiet
  <2>1. \A r \in Request : Waits(r)' => Waits(r)
    BY <1>6, <1>7 DEF Waits
  <2> QED BY <1>7, <2>1 DEF Quiet
<1>9. HeadInv' /\ header_' \in [Conn -> 0..MaxAsk]
  <2>1. \A r \in Request : Known(r)' => Known(r)
    BY <1>8 DEF Quiet, Known
  <2>2. CASE Parsed(c)
    BY <1>1, <1>7, <2>1, <2>2, HeadParsed
  <2>3. CASE header_' = header_
    BY <1>1, <1>7, <2>1, <2>3 DEF HeadInv, Headed, Heads, Marked, TypeOK
  <2> QED BY <2>2, <2>3
<1>10. TypeOK'
  <2>1. state_' \in [Conn -> {"head", "data", "spoiled", "lost"}]
    BY <1>1 DEF TypeOK, Goes
  <2>2. refusals' \subseteq Request
    BY <1>1, <1>2 DEF TypeOK
  <2> QED BY <1>1, <1>6, <1>7, <1>9, <2>1, <2>2 DEF TypeOK, redis
<1>11. Stamped' /\ Past' /\ TruthInv'
  BY <1>1, <1>7, <1>8, <1>10, QuietKeeps DEF TruthInv, Copied
<1>12. Whose'
  BY <1>1, <1>6, <1>8, <1>10, QuietKeeps DEF OrderInv, Whose
<1>13. Queued'
  <2>1. SUFFICES ASSUME NEW d \in Conn, NEW i \in DOMAIN buffer'[d], NEW j \in DOMAIN buffer'[d], i < j
                 PROVE  buffer'[d][i].stamp < buffer'[d][j].stamp
    BY DEF Queued
  <2>2. CASE d # c
    BY <1>1, <1>6, <2>1, <2>2 DEF OrderInv, Queued
  <2>3. CASE d = c
    <3>1. buffer'[d] = s
      BY <1>1, <1>6, <2>3
    <3>2. i + k \in DOMAIN buffer[c] /\ buffer'[d][i] = buffer[c][i + k] /\ i \in Int
      BY <1>4, <3>1
    <3>3. j + k \in DOMAIN buffer[c] /\ buffer'[d][j] = buffer[c][j + k] /\ j \in Int
      BY <1>4, <3>1
    <3>4. i + k < j + k
      BY <1>3, <2>1, <3>2, <3>3
    <3>5. buffer[c][i + k].stamp < buffer[c][j + k].stamp
      BY <1>1, <3>2, <3>3, <3>4 DEF OrderInv, Queued
    <3> QED BY <3>2, <3>3, <3>5
  <2> QED BY <2>2, <2>3
<1>14. Sent' /\ Behind'
  BY <1>1, <1>6, <1>7 DEF OrderInv, Sent, Behind
<1> QED BY <1>9, <1>10, <1>11, <1>12, <1>13, <1>14 DEF IInv, OrderInv

LEMMA AskKeeps ==
    ASSUME IInv, NEW c \in Conn, NEW type \in {"SIGN_UP", "INFO", "LOGIN"}, NEW n \in Name,
           Ask(c, type, n)
    PROVE  IInv'
<1> DEFINE q == [type |-> type, name |-> n, stamp |-> asked + 1, conn |-> c]
<1>1. /\ TypeOK /\ OrderInv /\ HeadInv /\ TruthInv /\ buffer \in [Conn -> Seq(Request)]
      /\ asked \in Nat /\ asked' = asked + 1 /\ asked + 1 \in 1..MaxAsk /\ MaxAsk \in Nat
      /\ UNCHANGED <<connected, parsers, commands, replies, redis, answers, refusals>>
  BY DatabaseAssumption DEF IInv, TypeOK, Ask
<1>2. q \in Request /\ q.stamp = asked + 1 /\ q.conn = c
  BY <1>1 DEF Request
<1>3. buffer' = [buffer EXCEPT ![c] = Append(buffer[c], q)]
  BY DEF Ask
<1>4. /\ Append(buffer[c], q) \in Seq(Request)
      /\ Range(Append(buffer[c], q)) = Range(buffer[c]) \cup {q}
      /\ \A i \in DOMAIN Append(buffer[c], q) :
             \/ i \in DOMAIN buffer[c] /\ Append(buffer[c], q)[i] = buffer[c][i]
             \/ Append(buffer[c], q)[i] = q /\ \A j \in DOMAIN buffer[c] : j < i
  BY <1>1, <1>2, AppendFacts
<1>5. \A d \in Conn : Range(buffer'[d]) = Range(buffer[d]) \cup (IF d = c THEN {q} ELSE {})
  BY <1>1, <1>3, <1>4
<1>6. TypeOK'
  BY <1>1, <1>3, <1>4 DEF TypeOK, redis, parsers
<1>7. /\ Done' = Done
      /\ \A r : Waits(r)' <=> Waits(r) \/ r = q
      /\ \A r : Known(r)' <=> Known(r) \/ r = q
  BY <1>1, <1>5 DEF Done, Waits, Known
<1>8. /\ \A r \in Request : Known(r) => r.stamp <= asked /\ r.stamp \in Nat
      /\ \A r \in Request : Waits(r) => r.stamp <= asked /\ r.stamp \in Nat
      /\ \A x \in Done : x.request.stamp <= asked /\ x.request.stamp \in Nat
      /\ \A d \in Conn : \A r \in Range(buffer[d]) : r \in Request /\ Waits(r)
      /\ \A r \in Range(commands) : r \in Request /\ Waits(r)
  BY <1>1, Types DEF OrderInv, Stamped, Request, Waits
<1>9. Stamped'
  BY <1>1, <1>2, <1>7, <1>8 DEF Stamped
<1>10. Whose'
  <2>1. \A d \in Conn : \A r \in Range(buffer'[d]) : r.conn = d
    BY <1>1, <1>2, <1>5 DEF OrderInv, Whose
  <2>2. \A r, s \in Request : Known(r)' /\ Known(s)' /\ r.stamp = s.stamp => r.conn = s.conn
    BY <1>1, <1>2, <1>7, <1>8 DEF OrderInv, Whose
  <2> QED BY <2>1, <2>2 DEF Whose
<1>11. Queued'
  <2>1. SUFFICES ASSUME NEW d \in Conn, NEW i \in DOMAIN buffer'[d], NEW j \in DOMAIN buffer'[d], i < j
                 PROVE  buffer'[d][i].stamp < buffer'[d][j].stamp
    BY DEF Queued
  <2>2. CASE d # c
    BY <1>1, <1>3, <2>1, <2>2 DEF OrderInv, Queued
  <2>3. CASE d = c
    <3>1. buffer'[d] = Append(buffer[c], q) /\ DOMAIN buffer'[d] \subseteq Int
      BY <1>1, <1>3, <2>3, <1>4
    <3>2. i \in DOMAIN buffer[c] /\ buffer'[d][i] = buffer[c][i]
      <4>1. CASE j \in DOMAIN buffer[c]
        BY <1>4, <2>1, <3>1, <4>1
      <4>2. CASE j \notin DOMAIN buffer[c]
        <5>1. /\ DOMAIN buffer'[d] = 1..(Len(buffer[c]) + 1) /\ DOMAIN buffer[c] = 1..Len(buffer[c])
              /\ Len(buffer[c]) \in Nat
          BY <1>1, <1>2, <3>1
        <5>2. i \in DOMAIN buffer[c]
          BY <2>1, <4>2, <5>1
        <5>3. ~ \A k \in DOMAIN buffer[c] : k < i
          BY <5>1, <5>2
        <5> QED BY <1>4, <2>1, <3>1, <5>2, <5>3
      <4> QED BY <4>1, <4>2
    <3>3. CASE j \in DOMAIN buffer[c] /\ buffer'[d][j] = buffer[c][j]
      BY <1>1, <2>1, <3>2, <3>3 DEF OrderInv, Queued
    <3>4. CASE buffer'[d][j] = q
      <4>1. buffer[c][i] \in Range(buffer[c])
        BY <3>2 DEF Range
      <4> QED BY <1>1, <1>2, <1>8, <3>2, <3>4, <4>1
    <3> QED BY <1>4, <2>1, <3>1, <3>3, <3>4
  <2> QED BY <2>2, <2>3
<1>12. Sent'
  BY <1>1 DEF OrderInv, Sent
<1>17. HeadInv'
  <2>1. Headed'
    BY <1>1 DEF HeadInv, Headed, parsers
  <2>2. Heads'
    <3>1. header_ \in [Conn -> 0..MaxAsk] /\ header_' = header_
      BY <1>1 DEF TypeOK, parsers
    <3>2. \A d \in Conn : header_[d] \in Nat /\ header_[d] <= asked
      BY <1>1, <3>1 DEF HeadInv, Heads
    <3> QED BY <1>1, <1>2, <1>7, <3>1, <3>2 DEF HeadInv, Heads
  <2>3. Marked'
    <3>1. \A a \in answers : a.stamp \in Nat /\ a.stamp <= asked
      BY <1>1 DEF TypeOK, Answer, HeadInv, Marked
    <3> QED BY <1>1, <1>2, <1>7, <3>1 DEF HeadInv, Marked
  <2> QED BY <2>1, <2>2, <2>3 DEF HeadInv
<1>13. Behind'
  BY <1>1, <1>2, <1>5, <1>8 DEF OrderInv, Behind
<1>14. Past'
  BY <1>1, <1>2, <1>7, <1>8 DEF OrderInv, Past
<1>15. Budget'
  <2>1. Unused' \in SUBSET Unused
    <3>1. SUFFICES ASSUME NEW k \in Unused' PROVE k \in Unused
      OBVIOUS
    <3>2. k \in 1..MaxAsk /\ (k > asked + 1 \/ \E r \in Request : (Waits(r) \/ r = q) /\ r.stamp = k)
      BY <1>1, <1>7, <3>1 DEF Unused
    <3> QED BY <1>1, <1>2, <3>2 DEF Unused
  <2> HIDE DEF Unused
  <2>2. IsFiniteSet(Unused) /\ Cardinality(Unused) \in Nat /\ Cardinality(Unused') \in Nat
    BY <1>1, <2>1, UnusedFinite, FS_Subset, FS_CardinalityType
  <2>3. Cardinality(Unused') <= Cardinality(Unused)
    BY <2>1, <2>2, FS_Subset
  <2> QED BY <1>1, <2>2, <2>3, Types DEF TruthInv, Budget, redis
<1>16. TruthInv'
  BY <1>1, <1>7, <1>15
     DEF TruthInv, Fresh, Owned, Unique, Signed, Later, SignedUp, Copied, redis
<1> QED BY <1>6, <1>9, <1>10, <1>11, <1>12, <1>13, <1>14, <1>16, <1>17 DEF IInv, OrderInv

LEMMA ReplyKeeps ==
    ASSUME IInv, Reply
    PROVE  IInv'
<1> DEFINE r == Head(replies)
           a == [request |-> r.request, stamp |-> Header(r), uid |-> r.uid]
<1>1. /\ TypeOK /\ OrderInv /\ HeadInv /\ TruthInv /\ replies # <<>>
      /\ replies \in Seq([request : Request, uid : Uid \cup {None}])
      /\ UNCHANGED <<connected, asked, buffer, header_, commands, redis, refusals>>
      /\ replies' = Tail(replies)
      /\ answers' = answers \/ answers' = answers \cup {a}
      /\ asked \in Nat /\ MaxAsk \in Nat
  BY DatabaseAssumption DEF IInv, TypeOK, Reply
<1>2. /\ r \in [request : Request, uid : Uid \cup {None}] /\ r \in Range(replies)
      /\ replies' \in Seq([request : Request, uid : Uid \cup {None}])
      /\ Range(replies') \subseteq Range(replies)
  BY <1>1, TailFacts
<1>3. r.request \in Request /\ Known(r.request) /\ r.request.conn \in Conn
  <2>1. [request |-> r.request, uid |-> r.uid] \in Done
    BY <1>2 DEF Done
  <2> QED BY <1>2, <2>1 DEF Known, Request
<1>4. /\ a.stamp \in 1..MaxAsk /\ a.request.stamp <= a.stamp /\ a.stamp <= asked
      /\ \A q \in Request : Known(q) /\ q.stamp = a.stamp => q.conn = a.request.conn
  <2>0. r.request.stamp \in 1..MaxAsk
    BY <1>3 DEF Request
  <2>1. CASE a.stamp = r.request.stamp
    BY <1>1, <1>3, <2>0, <2>1 DEF OrderInv, Stamped, Whose
  <2>2. CASE a.stamp = header_[r.request.conn]
    <3>1. header_[r.request.conn] \in 0..MaxAsk /\ r.request.stamp <= header_[r.request.conn]
      BY <1>1, <1>2, <1>3 DEF TypeOK, HeadInv, Headed
    <3> QED BY <1>1, <1>3, <2>0, <2>2, <3>1 DEF HeadInv, Heads
  <2> QED BY <2>1, <2>2 DEF Header
<1>5. TypeOK'
  <2>1. a \in Answer
    BY <1>2, <1>4 DEF Answer
  <2>2. state_' \in [Conn -> {"head", "data", "spoiled", "lost"}]
    BY <1>1, <1>3 DEF Reply, Overwrites, Goes, TypeOK
  <2> QED BY <1>1, <1>2, <2>1, <2>2 DEF TypeOK, redis
<1>6. Done' \subseteq Done
  BY <1>1, <1>2 DEF Done
<1>7. /\ \A q : Waits(q)' <=> Waits(q)
      /\ \A q : Known(q)' => Known(q)
  BY <1>1, <1>6 DEF Waits, Known
<1>8. Quiet
  BY <1>1, <1>6, <1>7 DEF Quiet
<1>9. Copied'
  <2>1. a.request.type = "SIGN_UP" => a.stamp = a.request.stamp
    BY DEF Header, Found
  <2> QED BY <1>1, <2>1 DEF TruthInv, Copied
<1>10. Stamped' /\ Past' /\ TruthInv'
  BY <1>5, <1>8, <1>9, QuietKeeps DEF TruthInv
<1>11. Whose' /\ Queued' /\ Sent' /\ Behind'
  BY <1>1, <1>7 DEF OrderInv, Whose, Queued, Sent, Behind
<1>12. HeadInv'
  <2>1. Headed' /\ Heads'
    BY <1>1, <1>2, <1>7 DEF HeadInv, Headed, Heads
  <2>2. Marked'
    BY <1>1, <1>4, <1>7 DEF HeadInv, Marked
  <2> QED BY <2>1, <2>2 DEF HeadInv
<1> QED BY <1>5, <1>10, <1>11, <1>12 DEF IInv, OrderInv

\* The first command is executed, with u as its result.
Executed(u) ==
    /\ commands # <<>>
    /\ commands' = Tail(commands)
    /\ replies' = Append(replies, [request |-> Head(commands), uid |-> u])
    /\ UNCHANGED <<connected, asked, buffer, parsers, answers, refusals>>

LEMMA ExecutedKeeps ==
    ASSUME IInv, NEW u \in Uid \cup {None}, Executed(u)
    PROVE  /\ Head(commands) \in Request /\ Waits(Head(commands))
           /\ commands' \in Seq(Request)
           /\ replies' \in Seq([request : Request, uid : Uid \cup {None}])
           /\ \A x \in Done' : x \in Done \/ x = [request |-> Head(commands), uid |-> u]
           /\ OrderInv' /\ HeadInv'
           /\ Cardinality(Unused') + 1 <= Cardinality(Unused)
           /\ Cardinality(Unused') \in Nat /\ Cardinality(Unused) \in Nat
<1> DEFINE h == Head(commands)
           e == [request |-> h, uid |-> u]
<1>1. /\ TypeOK /\ OrderInv /\ HeadInv /\ TruthInv /\ commands # <<>> /\ commands \in Seq(Request)
      /\ replies \in Seq([request : Request, uid : Uid \cup {None}])
      /\ commands' = Tail(commands) /\ replies' = Append(replies, e)
      /\ UNCHANGED <<connected, asked, buffer, parsers, answers, refusals>>
      /\ asked \in Nat /\ MaxAsk \in Nat
  BY DatabaseAssumption DEF IInv, TypeOK, Executed
<1>2. /\ h \in Request /\ h \in Range(commands) /\ h = commands[1] /\ 1 \in DOMAIN commands
      /\ commands' \in Seq(Request)
      /\ \A i \in DOMAIN commands' : i \in Int /\ 1 < i + 1
      /\ \A i \in DOMAIN commands' : i + 1 \in DOMAIN commands /\ commands'[i] = commands[i + 1]
      /\ Range(commands') \subseteq Range(commands)
  BY <1>1, TailFacts
<1>3. Waits(h) /\ Known(h) /\ h.stamp \in 1..MaxAsk /\ h.stamp <= asked /\ h.conn \in Conn
  BY <1>1, <1>2 DEF Waits, Known, OrderInv, Stamped, Request
<1>4. /\ e \in [request : Request, uid : Uid \cup {None}]
      /\ replies' \in Seq([request : Request, uid : Uid \cup {None}])
      /\ Range(replies') = Range(replies) \cup {e}
  <2> DEFINE R == [request : Request, uid : Uid \cup {None}]
  <2>1. e \in R
    BY <1>2
  <2>2. replies \in Seq(R) /\ replies' = Append(replies, e)
    BY <1>1
  <2> HIDE DEF R, e
  <2>3. replies' \in Seq(R) /\ Range(replies') = Range(replies) \cup {e}
    BY <2>1, <2>2, AppendFacts
  <2> QED BY <2>1, <2>3 DEF R
<1>5. \A x \in Done' : x \in Done \/ x = e
  <2>1. SUFFICES ASSUME NEW r \in Range(replies') \cup answers'
                 PROVE  \/ [request |-> r.request, uid |-> r.uid] \in Done
                        \/ r.request = h /\ r.uid = u
    BY DEF Done
  <2>2. CASE r = e
    BY <2>2
  <2>3. CASE r \in Range(replies) \cup answers
    BY <2>3 DEF Done
  <2> QED BY <1>1, <1>4, <2>1, <2>2, <2>3
<1>6. /\ \A q : Waits(q)' => Waits(q)
      /\ \A q : Known(q)' => Known(q)
  <2>1. \A q : Waits(q)' => Waits(q)
    BY <1>1, <1>2 DEF Waits
  <2> QED BY <1>3, <1>5, <2>1 DEF Known
<1>7. \A q \in Request : Waits(q)' /\ q.conn = h.conn => h.stamp < q.stamp
  <2>1. SUFFICES ASSUME NEW q \in Request, Waits(q)', q.conn = h.conn
                 PROVE  h.stamp < q.stamp
    OBVIOUS
  <2>2. ASSUME NEW c \in Conn, q \in Range(buffer[c]) PROVE h.stamp < q.stamp
    <3>1. q.conn = c
      BY <1>1, <2>2 DEF OrderInv, Whose
    <3> QED BY <1>1, <1>2, <2>1, <2>2, <3>1 DEF OrderInv, Behind
  <2>3. ASSUME q \in Range(commands') PROVE h.stamp < q.stamp
    <3>1. PICK i \in DOMAIN commands' : q = commands'[i]
      BY <2>3 DEF Range
    <3>2. q = commands[i + 1] /\ i + 1 \in DOMAIN commands /\ 1 < i + 1
      BY <1>2, <3>1
    <3> QED BY <1>1, <1>2, <2>1, <3>2 DEF OrderInv, Sent
  <2> QED BY <1>1, <2>1, <2>2, <2>3 DEF Waits
<1>8. Stamped'
  BY <1>1, <1>6 DEF OrderInv, Stamped
<1>9. Whose' /\ Queued'
  BY <1>1, <1>6 DEF OrderInv, Whose, Queued
<1>10. Sent'
  <2>1. SUFFICES ASSUME NEW i \in DOMAIN commands', NEW j \in DOMAIN commands', i < j,
                        commands'[i].conn = commands'[j].conn
                 PROVE  commands'[i].stamp < commands'[j].stamp
    BY DEF Sent
  <2>2. i \in Int /\ i + 1 \in DOMAIN commands /\ commands'[i] = commands[i + 1]
    BY <1>2
  <2>3. j \in Int /\ j + 1 \in DOMAIN commands /\ commands'[j] = commands[j + 1]
    BY <1>2
  <2>4. i + 1 < j + 1
    BY <2>1, <2>2, <2>3
  <2>5. commands[i + 1].stamp < commands[j + 1].stamp
    BY <1>1, <2>1, <2>2, <2>3, <2>4 DEF OrderInv, Sent
  <2> QED BY <2>2, <2>3, <2>5
<1>11. Behind'
  BY <1>1, <1>2 DEF OrderInv, Behind
<1>12. Past'
  <2>1. \A x \in Done : \A q \in Request :
            Waits(q)' /\ q.conn = x.request.conn => x.request.stamp < q.stamp
    BY <1>1, <1>6 DEF OrderInv, Past
  <2>2. \A q \in Request : Waits(q)' /\ q.conn = e.request.conn => e.request.stamp < q.stamp
    BY <1>7
  <2> QED BY <1>5, <2>1, <2>2 DEF Past
<1>13. HeadInv'
  <2>1. h.stamp <= header_[h.conn]
    BY <1>1, <1>2 DEF HeadInv, Headed
  <2>2. Headed'
    BY <1>1, <1>2, <1>4, <2>1 DEF HeadInv, Headed, parsers
  <2>3. Heads' /\ Marked'
    BY <1>1, <1>6 DEF HeadInv, Heads, Marked, parsers
  <2> QED BY <2>2, <2>3 DEF HeadInv
<1>14. Unused' \in SUBSET (Unused \ {h.stamp}) /\ h.stamp \in Unused
  <2>1. h.stamp \in Unused
    BY <1>2, <1>3 DEF Unused
  <2>2. ASSUME NEW k \in Unused' PROVE k \in Unused
    BY <1>1, <1>6, <2>2 DEF Unused
  <2>3. ASSUME h.stamp \in Unused' PROVE FALSE
    <3>1. PICK q \in Request : Waits(q)' /\ q.stamp = h.stamp
      BY <1>1, <1>3, <2>3 DEF Unused
    <3>2. Known(q) /\ Known(h) /\ q \in Request /\ h \in Request /\ q.stamp = h.stamp
      BY <1>2, <1>3, <1>6, <3>1 DEF Known
    <3>3. q.conn = h.conn
      BY <1>1, <3>2 DEF OrderInv, Whose
    <3> QED BY <1>3, <1>7, <3>1, <3>3
  <2> QED BY <2>1, <2>2, <2>3
<1>15. /\ Cardinality(Unused') + 1 <= Cardinality(Unused)
       /\ Cardinality(Unused') \in Nat /\ Cardinality(Unused) \in Nat
  <2> HIDE DEF Unused
  <2>1. IsFiniteSet(Unused) /\ Cardinality(Unused) \in Nat
    BY <1>1, UnusedFinite
  <2>2. /\ IsFiniteSet(Unused \ {h.stamp})
        /\ Cardinality(Unused \ {h.stamp}) = Cardinality(Unused) - 1
    BY <1>14, <2>1, FS_RemoveElement
  <2>3. IsFiniteSet(Unused') /\ Cardinality(Unused') <= Cardinality(Unused \ {h.stamp})
    BY <1>14, <2>2, FS_Subset
  <2>4. Cardinality(Unused') \in Nat
    BY <2>3, FS_CardinalityType
  <2> QED BY <2>1, <2>2, <2>3, <2>4
<1> QED BY <1>2, <1>3, <1>4, <1>5, <1>8, <1>9, <1>10, <1>11, <1>12, <1>13, <1>15 DEF OrderInv

\* What the new result must satisfy for the invariant to be kept
LEMMA ResultKeeps ==
    ASSUME IInv, NEW u \in Uid \cup {None}, Executed(u),
           UID' \in Nat, UID' <= UID + 1, Fresh', Owned',
           \A n \in Name : uid[n] # None => uid'[n] # None,
           Head(commands).type = "SIGN_UP" => uid'[Head(commands).name] # None,
           Head(commands).type = "SIGN_UP" /\ u # None => uid[Head(commands).name] = None,
           Head(commands).type = "INFO" => u = uid[Head(commands).name]
    PROVE  TruthInv'
<1> DEFINE h == Head(commands)
           e == [request |-> h, uid |-> u]
<1>1. /\ h \in Request /\ Waits(h) /\ \A x \in Done' : x \in Done \/ x = e
      /\ Cardinality(Unused') + 1 <= Cardinality(Unused)
      /\ Cardinality(Unused') \in Nat /\ Cardinality(Unused) \in Nat
      /\ TypeOK /\ OrderInv /\ TruthInv /\ UID \in Nat /\ MaxAsk \in Nat
  BY ExecutedKeeps, Types DEF IInv
<1>2. \A x \in Done : x.request \in Request /\ x.request.name \in Name /\ x.request.stamp \in Nat
  BY <1>1, Types DEF Request
<1>3. Budget'
  BY <1>1 DEF TruthInv, Budget
<1>4. Unique'
  <2>1. \A x \in Done : SignedUp(x) /\ SignedUp(e) => x.request.name # h.name
    BY <1>1, <1>2 DEF TruthInv, Signed, SignedUp
  <2> QED BY <1>1, <2>1 DEF TruthInv, Unique, SignedUp
<1>5. Signed'
  BY <1>1, <1>2 DEF TruthInv, Signed
<1>6. Later'
  <2>1. SUFFICES ASSUME NEW x \in Done', NEW y \in Done',
                        x.request.type = "SIGN_UP", y.request.type = "INFO", y.uid = None,
                        x.request.name = y.request.name, x.request.conn = y.request.conn
                 PROVE  y.request.stamp < x.request.stamp
    BY DEF Later
  <2>2. CASE x \in Done /\ y \in Done
    BY <1>1, <2>1, <2>2 DEF TruthInv, Later
  <2>3. CASE x = e /\ y \in Done
    BY <1>1, <2>1, <2>3 DEF OrderInv, Past
  <2>4. CASE x \in Done /\ y = e
    BY <1>1, <2>1, <2>4 DEF TruthInv, Signed
  <2>5. CASE x = e /\ y = e
    BY <2>1, <2>5
  <2> QED BY <1>1, <2>1, <2>2, <2>3, <2>4, <2>5
<1>7. Copied'
  BY <1>1 DEF TruthInv, Copied, Executed
<1> QED BY <1>3, <1>4, <1>5, <1>6, <1>7 DEF TruthInv

LEMMA ExecuteKeeps ==
    ASSUME IInv, Execute
    PROVE  IInv'
<1> DEFINE h == Head(commands)
<1>1. /\ TypeOK /\ OrderInv /\ TruthInv /\ commands # <<>> /\ commands \in Seq(Request)
      /\ UID \in Nat /\ MaxAsk \in Nat /\ uid \in [Name -> Uid \cup {None}]
      /\ player \in [Uid -> Name \cup {None}]
  BY Types DEF IInv, TypeOK, Execute
<1>2. h \in Request /\ h.name \in Name /\ h \in Range(commands) /\ Waits(h)
  BY <1>1, TailFacts DEF Request, Waits
<1>3. \A x \in Done : x.request \in Request /\ x.request.name \in Name
  BY <1>1, Types DEF Request
<1>4. CASE UNCHANGED redis
  <2>1. PICK u \in Uid \cup {None} :
          /\ Executed(u)
          /\ h.type = "SIGN_UP" => u = None /\ uid[h.name] # None
          /\ h.type = "INFO" => u = uid[h.name]
    <3>1. CASE h.type = "SIGN_UP"
      <4>1. Executed(None) /\ uid[h.name] # None
        <5>1. CASE Taken(h.name) /\ NotReplied(h)
          BY <5>1 DEF Execute, Executed, NotReplied, Taken
        <5>2. CASE ~ Taken(h.name)
          BY <1>1, <1>2, <1>4, <3>1, <5>2
             DEF Execute, SignUpCommand, InfoCommand, NewUid, redis
        <5> QED BY <3>1, <5>1, <5>2 DEF Execute, SignUpCommand, InfoCommand
      <4> QED BY <3>1, <4>1
    <3>2. CASE h.type = "INFO"
      <4>1. uid[h.name] \in Uid \cup {None} /\ Executed(uid[h.name])
        BY <1>1, <1>2, <1>4, <3>2 DEF Execute, SignUpCommand, InfoCommand, Replied, Executed, redis
      <4> QED BY <3>2, <4>1
    <3> QED BY <3>1, <3>2 DEF Execute, SignUpCommand, InfoCommand
  <2>2. Fresh' /\ Owned'
    <3>1. \A x \in Done' : SignedUp(x) => x \in Done
      BY <1>2, <2>1, ExecutedKeeps DEF SignedUp, Execute, SignUpCommand, InfoCommand
    <3> QED BY <1>1, <1>4, <3>1 DEF TruthInv, Fresh, Owned, SignedUp, redis
  <2>3. TruthInv'
    BY <1>1, <1>4, <2>1, <2>2, ResultKeeps DEF redis
  <2>4. OrderInv' /\ HeadInv'
    BY <2>1, ExecutedKeeps
  <2>5. TypeOK'
    BY <1>1, <1>4, <2>1, ExecutedKeeps DEF TypeOK, Executed, redis, parsers
  <2> QED BY <2>3, <2>4, <2>5 DEF IInv
<1>5. CASE h.type = "SIGN_UP" /\ ~ Taken(h.name)
  <2>1. /\ UID' = UID + 1 /\ uid' = [uid EXCEPT ![h.name] = UID + 1]
        /\ player' = [player EXCEPT ![UID + 1] = h.name]
        /\ uid[h.name] = None
        /\ Replied(h)
    BY <1>5 DEF Execute, SignUpCommand, InfoCommand, NewUid, Taken
  <2>2. uid'[h.name] = UID + 1 /\ \A n \in Name : n # h.name => uid'[n] = uid[n]
    BY <1>1, <1>2, <2>1
  <2>3. UID + 1 \in Uid
    <3>1. h.stamp \in Unused
      BY <1>1, <1>2 DEF Unused, Request
    <3>2. IsFiniteSet(Unused) /\ Cardinality(Unused) \in Nat
      BY <1>1, UnusedFinite
    <3>3. Cardinality(Unused) # 0
      <4> HIDE DEF Unused
      <4> QED BY <3>1, <3>2, FS_EmptySet
    <3> QED BY <1>1, <3>2, <3>3 DEF TruthInv, Budget, Uid
  <2>4. Executed(UID + 1)
    BY <2>1, <2>2 DEF Execute, Replied, Executed
  <2>5. UID + 1 # None
    BY <1>1, DatabaseAssumption
  <2>6. Fresh'
    <3>1. \A n \in Name : uid[n] \in Uid \cup {None}
      BY <1>1
    <3> QED BY <1>1, <2>1, <2>2, <3>1, DatabaseAssumption DEF TruthInv, Fresh, Uid
  <2>7. Owned'
    <3>1. SUFFICES ASSUME NEW x \in Done', SignedUp(x)
                   PROVE  uid'[x.request.name] = x.uid /\ player'[x.uid] = x.request.name
      BY DEF Owned, SignedUp
    <3>2. CASE x \in Done
      <4>1. /\ uid[x.request.name] = x.uid /\ player[x.uid] = x.request.name /\ x.uid # None
            /\ x.request.name \in Name
        BY <1>1, <1>3, <3>1, <3>2 DEF TruthInv, Owned, SignedUp
      <4>2. x.request.name # h.name /\ x.uid \in Uid /\ x.uid <= UID
        BY <1>1, <2>1, <4>1 DEF TruthInv, Fresh
      <4>3. x.uid # UID + 1
        BY <1>1, <4>2 DEF Uid
      <4> QED BY <1>1, <2>1, <2>2, <4>1, <4>2, <4>3
    <3>3. CASE x = [request |-> h, uid |-> UID + 1]
      BY <1>1, <2>1, <2>2, <2>3, <3>3
    <3> QED BY <2>3, <2>4, <3>1, <3>2, <3>3, ExecutedKeeps
  <2>8. \A n \in Name : uid[n] # None => uid'[n] # None
    BY <2>2, <2>5
  <2>9. TruthInv'
    BY <1>1, <1>5, <2>1, <2>2, <2>3, <2>4, <2>5, <2>6, <2>7, <2>8, ResultKeeps
  <2>10. OrderInv' /\ HeadInv'
    BY <2>3, <2>4, ExecutedKeeps
  <2>11. TypeOK'
    <3>1. UID + 1 \in 0..MaxAsk
      BY <1>1, <2>3 DEF Uid
    <3>2. uid' \in [Name -> Uid \cup {None}] /\ player' \in [Uid -> Name \cup {None}]
      BY <1>1, <1>2, <2>1, <2>3
    <3>3. /\ commands' \in Seq(Request)
          /\ replies' \in Seq([request : Request, uid : Uid \cup {None}])
      BY <2>3, <2>4, ExecutedKeeps
    <3> QED BY <1>1, <2>1, <2>4, <3>1, <3>2, <3>3 DEF TypeOK, Executed, parsers
  <2> QED BY <2>9, <2>10, <2>11 DEF IInv
<1> QED BY <1>4, <1>5 DEF Execute, SignUpCommand, InfoCommand

LEMMA Inductive == Spec => []IInv
<1>1. Init => IInv
  <2> SUFFICES ASSUME Init PROVE IInv
    OBVIOUS
  <2> USE DEF Init
  <2>2. TypeOK
    BY DatabaseAssumption DEF TypeOK
  <2>3. (\A q : ~ Waits(q)) /\ Done = {} /\ commands = <<>> /\ Range(commands) = {}
        /\ (\A c \in Conn : buffer[c] = <<>> /\ Range(buffer[c]) = {}) /\ Range(replies) = {}
    BY EmptyRange DEF Waits, Done
  <2>4. OrderInv /\ HeadInv
    <3>1. \A q : ~ Known(q)
      BY <2>3 DEF Known
    <3> QED BY <2>3, <3>1
            DEF OrderInv, Stamped, Whose, Queued, Sent, Behind, Past, HeadInv, Headed, Heads, Marked
  <2>5. Budget
    <3>1. Unused = 1..MaxAsk
      BY DatabaseAssumption DEF Unused
    <3>2. Cardinality(1..MaxAsk) = MaxAsk
      BY FS_Interval, DatabaseAssumption
    <3> QED BY <3>1, <3>2, DatabaseAssumption DEF Budget
  <2>6. TruthInv
    BY <2>3, <2>5 DEF TruthInv, Fresh, Owned, Unique, Signed, Later, Copied
  <2> QED BY <2>2, <2>4, <2>6 DEF IInv
<1>2. IInv /\ [Next]_vars => IInv'
  <2>1. SUFFICES ASSUME IInv, [Next]_vars PROVE IInv'
    OBVIOUS
  <2>2. ASSUME NEW c \in Conn, NEW type \in {"SIGN_UP", "INFO", "LOGIN"}, NEW n \in Name,
               Ask(c, type, n)
        PROVE  IInv'
    BY <2>1, <2>2, AskKeeps
  <2>3. ASSUME NEW c \in Conn, Parse(c) PROVE IInv'
    BY <2>1, <2>3, ParseKeeps
  <2>4. ASSUME NEW c \in Conn, ParseHead(c) \/ ParseBadHead(c) \/ Misread(c) PROVE IInv'
    <3>1. Drops(c)
      BY <2>4 DEF ParseHead, ParseBadHead, Misread, Drops, Ready
    <3> QED BY <2>1, <3>1, DropsKeeps
  <2>5. ASSUME UNCHANGED <<asked, buffer, parsers, commands, replies, redis, answers, refusals>>,
               connected' \subseteq connected
        PROVE  IInv'
    <3>1. TypeOK'
      BY <2>1, <2>5 DEF IInv, TypeOK, redis, parsers
    <3>2. Done' = Done /\ \A q : (Waits(q)' <=> Waits(q)) /\ (Known(q)' <=> Known(q))
      BY <2>5 DEF Done, Waits, Known
    <3>3. Quiet
      BY <2>5, <3>2 DEF Quiet
    <3>4. Stamped' /\ Past' /\ TruthInv'
      BY <2>1, <2>5, <3>1, <3>3, QuietKeeps DEF IInv, TruthInv, Copied
    <3>5. Whose' /\ Queued' /\ Sent' /\ Behind'
      BY <2>1, <2>5, <3>2 DEF IInv, OrderInv, Whose, Queued, Sent, Behind
    <3>6. HeadInv'
      BY <2>1, <2>5, <3>2 DEF IInv, HeadInv, Headed, Heads, Marked, parsers
    <3> QED BY <3>1, <3>4, <3>5, <3>6 DEF IInv, OrderInv
  <2>6. ASSUME NEW c \in Conn, Disconnect(c) PROVE IInv'
    BY <2>5, <2>6 DEF Disconnect
  <2>7. CASE UNCHANGED vars
    BY <2>5, <2>7 DEF vars
  <2> QED BY <2>1, <2>2, <2>3, <2>4, <2>6, <2>7, ExecuteKeeps, ReplyKeeps DEF Next
<1> QED BY <1>1, <1>2, PTL DEF Spec

-----------------------------------------------------------------------------
(* What follows *)

\* Every variable keeps its type; above all the counter of uids never passes
\* the number of requests (Parser.cc 23-30).
THEOREM TypeCorrect == Spec => []TypeOK
<1>1. IInv => TypeOK
  BY DEF IInv
<1> QED BY <1>1, Inductive, PTL

\* What a callback answers has the stamp of the request or of a later one of
\* the same connection, though parseInfo answers with header_, which the
\* Parser overwrites while Redis works (Parser.cc 71-109, 111-136).
THEOREM HeadersLater == Spec => []LaterHeader
<1>1. IInv => LaterHeader
  <2>1. SUFFICES ASSUME IInv, NEW a \in answers
                 PROVE  /\ a.request.stamp <= a.stamp
                        /\ \A b \in answers :
                               b.request.stamp = a.stamp => b.request.conn = a.request.conn
    BY DEF LaterHeader
  <2>2. \A b \in answers : b.request \in Request /\ Known(b.request)
    <3>1. SUFFICES ASSUME NEW b \in answers PROVE b.request \in Request /\ Known(b.request)
      OBVIOUS
    <3>2. [request |-> b.request, uid |-> b.uid] \in Done
      BY DEF Done
    <3> QED BY <2>1, <3>2 DEF Known, IInv, TypeOK, Answer
  <2> QED BY <2>1, <2>2 DEF IInv, HeadInv, Marked
<1> QED BY <1>1, Inductive, PTL

\* Who was told of a successful sign-up owns the name and the uid alone,
\* whatever connections sign up at the same time (Parser.cc 23-30, 111-136).
THEOREM NamesOwned == Spec => []Owners
<1>1. IInv => Owners
  <2>1. SUFFICES ASSUME IInv PROVE Owners
    OBVIOUS
  <2>2. \A a \in answers : [request |-> a.request, uid |-> a.uid] \in Done
    BY DEF Done
  <2>3. \A a \in answers : a.request.type = "SIGN_UP" /\ a.uid # None =>
            uid[a.request.name] = a.uid /\ player[a.uid] = a.request.name
    <3>1. SUFFICES ASSUME NEW a \in answers, a.request.type = "SIGN_UP", a.uid # None
                   PROVE  uid[a.request.name] = a.uid /\ player[a.uid] = a.request.name
      OBVIOUS
    <3> DEFINE x == [request |-> a.request, uid |-> a.uid]
    <3>2. x \in Done /\ SignedUp(x)
      BY <2>2, <3>1 DEF SignedUp
    <3> QED BY <2>1, <3>2 DEF IInv, TruthInv, Owned
  <2>4. ASSUME NEW a \in answers, NEW b \in answers,
               a.request.type = "SIGN_UP", a.uid # None,
               b.request.type = "SIGN_UP", b.uid # None,
               a.request.name = b.request.name \/ a.uid = b.uid
        PROVE  a = b
    <3> DEFINE x == [request |-> a.request, uid |-> a.uid]
               y == [request |-> b.request, uid |-> b.uid]
    <3>1. x \in Done /\ y \in Done /\ SignedUp(x) /\ SignedUp(y)
      BY <2>2, <2>4 DEF SignedUp
    <3>2. x.request.name = y.request.name
      BY <2>3, <2>4
    <3>3. x = y
      BY <2>1, <3>1, <3>2 DEF IInv, TruthInv, Unique
    <3>4. a.request = b.request /\ a.uid = b.uid
      BY <3>3
    <3>5. a.stamp = a.request.stamp /\ b.stamp = b.request.stamp
      BY <2>1, <2>4 DEF IInv, TruthInv, Copied
    <3>6. a \in Answer /\ b \in Answer
      BY <2>1 DEF IInv, TypeOK
    <3> QED BY <3>4, <3>5, <3>6 DEF Answer
  <2> QED BY <2>3, <2>4 DEF Owners
<1> QED BY <1>1, Inductive, PTL

\* An INFO asked behind an answered sign-up on its connection finds the name,
\* though scripts and answers of all connections interleave
\* (Parser.cc 71-136).
THEOREM WritesRead == Spec => []ReadsOwnWrites
<1>1. IInv => ReadsOwnWrites
  <2>1. SUFFICES ASSUME IInv, NEW a \in answers, NEW b \in answers,
                        a.request.type = "SIGN_UP", b.request.type = "INFO",
                        a.request.name = b.request.name, a.request.conn = b.request.conn,
                        a.request.stamp < b.request.stamp, b.uid = None
                 PROVE  FALSE
    BY DEF ReadsOwnWrites
  <2> DEFINE x == [request |-> a.request, uid |-> a.uid]
             y == [request |-> b.request, uid |-> b.uid]
  <2>2. x \in Done /\ y \in Done
    BY DEF Done
  <2>3. y.request.stamp < x.request.stamp
    BY <2>1, <2>2 DEF IInv, TruthInv, Later
  <2>4. a.request.stamp \in Int /\ b.request.stamp \in Int
    BY <2>1, <2>2, Types DEF IInv, Request
  <2> QED BY <2>1, <2>3, <2>4
<1> QED BY <1>1, Inductive, PTL

=============================================================================
