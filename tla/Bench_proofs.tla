---------------------------- MODULE Bench_proofs ----------------------------
(***************************************************************************)
(* That what the load generators print was measured, for any number of     *)
(* clients and messages and any window.                                    *)
(***************************************************************************)
EXTENDS Bench, FiniteSetTheorems, WellFoundedInduction, TLAPS

Answers  == {"ok", "bad"}
Messages == {"message", "other"}
Frame    == Answers \cup Messages

\* How many frames of q are in K, whether any is, whether at most one is
Count(q, K) == Cardinality({i \in DOMAIN q : q[i] \in K})
Has(q, K)   == \E i \in DOMAIN q : q[i] \in K
One(q, K)   == \A i, j \in DOMAIN q : q[i] \in K /\ q[j] \in K => i = j

-----------------------------------------------------------------------------
(* The inductive invariant.                                                *)

Shape ==
    /\ program \in Program
    /\ state \in {"runs", "spins", "counted", "broken", "torn"}
    /\ timers \subseteq {"login", "start", "result"}
    /\ client_index \in Nat /\ request_count \in Nat /\ success_login \in Nat /\ bad_login \in Nat
    /\ conn \in [Client -> {"none", "opening", "up"}]
    /\ asked \subseteq Client
    /\ inbox \in [Client -> Seq(Frame)]
    /\ due \in [Client -> Nat] /\ messages \in Nat
    /\ received \in [Client -> Nat] /\ foreign \in [Client -> Nat]
    /\ finish_count \in Nat

\* A client's login is in one place: not made, opening, asked, answered.
Places ==
    \A c \in Client :
        /\ c > client_index => conn[c] = "none"
        /\ conn[c] # "up" => c \notin asked
        /\ conn[c] # "up" \/ c \in asked => ~ Has(inbox[c], Answers)
        /\ One(inbox[c], Answers)

\* The counters agree with the logins under way, and the test has not begun
\* before all of them have succeeded.
LoginInv ==
    IF Many
    THEN /\ client_index <= client_count
         /\ success_login + request_count = client_index
         /\ request_count <= Window
         /\ Places
         /\ Cardinality(Unanswered) = request_count
         /\ "start" \in timers \/ messages > 0 => success_login = client_count
    ELSE messages = 0 /\ \A c \in Client : due[c] = 0

\* Every message that was sent to a client is counted, in its buffer or due,
\* and so is every foreign one.
BroadcastInv ==
    program = "broadcast" =>
        /\ messages \in {0, messageLimit} /\ ("start" \in timers => messages = 0)
        /\ "result" \notin timers
        /\ messages = 0 => \A c \in Client : due[c] = 0
        /\ \A c \in Client :
               received[c] + due[c] + Count(inbox[c], Messages) = messages + foreign[c]
        /\ finish_count = Cardinality({c \in Client : received[c] >= messageLimit})
        /\ state = "counted" => finish_count = client_count

\* What has become of the messages to a client
Load == [c \in Client |-> received[c] + due[c] + Count(inbox[c], {"message"})]

OnlineInv ==
    program = "online" =>
        /\ SumFunction(Load) = messages /\ messages <= messageLimit
        /\ "result" \in timers \/ state = "counted" => messages = messageLimit

\* There is one connection; it has asked for client_index names, and all but
\* the last one are answered.
SignUpInv ==
    program = "signup" =>
        /\ timers = {}
        /\ \A c \in Client :
              IF c # 1 THEN conn[c] = "none" /\ c \notin asked /\ inbox[c] = <<>>
              ELSE /\ conn[c] # "none"
                   /\ conn[c] = "opening" => c \notin asked /\ inbox[c] = <<>> /\ success_login = 0
                   /\ conn[c] = "up" =>
                        /\ client_index \in Client
                        /\ c \in asked => inbox[c] = <<>>
                        /\ c \in asked \/ inbox[c] # <<>> => success_login = client_index - 1
                        /\ Len(inbox[c]) <= 1
        /\ state = "counted" => success_login = client_count /\ asked = {}

NotifiedInv ==
    program = "login" =>
        ("result" \in timers \/ state = "counted" => SumFunction(received) >= Expected)

IInv == Shape /\ LoginInv /\ BroadcastInv /\ OnlineInv /\ SignUpInv /\ NotifiedInv

\* All steps but those in which a frame's rest comes or a torn one is read
Moves == Next /\ \A c \in Client : ~ Rest(c) /\ ~ Torn(c)

-----------------------------------------------------------------------------
(* Sums.                                                                   *)

Pick(T) == CHOOSE x \in T : TRUE

Term(g, f, T) == IF T = {} THEN 0 ELSE f[Pick(T)] + g[T \ {Pick(T)}]

\* g has the sum of f over each subset of S.
SumsUp(g, f, S) == \A T \in SUBSET S : g[T] = Term(g, f, T)

\* The form of induction over the subsets of S that the sums need
LEMMA NoneBad ==
    ASSUME NEW S, IsFiniteSet(S), NEW Bad \in SUBSET SUBSET S, {} \notin Bad,
           \A T \in Bad : T # {} => T \ {Pick(T)} \in Bad
    PROVE  Bad = {}
<1>1. SUFFICES ASSUME Bad # {} PROVE FALSE
  OBVIOUS
<1> DEFINE R == StrictSubsetOrdering(S)
<1>2. IsWellFoundedOn(R, SUBSET S)
  BY FS_StrictSubsetOrderingWellFounded, FS_FiniteSubsetsOfFinite
<1>3. PICK T \in Bad : \A U \in Bad : ~ (<<U, T>> \in R)
  <2> HIDE DEF R
  <2> QED BY <1>1, <1>2, WFMin
<1>4. T # {} /\ Pick(T) \in T
  BY <1>3 DEF Pick
<1>5. T \ {Pick(T)} \in Bad /\ T \in SUBSET S
  BY <1>4
<1>6. <<T \ {Pick(T)}, T>> \in R
  BY <1>4, <1>5 DEF StrictSubsetOrdering
<1> QED BY <1>3, <1>5, <1>6

LEMMA SumSteps ==
    ASSUME NEW f, IsFiniteSet(DOMAIN f)
    PROVE  \E g : SumFunction(f) = g[DOMAIN f] /\ SumsUp(g, f, DOMAIN f)
<1> DEFINE S == DOMAIN f
           Small(n) == {T \in SUBSET S : Cardinality(T) <= n}
           Is(g, n) == g = [T \in Small(n) |-> Term(g, f, T)]
           Bad == {n \in Nat : ~ \E g : Is(g, n)}
           R == {p \in Nat \X Nat : p[1] < p[2]}
<1>1. \A T \in SUBSET S : /\ IsFiniteSet(T) /\ Cardinality(T) \in Nat
                          /\ Cardinality(T) <= Cardinality(S)
  BY FS_Subset, FS_CardinalityType
<1>2. ASSUME NEW T \in SUBSET S, T # {}
      PROVE  /\ Pick(T) \in T /\ T \ {Pick(T)} \in SUBSET S
             /\ Cardinality(T \ {Pick(T)}) = Cardinality(T) - 1
  BY <1>1, <1>2, FS_RemoveElement DEF Pick
<1>3. Bad = {}
  <2>1. SUFFICES ASSUME Bad # {} PROVE FALSE
    OBVIOUS
  <2>2. IsWellFoundedOn(R, Nat)
    BY NatLessThanWellFounded DEF OpToRel
  <2>3. PICK n \in Bad : \A k \in Bad : ~ (<<k, n>> \in R)
    <3>1. Bad \subseteq Nat OBVIOUS
    <3> HIDE DEF R, Bad
    <3> QED BY <2>1, <2>2, <3>1, WFMin
  <2>4. n \in Nat /\ ~ \E g : Is(g, n)
    BY <2>3
  <2>5. CASE n = 0
    <3> DEFINE g == [T \in Small(n) |-> 0]
    <3>1. \A T \in Small(n) : T = {}
      BY <1>1, <2>5, FS_EmptySet
    <3>2. \A T \in Small(n) : Term(g, f, T) = 0
      BY <3>1 DEF Term
    <3>3. Is(g, n)
      <4> HIDE DEF Small
      <4> QED BY <3>2
    <3> QED BY <3>3, <2>4
  <2>6. CASE n # 0
    <3>1. n - 1 \in Nat /\ <<n - 1, n>> \in R
      BY <2>4, <2>6
    <3>2. n - 1 \notin Bad
      BY <2>3, <3>1
    <3>3. PICK p : Is(p, n - 1)
      BY <3>1, <3>2
    <3> DEFINE g == [T \in Small(n) |-> IF Cardinality(T) <= n - 1 THEN p[T] ELSE Term(p, f, T)]
    <3>4. ASSUME NEW T \in Small(n), T # {} PROVE T \ {Pick(T)} \in Small(n - 1)
      BY <1>1, <1>2, <2>4, <3>4
    <3>5. Small(n - 1) \subseteq Small(n)
      BY <1>1, <2>4
    <3>6. \A T \in Small(n - 1) : g[T] = p[T]
      BY <3>5
    <3>7. \A T \in Small(n) : Term(g, f, T) = Term(p, f, T)
      <4> HIDE DEF Small, g
      <4> QED BY <3>4, <3>6 DEF Term
    <3>8. \A T \in Small(n) : g[T] = Term(p, f, T)
      <4>1. ASSUME NEW T \in Small(n) PROVE g[T] = Term(p, f, T)
        <5>1. CASE Cardinality(T) <= n - 1
          <6>1. T \in Small(n - 1) BY <5>1
          <6>2. p[T] = Term(p, f, T) BY <3>3, <6>1
          <6> QED BY <3>6, <6>1, <6>2
        <5>2. CASE ~ (Cardinality(T) <= n - 1)
          BY <5>2
        <5> QED BY <5>1, <5>2
      <4> QED BY <4>1
    <3>9. g = [T \in Small(n) |-> g[T]]
      OBVIOUS
    <3>10. Is(g, n)
      <4> HIDE DEF Small, g
      <4> QED BY <3>7, <3>8, <3>9
    <3> QED BY <3>10, <2>4
  <2> QED BY <2>5, <2>6
<1>4. PICK g : Is(g, Cardinality(S))
  <2>1. Cardinality(S) \in Nat
    BY FS_CardinalityType
  <2> QED BY <1>3, <2>1
<1>5. Small(Cardinality(S)) = SUBSET S
  BY <1>1
<1> DEFINE h == CHOOSE h : h = [T \in SUBSET S |-> Term(h, f, T)]
<1>6. g = [T \in SUBSET S |-> Term(g, f, T)]
  BY <1>4, <1>5
<1>7. h = [T \in SUBSET S |-> Term(h, f, T)]
  BY <1>6
<1>8. SumFunction(f) = h[S]
  BY DEF SumFunction, SumFunctionOnSet, FoldFunctionOnSet, MapThenFoldSet, Term, Pick
<1> HIDE DEF h
<1>9. SumsUp(h, f, S)
  BY <1>7 DEF SumsUp
<1> QED BY <1>8, <1>9

LEMMA SumType ==
    ASSUME NEW S, IsFiniteSet(S), NEW f \in [S -> Nat], NEW g, SumsUp(g, f, S)
    PROVE  \A T \in SUBSET S : g[T] \in Nat
<1> DEFINE Bad == {T \in SUBSET S : g[T] \notin Nat}
<1>1. {} \notin Bad
  BY DEF SumsUp, Term
<1>2. ASSUME NEW T \in Bad, T # {} PROVE T \ {Pick(T)} \in Bad
  <2>1. Pick(T) \in T BY <1>2 DEF Pick
  <2>2. f[Pick(T)] \in Nat /\ T \ {Pick(T)} \in SUBSET S BY <2>1
  <2>3. g[T] = f[Pick(T)] + g[T \ {Pick(T)}] BY <1>2 DEF SumsUp, Term
  <2> QED BY <2>2, <2>3
<1>3. Bad = {}
  <2>1. Bad \in SUBSET SUBSET S OBVIOUS
  <2> HIDE DEF Bad
  <2> QED BY <1>1, <1>2, <2>1, NoneBad
<1> QED BY <1>3

LEMMA SumNat ==
    ASSUME NEW S, IsFiniteSet(S), NEW f \in [S -> Nat]
    PROVE  SumFunction(f) \in Nat
<1>1. DOMAIN f = S
  OBVIOUS
<1>2. PICK g : SumFunction(f) = g[S] /\ SumsUp(g, f, S)
  BY <1>1, SumSteps
<1> QED BY <1>2, SumType

LEMMA SumZero ==
    ASSUME NEW S, IsFiniteSet(S)
    PROVE  SumFunction([c \in S |-> 0]) = 0
<1> DEFINE f == [c \in S |-> 0]
<1>1. DOMAIN f = S /\ f \in [S -> Nat]
  OBVIOUS
<1>2. PICK g : SumFunction(f) = g[S] /\ SumsUp(g, f, S)
  <2> HIDE DEF f
  <2> QED BY <1>1, SumSteps
<1> DEFINE Bad == {T \in SUBSET S : g[T] # 0}
<1>3. {} \notin Bad
  BY <1>2 DEF SumsUp, Term
<1>4. ASSUME NEW T \in Bad, T # {} PROVE T \ {Pick(T)} \in Bad
  <2>1. Pick(T) \in T BY <1>4 DEF Pick
  <2>2. f[Pick(T)] = 0 /\ T \ {Pick(T)} \in SUBSET S BY <2>1
  <2>3. g[T] = 0 + g[T \ {Pick(T)}] BY <1>2, <1>4, <2>2 DEF SumsUp, Term
  <2> QED BY <2>2, <2>3
<1>5. Bad = {}
  <2>1. Bad \in SUBSET SUBSET S OBVIOUS
  <2> HIDE DEF Bad
  <2> QED BY <1>3, <1>4, <2>1, NoneBad
<1> QED BY <1>2, <1>5

\* One more of one term is one more of the sum.
LEMMA SumMore ==
    ASSUME NEW S, IsFiniteSet(S), NEW f \in [S -> Nat], NEW c \in S
    PROVE  SumFunction([f EXCEPT ![c] = @ + 1]) = SumFunction(f) + 1
<1> DEFINE e == [f EXCEPT ![c] = @ + 1]
<1>1. DOMAIN f = S /\ DOMAIN e = S /\ e \in [S -> Nat]
  OBVIOUS
<1>2. \A x \in S : e[x] = f[x] + (IF x = c THEN 1 ELSE 0)
  OBVIOUS
<1> HIDE DEF e
<1>3. PICK g : SumFunction(f) = g[S] /\ SumsUp(g, f, S)
  BY <1>1, SumSteps
<1>4. PICK h : SumFunction(e) = h[S] /\ SumsUp(h, e, S)
  BY <1>1, SumSteps
<1>5. \A T \in SUBSET S : g[T] \in Nat /\ h[T] \in Nat
  BY <1>1, <1>3, <1>4, SumType
<1> DEFINE Bad == {T \in SUBSET S : h[T] # g[T] + (IF c \in T THEN 1 ELSE 0)}
<1>6. {} \notin Bad
  BY <1>3, <1>4 DEF SumsUp, Term
<1>7. ASSUME NEW T \in Bad, T # {} PROVE T \ {Pick(T)} \in Bad
  <2>1. Pick(T) \in T BY <1>7 DEF Pick
  <2> DEFINE U == T \ {Pick(T)}
  <2>2. U \in SUBSET S /\ Pick(T) \in S BY <2>1
  <2>3. g[T] = f[Pick(T)] + g[U] /\ h[T] = e[Pick(T)] + h[U]
    BY <1>3, <1>4, <1>7 DEF SumsUp, Term
  <2>4. g[U] \in Nat /\ h[U] \in Nat /\ f[Pick(T)] \in Nat
    BY <1>5, <2>2
  <2>5. ASSUME h[U] = g[U] + (IF c \in U THEN 1 ELSE 0)
        PROVE  h[T] = g[T] + (IF c \in T THEN 1 ELSE 0)
    BY <1>2, <2>1, <2>2, <2>3, <2>4, <2>5
  <2> QED BY <2>2, <2>5
<1>8. Bad = {}
  <2>1. Bad \in SUBSET SUBSET S OBVIOUS
  <2> HIDE DEF Bad
  <2> QED BY <1>6, <1>7, <2>1, NoneBad
<1>9. h[S] = g[S] + 1
  BY <1>8
<1> QED BY <1>3, <1>4, <1>9 DEF e

LEMMA SumAtMost ==
    ASSUME NEW S, IsFiniteSet(S), NEW f \in [S -> Nat], NEW e \in [S -> Nat],
           \A x \in S : f[x] <= e[x]
    PROVE  SumFunction(f) <= SumFunction(e)
<1>1. DOMAIN f = S /\ DOMAIN e = S
  OBVIOUS
<1>3. PICK g : SumFunction(f) = g[S] /\ SumsUp(g, f, S)
  BY <1>1, SumSteps
<1>4. PICK h : SumFunction(e) = h[S] /\ SumsUp(h, e, S)
  BY <1>1, SumSteps
<1>5. \A T \in SUBSET S : g[T] \in Nat /\ h[T] \in Nat
  BY <1>1, <1>3, <1>4, SumType
<1> DEFINE Bad == {T \in SUBSET S : ~ (g[T] <= h[T])}
<1>6. {} \notin Bad
  <2>1. g[{}] = 0 /\ h[{}] = 0
    BY <1>3, <1>4 DEF SumsUp, Term
  <2> QED BY <2>1
<1>7. ASSUME NEW T \in Bad, T # {} PROVE T \ {Pick(T)} \in Bad
  <2>1. Pick(T) \in T BY <1>7 DEF Pick
  <2> DEFINE U == T \ {Pick(T)}
  <2>2. U \in SUBSET S /\ Pick(T) \in S BY <2>1
  <2>3. g[T] = f[Pick(T)] + g[U] /\ h[T] = e[Pick(T)] + h[U]
    BY <1>3, <1>4, <1>7 DEF SumsUp, Term
  <2>4. g[U] \in Nat /\ h[U] \in Nat /\ f[Pick(T)] \in Nat /\ e[Pick(T)] \in Nat
    BY <1>5, <2>2
  <2> HIDE DEF U
  <2>5. g[U] <= h[U] => g[T] <= h[T]
    BY <2>2, <2>3, <2>4
  <2> QED BY <2>2, <2>5 DEF U
<1>8. Bad = {}
  <2>1. Bad \in SUBSET SUBSET S OBVIOUS
  <2> HIDE DEF Bad
  <2> QED BY <1>6, <1>7, <2>1, NoneBad
<1>9. g[S] <= h[S]
  BY <1>8
<1> QED BY <1>3, <1>4, <1>9

-----------------------------------------------------------------------------
(* Buffers.                                                                *)

LEMMA Appended ==
    ASSUME NEW S, NEW q \in Seq(S), NEW x \in S, NEW K
    PROVE  /\ Append(q, x) \in Seq(S)
           /\ Has(Append(q, x), K) <=> Has(q, K) \/ x \in K
           /\ One(q, K) /\ (x \notin K \/ ~ Has(q, K)) => One(Append(q, x), K)
<1> DEFINE r == Append(q, x)
           n == Len(q) + 1
<1>1. /\ r \in Seq(S) /\ Len(q) \in Nat /\ DOMAIN q = 1..Len(q) /\ DOMAIN r = 1..n
      /\ r[n] = x /\ \A i \in DOMAIN q : i # n /\ i \in DOMAIN r /\ r[i] = q[i]
  OBVIOUS
<1>2. \A i \in DOMAIN r : i = n \/ (i \in DOMAIN q /\ r[i] = q[i])
  BY <1>1
<1>3. n \in DOMAIN r
  BY <1>1
<1> HIDE DEF r, n
<1>4. Has(r, K) <=> Has(q, K) \/ x \in K
  BY <1>1, <1>2, <1>3 DEF Has
<1>5. One(q, K) /\ (x \notin K \/ ~ Has(q, K)) => One(r, K)
  BY <1>1, <1>2 DEF Has, One
<1> QED BY <1>1, <1>4, <1>5 DEF r

LEMMA Taken ==
    ASSUME NEW S, NEW q \in Seq(S), q # <<>>, NEW K
    PROVE  /\ Tail(q) \in Seq(S) /\ Head(q) \in S
           /\ Has(Tail(q), K) => Has(q, K)
           /\ Head(q) \in K => Has(q, K)
           /\ Head(q) \notin K => (Has(q, K) <=> Has(Tail(q), K))
           /\ One(q, K) => One(Tail(q), K)
           /\ One(q, K) /\ Head(q) \in K => ~ Has(Tail(q), K)
<1> DEFINE r == Tail(q)
<1>1. /\ r \in Seq(S) /\ Head(q) \in S /\ Head(q) = q[1] /\ 1 \in DOMAIN q
      /\ \A i \in DOMAIN r : i + 1 \in DOMAIN q /\ i + 1 # 1 /\ r[i] = q[i + 1]
  OBVIOUS
<1>2. \A i \in DOMAIN q : i # 1 => i - 1 \in DOMAIN r /\ r[i - 1] = q[i]
  OBVIOUS
<1>3. \A i, j \in DOMAIN r : i + 1 = j + 1 => i = j
  OBVIOUS
<1> HIDE DEF r
<1>4. Has(r, K) => Has(q, K)
  BY <1>1 DEF Has
<1>5. Head(q) \in K => Has(q, K)
  BY <1>1 DEF Has
<1>6. Head(q) \notin K /\ Has(q, K) => Has(r, K)
  BY <1>1, <1>2 DEF Has
<1>7. One(q, K) => One(r, K)
  BY <1>1, <1>3 DEF One
<1>8. One(q, K) /\ Head(q) \in K => ~ Has(r, K)
  BY <1>1 DEF One, Has
<1> QED BY <1>1, <1>4, <1>5, <1>6, <1>7, <1>8 DEF r

LEMMA CountNat ==
    ASSUME NEW S, NEW q \in Seq(S), NEW K
    PROVE  Count(q, K) \in Nat /\ IsFiniteSet({i \in DOMAIN q : q[i] \in K})
<1>1. IsFiniteSet(1..Len(q)) /\ DOMAIN q = 1..Len(q)
  BY FS_Interval
<1>2. IsFiniteSet({i \in DOMAIN q : q[i] \in K})
  BY <1>1, FS_Subset
<1> QED BY <1>2, FS_CardinalityType DEF Count

LEMMA CountAppended ==
    ASSUME NEW S, NEW q \in Seq(S), NEW x \in S, NEW K
    PROVE  Count(Append(q, x), K) = Count(q, K) + (IF x \in K THEN 1 ELSE 0)
<1> DEFINE r == Append(q, x)
           n == Len(q) + 1
           Q == {i \in DOMAIN q : q[i] \in K}
           R == {i \in DOMAIN r : r[i] \in K}
<1>1. /\ Len(q) \in Nat /\ DOMAIN q = 1..Len(q) /\ DOMAIN r = 1..n
      /\ r[n] = x /\ \A i \in DOMAIN q : r[i] = q[i]
  OBVIOUS
<1>2. R = IF x \in K THEN Q \cup {n} ELSE Q
  BY <1>1
<1>3. n \notin Q
  BY <1>1
<1>4. IsFiniteSet(Q) /\ Cardinality(Q) \in Nat
  BY CountNat, FS_CardinalityType
<1>5. Count(r, K) = Cardinality(R) /\ Count(q, K) = Cardinality(Q)
  BY DEF Count
<1> HIDE DEF Q, R, r, n
<1>6. Cardinality(Q \cup {n}) = Cardinality(Q) + 1
  BY <1>3, <1>4, FS_AddElement
<1> QED BY <1>2, <1>4, <1>5, <1>6 DEF r

LEMMA CountTaken ==
    ASSUME NEW S, NEW q \in Seq(S), q # <<>>, NEW K
    PROVE  Count(q, K) = Count(Tail(q), K) + (IF Head(q) \in K THEN 1 ELSE 0)
<1> DEFINE r == Tail(q)
           Q == {i \in DOMAIN q : q[i] \in K}
           P == Q \ {1}
           R == {i \in DOMAIN r : r[i] \in K}
           f == [i \in R |-> i + 1]
<1>1. /\ r \in Seq(S) /\ Head(q) = q[1] /\ 1 \in DOMAIN q
      /\ \A i \in DOMAIN r : i \in Int /\ i + 1 \in DOMAIN q /\ i + 1 # 1 /\ r[i] = q[i + 1]
      /\ \A i \in DOMAIN q : i # 1 => i - 1 \in DOMAIN r /\ r[i - 1] = q[i] /\ (i - 1) + 1 = i
  OBVIOUS
<1>2. IsFiniteSet(Q) /\ Cardinality(Q) \in Nat /\ IsFiniteSet(R) /\ Cardinality(R) \in Nat
  BY <1>1, CountNat, FS_CardinalityType
<1>3. Count(q, K) = Cardinality(Q) /\ Count(r, K) = Cardinality(R)
  BY DEF Count
<1>4. \A i \in R : i + 1 \in P
  BY <1>1
<1>5. \A j \in P : j - 1 \in R /\ (j - 1) + 1 = j
  BY <1>1
<1>6. 1 \in Q <=> Head(q) \in K
  BY <1>1
<1>7. \A i \in R : i \in Int
  BY <1>1
<1> HIDE DEF Q, R, r
<1>8. f \in Bijection(R, P)
  <2>1. f \in [R -> P] BY <1>4
  <2>2. \A i, j \in R : f[i] = f[j] => i = j BY <1>7
  <2>3. \A j \in P : \E i \in R : f[i] = j BY <1>5
  <2> HIDE DEF f, P
  <2> QED BY <2>1, <2>2, <2>3 DEF Bijection, Injection, Surjection, IsInjective
<1>9. Cardinality(P) = Cardinality(R)
  <2> HIDE DEF f, P
  <2> QED BY <1>2, <1>8, FS_Bijection DEF ExistsBijection
<1>10. Cardinality(P) = IF 1 \in Q THEN Cardinality(Q) - 1 ELSE Cardinality(Q)
  BY <1>2, FS_RemoveElement
<1> QED BY <1>2, <1>3, <1>6, <1>9, <1>10 DEF r

-----------------------------------------------------------------------------
(* The first state.                                                        *)

LEMMA ClientsFinite ==
    ASSUME BenchAssumption
    PROVE  /\ IsFiniteSet(Client) /\ Cardinality(Client) = client_count
           /\ \A C \in SUBSET Client : IsFiniteSet(C) /\ Cardinality(C) \in Nat
<1>1. IsFiniteSet(Client) /\ Cardinality(Client) = client_count
  BY FS_Interval DEF BenchAssumption, Client
<1> QED BY <1>1, FS_Subset, FS_CardinalityType

LEMMA Nothing ==
    ASSUME NEW K
    PROVE  Count(<<>>, K) = 0 /\ ~ Has(<<>>, K) /\ One(<<>>, K)
<1>1. {i \in DOMAIN <<>> : <<>>[i] \in K} = {}
  OBVIOUS
<1> QED BY <1>1, FS_EmptySet DEF Count, Has, One

LEMMA UnansweredIs ==
    Unanswered = {c \in Client : conn[c] = "opening" \/ c \in asked \/ Has(inbox[c], Answers)}
  BY DEF Unanswered, Has, Answers

LEMMA BenchInit == ASSUME BenchAssumption, Init PROVE IInv
<1>1. \A c \in Client : inbox[c] = <<>> /\ due[c] = 0 /\ received[c] = 0 /\ foreign[c] = 0
  BY DEF Init
<1>2. Shape
  BY DEF Init, Shape, Program
<1>3. LoginInv
  <2>1. CASE Many
    <3>1. \A c \in Client : conn[c] = "none" /\ c \notin asked /\ ~ Has(inbox[c], Answers)
      BY <1>1, <2>1, Nothing DEF Init, Many
    <3>2. Unanswered = {}
      BY <3>1, UnansweredIs
    <3>3. Cardinality(Unanswered) = 0
      BY <3>2, FS_EmptySet
    <3>4. Places
      BY <1>1, <3>1, Nothing DEF Places
    <3> QED BY <2>1, <3>3, <3>4 DEF Init, LoginInv, Many, BenchAssumption
  <2>2. CASE ~ Many
    BY <1>1, <2>2 DEF Init, LoginInv
  <2> QED BY <2>1, <2>2
<1>4. BroadcastInv
  <2>1. {c \in Client : received[c] >= messageLimit} = {}
    BY <1>1 DEF BenchAssumption
  <2>2. Cardinality({c \in Client : received[c] >= messageLimit}) = 0
    BY <2>1, FS_EmptySet
  <2>3. ASSUME NEW c \in Client
        PROVE received[c] + due[c] + Count(inbox[c], Messages) = messages + foreign[c]
    BY <1>1, Nothing DEF Init
  <2> QED BY <1>1, <2>2, <2>3 DEF Init, BroadcastInv
<1>5. OnlineInv
  <2>1. Load = [c \in Client |-> 0]
    BY <1>1, Nothing DEF Load
  <2>2. SumFunction(Load) = 0
    BY <2>1, ClientsFinite, SumZero
  <2> QED BY <2>2 DEF Init, OnlineInv, BenchAssumption
<1>6. SignUpInv
  BY <1>1 DEF Init, SignUpInv
<1>7. NotifiedInv
  BY DEF Init, NotifiedInv
<1> QED BY <1>2, <1>3, <1>4, <1>5, <1>6, <1>7 DEF IInv

-----------------------------------------------------------------------------
(* What the invariant says about logins.                                   *)

\* A login that is answered is under way, so that not all have succeeded.
LEMMA UnderWay ==
    ASSUME BenchAssumption, IInv, Many, NEW c \in Client, c \in Unanswered
    PROVE  /\ request_count >= 1 /\ success_login < client_count
           /\ "start" \notin timers /\ messages = 0
<1>1. IsFiniteSet(Unanswered) /\ Cardinality(Unanswered) \in Nat
  BY ClientsFinite DEF Unanswered
<1>2. Cardinality(Unanswered) # 0
  BY <1>1, FS_EmptySet
<1>3. request_count >= 1
  BY <1>1, <1>2 DEF IInv, LoginInv
<1> QED BY <1>3 DEF IInv, LoginInv, Shape, BenchAssumption

LEMMA RoomFacts ==
    ASSUME BenchAssumption, IInv, Many
    PROVE  /\ Room \in Nat /\ Room <= Window - request_count
           /\ Room <= client_count - client_index
<1> DEFINE a == Window - request_count
           b == client_count - client_index
<1>1. a \in Nat /\ b \in Nat
  BY DEF IInv, LoginInv, Shape, BenchAssumption
<1>2. Room = CHOOSE x \in {a, b} : \A y \in {a, b} : x <= y
  BY DEF Room, Min
<1> HIDE DEF a, b
<1>3. \E x \in {a, b} : \A y \in {a, b} : x <= y
  <2>1. CASE a <= b BY <1>1, <2>1
  <2>2. CASE ~ (a <= b) BY <1>1, <2>2
  <2> QED BY <2>1, <2>2
<1>4. Room \in {a, b} /\ \A y \in {a, b} : Room <= y
  <2> DEFINE r == CHOOSE x \in {a, b} : \A y \in {a, b} : x <= y
  <2>1. r \in {a, b} /\ \A y \in {a, b} : r <= y
    BY <1>3
  <2> QED BY <1>2, <2>1
<1> QED BY <1>1, <1>4 DEF a, b

-----------------------------------------------------------------------------
(* Types.                                                                  *)

LEMMA Puts ==
    ASSUME Shape, NEW c \in Client, NEW x \in Frame, Put(c, x)
    PROVE  inbox' \in [Client -> Seq(Frame)]
<1>1. inbox[c] \in Seq(Frame)
  BY DEF Shape
<1>2. Append(inbox[c], x) \in Seq(Frame)
  BY <1>1
<1> QED BY <1>2 DEF Shape, Put

LEMMA Takes ==
    ASSUME Shape, NEW c \in Client, Took(c)
    PROVE  /\ inbox[c] \in Seq(Frame) /\ inbox[c] # <<>> /\ Head(inbox[c]) \in Frame
           /\ inbox'[c] = Tail(inbox[c]) /\ inbox' \in [Client -> Seq(Frame)]
           /\ \A d \in Client : d # c => inbox'[d] = inbox[d]
<1>1. inbox[c] \in Seq(Frame) /\ inbox[c] # <<>>
  BY DEF Shape, Took, Whole
<1>2. Tail(inbox[c]) \in Seq(Frame) /\ Head(inbox[c]) \in Frame
  BY <1>1, Taken
<1> QED BY <1>1, <1>2 DEF Shape, Took

LEMMA More ==
    ASSUME NEW f \in [Client -> Nat], NEW c \in Client
    PROVE  [f EXCEPT ![c] = @ + 1] \in [Client -> Nat]
  OBVIOUS

LEMMA AnsweredHere ==
    ASSUME Shape, NEW c \in Client, inbox[c] # <<>>, Head(inbox[c]) \in Answers
    PROVE  c \in Unanswered
<1>1. inbox[c] \in Seq(Frame)
  BY DEF Shape
<1>2. Has(inbox[c], Answers)
  BY <1>1, Taken
<1> QED BY <1>2, UnansweredIs

LEMMA ShapeNext == ASSUME BenchAssumption, IInv, Moves PROVE Shape'
<1>0. Shape
  BY DEF IInv
<1>1. CASE LoginFunc
  <2>1. Room \in Nat
    BY <1>1, RoomFacts DEF LoginFunc, buffers
  <2>2. client_index' \in Nat /\ request_count' \in Nat
    <3>1. client_index \in Nat /\ request_count \in Nat
      BY <1>0 DEF Shape
    <3>2. \/ client_index' = client_index /\ request_count' = request_count
          \/ client_index' = client_index + Room /\ request_count' = request_count + Room
      BY <1>1 DEF LoginFunc, OpenClients, buffers
    <3> HIDE DEF Room
    <3> QED BY <2>1, <3>1, <3>2
  <2>4. timers' \subseteq {"login", "start", "result"}
    BY <1>0, <1>1 DEF LoginFunc, Shape, Again, buffers
  <2>3. conn' \in [Client -> {"none", "opening", "up"}]
    BY <1>0, <1>1 DEF LoginFunc, OpenClients, Shape, buffers
  <2> QED BY <1>0, <1>1, <2>2, <2>3, <2>4 DEF LoginFunc, Shape, test, buffers
<1>2. CASE StartLogin
  BY <1>0, <1>2 DEF StartLogin, OpenClients, Shape, test, BenchAssumption, buffers
<1>3. CASE StartBroadcastTest
  BY <1>0, <1>3 DEF StartBroadcastTest, Shape, logins, BenchAssumption, buffers
<1>4. CASE StartChatTest
  <2>1. due' \in [Client -> Nat]
    <3>1. due \in [Client -> Nat]
      BY <1>0 DEF Shape
    <3>2. due' = due \/ \E c \in Client : due' = [due EXCEPT ![c] = @ + 1]
      BY <1>4 DEF StartChatTest, buffers
    <3> QED BY <3>1, <3>2, More
  <2>2. messages' \in Nat
    BY <1>0, <1>4 DEF StartChatTest, Shape, buffers
  <2>3. timers' \subseteq {"login", "start", "result"}
    BY <1>0, <1>4 DEF StartChatTest, Shape, buffers
  <2> QED BY <1>0, <1>4, <2>1, <2>2, <2>3 DEF StartChatTest, Shape, logins, buffers
<1>5. CASE ResultCount
  BY <1>0, <1>5 DEF ResultCount, Shape, logins, test, buffers
<1>6. ASSUME NEW c \in Client, Connected(c) PROVE Shape'
  BY <1>0, <1>6 DEF Connected, Shape, test, buffers
<1>7. ASSUME NEW c \in Client, LoginDone(c) PROVE Shape'
  <2>1. c \in Unanswered
    <3>1. inbox[c] # <<>> /\ Head(inbox[c]) = "ok"
      BY <1>0, <1>7, Takes DEF LoginDone
    <3> QED BY <1>0, <3>1, AnsweredHere DEF Answers
  <2>2. request_count >= 1
    BY <1>7, <2>1, UnderWay DEF LoginDone
  <2>3. inbox' \in [Client -> Seq(Frame)]
    BY <1>0, <1>7, Takes DEF LoginDone
  <2> QED BY <1>0, <1>7, <2>2, <2>3 DEF LoginDone, Shape, test
<1>8. ASSUME NEW c \in Client, LoginFailed(c) PROVE Shape'
  BY <1>0, <1>8 DEF LoginFailed, Shape, test, buffers
<1>9. ASSUME NEW c \in Client, BroadcastReceived(c) PROVE Shape'
  <2>1. inbox' \in [Client -> Seq(Frame)]
    BY <1>0, <1>9, Takes DEF BroadcastReceived
  <2>2. received' \in [Client -> Nat] /\ finish_count' \in Nat
    BY <1>0, <1>9, More DEF BroadcastReceived, Shape
  <2> QED BY <1>0, <1>9, <2>1, <2>2 DEF BroadcastReceived, Shape, logins
<1>10. ASSUME NEW c \in Client, ChatReceived(c) PROVE Shape'
  <2>1. inbox' \in [Client -> Seq(Frame)]
    BY <1>0, <1>10, Takes DEF ChatReceived
  <2> QED BY <1>0, <1>10, <2>1 DEF ChatReceived, Shape, logins
<1>11. ASSUME NEW c \in Client, LoginReceived(c) PROVE Shape'
  <2>1. inbox' \in [Client -> Seq(Frame)]
    BY <1>0, <1>11, Takes DEF LoginReceived
  <2>2. received' \in [Client -> Nat]
    <3>1. received \in [Client -> Nat]
      BY <1>0 DEF Shape
    <3>2. received' = received \/ received' = [received EXCEPT ![c] = @ + 1]
      BY <1>11 DEF LoginReceived
    <3> QED BY <3>1, <3>2, More
  <2>3. success_login' \in Nat
    BY <1>0, <1>11 DEF LoginReceived, Shape
  <2>4. timers' \subseteq {"login", "start", "result"}
    <3>1. timers' = timers \/ timers' = timers \cup {"result"}
      BY <1>11 DEF LoginReceived
    <3> QED BY <1>0, <3>1 DEF Shape
  <2> QED BY <1>0, <1>11, <2>1, <2>2, <2>3, <2>4 DEF LoginReceived, Shape
<1>12. ASSUME NEW c \in Client, SignUpDone(c) PROVE Shape'
  <2>1. inbox' \in [Client -> Seq(Frame)]
    BY <1>0, <1>12, Takes DEF SignUpDone
  <2> QED BY <1>0, <1>12, <2>1 DEF SignUpDone, Shape, test
<1>13. ASSUME NEW c \in Client, Broken(c) PROVE Shape'
  BY <1>0, <1>13 DEF Broken, Shape, logins, test, buffers
<1>14. ASSUME NEW c \in Client, Answer(c) PROVE Shape'
  <2>1. inbox' \in [Client -> Seq(Frame)]
    BY <1>0, <1>14, Puts DEF Answer, Frame, Answers
  <2> QED BY <1>0, <1>14, <2>1 DEF Answer, Shape, test
<1>15. ASSUME NEW c \in Client, Deliver(c) PROVE Shape'
  <2>1. inbox' \in [Client -> Seq(Frame)]
    BY <1>0, <1>15, Puts DEF Deliver, Frame, Messages
  <2>2. due' \in [Client -> Nat]
    BY <1>0, <1>15 DEF Deliver, Shape
  <2> QED BY <1>0, <1>15, <2>1, <2>2 DEF Deliver, Shape, logins
<1>16. ASSUME NEW c \in Client, Interfere(c) PROVE Shape'
  <2>1. inbox' \in [Client -> Seq(Frame)]
    BY <1>0, <1>16, Puts DEF Interfere, Frame, Messages
  <2>2. foreign' \in [Client -> Nat]
    BY <1>0, <1>16, More DEF Interfere, Shape
  <2> QED BY <1>0, <1>16, <2>1, <2>2 DEF Interfere, Shape, logins, test
<1> QED BY <1>1, <1>2, <1>3, <1>4, <1>5, <1>6, <1>7, <1>8, <1>9, <1>10, <1>11, <1>12, <1>13,
           <1>14, <1>15, <1>16 DEF Moves, Next, Timer, Callback

-----------------------------------------------------------------------------
(* Logins.                                                                 *)

\* A step that neither makes a client nor ends a login
LEMMA NoLogin ==
    ASSUME IInv, Many, UNCHANGED <<program, client_index, success_login, request_count>>,
           Places', Unanswered' = Unanswered,
           "start" \in timers' \/ messages' > 0 => "start" \in timers \/ messages > 0
    PROVE  LoginInv'
<1>1. Many'
  BY DEF Many
<1> QED BY <1>1 DEF IInv, LoginInv

LEMMA OpenKeepsLogins == ASSUME BenchAssumption, IInv, LoginFunc PROVE LoginInv'
<1>1. Many /\ Many' /\ Shape /\ Places
  BY DEF LoginFunc, Many, IInv, LoginInv, buffers
<1>2. CASE client_index = client_count
  <2>1. UNCHANGED <<program, client_index, success_login, request_count, conn, asked, inbox, messages>>
        /\ timers' \subseteq timers
    BY <1>2 DEF LoginFunc, test, buffers
  <2>2. Places' /\ Unanswered' = Unanswered
    BY <1>1, <2>1 DEF Places, Unanswered
  <2> QED BY <1>1, <2>1, <2>2, NoLogin
<1>3. CASE client_index # client_count
  <2> DEFINE New == (client_index + 1)..(client_index + Room)
  <2>1. /\ UNCHANGED <<success_login, asked, inbox, messages, timers>>
        /\ client_index' = client_index + Room /\ request_count' = request_count + Room
        /\ conn' = [c \in Client |-> IF c \in New THEN "opening" ELSE conn[c]]
    BY <1>3 DEF LoginFunc, OpenClients, test, Again, buffers
  <2>2. /\ Room \in Nat /\ Room <= Window - request_count /\ Room <= client_count - client_index
        /\ client_index \in Nat /\ request_count \in Nat /\ success_login \in Nat
        /\ Window \in Nat /\ client_count \in Nat
    BY <1>1, RoomFacts DEF Shape, BenchAssumption
  <2> HIDE DEF Room
  <2>3. New \subseteq Client /\ IsFiniteSet(New) /\ Cardinality(New) = Room
    <3>1. \A c \in New : c \in Client
      BY <2>2 DEF Client
    <3>2. IsFiniteSet(New) /\ Cardinality(New) = Room
      BY <2>2, FS_Interval
    <3> QED BY <3>1, <3>2
  <2>4. \A c \in New : c > client_index
    BY <2>2
  <2>5. \A c \in Client : c > client_index + Room => c > client_index /\ c \notin New
    BY <2>2 DEF Client
  <2> HIDE DEF New
  <2>6. \A c \in New : conn[c] = "none" /\ c \notin asked /\ ~ Has(inbox[c], Answers)
    BY <1>1, <2>3, <2>4 DEF Places
  <2>7. Places'
    <3> SUFFICES ASSUME NEW c \in Client
                 PROVE  /\ c > client_index' => conn'[c] = "none"
                        /\ conn'[c] # "up" => c \notin asked'
                        /\ conn'[c] # "up" \/ c \in asked' => ~ Has(inbox'[c], Answers)
                        /\ One(inbox'[c], Answers)
      BY DEF Places
    <3>1. CASE c \in New
      BY <1>1, <2>1, <2>5, <2>6, <3>1 DEF Places
    <3>2. CASE c \notin New
      BY <1>1, <2>1, <2>5, <3>2 DEF Places
    <3> QED BY <3>1, <3>2
  <2>8. Unanswered' = Unanswered \cup New
    <3>1. Unanswered' = {c \in Client : conn'[c] = "opening" \/ c \in asked' \/ Has(inbox'[c], Answers)}
      BY DEF Unanswered, Has, Answers
    <3> QED BY <2>1, <2>3, <3>1, UnansweredIs
  <2>9. New \cap Unanswered = {}
    BY <2>6, UnansweredIs
  <2>10. Cardinality(Unanswered') = request_count'
    <3>1. IsFiniteSet(Unanswered) /\ Cardinality(Unanswered) = request_count
      BY <1>1, ClientsFinite DEF Unanswered, IInv, LoginInv
    <3>2. Cardinality(Unanswered \cup New)
          = Cardinality(Unanswered) + Cardinality(New) - Cardinality(Unanswered \cap New)
      BY <2>3, <3>1, FS_Union
    <3>3. Cardinality(Unanswered \cap New) = 0
      BY <2>9, FS_EmptySet
    <3> QED BY <2>1, <2>2, <2>3, <2>8, <3>1, <3>2, <3>3
  <2>11. client_index' <= client_count /\ success_login' + request_count' = client_index'
         /\ request_count' <= Window
    BY <1>1, <2>1, <2>2 DEF IInv, LoginInv
  <2>12. "start" \in timers' \/ messages' > 0 => success_login' = client_count
    BY <1>1, <2>1 DEF IInv, LoginInv
  <2> QED BY <1>1, <2>7, <2>10, <2>11, <2>12 DEF LoginInv
<1> QED BY <1>2, <1>3

LEMMA ConnectedKeepsLogins ==
    ASSUME IInv, Many, NEW c \in Client, Connected(c) PROVE LoginInv'
<1>1. /\ UNCHANGED <<program, client_index, success_login, request_count, inbox, messages, timers>>
      /\ conn[c] = "opening" /\ conn' = [conn EXCEPT ![c] = "up"] /\ asked' = asked \cup {c}
  BY DEF Connected, Many, test, buffers
<1>2. Shape /\ Places
  BY DEF IInv, LoginInv
<1>3. conn \in [Client -> {"none", "opening", "up"}]
  BY <1>2 DEF Shape
<1>4. conn'[c] = "up" /\ ~ (c > client_index) /\ ~ Has(inbox[c], Answers)
  BY <1>1, <1>2, <1>3 DEF Places
<1>5. \A d \in Client : d # c => conn'[d] = conn[d] /\ (d \in asked' <=> d \in asked)
  BY <1>1, <1>3
<1>6. Places'
  BY <1>1, <1>2, <1>4, <1>5 DEF Places
<1>7. Unanswered' = Unanswered
  BY <1>1, <1>4, <1>5 DEF Unanswered
<1> QED BY <1>1, <1>6, <1>7, NoLogin

LEMMA AnswerKeepsLogins ==
    ASSUME IInv, Many, NEW c \in Client, Answer(c) PROVE LoginInv'
<1>1. /\ UNCHANGED <<program, client_index, success_login, request_count, conn, messages, timers>>
      /\ c \in asked /\ asked' = asked \ {c}
  BY DEF Answer, test
<1>2. Shape /\ Places
  BY DEF IInv, LoginInv
<1>3. PICK x \in Answers : inbox' = [inbox EXCEPT ![c] = Append(@, x)]
  BY DEF Answer, Put, Answers
<1>4. inbox'[c] = Append(inbox[c], x) /\ \A d \in Client : d # c => inbox'[d] = inbox[d]
  BY <1>2, <1>3 DEF Shape
<1>5. conn[c] = "up" /\ ~ Has(inbox[c], Answers) /\ One(inbox[c], Answers)
  BY <1>1, <1>2 DEF Places
<1>6. Has(inbox'[c], Answers) /\ One(inbox'[c], Answers)
  <2>1. inbox[c] \in Seq(Frame) /\ x \in Frame
    BY <1>2 DEF Shape, Frame
  <2> QED BY <1>4, <1>5, <2>1, Appended
<1>7. Places'
  BY <1>1, <1>2, <1>4, <1>5, <1>6 DEF Places
<1>8. Unanswered' = Unanswered
  <2>1. Unanswered' = {d \in Client : conn'[d] = "opening" \/ d \in asked' \/ Has(inbox'[d], Answers)}
    BY DEF Unanswered, Has, Answers
  <2> QED BY <1>1, <1>4, <1>6, <2>1, UnansweredIs
<1> QED BY <1>1, <1>7, <1>8, NoLogin

\* A message more or less in a buffer
LEMMA MessageKeepsLogins ==
    ASSUME IInv, Many, UNCHANGED <<program, logins>>, NEW c \in Client,
           \A d \in Client : d # c => inbox'[d] = inbox[d],
           Has(inbox'[c], Answers) <=> Has(inbox[c], Answers),
           One(inbox[c], Answers) => One(inbox'[c], Answers),
           "start" \in timers' \/ messages' > 0 => "start" \in timers \/ messages > 0
    PROVE  LoginInv'
<1>1. UNCHANGED <<program, client_index, success_login, request_count, conn, asked>>
  BY DEF logins
<1>2. Places
  BY DEF IInv, LoginInv
<1>3. Places'
  BY <1>1, <1>2 DEF Places
<1>4. Unanswered' = Unanswered
  <2>1. Unanswered' = {d \in Client : conn'[d] = "opening" \/ d \in asked' \/ Has(inbox'[d], Answers)}
    BY DEF Unanswered, Has, Answers
  <2> QED BY <1>1, <2>1, UnansweredIs
<1> QED BY <1>1, <1>3, <1>4, NoLogin

LEMMA PutMessage ==
    ASSUME Shape, NEW c \in Client, NEW x \in Messages, Put(c, x)
    PROVE  /\ inbox[c] \in Seq(Frame) /\ x \in Frame
           /\ inbox'[c] = Append(inbox[c], x)
           /\ \A d \in Client : d # c => inbox'[d] = inbox[d]
           /\ Has(inbox'[c], Answers) <=> Has(inbox[c], Answers)
           /\ One(inbox[c], Answers) => One(inbox'[c], Answers)
<1>1. inbox[c] \in Seq(Frame) /\ x \in Frame /\ x \notin Answers
  BY DEF Shape, Frame, Answers, Messages
<1>2. inbox'[c] = Append(inbox[c], x) /\ \A d \in Client : d # c => inbox'[d] = inbox[d]
  BY DEF Shape, Put
<1> QED BY <1>1, <1>2, Appended

LEMMA TakeMessage ==
    ASSUME Shape, NEW c \in Client, Took(c), Head(inbox[c]) \in Messages
    PROVE  /\ \A d \in Client : d # c => inbox'[d] = inbox[d]
           /\ Has(inbox'[c], Answers) <=> Has(inbox[c], Answers)
           /\ One(inbox[c], Answers) => One(inbox'[c], Answers)
<1>1. Head(inbox[c]) \notin Answers
  BY DEF Answers, Messages
<1> QED BY <1>1, Takes, Taken

LEMMA DoneKeepsLogins ==
    ASSUME BenchAssumption, IInv, NEW c \in Client, LoginDone(c)
    PROVE  LoginInv' /\ messages = 0 /\ "start" \notin timers
<1>1. /\ UNCHANGED <<program, client_index, conn, asked, messages>>
      /\ request_count' = request_count - 1 /\ success_login' = success_login + 1
      /\ timers' = timers \/ (success_login' = client_count /\ timers' = timers \cup {"start"})
      /\ Took(c) /\ Head(inbox[c]) \in Answers /\ inbox[c] # <<>>
  <2>1. inbox[c] # <<>>
    BY Takes DEF LoginDone, IInv
  <2> QED BY <2>1 DEF LoginDone, test, Answers, AllIn
<1>2. Many /\ Many' /\ Shape /\ Places
  BY <1>1 DEF LoginDone, Many, IInv, LoginInv
<1>3. c \in Unanswered
  BY <1>1, <1>2, AnsweredHere
<1>4. /\ request_count >= 1 /\ success_login < client_count /\ "start" \notin timers /\ messages = 0
      /\ request_count \in Nat /\ success_login \in Nat /\ client_index \in Nat
  BY <1>2, <1>3, UnderWay DEF Shape
<1>5. /\ inbox'[c] = Tail(inbox[c]) /\ inbox[c] \in Seq(Frame)
      /\ \A d \in Client : d # c => inbox'[d] = inbox[d]
  BY <1>1, <1>2, Takes
<1>6. Has(inbox[c], Answers) /\ One(inbox[c], Answers)
  BY <1>1, <1>2, <1>5, Taken DEF Places
<1>7. ~ Has(inbox'[c], Answers) /\ One(inbox'[c], Answers)
  BY <1>1, <1>5, <1>6, Taken
<1>8. conn[c] = "up" /\ c \notin asked
  BY <1>2, <1>6 DEF Places
<1>9. Places'
  BY <1>1, <1>2, <1>5, <1>7, <1>8 DEF Places
<1>10. Unanswered' = Unanswered \ {c}
  <2>1. Unanswered' = {d \in Client : conn'[d] = "opening" \/ d \in asked' \/ Has(inbox'[d], Answers)}
    BY DEF Unanswered, Has, Answers
  <2> QED BY <1>1, <1>5, <1>7, <1>8, <2>1, UnansweredIs
<1>11. Cardinality(Unanswered') = request_count'
  <2>1. IsFiniteSet(Unanswered) /\ Cardinality(Unanswered) = request_count
    BY <1>2, ClientsFinite DEF Unanswered, IInv, LoginInv
  <2>2. Cardinality(Unanswered \ {c}) = Cardinality(Unanswered) - 1
    BY <1>3, <2>1, FS_RemoveElement
  <2> QED BY <1>1, <1>10, <2>1, <2>2
<1>12. client_index' <= client_count /\ success_login' + request_count' = client_index'
       /\ request_count' <= Window
  BY <1>1, <1>2, <1>4 DEF IInv, LoginInv, BenchAssumption
<1>13. "start" \in timers' \/ messages' > 0 => success_login' = client_count
  BY <1>1, <1>4
<1> QED BY <1>2, <1>4, <1>9, <1>11, <1>12, <1>13 DEF LoginInv

LEMMA LoginNext == ASSUME BenchAssumption, IInv, Moves PROVE LoginInv'
<1>0. Shape
  BY DEF IInv
<1>1. CASE ~ Many
  <2>1. messages = 0 /\ \A c \in Client : due[c] = 0
    BY <1>1 DEF IInv, LoginInv
  <2>2. UNCHANGED <<program, messages, due>>
    BY <1>1, <2>1 DEF Moves, Next, Timer, Callback, LoginFunc, StartLogin, StartBroadcastTest,
       StartChatTest, ResultCount, Connected, LoginDone, LoginFailed, BroadcastReceived, ChatReceived,
       LoginReceived, SignUpDone, Broken, Answer, Deliver, Interfere, Many, test, buffers
  <2> QED BY <1>1, <2>1, <2>2 DEF LoginInv, Many
<1>2. CASE Many
  <2>1. CASE LoginFunc
    BY <2>1, OpenKeepsLogins
  <2>2. ASSUME UNCHANGED <<program, client_index, request_count, success_login, conn, asked, inbox>>,
               "start" \in timers' \/ messages' > 0 => "start" \in timers \/ messages > 0
        PROVE  LoginInv'
    <3>1. Places' /\ Unanswered' = Unanswered
      BY <1>2, <2>2 DEF IInv, LoginInv, Places, Unanswered
    <3> QED BY <1>2, <2>2, <3>1, NoLogin
  <2>3. CASE StartBroadcastTest \/ StartChatTest \/ ResultCount
    BY <2>2, <2>3 DEF StartBroadcastTest, StartChatTest, ResultCount, logins, test, buffers
  <2>4. ASSUME NEW c \in Client, LoginFailed(c) \/ Broken(c) PROVE LoginInv'
    BY <2>2, <2>4 DEF LoginFailed, Broken, logins, test, buffers
  <2>5. ASSUME NEW c \in Client, Deliver(c) \/ Interfere(c) PROVE LoginInv'
    <3>1. PICK x \in Messages : Put(c, x)
      BY <2>5 DEF Deliver, Interfere, Messages
    <3>2. UNCHANGED <<program, logins, timers, messages>>
      BY <2>5 DEF Deliver, Interfere, test
    <3> QED BY <1>0, <1>2, <3>1, <3>2, PutMessage, MessageKeepsLogins
  <2>6. ASSUME NEW c \in Client, BroadcastReceived(c) \/ ChatReceived(c) PROVE LoginInv'
    <3>1. Took(c) /\ Head(inbox[c]) \in Messages /\ UNCHANGED <<program, logins, timers, messages>>
      BY <2>6 DEF BroadcastReceived, ChatReceived, Messages
    <3> QED BY <1>0, <1>2, <3>1, TakeMessage, MessageKeepsLogins
  <2>7. ASSUME NEW c \in Client, StartLogin \/ LoginReceived(c) \/ SignUpDone(c) PROVE FALSE
    BY <1>2, <2>7 DEF StartLogin, LoginReceived, SignUpDone, Many, buffers
  <2>8. ~ StartLogin
    BY <1>2 DEF StartLogin, Many, buffers
  <2> QED BY <1>2, <2>1, <2>3, <2>4, <2>5, <2>6, <2>7, <2>8, ConnectedKeepsLogins, AnswerKeepsLogins,
             DoneKeepsLogins DEF Moves, Next, Timer, Callback
<1> QED BY <1>1, <1>2

-----------------------------------------------------------------------------
(* "broadcast".                                                            *)

Balance(c) == received[c] + due[c] + Count(inbox[c], Messages) = messages + foreign[c]

Done == {c \in Client : received[c] >= messageLimit}

LEMMA CountType ==
    ASSUME Shape, NEW c \in Client, NEW K
    PROVE  /\ inbox[c] \in Seq(Frame) /\ Count(inbox[c], K) \in Nat
           /\ received[c] \in Nat /\ due[c] \in Nat /\ foreign[c] \in Nat
<1>1. inbox[c] \in Seq(Frame)
  BY DEF Shape
<1>2. Count(inbox[c], K) \in Nat
  BY <1>1, CountNat
<1> QED BY <1>1, <1>2 DEF Shape

\* A step that counts nothing
LEMMA NoBroadcast ==
    ASSUME IInv, program = "broadcast", UNCHANGED <<program, received, messages, finish_count>>,
           "start" \in timers' => "start" \in timers \/ messages = 0,
           "result" \notin timers',
           state' = "counted" => state = "counted",
           messages = 0 => \A c \in Client : due'[c] = 0,
           \A c \in Client : Balance(c)'
    PROVE  BroadcastInv'
  BY DEF IInv, BroadcastInv, Balance

\* A step that changes one client's numbers
LEMMA OneBalance ==
    ASSUME NEW c \in Client, UNCHANGED messages, \A d \in Client : Balance(d),
           \A d \in Client : d # c => /\ received'[d] = received[d] /\ due'[d] = due[d]
                                      /\ inbox'[d] = inbox[d] /\ foreign'[d] = foreign[d],
           Balance(c)'
    PROVE  \A d \in Client : Balance(d)'
  BY DEF Balance

LEMMA BroadcastNext == ASSUME BenchAssumption, IInv, Moves PROVE BroadcastInv'
<1>1. CASE program # "broadcast"
  <2>1. program' = program
    BY DEF Moves, Next, Timer, Callback, LoginFunc, StartLogin, StartBroadcastTest, StartChatTest,
       ResultCount, Connected, LoginDone, LoginFailed, BroadcastReceived, ChatReceived, LoginReceived,
       SignUpDone, Broken, Answer, Deliver, Interfere, buffers
  <2> QED BY <1>1, <2>1 DEF BroadcastInv
<1>2. CASE program = "broadcast"
  <2>1. /\ Shape /\ "result" \notin timers /\ Many
        /\ messages \in {0, messageLimit} /\ ("start" \in timers => messages = 0)
        /\ messages = 0 => \A c \in Client : due[c] = 0
        /\ finish_count = Cardinality(Done) /\ (state = "counted" => finish_count = client_count)
        /\ \A c \in Client : Balance(c)
    BY <1>2 DEF IInv, BroadcastInv, Balance, Done, Many
  <2>2. ASSUME UNCHANGED <<program, inbox, test, foreign>>, timers' \subseteq timers,
               state' = state \/ state' # "counted"
        PROVE  BroadcastInv'
    <3>1. \A c \in Client : Balance(c)'
      BY <2>1, <2>2 DEF Balance, test
    <3> QED BY <1>2, <2>1, <2>2, <3>1, NoBroadcast DEF test
  <2>3. CASE LoginFunc
    BY <2>2, <2>3 DEF LoginFunc, Again, buffers
  <2>4. ASSUME NEW c \in Client, Connected(c) \/ LoginFailed(c) \/ Broken(c) PROVE BroadcastInv'
    <3>1. CASE Connected(c) BY <2>2, <3>1 DEF Connected, buffers
    <3>2. CASE LoginFailed(c) BY <2>2, <3>2 DEF LoginFailed, buffers
    <3>3. CASE Broken(c) BY <2>2, <3>3 DEF Broken, buffers
    <3> QED BY <2>4, <3>1, <3>2, <3>3
  <2>5. CASE StartBroadcastTest
    <3>1. /\ messages = 0 /\ messages' = messageLimit /\ timers' = timers \ {"start"}
          /\ due' = [c \in Client |-> messageLimit]
          /\ UNCHANGED <<program, state, inbox, received, finish_count, foreign>>
      BY <2>1, <2>5 DEF StartBroadcastTest, buffers
    <3>2. ASSUME NEW c \in Client PROVE Balance(c)'
      <4>1. received[c] + due[c] + Count(inbox[c], Messages) = messages + foreign[c] /\ due[c] = 0
        BY <2>1, <3>1 DEF Balance
      <4>2. /\ received[c] \in Nat /\ Count(inbox[c], Messages) \in Nat /\ foreign[c] \in Nat
            /\ messageLimit \in Nat /\ due'[c] = messageLimit
        BY <2>1, <3>1, CountType DEF BenchAssumption
      <4>3. received[c] + messageLimit + Count(inbox[c], Messages) = messageLimit + foreign[c]
        BY <3>1, <4>1, <4>2
      <4> QED BY <3>1, <4>2, <4>3 DEF Balance
    <3>3. messageLimit # 0 /\ Done' = Done
      BY <3>1 DEF BenchAssumption, Done
    <3> QED BY <1>2, <2>1, <3>1, <3>2, <3>3 DEF BroadcastInv, Balance, Done
  <2>6. ASSUME NEW c \in Client, LoginDone(c) PROVE BroadcastInv'
    <3>1. /\ UNCHANGED <<program, state, test, foreign>> /\ Took(c) /\ Head(inbox[c]) \notin Messages
          /\ timers' \subseteq timers \cup {"start"}
      BY <2>6 DEF LoginDone, Messages
    <3>2. messages = 0
      BY <2>6, DoneKeepsLogins
    <3>3. Count(inbox'[c], Messages) = Count(inbox[c], Messages)
      <4>1. inbox'[c] = Tail(inbox[c]) /\ inbox[c] \in Seq(Frame) /\ inbox[c] # <<>>
        BY <2>1, <3>1, Takes
      <4>2. Tail(inbox[c]) \in Seq(Frame)
        BY <4>1
      <4>3. Count(Tail(inbox[c]), Messages) \in Nat
        BY <4>2, CountNat
      <4>4. Count(inbox[c], Messages) = Count(Tail(inbox[c]), Messages) + 0
        BY <3>1, <4>1, CountTaken
      <4> QED BY <4>1, <4>3, <4>4
    <3>4. Balance(c)'
      BY <2>1, <3>1, <3>3 DEF Balance, test
    <3>5. \A d \in Client : Balance(d)'
      BY <2>1, <3>1, <3>4, Takes, OneBalance DEF test
    <3> QED BY <1>2, <2>1, <3>1, <3>2, <3>5, NoBroadcast DEF test
  <2>7. ASSUME NEW c \in Client, Answer(c) PROVE BroadcastInv'
    <3>1. /\ UNCHANGED <<program, state, timers, test, foreign>>
          /\ \E x \in Answers : inbox' = [inbox EXCEPT ![c] = Append(@, x)]
      BY <2>7 DEF Answer, Put, Answers
    <3>2. PICK x \in Answers : inbox' = [inbox EXCEPT ![c] = Append(@, x)]
      BY <3>1
    <3>3. /\ x \in Frame /\ x \notin Messages /\ inbox'[c] = Append(inbox[c], x)
          /\ \A d \in Client : d # c => inbox'[d] = inbox[d]
      BY <2>1, <3>2 DEF Shape, Frame, Answers, Messages
    <3>4. Count(inbox'[c], Messages) = Count(inbox[c], Messages)
      BY <2>1, <3>3, CountAppended, CountType
    <3>5. Balance(c)'
      BY <2>1, <3>1, <3>4 DEF Balance, test
    <3>6. \A d \in Client : Balance(d)'
      BY <2>1, <3>1, <3>3, <3>5, OneBalance DEF test
    <3> QED BY <1>2, <2>1, <3>1, <3>6, NoBroadcast DEF test
  <2>8. ASSUME NEW c \in Client, Deliver(c) PROVE BroadcastInv'
    <3>1. /\ UNCHANGED <<program, state, timers, messages, received, finish_count, foreign>>
          /\ due[c] > 0 /\ due' = [due EXCEPT ![c] = @ - 1] /\ Put(c, "message")
      BY <2>8 DEF Deliver, logins
    <3>2. /\ inbox'[c] = Append(inbox[c], "message") /\ "message" \in Frame /\ "message" \in Messages
          /\ \A d \in Client : d # c => inbox'[d] = inbox[d]
      BY <2>1, <3>1, PutMessage DEF Messages
    <3>3. due'[c] = due[c] - 1 /\ \A d \in Client : d # c => due'[d] = due[d]
      BY <2>1, <3>1 DEF Shape
    <3>4. Count(inbox'[c], Messages) = Count(inbox[c], Messages) + 1
      BY <2>1, <3>2, CountAppended, CountType
    <3>5. /\ received[c] \in Nat /\ due[c] \in Nat /\ Count(inbox[c], Messages) \in Nat
          /\ received[c] + due[c] + Count(inbox[c], Messages) = messages + foreign[c]
      BY <2>1, CountType DEF Balance
    <3>6. received[c] + (due[c] - 1) + (Count(inbox[c], Messages) + 1) = messages + foreign[c]
      BY <3>5
    <3>7. Balance(c)'
      BY <3>1, <3>3, <3>4, <3>6 DEF Balance
    <3>8. \A d \in Client : Balance(d)'
      BY <2>1, <3>1, <3>2, <3>3, <3>7, OneBalance
    <3>9. messages # 0
      BY <2>1, <3>1
    <3> QED BY <1>2, <2>1, <3>1, <3>8, <3>9, NoBroadcast
  <2>9. ASSUME NEW c \in Client, Interfere(c) PROVE BroadcastInv'
    <3>1. /\ UNCHANGED <<program, state, timers, test>>
          /\ foreign' = [foreign EXCEPT ![c] = @ + 1] /\ Put(c, "other")
      BY <2>9 DEF Interfere
    <3>2. /\ inbox'[c] = Append(inbox[c], "other") /\ "other" \in Frame /\ "other" \in Messages
          /\ \A d \in Client : d # c => inbox'[d] = inbox[d]
      BY <2>1, <3>1, PutMessage DEF Messages
    <3>3. foreign'[c] = foreign[c] + 1 /\ \A d \in Client : d # c => foreign'[d] = foreign[d]
      BY <2>1, <3>1 DEF Shape
    <3>4. Count(inbox'[c], Messages) = Count(inbox[c], Messages) + 1
      BY <2>1, <3>2, CountAppended, CountType
    <3>5. /\ received[c] \in Nat /\ due[c] \in Nat /\ Count(inbox[c], Messages) \in Nat
          /\ foreign[c] \in Nat /\ messages \in Nat
          /\ received[c] + due[c] + Count(inbox[c], Messages) = messages + foreign[c]
      BY <2>1, CountType DEF Balance, Shape
    <3>6. received[c] + due[c] + (Count(inbox[c], Messages) + 1) = messages + (foreign[c] + 1)
      BY <3>5
    <3>7. Balance(c)'
      BY <3>1, <3>3, <3>4, <3>6 DEF Balance, test
    <3>8. \A d \in Client : Balance(d)'
      BY <2>1, <3>1, <3>2, <3>3, <3>7, OneBalance DEF test
    <3> QED BY <1>2, <2>1, <3>1, <3>8, NoBroadcast DEF test
  <2>10. ASSUME NEW c \in Client, BroadcastReceived(c) PROVE BroadcastInv'
    <3>1. /\ UNCHANGED <<program, timers, due, messages, foreign>> /\ Took(c)
          /\ Head(inbox[c]) \in Messages /\ received' = [received EXCEPT ![c] = @ + 1]
          /\ finish_count' = finish_count + (IF received'[c] = messageLimit THEN 1 ELSE 0)
          /\ state' = IF finish_count' = client_count THEN "counted" ELSE state
          /\ state # "counted"
      BY <2>10 DEF BroadcastReceived, Messages, Finished, Took, Runs
    <3>2. received'[c] = received[c] + 1 /\ \A d \in Client : d # c => received'[d] = received[d]
      BY <2>1, <3>1 DEF Shape
    <3>3. Count(inbox[c], Messages) = Count(inbox'[c], Messages) + 1
      BY <2>1, <3>1, Takes, CountTaken
    <3>4. inbox'[c] \in Seq(Frame)
      BY <2>1, <3>1, Takes, Taken
    <3>5. /\ received[c] \in Nat /\ due[c] \in Nat /\ Count(inbox'[c], Messages) \in Nat
          /\ received[c] + due[c] + Count(inbox[c], Messages) = messages + foreign[c]
      BY <2>1, <3>4, CountType, CountNat DEF Balance
    <3>6. (received[c] + 1) + due[c] + Count(inbox'[c], Messages) = messages + foreign[c]
      BY <3>3, <3>5
    <3>7. Balance(c)'
      BY <3>1, <3>2, <3>6 DEF Balance
    <3>8. \A d \in Client : Balance(d)'
      BY <2>1, <3>1, <3>2, <3>7, Takes, OneBalance
    <3>9. finish_count' = Cardinality(Done')
      <4>1. IsFiniteSet(Done) /\ Cardinality(Done) \in Nat /\ messageLimit \in Nat
        BY ClientsFinite DEF Done, BenchAssumption
      <4>2. CASE received[c] + 1 = messageLimit
        <5>1. c \notin Done /\ Done' = Done \cup {c}
          BY <3>2, <3>5, <4>1, <4>2 DEF Done
        <5> QED BY <2>1, <3>1, <3>2, <4>1, <4>2, <5>1, FS_AddElement
      <4>3. CASE received[c] + 1 # messageLimit
        <5>1. received[c] + 1 >= messageLimit <=> received[c] >= messageLimit
          BY <3>5, <4>1, <4>3
        <5>2. \A d \in Client : received'[d] >= messageLimit <=> received[d] >= messageLimit
          BY <3>2, <5>1
        <5>3. Done' = Done
          BY <5>2 DEF Done
        <5> QED BY <2>1, <3>1, <3>2, <4>1, <4>3, <5>3
      <4> QED BY <4>2, <4>3
    <3> QED BY <1>2, <2>1, <3>1, <3>8, <3>9 DEF BroadcastInv, Balance, Done
  <2>11. ASSUME NEW c \in Client
         PROVE  ~ StartLogin /\ ~ StartChatTest /\ ~ ResultCount /\ ~ ChatReceived(c)
                /\ ~ LoginReceived(c) /\ ~ SignUpDone(c)
    BY <1>2, <2>1 DEF StartLogin, StartChatTest, ResultCount, ChatReceived, LoginReceived, SignUpDone,
       buffers
  <2>12. ~ StartLogin /\ ~ StartChatTest /\ ~ ResultCount
    BY <1>2, <2>1 DEF StartLogin, StartChatTest, ResultCount, buffers
  <2> QED BY <2>3, <2>4, <2>5, <2>6, <2>7, <2>8, <2>9, <2>10, <2>11, <2>12 DEF Moves, Next, Timer,
     Callback
<1> QED BY <1>1, <1>2

-----------------------------------------------------------------------------
(* "online".                                                               *)

\* A step that neither moves nor counts a message
LEMMA NoChat ==
    ASSUME IInv, program = "online", UNCHANGED <<program, messages>>, Load' = Load,
           "result" \in timers' => "result" \in timers,
           state' = "counted" => state = "counted"
    PROVE  OnlineInv'
  BY DEF IInv, OnlineInv

\* A step that moves a message to one client, or counts it
LEMMA SameLoad ==
    ASSUME NEW c \in Client,
           \A d \in Client : d # c => /\ received'[d] = received[d] /\ due'[d] = due[d]
                                      /\ inbox'[d] = inbox[d],
           received'[c] + due'[c] + Count(inbox'[c], {"message"})
               = received[c] + due[c] + Count(inbox[c], {"message"})
    PROVE  Load' = Load
  BY DEF Load

LEMMA OnlineNext == ASSUME BenchAssumption, IInv, Moves PROVE OnlineInv'
<1> DEFINE K == {"message"}
<1>1. CASE program # "online"
  <2>1. program' = program
    BY DEF Moves, Next, Timer, Callback, LoginFunc, StartLogin, StartBroadcastTest, StartChatTest,
       ResultCount, Connected, LoginDone, LoginFailed, BroadcastReceived, ChatReceived, LoginReceived,
       SignUpDone, Broken, Answer, Deliver, Interfere, buffers
  <2> QED BY <1>1, <2>1 DEF OnlineInv
<1>2. CASE program = "online"
  <2>1. /\ Shape /\ Many /\ SumFunction(Load) = messages /\ messages <= messageLimit
        /\ "result" \in timers \/ state = "counted" => messages = messageLimit
        /\ messages \in Nat /\ messageLimit \in Nat
    BY <1>2 DEF IInv, OnlineInv, Many, Shape, BenchAssumption
  <2>2. ASSUME UNCHANGED <<program, messages, received, due, inbox>>,
               "result" \in timers' => "result" \in timers,
               state' = state \/ state' # "counted"
        PROVE  OnlineInv'
    <3>1. Load' = Load
      BY <2>2 DEF Load
    <3> QED BY <1>2, <2>2, <3>1, NoChat
  <2>3. CASE LoginFunc
    BY <2>2, <2>3 DEF LoginFunc, Again, test, buffers
  <2>4. ASSUME NEW c \in Client, Connected(c) \/ LoginFailed(c) \/ Broken(c) PROVE OnlineInv'
    <3>1. CASE Connected(c) BY <2>2, <3>1 DEF Connected, test, buffers
    <3>2. CASE LoginFailed(c) BY <2>2, <3>2 DEF LoginFailed, test, buffers
    <3>3. CASE Broken(c) BY <2>2, <3>3 DEF Broken, test, buffers
    <3> QED BY <2>4, <3>1, <3>2, <3>3
  <2>5. CASE ResultCount
    <3>1. /\ "result" \in timers /\ UNCHANGED <<program, messages>> /\ Load' = Load
      BY <2>5 DEF ResultCount, test, Load, buffers
    <3> QED BY <2>1, <3>1 DEF OnlineInv
  <2>6. CASE StartChatTest
    <3>1. CASE messages < messageLimit
      <4>1. PICK c \in Client : due' = [due EXCEPT ![c] = @ + 1]
        BY <2>6, <3>1 DEF StartChatTest, buffers
      <4>2. messages' = messages + 1 /\ UNCHANGED <<program, state, timers, inbox, received>>
        BY <2>6, <3>1 DEF StartChatTest, buffers
      <4>3. Load \in [Client -> Nat]
        BY <2>1, CountType DEF Load
      <4>4. Load' = [Load EXCEPT ![c] = @ + 1]
        <5>1. \A d \in Client : due'[d] = IF d = c THEN due[d] + 1 ELSE due[d]
          BY <2>1, <4>1 DEF Shape
        <5>2. \A d \in Client : /\ received[d] \in Nat /\ due[d] \in Nat
                                /\ Count(inbox[d], K) \in Nat
          BY <2>1, CountType
        <5>3. \A d \in Client : received[d] + due'[d] + Count(inbox[d], K)
                  = IF d = c THEN received[d] + due[d] + Count(inbox[d], K) + 1
                    ELSE received[d] + due[d] + Count(inbox[d], K)
          BY <5>1, <5>2
        <5>4. Load' = [d \in Client |-> received[d] + due'[d] + Count(inbox[d], K)]
          BY <4>2 DEF Load
        <5>5. \A d \in Client : Load'[d] = [Load EXCEPT ![c] = @ + 1][d]
          BY <5>3, <5>4 DEF Load
        <5> QED BY <4>3, <5>4, <5>5
      <4>5. SumFunction(Load') = messages + 1
        BY <2>1, <4>3, <4>4, ClientsFinite, SumMore
      <4>6. messages' <= messageLimit
        BY <2>1, <3>1, <4>2
      <4>7. "result" \notin timers /\ state # "counted"
        BY <2>1, <3>1
      <4> QED BY <4>2, <4>5, <4>6, <4>7 DEF OnlineInv
    <3>2. CASE ~ (messages < messageLimit)
      <4>1. messages = messageLimit
        BY <2>1, <3>2
      <4>2. UNCHANGED <<program, messages>> /\ Load' = Load
        BY <2>6, <3>2 DEF StartChatTest, Load, buffers
      <4> QED BY <2>1, <4>1, <4>2 DEF OnlineInv
    <3> QED BY <3>1, <3>2
  <2>7. ASSUME NEW c \in Client, LoginDone(c) \/ ChatReceived(c) PROVE OnlineInv'
    <3>1. /\ UNCHANGED <<program, state, messages, due>> /\ Took(c)
          /\ "result" \in timers' => "result" \in timers
          /\ received' = IF Head(inbox[c]) \in K THEN [received EXCEPT ![c] = @ + 1] ELSE received
      BY <2>7 DEF LoginDone, ChatReceived, test
    <3>2. /\ received'[c] = received[c] + (IF Head(inbox[c]) \in K THEN 1 ELSE 0)
          /\ \A d \in Client : d # c => received'[d] = received[d] /\ inbox'[d] = inbox[d]
      <4>1. received[c] \in Nat /\ received \in [Client -> Nat]
        BY <2>1 DEF Shape
      <4> QED BY <2>1, <3>1, <4>1, Takes
    <3>3. /\ Count(inbox[c], K) = Count(inbox'[c], K) + (IF Head(inbox[c]) \in K THEN 1 ELSE 0)
          /\ Count(inbox'[c], K) \in Nat
      <4>1. /\ inbox'[c] = Tail(inbox[c]) /\ inbox[c] \in Seq(Frame) /\ inbox[c] # <<>>
            /\ Tail(inbox[c]) \in Seq(Frame)
        BY <2>1, <3>1, Takes, Taken
      <4> QED BY <4>1, CountTaken, CountNat
    <3>4. received[c] \in Nat /\ due[c] \in Nat
      BY <2>1, CountType
    <3>5. received'[c] + due'[c] + Count(inbox'[c], K) = received[c] + due[c] + Count(inbox[c], K)
      BY <3>1, <3>2, <3>3, <3>4
    <3>6. Load' = Load
      BY <3>1, <3>2, <3>5, SameLoad
    <3> QED BY <1>2, <3>1, <3>6, NoChat
  <2>8. ASSUME NEW c \in Client, Answer(c) \/ Deliver(c) \/ Interfere(c) PROVE OnlineInv'
    <3>1. UNCHANGED <<program, state, timers, messages, received>>
      BY <2>8 DEF Answer, Deliver, Interfere, logins, test
    <3>2. PICK x \in Frame : /\ Put(c, x)
                             /\ x \in K => due[c] > 0
                             /\ due' = IF x \in K THEN [due EXCEPT ![c] = @ - 1] ELSE due
      BY <2>8 DEF Answer, Deliver, Interfere, test, Frame, Answers, Messages
    <3>3. /\ due[c] \in Nat /\ received[c] \in Nat /\ Count(inbox[c], K) \in Nat
          /\ inbox[c] \in Seq(Frame)
      BY <2>1, CountType
    <3>4. inbox'[c] = Append(inbox[c], x) /\ \A d \in Client : d # c => inbox'[d] = inbox[d]
      BY <2>1, <3>2 DEF Put, Shape
    <3>5. /\ due'[c] = IF x \in K THEN due[c] - 1 ELSE due[c]
          /\ \A d \in Client : d # c => due'[d] = due[d]
      BY <2>1, <3>2 DEF Shape
    <3>6. Count(inbox'[c], K) = Count(inbox[c], K) + (IF x \in K THEN 1 ELSE 0)
      BY <3>3, <3>4, CountAppended
    <3>7. received'[c] + due'[c] + Count(inbox'[c], K) = received[c] + due[c] + Count(inbox[c], K)
      BY <3>1, <3>3, <3>5, <3>6
    <3>8. Load' = Load
      BY <3>1, <3>4, <3>5, <3>7, SameLoad
    <3> QED BY <1>2, <3>1, <3>8, NoChat
  <2>9. ASSUME NEW c \in Client
        PROVE  ~ BroadcastReceived(c) /\ ~ LoginReceived(c) /\ ~ SignUpDone(c)
    BY <1>2 DEF BroadcastReceived, LoginReceived, SignUpDone
  <2>10. ~ StartLogin /\ ~ StartBroadcastTest
    BY <1>2 DEF StartLogin, StartBroadcastTest, buffers
  <2> QED BY <2>3, <2>4, <2>5, <2>6, <2>7, <2>8, <2>9, <2>10 DEF Moves, Next, Timer, Callback
<1> QED BY <1>1, <1>2

-----------------------------------------------------------------------------
(* "signup" and "login".                                                   *)

LEMMA SignUpNext == ASSUME BenchAssumption, IInv, Moves PROVE SignUpInv'
<1>1. CASE program # "signup"
  <2>1. program' = program
    BY DEF Moves, Next, Timer, Callback, LoginFunc, StartLogin, StartBroadcastTest, StartChatTest,
       ResultCount, Connected, LoginDone, LoginFailed, BroadcastReceived, ChatReceived, LoginReceived,
       SignUpDone, Broken, Answer, Deliver, Interfere, buffers
  <2> QED BY <1>1, <2>1 DEF SignUpInv
<1>2. CASE program = "signup"
  <2>1. /\ Shape /\ ~ Many /\ timers = {} /\ \A c \in Client : due[c] = 0
        /\ state = "counted" => success_login = client_count /\ asked = {}
    BY <1>2 DEF IInv, SignUpInv, LoginInv, Many
  <2>2. ~ Timer
    BY <2>1 DEF Timer, LoginFunc, StartLogin, StartBroadcastTest, StartChatTest, ResultCount, buffers
  <2>3. PICK c \in Client : Connected(c) \/ SignUpDone(c) \/ Broken(c) \/ Answer(c)
    BY <1>2, <2>1, <2>2 DEF Moves, Next, Callback, LoginDone, LoginFailed, BroadcastReceived,
       ChatReceived, LoginReceived, Deliver, Interfere, buffers
  <2>4. c = 1 /\ \A d \in Client : d # c => conn[d] = "none" /\ d \notin asked /\ inbox[d] = <<>>
    <3>1. \A d \in Client : d # 1 => conn[d] = "none" /\ d \notin asked /\ inbox[d] = <<>>
      BY <1>2 DEF IInv, SignUpInv
    <3>2. SignUpDone(c) => inbox[c] # <<>>
      BY <2>1, Takes DEF SignUpDone
    <3>3. c = 1
      BY <2>3, <3>1, <3>2 DEF Connected, Broken, Answer
    <3> QED BY <3>1, <3>3
  <2>5. /\ conn[c] # "none"
        /\ conn[c] = "opening" => c \notin asked /\ inbox[c] = <<>> /\ success_login = 0
        /\ conn[c] = "up" =>
             /\ client_index \in Client
             /\ c \in asked => inbox[c] = <<>>
             /\ c \in asked \/ inbox[c] # <<>> => success_login = client_index - 1
             /\ Len(inbox[c]) <= 1
    BY <1>2, <2>4 DEF IInv, SignUpInv
  <2>6. /\ conn \in [Client -> {"none", "opening", "up"}] /\ inbox[c] \in Seq(Frame)
        /\ asked \subseteq Client /\ client_index \in Nat /\ success_login \in Nat /\ client_count \in Nat
    BY <2>1 DEF Shape, BenchAssumption
  <2>7. c \in Client /\ \A d \in Client : d # 1 => d # c
    BY <2>4
  <2>8. ASSUME UNCHANGED program, timers' = {},
               \A d \in Client : d # c => conn'[d] = "none" /\ d \notin asked' /\ inbox'[d] = <<>>,
               conn'[c] = "up", client_index' \in Client, Len(inbox'[c]) <= 1,
               c \in asked' => inbox'[c] = <<>>,
               c \in asked' \/ inbox'[c] # <<>> => success_login' = client_index' - 1,
               state' = "counted" => success_login' = client_count /\ asked' = {}
        PROVE  SignUpInv'
    BY <1>2, <2>4, <2>8 DEF SignUpInv
  <2>9. CASE Connected(c)
    <3>1. /\ UNCHANGED <<program, state, timers, inbox, success_login>> /\ conn[c] = "opening"
          /\ conn' = [conn EXCEPT ![c] = "up"] /\ asked' = asked \cup {c} /\ client_index' = 1 /\ state = "runs"
      BY <1>2, <2>9 DEF Connected, Runs, buffers
    <3>2. conn'[c] = "up" /\ \A d \in Client : d # c => conn'[d] = conn[d]
      BY <2>6, <3>1
    <3>3. inbox'[c] = <<>> /\ Len(inbox'[c]) <= 1
      BY <2>5, <3>1
    <3>4. client_index' \in Client /\ success_login' = client_index' - 1
      BY <2>4, <2>5, <2>7, <3>1
    <3> QED BY <2>1, <2>4, <2>8, <3>1, <3>2, <3>3, <3>4
  <2>10. CASE SignUpDone(c)
    <3>1. /\ UNCHANGED <<program, timers, conn>> /\ Took(c) /\ success_login' = success_login + 1
          /\ IF client_index = client_count
             THEN state' = "counted" /\ UNCHANGED <<client_index, asked>>
             ELSE client_index' = client_index + 1 /\ asked' = asked \cup {c} /\ UNCHANGED state
          /\ state = "runs"
      BY <2>10 DEF SignUpDone, Took, Runs
    <3>2. inbox[c] # <<>> /\ inbox'[c] = Tail(inbox[c]) /\ \A d \in Client : d # c => inbox'[d] = inbox[d]
      BY <2>1, <3>1, Takes
    <3>3. conn[c] = "up"
      BY <2>5, <2>6, <3>2
    <3>4. /\ client_index \in Client /\ c \notin asked /\ success_login = client_index - 1
          /\ Len(inbox[c]) <= 1
      BY <2>5, <3>2, <3>3
    <3>5. inbox'[c] = <<>> /\ Len(inbox'[c]) <= 1
      BY <2>6, <3>2, <3>4
    <3>6. CASE client_index = client_count
      <4>1. asked = {}
        BY <2>4, <2>6, <3>4
      <4>2. success_login' = client_count
        BY <2>6, <3>1, <3>4, <3>6
      <4> QED BY <2>1, <2>4, <2>8, <3>1, <3>2, <3>3, <3>4, <3>5, <3>6, <4>1, <4>2
    <3>7. CASE client_index # client_count
      <4>1. client_index' \in Client /\ success_login' = client_index' - 1
        BY <2>6, <3>1, <3>4, <3>7 DEF Client
      <4> QED BY <2>1, <2>4, <2>8, <3>1, <3>2, <3>3, <3>5, <3>7, <4>1
    <3> QED BY <3>6, <3>7
  <2>11. CASE Broken(c)
    <3>1. UNCHANGED <<program, timers, conn, asked, inbox, client_index, success_login>>
          /\ conn[c] = "up" /\ state' = "broken"
      BY <2>11 DEF Broken, logins, buffers
    <3> QED BY <2>1, <2>4, <2>5, <2>8, <3>1
  <2>12. CASE Answer(c)
    <3>1. /\ UNCHANGED <<program, state, timers, conn, client_index, success_login>>
          /\ c \in asked /\ asked' = asked \ {c}
      BY <2>12 DEF Answer
    <3>2. PICK x \in Answers : Put(c, x)
      BY <2>12 DEF Answer, Answers
    <3>3. inbox'[c] = Append(inbox[c], x) /\ \A d \in Client : d # c => inbox'[d] = inbox[d]
      BY <2>1, <3>2 DEF Put, Shape
    <3>4. conn[c] = "up"
      BY <2>5, <2>6, <3>1
    <3>5. inbox[c] = <<>> /\ success_login = client_index - 1 /\ client_index \in Client
      BY <2>5, <3>1, <3>4
    <3>6. Len(inbox'[c]) <= 1
      BY <3>3, <3>5
    <3>7. state' # "counted"
      BY <2>1, <3>1
    <3> QED BY <2>1, <2>4, <2>8, <3>1, <3>3, <3>4, <3>5, <3>6, <3>7
  <2> QED BY <2>3, <2>9, <2>10, <2>11, <2>12
<1> QED BY <1>1, <1>2

LEMMA NotifiedNext == ASSUME BenchAssumption, IInv, Moves PROVE NotifiedInv'
<1>1. CASE program # "login"
  <2>1. program' = program
    BY DEF Moves, Next, Timer, Callback, LoginFunc, StartLogin, StartBroadcastTest, StartChatTest,
       ResultCount, Connected, LoginDone, LoginFailed, BroadcastReceived, ChatReceived, LoginReceived,
       SignUpDone, Broken, Answer, Deliver, Interfere, buffers
  <2> QED BY <1>1, <2>1 DEF NotifiedInv
<1>2. CASE program = "login"
  <2>1. Shape /\ ("result" \in timers \/ state = "counted" => SumFunction(received) >= Expected)
    BY <1>2 DEF IInv, NotifiedInv
  <2>2. SumFunction(received) \in Nat
    BY <2>1, ClientsFinite, SumNat DEF Shape
  <2>3. ASSUME NEW c \in Client, LoginReceived(c) PROVE NotifiedInv'
    <3>1. state' = state /\ state # "counted" /\ program' = program
      BY <2>3 DEF LoginReceived, Took, Runs
    <3>2. CASE received' = received /\ timers' = timers
      BY <2>1, <3>1, <3>2 DEF NotifiedInv, Expected
    <3>3. CASE /\ received' = [received EXCEPT ![c] = @ + 1]
               /\ timers' = IF SumFunction(received') = Expected THEN timers \cup {"result"} ELSE timers
      <4>1. SumFunction(received') = SumFunction(received) + 1
        BY <2>1, <3>3, ClientsFinite, SumMore DEF Shape
      <4>2. Expected' = Expected /\ Expected \in Int
        BY DEF Expected, BenchAssumption
      <4>3. "result" \in timers' => SumFunction(received') >= Expected
        BY <2>1, <2>2, <3>3, <4>1, <4>2
      <4> QED BY <3>1, <4>2, <4>3 DEF NotifiedInv
    <3> QED BY <2>3, <3>2, <3>3 DEF LoginReceived
  <2>4. ASSUME UNCHANGED <<program, received>>,
               "result" \in timers' \/ state' = "counted" => "result" \in timers \/ state = "counted"
        PROVE  NotifiedInv'
    BY <2>1, <2>4 DEF NotifiedInv, Expected
  <2>5. CASE StartLogin
    BY <2>4, <2>5 DEF StartLogin, test, buffers
  <2>6. CASE ResultCount
    BY <2>4, <2>6 DEF ResultCount, test, buffers
  <2>7. ASSUME NEW c \in Client,
               Connected(c) \/ Broken(c) \/ Answer(c) \/ Deliver(c) \/ Interfere(c)
        PROVE  NotifiedInv'
    <3>1. CASE Connected(c) BY <2>4, <3>1 DEF Connected, test, buffers
    <3>2. CASE Broken(c) BY <2>4, <3>2 DEF Broken, test, buffers
    <3>3. CASE Answer(c) BY <2>4, <3>3 DEF Answer, test
    <3>4. CASE Deliver(c) BY <2>4, <3>4 DEF Deliver
    <3>5. CASE Interfere(c) BY <2>4, <3>5 DEF Interfere, test
    <3> QED BY <2>7, <3>1, <3>2, <3>3, <3>4, <3>5
  <2>8. ASSUME NEW c \in Client
        PROVE  ~ LoginDone(c) /\ ~ LoginFailed(c) /\ ~ BroadcastReceived(c) /\ ~ ChatReceived(c)
               /\ ~ SignUpDone(c)
    BY <1>2 DEF LoginDone, LoginFailed, BroadcastReceived, ChatReceived, SignUpDone, Many, buffers
  <2>9. ~ LoginFunc /\ ~ StartBroadcastTest /\ ~ StartChatTest
    BY <1>2 DEF LoginFunc, StartBroadcastTest, StartChatTest, Many, buffers
  <2> QED BY <2>3, <2>5, <2>6, <2>7, <2>8, <2>9 DEF Moves, Next, Timer, Callback
<1> QED BY <1>1, <1>2

-----------------------------------------------------------------------------
\* What is left of a frame, and the end in a torn one, change nothing of it.
LEMMA Still ==
    ASSUME IInv,
           UNCHANGED <<program, timers, client_index, request_count, success_login, bad_login, conn,
                       asked, inbox, due, messages, received, finish_count, foreign>>,
           state' \in {state, "torn"}
    PROVE  IInv'
<1>1. state' = "counted" => state = "counted"
  OBVIOUS
<1>2. Shape' /\ SignUpInv'
  BY <1>1 DEF IInv, Shape, SignUpInv
<1>3. LoginInv'
  BY DEF IInv, LoginInv, Many, Places, Unanswered
<1>4. BroadcastInv' /\ NotifiedInv'
  BY <1>1 DEF IInv, BroadcastInv, NotifiedInv, Expected
<1>5. OnlineInv'
  BY <1>1 DEF IInv, OnlineInv, Load
<1> QED BY <1>2, <1>3, <1>4, <1>5 DEF IInv

LEMMA InvMeasured == ASSUME BenchAssumption, IInv PROVE Measured
<1>0. Shape /\ LoginInv /\ IsFiniteSet(Unanswered) /\ Cardinality(Unanswered) \in Nat
  BY ClientsFinite DEF IInv, Unanswered
<1>1. Many => Cardinality(Unanswered) <= Window
  BY <1>0 DEF LoginInv
<1>2. messages > 0 => success_login = client_count /\ Unanswered = {}
  <2> SUFFICES ASSUME messages > 0 PROVE success_login = client_count /\ Unanswered = {}
    OBVIOUS
  <2>1. Many /\ success_login = client_count
    BY <1>0 DEF LoginInv
  <2>2. Unanswered = {}
    <3> SUFFICES ASSUME NEW c \in Unanswered PROVE FALSE
      OBVIOUS
    <3>1. c \in Client
      BY DEF Unanswered
    <3> QED BY <2>1, <3>1, UnderWay
  <2> QED BY <2>1, <2>2
<1>3. ASSUME state = "counted", program = "broadcast", NEW c \in Client
      PROVE  received[c] >= messageLimit /\ due[c] <= foreign[c]
  <2>1. /\ finish_count = Cardinality(Done) /\ finish_count = client_count
        /\ messages \in {0, messageLimit}
        /\ received[c] + due[c] + Count(inbox[c], Messages) = messages + foreign[c]
    BY <1>3 DEF IInv, BroadcastInv, Done
  <2>2. Done = Client
    <3>1. Done \in SUBSET Client
      BY DEF Done
    <3> QED BY <2>1, <3>1, ClientsFinite, FS_Subset
  <2>3. received[c] >= messageLimit
    BY <2>2 DEF Done
  <2>4. /\ received[c] \in Nat /\ due[c] \in Nat /\ foreign[c] \in Nat
        /\ Count(inbox[c], Messages) \in Nat /\ messageLimit \in Nat
    BY <1>0, CountType DEF BenchAssumption
  <2> QED BY <2>1, <2>3, <2>4
<1>4. ASSUME state = "counted", program = "online"
      PROVE  messages = messageLimit /\ SumFunction(received) <= messages
  <2>1. messages = messageLimit /\ SumFunction(Load) = messages
    BY <1>4 DEF IInv, OnlineInv
  <2>2. ASSUME NEW c \in Client
        PROVE  /\ received[c] \in Nat /\ due[c] \in Nat /\ Count(inbox[c], {"message"}) \in Nat
    BY <1>0, CountType
  <2>3. received \in [Client -> Nat] /\ Load \in [Client -> Nat]
    BY <1>0, <2>2 DEF Shape, Load
  <2>4. \A c \in Client : received[c] <= Load[c]
    BY <2>2 DEF Load
  <2>5. SumFunction(received) <= SumFunction(Load)
    BY <2>3, <2>4, ClientsFinite, SumAtMost
  <2> QED BY <2>1, <2>5
<1>5. ASSUME state = "counted", program = "signup"
      PROVE  success_login = client_count /\ asked = {}
  BY <1>5 DEF IInv, SignUpInv
<1>6. ASSUME state = "counted", program = "login"
      PROVE  SumFunction(received) >= Expected
  BY <1>6 DEF IInv, NotifiedInv
<1>7. program \in {"broadcast", "online", "login", "signup"}
  BY <1>0 DEF Shape, Program
<1>8. state = "counted" =>
         CASE program = "broadcast" -> \A c \in Client :
                  received[c] >= messageLimit /\ due[c] <= foreign[c]
           [] program = "online"    -> /\ messages = messageLimit
                                       /\ SumFunction(received) <= messages
           [] program = "signup"    -> success_login = client_count /\ asked = {}
           [] OTHER                 -> SumFunction(received) >= Expected
  <2>1. CASE program = "broadcast" BY <1>3, <2>1
  <2>2. CASE program = "online" BY <1>4, <2>2
  <2>3. CASE program = "signup" BY <1>5, <2>3
  <2>4. CASE program = "login" BY <1>6, <2>4
  <2> QED BY <1>7, <2>1, <2>2, <2>3, <2>4
<1> QED BY <1>1, <1>2, <1>8 DEF Measured

\* What a load generator prints was measured: messages are only sent when all
\* clients are logged in, never are more logins under way than the window
\* allows, and what is counted was sent, but for what others have caused.
THEOREM MeasuresTruly ==
    ASSUME BenchAssumption
    PROVE  Spec => []Measured
<1>1. Init => IInv
  BY BenchInit
<1>2. IInv /\ [Next]_vars => IInv'
  <2> SUFFICES ASSUME IInv, [Next]_vars PROVE IInv'
    OBVIOUS
  <2>1. CASE Moves
    BY <2>1, ShapeNext, LoginNext, BroadcastNext, OnlineNext, SignUpNext, NotifiedNext DEF IInv
  <2>2. ASSUME NEW c \in Client, Rest(c) \/ Torn(c) PROVE IInv'
    BY <2>2, Still DEF Rest, Torn, logins, test, buffers
  <2>3. CASE UNCHANGED vars
    BY <2>3, Still DEF vars, logins, test, buffers
  <2> QED BY <2>1, <2>2, <2>3 DEF Moves
<1>3. IInv => Measured
  BY InvMeasured
<1> QED BY <1>1, <1>2, <1>3, PTL DEF Spec

=============================================================================
