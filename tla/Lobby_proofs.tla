---------------------------- MODULE Lobby_proofs ----------------------------
(***************************************************************************)
(* Proofs about Lobby for any number of servers, connections, users,       *)
(* messages and logins.                                                    *)
(***************************************************************************)
EXTENDS Lobby, SequenceTheorems, FiniteSetTheorems, WellFoundedInduction, TLAPS

\* Every non-empty set of naturals has a least element: the form in which the
\* proofs of this module do induction over data.
LEMMA Least == ASSUME NEW T \in SUBSET Nat, T # {}
               PROVE  \E x \in T : \A y \in T : x <= y
<1> DEFINE R == {p \in Nat \X Nat : p[1] < p[2]}
<1>1. IsWellFoundedOn(R, Nat)
  BY NatLessThanWellFounded DEF OpToRel
<1>2. \E x \in T : \A y \in T : ~ (<<y, x>> \in R)
  <2> HIDE DEF R
  <2> QED BY <1>1, WFMin
<1>3. PICK x \in T : \A y \in T : ~ (<<y, x>> \in R)
  BY <1>2
<1>4. \A y \in T : ~ (y < x)
  BY <1>3
<1> QED BY <1>4

\* f is Accepted, one message after another.
Steps(f, queue, list, B) ==
    /\ Accepted(queue, list, B) = f[Len(list)]
    /\ f[0] = queue
    /\ \A i \in 1..Len(list) :
          f[i] = IF isInBlackList(B, list[i]) THEN f[i-1] ELSE Append(f[i-1], list[i])

LEMMA AcceptedSteps ==
    ASSUME NEW M, NEW queue, NEW list \in Seq(M), NEW B
    PROVE  \E f : Steps(f, queue, list, B)
<1> DEFINE Step(q, i) == IF i = 0 THEN queue
                         ELSE IF list[i].sender \in B THEN q[i-1]
                         ELSE Append(q[i-1], list[i])
           F(n) == CHOOSE q : q = [i \in 0..n |-> Step(q, i)]
           Bad == {n \in 0..Len(list) : ~ \E q : q = [i \in 0..n |-> Step(q, i)]}
<1>1. Accepted(queue, list, B) = F(Len(list))[Len(list)]
  BY DEF Accepted, isInBlackList
<1>2. Len(list) \in Nat /\ \A i \in 1..Len(list) : list[i] \in M
  OBVIOUS
<1>3. Bad = {}
  <2>1. SUFFICES ASSUME Bad # {} PROVE FALSE
    OBVIOUS
  <2>2. Bad \in SUBSET Nat
    BY <1>2
  <2>3. PICK n \in Bad : \A k \in Bad : n <= k
    <3> HIDE DEF Bad
    <3> QED BY <2>1, <2>2, Least
  <2>4. CASE n = 0
    <3> DEFINE q == [i \in 0..0 |-> queue]
    <3>1. q = [i \in 0..0 |-> Step(q, i)]
      OBVIOUS
    <3> QED BY <2>3, <2>4, <3>1
  <2>5. CASE n # 0
    <3>1. n \in Nat /\ n - 1 \in 0..Len(list) /\ n - 1 \notin Bad
      <4>1. n \in 0..Len(list)
        BY <2>3
      <4> HIDE DEF Bad
      <4> QED BY <4>1, <2>3, <2>5, <1>2
    <3>2. PICK p : p = [i \in 0..(n-1) |-> Step(p, i)]
      BY <3>1
    <3> DEFINE q == [i \in 0..n |-> IF i = n THEN Step(p, n) ELSE p[i]]
    <3>3. \A i \in 0..n : i # 0 => q[i-1] = p[i-1]
      BY <3>1
    <3>4. \A i \in 0..n : q[i] = Step(q, i)
      <4>1. TAKE i \in 0..n
      <4>2. Step(q, i) = Step(p, i)
        BY <3>3, <4>1
      <4>3. q[i] = Step(p, i)
        <5>1. CASE i = n BY <5>1, <4>1
        <5>2. CASE i # n
          <6>1. i \in 0..(n-1) BY <5>2, <4>1, <3>1
          <6>2. p[i] = Step(p, i) BY <3>2, <6>1
          <6> QED BY <5>2, <6>2, <4>1
        <5> QED BY <5>1, <5>2
      <4> QED BY <4>2, <4>3
    <3>5. q = [i \in 0..n |-> Step(q, i)]
      <4> DEFINE f == [i \in 0..n |-> Step(q, i)]
      <4>1. \A i \in 0..n : q[i] = f[i]
        BY <3>4
      <4> QED BY <4>1
    <3> QED BY <2>3, <3>5
  <2> QED BY <2>4, <2>5
<1>4. Len(list) \notin Bad /\ Len(list) \in 0..Len(list)
  <2> HIDE DEF Bad
  <2> QED BY <1>2, <1>3
<1> DEFINE f == F(Len(list))
<1>5. f = [i \in 0..Len(list) |-> Step(f, i)]
  BY <1>4
<1> HIDE DEF f
<1>6. \A i \in 0..Len(list) : f[i] = Step(f, i)
  BY <1>5
<1>7. 0 \in 0..Len(list) /\ \A i \in 1..Len(list) : i \in 0..Len(list) /\ i # 0
  BY <1>2
<1>8. f[0] = queue
  BY <1>6, <1>7
<1>9. \A i \in 1..Len(list) :
         f[i] = IF isInBlackList(B, list[i]) THEN f[i-1] ELSE Append(f[i-1], list[i])
  BY <1>6, <1>7 DEF isInBlackList
<1>10. Steps(f, queue, list, B)
  BY <1>1, <1>8, <1>9 DEF f, Steps
<1> QED BY <1>10

LEMMA AcceptedType ==
    ASSUME NEW M, NEW queue \in Seq(M), NEW list \in Seq(M), NEW B
    PROVE  /\ Accepted(queue, list, B) \in Seq(M)
           /\ Elements(Accepted(queue, list, B)) \subseteq Elements(queue) \cup Elements(list)
<1>0. PICK f : Steps(f, queue, list, B)
  BY AcceptedSteps
<1>1. /\ Accepted(queue, list, B) = f[Len(list)]
      /\ f[0] = queue
      /\ \A i \in 1..Len(list) :
            f[i] = IF isInBlackList(B, list[i]) THEN f[i-1] ELSE Append(f[i-1], list[i])
  BY <1>0 DEF Steps
<1>2. Len(list) \in Nat /\ \A i \in 1..Len(list) : list[i] \in M
  OBVIOUS
<1> DEFINE Fine(i) == /\ f[i] \in Seq(M)
                      /\ Elements(f[i]) \subseteq Elements(queue) \cup Elements(list)
           Worse == {i \in 0..Len(list) : ~ Fine(i)}
<1>6. Worse = {}
  <2>1. SUFFICES ASSUME Worse # {} PROVE FALSE
    OBVIOUS
  <2>2. Worse \in SUBSET Nat
    BY <1>2
  <2>3. PICK n \in Worse : \A k \in Worse : n <= k
    <3> HIDE DEF Worse
    <3> QED BY <2>1, <2>2, Least
  <2>5. CASE n = 0
    BY <2>3, <1>1, <2>5
  <2>6. CASE n # 0
    <3>1. n \in 1..Len(list) /\ n - 1 \in 0..Len(list) /\ n - 1 \notin Worse
      BY <2>2, <2>3, <2>6, <1>2
    <3>2. Fine(n-1)
      BY <3>1
    <3>3. CASE isInBlackList(B, list[n])
      <4>1. f[n] = f[n-1]
        BY <1>1, <3>1, <3>3
      <4> QED BY <2>3, <3>2, <4>1
    <3>4. CASE ~ isInBlackList(B, list[n])
      <4>1. f[n] = Append(f[n-1], list[n])
        BY <1>1, <3>1, <3>4
      <4>2. f[n] \in Seq(M)
        BY <3>2, <4>1, <3>1, <1>2
      <4>3. Elements(f[n]) \subseteq Elements(f[n-1]) \cup Elements(list)
        BY <3>2, <4>1, <3>1, <1>2, AppendProperties DEF Elements
      <4> QED BY <3>2, <4>2, <4>3, <2>3
    <3> QED BY <3>3, <3>4
  <2> QED BY <2>5, <2>6
<1>7. Len(list) \in 0..Len(list)
  BY <1>2
<1>8. Fine(Len(list))
  BY <1>6, <1>7
<1> QED BY <1>1, <1>8

-----------------------------------------------------------------------------
(* The inductive invariant, by the part of the state it is about.          *)

MemoryOK ==
    /\ alive \in [Server -> BOOLEAN]
    /\ local \in [Server -> [Uid -> Handle \cup {Absent, Null}]]
    /\ player \in [Handle -> Player \cup {Absent}]
    /\ active \in [Server -> SUBSET Handle]
    /\ bcast \in [Server -> Seq(Message)]
    /\ SlotsAddressed
    /\ QueuesAddressed
    /\ BroadcastsListed
    /\ PrivateStaysPrivate
    /\ \A s \in Server : \A h \in active[s] : Made(h)

ConnsOK ==
    /\ cstate \in [Conn -> {"new", "up", "closing", "gone"}]
    /\ owner \in [Conn -> Uid]
    /\ addr \in [Conn -> Conn]
    /\ session \in SUBSET Pair

PipeOK   == pipe \in [Server -> Seq(Command)]
AnswerOK == answer \in [Server -> Seq(Answer)] /\ AnswersAddressed
WireOK   == wire \in [Server -> [Server -> Seq(Message)]]
RedisOK  == /\ online \in [Uid -> Server \cup {Absent}]
            /\ mailbox \in [Uid -> Seq(Message)]
            /\ blackKey \in [Uid -> Seq(Uid)]
            /\ MailboxesAddressed
EnvOK    == asked \in 0..MaxLogin /\ posted \in SUBSET Message /\ fetched \in SUBSET (Handle \X Message)

IInv == MemoryOK /\ ConnsOK /\ PipeOK /\ AnswerOK /\ WireOK /\ RedisOK /\ EnvOK

LEMMA InvInit == Init => IInv
<1> SUFFICES ASSUME Init PROVE IInv
  OBVIOUS
<1> USE DEF Init
<1>1. MemoryOK
  <2>1. SlotsAddressed /\ QueuesAddressed /\ PrivateStaysPrivate
    BY NullAssumption DEF SlotsAddressed, QueuesAddressed, PrivateStaysPrivate, IsPlayer, Made, Handle
  <2>2. BroadcastsListed
    BY DEF BroadcastsListed, Elements
  <2> QED BY <2>1, <2>2 DEF MemoryOK
<1>2. ConnsOK
  BY UserAssumption DEF ConnsOK, Pair
<1>3. PipeOK /\ WireOK /\ EnvOK
  BY BoundAssumption DEF PipeOK, WireOK, EnvOK
<1>4. AnswerOK
  BY DEF AnswerOK, AnswersAddressed, Elements
<1>5. RedisOK
  BY DEF RedisOK, MailboxesAddressed, Elements
<1> QED BY <1>1, <1>2, <1>3, <1>4, <1>5 DEF IInv

LEMMA DieKeeps ==
    ASSUME MemoryOK, PipeOK, AnswerOK, NEW s \in Server, Die(s)
    PROVE  MemoryOK' /\ PipeOK' /\ AnswerOK'
<1> USE DEF Die
<1>1. PipeOK'
  BY DEF PipeOK
<1>2. AnswerOK'
  <2>1. answer' \in [Server -> Seq(Answer)]
    BY DEF AnswerOK
  <2>2. \A t \in Server : Elements(answer'[t]) \subseteq Elements(answer[t])
    BY DEF AnswerOK, Elements
  <2> QED BY <2>1, <2>2 DEF AnswerOK, AnswersAddressed
<1>3. /\ alive' \in [Server -> BOOLEAN]
      /\ local' \in [Server -> [Uid -> Handle \cup {Absent, Null}]]
      /\ player' \in [Handle -> Player \cup {Absent}]
      /\ active' \in [Server -> SUBSET Handle]
      /\ bcast' \in [Server -> Seq(Message)]
  BY DEF MemoryOK
<1>4. SlotsAddressed'
  BY NullAssumption DEF MemoryOK, SlotsAddressed, IsPlayer, Made, Handle
<1>5. QueuesAddressed' /\ PrivateStaysPrivate'
  BY DEF MemoryOK, QueuesAddressed, PrivateStaysPrivate, Made
<1>6. BroadcastsListed'
  BY DEF MemoryOK, BroadcastsListed, Elements
<1>7. \A t \in Server : \A h \in active'[t] : Made(h)'
  BY DEF MemoryOK, Made
<1> QED BY <1>1, <1>2, <1>3, <1>4, <1>5, <1>6, <1>7 DEF MemoryOK

-----------------------------------------------------------------------------
(* Lemmas about the operators that several actions share.                  *)

LEMMA AnswerFields ==
    ASSUME NEW a \in Answer
    PROVE  /\ a.op = "login" => a.conn \in Conn /\ a.uid \in Uid
           /\ a.op = "lrangeMsg" => a.uid \in Uid /\ a.list \in Seq(Message)
           /\ a.op = "lrangeBlack" => a.uid \in Uid /\ a.list \in Seq(Uid)
           /\ a.op = "getOnline" => a.msg \in Message /\ a.at \in Server \cup {Absent}
  BY DEF Answer

LEMMA CommandFields ==
    ASSUME NEW c \in Command
    PROVE  /\ c.op = "login" => c \in Answer
           /\ c.op \in {"setOnline", "delOnline", "lrangeMsg", "delMsg", "lrangeBlack", "delBlack"}
                  => c.uid \in Uid
           /\ c.op = "lpushBlack" => c.uid \in Uid /\ c.first \in Uid
           /\ c.op \in {"getOnline", "rpushMsg"} => c.msg \in Message
  BY DEF Command, Answer

LEMMA IssueKeeps ==
    ASSUME PipeOK, NEW s \in Server, NEW cmds \in Seq(Command), Issue(s, cmds)
    PROVE  PipeOK'
  BY DEF PipeOK, Issue

LEMMA TakeAnswer ==
    ASSUME AnswerOK, NEW s \in Server, answer[s] # <<>>
    PROVE  /\ Head(answer[s]) \in Answer
           /\ Head(answer[s]) \in Elements(answer[s])
           /\ answer' = [answer EXCEPT ![s] = Tail(@)] => AnswerOK'
<1>1. answer[s] \in Seq(Answer)
  BY DEF AnswerOK
<1>2. Head(answer[s]) \in Answer /\ Head(answer[s]) \in Elements(answer[s])
  BY <1>1 DEF Elements
<1>3. ASSUME answer' = [answer EXCEPT ![s] = Tail(@)] PROVE AnswerOK'
  <2>1. answer' \in [Server -> Seq(Answer)]
    BY <1>1, <1>3 DEF AnswerOK
  <2>2. \A t \in Server : Elements(answer'[t]) \subseteq Elements(answer[t])
    <3>1. Elements(Tail(answer[s])) \subseteq Elements(answer[s])
      BY <1>1, HeadTailProperties DEF Elements
    <3> QED BY <1>3, <3>1 DEF AnswerOK
  <2> QED BY <2>1, <2>2 DEF AnswerOK, AnswersAddressed
<1> QED BY <1>2, <1>3

\* The invariant of the process memory, when one Player object changes in a
\* way that keeps its uid and the addressing of its queue and its messages.
LEMMA PlayerChange ==
    ASSUME MemoryOK, NEW h \in Handle, NEW p \in Player,
           player' = [player EXCEPT ![h] = p],
           Made(h) => p.uid = player[h].uid,
           \A m \in Elements(p.queue) : m.receiver = p.uid,
           \A m \in Message : m.type = "private" /\ p.sent[m] > 0 => m.receiver = p.uid,
           UNCHANGED <<alive, local>>,
           bcast' \in [Server -> Seq(Message)], BroadcastsListed',
           active' \in [Server -> SUBSET Handle],
           \A s \in Server : active'[s] \subseteq active[s] \cup {h}
    PROVE  MemoryOK'
<1>1. p # Absent
  BY NullAssumption
<1>2. \A g \in Handle : g # h => player'[g] = player[g]
  BY DEF MemoryOK
<1>3. player'[h] = p /\ Made(h)'
  BY <1>1 DEF MemoryOK, Made
<1>4. player' \in [Handle -> Player \cup {Absent}]
  BY DEF MemoryOK
<1>5. SlotsAddressed'
  BY <1>2, <1>3 DEF MemoryOK, SlotsAddressed, IsPlayer, Made
<1>6. QueuesAddressed'
  BY <1>2, <1>3 DEF MemoryOK, QueuesAddressed, Made
<1>7. PrivateStaysPrivate'
  BY <1>2, <1>3 DEF MemoryOK, PrivateStaysPrivate, Made
<1>8. \A s \in Server : \A g \in active'[s] : Made(g)'
  BY <1>2, <1>3 DEF MemoryOK, Made
<1> QED BY <1>4, <1>5, <1>6, <1>7, <1>8 DEF MemoryOK

\* A slot becomes null or absent.
LEMMA SlotCleared ==
    ASSUME MemoryOK, NEW s \in Server, NEW u \in Uid, NEW v \in {Absent, Null},
           local' = [local EXCEPT ![s][u] = v],
           UNCHANGED <<alive, player, active, bcast>>
    PROVE  MemoryOK'
<1>1. local' \in [Server -> [Uid -> Handle \cup {Absent, Null}]]
  BY DEF MemoryOK
<1>2. \A t \in Server, w \in Uid : IsPlayer(t, w)' => local'[t][w] = local[t][w]
  BY NullAssumption DEF MemoryOK, IsPlayer, Handle
<1>3. SlotsAddressed'
  BY <1>2 DEF MemoryOK, SlotsAddressed, IsPlayer, Made
<1>4. QueuesAddressed' /\ PrivateStaysPrivate' /\ BroadcastsListed'
  BY DEF MemoryOK, QueuesAddressed, PrivateStaysPrivate, BroadcastsListed, Made
<1> QED BY <1>1, <1>3, <1>4 DEF MemoryOK, Made

LEMMA MemoryUnchanged ==
    ASSUME MemoryOK, UNCHANGED <<alive, memory>>
    PROVE  MemoryOK'
  BY DEF MemoryOK, memory, SlotsAddressed, QueuesAddressed, PrivateStaysPrivate,
         BroadcastsListed, IsPlayer, Made

LEMMA AnswerUnchanged ==
    ASSUME AnswerOK, UNCHANGED answer
    PROVE  AnswerOK'
  BY DEF AnswerOK, AnswersAddressed

LEMMA ConnsUnchanged ==
    ASSUME ConnsOK, UNCHANGED <<conns, session>>
    PROVE  ConnsOK'
  BY DEF ConnsOK, conns

LEMMA RedisUnchanged ==
    ASSUME RedisOK, UNCHANGED redis
    PROVE  RedisOK'
  BY DEF RedisOK, redis, MailboxesAddressed

LEMMA EnvUnchanged ==
    ASSUME EnvOK, UNCHANGED env
    PROVE  EnvOK'
  BY DEF EnvOK, env

LEMMA LogoutKeeps ==
    ASSUME MemoryOK, PipeOK, AnswerOK, NEW s \in Server, NEW u \in Uid, LobbyLogout(s, u)
    PROVE  MemoryOK' /\ PipeOK' /\ AnswerOK'
<1>1. CASE IsPlayer(s, u) /\ local' = [local EXCEPT ![s][u] = Absent]
           /\ UNCHANGED <<alive, player, active, bcast, answer>>
  <2> DEFINE B == player[local[s][u]].black
             dels == <<[op |-> "delOnline", uid |-> u], [op |-> "delBlack", uid |-> u]>>
  <2>1. B \subseteq Uid
    BY <1>1 DEF MemoryOK, IsPlayer, SlotsAddressed, Made, Player, Account
  <2>2. dels \in Seq(Command)
    BY DEF Command
  <2>3. \A b \in B : Append(dels, [op |-> "lpushBlack", uid |-> u, first |-> b]) \in Seq(Command)
    <3>1. \A b \in B : [op |-> "lpushBlack", uid |-> u, first |-> b] \in Command
      BY <2>1 DEF Command
    <3> HIDE DEF dels
    <3> QED BY <2>2, <3>1
  <2>4. \E cmds \in Seq(Command) : Issue(s, cmds)
    <3>1. LogoutCommands(u, B) \subseteq Seq(Command)
      <4>1. LogoutCommands(u, B) =
                IF B = {} THEN {dels}
                ELSE {Append(dels, [op |-> "lpushBlack", uid |-> u, first |-> b]) : b \in B}
        BY DEF LogoutCommands
      <4> HIDE DEF dels, B
      <4> QED BY <4>1, <2>2, <2>3
    <3>2. \E cmds \in LogoutCommands(u, B) : Issue(s, cmds)
      BY <1>1 DEF LobbyLogout
    <3> QED BY <3>1, <3>2
  <2>5. PipeOK'
    BY <2>4, IssueKeeps
  <2>6. MemoryOK'
    BY <1>1, SlotCleared
  <2> QED BY <2>5, <2>6, <1>1, AnswerUnchanged
<1>2. CASE ~ IsPlayer(s, u) /\ Die(s)
  BY <1>2, DieKeeps
<1> QED BY <1>1, <1>2 DEF LobbyLogout

LEMMA LoginKeeps ==
    ASSUME MemoryOK, PipeOK, NEW s \in Server, NEW u \in Account, NEW c \in Conn,
           LobbyLogin(s, u, c)
    PROVE  MemoryOK' /\ PipeOK'
<1>1. u \in Uid
  BY DEF Account
<1>2. PipeOK'
  <2>1. LoginCommands(u) \in Seq(Command)
    BY <1>1 DEF LoginCommands, Command
  <2>2. Issue(s, LoginCommands(u))
    BY DEF LobbyLogin
  <2> QED BY <2>1, <2>2, IssueKeeps
<1>3. CASE UNCHANGED <<local, player>>
  BY <1>2, <1>3, MemoryUnchanged DEF LobbyLogin, memory
<1>4. ASSUME local[s][u] = Absent,
             NEW h \in Handle, ~ Made(h), local' = [local EXCEPT ![s][u] = h],
             player' = [player EXCEPT ![h] = NewPlayer(u, c)]
      PROVE  MemoryOK'
  <2>1. NewPlayer(u, c) \in Player /\ NewPlayer(u, c).uid = u
    BY DEF NewPlayer, Player
  <2>2. UNCHANGED <<alive, active, bcast>>
    BY DEF LobbyLogin
  <2>3. local' \in [Server -> [Uid -> Handle \cup {Absent, Null}]]
    BY <1>4 DEF MemoryOK
  <2>4. player' \in [Handle -> Player \cup {Absent}]
    BY <1>4, <2>1 DEF MemoryOK
  <2>5. player'[h] = NewPlayer(u, c) /\ \A g \in Handle : g # h => player'[g] = player[g]
    BY <1>4 DEF MemoryOK
  <2>6. \A g \in Handle : Made(g) => Made(g)' /\ player'[g] = player[g]
    BY <1>4, <2>5 DEF Made
  <2>7. SlotsAddressed'
    <3>1. SUFFICES ASSUME NEW t \in Server, NEW w \in Uid, IsPlayer(t, w)'
                   PROVE  (Made(local[t][w]) /\ player[local[t][w]].uid = w)'
      BY DEF SlotsAddressed
    <3>2. IsPlayer(t, w)'
      BY <3>1
    <3>3. CASE t = s /\ w = u
      <4>1. local'[t][w] = h
        BY <1>1, <1>4, <3>3 DEF MemoryOK
      <4>2. Made(h)'
        BY <2>1, <2>5, NullAssumption DEF Made
      <4> QED BY <4>1, <4>2, <2>1, <2>5, <3>3 DEF Made
    <3>4. CASE ~ (t = s /\ w = u)
      <4>1. local'[t][w] = local[t][w]
        BY <1>4, <3>4 DEF MemoryOK
      <4>2. IsPlayer(t, w)
        BY <3>2, <4>1 DEF IsPlayer
      <4>3. Made(local[t][w]) /\ player[local[t][w]].uid = w
        BY <4>2 DEF MemoryOK, SlotsAddressed
      <4>4. local[t][w] \in Handle
        BY <4>2 DEF IsPlayer
      <4>5. player'[local[t][w]] = player[local[t][w]] /\ player'[local[t][w]] # Absent
        BY <4>3, <4>4, <2>6 DEF Made
      <4> QED BY <4>1, <4>3, <4>5 DEF Made
    <3> QED BY <3>3, <3>4
  <2>8. QueuesAddressed'
    <3>1. NewPlayer(u, c).queue = <<>>
      BY DEF NewPlayer
    <3>2. Elements(NewPlayer(u, c).queue) = {}
      BY <3>1 DEF Elements
    <3> QED BY <2>5, <3>2 DEF MemoryOK, QueuesAddressed, Made
  <2>9. PrivateStaysPrivate'
    <3>1. \A m \in Message : ~ NewPlayer(u, c).sent[m] > 0
      BY DEF NewPlayer
    <3> QED BY <2>5, <3>1 DEF MemoryOK, PrivateStaysPrivate, Made
  <2>10. \A t \in Server : \A g \in active'[t] : Made(g)'
    BY <2>2, <2>6 DEF MemoryOK
  <2>11. BroadcastsListed'
    BY <2>2 DEF MemoryOK, BroadcastsListed
  <2> QED BY <2>2, <2>3, <2>4, <2>7, <2>8, <2>9, <2>10, <2>11 DEF MemoryOK
<1>5. CASE local[s][u] = Absent
  <2>1. PICK h \in Handle : /\ ~ Made(h)
                            /\ local' = [local EXCEPT ![s][u] = h]
                            /\ player' = [player EXCEPT ![h] = NewPlayer(u, c)]
    BY <1>5 DEF LobbyLogin, Insert
  <2> QED BY <1>2, <1>4, <1>5, <2>1
<1> QED BY <1>2, <1>3, <1>5 DEF LobbyLogin

LEMMA MessageFields ==
    ASSUME NEW m \in Message
    PROVE  m.receiver \in Uid /\ m.sender \in Account /\ m.sender \in Uid
  BY UserAssumption DEF Account

\* Player::newMessage for each of a list of messages to the player.
LEMMA EnqueueKeeps ==
    ASSUME MemoryOK, NEW s \in Server, NEW h \in Handle, Made(h), NEW list \in Seq(Message),
           \A m \in Elements(list) : m.receiver = player[h].uid,
           player' = [player EXCEPT ![h].queue = Accepted(@, list, player[h].black)],
           active' \in {active, [active EXCEPT ![s] = @ \cup {h}]},
           UNCHANGED <<alive, local>>,
           bcast' \in [Server -> Seq(Message)], BroadcastsListed'
    PROVE  MemoryOK'
<1> DEFINE q == Accepted(player[h].queue, list, player[h].black)
           p == [player[h] EXCEPT !.queue = q]
<1>1. player[h] \in Player
  BY DEF MemoryOK, Made
<1>2. q \in Seq(Message) /\ Elements(q) \subseteq Elements(player[h].queue) \cup Elements(list)
  <2>1. player[h].queue \in Seq(Message)
    BY <1>1 DEF Player
  <2> QED BY <2>1, AcceptedType
<1> HIDE DEF q
<1>3. p \in Player /\ p.uid = player[h].uid /\ p.queue = q /\ p.sent = player[h].sent
  BY <1>1, <1>2 DEF Player
<1>4. player' = [player EXCEPT ![h] = p]
  BY DEF q
<1>5. \A m \in Elements(p.queue) : m.receiver = p.uid
  BY <1>2, <1>3 DEF MemoryOK, QueuesAddressed
<1>6. \A m \in Message : m.type = "private" /\ p.sent[m] > 0 => m.receiver = p.uid
  BY <1>3 DEF MemoryOK, PrivateStaysPrivate
<1>7. /\ active' \in [Server -> SUBSET Handle]
      /\ \A t \in Server : active'[t] \subseteq active[t] \cup {h}
  <2>1. CASE active' = active
    BY <2>1 DEF MemoryOK
  <2>2. CASE active' = [active EXCEPT ![s] = @ \cup {h}]
    BY <2>2 DEF MemoryOK
  <2> QED BY <2>1, <2>2
<1> HIDE DEF p
<1> QED BY <1>3, <1>4, <1>5, <1>6, <1>7, PlayerChange

LEMMA AnnounceKeeps ==
    ASSUME MemoryOK, NEW s \in Server, NEW m \in Message, Announce(s, m)
    PROVE  /\ bcast' \in [Server -> Seq(Message)]
           /\ BroadcastsListed'
<1>1. bcast' \in [Server -> Seq(Message)]
  BY DEF MemoryOK, Announce
<1>2. \A t \in Server : \A n \in Elements(bcast'[t]) : n.type # "private"
  <2>1. CASE m.type = "private"
    BY <2>1 DEF MemoryOK, BroadcastsListed, Announce
  <2>2. CASE m.type # "private"
    <3>1. bcast' = [bcast EXCEPT ![s] = Append(@, m)]
      BY <2>2 DEF Announce
    <3>2. bcast[s] \in Seq(Message)
      BY DEF MemoryOK
    <3>3. Elements(Append(bcast[s], m)) \subseteq Elements(bcast[s]) \cup {m}
      BY <3>2, AppendProperties DEF Elements
    <3>4. \A t \in Server : t # s => bcast'[t] = bcast[t]
      BY <3>1 DEF MemoryOK
    <3>5. bcast'[s] = Append(bcast[s], m)
      BY <3>1 DEF MemoryOK
    <3> QED BY <2>2, <3>3, <3>4, <3>5 DEF MemoryOK, BroadcastsListed
  <2> QED BY <2>1, <2>2
<1> QED BY <1>1, <1>2 DEF BroadcastsListed

\* The invariant of the memory does not tie bcast to the rest of it.
LEMMA MemoryApart ==
    ASSUME MemoryOK, bcast' \in [Server -> Seq(Message)], BroadcastsListed',
           UNCHANGED <<alive, local, player, active>>
    PROVE  MemoryOK'
  BY DEF MemoryOK, SlotsAddressed, QueuesAddressed, PrivateStaysPrivate, IsPlayer, Made

LEMMA ForwardKeeps ==
    ASSUME MemoryOK, PipeOK, AnswerOK, NEW s \in Server, NEW m \in Message,
           NEW to \in SUBSET Server, NEW w \in [Server -> [Server -> Seq(Message)]],
           Forward(s, m, to, w)
    PROVE  MemoryOK' /\ PipeOK' /\ AnswerOK' /\ WireOK'
<1> DEFINE up == {t \in to : alive[t]}
<1>1. \A T \in SUBSET Server : Sent(w, s, m, T) \in [Server -> [Server -> Seq(Message)]]
  <2>1. TAKE T \in SUBSET Server
  <2>2. [t \in Server |-> IF t \in T THEN Append(w[s][t], m) ELSE w[s][t]] \in [Server -> Seq(Message)]
    OBVIOUS
  <2> QED BY <2>2 DEF Sent
<1>2. CASE wire' = Sent(w, s, m, up) /\ Announce(s, m)
           /\ UNCHANGED <<alive, local, player, active, pipe, answer>>
  <2>1. MemoryOK'
    BY <1>2, AnnounceKeeps, MemoryApart
  <2>2. PipeOK' /\ AnswerOK'
    BY <1>2, AnswerUnchanged DEF PipeOK
  <2> QED BY <1>1, <1>2, <2>1, <2>2 DEF WireOK
<1>3. CASE Die(s) /\ \E before \in SUBSET up : wire' = Sent(w, s, m, before)
  <2>1. WireOK'
    BY <1>1, <1>3 DEF WireOK
  <2> QED BY <1>3, <2>1, DieKeeps
<1> QED BY <1>2, <1>3 DEF Forward

LEMMA PrivateKeeps ==
    ASSUME MemoryOK, PipeOK, AnswerOK, NEW s \in Server, NEW m \in Message, PrivateChat(s, m)
    PROVE  MemoryOK' /\ PipeOK' /\ AnswerOK'
<1> DEFINE u == m.receiver
           h == local[s][u]
<1>0. u \in Uid
  BY MessageFields
<1>1. CASE /\ IsPlayer(s, u)
           /\ Enqueue(s, h, <<m>>)
           /\ Announce(s, m)
           /\ UNCHANGED <<alive, local, pipe, answer>>
  <2>1. h \in Handle /\ Made(h) /\ player[h].uid = u
    BY <1>0, <1>1 DEF IsPlayer, MemoryOK, SlotsAddressed
  <2>2. <<m>> \in Seq(Message) /\ \A n \in Elements(<<m>>) : n.receiver = player[h].uid
    BY <2>1 DEF Elements
  <2>3. MemoryOK'
    <3> HIDE DEF h
    <3>1. active' \in {active, [active EXCEPT ![s] = @ \cup {h}]}
      BY <1>1 DEF Enqueue
    <3>2. player' = [player EXCEPT ![h].queue = Accepted(@, <<m>>, player[h].black)]
      BY <1>1 DEF Enqueue
    <3> QED BY <1>1, <2>1, <2>2, <3>1, <3>2, AnnounceKeeps, EnqueueKeeps
  <2> QED BY <1>1, <2>3, AnswerUnchanged DEF PipeOK
<1>2. CASE Die(s)
  BY <1>2, DieKeeps
<1>3. CASE /\ Issue(s, <<[op |-> "getOnline", msg |-> m]>>)
           /\ Announce(s, m)
           /\ UNCHANGED <<alive, local, player, active, answer>>
  <2>1. <<[op |-> "getOnline", msg |-> m]>> \in Seq(Command)
    BY DEF Command
  <2> QED BY <1>3, <2>1, IssueKeeps, AnnounceKeeps, MemoryApart, AnswerUnchanged
<1> QED BY <1>1, <1>2, <1>3 DEF PrivateChat

LEMMA NewMessageKeeps ==
    ASSUME MemoryOK, PipeOK, AnswerOK, NEW s \in Server, NEW m \in Message,
           NEW w \in [Server -> [Server -> Seq(Message)]], NewMessage(s, m, w)
    PROVE  MemoryOK' /\ PipeOK' /\ AnswerOK' /\ WireOK'
<1>1. Peer[s] \in SUBSET Server
  BY ServerAssumption
<1>2. CASE Forward(s, m, Peer[s], w)
  BY <1>1, <1>2, ForwardKeeps
<1>3. CASE PrivateChat(s, m) /\ wire' = w
  BY <1>3, PrivateKeeps DEF WireOK
<1> QED BY <1>2, <1>3 DEF NewMessage

-----------------------------------------------------------------------------
(* The timer.                                                              *)

LEMMA TimesNat ==
    ASSUME NEW q, NEW n \in Nat, NEW m
    PROVE  /\ Times(m, q, n) \in Nat
           /\ Times(m, q, n) > 0 => \E i \in 1..n : q[i] = m
<1> DEFINE S == {i \in 1..n : q[i] = m}
<1>1. IsFiniteSet(1..n)
  BY FS_Interval
<1>2. IsFiniteSet(S)
  BY <1>1, FS_Subset
<1>3. Cardinality(S) \in Nat
  BY <1>2, FS_CardinalityType
<1>4. S = {} => Cardinality(S) = 0
  BY FS_EmptySet
<1> QED BY <1>3, <1>4 DEF Times

LEMMA FrontNat ==
    ASSUME NEW q \in Seq(Message)
    PROVE  Front(q) \in 0..Len(q)
  BY BoundAssumption DEF Front

LEMMA FlushedType ==
    ASSUME MemoryOK, NEW s \in Server, NEW h \in Handle, Made(h)
    PROVE  /\ Flushed(s, h) \in Player
           /\ Flushed(s, h).uid = player[h].uid
           /\ \A m \in Elements(Flushed(s, h).queue) : m.receiver = player[h].uid
           /\ \A m \in Message : m.type = "private" /\ Flushed(s, h).sent[m] > 0
                 => m.receiver = player[h].uid
<1> DEFINE p  == player[h]
           n  == IF h \in active[s] THEN Front(p.queue) ELSE 0
           b  == IF h \in Hearers(s) THEN Len(bcast[s]) ELSE 0
           up == cstate[p.conn] = "up"
           queue == SubSeq(p.queue, n + 1, Len(p.queue))
           new(m) == p.sent[m] + Times(m, p.queue, n) + Times(m, bcast[s], b)
           sent == [m \in Message |-> IF up /\ m.sender \notin p.black THEN new(m) ELSE p.sent[m]]
<1>1. p \in Player /\ p.queue \in Seq(Message) /\ p.sent \in [Message -> Nat] /\ bcast[s] \in Seq(Message)
  BY DEF MemoryOK, Made, Player
<1>2. n \in 0..Len(p.queue) /\ b \in 0..Len(bcast[s]) /\ n \in Nat /\ b \in Nat
  BY <1>1, FrontNat
<1>3. Flushed(s, h) = [p EXCEPT !.queue = queue, !.sent = sent]
  BY <1>1 DEF Flushed, isInBlackList
<1> HIDE DEF n, b, up
<1>4. queue \in Seq(Message) /\ Elements(queue) \subseteq Elements(p.queue)
  <2>1. \A k \in Nat, q \in Seq(Message) : k <= Len(q) => 
            /\ SubSeq(q, k + 1, Len(q)) \in Seq(Message)
            /\ \A i \in DOMAIN SubSeq(q, k + 1, Len(q)) :
                   SubSeq(q, k + 1, Len(q))[i] = q[k + i] /\ k + i \in DOMAIN q
    OBVIOUS
  <2> QED BY <1>1, <1>2, <2>1 DEF Elements
<1>5. \A m \in Message : new(m) \in Nat
  BY <1>1, <1>2, TimesNat
<1>6. sent \in [Message -> Nat]
  BY <1>1, <1>5
<1>7. \A m \in Message : m.type = "private" /\ sent[m] > 0 => m.receiver = p.uid
  <2>1. SUFFICES ASSUME NEW m \in Message, m.type = "private", sent[m] > 0
                 PROVE  m.receiver = p.uid
    OBVIOUS
  <2>2. CASE p.sent[m] > 0
    BY <2>1, <2>2 DEF MemoryOK, PrivateStaysPrivate
  <2>3. CASE Times(m, p.queue, n) > 0
    <3>1. \E i \in 1..n : p.queue[i] = m
      BY <2>3, <1>2, TimesNat
    <3>2. m \in Elements(p.queue)
      BY <3>1, <1>1, <1>2 DEF Elements
    <3> QED BY <3>2 DEF MemoryOK, QueuesAddressed
  <2>4. CASE Times(m, bcast[s], b) > 0
    <3>1. \E i \in 1..b : bcast[s][i] = m
      BY <2>4, <1>2, TimesNat
    <3>2. m \in Elements(bcast[s])
      BY <3>1, <1>1, <1>2 DEF Elements
    <3> QED BY <2>1, <3>2 DEF MemoryOK, BroadcastsListed
  <2>5. /\ p.sent[m] \in Nat /\ Times(m, p.queue, n) \in Nat /\ Times(m, bcast[s], b) \in Nat
        /\ sent[m] = new(m) \/ sent[m] = p.sent[m]
    BY <1>1, <1>2, TimesNat
  <2> QED BY <2>1, <2>2, <2>3, <2>4, <2>5
<1> HIDE DEF queue, sent
<1>8. [p EXCEPT !.queue = queue, !.sent = sent] \in Player
  BY <1>1, <1>4, <1>6 DEF Player
<1>9. /\ Flushed(s, h).uid = p.uid
      /\ Flushed(s, h).queue = queue
      /\ Flushed(s, h).sent = sent
  BY <1>1, <1>3 DEF Player
<1>10. \A m \in Elements(queue) : m.receiver = p.uid
  BY <1>4 DEF MemoryOK, QueuesAddressed
<1> QED BY <1>3, <1>7, <1>8, <1>9, <1>10

LEMMA TickKeeps ==
    ASSUME IInv, NEW s \in Server, Tick(s)
    PROVE  IInv'
<1> USE DEF IInv
<1>1. ConnsOK' /\ WireOK' /\ RedisOK' /\ EnvOK'
  BY ConnsUnchanged, RedisUnchanged, EnvUnchanged DEF Tick, WireOK
<1>2. CASE Die(s)
  BY <1>1, <1>2, DieKeeps
<1>3. CASE /\ player' = [h \in Handle |-> IF h \in active[s] \cup Hearers(s)
                                          THEN Flushed(s, h) ELSE player[h]]
           /\ active' = [active EXCEPT ![s] = {}]
           /\ bcast' = [bcast EXCEPT ![s] = <<>>]
           /\ UNCHANGED <<alive, local, pipe, answer>>
  <2>1. \A h \in active[s] \cup Hearers(s) : h \in Handle /\ Made(h)
    BY DEF MemoryOK, Hearers, SlotsAddressed, IsPlayer
  <2>2. \A h \in Handle : Made(h) =>
            /\ player'[h] \in Player
            /\ player'[h].uid = player[h].uid
            /\ \A m \in Elements(player'[h].queue) : m.receiver = player[h].uid
            /\ \A m \in Message : m.type = "private" /\ player'[h].sent[m] > 0
                  => m.receiver = player[h].uid
    <3>1. SUFFICES ASSUME NEW h \in Handle, Made(h)
                   PROVE  /\ player'[h] \in Player
                          /\ player'[h].uid = player[h].uid
                          /\ \A m \in Elements(player'[h].queue) : m.receiver = player[h].uid
                          /\ \A m \in Message : m.type = "private" /\ player'[h].sent[m] > 0
                                => m.receiver = player[h].uid
      OBVIOUS
    <3>2. CASE h \in active[s] \cup Hearers(s)
      BY <1>3, <3>1, <3>2, FlushedType
    <3>3. CASE h \notin active[s] \cup Hearers(s)
      BY <1>3, <3>1, <3>3 DEF MemoryOK, Made, QueuesAddressed, PrivateStaysPrivate
    <3> QED BY <3>2, <3>3
  <2>3. \A h \in Handle : ~ Made(h) => player'[h] = player[h]
    BY <1>3, <2>1
  <2>4. \A h \in Handle : Made(h) <=> Made(h)'
    BY <2>2, <2>3, NullAssumption DEF Made
  <2>5. player' \in [Handle -> Player \cup {Absent}]
    BY <1>3, <2>2, <2>3 DEF MemoryOK, Made
  <2>6. SlotsAddressed'
    BY <1>3, <2>2, <2>4 DEF MemoryOK, SlotsAddressed, IsPlayer
  <2>7. QueuesAddressed' /\ PrivateStaysPrivate'
    BY <2>2, <2>4 DEF QueuesAddressed, PrivateStaysPrivate
  <2>8. bcast' \in [Server -> Seq(Message)] /\ active' \in [Server -> SUBSET Handle]
    BY <1>3 DEF MemoryOK
  <2>9. BroadcastsListed'
    BY <1>3 DEF MemoryOK, BroadcastsListed, Elements
  <2>10. \A t \in Server : \A h \in active'[t] : Made(h)'
    BY <1>3, <2>4 DEF MemoryOK
  <2>11. MemoryOK'
    BY <1>3, <2>5, <2>6, <2>7, <2>8, <2>9, <2>10 DEF MemoryOK
  <2> QED BY <1>1, <1>3, <2>11, AnswerUnchanged DEF PipeOK
<1> QED BY <1>2, <1>3 DEF Tick

-----------------------------------------------------------------------------
(* The answers' callbacks.                                                 *)

LEMMA LoginAnswerKeeps ==
    ASSUME IInv, NEW s \in Server, LoginAnswer(s)
    PROVE  IInv'
<1> DEFINE a == Head(answer[s])
           c == a.conn
           In == {d \in Conn : Up(d) /\ ServerOf[d] = s /\ addr[d] = addr[c]}
<1> USE DEF IInv
<1>1. answer[s] # <<>> /\ a.op = "login" /\ UNCHANGED <<cstate, addr, wire, redis, env>>
  BY DEF LoginAnswer
<1>2. a \in Answer
  BY <1>1, TakeAnswer
<1>3. c \in Conn /\ a.uid \in Uid
  BY <1>1, <1>2, AnswerFields
<1>4. WireOK' /\ RedisOK' /\ EnvOK'
  BY <1>1, RedisUnchanged, EnvUnchanged DEF WireOK
<1>5. CASE answer' = [answer EXCEPT ![s] = Tail(@)] /\ UNCHANGED <<alive, memory, owner, session, pipe>>
  <2>1. MemoryOK' /\ PipeOK' /\ AnswerOK'
    BY <1>1, <1>5, MemoryUnchanged, TakeAnswer DEF PipeOK
  <2> QED BY <1>1, <1>4, <1>5, <2>1 DEF ConnsOK
<1>6. ASSUME a.uid # Nobody, answer' = [answer EXCEPT ![s] = Tail(@)],
             NEW d \in Conn, LobbyLogin(s, a.uid, d),
             owner' \in {owner, [owner EXCEPT ![d] = a.uid]},
             session' \in {session, session \cup {<<d, a.uid>>}}
      PROVE  IInv'
  <2>1. a.uid \in Account
    BY <1>3, <1>6 DEF Account
  <2>2. MemoryOK' /\ PipeOK'
    BY <1>6, <2>1, LoginKeeps
  <2>3. owner' \in [Conn -> Uid]
    BY <1>3, <1>6 DEF ConnsOK
  <2>4. session' \in SUBSET Pair
    BY <1>6, <2>1 DEF ConnsOK, Pair
  <2>5. ConnsOK'
    BY <1>1, <2>3, <2>4 DEF ConnsOK
  <2> QED BY <1>1, <1>4, <1>6, <2>2, <2>5, TakeAnswer
<1>7. CASE Die(s) /\ UNCHANGED <<owner, session>>
  <2>1. ConnsOK'
    BY <1>1, <1>7 DEF ConnsOK
  <2> QED BY <1>4, <1>7, <2>1, DieKeeps
<1>8. CASE /\ a.uid # Nobody /\ answer' = [answer EXCEPT ![s] = Tail(@)]
           /\ \E d \in In : LoginThrough(s, a.uid, d)
  <2>1. PICK d \in In : LoginThrough(s, a.uid, d)
    BY <1>8
  <2> QED BY <1>6, <1>8, <2>1 DEF LoginThrough
<1>9. CASE /\ a.uid # Nobody /\ answer' = [answer EXCEPT ![s] = Tail(@)]
           /\ LobbyLogin(s, a.uid, c) /\ UNCHANGED <<owner, session>>
  BY <1>3, <1>6, <1>9
<1> QED BY <1>5, <1>7, <1>8, <1>9 DEF LoginAnswer, Refused

LEMMA OfflineAnswerKeeps ==
    ASSUME IInv, NEW s \in Server, OfflineAnswer(s)
    PROVE  IInv'
<1> DEFINE a == Head(answer[s])
           u == a.uid
           h == local[s][u]
<1> USE DEF IInv
<1>1. answer[s] # <<>> /\ a.op = "lrangeMsg" /\ UNCHANGED <<conns, session, wire, redis, asked, posted>>
  BY DEF OfflineAnswer
<1>2. a \in Answer /\ a \in Elements(answer[s])
  BY <1>1, TakeAnswer
<1>3. u \in Uid /\ a.list \in Seq(Message) /\ \A m \in Elements(a.list) : m.receiver = u
  BY <1>1, <1>2, AnswerFields DEF AnswerOK, AnswersAddressed
<1>4. ConnsOK' /\ WireOK' /\ RedisOK' /\ EnvOK'
  <2>1. ConnsOK' /\ WireOK' /\ RedisOK'
    BY <1>1, ConnsUnchanged, RedisUnchanged DEF WireOK
  <2>2. fetched' \in SUBSET (Handle \X Message)
    <3>1. CASE IsPlayer(s, u)
      <4>1. h \in Handle /\ \A i \in DOMAIN a.list : a.list[i] \in Message
        BY <1>3, <3>1 DEF IsPlayer
      <4>2. fetched' \in {fetched, fetched \cup {<<h, a.list[i]>> : i \in DOMAIN a.list}}
        BY <3>1 DEF OfflineAnswer
      <4> QED BY <4>1, <4>2 DEF EnvOK
    <3>2. CASE ~ IsPlayer(s, u)
      BY <3>2 DEF OfflineAnswer, EnvOK
    <3> QED BY <3>1, <3>2
  <2> QED BY <1>1, <2>1, <2>2 DEF EnvOK
<1>5. CASE /\ answer' = [answer EXCEPT ![s] = Tail(@)]
           /\ Issue(s, Emptied(u))
           /\ IF IsPlayer(s, u)
              THEN Enqueue(s, h, a.list) /\ UNCHANGED local
              ELSE /\ local' = [local EXCEPT ![s][u] = Null]
                   /\ UNCHANGED <<player, active>>
           /\ UNCHANGED <<alive, bcast>>
  <2>1. Emptied(u) \in Seq(Command)
    BY <1>3 DEF Emptied, Command
  <2>2. PipeOK'
    BY <1>5, <2>1, IssueKeeps
  <2>3. AnswerOK'
    BY <1>1, <1>5, TakeAnswer
  <2>4. CASE IsPlayer(s, u)
    <3>1. h \in Handle /\ Made(h) /\ player[h].uid = u
      BY <1>3, <2>4 DEF IsPlayer, MemoryOK, SlotsAddressed
    <3>2. active' \in {active, [active EXCEPT ![s] = @ \cup {h}]}
      BY <1>5, <2>4 DEF MemoryOK, Enqueue
    <3>3. bcast' \in [Server -> Seq(Message)] /\ BroadcastsListed'
      BY <1>5 DEF MemoryOK, BroadcastsListed
    <3>4. player' = [player EXCEPT ![h].queue = Accepted(@, a.list, player[h].black)]
      BY <1>5, <2>4 DEF Enqueue
    <3>5. MemoryOK'
      <4> HIDE DEF a, h
      <4> QED BY <1>3, <1>5, <2>4, <3>1, <3>2, <3>3, <3>4, EnqueueKeeps
    <3> QED BY <1>4, <2>2, <2>3, <3>5
  <2>5. CASE ~ IsPlayer(s, u)
    <3>1. MemoryOK'
      BY <1>3, <1>5, <2>5, SlotCleared
    <3> QED BY <1>4, <2>2, <2>3, <3>1
  <2> QED BY <2>4, <2>5
<1>6. CASE Die(s)
  BY <1>4, <1>6, DieKeeps
<1> QED BY <1>5, <1>6 DEF OfflineAnswer

LEMMA BlackAnswerKeeps ==
    ASSUME IInv, NEW s \in Server, BlackAnswer(s)
    PROVE  IInv'
<1> DEFINE a == Head(answer[s])
           u == a.uid
           h == local[s][u]
<1> USE DEF IInv
<1>1. answer[s] # <<>> /\ a.op = "lrangeBlack" /\ UNCHANGED <<conns, session, wire, redis, env>>
  BY DEF BlackAnswer
<1>2. a \in Answer
  BY <1>1, TakeAnswer
<1>3. u \in Uid /\ a.list \in Seq(Uid)
  BY <1>1, <1>2, AnswerFields
<1>4. ConnsOK' /\ WireOK' /\ RedisOK' /\ EnvOK'
  BY <1>1, ConnsUnchanged, RedisUnchanged, EnvUnchanged DEF WireOK
<1>5. CASE /\ answer' = [answer EXCEPT ![s] = Tail(@)]
           /\ IF IsPlayer(s, u)
              THEN /\ player' = [player EXCEPT ![h].black = @ \cup Restored(a.list)]
                   /\ UNCHANGED local
              ELSE /\ local' = [local EXCEPT ![s][u] = Null]
                   /\ UNCHANGED player
           /\ UNCHANGED <<alive, pipe, active, bcast>>
  <2>1. PipeOK' /\ AnswerOK'
    BY <1>1, <1>5, TakeAnswer DEF PipeOK
  <2>2. CASE IsPlayer(s, u)
    <3>1. h \in Handle /\ Made(h) /\ player[h] \in Player
      BY <1>3, <2>2 DEF IsPlayer, MemoryOK, SlotsAddressed, Made
    <3>2. Restored(a.list) \subseteq Uid
      <4>1. \A n \in Nat : \A k \in 1..(n \div 2) : 2*k - 1 \in 1..n
        OBVIOUS
      <4>2. Len(a.list) \in Nat /\ \A i \in 1..Len(a.list) : a.list[i] \in Uid
        BY <1>3
      <4> HIDE DEF a
      <4> QED BY <4>1, <4>2 DEF Restored
    <3> DEFINE B == player[h].black \cup Restored(a.list)
               p == [player[h] EXCEPT !.black = B]
    <3>3. p \in Player /\ p.uid = player[h].uid /\ p.queue = player[h].queue /\ p.sent = player[h].sent
      BY <3>1, <3>2 DEF Player
    <3>4. player' = [player EXCEPT ![h] = p]
      BY <1>5, <2>2
    <3>5. /\ \A m \in Elements(p.queue) : m.receiver = p.uid
          /\ \A m \in Message : m.type = "private" /\ p.sent[m] > 0 => m.receiver = p.uid
      BY <3>1, <3>3 DEF MemoryOK, QueuesAddressed, PrivateStaysPrivate
    <3>6. /\ bcast' \in [Server -> Seq(Message)] /\ BroadcastsListed'
          /\ active' \in [Server -> SUBSET Handle]
          /\ \A t \in Server : active'[t] \subseteq active[t] \cup {h}
      BY <1>5 DEF MemoryOK, BroadcastsListed
    <3>7. UNCHANGED <<alive, local>>
      BY <1>5, <2>2
    <3>8. MemoryOK'
      <4> HIDE DEF p, h
      <4> QED BY <3>1, <3>3, <3>4, <3>5, <3>6, <3>7, PlayerChange
    <3> QED BY <1>4, <2>1, <3>8
  <2>3. CASE ~ IsPlayer(s, u)
    <3>1. MemoryOK'
      BY <1>3, <1>5, <2>3, SlotCleared
    <3> QED BY <1>4, <2>1, <3>1
  <2> QED BY <2>2, <2>3
<1>6. CASE Die(s)
  BY <1>4, <1>6, DieKeeps
<1> QED BY <1>5, <1>6 DEF BlackAnswer

LEMMA OnlineAnswerKeeps ==
    ASSUME IInv, NEW s \in Server, OnlineAnswer(s)
    PROVE  IInv'
<1> DEFINE a == Head(answer[s])
           rest == [answer EXCEPT ![s] = Tail(@)]
<1> USE DEF IInv
<1>1. answer[s] # <<>> /\ a.op = "getOnline" /\ UNCHANGED <<conns, session, redis, env>>
  BY DEF OnlineAnswer
<1>2. a \in Answer
  BY <1>1, TakeAnswer
<1>3. a.msg \in Message
  BY <1>1, <1>2, AnswerFields
<1>4. ConnsOK' /\ RedisOK' /\ EnvOK'
  BY <1>1, ConnsUnchanged, RedisUnchanged, EnvUnchanged
<1>5. CASE /\ Issue(s, <<[op |-> "rpushMsg", msg |-> a.msg]>>)
           /\ answer' = rest /\ UNCHANGED <<alive, memory, wire>>
  <2>1. <<[op |-> "rpushMsg", msg |-> a.msg]>> \in Seq(Command)
    BY <1>3 DEF Command
  <2>2. PipeOK'
    BY <1>5, <2>1, IssueKeeps
  <2> QED BY <1>1, <1>4, <1>5, <2>2, TakeAnswer, MemoryUnchanged DEF WireOK
<1>6. CASE /\ a.at \in Peer[s] /\ wire' = [wire EXCEPT ![s][a.at] = Append(@, a.msg)]
           /\ answer' = rest /\ UNCHANGED <<alive, memory, pipe>>
  <2>1. a.at \in Server
    BY <1>6, ServerAssumption
  <2>2. WireOK'
    <3> HIDE DEF a
    <3> QED BY <1>3, <1>6, <2>1 DEF WireOK
  <2> QED BY <1>1, <1>4, <1>6, <2>2, TakeAnswer, MemoryUnchanged DEF PipeOK
<1>7. CASE answer' = rest /\ UNCHANGED <<alive, memory, pipe, wire>>
  BY <1>1, <1>4, <1>7, TakeAnswer, MemoryUnchanged DEF PipeOK, WireOK
<1>8. CASE Die(s) /\ UNCHANGED wire
  BY <1>4, <1>8, DieKeeps DEF WireOK
<1> QED BY <1>5, <1>6, <1>7, <1>8 DEF OnlineAnswer

-----------------------------------------------------------------------------
(* Requests, forwarded messages and Redis.                                 *)

\* The actions that end in LobbyLogout, Die or nothing.
LEMMA ConnectionKeeps ==
    ASSUME IInv, NEW c \in Conn, Connect(c) \/ Disconnect(c) \/ Destroy(c) \/ PlayerList(c)
    PROVE  IInv'
<1> USE DEF IInv
<1>0. ServerOf[c] \in Server
  BY ServerAssumption
<1>1. CASE Connect(c)
  <2>1. MemoryOK' /\ PipeOK' /\ AnswerOK' /\ WireOK' /\ RedisOK' /\ EnvOK'
    BY <1>1, MemoryUnchanged, AnswerUnchanged, RedisUnchanged, EnvUnchanged DEF Connect, PipeOK, WireOK
  <2>2. addr' \in [Conn -> Conn]
    BY <1>1 DEF Connect, ConnsOK
  <2>3. ConnsOK'
    BY <1>1, <2>2 DEF Connect, ConnsOK
  <2> QED BY <2>1, <2>3
<1>2. CASE Disconnect(c)
  <2>1. WireOK' /\ RedisOK' /\ EnvOK'
    BY <1>2, RedisUnchanged, EnvUnchanged DEF Disconnect, WireOK
  <2>2. ConnsOK'
    BY <1>2, UserAssumption DEF Disconnect, ConnsOK
  <2>3. CASE owner[c] = Nobody
    BY <1>2, <2>1, <2>2, <2>3, MemoryUnchanged, AnswerUnchanged DEF Disconnect, PipeOK
  <2>4. CASE owner[c] # Nobody
    <3>1. LobbyLogout(ServerOf[c], owner[c]) /\ owner[c] \in Uid
      BY <1>2, <2>4 DEF Disconnect, ConnsOK
    <3> QED BY <1>0, <2>1, <2>2, <3>1, LogoutKeeps
  <2> QED BY <2>3, <2>4
<1>3. CASE Destroy(c)
  <2>1. MemoryOK' /\ PipeOK' /\ AnswerOK' /\ WireOK' /\ RedisOK' /\ EnvOK'
    BY <1>3, MemoryUnchanged, AnswerUnchanged, RedisUnchanged, EnvUnchanged DEF Destroy, PipeOK, WireOK
  <2>2. ConnsOK'
    BY <1>3 DEF Destroy, ConnsOK
  <2> QED BY <2>1, <2>2
<1>4. CASE PlayerList(c)
  BY <1>0, <1>4, DieKeeps, ConnsUnchanged, RedisUnchanged, EnvUnchanged DEF PlayerList, WireOK
<1> QED BY <1>1, <1>2, <1>3, <1>4

LEMMA LoginRequestKeeps ==
    ASSUME IInv, NEW c \in Conn, NEW u \in Uid, LoginRequest(c, u)
    PROVE  IInv'
<1> USE DEF IInv
<1>1. ServerOf[c] \in Server
  BY ServerAssumption
<1>2. <<[op |-> "login", conn |-> c, uid |-> u]>> \in Seq(Command)
  BY DEF Command
<1>3. PipeOK'
  BY <1>1, <1>2, IssueKeeps DEF LoginRequest
<1>4. EnvOK'
  BY BoundAssumption DEF LoginRequest, EnvOK
<1> QED BY <1>3, <1>4, MemoryUnchanged, AnswerUnchanged, ConnsUnchanged, RedisUnchanged
        DEF LoginRequest, WireOK

LEMMA UserRequestKeeps ==
    ASSUME IInv, NEW c \in Conn, NEW u \in Account, Logout(c, u) \/ GetBlackList(c, u)
    PROVE  IInv'
<1> USE DEF IInv
<1>0. ServerOf[c] \in Server /\ u \in Uid
  BY ServerAssumption DEF Account
<1>1. CASE Logout(c, u)
  <2>1. ConnsOK'
    BY <1>1 DEF Logout, ConnsOK, conns
  <2> QED BY <1>0, <1>1, <2>1, LogoutKeeps, RedisUnchanged, EnvUnchanged DEF Logout, WireOK
<1>2. CASE GetBlackList(c, u)
  BY <1>0, <1>2, DieKeeps, ConnsUnchanged, RedisUnchanged, EnvUnchanged DEF GetBlackList, WireOK
<1> QED BY <1>1, <1>2

LEMMA EditBlackListKeeps ==
    ASSUME IInv, NEW c \in Conn, NEW u \in Account, NEW add \in SUBSET Uid, NEW del,
           EditBlackList(c, u, add, del)
    PROVE  IInv'
<1> DEFINE s == ServerOf[c]
           h == local[s][u]
<1> USE DEF IInv
<1>0. s \in Server /\ u \in Uid
  BY ServerAssumption DEF Account
<1>1. ConnsOK' /\ WireOK' /\ RedisOK' /\ EnvOK'
  BY ConnsUnchanged, RedisUnchanged, EnvUnchanged DEF EditBlackList, WireOK
<1>2. CASE /\ IsPlayer(s, u)
           /\ player' = [player EXCEPT ![h].black = (@ \ del) \cup add]
           /\ UNCHANGED <<alive, local, active, bcast, pipe, answer>>
  <2>1. h \in Handle /\ Made(h) /\ player[h] \in Player
    BY <1>0, <1>2 DEF IsPlayer, MemoryOK, SlotsAddressed, Made
  <2> DEFINE B == (player[h].black \ del) \cup add
             p == [player[h] EXCEPT !.black = B]
  <2>2. p \in Player /\ p.uid = player[h].uid /\ p.queue = player[h].queue /\ p.sent = player[h].sent
    BY <2>1 DEF Player
  <2>3. player' = [player EXCEPT ![h] = p]
    BY <1>2
  <2>4. /\ \A m \in Elements(p.queue) : m.receiver = p.uid
        /\ \A m \in Message : m.type = "private" /\ p.sent[m] > 0 => m.receiver = p.uid
    BY <2>1, <2>2 DEF MemoryOK, QueuesAddressed, PrivateStaysPrivate
  <2>5. /\ bcast' \in [Server -> Seq(Message)] /\ BroadcastsListed'
        /\ active' \in [Server -> SUBSET Handle]
        /\ \A t \in Server : active'[t] \subseteq active[t] \cup {h}
    BY <1>2 DEF MemoryOK, BroadcastsListed
  <2>6. UNCHANGED <<alive, local>>
    BY <1>2
  <2>7. MemoryOK'
    <3> HIDE DEF p, h
    <3> QED BY <2>1, <2>2, <2>3, <2>4, <2>5, <2>6, PlayerChange
  <2> QED BY <1>1, <1>2, <2>7, AnswerUnchanged DEF PipeOK
<1>3. CASE Die(s)
  BY <1>0, <1>1, <1>3, DieKeeps
<1> QED BY <1>2, <1>3 DEF EditBlackList

LEMMA MessageKeeps ==
    ASSUME IInv,
           \/ \E c \in Conn, m \in Message : Chat(c, m)
           \/ \E s, t \in Server : Receive(s, t)
    PROVE  IInv'
<1> USE DEF IInv
<1>1. ASSUME NEW c \in Conn, NEW m \in Message, Chat(c, m) PROVE IInv'
  <2>1. ServerOf[c] \in Server /\ wire \in [Server -> [Server -> Seq(Message)]]
    BY ServerAssumption DEF WireOK
  <2>2. EnvOK'
    BY <1>1 DEF Chat, EnvOK
  <2> QED BY <1>1, <2>1, <2>2, NewMessageKeeps, ConnsUnchanged, RedisUnchanged DEF Chat
<1>2. ASSUME NEW s \in Server, NEW t \in Server, Receive(s, t) PROVE IInv'
  <2>1. wire[s][t] \in Seq(Message) /\ wire[s][t] # <<>>
    BY <1>2 DEF WireOK, Receive
  <2>2. Head(wire[s][t]) \in Message /\ Tail(wire[s][t]) \in Seq(Message)
    BY <2>1
  <2>3. [wire EXCEPT ![s][t] = Tail(@)] \in [Server -> [Server -> Seq(Message)]]
    BY <2>2 DEF WireOK
  <2> QED BY <1>2, <2>2, <2>3, NewMessageKeeps, ConnsUnchanged, RedisUnchanged, EnvUnchanged DEF Receive
<1> QED BY <1>1, <1>2

LEMMA ReplyKeeps ==
    ASSUME AnswerOK, NEW s \in Server, NEW a \in Answer, Reply(s, a),
           a.op = "lrangeMsg" => \A m \in Elements(a.list) : m.receiver = a.uid
    PROVE  AnswerOK'
<1>1. answer' \in [Server -> Seq(Answer)]
  BY DEF AnswerOK, Reply
<1>2. \A t \in Server : Elements(answer'[t]) \subseteq Elements(answer[t]) \cup {a}
  <2>1. answer[s] \in Seq(Answer)
    BY DEF AnswerOK
  <2>2. Elements(Append(answer[s], a)) \subseteq Elements(answer[s]) \cup {a}
    BY <2>1, AppendProperties DEF Elements
  <2> QED BY <2>2 DEF AnswerOK, Reply
<1> QED BY <1>1, <1>2 DEF AnswerOK, AnswersAddressed

LEMMA RedisExecKeeps ==
    ASSUME IInv, NEW s \in Server, RedisExec(s)
    PROVE  IInv'
<1> DEFINE c == Head(pipe[s])
<1> USE DEF IInv
<1>1. pipe[s] # <<>> /\ pipe' = [pipe EXCEPT ![s] = Tail(@)] /\ UNCHANGED <<alive, memory, conns, session, wire, env>>
  BY DEF RedisExec
<1>2. c \in Command /\ PipeOK'
  BY <1>1 DEF PipeOK
<1>3. MemoryOK' /\ ConnsOK' /\ WireOK' /\ EnvOK'
  BY <1>1, MemoryUnchanged, ConnsUnchanged, EnvUnchanged DEF WireOK
<1> HIDE DEF c
<1>4. CASE c.op = "login" /\ Reply(s, c) /\ UNCHANGED redis
  <2>1. c \in Answer
    BY <1>2, <1>4, CommandFields
  <2> QED BY <1>2, <1>3, <1>4, <2>1, ReplyKeeps, RedisUnchanged
<1>5. CASE c.op = "getOnline" /\ UNCHANGED redis
           /\ Reply(s, [op |-> "getOnline", msg |-> c.msg, at |-> online[c.msg.receiver]])
  <2>1. c.msg \in Message
    BY <1>2, <1>5, CommandFields
  <2>2. online[c.msg.receiver] \in Server \cup {Absent}
    BY <2>1, MessageFields DEF RedisOK
  <2> DEFINE a == [op |-> "getOnline", msg |-> c.msg, at |-> online[c.msg.receiver]]
  <2>3. a \in Answer /\ a.op # "lrangeMsg"
    BY <2>1, <2>2 DEF Answer
  <2> QED BY <1>2, <1>3, <1>5, <2>3, ReplyKeeps, RedisUnchanged
<1>6. CASE c.op = "lrangeMsg" /\ UNCHANGED redis
           /\ Reply(s, [op |-> "lrangeMsg", uid |-> c.uid, list |-> mailbox[c.uid]])
  <2>1. c.uid \in Uid
    BY <1>2, <1>6, CommandFields
  <2>2. mailbox[c.uid] \in Seq(Message) /\ \A m \in Elements(mailbox[c.uid]) : m.receiver = c.uid
    BY <2>1 DEF RedisOK, MailboxesAddressed
  <2> DEFINE a == [op |-> "lrangeMsg", uid |-> c.uid, list |-> mailbox[c.uid]]
  <2>3. a \in Answer
    BY <2>1, <2>2 DEF Answer
  <2>4. a.list = mailbox[c.uid] /\ a.uid = c.uid
    OBVIOUS
  <2>5. Reply(s, a)
    BY <1>6
  <2> HIDE DEF a
  <2> QED BY <1>2, <1>3, <1>6, <2>2, <2>3, <2>4, <2>5, ReplyKeeps, RedisUnchanged
<1>7. CASE c.op = "lrangeBlack" /\ UNCHANGED redis
           /\ Reply(s, [op |-> "lrangeBlack", uid |-> c.uid, list |-> blackKey[c.uid]])
  <2>1. c.uid \in Uid /\ blackKey[c.uid] \in Seq(Uid)
    BY <1>2, <1>7, CommandFields DEF RedisOK
  <2> DEFINE a == [op |-> "lrangeBlack", uid |-> c.uid, list |-> blackKey[c.uid]]
  <2>2. a \in Answer /\ a.op # "lrangeMsg"
    BY <2>1 DEF Answer
  <2> QED BY <1>2, <1>3, <1>7, <2>2, ReplyKeeps, RedisUnchanged
<1>8. CASE /\ c.op \in {"setOnline", "delOnline"}
           /\ \E v \in {s, Absent} : online' = [online EXCEPT ![c.uid] = v]
           /\ UNCHANGED <<mailbox, blackKey, answer>>
  <2>1. RedisOK'
    BY <1>8 DEF RedisOK, MailboxesAddressed
  <2> QED BY <1>2, <1>3, <1>8, <2>1, AnswerUnchanged
<1>9. CASE c.op = "rpushMsg" /\ mailbox' = [mailbox EXCEPT ![c.msg.receiver] = Append(@, c.msg)]
           /\ UNCHANGED <<online, blackKey, answer>>
  <2>1. c.msg \in Message /\ c.msg.receiver \in Uid
    BY <1>2, <1>9, CommandFields, MessageFields
  <2> DEFINE m == c.msg
             r == m.receiver
  <2>2. mailbox[r] \in Seq(Message)
    BY <2>1 DEF RedisOK
  <2>3. mailbox' \in [Uid -> Seq(Message)] /\ mailbox'[r] = Append(mailbox[r], m)
    BY <1>9, <2>1, <2>2 DEF RedisOK
  <2>4. Elements(Append(mailbox[r], m)) \subseteq Elements(mailbox[r]) \cup {m}
    BY <2>1, <2>2, AppendProperties DEF Elements
  <2>5. \A u \in Uid : u # r => mailbox'[u] = mailbox[u]
    BY <1>9 DEF RedisOK
  <2>6. \A u \in Uid : \A n \in Elements(mailbox'[u]) : n.receiver = u
    <3>1. \A n \in Elements(mailbox'[r]) : n.receiver = r
      BY <2>1, <2>3, <2>4 DEF RedisOK, MailboxesAddressed
    <3> HIDE DEF r
    <3> QED BY <2>5, <3>1 DEF RedisOK, MailboxesAddressed
  <2>7. RedisOK'
    BY <1>9, <2>3, <2>6 DEF RedisOK, MailboxesAddressed
  <2> QED BY <1>2, <1>3, <1>9, <2>7, AnswerUnchanged
<1>10. CASE c.op = "delMsg" /\ mailbox' = [mailbox EXCEPT ![c.uid] = <<>>]
            /\ UNCHANGED <<online, blackKey, answer>>
  <2>0. c.uid \in Uid /\ <<>> \in Seq(Message)
    BY <1>2, <1>10, CommandFields
  <2>1. mailbox' \in [Uid -> Seq(Message)]
    BY <1>10, <2>0 DEF RedisOK
  <2>2. \A u \in Uid : Elements(mailbox'[u]) \subseteq Elements(mailbox[u])
    BY <1>10 DEF RedisOK, Elements
  <2>3. RedisOK'
    BY <1>10, <2>1, <2>2 DEF RedisOK, MailboxesAddressed
  <2> QED BY <1>2, <1>3, <1>10, <2>3, AnswerUnchanged
<1>11. CASE /\ c.op \in {"lpushBlack", "delBlack"}
            /\ blackKey' \in {[blackKey EXCEPT ![c.uid] = <<c.first>> \o @], [blackKey EXCEPT ![c.uid] = <<>>]}
            /\ c.op = "delBlack" => blackKey' = [blackKey EXCEPT ![c.uid] = <<>>]
            /\ UNCHANGED <<online, mailbox, answer>>
  <2>1. c.uid \in Uid /\ (c.op = "lpushBlack" => c.first \in Uid)
    BY <1>2, <1>11, CommandFields
  <2>2. blackKey' \in [Uid -> Seq(Uid)]
    <3>1. CASE blackKey' = [blackKey EXCEPT ![c.uid] = <<>>]
      <4>1. <<>> \in Seq(Uid)
        OBVIOUS
      <4> QED BY <2>1, <3>1, <4>1 DEF RedisOK
    <3>2. CASE c.op = "lpushBlack" /\ blackKey' = [blackKey EXCEPT ![c.uid] = <<c.first>> \o @]
      BY <2>1, <3>2 DEF RedisOK
    <3> QED BY <1>11, <3>1, <3>2
  <2>3. RedisOK'
    BY <1>11, <2>2 DEF RedisOK, MailboxesAddressed
  <2> QED BY <1>2, <1>3, <1>11, <2>3, AnswerUnchanged
<1> QED BY <1>4, <1>5, <1>6, <1>7, <1>8, <1>9, <1>10, <1>11 DEF RedisExec, c

-----------------------------------------------------------------------------
(* The theorems.                                                           *)

LEMMA InvNext == IInv /\ [Next]_vars => IInv'
<1> SUFFICES ASSUME IInv, [Next]_vars PROVE IInv'
  OBVIOUS
<1>1. CASE UNCHANGED vars
  BY <1>1, MemoryUnchanged, AnswerUnchanged, ConnsUnchanged, RedisUnchanged, EnvUnchanged
     DEF vars, IInv, PipeOK, WireOK
<1>2. CASE Request
  <2>1. ASSUME NEW c \in Conn, NEW u \in Account, NEW b \in Account,
               AddBlackList(c, u, b) \/ DelBlackList(c, u, b)
        PROVE  IInv'
    <3>1. {b} \in SUBSET Uid /\ {} \in SUBSET Uid
      BY DEF Account
    <3> QED BY <2>1, <3>1, EditBlackListKeeps DEF AddBlackList, DelBlackList
  <2> QED BY <1>2, <2>1, ConnectionKeeps, LoginRequestKeeps, UserRequestKeeps, MessageKeeps DEF Request
<1>3. ASSUME NEW s \in Server, AnswerCallback(s) PROVE IInv'
  BY <1>3, LoginAnswerKeeps, OfflineAnswerKeeps, BlackAnswerKeeps, OnlineAnswerKeeps DEF AnswerCallback
<1> QED BY <1>1, <1>2, <1>3, TickKeeps, RedisExecKeeps, MessageKeeps DEF Next

\* The inductive invariant holds in every reachable state of Lobby.
THEOREM Inductive == Spec => []IInv
  BY InvInit, InvNext, PTL DEF Spec

\* Type correctness, for any servers, connections, users and messages.
THEOREM TypeCorrect == Spec => []TypeOK
<1>1. IInv => TypeOK
  BY DEF IInv, MemoryOK, ConnsOK, PipeOK, AnswerOK, WireOK, RedisOK, EnvOK, TypeOK
<1> QED BY <1>1, Inductive, PTL

\* A private message is only ever sent to its receiver, whichever of the
\* local queue, the offline store and the other servers it went through.
THEOREM PrivateMessages == Spec => []PrivateStaysPrivate
<1>1. IInv => PrivateStaysPrivate
  BY DEF IInv, MemoryOK
<1> QED BY <1>1, Inductive, PTL

-----------------------------------------------------------------------------
(* Action properties.                                                      *)

SlotStep ==
    \A s \in Server, u \in Uid :
        alive'[s] /\ local[s][u] # Absent /\ local'[s][u] # local[s][u]
            => local[s][u] # Null /\ local'[s][u] = Absent

LEMMA DieSlots ==
    ASSUME MemoryOK, NEW s \in Server, Die(s)
    PROVE  SlotStep
  BY DEF MemoryOK, Die, SlotStep

LEMMA LogoutSlots ==
    ASSUME MemoryOK, NEW s \in Server, NEW u \in Uid, LobbyLogout(s, u)
    PROVE  SlotStep
<1>1. CASE IsPlayer(s, u) /\ local' = [local EXCEPT ![s][u] = Absent]
  BY <1>1, NullAssumption DEF MemoryOK, IsPlayer, Handle, SlotStep
<1> QED BY <1>1, DieSlots DEF LobbyLogout

LEMMA LoginSlots ==
    ASSUME MemoryOK, NEW s \in Server, NEW u \in Uid, NEW c, LobbyLogin(s, u, c)
    PROVE  SlotStep
<1>1. CASE UNCHANGED local
  BY <1>1 DEF SlotStep
<1>2. CASE local[s][u] = Absent /\ \E h \in Handle : local' = [local EXCEPT ![s][u] = h]
  BY <1>2 DEF MemoryOK, SlotStep
<1> QED BY <1>1, <1>2 DEF LobbyLogin, Insert

\* What a callback that finds no Player does: the slot becomes null.
LEMMA NullSlots ==
    ASSUME MemoryOK, NEW s \in Server, NEW u \in Uid, ~ IsPlayer(s, u),
           local' = [local EXCEPT ![s][u] = Null]
    PROVE  SlotStep
  BY DEF MemoryOK, IsPlayer, SlotStep

LEMMA SlotNext == IInv /\ [Next]_vars => SlotStep
<1> SUFFICES ASSUME IInv, [Next]_vars PROVE SlotStep
  OBVIOUS
<1> USE DEF IInv
<1>0. UNCHANGED local => SlotStep
  BY DEF SlotStep
<1>1. ASSUME NEW s \in Server, LoginAnswer(s) PROVE SlotStep
  <2> DEFINE a == Head(answer[s])
  <2>1. a \in Answer /\ a.uid \in Uid
    BY <1>1, TakeAnswer, AnswerFields DEF LoginAnswer
  <2> HIDE DEF a
  <2>2. CASE \E c : LobbyLogin(s, a.uid, c)
    BY <2>1, <2>2, LoginSlots
  <2> QED BY <1>0, <1>1, <2>2, DieSlots DEF LoginAnswer, LoginThrough, memory, a
<1>2. ASSUME NEW s \in Server, OfflineAnswer(s) PROVE SlotStep
  <2> DEFINE u == Head(answer[s]).uid
  <2>1. u \in Uid
    BY <1>2, TakeAnswer, AnswerFields DEF OfflineAnswer
  <2>2. CASE ~ IsPlayer(s, u) /\ local' = [local EXCEPT ![s][u] = Null]
    BY <2>1, <2>2, NullSlots
  <2> QED BY <1>0, <1>2, <2>2, DieSlots DEF OfflineAnswer
<1>3. ASSUME NEW s \in Server, BlackAnswer(s) PROVE SlotStep
  <2> DEFINE u == Head(answer[s]).uid
  <2>1. u \in Uid
    BY <1>3, TakeAnswer, AnswerFields DEF BlackAnswer
  <2>2. CASE ~ IsPlayer(s, u) /\ local' = [local EXCEPT ![s][u] = Null]
    BY <2>1, <2>2, NullSlots
  <2> QED BY <1>0, <1>3, <2>2, DieSlots DEF BlackAnswer
<1>4. ASSUME NEW s \in Server, OnlineAnswer(s) PROVE SlotStep
  BY <1>0, <1>4, DieSlots DEF OnlineAnswer, memory
<1>5. ASSUME NEW s \in Server, Tick(s) PROVE SlotStep
  BY <1>0, <1>5, DieSlots DEF Tick
<1>6. ASSUME NEW s \in Server, RedisExec(s) PROVE SlotStep
  BY <1>0, <1>6 DEF RedisExec, memory
<1>7. ASSUME NEW s \in Server, NEW m, NEW w, NewMessage(s, m, w) PROVE SlotStep
  BY <1>0, <1>7, DieSlots DEF NewMessage, Forward, PrivateChat
<1>8. ASSUME NEW c \in Conn, NEW u \in Uid, LobbyLogout(ServerOf[c], u) PROVE SlotStep
  BY <1>8, LogoutSlots, ServerAssumption
<1>9. ASSUME NEW c \in Conn, Die(ServerOf[c]) PROVE SlotStep
  BY <1>9, DieSlots, ServerAssumption
<1>10. CASE Request
  <2>1. ASSUME NEW c \in Conn, Connect(c) \/ Disconnect(c) \/ Destroy(c) \/ PlayerList(c) PROVE SlotStep
    <3>1. owner[c] \in Uid
      BY DEF ConnsOK
    <3> QED BY <1>0, <1>8, <1>9, <2>1, <3>1 DEF Connect, Disconnect, Destroy, PlayerList, memory
  <2>2. ASSUME NEW c \in Conn, NEW u \in Uid, LoginRequest(c, u) PROVE SlotStep
    BY <1>0, <2>2 DEF LoginRequest, memory
  <2>3. ASSUME NEW c \in Conn, NEW u \in Account, Logout(c, u) \/ GetBlackList(c, u) PROVE SlotStep
    BY <1>8, <1>9, <2>3 DEF Logout, GetBlackList, Account
  <2>4. ASSUME NEW c \in Conn, NEW u, NEW b, AddBlackList(c, u, b) \/ DelBlackList(c, u, b) PROVE SlotStep
    BY <1>0, <1>9, <2>4 DEF AddBlackList, DelBlackList, EditBlackList
  <2>5. ASSUME NEW c \in Conn, NEW m, Chat(c, m) PROVE SlotStep
    BY <1>7, <2>5, ServerAssumption DEF Chat
  <2> QED BY <1>10, <2>1, <2>2, <2>3, <2>4, <2>5 DEF Request
<1>11. CASE \E s, t \in Server : Receive(s, t)
  BY <1>7, <1>11 DEF Receive
<1>12. CASE UNCHANGED vars
  BY <1>0, <1>12 DEF vars, memory
<1> QED BY <1>1, <1>2, <1>3, <1>4, <1>5, <1>6, <1>10, <1>11, <1>12 DEF Next, AnswerCallback

\* While a server runs, an occupied slot of local_players_ is only ever freed,
\* by its Player's logout, and a null slot is there to stay.
THEOREM Slots == Spec => SlotSticky
<1>1. IInv /\ [Next]_vars => [SlotStep]_vars
  BY SlotNext
<1> QED BY <1>1, Inductive, PTL DEF Spec, SlotSticky, SlotStep

-----------------------------------------------------------------------------
(* Black lists: only the timer sends.                                      *)

SentStep ==
    \A h \in Handle, m \in Message :
        Made(h) /\ m.sender \in player[h].black => player'[h].sent[m] = player[h].sent[m]

\* A step that changes a Player's queue or black list, or makes a Player.
LEMMA OtherChange ==
    ASSUME MemoryOK, NEW g \in Handle,
           \/ \E q : player' = [player EXCEPT ![g].queue = q]
           \/ \E b : player' = [player EXCEPT ![g].black = b]
           \/ ~ Made(g) /\ \E p : player' = [player EXCEPT ![g] = p]
    PROVE  SentStep
<1>1. CASE \E q : player' = [player EXCEPT ![g].queue = q]
  BY <1>1 DEF MemoryOK, Made, Player, SentStep
<1>2. CASE \E b : player' = [player EXCEPT ![g].black = b]
  BY <1>2 DEF MemoryOK, Made, Player, SentStep
<1>3. CASE ~ Made(g) /\ \E p : player' = [player EXCEPT ![g] = p]
  BY <1>3 DEF MemoryOK, Made, SentStep
<1> QED BY <1>1, <1>2, <1>3

LEMMA FlushedBlack ==
    ASSUME MemoryOK, NEW s \in Server, NEW h \in Handle, Made(h),
           NEW m \in Message, m.sender \in player[h].black
    PROVE  Flushed(s, h).sent[m] = player[h].sent[m]
<1> DEFINE p  == player[h]
           n  == IF h \in active[s] THEN Front(p.queue) ELSE 0
           b  == IF h \in Hearers(s) THEN Len(bcast[s]) ELSE 0
           up == cstate[p.conn] = "up"
           queue == SubSeq(p.queue, n + 1, Len(p.queue))
           new(k) == p.sent[k] + Times(k, p.queue, n) + Times(k, bcast[s], b)
           sent == [k \in Message |-> IF up /\ k.sender \notin p.black THEN new(k) ELSE p.sent[k]]
<1>1. p \in Player
  BY DEF MemoryOK, Made
<1>2. Flushed(s, h) = [p EXCEPT !.queue = queue, !.sent = sent]
  BY <1>1 DEF Flushed, isInBlackList
<1>3. sent[m] = p.sent[m]
  OBVIOUS
<1> HIDE DEF queue, sent
<1>4. Flushed(s, h).sent = sent
  BY <1>1, <1>2 DEF Player
<1> QED BY <1>3, <1>4

LEMMA SentNext == IInv /\ [Next]_vars => SentStep
<1> SUFFICES ASSUME IInv, [Next]_vars PROVE SentStep
  OBVIOUS
<1> USE DEF IInv
<1>0. UNCHANGED player => SentStep
  BY DEF SentStep
<1>1. ASSUME NEW s, Die(s) PROVE SentStep
  BY <1>0, <1>1 DEF Die
<1>2. ASSUME NEW s, NEW u, LobbyLogout(s, u) PROVE SentStep
  BY <1>0, <1>1, <1>2 DEF LobbyLogout
<1>3. ASSUME NEW s, NEW u, NEW c, LobbyLogin(s, u, c) PROVE SentStep
  BY <1>0, <1>3, OtherChange DEF LobbyLogin, Insert
<1>4. ASSUME NEW s \in Server, LoginAnswer(s) PROVE SentStep
  BY <1>0, <1>1, <1>3, <1>4 DEF LoginAnswer, LoginThrough, memory
<1>5. ASSUME NEW s \in Server, OfflineAnswer(s) PROVE SentStep
  BY <1>0, <1>1, <1>5, OtherChange DEF OfflineAnswer, Enqueue, IsPlayer
<1>6. ASSUME NEW s \in Server, BlackAnswer(s) PROVE SentStep
  BY <1>0, <1>1, <1>6, OtherChange DEF BlackAnswer, IsPlayer
<1>7. ASSUME NEW s \in Server, OnlineAnswer(s) PROVE SentStep
  BY <1>0, <1>1, <1>7 DEF OnlineAnswer, memory
<1>8. ASSUME NEW s \in Server, Tick(s) PROVE SentStep
  <2>1. CASE player' = [h \in Handle |-> IF h \in active[s] \cup Hearers(s)
                                         THEN Flushed(s, h) ELSE player[h]]
    BY <2>1, FlushedBlack DEF SentStep
  <2> QED BY <1>1, <1>8, <2>1 DEF Tick
<1>9. ASSUME NEW s \in Server, RedisExec(s) PROVE SentStep
  BY <1>0, <1>9 DEF RedisExec, memory
<1>10. ASSUME NEW s \in Server, NEW m, NEW w, NewMessage(s, m, w) PROVE SentStep
  BY <1>0, <1>1, <1>10, OtherChange DEF NewMessage, Forward, PrivateChat, Enqueue, IsPlayer
<1>11. CASE Request
  <2>1. ASSUME NEW c \in Conn, Connect(c) \/ Disconnect(c) \/ Destroy(c) \/ PlayerList(c) PROVE SentStep
    BY <1>0, <1>1, <1>2, <2>1 DEF Connect, Disconnect, Destroy, PlayerList, memory
  <2>2. ASSUME NEW c \in Conn, NEW u, LoginRequest(c, u) PROVE SentStep
    BY <1>0, <2>2 DEF LoginRequest, memory
  <2>3. ASSUME NEW c \in Conn, NEW u, Logout(c, u) \/ GetBlackList(c, u) PROVE SentStep
    BY <1>1, <1>2, <2>3 DEF Logout, GetBlackList
  <2>4. ASSUME NEW c \in Conn, NEW u, NEW b, AddBlackList(c, u, b) \/ DelBlackList(c, u, b) PROVE SentStep
    BY <1>1, <2>4, OtherChange DEF AddBlackList, DelBlackList, EditBlackList, IsPlayer
  <2>5. ASSUME NEW c \in Conn, NEW m, Chat(c, m) PROVE SentStep
    BY <1>10, <2>5, ServerAssumption DEF Chat
  <2> QED BY <1>11, <2>1, <2>2, <2>3, <2>4, <2>5 DEF Request
<1>12. CASE \E s, t \in Server : Receive(s, t)
  BY <1>10, <1>12 DEF Receive
<1>13. CASE UNCHANGED vars
  BY <1>0, <1>13 DEF vars, memory
<1> QED BY <1>4, <1>5, <1>6, <1>7, <1>8, <1>9, <1>11, <1>12, <1>13 DEF Next, AnswerCallback

\* Nothing a black-listed user wrote is sent to the user who black-listed them,
\* not even what was queued before the black list changed.
THEOREM BlackLists == Spec => BlackListRespected
<1>1. IInv /\ [Next]_vars => [SentStep]_vars
  BY SentNext
<1> QED BY <1>1, Inductive, PTL DEF Spec, BlackListRespected, SentStep

-----------------------------------------------------------------------------
(* Broadcasts: only the timer takes them off a list.                        *)

ListStep ==
    \A s \in Server : alive'[s] =>
         \A m \in Elements(bcast[s]) \ Elements(bcast'[s]), h \in Hearers(s) :
             \/ cstate[player[h].conn] # "up"
             \/ m.sender \in player[h].black
             \/ player'[h].sent[m] > 0

\* Times counts what is there.
LEMMA TimesSome ==
    ASSUME NEW q, NEW n \in Nat, NEW i \in 1..n
    PROVE  Times(q[i], q, n) > 0
<1> DEFINE S == {j \in 1..n : q[j] = q[i]}
<1>1. IsFiniteSet(1..n)
  BY FS_Interval
<1>2. IsFiniteSet(S)
  BY <1>1, FS_Subset
<1>3. Cardinality(S) \in Nat
  BY <1>2, FS_CardinalityType
<1>4. Cardinality(S) # 0
  <2>1. i \in S
    OBVIOUS
  <2> HIDE DEF S
  <2> QED BY <1>2, <2>1, FS_EmptySet
<1> QED BY <1>3, <1>4 DEF Times

LEMMA FlushedSent ==
    ASSUME MemoryOK, NEW s \in Server, NEW h \in Hearers(s), Made(h),
           NEW m \in Elements(bcast[s]),
           cstate[player[h].conn] = "up", m.sender \notin player[h].black
    PROVE  Flushed(s, h).sent[m] > 0
<1> DEFINE p  == player[h]
           n  == IF h \in active[s] THEN Front(p.queue) ELSE 0
           b  == IF h \in Hearers(s) THEN Len(bcast[s]) ELSE 0
           up == cstate[p.conn] = "up"
           queue == SubSeq(p.queue, n + 1, Len(p.queue))
           new(k) == p.sent[k] + Times(k, p.queue, n) + Times(k, bcast[s], b)
           sent == [k \in Message |-> IF up /\ k.sender \notin p.black THEN new(k) ELSE p.sent[k]]
<1>1. p \in Player /\ p.queue \in Seq(Message) /\ p.sent \in [Message -> Nat] /\ bcast[s] \in Seq(Message)
  BY DEF MemoryOK, Made, Player, Hearers
<1>2. n \in Nat /\ b = Len(bcast[s]) /\ b \in Nat /\ m \in Message
  BY <1>1, FrontNat DEF Elements
<1>3. Flushed(s, h) = [p EXCEPT !.queue = queue, !.sent = sent]
  BY <1>1 DEF Flushed, isInBlackList
<1>4. Times(m, bcast[s], b) > 0
  <2>1. PICK i \in 1..b : bcast[s][i] = m
    BY <1>1, <1>2 DEF Elements
  <2> QED BY <2>1, <1>2, TimesSome
<1>5. /\ p.sent[m] \in Nat /\ Times(m, p.queue, n) \in Nat /\ Times(m, bcast[s], b) \in Nat
  BY <1>1, <1>2, TimesNat
<1>6. new(m) > 0
  BY <1>4, <1>5
<1>7. sent[m] = new(m)
  BY <1>2
<1> HIDE DEF queue, sent
<1>8. Flushed(s, h).sent = sent
  BY <1>1, <1>3 DEF Player
<1> QED BY <1>6, <1>7, <1>8

\* What other steps do to the lists
LEMMA ListsKept ==
    ASSUME \A s \in Server : alive'[s] => Elements(bcast[s]) \subseteq Elements(bcast'[s])
    PROVE  ListStep
  BY DEF ListStep

LEMMA DieLists ==
    ASSUME MemoryOK, NEW s \in Server, Die(s)
    PROVE  ListStep
<1>1. \A t \in Server : alive'[t] => bcast'[t] = bcast[t]
  BY DEF MemoryOK, Die
<1> QED BY <1>1, ListsKept

LEMMA AnnounceLists ==
    ASSUME MemoryOK, NEW s \in Server, NEW m, Announce(s, m)
    PROVE  ListStep
<1>1. CASE m.type = "private"
  BY <1>1, ListsKept DEF MemoryOK, Announce
<1>2. CASE m.type # "private"
  <2>1. bcast' = [bcast EXCEPT ![s] = Append(@, m)]
    BY <1>2 DEF Announce
  <2>2. bcast[s] \in Seq(Message)
    BY DEF MemoryOK
  <2>3. Elements(bcast[s]) \subseteq Elements(Append(bcast[s], m))
    BY <2>2 DEF Elements
  <2>4. \A t \in Server : bcast'[t] = IF t = s THEN Append(bcast[s], m) ELSE bcast[t]
    BY <2>1 DEF MemoryOK
  <2> QED BY <2>3, <2>4, ListsKept
<1> QED BY <1>1, <1>2

LEMMA TickLists ==
    ASSUME MemoryOK, NEW s \in Server, Tick(s)
    PROVE  ListStep
<1>1. CASE /\ player' = [h \in Handle |-> IF h \in active[s] \cup Hearers(s)
                                          THEN Flushed(s, h) ELSE player[h]]
           /\ bcast' = [bcast EXCEPT ![s] = <<>>]
  <2>1. SUFFICES ASSUME NEW t \in Server, NEW m \in Elements(bcast[t]) \ Elements(bcast'[t]),
                        NEW h \in Hearers(t), cstate[player[h].conn] = "up",
                        m.sender \notin player[h].black
                 PROVE  player'[h].sent[m] > 0
    BY DEF ListStep
  <2>2. t = s
    BY <1>1 DEF MemoryOK
  <2>3. h \in Handle /\ Made(h)
    BY DEF MemoryOK, Hearers, SlotsAddressed, IsPlayer
  <2>4. player'[h] = Flushed(s, h)
    BY <1>1, <2>2, <2>3
  <2> QED BY <2>1, <2>2, <2>3, <2>4, FlushedSent
<1> QED BY <1>1, DieLists DEF Tick

LEMMA ListNext == IInv /\ [Next]_vars => ListStep
<1> SUFFICES ASSUME IInv, [Next]_vars PROVE ListStep
  OBVIOUS
<1> USE DEF IInv
<1>0. UNCHANGED bcast => ListStep
  BY ListsKept
<1>1. ASSUME NEW s \in Server, NEW u, LobbyLogout(s, u) PROVE ListStep
  BY <1>0, <1>1, DieLists DEF LobbyLogout
<1>2. ASSUME NEW s \in Server, AnswerCallback(s) PROVE ListStep
  BY <1>0, <1>2, DieLists
     DEF AnswerCallback, LoginAnswer, LoginThrough, LobbyLogin, OfflineAnswer, BlackAnswer, OnlineAnswer, memory
<1>3. ASSUME NEW s \in Server, RedisExec(s) PROVE ListStep
  BY <1>0, <1>3 DEF RedisExec, memory
<1>4. ASSUME NEW s \in Server, NEW m, NEW w, NewMessage(s, m, w) PROVE ListStep
  BY <1>4, DieLists, AnnounceLists DEF NewMessage, Forward, PrivateChat
<1>5. CASE Request
  <2>1. ASSUME NEW c \in Conn, Connect(c) \/ Disconnect(c) \/ Destroy(c) \/ PlayerList(c) PROVE ListStep
    BY <1>0, <1>1, <2>1, DieLists, ServerAssumption DEF Connect, Disconnect, Destroy, PlayerList, memory
  <2>2. ASSUME NEW c \in Conn, NEW u, LoginRequest(c, u) PROVE ListStep
    BY <1>0, <2>2 DEF LoginRequest, memory
  <2>3. ASSUME NEW c \in Conn, NEW u, Logout(c, u) \/ GetBlackList(c, u) PROVE ListStep
    BY <1>1, <2>3, DieLists, ServerAssumption DEF Logout, GetBlackList
  <2>4. ASSUME NEW c \in Conn, NEW u, NEW b, AddBlackList(c, u, b) \/ DelBlackList(c, u, b) PROVE ListStep
    BY <1>0, <2>4, DieLists, ServerAssumption DEF AddBlackList, DelBlackList, EditBlackList
  <2>5. ASSUME NEW c \in Conn, NEW m, Chat(c, m) PROVE ListStep
    BY <1>4, <2>5, ServerAssumption DEF Chat
  <2> QED BY <1>5, <2>1, <2>2, <2>3, <2>4, <2>5 DEF Request
<1>6. CASE \E s, t \in Server : Receive(s, t)
  BY <1>4, <1>6 DEF Receive
<1>7. CASE UNCHANGED vars
  BY <1>0, <1>7 DEF vars, memory
<1> QED BY <1>2, <1>3, <1>5, <1>6, <1>7, TickLists DEF Next

\* A broadcast leaves a server's list only by being sent to every player the
\* server has, but to those who block its sender or whose connection has ended.
THEOREM Broadcasts == Spec => BroadcastReaches
<1>1. IInv /\ [Next]_vars => [ListStep]_vars
  BY ListNext
<1> QED BY <1>1, Inductive, PTL DEF Spec, BroadcastReaches, ListStep

-----------------------------------------------------------------------------
(* What a server's pipe says about <u>:online.                              *)

Says(c, u) == c.op \in {"setOnline", "delOnline"} /\ c.uid = u

Value(s, c) == IF c.op = "setOnline" THEN s ELSE Absent

\* The last word on u among the first n commands of q, after the value o
Word(s, o, q, n, u) ==
    LET I == {i \in 1..n : Says(q[i], u)}
    IN  IF I = {} THEN o ELSE Value(s, q[CHOOSE i \in I : \A j \in I : j <= i])

LEMMA LastWordIsWord ==
    ASSUME NEW s \in Server, NEW u, pipe[s] \in Seq(Command)
    PROVE  LastWord(s, u) = Word(s, online[u], pipe[s], Len(pipe[s]), u)
<1>1. DOMAIN pipe[s] = 1..Len(pipe[s])
  OBVIOUS
<1> QED BY <1>1 DEF LastWord, Word, Says, Value

LEMMA WordQuiet ==
    ASSUME NEW s, NEW o, NEW q, NEW u, NEW n \in Nat, NEW k \in Nat, n <= k,
           \A i \in (n+1)..k : ~ Says(q[i], u)
    PROVE  Word(s, o, q, k, u) = Word(s, o, q, n, u)
<1>1. \A i \in 1..k : Says(q[i], u) => i \in 1..n
  <2>1. TAKE i \in 1..k
  <2>2. i \in 1..n \/ i \in (n+1)..k
    OBVIOUS
  <2> QED BY <2>2
<1>2. \A i \in 1..n : i \in 1..k
  OBVIOUS
<1> DEFINE I == {i \in 1..n : Says(q[i], u)}
           J == {i \in 1..k : Says(q[i], u)}
<1>3. Word(s, o, q, n, u) = IF I = {} THEN o ELSE Value(s, q[CHOOSE i \in I : \A j \in I : j <= i])
  BY DEF Word
<1>4. Word(s, o, q, k, u) = IF J = {} THEN o ELSE Value(s, q[CHOOSE i \in J : \A j \in J : j <= i])
  BY DEF Word
<1>5. I = J
  BY <1>1, <1>2
<1> HIDE DEF I, J
<1> QED BY <1>3, <1>4, <1>5

LEMMA WordSays ==
    ASSUME NEW s, NEW o, NEW q, NEW u, NEW n \in Nat \ {0}, Says(q[n], u)
    PROVE  Word(s, o, q, n, u) = Value(s, q[n])
<1> DEFINE I == {i \in 1..n : Says(q[i], u)}
<1>1. n \in I /\ (\A j \in I : j <= n) /\ \A i \in I : i \in Nat
  OBVIOUS
<1>2. (CHOOSE i \in I : \A j \in I : j <= i) = n
  <2>1. \A i \in I : (\A j \in I : j <= i) => i = n
    <3>1. TAKE i \in I
    <3>2. ASSUME \A j \in I : j <= i PROVE i = n
      <4>1. n <= i /\ i <= n /\ i \in Nat
        BY <1>1, <3>2
      <4> QED BY <4>1
    <3> QED BY <3>2
  <2> HIDE DEF I
  <2> QED BY <1>1, <2>1
<1>3. I # {}
  BY <1>1
<1> QED BY <1>2, <1>3 DEF Word

LEMMA WordSame ==
    ASSUME NEW s, NEW o, NEW q, NEW r, NEW u, NEW n \in Nat, \A i \in 1..n : q[i] = r[i]
    PROVE  Word(s, o, q, n, u) = Word(s, o, r, n, u)
<1> DEFINE I == {i \in 1..n : Says(q[i], u)}
<1>1. I = {i \in 1..n : Says(r[i], u)}
  OBVIOUS
<1>2. CASE I = {}
  BY <1>1, <1>2 DEF Word
<1>3. CASE I # {}
  <2> DEFINE k == CHOOSE i \in I : \A j \in I : j <= i
             S == {n - i : i \in I}
  <2>1. S # {} /\ S \in SUBSET Nat
    BY <1>3
  <2>2. PICK d \in S : \A e \in S : d <= e
    <3> HIDE DEF S
    <3> QED BY <2>1, Least
  <2>3. PICK top \in I : d = n - top
    BY <2>2
  <2>4. \A j \in I : j <= top
    <3>1. TAKE j \in I
    <3>2. n - j \in S
      OBVIOUS
    <3>3. n - top <= n - j
      BY <2>2, <2>3, <3>2
    <3> QED BY <3>3
  <2>5. k \in I
    <3> HIDE DEF I
    <3> QED BY <2>4
  <2>6. q[k] = r[k]
    BY <2>5
  <2>7. Word(s, o, q, n, u) = Value(s, q[k])
    BY <1>3 DEF Word
  <2>8. Word(s, o, r, n, u) = Value(s, r[k])
    <3> DEFINE J == {i \in 1..n : Says(r[i], u)}
    <3>1. Word(s, o, r, n, u) = IF J = {} THEN o ELSE Value(s, r[CHOOSE i \in J : \A j \in J : j <= i])
      BY DEF Word
    <3>2. J = I
      BY <1>1
    <3> HIDE DEF I, J
    <3> QED BY <1>3, <3>1, <3>2
  <2> QED BY <2>6, <2>7, <2>8
<1> QED BY <1>2, <1>3

LEMMA WordTail ==
    ASSUME NEW s, NEW o, NEW u, NEW q \in Seq(Command), q # <<>>, NEW n \in Nat, n < Len(q)
    PROVE  Word(s, o, q, n + 1, u)
               = Word(s, IF Says(q[1], u) THEN Value(s, q[1]) ELSE o, Tail(q), n, u)
<1> DEFINE r == Tail(q)
           p == IF Says(q[1], u) THEN Value(s, q[1]) ELSE o
           Bad == {k \in Nat : k < Len(q) /\ Word(s, o, q, k + 1, u) # Word(s, p, r, k, u)}
<1>0. Len(q) \in Nat /\ \A i \in Nat : i # 0 /\ i < Len(q) => r[i] = q[i + 1]
  OBVIOUS
<1> HIDE DEF r
<1>1. Bad = {}
  <2>1. SUFFICES ASSUME Bad # {} PROVE FALSE
    OBVIOUS
  <2>2. PICK k \in Bad : \A j \in Bad : k <= j
    <3>1. Bad \in SUBSET Nat
      OBVIOUS
    <3> HIDE DEF Bad
    <3> QED BY <2>1, <3>1, Least
  <2>3. k \in Nat /\ k < Len(q) /\ Word(s, o, q, k + 1, u) # Word(s, p, r, k, u)
    BY <2>2
  <2>4. CASE k = 0
    <3>1. Word(s, p, r, 0, u) = p /\ Word(s, o, q, 0, u) = o
      <4>1. 1..0 = {}
        OBVIOUS
      <4> QED BY <4>1 DEF Word
    <3>2. Word(s, o, q, 1, u) = p
      <4>1. CASE Says(q[1], u)
        BY <4>1, WordSays
      <4>2. CASE ~ Says(q[1], u)
        <5>1. \A i \in (0+1)..1 : ~ Says(q[i], u)
          BY <4>2
        <5>2. Word(s, o, q, 1, u) = Word(s, o, q, 0, u)
          BY <5>1, WordQuiet
        <5> QED BY <4>2, <5>2, <3>1
      <4> QED BY <4>1, <4>2
    <3> QED BY <2>3, <2>4, <3>1, <3>2
  <2>5. CASE k # 0
    <3>1. k - 1 \in Nat /\ k - 1 < Len(q) /\ k - 1 \notin Bad
      <4> HIDE DEF Bad
      <4> QED BY <1>0, <2>2, <2>3, <2>5
    <3>2. Word(s, o, q, k, u) = Word(s, p, r, k - 1, u)
      <4>1. (k - 1) + 1 = k
        BY <2>3
      <4> QED BY <3>1, <4>1
    <3>3. r[k] = q[k + 1]
      BY <1>0, <2>3, <2>5
    <3>4. CASE Says(q[k + 1], u)
      <4>1. Word(s, o, q, k + 1, u) = Value(s, q[k + 1])
        BY <2>3, <3>4, WordSays
      <4>2. Word(s, p, r, k, u) = Value(s, r[k])
        BY <2>3, <2>5, <3>3, <3>4, WordSays
      <4> QED BY <2>3, <3>3, <4>1, <4>2
    <3>5. CASE ~ Says(q[k + 1], u)
      <4>1. Word(s, o, q, k + 1, u) = Word(s, o, q, k, u)
        <5>1. \A i \in (k+1)..(k+1) : ~ Says(q[i], u)
          BY <2>3, <3>5
        <5> QED BY <2>3, <5>1, WordQuiet
      <4>2. Word(s, p, r, k, u) = Word(s, p, r, k - 1, u)
        <5>1. \A i \in ((k-1)+1)..k : ~ Says(r[i], u)
          BY <2>3, <3>3, <3>5
        <5> QED BY <2>3, <3>1, <5>1, WordQuiet
      <4> QED BY <2>3, <3>2, <4>1, <4>2
    <3> QED BY <3>4, <3>5
  <2> QED BY <2>4, <2>5
<1> QED BY <1>1 DEF r


-----------------------------------------------------------------------------
(* The last word agrees with local_players_, also the last before each GET:  *)
(* a server never says that it has a user who has no slot there.  Servers    *)
(* write the same key, each of them its own name or that there is none.      *)

Agree ==
    \A s \in Server, u \in Uid :
        alive[s] => /\ (local[s][u] = Absent => LastWord(s, u) # s)
                    /\ (Server = {s} /\ IsPlayer(s, u) => LastWord(s, u) = s)

AskedAt(s, i) ==
    LET u == pipe[s][i].msg.receiver
    IN  pipe[s][i].op = "getOnline" => Word(s, online[u], pipe[s], i - 1, u) # s

Asks == \A s \in Server : \A i \in 1..Len(pipe[s]) : AskedAt(s, i)

LEMMA Issued ==
    ASSUME PipeOK, NEW s \in Server, NEW cmds \in Seq(Command), Issue(s, cmds), UNCHANGED online
    PROVE  /\ pipe'[s] = pipe[s] \o cmds
           /\ \A t \in Server : t # s => pipe'[t] = pipe[t]
           /\ Len(pipe'[s]) = Len(pipe[s]) + Len(cmds)
           /\ \A i \in 1..Len(pipe[s]) : pipe'[s][i] = pipe[s][i]
           /\ \A i \in 1..Len(cmds) : pipe'[s][Len(pipe[s]) + i] = cmds[i]
           /\ PipeOK'
<1>1. pipe' = [pipe EXCEPT ![s] = pipe[s] \o cmds] /\ pipe[s] \in Seq(Command)
  BY DEF PipeOK, Issue
<1>2. PipeOK'
  BY IssueKeeps
<1>3. pipe'[s] = pipe[s] \o cmds /\ \A t \in Server : t # s => pipe'[t] = pipe[t]
  BY <1>1 DEF PipeOK
<1> QED BY <1>1, <1>2, <1>3

LEMMA IssuedWords ==
    ASSUME PipeOK, NEW s \in Server, NEW cmds \in Seq(Command), Issue(s, cmds), UNCHANGED online,
           NEW u \in Uid
    PROVE  /\ \A n \in 0..Len(pipe[s]) : Word(s, online[u], pipe'[s], n, u) = Word(s, online[u], pipe[s], n, u)
           /\ (\A i \in 1..Len(cmds) : ~ Says(cmds[i], u)) => LastWord(s, u)' = LastWord(s, u)
           /\ (/\ cmds # <<>> /\ Says(cmds[1], u)
               /\ \A i \in 2..Len(cmds) : ~ Says(cmds[i], u)) => LastWord(s, u)' = Value(s, cmds[1])
<1> DEFINE q == pipe[s]
           r == pipe'[s]
           n == Len(q)
           k == Len(cmds)
<1>1. /\ q \in Seq(Command) /\ r \in Seq(Command)
      /\ Len(r) = n + k /\ n \in Nat /\ k \in Nat
      /\ \A i \in 1..n : r[i] = q[i]
      /\ \A i \in 1..k : r[n + i] = cmds[i]
  BY Issued DEF PipeOK
<1>2. LastWord(s, u) = Word(s, online[u], q, n, u)
  BY <1>1, LastWordIsWord
<1>3. LastWord(s, u)' = Word(s, online[u], r, n + k, u)
  <2>1. DOMAIN pipe'[s] = 1..Len(pipe'[s])
    BY <1>1
  <2>2. LastWord(s, u)' = Word(s, online'[u], pipe'[s], Len(pipe'[s]), u)
    BY <2>1 DEF LastWord, Word, Says, Value
  <2> QED BY <1>1, <2>2
<1> DEFINE l == n + k
<1> HIDE DEF q, r, n
<1>4. \A j \in 0..n : Word(s, online[u], r, j, u) = Word(s, online[u], q, j, u)
  BY <1>1, WordSame
<1>5. ASSUME \A i \in 1..k : ~ Says(cmds[i], u)
      PROVE  LastWord(s, u)' = LastWord(s, u)
  <2>1. \A i \in (n+1)..l : ~ Says(r[i], u)
    <3>1. TAKE i \in (n+1)..l
    <3>2. i - n \in 1..k /\ r[n + (i - n)] = cmds[i - n] /\ n + (i - n) = i
      BY <1>1
    <3> QED BY <3>2, <1>5
  <2>2. l \in Nat /\ n <= l /\ n \in 0..n
    BY <1>1
  <2>3. Word(s, online[u], r, l, u) = Word(s, online[u], r, n, u)
    <3>1. n \in Nat
      BY <1>1
    <3> HIDE DEF l
    <3> QED BY <2>1, <2>2, <3>1, WordQuiet
  <2> QED BY <1>2, <1>3, <1>4, <2>2, <2>3
<1>6. ASSUME cmds # <<>>, Says(cmds[1], u), \A i \in 2..k : ~ Says(cmds[i], u)
      PROVE  LastWord(s, u)' = Value(s, cmds[1])
  <2>1. \A i \in ((n+1)+1)..l : ~ Says(r[i], u)
    <3>1. TAKE i \in ((n+1)+1)..l
    <3>2. i - n \in 2..k /\ r[n + (i - n)] = cmds[i - n] /\ n + (i - n) = i
      BY <1>1
    <3> QED BY <3>2, <1>6
  <2>2. 1 \in 1..k /\ r[n + 1] = cmds[1]
    BY <1>1, <1>6
  <2>3. Word(s, online[u], r, l, u) = Word(s, online[u], r, n + 1, u)
    <3>1. l \in Nat /\ n + 1 \in Nat /\ n + 1 <= l
      BY <1>1, <2>2
    <3> HIDE DEF l
    <3> QED BY <2>1, <3>1, WordQuiet
  <2>4. Word(s, online[u], r, n + 1, u) = Value(s, r[n + 1])
    <3>1. n + 1 \in Nat \ {0} /\ Says(r[n + 1], u)
      BY <1>1, <1>6, <2>2
    <3> QED BY <3>1, WordSays
  <2> QED BY <1>3, <2>2, <2>3, <2>4
<1> QED BY <1>4, <1>5, <1>6 DEF q, r, n, l

\* What is issued asks only for users of whom the last word is not that they are
\* on this server.
LEMMA AsksIssued ==
    ASSUME PipeOK, Asks, NEW s \in Server, NEW cmds \in Seq(Command), Issue(s, cmds), UNCHANGED online,
           \A i \in 1..Len(cmds) : cmds[i].op = "getOnline" =>
               i = 1 /\ LastWord(s, cmds[1].msg.receiver) # s
    PROVE  Asks'
<1>1. SUFFICES ASSUME NEW t \in Server, NEW i \in 1..Len(pipe'[t]), pipe'[t][i].op = "getOnline"
               PROVE  Word(t, online[pipe'[t][i].msg.receiver], pipe'[t], i - 1, pipe'[t][i].msg.receiver)
                          # t
  BY DEF Asks, AskedAt
<1> DEFINE u == pipe'[t][i].msg.receiver
           n == Len(pipe[s])
<1>2. /\ pipe[s] \in Seq(Command) /\ pipe[t] \in Seq(Command) /\ n \in Nat /\ Len(cmds) \in Nat
      /\ pipe'[t] \in Seq(Command)
      /\ Len(pipe'[s]) = n + Len(cmds)
      /\ \A j \in 1..n : pipe'[s][j] = pipe[s][j]
      /\ \A j \in 1..Len(cmds) : pipe'[s][n + j] = cmds[j]
      /\ t # s => pipe'[t] = pipe[t]
  BY Issued DEF PipeOK
<1>3. u \in Uid
  BY <1>1, <1>2, CommandFields, MessageFields
<1> HIDE DEF u
<1>4. CASE t # s
  BY <1>1, <1>2, <1>4 DEF Asks, AskedAt, u
<1>5. CASE t = s /\ i \in 1..n
  <2>1. pipe[s][i].op = "getOnline" /\ u = pipe[s][i].msg.receiver
    BY <1>1, <1>2, <1>5 DEF u
  <2>2. Word(s, online[u], pipe[s], i - 1, u) # s
    BY <1>5, <2>1 DEF Asks, AskedAt
  <2>3. i - 1 \in 0..n
    BY <1>2, <1>5
  <2>4. Word(s, online[u], pipe'[s], i - 1, u) = Word(s, online[u], pipe[s], i - 1, u)
    BY <1>3, <2>3, IssuedWords
  <2> QED BY <1>5, <2>2, <2>4 DEF u
<1>6. CASE t = s /\ i \notin 1..n
  <2>1. i - n \in 1..Len(cmds) /\ n + (i - n) = i
    BY <1>2, <1>6
  <2>2. pipe'[s][i] = cmds[i - n]
    BY <1>2, <2>1
  <2>3. cmds[i - n].op = "getOnline" /\ u = cmds[i - n].msg.receiver
    BY <1>1, <1>6, <2>2 DEF u
  <2>4. i - n = 1 /\ LastWord(s, u) # s
    BY <2>1, <2>3
  <2>5. i - 1 = n
    BY <1>2, <2>4
  <2>6. LastWord(s, u) = Word(s, online[u], pipe[s], n, u)
    BY <1>2, LastWordIsWord
  <2>7. n \in 0..n
    BY <1>2
  <2>8. Word(s, online[u], pipe'[s], n, u) = Word(s, online[u], pipe[s], n, u)
    BY <1>3, <2>7, IssuedWords
  <2> QED BY <1>6, <2>4, <2>5, <2>6, <2>8 DEF u
<1> QED BY <1>4, <1>5, <1>6

\* Commands that say nothing of anybody leave both as they are, whatever
\* becomes null.
LEMMA QuietIssue ==
    ASSUME PipeOK, MemoryOK, Agree, Asks, NEW s \in Server, NEW cmds \in Seq(Command), Issue(s, cmds),
           UNCHANGED <<online, alive>>,
           \A i \in 1..Len(cmds) : cmds[i].op \notin {"getOnline", "setOnline", "delOnline"},
           \/ UNCHANGED local
           \/ \E u \in Uid : local' = [local EXCEPT ![s][u] = Null]
    PROVE  Agree' /\ Asks'
<1>1. Asks'
  BY AsksIssued
<1>2. SUFFICES ASSUME NEW t \in Server, NEW u \in Uid, alive[t]
               PROVE  /\ local'[t][u] = Absent => LastWord(t, u)' # t
                      /\ (Server = {t} /\ IsPlayer(t, u)') => LastWord(t, u)' = t
  BY <1>1 DEF Agree
<1>3. LastWord(t, u)' = LastWord(t, u)
  <2>1. CASE t = s
    BY <2>1, IssuedWords DEF Says
  <2>2. CASE t # s
    <3>1. pipe'[t] = pipe[t]
      BY <2>2, Issued
    <3> QED BY <3>1 DEF LastWord
  <2> QED BY <2>1, <2>2
<1>4. local'[t][u] = local[t][u] \/ local'[t][u] = Null
  BY DEF MemoryOK
<1> QED BY <1>2, <1>3, <1>4, NullAssumption DEF Agree, IsPlayer, Handle

LEMMA Unsaid ==
    ASSUME Agree, Asks, UNCHANGED <<alive, local, pipe, online>>
    PROVE  Agree' /\ Asks'
<1>1. \A s, u : LastWord(s, u)' = LastWord(s, u)
  BY DEF LastWord
<1>2. Agree'
  BY <1>1 DEF Agree, IsPlayer
<1>3. Asks'
  BY DEF Asks, AskedAt
<1> QED BY <1>2, <1>3

LEMMA DieAgrees ==
    ASSUME PipeOK, MemoryOK, Agree, Asks, NEW s \in Server, Die(s), UNCHANGED online
    PROVE  Agree' /\ Asks'
<1>1. /\ ~ alive'[s]
      /\ \A t \in Server : t # s => /\ alive'[t] = alive[t] /\ local'[t] = local[t] /\ pipe'[t] = pipe[t]
      /\ pipe'[s] = <<>>
  BY DEF Die, PipeOK, MemoryOK
<1>2. ASSUME NEW t \in Server, NEW u \in Uid, t # s PROVE LastWord(t, u)' = LastWord(t, u)
  <2>1. pipe'[t] = pipe[t]
    BY <1>1, <1>2
  <2> QED BY <2>1 DEF LastWord
<1>3. Agree'
  BY <1>1, <1>2 DEF Agree, IsPlayer
<1>4. Asks'
  <2>1. SUFFICES ASSUME NEW t \in Server, NEW i \in 1..Len(pipe'[t]) PROVE AskedAt(t, i)'
    BY DEF Asks
  <2>2. CASE t = s
    BY <1>1, <2>1, <2>2
  <2>3. CASE t # s
    BY <1>1, <2>1, <2>3 DEF Asks, AskedAt
  <2> QED BY <2>2, <2>3
<1> QED BY <1>3, <1>4

LEMMA LoginAgrees ==
    ASSUME PipeOK, MemoryOK, Agree, Asks, NEW s \in Server, NEW u \in Uid, NEW c, LobbyLogin(s, u, c),
           UNCHANGED online
    PROVE  Agree' /\ Asks'
<1> DEFINE cmds == LoginCommands(u)
<1>1. /\ cmds \in Seq(Command) /\ Len(cmds) = 3 /\ cmds # <<>>
      /\ cmds[1] = [op |-> "setOnline", uid |-> u]
      /\ \A i \in 1..3 : cmds[i].op # "getOnline" /\ cmds[i].uid = u
      /\ \A i \in 2..3 : cmds[i].op \notin {"setOnline", "delOnline"}
  BY DEF LoginCommands, Command
<1>2. Issue(s, cmds) /\ UNCHANGED alive
  BY DEF LobbyLogin
<1> HIDE DEF cmds
<1>3. Asks'
  BY <1>1, <1>2, AsksIssued
<1>4. SUFFICES ASSUME NEW t \in Server, NEW w \in Uid, alive[t]
               PROVE  /\ local'[t][w] = Absent => LastWord(t, w)' # t
                      /\ (Server = {t} /\ IsPlayer(t, w)') => LastWord(t, w)' = t
  BY <1>2, <1>3 DEF Agree
<1>5. t = s /\ w = u => local'[t][w] # Absent
  BY NullAssumption DEF LobbyLogin, Insert, MemoryOK, Handle
<1>6. ~ (t = s /\ w = u) => local'[t][w] = local[t][w]
  BY DEF LobbyLogin, Insert, MemoryOK
<1>7. t = s /\ w = u => LastWord(t, w)' = s
  BY <1>1, <1>2, IssuedWords DEF Says, Value
<1>8. t = s /\ w # u => LastWord(t, w)' = LastWord(t, w)
  BY <1>1, <1>2, IssuedWords DEF Says
<1>9. t # s => LastWord(t, w)' = LastWord(t, w)
  <2>1. t # s => pipe'[t] = pipe[t]
    BY <1>1, <1>2, Issued
  <2> QED BY <2>1 DEF LastWord
<1> QED BY <1>4, <1>5, <1>6, <1>7, <1>8, <1>9 DEF Agree, IsPlayer

LEMMA LogoutCommandsFields ==
    ASSUME NEW u \in Uid, NEW B \in SUBSET Uid, NEW cmds \in LogoutCommands(u, B)
    PROVE  /\ cmds \in Seq(Command) /\ Len(cmds) \in 2..3 /\ cmds # <<>>
           /\ cmds[1] = [op |-> "delOnline", uid |-> u]
           /\ \A i \in 1..Len(cmds) : cmds[i].op \in {"delOnline", "delBlack", "lpushBlack"} /\ cmds[i].uid = u
           /\ \A i \in 2..Len(cmds) : cmds[i].op \notin {"setOnline", "delOnline"}
<1> DEFINE d1 == [op |-> "delOnline", uid |-> u]
           d2 == [op |-> "delBlack", uid |-> u]
           l(b) == [op |-> "lpushBlack", uid |-> u, first |-> b]
<1>1. cmds = <<d1, d2>> \/ \E b \in B : cmds = Append(<<d1, d2>>, l(b))
  BY DEF LogoutCommands
<1>2. d1 \in Command /\ d2 \in Command /\ \A b \in B : l(b) \in Command
  BY DEF Command
<1>3. CASE cmds = <<d1, d2>>
  BY <1>2, <1>3
<1>4. ASSUME NEW b \in B, cmds = Append(<<d1, d2>>, l(b))
      PROVE  /\ cmds \in Seq(Command) /\ Len(cmds) \in 2..3 /\ cmds # <<>>
             /\ cmds[1] = d1
             /\ \A i \in 1..Len(cmds) : cmds[i].op \in {"delOnline", "delBlack", "lpushBlack"} /\ cmds[i].uid = u
             /\ \A i \in 2..Len(cmds) : cmds[i].op \notin {"setOnline", "delOnline"}
  <2>1. /\ cmds \in Seq(Command) /\ Len(cmds) = 3
        /\ cmds[1] = d1 /\ cmds[2] = d2 /\ cmds[3] = l(b)
    <3>1. l(b) \in Command /\ <<d1, d2>> \in Seq(Command)
      BY <1>2
    <3>2. Len(<<d1, d2>>) = 2 /\ <<d1, d2>>[1] = d1 /\ <<d1, d2>>[2] = d2
      OBVIOUS
    <3> HIDE DEF d1, d2, l
    <3> QED BY <1>4, <3>1, <3>2, AppendProperties
  <2>2. \A i \in 1..3 : i = 1 \/ i = 2 \/ i = 3
    OBVIOUS
  <2>3. /\ d1.op = "delOnline" /\ d2.op = "delBlack" /\ l(b).op = "lpushBlack"
        /\ d1.uid = u /\ d2.uid = u /\ l(b).uid = u
    OBVIOUS
  <2> HIDE DEF d1, d2, l
  <2> QED BY <2>1, <2>2, <2>3
<1> QED BY <1>1, <1>3, <1>4

LEMMA LogoutAgrees ==
    ASSUME PipeOK, MemoryOK, Agree, Asks, NEW s \in Server, NEW u \in Uid, LobbyLogout(s, u),
           UNCHANGED online
    PROVE  Agree' /\ Asks'
<1>1. CASE Die(s)
  BY <1>1, DieAgrees
<1>2. CASE IsPlayer(s, u) /\ ~ Die(s)
  <2> DEFINE B == player[local[s][u]].black
  <2>1. B \in SUBSET Uid
    BY <1>2 DEF MemoryOK, IsPlayer, SlotsAddressed, Made, Player
  <2>2. PICK cmds \in LogoutCommands(u, B) : Issue(s, cmds)
    BY <1>2 DEF LobbyLogout
  <2>3. local' = [local EXCEPT ![s][u] = Absent] /\ UNCHANGED alive
    BY <1>2 DEF LobbyLogout
  <2> HIDE DEF B
  <2>4. /\ cmds \in Seq(Command) /\ Len(cmds) \in 2..3 /\ cmds # <<>>
        /\ cmds[1] = [op |-> "delOnline", uid |-> u]
        /\ \A i \in 1..Len(cmds) : cmds[i].op \in {"delOnline", "delBlack", "lpushBlack"} /\ cmds[i].uid = u
        /\ \A i \in 2..Len(cmds) : cmds[i].op \notin {"setOnline", "delOnline"}
    BY <2>1, <2>2, LogoutCommandsFields
  <2>5. Asks'
    BY <2>2, <2>4, AsksIssued
  <2>6. SUFFICES ASSUME NEW t \in Server, NEW w \in Uid, alive[t]
                 PROVE  /\ local'[t][w] = Absent => LastWord(t, w)' # t
                        /\ (Server = {t} /\ IsPlayer(t, w)') => LastWord(t, w)' = t
    BY <2>3, <2>5 DEF Agree
  <2>7. t = s /\ w = u => local'[t][w] = Absent
    BY <2>3 DEF MemoryOK
  <2>8. ~ (t = s /\ w = u) => local'[t][w] = local[t][w]
    BY <2>3 DEF MemoryOK
  <2>9. t = s /\ w = u => LastWord(t, w)' = Absent
    BY <2>2, <2>4, IssuedWords DEF Says, Value
  <2>10. t = s /\ w # u => LastWord(t, w)' = LastWord(t, w)
    BY <2>2, <2>4, IssuedWords DEF Says
  <2>11. t # s => LastWord(t, w)' = LastWord(t, w)
    <3>1. t # s => pipe'[t] = pipe[t]
      BY <2>2, <2>4, Issued
    <3> QED BY <3>1 DEF LastWord
  <2> QED BY <2>6, <2>7, <2>8, <2>9, <2>10, <2>11, NullAssumption DEF Agree, IsPlayer, Handle
<1> QED BY <1>1, <1>2 DEF LobbyLogout

\* What a server says of a key counts for the others only as a value that is
\* not their name.
LEMMA WordApart ==
    ASSUME NEW s, NEW o, NEW v, NEW q, NEW n, NEW u, Word(s, o, q, n, u) # s, v = o \/ v # s
    PROVE  Word(s, v, q, n, u) # s
  BY DEF Word

LEMMA ExecAgrees ==
    ASSUME IInv, Agree, Asks, NEW s \in Server, RedisExec(s)
    PROVE  Agree' /\ Asks'
<1> DEFINE q == pipe[s]
           r == Tail(q)
<1>1. /\ q \in Seq(Command) /\ q # <<>> /\ pipe'[s] = r /\ Len(q) \in Nat \ {0}
      /\ Len(r) = Len(q) - 1 /\ \A i \in 1..Len(r) : r[i] = q[i + 1]
      /\ UNCHANGED <<alive, local>>
      /\ \A t \in Server : t # s => pipe'[t] = pipe[t] /\ pipe[t] \in Seq(Command)
  <2>1. UNCHANGED <<alive, local>>
    BY DEF RedisExec, memory
  <2>2. q \in Seq(Command) /\ q # <<>>
    BY DEF RedisExec, IInv, PipeOK
  <2>3. pipe'[s] = r /\ \A t \in Server : t # s => pipe'[t] = pipe[t] /\ pipe[t] \in Seq(Command)
    BY DEF RedisExec, IInv, PipeOK
  <2>4. /\ Len(q) \in Nat \ {0} /\ Len(r) = Len(q) - 1
        /\ \A i \in 1..Len(r) : r[i] = q[i + 1]
    <3> HIDE DEF q
    <3> QED BY <2>2
  <2> QED BY <2>1, <2>2, <2>3, <2>4
<1>2. r \in Seq(Command) /\ q[1] \in Command
  BY <1>1
<1>3. \A u \in Uid : online'[u] = IF Says(q[1], u) THEN Value(s, q[1]) ELSE online[u]
  <2>1. q[1] = Head(pipe[s])
    BY <1>1
  <2>2. q[1].op \notin {"setOnline", "delOnline"} => UNCHANGED online
    BY <2>1 DEF RedisExec, redis
  <2>3. q[1].op = "setOnline" => online' = [online EXCEPT ![q[1].uid] = s]
    BY <2>1 DEF RedisExec
  <2>4. q[1].op = "delOnline" => online' = [online EXCEPT ![q[1].uid] = Absent]
    BY <2>1 DEF RedisExec
  <2> QED BY <2>2, <2>3, <2>4 DEF Says, Value, IInv, RedisOK
<1> HIDE DEF q, r
<1>4. ASSUME NEW u \in Uid, NEW n \in Nat, n < Len(q)
      PROVE  Word(s, online'[u], r, n, u) = Word(s, online[u], q, n + 1, u)
  BY <1>1, <1>3, <1>4, WordTail DEF r
<1>5. ASSUME NEW t \in Server, t # s, NEW u \in Uid, NEW n, Word(t, online[u], pipe[t], n, u) # t
      PROVE  Word(t, online'[u], pipe'[t], n, u) # t
  <2>1. online'[u] = online[u] \/ online'[u] # t
    BY <1>3, <1>5, NullAssumption DEF Value
  <2>2. pipe'[t] = pipe[t]
    BY <1>1, <1>5
  <2> QED BY <1>5, <2>1, <2>2, WordApart
<1>6. ASSUME NEW t \in Server, NEW u
      PROVE  /\ LastWord(t, u) = Word(t, online[u], pipe[t], Len(pipe[t]), u)
             /\ LastWord(t, u)' = Word(t, online'[u], pipe'[t], Len(pipe'[t]), u)
  <2>1. pipe[t] \in Seq(Command) /\ pipe'[t] \in Seq(Command)
    BY <1>1, <1>2 DEF q
  <2>2. DOMAIN pipe'[t] = 1..Len(pipe'[t])
    BY <2>1
  <2>3. LastWord(t, u) = Word(t, online[u], pipe[t], Len(pipe[t]), u)
    BY <2>1, LastWordIsWord
  <2>4. LastWord(t, u)' = Word(t, online'[u], pipe'[t], Len(pipe'[t]), u)
    BY <2>1, <2>2 DEF LastWord, Word, Says, Value
  <2> QED BY <2>3, <2>4
<1>7. Agree'
  <2>1. ASSUME NEW u \in Uid PROVE LastWord(s, u)' = LastWord(s, u)
    <3>1. Len(r) \in Nat /\ Len(r) < Len(q) /\ Len(r) + 1 = Len(q)
      BY <1>1
    <3>2. Word(s, online'[u], r, Len(r), u) = Word(s, online[u], q, Len(q), u)
      BY <3>1, <1>4
    <3> QED BY <1>1, <1>6, <3>2 DEF q
  <2>2. ASSUME NEW t \in Server, t # s, NEW u \in Uid, LastWord(t, u) # t PROVE LastWord(t, u)' # t
    <3>1. Len(pipe'[t]) = Len(pipe[t])
      BY <1>1, <2>2
    <3> QED BY <1>5, <1>6, <2>2, <3>1
  <2>3. ASSUME NEW t \in Server, NEW u \in Uid, alive[t]
        PROVE  /\ local[t][u] = Absent => LastWord(t, u)' # t
               /\ Server = {t} /\ IsPlayer(t, u) => LastWord(t, u)' = t
    BY <2>1, <2>2, <2>3 DEF Agree
  <2> QED BY <1>1, <2>3 DEF Agree, IsPlayer
<1>8. Asks'
  <2>1. SUFFICES ASSUME NEW t \in Server, NEW i \in 1..Len(pipe'[t]), pipe'[t][i].op = "getOnline"
                 PROVE  Word(t, online'[pipe'[t][i].msg.receiver], pipe'[t], i - 1, pipe'[t][i].msg.receiver) # t
    BY DEF Asks, AskedAt
  <2> DEFINE u == pipe'[t][i].msg.receiver
  <2>2. u \in Uid
    <3>1. pipe'[t] \in Seq(Command)
      BY <1>1, <1>2
    <3> QED BY <2>1, <3>1, CommandFields, MessageFields
  <2>3. CASE t = s
    <3>1. i - 1 \in Nat /\ i - 1 < Len(q) /\ (i - 1) + 1 = i /\ i + 1 \in 1..Len(q) /\ (i + 1) - 1 = i
      BY <1>1, <2>1, <2>3
    <3>2. pipe'[t][i] = q[i + 1]
      BY <1>1, <2>1, <2>3
    <3>3. AskedAt(s, i + 1)
      BY <3>1 DEF Asks, q
    <3>4. Word(s, online[u], q, i, u) # s
      BY <2>1, <3>1, <3>2, <3>3 DEF AskedAt, q
    <3> HIDE DEF u
    <3>5. Word(s, online'[u], r, i - 1, u) = Word(s, online[u], q, (i - 1) + 1, u)
      BY <2>2, <3>1, <1>4
    <3> QED BY <1>1, <2>3, <3>1, <3>4, <3>5 DEF u
  <2>4. CASE t # s
    <3>1. pipe'[t] = pipe[t]
      BY <1>1, <2>4
    <3>2. Word(t, online[u], pipe[t], i - 1, u) # t
      BY <2>1, <3>1 DEF Asks, AskedAt
    <3> HIDE DEF u
    <3>3. Word(t, online'[u], pipe'[t], i - 1, u) # t
      BY <1>5, <2>2, <2>4, <3>2
    <3> QED BY <3>3 DEF u
  <2> QED BY <2>3, <2>4
<1> QED BY <1>7, <1>8

\* A GET is answered with what the pipe said before it.
LEMMA ExecAnswers ==
    ASSUME IInv, Asks, NeverForwardedToSelf, NEW s \in Server, RedisExec(s)
    PROVE  NeverForwardedToSelf'
<1> DEFINE c == Head(pipe[s])
<1>1. pipe[s] \in Seq(Command) /\ pipe[s] # <<>> /\ c = pipe[s][1] /\ c \in Command /\ 1 \in 1..Len(pipe[s])
  <2>1. pipe[s] \in Seq(Command) /\ pipe[s] # <<>>
    BY DEF RedisExec, IInv, PipeOK
  <2> QED BY <2>1
<1>2. c.op = "getOnline" => online[c.msg.receiver] # s
  <2>1. AskedAt(s, 1)
    BY <1>1 DEF Asks
  <2>2. \A o, u : Word(s, o, pipe[s], 1 - 1, u) = o
    <3>1. 1..(1 - 1) = {}
      OBVIOUS
    <3> QED BY <3>1 DEF Word
  <2> QED BY <1>1, <2>1, <2>2 DEF AskedAt
<1>3. CASE UNCHANGED answer
  BY <1>3 DEF NeverForwardedToSelf
<1>4. ASSUME NEW a, Reply(s, a), (a.op = "getOnline") => a.at # s
      PROVE  NeverForwardedToSelf'
  <2>1. answer[s] \in Seq(Answer) /\ answer' = [answer EXCEPT ![s] = Append(answer[s], a)]
    BY <1>4 DEF IInv, AnswerOK, Reply
  <2>2. Elements(Append(answer[s], a)) \subseteq Elements(answer[s]) \cup {a}
    BY <2>1, AppendProperties DEF Elements
  <2>3. /\ Elements(answer'[s]) \subseteq Elements(answer[s]) \cup {a}
        /\ \A t \in Server : t # s => answer'[t] = answer[t]
    BY <2>1, <2>2 DEF IInv, AnswerOK
  <2> QED BY <1>4, <2>3 DEF NeverForwardedToSelf
<1>5. \/ UNCHANGED answer
      \/ \E a : Reply(s, a) /\ (a.op = "getOnline" => a.at # s)
  <2>1. CASE c.op = "login" /\ Reply(s, c)
    BY <2>1
  <2>2. CASE c.op = "getOnline"
             /\ Reply(s, [op |-> "getOnline", msg |-> c.msg, at |-> online[c.msg.receiver]])
    BY <1>2, <2>2
  <2>3. CASE Reply(s, [op |-> "lrangeMsg", uid |-> c.uid, list |-> mailbox[c.uid]])
    BY <2>3
  <2>4. CASE Reply(s, [op |-> "lrangeBlack", uid |-> c.uid, list |-> blackKey[c.uid]])
    BY <2>4
  <2> QED BY <2>1, <2>2, <2>3, <2>4 DEF RedisExec
<1> QED BY <1>3, <1>4, <1>5

LEMMA FewerAnswers ==
    ASSUME NeverForwardedToSelf, \A s \in Server : Elements(answer'[s]) \subseteq Elements(answer[s])
    PROVE  NeverForwardedToSelf'
  BY DEF NeverForwardedToSelf

LEMMA TakenAnswers ==
    ASSUME AnswerOK, NeverForwardedToSelf, NEW s \in Server, answer[s] # <<>>,
           answer' = [answer EXCEPT ![s] = Tail(@)]
    PROVE  NeverForwardedToSelf'
<1>1. answer[s] \in Seq(Answer)
  BY DEF AnswerOK
<1>2. Elements(Tail(answer[s])) \subseteq Elements(answer[s])
  BY <1>1, HeadTailProperties DEF Elements
<1> QED BY <1>2, FewerAnswers DEF AnswerOK

LEMMA DieAnswers ==
    ASSUME AnswerOK, NeverForwardedToSelf, NEW s \in Server, Die(s)
    PROVE  NeverForwardedToSelf'
<1>1. \A t \in Server : Elements(answer'[t]) \subseteq Elements(answer[t])
  BY DEF Die, AnswerOK, Elements
<1> QED BY <1>1, FewerAnswers

HomeInv == Agree /\ Asks /\ NeverForwardedToSelf

LEMMA HomeLogout ==
    ASSUME IInv, HomeInv, NEW s \in Server, NEW u \in Uid, LobbyLogout(s, u), UNCHANGED online
    PROVE  HomeInv'
<1>1. Agree' /\ Asks'
  BY LogoutAgrees DEF HomeInv, IInv
<1>2. UNCHANGED answer \/ Die(s)
  BY DEF LobbyLogout
<1>3. UNCHANGED answer => NeverForwardedToSelf'
  BY DEF HomeInv, NeverForwardedToSelf
<1> QED BY <1>1, <1>2, <1>3, DieAnswers DEF HomeInv, IInv

LEMMA HomeDie ==
    ASSUME IInv, HomeInv, NEW s \in Server, Die(s), UNCHANGED online
    PROVE  HomeInv'
  BY DieAgrees, DieAnswers DEF HomeInv, IInv

LEMMA HomeUnsaid ==
    ASSUME HomeInv, UNCHANGED <<alive, local, pipe, online, answer>>
    PROVE  HomeInv'
  BY Unsaid DEF HomeInv, NeverForwardedToSelf

LEMMA HomeMessage ==
    ASSUME IInv, HomeInv, NEW s \in Server, alive[s], NEW m \in Message, NEW w, NewMessage(s, m, w),
           UNCHANGED online
    PROVE  HomeInv'
<1>1. CASE Die(s)
  BY <1>1, HomeDie
<1>2. CASE UNCHANGED <<alive, local, pipe, answer>>
  BY <1>2, HomeUnsaid
<1>3. CASE /\ local[s][m.receiver] = Absent
           /\ Issue(s, <<[op |-> "getOnline", msg |-> m]>>)
           /\ UNCHANGED <<alive, local, player, active, answer>>
  <2> DEFINE c == [op |-> "getOnline", msg |-> m]
             cmds == <<c>>
  <2>1. c \in Command /\ m.receiver \in Uid
    BY MessageFields DEF Command
  <2>2. cmds \in Seq(Command) /\ Len(cmds) = 1 /\ cmds[1] = c /\ \A i \in 1..1 : i = 1
    BY <2>1
  <2>3. LastWord(s, m.receiver) # s
    BY <1>3, <2>1 DEF HomeInv, Agree
  <2>4. Asks'
    <3>1. c.msg = m
      OBVIOUS
    <3> HIDE DEF c
    <3> QED BY <1>3, <2>2, <2>3, <3>1, AsksIssued DEF HomeInv, IInv, c
  <2>5. \A t \in Server, u \in Uid : LastWord(t, u)' = LastWord(t, u)
    <3>1. TAKE t \in Server, u \in Uid
    <3>2. CASE t = s
      <4>1. \A i \in 1..Len(cmds) : ~ Says(cmds[i], u)
        BY <2>2 DEF Says
      <4> HIDE DEF cmds, c
      <4>2. Issue(s, cmds)
        BY <1>3 DEF cmds, c
      <4> QED BY <2>2, <3>2, <4>1, <4>2, IssuedWords DEF IInv
    <3>3. CASE t # s
      <4>1. pipe'[t] = pipe[t]
        BY <1>3, <2>2, <3>3, Issued DEF IInv
      <4> QED BY <4>1 DEF LastWord
    <3> QED BY <3>2, <3>3
  <2>6. Agree'
    BY <1>3, <2>5 DEF HomeInv, Agree, IsPlayer
  <2>7. NeverForwardedToSelf'
    BY <1>3 DEF HomeInv, NeverForwardedToSelf
  <2> QED BY <2>4, <2>6, <2>7 DEF HomeInv
<1> QED BY <1>1, <1>2, <1>3 DEF NewMessage, Forward, PrivateChat

LEMMA HomeAnswer ==
    ASSUME IInv, HomeInv, NEW s \in Server, AnswerCallback(s)
    PROVE  HomeInv'
<1> USE DEF IInv
<1> DEFINE a == Head(answer[s])
<1>1. answer[s] # <<>> /\ a \in Answer /\ UNCHANGED online
  BY TakeAnswer DEF AnswerCallback, LoginAnswer, OfflineAnswer, BlackAnswer, OnlineAnswer, redis
<1> HIDE DEF a
<1>2. CASE Die(s)
  BY <1>1, <1>2, HomeDie
<1>3. ASSUME answer' = [answer EXCEPT ![s] = Tail(@)] PROVE NeverForwardedToSelf'
  BY <1>1, <1>3, TakenAnswers DEF HomeInv
<1>4. CASE UNCHANGED <<alive, local, pipe>> /\ answer' = [answer EXCEPT ![s] = Tail(@)]
  BY <1>1, <1>3, <1>4, Unsaid DEF HomeInv
<1>5. ASSUME NEW c, a.op = "login", LobbyLogin(s, a.uid, c), answer' = [answer EXCEPT ![s] = Tail(@)]
      PROVE  HomeInv'
  BY <1>1, <1>3, <1>5, AnswerFields, LoginAgrees DEF HomeInv
<1>6. ASSUME NEW u \in Uid, Issue(s, Emptied(u)), UNCHANGED alive, answer' = [answer EXCEPT ![s] = Tail(@)],
             UNCHANGED local \/ local' = [local EXCEPT ![s][u] = Null]
      PROVE  HomeInv'
  <2>1. Emptied(u) \in Seq(Command) /\ Len(Emptied(u)) = 1 /\ Emptied(u)[1].op = "delMsg"
    BY DEF Emptied, Command
  <2>2. \A i \in 1..Len(Emptied(u)) : Emptied(u)[i].op \notin {"getOnline", "setOnline", "delOnline"}
    BY <2>1
  <2>3. Agree' /\ Asks'
    BY <1>1, <1>6, <2>1, <2>2, QuietIssue DEF HomeInv
  <2> QED BY <1>3, <1>6, <2>3 DEF HomeInv
<1>7. ASSUME NEW u \in Uid, UNCHANGED <<alive, pipe>>, answer' = [answer EXCEPT ![s] = Tail(@)],
             local' = [local EXCEPT ![s][u] = Null]
      PROVE  HomeInv'
  <2>1. <<>> \in Seq(Command) /\ Len(<<>>) = 0 /\ 1..0 = {}
    OBVIOUS
  <2>2. Issue(s, <<>>)
    BY <1>7 DEF Issue, PipeOK
  <2>3. \A i \in 1..Len(<<>>) : <<>>[i].op \notin {"getOnline", "setOnline", "delOnline"}
    BY <2>1
  <2>4. Agree' /\ Asks'
    BY <1>1, <1>7, <2>1, <2>2, <2>3, QuietIssue DEF HomeInv
  <2> QED BY <1>3, <1>7, <2>4 DEF HomeInv
<1>8. ASSUME NEW m \in Message, Issue(s, <<[op |-> "rpushMsg", msg |-> m]>>), UNCHANGED <<alive, local>>,
             answer' = [answer EXCEPT ![s] = Tail(@)]
      PROVE  HomeInv'
  <2> DEFINE cmds == <<[op |-> "rpushMsg", msg |-> m]>>
  <2>1. cmds \in Seq(Command) /\ Len(cmds) = 1 /\ cmds[1].op = "rpushMsg"
    BY DEF Command
  <2>2. \A i \in 1..Len(cmds) : cmds[i].op \notin {"getOnline", "setOnline", "delOnline"}
    BY <2>1
  <2> HIDE DEF cmds
  <2>3. Agree' /\ Asks'
    BY <1>1, <1>8, <2>1, <2>2, QuietIssue DEF HomeInv, cmds
  <2> QED BY <1>3, <1>8, <2>3 DEF HomeInv
<1>9. CASE LoginAnswer(s)
  BY <1>2, <1>4, <1>5, <1>9 DEF LoginAnswer, LoginThrough, memory, a
<1>10. CASE OfflineAnswer(s)
  <2>1. a.uid \in Uid
    BY <1>1, <1>10, AnswerFields DEF OfflineAnswer, a
  <2> QED BY <1>2, <1>6, <1>10, <2>1 DEF OfflineAnswer, a
<1>11. CASE BlackAnswer(s)
  <2>1. a.uid \in Uid
    BY <1>1, <1>11, AnswerFields DEF BlackAnswer, a
  <2> QED BY <1>2, <1>4, <1>7, <1>11, <2>1 DEF BlackAnswer, a
<1>12. CASE OnlineAnswer(s)
  <2>1. a.msg \in Message
    BY <1>1, <1>12, AnswerFields DEF OnlineAnswer, a
  <2> QED BY <1>2, <1>4, <1>8, <1>12, <2>1 DEF OnlineAnswer, memory, a
<1> QED BY <1>9, <1>10, <1>11, <1>12 DEF AnswerCallback

LEMMA HomeNext ==
    ASSUME IInv, HomeInv, [Next]_vars
    PROVE  HomeInv'
<1>0. \A c \in Conn : ServerOf[c] \in Server
  BY ServerAssumption
<1>1. ASSUME NEW s \in Server, RedisExec(s) PROVE HomeInv'
  BY <1>1, ExecAgrees, ExecAnswers DEF HomeInv
<1>2. ASSUME NEW s \in Server, Tick(s) PROVE HomeInv'
  BY <1>2, HomeDie, HomeUnsaid DEF Tick, redis
<1>3. CASE Request
  <2>1. ASSUME NEW c \in Conn, Connect(c) \/ Disconnect(c) \/ Destroy(c) \/ PlayerList(c) PROVE HomeInv'
    <3>1. owner[c] \in Uid
      BY DEF IInv, ConnsOK
    <3> QED BY <1>0, <2>1, <3>1, HomeDie, HomeUnsaid, HomeLogout
            DEF Connect, Disconnect, Destroy, PlayerList, memory, redis
  <2>2. ASSUME NEW c \in Conn, NEW u \in Uid, LoginRequest(c, u) PROVE HomeInv'
    <3> DEFINE s == ServerOf[c]
               cmds == <<[op |-> "login", conn |-> c, uid |-> u]>>
    <3>1. cmds \in Seq(Command) /\ Len(cmds) = 1 /\ cmds[1].op = "login"
      BY DEF Command
    <3>2. \A i \in 1..Len(cmds) : cmds[i].op \notin {"getOnline", "setOnline", "delOnline"}
      BY <3>1
    <3>3. Issue(s, cmds) /\ UNCHANGED <<online, alive, local, answer>>
      BY <2>2 DEF LoginRequest, memory, redis
    <3> HIDE DEF cmds
    <3>4. Agree' /\ Asks'
      BY <1>0, <3>1, <3>2, <3>3, QuietIssue DEF HomeInv, IInv
    <3> QED BY <3>3, <3>4 DEF HomeInv, NeverForwardedToSelf
  <2>3. ASSUME NEW c \in Conn, NEW u \in Account, Logout(c, u) \/ GetBlackList(c, u) PROVE HomeInv'
    BY <1>0, <2>3, HomeLogout, HomeDie DEF Logout, GetBlackList, Account, redis
  <2>4. ASSUME NEW c \in Conn, NEW u, NEW b, AddBlackList(c, u, b) \/ DelBlackList(c, u, b) PROVE HomeInv'
    BY <1>0, <2>4, HomeDie, HomeUnsaid DEF AddBlackList, DelBlackList, EditBlackList, redis
  <2>5. ASSUME NEW c \in Conn, NEW m \in Message, Chat(c, m) PROVE HomeInv'
    BY <1>0, <2>5, HomeMessage DEF Chat, Up, redis
  <2> QED BY <1>3, <2>1, <2>2, <2>3, <2>4, <2>5 DEF Request
<1>4. ASSUME NEW s \in Server, NEW t \in Server, Receive(s, t) PROVE HomeInv'
  <2>1. Head(wire[s][t]) \in Message
    BY <1>4 DEF Receive, IInv, WireOK
  <2> QED BY <1>4, <2>1, HomeMessage DEF Receive, redis
<1>5. CASE UNCHANGED vars
  BY <1>5, HomeUnsaid DEF vars, memory, redis
<1> QED BY <1>1, <1>2, <1>3, <1>4, <1>5, HomeAnswer DEF Next

LEMMA HomeInit ==
    ASSUME Init
    PROVE  HomeInv
<1>1. Agree
  BY NullAssumption DEF Init, Agree, LastWord, IsPlayer, Handle
<1>2. Asks
  BY DEF Init, Asks
<1>3. NeverForwardedToSelf
  BY DEF Init, NeverForwardedToSelf, Elements
<1> QED BY <1>1, <1>2, <1>3 DEF HomeInv

\* The last word of a server is its name or that there is none, if there is no
\* other server.
LEMMA AloneWord ==
    ASSUME NEW s, Server = {s}, IInv, NEW u \in Uid
    PROVE  LastWord(s, u) \in {s, Absent}
  BY DEF LastWord, IInv, RedisOK

\* With one server, a user without a slot in local_players_ is offline in Redis
\* once the pipe is executed, and a user with a Player is on that server.
THEOREM OnlineAgrees ==
    ASSUME NEW s0, Server = {s0}
    PROVE  Spec => []OnlineIsLocal
<1>1. IInv /\ HomeInv => OnlineIsLocal
  BY AloneWord DEF HomeInv, Agree, OnlineIsLocal, Account
<1>2. IInv /\ HomeInv /\ [Next]_vars => HomeInv'
  BY HomeNext
<1> QED BY <1>1, <1>2, HomeInit, Inductive, PTL DEF Spec

\* However many servers there are, no message is dropped because Redis says that
\* its receiver is on the server that looks for it, where local_players_ did not
\* have it.
THEOREM NotToSelf == Spec => []NeverForwardedToSelf
<1>1. HomeInv => NeverForwardedToSelf
  BY DEF HomeInv
<1>2. IInv /\ HomeInv /\ [Next]_vars => HomeInv'
  BY HomeNext
<1> QED BY <1>1, <1>2, HomeInit, Inductive, PTL DEF Spec

-----------------------------------------------------------------------------
(* Which elements a sequence has.                                          *)

\* Of the elements of q that are in K: whether there are any, whether there is
\* at most one, and whether they come before those in L
Has(q, K)       == \E i \in DOMAIN q : q[i] \in K
One(q, K)       == \A i, j \in DOMAIN q : q[i] \in K /\ q[j] \in K => i = j
Before(q, K, L) == \A i, j \in DOMAIN q : q[i] \in K /\ q[j] \in L => i < j

LEMMA InNothing ==
    \A K, L : ~ Has(<<>>, K) /\ One(<<>>, K) /\ Before(<<>>, K, L)
  BY DEF Has, One, Before

LEMMA InSingle ==
    ASSUME NEW e
    PROVE  /\ \A K : (Has(<<e>>, K) <=> e \in K) /\ One(<<e>>, K)
           /\ \A K, L : Before(<<e>>, K, L) <=> ~ (e \in K /\ e \in L)
<1>1. DOMAIN <<e>> = {1} /\ <<e>>[1] = e
  OBVIOUS
<1>2. ~ (1 < 1)
  OBVIOUS
<1> DEFINE q == <<e>>
<1> HIDE DEF q
<1>3. DOMAIN q = {1} /\ q[1] = e
  BY <1>1 DEF q
<1>4. /\ \A K : (Has(q, K) <=> e \in K) /\ One(q, K)
      /\ \A K, L : Before(q, K, L) <=> ~ (e \in K /\ e \in L)
  BY <1>2, <1>3 DEF Has, One, Before
<1> QED BY <1>4 DEF q

LEMMA InBoth ==
    ASSUME NEW S, NEW q \in Seq(S), NEW r \in Seq(S)
    PROVE  /\ \A K : Has(q \o r, K) <=> Has(q, K) \/ Has(r, K)
           /\ \A K : One(q \o r, K) <=> One(q, K) /\ One(r, K) /\ ~ (Has(q, K) /\ Has(r, K))
           /\ \A K, L : Before(q \o r, K, L)
                           <=> Before(q, K, L) /\ Before(r, K, L) /\ ~ (Has(q, L) /\ Has(r, K))
<1> DEFINE c == q \o r
           n == Len(q)
           k == Len(r)
<1>1. /\ n \in Nat /\ k \in Nat /\ DOMAIN q = 1..n /\ DOMAIN r = 1..k /\ DOMAIN c = 1..(n + k)
      /\ \A i \in 1..n : c[i] = q[i]
      /\ \A i \in 1..k : c[n + i] = r[i]
  OBVIOUS
<1> HIDE DEF c, n, k
<1>2. \A i \in 1..(n + k) : i \in 1..n \/ (i - n \in 1..k /\ n + (i - n) = i)
  BY <1>1
<1>3. \A i \in 1..n : i \in 1..(n + k)
  BY <1>1
<1>4. \A i \in 1..k : n + i \in 1..(n + k) /\ n + i \notin 1..n
  BY <1>1
<1>5. ASSUME NEW K PROVE Has(c, K) <=> Has(q, K) \/ Has(r, K)
  <2>1. ASSUME Has(c, K) PROVE Has(q, K) \/ Has(r, K)
    BY <1>1, <1>2, <2>1 DEF Has
  <2>2. ASSUME Has(q, K) PROVE Has(c, K)
    BY <1>1, <1>3, <2>2 DEF Has
  <2>3. ASSUME Has(r, K) PROVE Has(c, K)
    BY <1>1, <1>4, <2>3 DEF Has
  <2> QED BY <2>1, <2>2, <2>3
<1>6. ASSUME NEW K PROVE One(c, K) <=> One(q, K) /\ One(r, K) /\ ~ (Has(q, K) /\ Has(r, K))
  <2>1. ASSUME One(c, K) PROVE One(q, K)
    BY <1>1, <1>3, <2>1 DEF One
  <2>2. ASSUME One(c, K) PROVE One(r, K)
    <3>1. SUFFICES ASSUME NEW i \in 1..k, NEW j \in 1..k, r[i] \in K, r[j] \in K PROVE i = j
      BY <1>1 DEF One
    <3>2. n + i \in DOMAIN c /\ n + j \in DOMAIN c /\ c[n + i] \in K /\ c[n + j] \in K
      BY <1>1, <1>4, <3>1
    <3>3. n + i = n + j
      BY <2>2, <3>2 DEF One
    <3> QED BY <1>1, <3>3
  <2>3. ASSUME One(c, K), Has(q, K), Has(r, K) PROVE FALSE
    BY <1>1, <1>3, <1>4, <2>3 DEF One, Has
  <2>4. ASSUME One(q, K), One(r, K), ~ (Has(q, K) /\ Has(r, K)), NEW i \in 1..(n + k), NEW j \in 1..(n + k),
               c[i] \in K, c[j] \in K
        PROVE  i = j
    <3>1. CASE i \in 1..n /\ j \in 1..n
      BY <1>1, <2>4, <3>1 DEF One
    <3>2. CASE i \notin 1..n /\ j \notin 1..n
      <4>0. i - n \in DOMAIN r /\ j - n \in DOMAIN r /\ r[i - n] \in K /\ r[j - n] \in K
        <5>1. /\ i - n \in 1..k /\ n + (i - n) = i
              /\ j - n \in 1..k /\ n + (j - n) = j
          BY <1>2, <2>4, <3>2
        <5> QED BY <1>1, <2>4, <5>1
      <4>1. i - n = j - n
        BY <2>4, <4>0 DEF One
      <4> QED BY <1>1, <4>1
    <3>3. i \in 1..n => Has(q, K)
      BY <1>1, <2>4 DEF Has
    <3>4. j \in 1..n => Has(q, K)
      BY <1>1, <2>4 DEF Has
    <3>5. i \notin 1..n => Has(r, K)
      BY <1>1, <1>2, <2>4 DEF Has
    <3>6. j \notin 1..n => Has(r, K)
      BY <1>1, <1>2, <2>4 DEF Has
    <3> QED BY <2>4, <3>1, <3>2, <3>3, <3>4, <3>5, <3>6
  <2>5. One(c, K) <=> \A i, j \in 1..(n + k) : c[i] \in K /\ c[j] \in K => i = j
    BY <1>1 DEF One
  <2> QED BY <2>1, <2>2, <2>3, <2>4, <2>5
<1>7. ASSUME NEW K, NEW L
      PROVE  Before(c, K, L) <=> Before(q, K, L) /\ Before(r, K, L) /\ ~ (Has(q, L) /\ Has(r, K))
  <2>1. ASSUME Before(c, K, L) PROVE Before(q, K, L)
    BY <1>1, <1>3, <2>1 DEF Before
  <2>2. ASSUME Before(c, K, L) PROVE Before(r, K, L)
    <3>1. \A i, j \in 1..k : n + i < n + j => i < j
      BY <1>1
    <3> QED BY <1>1, <1>4, <2>2, <3>1 DEF Before
  <2>3. ASSUME Before(c, K, L), Has(q, L), Has(r, K) PROVE FALSE
    <3>1. \A i \in 1..k, j \in 1..n : ~ (n + i < j)
      BY <1>1
    <3> QED BY <1>1, <1>3, <1>4, <2>3, <3>1 DEF Before, Has
  <2>4. ASSUME Before(q, K, L), Before(r, K, L), ~ (Has(q, L) /\ Has(r, K)),
               NEW i \in 1..(n + k), NEW j \in 1..(n + k), c[i] \in K, c[j] \in L
        PROVE  i < j
    <3>1. CASE i \in 1..n /\ j \in 1..n
      BY <1>1, <2>4, <3>1 DEF Before
    <3>2. CASE i \notin 1..n /\ j \notin 1..n
      <4>0. i - n \in DOMAIN r /\ j - n \in DOMAIN r /\ r[i - n] \in K /\ r[j - n] \in L
        <5>1. /\ i - n \in 1..k /\ n + (i - n) = i
              /\ j - n \in 1..k /\ n + (j - n) = j
          BY <1>2, <2>4, <3>2
        <5> QED BY <1>1, <2>4, <5>1
      <4>1. i - n < j - n
        BY <2>4, <4>0 DEF Before
      <4> QED BY <1>1, <2>4, <4>1
    <3>3. CASE i \notin 1..n /\ j \in 1..n
      <4>1. Has(r, K) /\ Has(q, L)
        BY <1>1, <1>2, <2>4, <3>3 DEF Has
      <4> QED BY <2>4, <4>1
    <3>4. CASE i \in 1..n /\ j \notin 1..n
      BY <1>1, <2>4, <3>4
    <3> QED BY <3>1, <3>2, <3>3, <3>4
  <2>5. Before(c, K, L) <=> \A i, j \in 1..(n + k) : c[i] \in K /\ c[j] \in L => i < j
    BY <1>1 DEF Before
  <2> QED BY <2>1, <2>2, <2>3, <2>4, <2>5
<1> QED BY <1>5, <1>6, <1>7 DEF c

LEMMA InAppend ==
    ASSUME NEW S, NEW q \in Seq(S), NEW e \in S
    PROVE  /\ Append(q, e) \in Seq(S)
           /\ \A K : Has(Append(q, e), K) <=> Has(q, K) \/ e \in K
           /\ \A K : One(Append(q, e), K) <=> One(q, K) /\ ~ (Has(q, K) /\ e \in K)
           /\ \A K, L : Before(Append(q, e), K, L)
                           <=> Before(q, K, L) /\ ~ (e \in K /\ e \in L) /\ ~ (Has(q, L) /\ e \in K)
<1> DEFINE o == <<e>>
           b == Append(q, e)
<1>1. o \in Seq(S) /\ b = q \o o /\ b \in Seq(S)
  OBVIOUS
<1>2. /\ \A K : (Has(o, K) <=> e \in K) /\ One(o, K)
      /\ \A K, L : Before(o, K, L) <=> ~ (e \in K /\ e \in L)
  BY InSingle
<1> HIDE DEF b, o
<1>3. /\ \A K : Has(b, K) <=> Has(q, K) \/ e \in K
      /\ \A K : One(b, K) <=> One(q, K) /\ ~ (Has(q, K) /\ e \in K)
      /\ \A K, L : Before(b, K, L) <=> Before(q, K, L) /\ ~ (e \in K /\ e \in L) /\ ~ (Has(q, L) /\ e \in K)
  BY <1>1, <1>2, InBoth
<1> QED BY <1>1, <1>3 DEF b

LEMMA InParts ==
    ASSUME NEW S, NEW q \in Seq(S), q # <<>>
    PROVE  /\ \A K : Has(q, K) <=> Head(q) \in K \/ Has(Tail(q), K)
           /\ \A K : One(q, K) <=> One(Tail(q), K) /\ ~ (Head(q) \in K /\ Has(Tail(q), K))
           /\ \A K, L : Before(q, K, L)
                   <=> Before(Tail(q), K, L) /\ ~ (Head(q) \in L /\ (Head(q) \in K \/ Has(Tail(q), K)))
<1>1. Head(q) \in S /\ Tail(q) \in Seq(S) /\ <<Head(q)>> \in Seq(S) /\ q = <<Head(q)>> \o Tail(q)
  OBVIOUS
<1> DEFINE h == Head(q)
           t == Tail(q)
<1> HIDE DEF h, t
<1>2. h \in S /\ t \in Seq(S) /\ <<h>> \in Seq(S) /\ q = <<h>> \o t
  BY <1>1 DEF h, t
<1>3. /\ \A K : Has(q, K) <=> Has(<<h>>, K) \/ Has(t, K)
      /\ \A K : One(q, K) <=> One(<<h>>, K) /\ One(t, K) /\ ~ (Has(<<h>>, K) /\ Has(t, K))
      /\ \A K, L : Before(q, K, L)
                      <=> Before(<<h>>, K, L) /\ Before(t, K, L) /\ ~ (Has(<<h>>, L) /\ Has(t, K))
  BY <1>2, InBoth
<1>4. /\ \A K : (Has(<<h>>, K) <=> h \in K) /\ One(<<h>>, K)
      /\ \A K, L : Before(<<h>>, K, L) <=> ~ (h \in K /\ h \in L)
  BY InSingle
<1>5. /\ \A K : Has(q, K) <=> h \in K \/ Has(t, K)
      /\ \A K : One(q, K) <=> One(t, K) /\ ~ (h \in K /\ Has(t, K))
      /\ \A K, L : Before(q, K, L) <=> Before(t, K, L) /\ ~ (h \in L /\ (h \in K \/ Has(t, K)))
  BY <1>3, <1>4
<1> QED BY <1>5 DEF h, t

-----------------------------------------------------------------------------
(* Commands and the answers to them, by whom and what they are about, in   *)
(* the order in which they are answered and executed.                      *)

Item       == Command \cup Answer
Login(u)   == {e \in Item : e.op = "login" /\ e.uid = u}
Read(u)    == {e \in Item : e.op = "lrangeMsg" /\ e.uid = u}
Del(u)     == {e \in Item : e.op = "delMsg" /\ e.uid = u}
Held(m)    == {e \in Item : e.op \in {"getOnline", "rpushMsg"} /\ e.msg = m}
Carry(m)   == {a \in Answer : a.op = "lrangeMsg" /\ Has(a.list, {m})}
Doubled(m) == {a \in Carry(m) : ~ One(a.list, {m})}

Line(s) == answer[s] \o pipe[s]

\* An account has one login under way and one list that is being read, the
\* list before the login, and none is read while one that was read is still
\* to be deleted.
InOrder(l, u) ==
    /\ One(l, Login(u)) /\ One(l, Read(u))
    /\ Before(l, Read(u), Login(u)) /\ Before(l, Del(u), Read(u))

LEMMA LineGrows ==
    ASSUME NEW S, NEW l \in Seq(S), NEW cmds \in Seq(S), NEW u, InOrder(l, u), InOrder(cmds, u),
           Has(cmds, Login(u)) => ~ Has(l, Login(u)),
           Has(cmds, Read(u)) => ~ Has(l, Read(u)) /\ ~ Has(l, Login(u)),
           Has(cmds, Del(u)) => ~ Has(l, Read(u))
    PROVE  InOrder(l \o cmds, u)
  BY InBoth DEF InOrder

LEMMA LineTaken ==
    ASSUME NEW S, NEW l \in Seq(S), l # <<>>, NEW u, InOrder(l, u)
    PROVE  /\ InOrder(Tail(l), u)
           /\ Head(l) \in Login(u) => ~ Has(Tail(l), Login(u)) /\ ~ Has(Tail(l), Read(u))
           /\ Head(l) \in Read(u) => ~ Has(Tail(l), Read(u))
  BY InParts DEF InOrder

LEMMA LineDropped ==
    ASSUME NEW S, NEW a \in Seq(S), NEW p \in Seq(S), p # <<>>, NEW u, InOrder(a \o p, u)
    PROVE  InOrder(a \o Tail(p), u)
<1>1. Tail(p) \in Seq(S)
  OBVIOUS
<1> QED BY <1>1, InBoth, InParts DEF InOrder

LEMMA LineAnswered ==
    ASSUME NEW S, NEW a \in Seq(S), NEW p \in Seq(S), p # <<>>, NEW r \in S, NEW u, InOrder(a \o p, u),
           r \in Login(u) <=> Head(p) \in Login(u), r \in Read(u) <=> Head(p) \in Read(u),
           r \notin Del(u)
    PROVE  InOrder(Append(a, r) \o Tail(p), u)
<1> DEFINE b == Append(a, r)
<1>1. Tail(p) \in Seq(S) /\ b \in Seq(S)
  OBVIOUS
<1>2. \A K : Has(a \o p, K) <=> Has(a, K) \/ Head(p) \in K \/ Has(Tail(p), K)
  BY InBoth, InParts
<1>3. /\ \A K : Has(b, K) <=> Has(a, K) \/ r \in K
      /\ \A K : One(b, K) <=> One(a, K) /\ ~ (Has(a, K) /\ r \in K)
      /\ \A K, L : Before(b, K, L) <=> Before(a, K, L) /\ ~ (r \in K /\ r \in L) /\ ~ (Has(a, L) /\ r \in K)
  BY InAppend
<1> HIDE DEF b
<1> DEFINE t == Tail(p)
<1>4. b \in Seq(S) /\ t \in Seq(S) /\ Append(a, r) = b
  BY <1>1 DEF b
<1>5. /\ One(b \o t, Login(u)) <=> One(b, Login(u)) /\ One(t, Login(u)) /\ ~ (Has(b, Login(u)) /\ Has(t, Login(u)))
      /\ One(b \o t, Read(u)) <=> One(b, Read(u)) /\ One(t, Read(u)) /\ ~ (Has(b, Read(u)) /\ Has(t, Read(u)))
      /\ Before(b \o t, Read(u), Login(u)) <=> Before(b, Read(u), Login(u)) /\ Before(t, Read(u), Login(u))
                                               /\ ~ (Has(b, Login(u)) /\ Has(t, Read(u)))
      /\ Before(b \o t, Del(u), Read(u)) <=> Before(b, Del(u), Read(u)) /\ Before(t, Del(u), Read(u))
                                               /\ ~ (Has(b, Read(u)) /\ Has(t, Del(u)))
  BY <1>4, InBoth
<1> HIDE DEF t
<1>6. ~ (r \in Read(u) /\ r \in Login(u))
  BY DEF Item, Read, Login
<1>7. /\ One(a, Login(u)) /\ One(p, Login(u)) /\ ~ (Has(a, Login(u)) /\ Has(p, Login(u)))
      /\ One(a, Read(u)) /\ One(p, Read(u)) /\ ~ (Has(a, Read(u)) /\ Has(p, Read(u)))
      /\ Before(a, Read(u), Login(u)) /\ Before(p, Read(u), Login(u)) /\ ~ (Has(a, Login(u)) /\ Has(p, Read(u)))
      /\ Before(a, Del(u), Read(u)) /\ Before(p, Del(u), Read(u)) /\ ~ (Has(a, Read(u)) /\ Has(p, Del(u)))
  BY InBoth DEF InOrder
<1>8. /\ \A K : Has(p, K) <=> Head(p) \in K \/ Has(t, K)
      /\ \A K : One(p, K) <=> One(t, K) /\ ~ (Head(p) \in K /\ Has(t, K))
      /\ \A K, L : Before(p, K, L) <=> Before(t, K, L) /\ ~ (Head(p) \in L /\ (Head(p) \in K \/ Has(t, K)))
  BY InParts DEF t
<1> QED BY <1>3, <1>4, <1>5, <1>6, <1>7, <1>8 DEF InOrder, t

LEMMA InOrderNothing ==
    \A u : InOrder(<<>>, u)
  BY InNothing DEF InOrder

\* What the commands that are issued are about
LEMMA LoginIssued ==
    ASSUME NEW c \in Conn, NEW u \in Uid, NEW cmds, cmds = <<[op |-> "login", conn |-> c, uid |-> u]>>
    PROVE  /\ cmds \in Seq(Command)
           /\ \A v : /\ InOrder(cmds, v) /\ (Has(cmds, Login(v)) => v = u)
                     /\ ~ Has(cmds, Read(v)) /\ ~ Has(cmds, Del(v))
           /\ \A m : ~ Has(cmds, Held(m))
<1> DEFINE e == [op |-> "login", conn |-> c, uid |-> u]
<1>1. e \in Command /\ e.op = "login" /\ e.uid = u
  BY DEF Command
<1> HIDE DEF e
<1>2. \A v : (e \in Login(v) => v = u) /\ e \notin Read(v) /\ e \notin Del(v)
  BY <1>1 DEF Item, Login, Read, Del
<1>3. \A m : e \notin Held(m)
  BY <1>1 DEF Item, Held
<1>4. cmds = <<e>> /\ cmds \in Seq(Command)
  BY <1>1 DEF e
<1> QED BY <1>2, <1>3, <1>4, InSingle DEF InOrder

LEMMA HoldIssued ==
    ASSUME NEW m \in Message, NEW op \in {"getOnline", "rpushMsg"}, NEW cmds, cmds = <<[op |-> op, msg |-> m]>>
    PROVE  /\ cmds \in Seq(Command)
           /\ \A v : InOrder(cmds, v) /\ ~ Has(cmds, Login(v)) /\ ~ Has(cmds, Read(v)) /\ ~ Has(cmds, Del(v))
           /\ \A n : (Has(cmds, Held(n)) <=> n = m) /\ One(cmds, Held(n))
<1> DEFINE e == [op |-> op, msg |-> m]
<1>1. e \in Command /\ e.op = op /\ e.msg = m
  BY DEF Command
<1> HIDE DEF e
<1>2. \A v : e \notin Login(v) /\ e \notin Read(v) /\ e \notin Del(v)
  BY <1>1 DEF Item, Login, Read, Del
<1>3. \A n : e \in Held(n) <=> n = m
  BY <1>1 DEF Item, Held
<1>4. cmds = <<e>> /\ cmds \in Seq(Command)
  BY <1>1 DEF e
<1> QED BY <1>2, <1>3, <1>4, InSingle DEF InOrder

LEMMA DelIssued ==
    ASSUME NEW u \in Uid
    PROVE  /\ Emptied(u) \in Seq(Command)
           /\ \A v : /\ InOrder(Emptied(u), v) /\ (Has(Emptied(u), Del(v)) <=> v = u)
                     /\ ~ Has(Emptied(u), Login(v)) /\ ~ Has(Emptied(u), Read(v))
           /\ \A m : ~ Has(Emptied(u), Held(m))
<1> DEFINE e == [op |-> "delMsg", uid |-> u]
<1>1. e \in Command /\ e.op = "delMsg" /\ e.uid = u
  BY DEF Command
<1> HIDE DEF e
<1>2. \A v : e \notin Login(v) /\ e \notin Read(v) /\ (e \in Del(v) <=> v = u)
  BY <1>1 DEF Item, Login, Read, Del
<1>3. \A m : e \notin Held(m)
  BY <1>1 DEF Item, Held
<1>4. Emptied(u) = <<e>> /\ Emptied(u) \in Seq(Command)
  BY <1>1 DEF e, Emptied
<1> QED BY <1>2, <1>3, <1>4, InSingle DEF InOrder

LEMMA SetIssued ==
    ASSUME NEW u \in Uid
    PROVE  /\ LoginCommands(u) \in Seq(Command)
           /\ \A v : /\ InOrder(LoginCommands(u), v) /\ (Has(LoginCommands(u), Read(v)) => v = u)
                     /\ ~ Has(LoginCommands(u), Login(v)) /\ ~ Has(LoginCommands(u), Del(v))
           /\ \A m : ~ Has(LoginCommands(u), Held(m))
<1> DEFINE e1 == [op |-> "setOnline", uid |-> u]
           e2 == [op |-> "lrangeMsg", uid |-> u]
           e3 == [op |-> "lrangeBlack", uid |-> u]
           q == <<e1, e2, e3>>
<1>1. /\ e1 \in Command /\ e1.op = "setOnline" /\ e2 \in Command /\ e2.op = "lrangeMsg" /\ e2.uid = u
      /\ e3 \in Command /\ e3.op = "lrangeBlack"
  BY DEF Command
<1>2. LoginCommands(u) = q
  BY DEF LoginCommands
<1> HIDE DEF e1, e2, e3
<1>3. q \in Seq(Command)
  BY <1>1
<1>4. DOMAIN q = {1, 2, 3} /\ q[1] = e1 /\ q[2] = e2 /\ q[3] = e3
  OBVIOUS
<1> HIDE DEF q
<1>5. \A i \in DOMAIN q : (\A v : q[i] \notin Login(v) /\ q[i] \notin Del(v)) /\ (\A m : q[i] \notin Held(m))
  BY <1>1, <1>4 DEF Item, Login, Del, Held
<1>6. \A v : \A i \in DOMAIN q : q[i] \in Read(v) => i = 2 /\ v = u
  BY <1>1, <1>4 DEF Item, Read
<1>7. /\ \A v : /\ (Has(q, Read(v)) => v = u) /\ One(q, Read(v)) /\ One(q, Login(v))
                /\ ~ Has(q, Login(v)) /\ ~ Has(q, Del(v))
                /\ Before(q, Read(v), Login(v)) /\ Before(q, Del(v), Read(v))
      /\ \A m : ~ Has(q, Held(m))
  BY <1>5, <1>6 DEF Has, One, Before
<1> QED BY <1>2, <1>3, <1>7 DEF InOrder

LEMMA AwayIssued ==
    ASSUME NEW u \in Uid, NEW B \in SUBSET Uid, NEW cmds \in LogoutCommands(u, B)
    PROVE  /\ cmds \in Seq(Command)
           /\ \A v : InOrder(cmds, v) /\ ~ Has(cmds, Login(v)) /\ ~ Has(cmds, Read(v)) /\ ~ Has(cmds, Del(v))
           /\ \A m : ~ Has(cmds, Held(m))
<1>1. /\ cmds \in Seq(Command) /\ DOMAIN cmds = 1..Len(cmds)
      /\ \A i \in 1..Len(cmds) : cmds[i].op \in {"delOnline", "delBlack", "lpushBlack"}
  <2>1. cmds \in Seq(Command)
    BY LogoutCommandsFields
  <2>2. \A i \in 1..Len(cmds) : cmds[i].op \in {"delOnline", "delBlack", "lpushBlack"}
    BY LogoutCommandsFields
  <2> QED BY <2>1, <2>2
<1>2. \A i \in DOMAIN cmds : /\ \A v : cmds[i] \notin Login(v) /\ cmds[i] \notin Read(v) /\ cmds[i] \notin Del(v)
                             /\ \A m : cmds[i] \notin Held(m)
  BY <1>1 DEF Item, Login, Read, Del, Held
<1> QED BY <1>1, <1>2 DEF InOrder, Has, One, Before

-----------------------------------------------------------------------------
(* Where a message is.                                                     *)

\* With a Player, or on its way there
Got(h, m)    == Made(h) /\ (Has(player[h].queue, {m}) \/ player[h].sent[m] > 0)
Out(s, m)    == Has(answer[s], Carry(m)) \/ \E h \in Handle : Got(h, m)
Unread(s, m) == Has(Line(s), Held(m))
OnList(m)    == Has(mailbox[m.receiver], {m})
Deleting(s, u) == Has(answer[s], Read(u)) \/ Has(pipe[s], Del(u))

OnceAt(h, m) ==
    Made(h) => /\ One(player[h].queue, {m}) /\ player[h].sent[m] <= 1
               /\ ~ (Has(player[h].queue, {m}) /\ player[h].sent[m] > 0)

\* A private message is in one place: in a command or an answer on its way to
\* the list, on the list, in an answer on its way from the list, in the queue
\* of one Player, or sent by that Player.  From when it is read until it is
\* deleted, it is on the list as well, and is not read again.
Owned(s, m) ==
    /\ One(Line(s), Held(m)) /\ One(mailbox[m.receiver], {m}) /\ ~ Has(answer[s], Doubled(m))
    /\ ~ (Unread(s, m) /\ OnList(m)) /\ ~ (Unread(s, m) /\ Out(s, m))
    /\ alive[s] /\ Out(s, m) /\ OnList(m) => Deleting(s, m.receiver)
    /\ \A h \in Handle : OnceAt(h, m)
    /\ \A g, h \in Handle : Got(g, m) /\ Got(h, m) => g = h
    /\ Has(answer[s], Carry(m)) => \A h \in Handle : ~ Got(h, m)
    /\ m \notin posted => ~ Unread(s, m) /\ ~ OnList(m) /\ ~ Out(s, m)

\* A broadcast is on the list once, before it is sent.
Announced(s, m) ==
    /\ One(bcast[s], {m})
    /\ Has(bcast[s], {m}) => \A h \in Handle : Made(h) => player[h].sent[m] = 0
    /\ \A h \in Handle : Made(h) => player[h].sent[m] <= 1
    /\ m \notin posted => ~ Has(bcast[s], {m}) /\ \A h \in Handle : Made(h) => player[h].sent[m] = 0

Halted == \A s \in Server : ~ alive[s] => pipe[s] = <<>> /\ answer[s] = <<>>
Still  == \A s, t \in Server : wire[s][t] = <<>>

OnceHere(s) ==
    /\ \A u \in Uid : InOrder(Line(s), u)
    /\ \A m \in Message : IF m.type = "private" THEN Owned(s, m) ELSE Announced(s, m)

\* What a step that takes nothing from the list and queues nothing keeps
Calm ==
    \A h \in Handle : Made(h)' =>
        /\ player'[h].queue = IF Made(h) THEN player[h].queue ELSE <<>>
        /\ \A m \in Message : player'[h].sent[m] = IF Made(h) THEN player[h].sent[m] ELSE 0

LEMMA CalmKeeps ==
    ASSUME Calm, NEW m \in Message, NEW h \in Handle
    PROVE  /\ Got(h, m)' => Got(h, m)
           /\ OnceAt(h, m) => OnceAt(h, m)'
<1>1. CASE ~ Made(h)'
  BY <1>1 DEF Got, OnceAt
<1>2. CASE Made(h)' /\ Made(h)
  <2>1. player'[h].queue = player[h].queue /\ player'[h].sent[m] = player[h].sent[m]
    BY <1>2 DEF Calm
  <2> QED BY <1>2, <2>1 DEF Got, OnceAt
<1>3. CASE Made(h)' /\ ~ Made(h)
  <2>1. player'[h].queue = <<>> /\ player'[h].sent[m] = 0
    BY <1>3 DEF Calm
  <2> QED BY <2>1, InNothing DEF Got, OnceAt
<1> QED BY <1>1, <1>2, <1>3

LEMMA OwnedKept ==
    ASSUME NEW s \in Server, NEW m \in Message, Owned(s, m),
           One(Line(s)', Held(m)), Has(Line(s)', Held(m)) => Unread(s, m),
           ~ Has(answer'[s], Doubled(m)), Has(answer'[s], Carry(m)) => Has(answer[s], Carry(m)),
           One(mailbox'[m.receiver], {m}),
           Has(mailbox'[m.receiver], {m}) =>
               /\ OnList(m)
               /\ alive'[s] => alive[s] /\ (Deleting(s, m.receiver) => Deleting(s, m.receiver)'),
           \A h \in Handle : OnceAt(h, m)' /\ (Got(h, m)' => Got(h, m)),
           m \in posted => m \in posted'
    PROVE  Owned(s, m)'
<1>1. Unread(s, m)' => Unread(s, m)
  BY DEF Unread
<1>2. OnList(m)' => OnList(m)
  BY DEF OnList
<1>3. Out(s, m)' => Out(s, m)
  BY DEF Out
<1>4. (alive[s] /\ Out(s, m) /\ OnList(m))' => Deleting(s, m.receiver)'
  BY <1>3 DEF Owned, OnList
<1>5. One(Line(s), Held(m))' /\ One(mailbox[m.receiver], {m})' /\ ~ Has(answer[s], Doubled(m))'
  OBVIOUS
<1>6. Has(answer[s], Carry(m))' => \A h \in Handle : ~ Got(h, m)'
  BY DEF Owned
<1>7. \A g, h \in Handle : Got(g, m)' /\ Got(h, m)' => g = h
  BY DEF Owned
<1> QED BY <1>1, <1>2, <1>3, <1>4, <1>5, <1>6, <1>7 DEF Owned

LEMMA Lines ==
    ASSUME PipeOK, AnswerOK, NEW s \in Server
    PROVE  /\ answer[s] \in Seq(Item) /\ pipe[s] \in Seq(Item) /\ Line(s) \in Seq(Item)
           /\ answer[s] # <<>> => /\ Tail(answer[s]) \o pipe[s] = Tail(Line(s)) /\ Line(s) # <<>>
                                  /\ Head(Line(s)) = Head(answer[s])
                                  /\ Tail(answer[s]) \in Seq(Item) /\ Tail(Line(s)) \in Seq(Item)
           /\ \A cmds \in Seq(Command) :
                 /\ cmds \in Seq(Item)
                 /\ answer[s] \o (pipe[s] \o cmds) = Line(s) \o cmds
                 /\ answer[s] # <<>> => Tail(answer[s]) \o (pipe[s] \o cmds) = Tail(Line(s)) \o cmds
<1>1. answer[s] \in Seq(Answer) /\ pipe[s] \in Seq(Command)
  BY DEF PipeOK, AnswerOK
<1>2. \A q : q \in Seq(Command) \/ q \in Seq(Answer) => q \in Seq(Item)
  BY DEF Item
<1>3. ASSUME NEW a \in Seq(Item), NEW p \in Seq(Item)
      PROVE  /\ a \o p \in Seq(Item)
             /\ a # <<>> => /\ Tail(a) \o p = Tail(a \o p) /\ a \o p # <<>> /\ Head(a \o p) = Head(a)
                            /\ Tail(a) \in Seq(Item) /\ Tail(a \o p) \in Seq(Item)
             /\ \A r \in Seq(Item) : a \o (p \o r) = (a \o p) \o r
  <2>1. a \o p \in Seq(Item) /\ \A r \in Seq(Item) : a \o (p \o r) = (a \o p) \o r
    OBVIOUS
  <2>2. ASSUME a # <<>>
        PROVE  /\ Tail(a) \o p = Tail(a \o p) /\ a \o p # <<>> /\ Head(a \o p) = Head(a)
               /\ Tail(a) \in Seq(Item)
    BY <2>2
  <2> QED BY <2>1, <2>2
<1>4. ASSUME NEW a \in Seq(Item), NEW p \in Seq(Item), NEW r \in Seq(Item), a # <<>>
      PROVE  Tail(a) \o (p \o r) = Tail(a \o p) \o r
  <2>1. Tail(a) \in Seq(Item)
    BY <1>3, <1>4
  <2>2. Tail(a) \o (p \o r) = (Tail(a) \o p) \o r
    BY <2>1, <1>3
  <2> QED BY <2>2, <1>3, <1>4
<1> DEFINE a == answer[s]
           p == pipe[s]
<1>5. a \in Seq(Item) /\ p \in Seq(Item) /\ Line(s) = a \o p
  BY <1>1, <1>2 DEF Line
<1> HIDE DEF a, p
<1>6. /\ Line(s) \in Seq(Item)
      /\ a # <<>> => /\ Tail(a) \o p = Tail(Line(s)) /\ Line(s) # <<>> /\ Head(Line(s)) = Head(a)
                     /\ Tail(a) \in Seq(Item) /\ Tail(Line(s)) \in Seq(Item)
  BY <1>3, <1>5
<1>7. ASSUME NEW cmds \in Seq(Command)
      PROVE  /\ cmds \in Seq(Item) /\ a \o (p \o cmds) = Line(s) \o cmds
             /\ a # <<>> => Tail(a) \o (p \o cmds) = Tail(Line(s)) \o cmds
  <2>1. cmds \in Seq(Item)
    BY <1>2
  <2>2. a \o (p \o cmds) = Line(s) \o cmds
    BY <1>3, <1>5, <2>1
  <2>3. ASSUME a # <<>> PROVE Tail(a) \o (p \o cmds) = Tail(Line(s)) \o cmds
    BY <1>4, <1>5, <2>1, <2>3
  <2> QED BY <2>1, <2>2, <2>3
<1> QED BY <1>5, <1>6, <1>7 DEF a, p

\* The callback of an answer, which is about no message or moves the one it is
\* about to the commands it issues
LEMMA OwnedTake ==
    ASSUME PipeOK, AnswerOK, NEW s \in Server, NEW m \in Message, Owned(s, m),
           NEW cmds \in Seq(Command), Issue(s, cmds),
           answer[s] # <<>>, answer' = [answer EXCEPT ![s] = Tail(@)],
           UNCHANGED <<alive, mailbox, posted>>,
           \A h \in Handle : OnceAt(h, m)' /\ (Got(h, m)' => Got(h, m)),
           One(cmds, Held(m)), Has(cmds, Held(m)) => Head(answer[s]) \in Held(m),
           Head(answer[s]) \in Read(m.receiver) => Has(cmds, Del(m.receiver))
    PROVE  Owned(s, m)'
<1> DEFINE l == Line(s)
           a == answer[s]
           x == Head(answer[s])
<1>1. /\ answer'[s] = Tail(a) /\ pipe'[s] = pipe[s] \o cmds
      /\ pipe[s] \in Seq(Command)
  BY DEF PipeOK, AnswerOK, Issue
<1>2. /\ a \in Seq(Item) /\ pipe[s] \in Seq(Item) /\ l \in Seq(Item) /\ l # <<>> /\ Tail(a) \in Seq(Item)
      /\ Head(l) = x /\ cmds \in Seq(Item) /\ Tail(l) \in Seq(Item)
      /\ Line(s)' = Tail(l) \o cmds
  <2>1. /\ a \in Seq(Item) /\ pipe[s] \in Seq(Item) /\ l \in Seq(Item) /\ l # <<>> /\ Tail(a) \in Seq(Item)
        /\ Head(l) = x /\ Tail(l) \in Seq(Item)
    BY Lines
  <2>2. cmds \in Seq(Item) /\ Tail(a) \o (pipe[s] \o cmds) = Tail(l) \o cmds
    BY Lines
  <2> QED BY <1>1, <2>1, <2>2 DEF Line
<1> HIDE DEF l, a, x
<1>4. \A K : /\ Has(l, K) <=> x \in K \/ Has(Tail(l), K)
             /\ One(l, K) <=> One(Tail(l), K) /\ ~ (x \in K /\ Has(Tail(l), K))
  BY <1>2, InParts
<1>5. \A K : /\ Has(Tail(l) \o cmds, K) <=> Has(Tail(l), K) \/ Has(cmds, K)
             /\ One(Tail(l) \o cmds, K) <=> /\ One(Tail(l), K) /\ One(cmds, K)
                                            /\ ~ (Has(Tail(l), K) /\ Has(cmds, K))
  BY <1>2, InBoth
<1>6. \A K : Has(a, K) <=> x \in K \/ Has(Tail(a), K)
  BY <1>2, InParts DEF a, x
<1>7. \A K : Has(pipe[s] \o cmds, K) <=> Has(pipe[s], K) \/ Has(cmds, K)
  BY <1>2, InBoth
<1>8. One(Line(s)', Held(m)) /\ (Has(Line(s)', Held(m)) => Unread(s, m))
  BY <1>2, <1>4, <1>5 DEF Owned, Unread, l, x
<1>9. ~ Has(answer'[s], Doubled(m)) /\ (Has(answer'[s], Carry(m)) => Has(answer[s], Carry(m)))
  BY <1>1, <1>6 DEF Owned, a
<1>10. Deleting(s, m.receiver) => Deleting(s, m.receiver)'
  BY <1>1, <1>6, <1>7 DEF Deleting, a, x
<1>11. One(mailbox'[m.receiver], {m}) /\ (Has(mailbox'[m.receiver], {m}) => OnList(m))
  BY DEF Owned, OnList
<1> QED BY <1>8, <1>9, <1>10, <1>11, OwnedKept

\* A request that issues commands which are about no message
LEMMA OwnedIssue ==
    ASSUME PipeOK, AnswerOK, NEW s \in Server, NEW m \in Message, Owned(s, m),
           NEW cmds \in Seq(Command), Issue(s, cmds), ~ Has(cmds, Held(m)),
           UNCHANGED <<alive, answer, mailbox>>, m \in posted => m \in posted',
           \A h \in Handle : OnceAt(h, m)' /\ (Got(h, m)' => Got(h, m))
    PROVE  Owned(s, m)'
<1> DEFINE l == Line(s)
<1>1. pipe'[s] = pipe[s] \o cmds /\ pipe[s] \in Seq(Item) /\ l \in Seq(Item) /\ cmds \in Seq(Item) /\ Line(s)' = l \o cmds
  <2>1. pipe'[s] = pipe[s] \o cmds
    BY DEF PipeOK, Issue
  <2>2. /\ pipe[s] \in Seq(Item) /\ l \in Seq(Item) /\ cmds \in Seq(Item)
        /\ answer[s] \o (pipe[s] \o cmds) = l \o cmds
    BY Lines
  <2> QED BY <2>1, <2>2 DEF Line
<1> HIDE DEF l
<1>2. \A K : /\ Has(l \o cmds, K) <=> Has(l, K) \/ Has(cmds, K)
             /\ One(l \o cmds, K) <=> One(l, K) /\ One(cmds, K) /\ ~ (Has(l, K) /\ Has(cmds, K))
             /\ Has(pipe[s] \o cmds, K) <=> Has(pipe[s], K) \/ Has(cmds, K)
  BY <1>1, InBoth
<1>3. One(cmds, Held(m))
  BY DEF One, Has
<1>4. One(Line(s)', Held(m)) /\ (Has(Line(s)', Held(m)) => Unread(s, m))
  BY <1>1, <1>2, <1>3 DEF Owned, Unread, l
<1>5. Deleting(s, m.receiver) => Deleting(s, m.receiver)'
  BY <1>1, <1>2 DEF Deleting
<1>6. ~ Has(answer'[s], Doubled(m)) /\ (Has(answer'[s], Carry(m)) => Has(answer[s], Carry(m)))
  BY DEF Owned
<1>7. One(mailbox'[m.receiver], {m}) /\ (Has(mailbox'[m.receiver], {m}) => OnList(m))
  BY DEF Owned, OnList
<1> QED BY <1>4, <1>5, <1>6, <1>7, OwnedKept

LEMMA AnnouncedKept ==
    ASSUME NEW s \in Server, NEW m \in Message, Announced(s, m),
           \A h \in Handle : Made(h)' => player'[h].sent[m] = IF Made(h) THEN player[h].sent[m] ELSE 0,
           One(bcast'[s], {m}), Has(bcast'[s], {m}) => Has(bcast[s], {m}), m \in posted => m \in posted'
    PROVE  Announced(s, m)'
<1>1. \A h \in Handle : Made(h)' => IF Made(h) THEN player'[h].sent[m] = player[h].sent[m]
                                              ELSE player'[h].sent[m] = 0
  OBVIOUS
<1>2. (\A h \in Handle : Made(h) => player[h].sent[m] = 0)
          => \A h \in Handle : Made(h)' => player'[h].sent[m] = 0
  BY <1>1
<1>3. \A h \in Handle : Made(h)' => player'[h].sent[m] <= 1
  <2>1. 0 <= 1
    OBVIOUS
  <2> QED BY <1>1, <2>1 DEF Announced
<1> QED BY <1>2, <1>3 DEF Announced

LEMMA AnnouncedCalm ==
    ASSUME NEW s \in Server, NEW m \in Message, Announced(s, m), Calm,
           bcast'[s] \in {bcast[s], <<>>}, m \in posted => m \in posted'
    PROVE  Announced(s, m)'
<1>1. One(bcast'[s], {m}) /\ (Has(bcast'[s], {m}) => Has(bcast[s], {m}))
  BY InNothing DEF Announced
<1> QED BY <1>1, AnnouncedKept DEF Calm

-----------------------------------------------------------------------------
(* The steps that move no message                                          *)

LEMMA CalmSame ==
    ASSUME UNCHANGED player
    PROVE  Calm
  BY DEF Calm, Made

LEMMA CalmBlack ==
    ASSUME MemoryOK, NEW h \in Handle, Made(h), NEW b, player' = [player EXCEPT ![h].black = b]
    PROVE  Calm
  BY DEF MemoryOK, Calm, Made, Player

LEMMA CalmInsert ==
    ASSUME MemoryOK, NEW s \in Server, NEW u \in Uid, NEW c, Insert(s, u, c)
    PROVE  Calm
<1>1. PICK h \in Handle : ~ Made(h) /\ player' = [player EXCEPT ![h] = NewPlayer(u, c)]
  BY DEF Insert
<1>2. player'[h] = NewPlayer(u, c) /\ \A g \in Handle : g # h => player'[g] = player[g]
  BY <1>1 DEF MemoryOK
<1>3. NewPlayer(u, c).queue = <<>> /\ \A m \in Message : NewPlayer(u, c).sent[m] = 0
  BY DEF NewPlayer
<1> QED BY <1>1, <1>2, <1>3 DEF Calm, Made

\* The process ends
LEMMA OnceDie ==
    ASSUME PipeOK, AnswerOK, MemoryOK, NEW s \in Server, OnceHere(s), Die(s), UNCHANGED mailbox,
           posted \subseteq posted'
    PROVE  OnceHere(s)'
<1>1. /\ answer'[s] = <<>> /\ pipe'[s] = <<>> /\ bcast'[s] = <<>> /\ ~ alive'[s]
      /\ UNCHANGED player
  BY DEF Die, PipeOK, AnswerOK, MemoryOK
<1>2. Line(s)' = <<>>
  BY <1>1 DEF Line
<1>3. Calm
  BY <1>1, CalmSame
<1>4. \A u \in Uid : InOrder(Line(s), u)'
  BY <1>2, InOrderNothing
<1>5. ASSUME NEW m \in Message, m.type = "private" PROVE Owned(s, m)'
  <2>1. Owned(s, m)
    BY <1>5 DEF OnceHere
  <2>2. \A h \in Handle : OnceAt(h, m)' /\ (Got(h, m)' => Got(h, m))
    BY <1>3, <2>1, CalmKeeps DEF Owned
  <2>3. One(mailbox'[m.receiver], {m}) /\ (Has(mailbox'[m.receiver], {m}) => OnList(m))
    BY <2>1 DEF Owned, OnList
  <2> QED BY <1>1, <1>2, <2>1, <2>2, <2>3, InNothing, OwnedKept
<1>6. ASSUME NEW m \in Message, m.type # "private" PROVE Announced(s, m)'
  <2>1. Announced(s, m)
    BY <1>6 DEF OnceHere
  <2> QED BY <1>1, <1>3, <2>1, AnnouncedCalm
<1> QED BY <1>4, <1>5, <1>6 DEF OnceHere

\* A request issues commands that are about no message.
LEMMA OnceIssue ==
    ASSUME PipeOK, AnswerOK, NEW s \in Server, OnceHere(s), NEW cmds \in Seq(Command), Issue(s, cmds),
           UNCHANGED <<alive, answer, mailbox, bcast, posted>>, Calm,
           \A m \in Message : ~ Has(cmds, Held(m)),
           \A u \in Uid : InOrder(Line(s) \o cmds, u)
    PROVE  OnceHere(s)'
<1>1. Line(s)' = Line(s) \o cmds
  <2>1. pipe'[s] = pipe[s] \o cmds
    BY DEF PipeOK, Issue
  <2> QED BY <2>1, Lines DEF Line
<1>2. ASSUME NEW m \in Message, m.type = "private" PROVE Owned(s, m)'
  <2>1. Owned(s, m)
    BY <1>2 DEF OnceHere
  <2>2. \A h \in Handle : OnceAt(h, m)' /\ (Got(h, m)' => Got(h, m))
    BY <2>1, CalmKeeps DEF Owned
  <2> QED BY <2>1, <2>2, OwnedIssue
<1>3. ASSUME NEW m \in Message, m.type # "private" PROVE Announced(s, m)'
  <2>1. Announced(s, m)
    BY <1>3 DEF OnceHere
  <2> QED BY <2>1, AnnouncedCalm
<1> QED BY <1>1, <1>2, <1>3 DEF OnceHere

\* A step that issues nothing
LEMMA OnceCalm ==
    ASSUME PipeOK, AnswerOK, NEW s \in Server, OnceHere(s),
           UNCHANGED <<alive, answer, pipe, mailbox, bcast, posted>>, Calm
    PROVE  OnceHere(s)'
<1>1. <<>> \in Seq(Command) /\ Issue(s, <<>>)
  BY DEF Issue, PipeOK
<1>2. Line(s) \o <<>> = Line(s)
  <2>1. Line(s) \in Seq(Item)
    BY Lines
  <2> QED BY <2>1
<1> QED BY <1>1, <1>2, InNothing, OnceIssue DEF OnceHere

\* The callback of an answer; a message it is about is that of its command.
LEMMA OnceTake ==
    ASSUME PipeOK, AnswerOK, NEW s \in Server, OnceHere(s), NEW cmds \in Seq(Command), Issue(s, cmds),
           answer[s] # <<>>, answer' = [answer EXCEPT ![s] = Tail(@)],
           UNCHANGED <<alive, mailbox, bcast, posted>>, Calm,
           \A m \in Message : /\ One(cmds, Held(m))
                              /\ Has(cmds, Held(m)) => Head(answer[s]) \in Held(m)
                              /\ Head(answer[s]) \in Read(m.receiver) => Has(cmds, Del(m.receiver)),
           \A u \in Uid : InOrder(Tail(Line(s)) \o cmds, u)
    PROVE  OnceHere(s)'
<1>1. Line(s)' = Tail(Line(s)) \o cmds
  <2>1. pipe'[s] = pipe[s] \o cmds /\ answer'[s] = Tail(answer[s])
    BY DEF PipeOK, AnswerOK, Issue
  <2> QED BY <2>1, Lines DEF Line
<1>2. ASSUME NEW m \in Message, m.type = "private" PROVE Owned(s, m)'
  <2>1. Owned(s, m)
    BY <1>2 DEF OnceHere
  <2>2. \A h \in Handle : OnceAt(h, m)' /\ (Got(h, m)' => Got(h, m))
    BY <2>1, CalmKeeps DEF Owned
  <2> QED BY <2>1, <2>2, OwnedTake
<1>3. ASSUME NEW m \in Message, m.type # "private" PROVE Announced(s, m)'
  <2>1. Announced(s, m)
    BY <1>3 DEF OnceHere
  <2> QED BY <2>1, AnnouncedCalm
<1> QED BY <1>1, <1>2, <1>3 DEF OnceHere

LEMMA OnceLogout ==
    ASSUME IInv, NEW s \in Server, OnceHere(s), NEW u \in Uid, LobbyLogout(s, u), UNCHANGED <<mailbox, posted>>
    PROVE  OnceHere(s)'
<1> USE DEF IInv
<1>1. CASE Die(s)
  BY <1>1, OnceDie
<1>2. CASE IsPlayer(s, u) /\ ~ Die(s)
  <2>1. player[local[s][u]].black \in SUBSET Uid
    BY <1>2 DEF MemoryOK, IsPlayer, SlotsAddressed, Made, Player
  <2>2. PICK cmds \in LogoutCommands(u, player[local[s][u]].black) : Issue(s, cmds)
    BY <1>2 DEF LobbyLogout
  <2>3. UNCHANGED <<alive, answer, bcast, player>>
    BY <1>2 DEF LobbyLogout
  <2>4. /\ cmds \in Seq(Command)
        /\ \A v : InOrder(cmds, v) /\ ~ Has(cmds, Login(v)) /\ ~ Has(cmds, Read(v)) /\ ~ Has(cmds, Del(v))
        /\ \A m : ~ Has(cmds, Held(m))
    BY <2>1, <2>2, AwayIssued
  <2>5. \A v \in Uid : InOrder(Line(s) \o cmds, v)
    <3>1. Line(s) \in Seq(Item) /\ cmds \in Seq(Item)
      BY <2>4, Lines
    <3> QED BY <2>4, <3>1, LineGrows DEF OnceHere
  <2> QED BY <2>2, <2>3, <2>4, <2>5, CalmSame, OnceIssue
<1> QED BY <1>1, <1>2 DEF LobbyLogout

\* One login of an account at a time: none is under way.
LEMMA OnceLoginRequest ==
    ASSUME IInv, ~ Overlap, NEW c \in Conn, OnceHere(ServerOf[c]), NEW u \in Uid, LoginRequest(c, u)
    PROVE  OnceHere(ServerOf[c])'
<1> USE DEF IInv
<1> DEFINE s == ServerOf[c]
           cmds == <<[op |-> "login", conn |-> c, uid |-> u]>>
<1>1. s \in Server
  BY ServerAssumption
<1>2. Issue(s, cmds) /\ UNCHANGED <<alive, answer, mailbox, bcast, posted, player>> /\ ~ Engaged(u)
  BY DEF LoginRequest, memory, redis
<1> HIDE DEF s, cmds
<1>3. /\ cmds \in Seq(Command)
      /\ \A v : /\ InOrder(cmds, v) /\ (Has(cmds, Login(v)) => v = u)
                /\ ~ Has(cmds, Read(v)) /\ ~ Has(cmds, Del(v))
      /\ \A m : ~ Has(cmds, Held(m))
  BY LoginIssued DEF cmds
<1>4. ~ Has(Line(s), Login(u))
  <2>1. ~ Has(answer[s], Login(u)) /\ ~ Has(pipe[s], Login(u))
    BY <1>1, <1>2 DEF Item, Engaged, Has, Login
  <2>2. answer[s] \in Seq(Item) /\ pipe[s] \in Seq(Item)
    BY <1>1, Lines
  <2> QED BY <2>1, <2>2, InBoth DEF Line
<1>5. \A v \in Uid : InOrder(Line(s) \o cmds, v)
  <2>1. Line(s) \in Seq(Item) /\ cmds \in Seq(Item)
    BY <1>1, <1>3, Lines
  <2> QED BY <1>3, <1>4, <2>1, LineGrows DEF OnceHere, s
<1> QED BY <1>1, <1>2, <1>3, <1>5, CalmSame, OnceIssue DEF s

\* LobbyLogin reads the list of a user of whom no list is being read.
LEMMA OnceLoginAnswer ==
    ASSUME IInv, NEW s \in Server, OnceHere(s), LoginAnswer(s)
    PROVE  OnceHere(s)'
<1> USE DEF IInv
<1> DEFINE a == Head(answer[s])
<1>1. /\ answer[s] # <<>> /\ a.op = "login" /\ a \in Answer /\ a.uid \in Uid
      /\ UNCHANGED <<mailbox, posted>>
  BY TakeAnswer, AnswerFields DEF LoginAnswer, redis, env
<1> HIDE DEF a
<1>2. a \in Login(a.uid) /\ \A v : a \notin Read(v)
  BY <1>1 DEF Item, Login, Read
<1>3. /\ Line(s) \in Seq(Item) /\ Line(s) # <<>> /\ Head(Line(s)) = a
      /\ \A v \in Uid : InOrder(Tail(Line(s)), v)
      /\ ~ Has(Tail(Line(s)), Login(a.uid)) /\ ~ Has(Tail(Line(s)), Read(a.uid))
      /\ Tail(Line(s)) \in Seq(Item)
  <2>1. Line(s) \in Seq(Item) /\ Line(s) # <<>> /\ Head(Line(s)) = a
    BY <1>1, Lines DEF a
  <2>2. Tail(Line(s)) \in Seq(Item)
    BY <2>1
  <2> QED BY <1>1, <1>2, <2>1, <2>2, LineTaken DEF OnceHere
<1>4. CASE Die(s)
  BY <1>1, <1>4, OnceDie
<1>5. CASE answer' = [answer EXCEPT ![s] = Tail(@)] /\ UNCHANGED <<alive, memory, pipe>>
  <2>1. <<>> \in Seq(Command) /\ Issue(s, <<>>)
    BY <1>5 DEF Issue, PipeOK
  <2>2. Tail(Line(s)) \o <<>> = Tail(Line(s))
    BY <1>3
  <2>3. Calm /\ UNCHANGED <<alive, bcast>>
    BY <1>5, CalmSame DEF memory
  <2> QED BY <1>1, <1>2, <1>3, <1>5, <2>1, <2>2, <2>3, InNothing, OnceTake DEF a
<1>6. ASSUME NEW c, LobbyLogin(s, a.uid, c), answer' = [answer EXCEPT ![s] = Tail(@)]
      PROVE  OnceHere(s)'
  <2> DEFINE cmds == LoginCommands(a.uid)
  <2>1. /\ cmds \in Seq(Command)
        /\ \A v : /\ InOrder(cmds, v) /\ (Has(cmds, Read(v)) => v = a.uid)
                  /\ ~ Has(cmds, Login(v)) /\ ~ Has(cmds, Del(v))
        /\ \A m : ~ Has(cmds, Held(m))
    BY <1>1, SetIssued
  <2>2. Issue(s, cmds) /\ UNCHANGED <<alive, bcast>>
    BY <1>6 DEF LobbyLogin
  <2>3. Calm
    BY <1>1, <1>6, CalmSame, CalmInsert DEF LobbyLogin
  <2> HIDE DEF cmds
  <2>4. \A v \in Uid : InOrder(Tail(Line(s)) \o cmds, v)
    <3>1. cmds \in Seq(Item)
      BY <2>1, Lines
    <3> QED BY <1>3, <2>1, <3>1, LineGrows
  <2>5. \A m \in Message : One(cmds, Held(m))
    BY <2>1 DEF One, Has
  <2> QED BY <1>1, <1>2, <1>6, <2>1, <2>2, <2>3, <2>4, <2>5, OnceTake DEF a
<1> QED BY <1>4, <1>5, <1>6 DEF LoginAnswer, LoginThrough, a

LEMMA OnceBlackAnswer ==
    ASSUME IInv, NEW s \in Server, OnceHere(s), BlackAnswer(s)
    PROVE  OnceHere(s)'
<1> USE DEF IInv
<1> DEFINE a == Head(answer[s])
<1>1. /\ answer[s] # <<>> /\ a.op = "lrangeBlack" /\ a \in Answer /\ a.uid \in Uid
      /\ UNCHANGED <<mailbox, posted>>
  BY TakeAnswer, AnswerFields DEF BlackAnswer, redis, env
<1>2. CASE Die(s)
  BY <1>1, <1>2, OnceDie
<1>3. CASE ~ Die(s)
  <2>1. answer' = [answer EXCEPT ![s] = Tail(@)] /\ UNCHANGED <<alive, pipe, bcast>>
    BY <1>3 DEF BlackAnswer
  <2>2. Calm
    <3>1. CASE IsPlayer(s, a.uid)
      <4>1. local[s][a.uid] \in Handle /\ Made(local[s][a.uid])
        BY <1>1, <3>1 DEF MemoryOK, SlotsAddressed, IsPlayer
      <4> QED BY <1>3, <3>1, <4>1, CalmBlack DEF BlackAnswer
    <3>2. CASE ~ IsPlayer(s, a.uid)
      BY <1>3, <3>2, CalmSame DEF BlackAnswer
    <3> QED BY <3>1, <3>2
  <2>3. <<>> \in Seq(Command) /\ Issue(s, <<>>)
    BY <2>1 DEF Issue, PipeOK
  <2> HIDE DEF a
  <2>4. \A v : a \notin Read(v)
    BY <1>1 DEF Item, Read
  <2>5. Tail(Line(s)) \o <<>> = Tail(Line(s)) /\ \A v \in Uid : InOrder(Tail(Line(s)), v)
    <3>1. Line(s) \in Seq(Item) /\ Line(s) # <<>>
      BY <1>1, Lines
    <3>2. Tail(Line(s)) \in Seq(Item)
      BY <3>1
    <3> QED BY <3>1, <3>2, LineTaken DEF OnceHere
  <2> QED BY <1>1, <2>1, <2>2, <2>3, <2>4, <2>5, InNothing, OnceTake DEF a
<1> QED BY <1>2, <1>3

\* GET's answer either stores the message or drops it: with one server there
\* is no other to forward it to.
LEMMA OnceOnlineAnswer ==
    ASSUME IInv, NEW s0, Server = {s0}, OnceHere(s0), OnlineAnswer(s0)
    PROVE  OnceHere(s0)'
<1> USE DEF IInv
<1> DEFINE a == Head(answer[s0])
<1>0. Peer[s0] = {}
  BY ServerAssumption
<1>1. /\ answer[s0] # <<>> /\ a.op = "getOnline" /\ a \in Answer /\ a.msg \in Message
      /\ UNCHANGED <<mailbox, posted>>
  BY TakeAnswer, AnswerFields DEF OnlineAnswer, redis, env
<1>2. \E cmds : /\ Issue(s0, cmds)
                /\ cmds = <<>> \/ cmds = <<[op |-> "rpushMsg", msg |-> a.msg]>>
                /\ answer' = [answer EXCEPT ![s0] = Tail(@)] /\ UNCHANGED <<alive, bcast, player>>
  <2>1. UNCHANGED pipe => Issue(s0, <<>>)
    BY DEF Issue, PipeOK
  <2> QED BY <1>0, <2>1 DEF OnlineAnswer, memory
<1>3. PICK cmds : /\ Issue(s0, cmds)
                  /\ cmds = <<>> \/ cmds = <<[op |-> "rpushMsg", msg |-> a.msg]>>
                  /\ answer' = [answer EXCEPT ![s0] = Tail(@)] /\ UNCHANGED <<alive, bcast, player>>
  BY <1>2
<1> HIDE DEF a
<1>4. a \in Held(a.msg) /\ \A v : a \notin Read(v)
  BY <1>1 DEF Item, Held, Read
<1>5. /\ cmds \in Seq(Command)
      /\ \A v : InOrder(cmds, v) /\ ~ Has(cmds, Login(v)) /\ ~ Has(cmds, Read(v)) /\ ~ Has(cmds, Del(v))
      /\ \A m : (Has(cmds, Held(m)) => m = a.msg) /\ One(cmds, Held(m))
  <2>1. CASE cmds = <<>>
    <3>1. cmds \in Seq(Command)
      BY <2>1
    <3> QED BY <2>1, <3>1, InNothing, InOrderNothing
  <2>2. CASE cmds = <<[op |-> "rpushMsg", msg |-> a.msg]>>
    BY <1>1, <2>2, HoldIssued
  <2> QED BY <1>3, <2>1, <2>2
<1>6. \A v \in Uid : InOrder(Tail(Line(s0)) \o cmds, v)
  <2>1. Line(s0) \in Seq(Item) /\ Line(s0) # <<>> /\ cmds \in Seq(Item)
    BY <1>1, <1>5, Lines
  <2>2. Tail(Line(s0)) \in Seq(Item)
    BY <2>1
  <2>3. \A v \in Uid : InOrder(Tail(Line(s0)), v)
    BY <2>1, LineTaken DEF OnceHere
  <2> QED BY <1>5, <2>1, <2>2, <2>3, LineGrows
<1> QED BY <1>1, <1>3, <1>4, <1>5, <1>6, CalmSame, OnceTake DEF a

-----------------------------------------------------------------------------
(* The steps that move a message                                           *)

\* newMessage for a whole list queues no message twice, and leaves out only
\* those of black-listed senders.
LEMMA AcceptedOnce ==
    ASSUME NEW M, NEW queue \in Seq(M), NEW list \in Seq(M), NEW B, NEW m
    PROVE  /\ Has(Accepted(queue, list, B), {m})
                  <=> Has(queue, {m}) \/ (Has(list, {m}) /\ ~ isInBlackList(B, m))
           /\ One(queue, {m}) /\ One(list, {m}) /\ ~ (Has(queue, {m}) /\ Has(list, {m}))
                  => One(Accepted(queue, list, B), {m})
<1>0. PICK f : Steps(f, queue, list, B)
  BY AcceptedSteps
<1>1. /\ Accepted(queue, list, B) = f[Len(list)]
      /\ f[0] = queue
      /\ \A i \in 1..Len(list) :
            f[i] = IF isInBlackList(B, list[i]) THEN f[i-1] ELSE Append(f[i-1], list[i])
  BY <1>0 DEF Steps
<1> DEFINE n == Len(list)
           Alone == One(queue, {m}) /\ One(list, {m}) /\ ~ (Has(queue, {m}) /\ Has(list, {m}))
           Came(i) == \E j \in 1..i : list[j] = m /\ ~ isInBlackList(B, m)
           Fine(i) == /\ f[i] \in Seq(M)
                      /\ Has(f[i], {m}) <=> Has(queue, {m}) \/ Came(i)
                      /\ Alone => One(f[i], {m})
           Wrong == {i \in 0..n : ~ Fine(i)}
<1>2. n \in Nat /\ DOMAIN list = 1..n /\ \A i \in 1..n : list[i] \in M
  OBVIOUS
<1> HIDE DEF n
<1>3. Wrong = {}
  <2>1. SUFFICES ASSUME Wrong # {} PROVE FALSE
    OBVIOUS
  <2>2. Wrong \in SUBSET Nat
    BY <1>2
  <2>3. PICK k \in Wrong : \A j \in Wrong : k <= j
    <3> HIDE DEF Wrong
    <3> QED BY <2>1, <2>2, Least
  <2>4. CASE k = 0
    BY <1>1, <2>3, <2>4
  <2>5. CASE k # 0
    <3>1. k \in 1..n /\ k - 1 \in 0..n /\ k - 1 \notin Wrong
      <4>1. k \in 0..n
        BY <2>3
      <4> HIDE DEF Wrong
      <4> QED BY <1>2, <2>2, <2>3, <2>5, <4>1
    <3>2. Fine(k - 1)
      BY <3>1
    <3>3. Came(k) <=> Came(k - 1) \/ (list[k] = m /\ ~ isInBlackList(B, m))
      <4>1. 1..k = 1..(k - 1) \cup {k}
        BY <3>1, <1>2
      <4> QED BY <4>1
    <3>4. CASE isInBlackList(B, list[k])
      <4>1. f[k] = f[k - 1]
        BY <1>1, <3>1, <3>4 DEF n
      <4> HIDE DEF Came, Alone
      <4>2. Came(k) <=> Came(k - 1)
        BY <3>3, <3>4
      <4> QED BY <2>3, <3>2, <4>1, <4>2
    <3>5. CASE ~ isInBlackList(B, list[k])
      <4> DEFINE e == list[k]
                 g == f[k - 1]
      <4>1. f[k] = Append(g, e) /\ e \in M /\ g \in Seq(M)
        BY <1>1, <1>2, <3>1, <3>2, <3>5 DEF n
      <4>2. Alone /\ e = m => ~ Has(queue, {m}) /\ ~ Came(k - 1)
        <5>1. e = m => Has(list, {m})
          BY <1>2, <3>1 DEF Has
        <5>2. ASSUME Alone, e = m, NEW j \in 1..(k - 1), list[j] = m PROVE FALSE
          <6>1. j \in 1..n /\ j # k
            BY <1>2, <3>1
          <6> QED BY <1>2, <3>1, <5>2, <6>1 DEF One
        <5> QED BY <5>1, <5>2
      <4> HIDE DEF Alone, Came, e, g
      <4>3. Append(g, e) \in Seq(M)
        BY <4>1, InAppend
      <4>4. /\ Has(Append(g, e), {m}) <=> Has(g, {m}) \/ e = m
            /\ One(Append(g, e), {m}) <=> One(g, {m}) /\ ~ (Has(g, {m}) /\ e = m)
        BY <4>1, InAppend
      <4>5. f[k] \in Seq(M) /\ f[k] = Append(g, e)
        BY <4>1, <4>3
      <4>6. Came(k) <=> Came(k - 1) \/ e = m
        BY <3>3, <3>5 DEF e
      <4> QED BY <2>3, <3>2, <4>2, <4>4, <4>5, <4>6 DEF g
    <3> QED BY <3>4, <3>5
  <2> QED BY <2>4, <2>5
<1>4. Fine(n)
  <2>1. n \in 0..n
    BY <1>2
  <2> HIDE DEF Fine
  <2> QED BY <1>3, <2>1
<1>5. Came(n) <=> Has(list, {m}) /\ ~ isInBlackList(B, m)
  BY <1>2 DEF Has
<1> HIDE DEF Came
<1> QED BY <1>1, <1>4, <1>5 DEF n

LEMMA Enqueued ==
    ASSUME MemoryOK, NEW s \in Server, NEW h \in Handle, Made(h), NEW list \in Seq(Message),
           Enqueue(s, h, list), NEW m \in Message
    PROVE  /\ \A g \in Handle : /\ Made(g)' <=> Made(g)
                                /\ player'[g].sent[m] = player[g].sent[m]
                                /\ g # h => player'[g] = player[g]
           /\ Has(player'[h].queue, {m})
                  <=> Has(player[h].queue, {m}) \/ (Has(list, {m}) /\ ~ isInBlackList(player[h].black, m))
           /\ One(player[h].queue, {m}) /\ One(list, {m}) /\ ~ (Has(player[h].queue, {m}) /\ Has(list, {m}))
                  => One(player'[h].queue, {m})
<1> DEFINE q == Accepted(player[h].queue, list, player[h].black)
<1>1. player[h] \in Player /\ player[h].queue \in Seq(Message)
  BY DEF MemoryOK, Made, Player
<1>2. player' = [player EXCEPT ![h].queue = q]
  BY DEF Enqueue
<1> HIDE DEF q
<1>3. /\ player'[h].queue = q /\ player'[h].sent = player[h].sent
      /\ \A g \in Handle : g # h => player'[g] = player[g]
  BY <1>1, <1>2 DEF MemoryOK, Player
<1>4. q \in Seq(Message)
  BY <1>1, AcceptedType DEF q
<1>5. player'[h] \in Player
  BY <1>1, <1>2, <1>4 DEF MemoryOK, Player
<1>6. Made(h)'
  BY <1>5, NullAssumption DEF Made
<1>7. /\ Has(q, {m}) <=> Has(player[h].queue, {m}) \/ (Has(list, {m}) /\ ~ isInBlackList(player[h].black, m))
      /\ One(player[h].queue, {m}) /\ One(list, {m}) /\ ~ (Has(player[h].queue, {m}) /\ Has(list, {m}))
             => One(q, {m})
  BY <1>1, AcceptedOnce DEF q
<1>8. \A g \in Handle : /\ Made(g)' <=> Made(g)
                        /\ player'[g].sent[m] = player[g].sent[m]
  BY <1>3, <1>6 DEF Made
<1> QED BY <1>3, <1>7, <1>8

LEMMA CarryIsRead ==
    ASSUME AnswerOK, NEW s \in Server, NEW m \in Message, NEW i \in DOMAIN answer[s], answer[s][i] \in Carry(m)
    PROVE  answer[s][i] \in Read(m.receiver)
<1>1. answer[s][i] \in Elements(answer[s]) /\ answer[s][i] \in Answer
  BY DEF AnswerOK, Elements
<1>2. answer[s][i].op = "lrangeMsg" /\ m \in Elements(answer[s][i].list)
  BY DEF Carry, Has, Elements
<1>3. answer[s][i].uid = m.receiver
  BY <1>1, <1>2 DEF AnswerOK, AnswersAddressed
<1> QED BY <1>1, <1>2, <1>3 DEF Item, Read

\* Behind the list that is read, no answer carries a list of the same user.
LEMMA CarriedOnce ==
    ASSUME AnswerOK, PipeOK, NEW s \in Server, OnceHere(s), answer[s] # <<>>, NEW m \in Message,
           m.receiver \in Uid, Head(answer[s]) \in Read(m.receiver)
    PROVE  ~ Has(Tail(answer[s]), Carry(m))
<1> DEFINE a == answer[s]
           t == Tail(a)
<1>1. /\ a \in Seq(Item) /\ Line(s) \in Seq(Item) /\ Line(s) # <<>>
      /\ Head(Line(s)) = Head(a) /\ t \o pipe[s] = Tail(Line(s))
      /\ t \in Seq(Item) /\ pipe[s] \in Seq(Item)
  BY Lines
<1>2. ~ Has(t \o pipe[s], Read(m.receiver))
  BY <1>1, LineTaken DEF OnceHere
<1>3. ~ Has(t, Read(m.receiver))
  <2> HIDE DEF t
  <2> QED BY <1>1, <1>2, InBoth
<1>4. \A i \in DOMAIN t : i + 1 \in DOMAIN a /\ t[i] = a[i + 1]
  <2>1. a \in Seq(Answer)
    BY DEF AnswerOK
  <2> QED BY <2>1
<1> HIDE DEF t
<1>5. SUFFICES ASSUME NEW i \in DOMAIN t, t[i] \in Carry(m) PROVE FALSE
  BY DEF Has, t
<1>6. i + 1 \in DOMAIN answer[s] /\ answer[s][i + 1] \in Carry(m) /\ t[i] = answer[s][i + 1]
  BY <1>4, <1>5
<1>7. t[i] \in Read(m.receiver)
  BY <1>6, CarryIsRead
<1> QED BY <1>3, <1>5, <1>7 DEF Has

\* Lobby::handleOfflineMessage queues what was read, and deletes the list.
LEMMA OnceOfflineAnswer ==
    ASSUME IInv, NEW s \in Server, OnceHere(s), OfflineAnswer(s)
    PROVE  OnceHere(s)'
<1> USE DEF IInv
<1> DEFINE a == Head(answer[s])
           u == a.uid
           h == local[s][u]
           cmds == Emptied(u)
<1>1. /\ answer[s] # <<>> /\ a.op = "lrangeMsg" /\ a \in Answer /\ u \in Uid /\ a.list \in Seq(Message)
      /\ a \in Elements(answer[s]) /\ UNCHANGED <<mailbox, posted>>
  BY TakeAnswer, AnswerFields DEF OfflineAnswer, redis, env
<1>2. CASE Die(s)
  BY <1>1, <1>2, OnceDie
<1>3. ASSUME ~ Die(s)
      PROVE  /\ IsPlayer(s, u) \/ a.list = <<>>
             /\ answer' = [answer EXCEPT ![s] = Tail(@)] /\ Issue(s, cmds)
             /\ UNCHANGED <<alive, bcast>>
             /\ IsPlayer(s, u) => Enqueue(s, h, a.list)
             /\ ~ IsPlayer(s, u) => UNCHANGED player
  BY <1>3 DEF OfflineAnswer
<1> HIDE DEF a
<1>4. a \in Read(u) /\ \A v : a \in Read(v) => v = u
  BY <1>1 DEF Item, Read
<1>5. /\ cmds \in Seq(Command)
      /\ \A v : /\ InOrder(cmds, v) /\ (Has(cmds, Del(v)) <=> v = u)
                /\ ~ Has(cmds, Login(v)) /\ ~ Has(cmds, Read(v))
      /\ \A m : ~ Has(cmds, Held(m)) /\ One(cmds, Held(m))
  <2>1. \A m : ~ Has(cmds, Held(m)) => One(cmds, Held(m))
    BY DEF Has, One
  <2> QED BY <1>1, <2>1, DelIssued
<1> HIDE DEF u, h, cmds
<1>6. \A v \in Uid : InOrder(Tail(Line(s)) \o cmds, v)
  <2>1. /\ Line(s) \in Seq(Item) /\ Line(s) # <<>> /\ Head(Line(s)) = a
        /\ cmds \in Seq(Item)
    BY <1>1, <1>5, Lines DEF a
  <2>2. Tail(Line(s)) \in Seq(Item)
    BY <2>1
  <2>3. /\ \A v \in Uid : InOrder(Tail(Line(s)), v)
        /\ ~ Has(Tail(Line(s)), Read(u))
    BY <1>1, <1>4, <2>1, LineTaken DEF OnceHere
  <2> QED BY <1>5, <2>1, <2>2, <2>3, LineGrows
<1>7. CASE ~ Die(s) /\ ~ IsPlayer(s, u)
  BY <1>1, <1>3, <1>4, <1>5, <1>6, <1>7, CalmSame, OnceTake DEF a
<1>8. CASE ~ Die(s) /\ IsPlayer(s, u)
  <2>1. h \in Handle /\ Made(h) /\ player[h].uid = u
    BY <1>1, <1>8 DEF MemoryOK, SlotsAddressed, IsPlayer, h
  <2>2. ASSUME NEW m \in Message
        PROVE  /\ \A g \in Handle : /\ Made(g)' <=> Made(g)
                                    /\ player'[g].sent[m] = player[g].sent[m]
                                    /\ g # h => player'[g] = player[g]
               /\ Has(player'[h].queue, {m}) => Has(player[h].queue, {m}) \/ Has(a.list, {m})
               /\ One(player[h].queue, {m}) /\ One(a.list, {m}) /\ ~ (Has(player[h].queue, {m}) /\ Has(a.list, {m}))
                      => One(player'[h].queue, {m})
    BY <1>1, <1>3, <1>8, <2>1, Enqueued
  <2>3. ASSUME NEW m \in Message, m.type = "private" PROVE Owned(s, m)'
    <3>1. Owned(s, m) /\ m.receiver \in Uid
      BY <2>3, MessageFields DEF OnceHere
    <3>2. CASE ~ Has(a.list, {m})
      <4>1. \A g \in Handle : OnceAt(g, m)' /\ (Got(g, m)' => Got(g, m))
        <5>1. TAKE g \in Handle
        <5>2. OnceAt(g, m)
          BY <3>1 DEF Owned
        <5>3. One(a.list, {m})
          BY <3>2 DEF One, Has
        <5>4. CASE g # h
          BY <2>2, <5>2, <5>4 DEF OnceAt, Got
        <5>5. CASE g = h
          BY <2>1, <2>2, <3>2, <5>2, <5>3, <5>5 DEF OnceAt, Got
        <5> QED BY <5>4, <5>5
      <4> QED BY <1>1, <1>3, <1>4, <1>5, <1>8, <3>1, <4>1, OwnedTake DEF a
    <3>3. CASE Has(a.list, {m})
      <4>1. m.receiver = u
        <5>1. m \in Elements(a.list)
          BY <3>3 DEF Has, Elements
        <5> QED BY <1>1, <5>1 DEF AnswerOK, AnswersAddressed, u
      <4>2. a \in Carry(m)
        BY <1>1, <3>3 DEF Carry
      <4>3. \A K : /\ Has(answer[s], K) <=> a \in K \/ Has(Tail(answer[s]), K)
        <5>1. answer[s] \in Seq(Answer)
          BY DEF AnswerOK
        <5> QED BY <1>1, <5>1, InParts DEF a
      <4>4. Has(answer[s], Carry(m)) /\ One(a.list, {m}) /\ Out(s, m)
        BY <3>1, <4>2, <4>3 DEF Doubled, Owned, Out
      <4>5. \A g \in Handle : ~ Got(g, m) /\ OnceAt(g, m)
        BY <3>1, <4>4 DEF Owned
      <4>6. \A g \in Handle : OnceAt(g, m)' /\ (Got(g, m)' => g = h)
        <5>1. TAKE g \in Handle
        <5>2. CASE g # h
          BY <2>2, <4>5, <5>2 DEF OnceAt, Got
        <5>3. CASE g = h
          BY <2>1, <2>2, <4>4, <4>5, <5>3 DEF OnceAt, Got
        <5> QED BY <5>2, <5>3
      <4>7. answer'[s] = Tail(answer[s]) /\ pipe'[s] = pipe[s] \o cmds /\ Line(s)' = Tail(Line(s)) \o cmds
        <5>1. answer'[s] = Tail(answer[s]) /\ pipe'[s] = pipe[s] \o cmds
          BY <1>3, <1>8 DEF Issue, PipeOK, AnswerOK
        <5> QED BY <1>1, <1>5, <5>1, Lines DEF Line
      <4>8. ~ Has(answer'[s], Carry(m)) /\ ~ Has(answer'[s], Doubled(m))
        <5>1. ~ Has(Tail(answer[s]), Carry(m))
          BY <1>1, <1>4, <3>1, <4>1, CarriedOnce DEF a
        <5> QED BY <4>7, <5>1 DEF Has, Doubled
      <4>9. ~ Has(Line(s)', Held(m)) /\ One(Line(s)', Held(m))
        <5>1. ~ Has(Line(s), Held(m))
          BY <3>1, <4>4 DEF Owned, Unread
        <5>2. /\ Line(s) \in Seq(Item) /\ Line(s) # <<>> /\ cmds \in Seq(Item)
          BY <1>1, <1>5, Lines
        <5>3. Tail(Line(s)) \in Seq(Item)
          BY <5>2
        <5>4. ~ Has(Tail(Line(s)), Held(m))
          BY <5>1, <5>2, InParts
        <5>5. ~ Has(Tail(Line(s)) \o cmds, Held(m))
          BY <1>5, <5>2, <5>3, <5>4, InBoth
        <5>6. \A q : ~ Has(q, Held(m)) => One(q, Held(m))
          BY DEF Has, One
        <5> QED BY <4>7, <5>5, <5>6
      <4>10. Deleting(s, m.receiver)'
        <5>1. pipe[s] \in Seq(Command)
          BY DEF PipeOK
        <5>2. Has(pipe[s] \o cmds, Del(u))
          BY <1>5, <5>1, InBoth
        <5> QED BY <4>1, <4>7, <5>2 DEF Deleting
      <4>11. m \in posted' /\ One(mailbox'[m.receiver], {m})
        BY <1>1, <3>1, <4>4 DEF Owned
      <4> QED BY <4>6, <4>8, <4>9, <4>10, <4>11 DEF Owned, Unread
    <3> QED BY <3>2, <3>3
  <2>4. ASSUME NEW m \in Message, m.type # "private" PROVE Announced(s, m)'
    <3>1. Announced(s, m)
      BY <2>4 DEF OnceHere
    <3>2. \A g \in Handle : Made(g)' => player'[g].sent[m] = IF Made(g) THEN player[g].sent[m] ELSE 0
      BY <2>2
    <3>3. bcast'[s] = bcast[s] /\ UNCHANGED posted
      BY <1>1, <1>3, <1>8
    <3> QED BY <3>1, <3>2, <3>3, AnnouncedKept DEF Announced
  <2>5. \A v \in Uid : InOrder(Line(s), v)'
    <3>1. Line(s)' = Tail(Line(s)) \o cmds
      <4>1. answer'[s] = Tail(answer[s]) /\ pipe'[s] = pipe[s] \o cmds
        BY <1>3, <1>8 DEF Issue, PipeOK, AnswerOK
      <4> QED BY <1>1, <1>5, <4>1, Lines DEF Line
    <3> QED BY <1>6, <3>1
  <2> QED BY <2>3, <2>4, <2>5 DEF OnceHere
<1> QED BY <1>2, <1>7, <1>8

-----------------------------------------------------------------------------
(* The timer sends a message and takes it off where it was.                *)

LEMMA TimesOne ==
    ASSUME NEW q \in Seq(Message), NEW n \in 0..Len(q), NEW m
    PROVE  /\ One(q, {m}) => Times(m, q, n) <= 1
           /\ ~ Has(q, {m}) => Times(m, q, n) = 0
<1> DEFINE S == {i \in 1..n : q[i] = m}
<1>1. DOMAIN q = 1..Len(q) /\ n \in Nat /\ \A i \in 1..n : i \in 1..Len(q)
  OBVIOUS
<1>2. Times(m, q, n) \in Nat /\ (Times(m, q, n) > 0 => \E i \in 1..n : q[i] = m)
  BY <1>1, TimesNat
<1>3. ASSUME ~ Has(q, {m}) PROVE Times(m, q, n) = 0
  BY <1>1, <1>2, <1>3 DEF Has
<1>4. ASSUME One(q, {m}), NEW k \in S PROVE Times(m, q, n) = 1
  <2>1. S = {k}
    BY <1>1, <1>4 DEF One
  <2>2. Cardinality({k}) = 1
    BY FS_Singleton
  <2> QED BY <2>1, <2>2 DEF Times
<1> QED BY <1>2, <1>3, <1>4

LEMMA FlushedOnce ==
    ASSUME MemoryOK, NEW s \in Server, NEW h \in Handle, Made(h), NEW m \in Message
    PROVE  LET p == player[h]
               f == Flushed(s, h)
           IN  /\ Has(f.queue, {m}) => Has(p.queue, {m})
               /\ One(p.queue, {m}) => One(f.queue, {m})
               /\ ~ Has(p.queue, {m}) /\ ~ Has(bcast[s], {m}) => f.sent[m] = p.sent[m]
               /\ ~ Has(p.queue, {m}) /\ One(bcast[s], {m}) => f.sent[m] <= p.sent[m] + 1
               /\ One(p.queue, {m}) /\ ~ Has(bcast[s], {m})
                      => /\ f.sent[m] <= p.sent[m] + 1
                         /\ Has(f.queue, {m}) => f.sent[m] = p.sent[m]
<1> DEFINE p  == player[h]
           n  == IF h \in active[s] THEN Front(p.queue) ELSE 0
           b  == IF h \in Hearers(s) THEN Len(bcast[s]) ELSE 0
           up == cstate[p.conn] = "up"
           queue == SubSeq(p.queue, n + 1, Len(p.queue))
           new(k) == p.sent[k] + Times(k, p.queue, n) + Times(k, bcast[s], b)
           sent == [k \in Message |-> IF up /\ k.sender \notin p.black THEN new(k) ELSE p.sent[k]]
<1>1. p \in Player /\ p.queue \in Seq(Message) /\ p.sent \in [Message -> Nat] /\ bcast[s] \in Seq(Message)
  BY DEF MemoryOK, Made, Player
<1>2. n \in 0..Len(p.queue) /\ b \in 0..Len(bcast[s]) /\ n \in Nat /\ b \in Nat
  BY <1>1, FrontNat
<1>3. Flushed(s, h) = [p EXCEPT !.queue = queue, !.sent = sent]
  BY <1>1 DEF Flushed, isInBlackList
<1> HIDE DEF n, b, up
<1>4. /\ DOMAIN p.queue = 1..Len(p.queue) /\ Len(p.queue) \in Nat
      /\ \A i \in DOMAIN queue : i \in Nat /\ i > 0 /\ queue[i] = p.queue[n + i] /\ n + i \in DOMAIN p.queue
  <2>1. \A k \in Nat, q \in Seq(Message) : k <= Len(q) =>
            \A i \in DOMAIN SubSeq(q, k + 1, Len(q)) :
                   i \in Nat /\ i > 0 /\ SubSeq(q, k + 1, Len(q))[i] = q[k + i] /\ k + i \in DOMAIN q
    OBVIOUS
  <2> QED BY <1>1, <1>2, <2>1
<1>5. /\ p.sent[m] \in Nat /\ Times(m, p.queue, n) \in Nat /\ Times(m, bcast[s], b) \in Nat
      /\ sent[m] = new(m) \/ sent[m] = p.sent[m]
      /\ Times(m, p.queue, n) > 0 => \E i \in 1..n : p.queue[i] = m
  BY <1>1, <1>2, TimesNat
<1>6. /\ One(p.queue, {m}) => Times(m, p.queue, n) <= 1
      /\ ~ Has(p.queue, {m}) => Times(m, p.queue, n) = 0
      /\ One(bcast[s], {m}) => Times(m, bcast[s], b) <= 1
      /\ ~ Has(bcast[s], {m}) => Times(m, bcast[s], b) = 0
  BY <1>1, <1>2, TimesOne
<1> HIDE DEF queue
<1>7. Has(queue, {m}) => Has(p.queue, {m})
  BY <1>4 DEF Has
<1>8. One(p.queue, {m}) => One(queue, {m})
  <2>1. SUFFICES ASSUME One(p.queue, {m}), NEW i \in DOMAIN queue, NEW j \in DOMAIN queue,
                        queue[i] = m, queue[j] = m
                 PROVE  i = j
    BY DEF One
  <2>2. n + i = n + j
    BY <1>4, <2>1 DEF One
  <2> QED BY <1>2, <1>4, <2>2
<1>9. ASSUME One(p.queue, {m}), Has(queue, {m}) PROVE Times(m, p.queue, n) = 0
  <2>1. PICK i \in DOMAIN queue : queue[i] = m
    BY <1>9 DEF Has
  <2>2. SUFFICES ASSUME NEW k \in 1..n, p.queue[k] = m PROVE FALSE
    BY <1>5
  <2>3. k \in DOMAIN p.queue
    BY <1>2, <1>4
  <2>4. n + i = k
    BY <1>4, <1>9, <2>1, <2>2, <2>3 DEF One
  <2> QED BY <1>2, <1>4, <2>1, <2>4
<1>10. /\ ~ Has(p.queue, {m}) /\ ~ Has(bcast[s], {m}) => sent[m] = p.sent[m]
       /\ ~ Has(p.queue, {m}) /\ One(bcast[s], {m}) => sent[m] <= p.sent[m] + 1
       /\ One(p.queue, {m}) /\ ~ Has(bcast[s], {m})
              => /\ sent[m] <= p.sent[m] + 1
                 /\ Has(queue, {m}) => sent[m] = p.sent[m]
  BY <1>5, <1>6, <1>9
<1> HIDE DEF sent
<1>11. Flushed(s, h).queue = queue /\ Flushed(s, h).sent = sent
  BY <1>1, <1>3 DEF Player
<1> QED BY <1>7, <1>8, <1>10, <1>11

LEMMA OnceTick ==
    ASSUME IInv, NEW s0, Server = {s0}, OnceHere(s0), Tick(s0),
           \A m \in Message : m.type # "private" => m.receiver = Nobody
    PROVE  OnceHere(s0)'
<1> USE DEF IInv
<1>0. UNCHANGED <<mailbox, posted>>
  BY DEF Tick, redis, env
<1>1. CASE Die(s0)
  BY <1>0, <1>1, OnceDie
<1>2. CASE /\ player' = [h \in Handle |-> IF h \in active[s0] \cup Hearers(s0)
                                         THEN Flushed(s0, h) ELSE player[h]]
           /\ bcast' = [bcast EXCEPT ![s0] = <<>>]
           /\ UNCHANGED <<alive, local, pipe, answer>>
  <2>1. \A h \in active[s0] \cup Hearers(s0) : h \in Handle /\ Made(h)
    BY DEF MemoryOK, Hearers, SlotsAddressed, IsPlayer
  <2>2. \A h \in Handle : /\ Made(h)' <=> Made(h)
                          /\ player'[h] = player[h] \/ (Made(h) /\ player'[h] = Flushed(s0, h))
    <3>1. TAKE h \in Handle
    <3>2. Made(h) => Flushed(s0, h) \in Player
      BY FlushedType
    <3> QED BY <1>2, <2>1, <3>2, NullAssumption DEF Made
  <2>3. bcast'[s0] = <<>>
    BY <1>2 DEF MemoryOK
  <2>4. Line(s0)' = Line(s0)
    BY <1>2 DEF Line
  <2>5. ASSUME NEW m \in Message, m.type = "private" PROVE Owned(s0, m)'
    <3>1. Owned(s0, m) /\ ~ Has(bcast[s0], {m})
      BY <2>5 DEF OnceHere, Has, MemoryOK, BroadcastsListed, Elements
    <3>2. \A h \in Handle : OnceAt(h, m)' /\ (Got(h, m)' => Got(h, m))
      <4>1. TAKE h \in Handle
      <4>2. OnceAt(h, m)
        BY <3>1 DEF Owned
      <4>3. CASE player'[h] = player[h]
        BY <2>2, <4>2, <4>3 DEF OnceAt, Got
      <4>4. CASE Made(h) /\ player'[h] = Flushed(s0, h)
        <5>1. /\ Has(player'[h].queue, {m}) => Has(player[h].queue, {m})
              /\ One(player[h].queue, {m}) => One(player'[h].queue, {m})
              /\ ~ Has(player[h].queue, {m}) => player'[h].sent[m] = player[h].sent[m]
              /\ One(player[h].queue, {m})
                     => /\ player'[h].sent[m] <= player[h].sent[m] + 1
                        /\ Has(player'[h].queue, {m}) => player'[h].sent[m] = player[h].sent[m]
          BY <3>1, <4>4, FlushedOnce
        <5>2. player[h].sent[m] \in Nat /\ player'[h].sent[m] \in Nat
          BY <4>4, FlushedType DEF MemoryOK, Made, Player
        <5> QED BY <2>2, <4>2, <4>4, <5>1, <5>2 DEF OnceAt, Got
      <4> QED BY <2>2, <4>3, <4>4
    <3>3. UNCHANGED <<alive, answer, pipe, mailbox, posted>>
      BY <1>0, <1>2
    <3> QED BY <2>4, <3>1, <3>2, <3>3, OwnedKept DEF Owned, Unread, OnList, Deleting
  <2>6. ASSUME NEW m \in Message, m.type # "private" PROVE Announced(s0, m)'
    <3>1. Announced(s0, m)
      BY <2>6 DEF OnceHere
    <3>2. ASSUME NEW h \in Handle, Made(h)
          PROVE  /\ player[h].sent[m] \in Nat
                 /\ \/ player'[h].sent[m] = player[h].sent[m]
                    \/ Has(bcast[s0], {m}) /\ player'[h].sent[m] <= player[h].sent[m] + 1
      <4>1. ~ Has(player[h].queue, {m})
        <5>1. player[h].uid # Nobody
          BY <3>2 DEF MemoryOK, Made, Player, Account
        <5> QED BY <2>6, <3>2, <5>1 DEF Has, MemoryOK, QueuesAddressed, Elements
      <4>2. player[h].sent[m] \in Nat
        BY <3>2 DEF MemoryOK, Made, Player
      <4>3. CASE player'[h] = Flushed(s0, h)
        <5>1. /\ ~ Has(bcast[s0], {m}) => player'[h].sent[m] = player[h].sent[m]
              /\ player'[h].sent[m] <= player[h].sent[m] + 1
          BY <3>1, <3>2, <4>1, <4>3, FlushedOnce DEF Announced
        <5> QED BY <4>2, <5>1
      <4> QED BY <2>2, <4>2, <4>3
    <3>3. \A h \in Handle : Made(h) => player'[h].sent[m] <= 1
      <4>1. SUFFICES ASSUME NEW h \in Handle, Made(h) PROVE player'[h].sent[m] <= 1
        OBVIOUS
      <4>2. player[h].sent[m] <= 1 /\ (Has(bcast[s0], {m}) => player[h].sent[m] = 0)
        BY <3>1, <4>1 DEF Announced
      <4> QED BY <3>2, <4>1, <4>2
    <3>4. m \notin posted => \A h \in Handle : Made(h) => player'[h].sent[m] = 0
      BY <3>1, <3>2 DEF Announced
    <3> QED BY <1>0, <2>2, <2>3, <3>3, <3>4, InNothing DEF Announced
  <2> QED BY <2>4, <2>5, <2>6 DEF OnceHere
<1> QED BY <1>1, <1>2 DEF Tick

-----------------------------------------------------------------------------
(* A new message is nowhere yet.                                           *)

LEMMA AnnouncedNew ==
    ASSUME MemoryOK, NEW s \in Server, NEW m0 \in Message, Announce(s, m0), m0 \notin posted,
           posted' = posted \cup {m0}, NEW m \in Message, m.type # "private", Announced(s, m),
           \A h \in Handle : (Made(h)' <=> Made(h)) /\ player'[h].sent[m] = player[h].sent[m]
    PROVE  Announced(s, m)'
<1>1. bcast[s] \in Seq(Message)
  BY DEF MemoryOK
<1>2. bcast'[s] = IF m0.type = "private" THEN bcast[s] ELSE Append(bcast[s], m0)
  BY DEF Announce, MemoryOK
<1>3. CASE m # m0
  <2>1. One(bcast'[s], {m}) /\ (Has(bcast'[s], {m}) => Has(bcast[s], {m}))
    BY <1>1, <1>2, <1>3, InAppend DEF Announced
  <2> QED BY <1>3, <2>1, AnnouncedKept
<1>4. CASE m = m0
  <2>1. ~ Has(bcast[s], {m}) /\ \A h \in Handle : Made(h) => player[h].sent[m] = 0
    BY <1>4 DEF Announced
  <2>2. One(bcast'[s], {m})
    BY <1>1, <1>2, <1>4, <2>1, InAppend DEF Announced
  <2>3. \A h \in Handle : Made(h)' => player'[h].sent[m] = 0 /\ player'[h].sent[m] <= 1
    BY <2>1
  <2>4. m \in posted'
    BY <1>4
  <2> QED BY <2>2, <2>3, <2>4 DEF Announced
<1> QED BY <1>3, <1>4

\* Lobby::privateChatMessage asks Redis for the receiver, ...
LEMMA OwnedAsked ==
    ASSUME PipeOK, AnswerOK, NEW s \in Server, NEW m \in Message, Owned(s, m), m \notin posted,
           Issue(s, <<[op |-> "getOnline", msg |-> m]>>), UNCHANGED <<alive, player, answer, mailbox>>,
           posted' = posted \cup {m}
    PROVE  Owned(s, m)'
<1> DEFINE cmds == <<[op |-> "getOnline", msg |-> m]>>
<1>1. cmds \in Seq(Command) /\ One(cmds, Held(m))
  BY HoldIssued
<1> HIDE DEF cmds
<1>2. Line(s)' = Line(s) \o cmds /\ Line(s) \in Seq(Item) /\ cmds \in Seq(Item)
  <2>1. pipe'[s] = pipe[s] \o cmds
    BY DEF PipeOK, Issue, cmds
  <2>2. Line(s) \in Seq(Item) /\ cmds \in Seq(Item) /\ answer[s] \o (pipe[s] \o cmds) = Line(s) \o cmds
    BY <1>1, Lines
  <2> QED BY <2>1, <2>2 DEF Line
<1>3. ~ Unread(s, m) /\ ~ OnList(m) /\ ~ Out(s, m)
  BY DEF Owned
<1>4. One(Line(s)', Held(m))
  BY <1>1, <1>2, <1>3, InBoth DEF Owned, Unread
<1>5. ~ OnList(m)' /\ ~ Out(s, m)' /\ m \in posted'
  BY <1>3 DEF OnList, Out, Got, Made
<1> QED BY <1>4, <1>5 DEF Owned, OnceAt, Got, Made, Out

\* ... or gives the message to the receiver's Player.
LEMMA OwnedQueued ==
    ASSUME MemoryOK, NEW s \in Server, NEW m \in Message, Owned(s, m), m \notin posted,
           NEW h \in Handle, Made(h), Enqueue(s, h, <<m>>), UNCHANGED <<pipe, answer, mailbox>>,
           posted' = posted \cup {m}
    PROVE  Owned(s, m)'
<1>1. <<m>> \in Seq(Message) /\ One(<<m>>, {m})
  BY InSingle
<1>2. /\ \A g \in Handle : /\ Made(g)' <=> Made(g)
                           /\ player'[g].sent[m] = player[g].sent[m]
                           /\ g # h => player'[g] = player[g]
      /\ One(player[h].queue, {m}) /\ ~ Has(player[h].queue, {m}) => One(player'[h].queue, {m})
  BY <1>1, Enqueued
<1>3. ~ Unread(s, m) /\ ~ OnList(m) /\ ~ Out(s, m)
  BY DEF Owned
<1>4. ~ Unread(s, m)' /\ ~ OnList(m)' /\ ~ Has(answer'[s], Carry(m)) /\ m \in posted'
  BY <1>3 DEF Unread, OnList, Out, Line
<1>5. \A g \in Handle : OnceAt(g, m) /\ ~ Got(g, m)
  BY <1>3 DEF Out, Owned
<1>6. \A g \in Handle : OnceAt(g, m)' /\ (Got(g, m)' => g = h)
  <2>1. TAKE g \in Handle
  <2>2. CASE g # h
    BY <1>2, <1>5, <2>2 DEF OnceAt, Got
  <2>3. CASE g = h
    BY <1>2, <1>5, <2>3 DEF OnceAt, Got
  <2> QED BY <2>2, <2>3
<1>7. One(Line(s), Held(m))' /\ One(mailbox[m.receiver], {m})' /\ ~ Has(answer[s], Doubled(m))'
  BY DEF Owned, Line
<1> QED BY <1>4, <1>6, <1>7 DEF Owned

LEMMA OnceMessage ==
    ASSUME IInv, NEW s0, Server = {s0}, OnceHere(s0), NEW m0 \in Message, m0 \notin posted,
           posted' = posted \cup {m0}, UNCHANGED mailbox, NEW w, NewMessage(s0, m0, w)
    PROVE  OnceHere(s0)'
<1> USE DEF IInv
<1>0. s0 \in Server /\ m0.receiver \in Uid
  BY MessageFields
<1>1. CASE Die(s0)
  BY <1>1, OnceDie
<1>2. CASE Announce(s0, m0) /\ UNCHANGED <<alive, local, player, active, pipe, answer>> /\ m0.type = "server"
  <2>1. Line(s0)' = Line(s0) /\ Calm
    BY <1>2, CalmSame DEF Line
  <2>2. ASSUME NEW m \in Message, m.type = "private" PROVE Owned(s0, m)'
    <3>1. Owned(s0, m)
      BY <2>2 DEF OnceHere
    <3>2. \A h \in Handle : OnceAt(h, m)' /\ (Got(h, m)' => Got(h, m))
      BY <2>1, <3>1, CalmKeeps DEF Owned
    <3> QED BY <1>2, <2>1, <3>1, <3>2, OwnedKept DEF Owned, Unread, OnList, Deleting
  <2>3. ASSUME NEW m \in Message, m.type # "private" PROVE Announced(s0, m)'
    <3>1. Announced(s0, m)
      BY <2>3 DEF OnceHere
    <3>2. \A h \in Handle : (Made(h)' <=> Made(h)) /\ player'[h].sent[m] = player[h].sent[m]
      BY <1>2 DEF Made
    <3> QED BY <1>2, <2>3, <3>1, <3>2, AnnouncedNew
  <2> QED BY <2>1, <2>2, <2>3 DEF OnceHere
<1>3. CASE /\ Announce(s0, m0) /\ IsPlayer(s0, m0.receiver) /\ Enqueue(s0, local[s0][m0.receiver], <<m0>>)
           /\ UNCHANGED <<alive, local, pipe, answer>>
  <2>1. PICK h \in Handle : Made(h) /\ Enqueue(s0, h, <<m0>>)
    BY <1>0, <1>3 DEF MemoryOK, SlotsAddressed, IsPlayer
  <2>2. <<m0>> \in Seq(Message) /\ \A m : (Has(<<m0>>, {m}) <=> m = m0) /\ One(<<m0>>, {m})
    BY InSingle
  <2>3. ASSUME NEW m \in Message
        PROVE  /\ \A g \in Handle : /\ Made(g)' <=> Made(g)
                                    /\ player'[g].sent[m] = player[g].sent[m]
                                    /\ g # h => player'[g] = player[g]
               /\ Has(player'[h].queue, {m}) => Has(player[h].queue, {m}) \/ m = m0
               /\ One(player[h].queue, {m}) /\ m # m0 => One(player'[h].queue, {m})
    <3> DEFINE list == <<m0>>
    <3>1. list \in Seq(Message) /\ (Has(list, {m}) <=> m = m0) /\ One(list, {m}) /\ Enqueue(s0, h, list)
      BY <2>1, <2>2
    <3> HIDE DEF list
    <3> QED BY <2>1, <3>1, Enqueued
  <2>4. Line(s0)' = Line(s0)
    BY <1>3 DEF Line
  <2>5. ASSUME NEW m \in Message, m.type = "private" PROVE Owned(s0, m)'
    <3>1. Owned(s0, m)
      BY <2>5 DEF OnceHere
    <3>2. CASE m # m0
      <4>1. \A g \in Handle : OnceAt(g, m)' /\ (Got(g, m)' => Got(g, m))
        <5>1. TAKE g \in Handle
        <5>2. OnceAt(g, m)
          BY <3>1 DEF Owned
        <5>3. CASE g # h
          BY <2>3, <5>2, <5>3 DEF OnceAt, Got
        <5>4. CASE g = h
          BY <2>3, <3>2, <5>2, <5>4 DEF OnceAt, Got
        <5> QED BY <5>3, <5>4
      <4> QED BY <1>3, <2>4, <3>1, <3>2, <4>1, OwnedKept DEF Owned, Unread, OnList, Deleting
    <3>3. CASE m = m0
      BY <1>3, <2>1, <3>1, <3>3, OwnedQueued
    <3> QED BY <3>2, <3>3
  <2>6. ASSUME NEW m \in Message, m.type # "private" PROVE Announced(s0, m)'
    <3>1. Announced(s0, m)
      BY <2>6 DEF OnceHere
    <3> QED BY <1>3, <2>3, <2>6, <3>1, AnnouncedNew
  <2> QED BY <2>4, <2>5, <2>6 DEF OnceHere
<1>4. CASE /\ Announce(s0, m0) /\ Issue(s0, <<[op |-> "getOnline", msg |-> m0]>>)
           /\ UNCHANGED <<alive, local, player, active, answer>>
  <2> DEFINE cmds == <<[op |-> "getOnline", msg |-> m0]>>
  <2>1. /\ cmds \in Seq(Command)
        /\ \A v : InOrder(cmds, v) /\ ~ Has(cmds, Login(v)) /\ ~ Has(cmds, Read(v)) /\ ~ Has(cmds, Del(v))
        /\ \A n : Has(cmds, Held(n)) <=> n = m0
    BY HoldIssued
  <2>2. Issue(s0, cmds)
    BY <1>4
  <2>3. Calm
    BY <1>4, CalmSame
  <2>4. ASSUME NEW m \in Message, m.type = "private" PROVE Owned(s0, m)'
    <3>1. Owned(s0, m)
      BY <2>4 DEF OnceHere
    <3>2. CASE m = m0
      BY <1>4, <3>1, <3>2, OwnedAsked
    <3>3. CASE m # m0
      <4>1. \A h \in Handle : OnceAt(h, m)' /\ (Got(h, m)' => Got(h, m))
        BY <2>3, <3>1, CalmKeeps DEF Owned
      <4> HIDE DEF cmds
      <4> QED BY <1>4, <2>1, <2>2, <3>1, <3>3, <4>1, OwnedIssue
    <3> QED BY <3>2, <3>3
  <2>5. ASSUME NEW m \in Message, m.type # "private" PROVE Announced(s0, m)'
    <3>1. Announced(s0, m)
      BY <2>5 DEF OnceHere
    <3>2. \A h \in Handle : (Made(h)' <=> Made(h)) /\ player'[h].sent[m] = player[h].sent[m]
      BY <1>4 DEF Made
    <3> QED BY <1>4, <2>5, <3>1, <3>2, AnnouncedNew
  <2>6. \A v \in Uid : InOrder(Line(s0), v)'
    <3> HIDE DEF cmds
    <3>1. pipe'[s0] = pipe[s0] \o cmds
      BY <2>2 DEF PipeOK, Issue
    <3>2. /\ Line(s0) \in Seq(Item) /\ cmds \in Seq(Item)
          /\ answer[s0] \o (pipe[s0] \o cmds) = Line(s0) \o cmds
      BY <2>1, Lines
    <3>3. Line(s0)' = Line(s0) \o cmds
      BY <1>4, <3>1, <3>2 DEF Line
    <3>4. \A v \in Uid : InOrder(Line(s0) \o cmds, v)
      BY <2>1, <3>2, LineGrows DEF OnceHere
    <3> QED BY <3>3, <3>4
  <2> QED BY <2>4, <2>5, <2>6 DEF OnceHere
<1> QED BY <1>1, <1>2, <1>3, <1>4 DEF NewMessage, Forward, PrivateChat

-----------------------------------------------------------------------------
(* Redis executes a command and answers, or does not.                      *)

LEMMA Executed ==
    ASSUME PipeOK, AnswerOK, NEW s \in Server, pipe[s] # <<>>, pipe' = [pipe EXCEPT ![s] = Tail(@)],
           NEW R \in SUBSET Answer,
           \/ R = {} /\ UNCHANGED answer
           \/ \E r : R = {r} /\ Reply(s, r)
    PROVE  LET c == Head(pipe[s])
               t == Tail(pipe[s])
           IN  /\ c \in Command /\ pipe'[s] = t
               /\ \A K : /\ Has(pipe[s], K) <=> c \in K \/ Has(t, K)
                         /\ Has(answer'[s], K) <=> Has(answer[s], K) \/ \E r \in R : r \in K
                         /\ Has(Line(s), K) <=> Has(answer[s], K) \/ c \in K \/ Has(t, K)
                         /\ Has(Line(s)', K) <=> Has(answer'[s], K) \/ Has(t, K)
                         /\ One(Line(s), K) /\ ((\E r \in R : r \in K) => c \in K) => One(Line(s)', K)
                         /\ One(Line(s), K) /\ c \in K => ~ Has(answer[s], K) /\ ~ Has(t, K)
               /\ \A K, L : Before(Line(s), K, L) /\ c \in L => ~ Has(pipe[s], K)
               /\ (\A u, r : r \in R => /\ r \in Login(u) <=> c \in Login(u)
                                        /\ r \in Read(u) <=> c \in Read(u)
                                        /\ r \notin Del(u))
                      => \A u : InOrder(Line(s), u) => InOrder(Line(s)', u)
<1> DEFINE a == answer[s]
           b == answer'[s]
           p == pipe[s]
           c == Head(p)
           t == Tail(p)
<1>1. /\ c \in Command /\ pipe'[s] = t
      /\ a \in Seq(Item) /\ p \in Seq(Item) /\ t \in Seq(Item) /\ p # <<>>
      /\ Line(s) = a \o p /\ Line(s)' = b \o t
  <2>1. pipe[s] \in Seq(Command) /\ Head(pipe[s]) \in Command
    BY DEF PipeOK
  <2>2. a \in Seq(Item) /\ p \in Seq(Item)
    BY Lines
  <2>3. pipe'[s] = t
    BY DEF PipeOK
  <2> HIDE DEF p, a
  <2>4. t \in Seq(Item)
    BY <2>2 DEF p
  <2> QED BY <2>1, <2>2, <2>3, <2>4 DEF Line, a, p
<1>2. b = IF R = {} THEN a ELSE Append(a, CHOOSE r \in R : TRUE)
  <2>1. CASE R = {} /\ UNCHANGED answer
    BY <2>1
  <2>2. CASE \E r : R = {r} /\ Reply(s, r)
    BY <2>2 DEF Reply, AnswerOK
  <2> QED BY <2>1, <2>2
<1>3. R = {} \/ \E r \in Item : R = {r}
  BY DEF Item
<1>4. /\ b \in Seq(Item)
      /\ R = {} => b = a
      /\ \A r \in Item : R = {r} => b = Append(a, r)
      /\ \A K : /\ Has(b, K) <=> Has(a, K) \/ \E r \in R : r \in K
                /\ One(b, K) <=> One(a, K) /\ ~ (Has(a, K) /\ \E r \in R : r \in K)
  <2> HIDE DEF a, b, p, c, t
  <2>1. CASE R = {}
    BY <1>1, <1>2, <2>1
  <2>2. ASSUME NEW r \in Item, R = {r}
        PROVE  b = Append(a, r)
    BY <1>2, <2>2
  <2>3. ASSUME NEW r \in Item, R = {r}
        PROVE  /\ b \in Seq(Item) /\ b = Append(a, r)
               /\ \A K : /\ Has(b, K) <=> Has(a, K) \/ r \in K
                         /\ One(b, K) <=> One(a, K) /\ ~ (Has(a, K) /\ r \in K)
    <3>1. b = Append(a, r) /\ a \in Seq(Item)
      BY <1>1, <2>2, <2>3
    <3>2. /\ Append(a, r) \in Seq(Item)
          /\ \A K : /\ Has(Append(a, r), K) <=> Has(a, K) \/ r \in K
                    /\ One(Append(a, r), K) <=> One(a, K) /\ ~ (Has(a, K) /\ r \in K)
      BY <3>1, InAppend
    <3> QED BY <3>1, <3>2
  <2> QED BY <1>3, <2>1, <2>3
<1> HIDE DEF a, b, p, c, t
<1>5. \A K : /\ Has(p, K) <=> c \in K \/ Has(t, K)
             /\ One(p, K) <=> One(t, K) /\ ~ (c \in K /\ Has(t, K))
  BY <1>1, InParts DEF c, t
<1>6. \A K : /\ Has(a \o p, K) <=> Has(a, K) \/ Has(p, K)
             /\ One(a \o p, K) <=> One(a, K) /\ One(p, K) /\ ~ (Has(a, K) /\ Has(p, K))
             /\ Has(b \o t, K) <=> Has(b, K) \/ Has(t, K)
             /\ One(b \o t, K) <=> One(b, K) /\ One(t, K) /\ ~ (Has(b, K) /\ Has(t, K))
  BY <1>1, <1>4, InBoth
<1>7. ASSUME NEW K, NEW L, Before(a \o p, K, L), c \in L PROVE ~ Has(p, K)
  <2>1. Before(p, K, L)
    BY <1>1, <1>7, InBoth
  <2> QED BY <1>1, <1>5, <1>7, <2>1, InParts DEF c, t
<1>8. ASSUME NEW u, InOrder(a \o p, u),
             \A r \in R : /\ r \in Login(u) <=> c \in Login(u)
                          /\ r \in Read(u) <=> c \in Read(u)
                          /\ r \notin Del(u)
      PROVE  InOrder(b \o t, u)
  <2>1. CASE R = {}
    BY <1>1, <1>4, <1>8, <2>1, LineDropped DEF t
  <2>2. ASSUME NEW r \in Item, R = {r} PROVE InOrder(b \o t, u)
    BY <1>1, <1>4, <1>8, <2>2, LineAnswered DEF c, t
  <2> QED BY <1>3, <2>1, <2>2
<1>9. \A K : /\ One(a \o p, K) /\ ((\E r \in R : r \in K) => c \in K) => One(b \o t, K)
             /\ One(a \o p, K) /\ c \in K => ~ Has(a, K) /\ ~ Has(t, K)
  BY <1>4, <1>5, <1>6
<1>10. Line(s) = a \o p /\ Line(s)' = b \o t
  BY <1>1
<1>11. \A K : /\ Has(p, K) <=> c \in K \/ Has(t, K)
              /\ Has(b, K) <=> Has(a, K) \/ \E r \in R : r \in K
              /\ Has(Line(s), K) <=> Has(a, K) \/ c \in K \/ Has(t, K)
              /\ Has(Line(s)', K) <=> Has(b, K) \/ Has(t, K)
              /\ One(Line(s), K) /\ ((\E r \in R : r \in K) => c \in K) => One(Line(s)', K)
              /\ One(Line(s), K) /\ c \in K => ~ Has(a, K) /\ ~ Has(t, K)
  BY <1>4, <1>5, <1>6, <1>9, <1>10
<1>12. \A K, L : Before(Line(s), K, L) /\ c \in L => ~ Has(p, K)
  BY <1>7, <1>10
<1>13. ASSUME \A u, r : r \in R => /\ r \in Login(u) <=> c \in Login(u)
                                   /\ r \in Read(u) <=> c \in Read(u)
                                   /\ r \notin Del(u),
              NEW u, InOrder(Line(s), u)
       PROVE  InOrder(Line(s)', u)
  <2>1. InOrder(a \o p, u)
    BY <1>10, <1>13
  <2>2. InOrder(b \o t, u)
    BY <1>8, <1>13, <2>1
  <2> QED BY <1>10, <2>2
<1> QED BY <1>1, <1>11, <1>12, <1>13 DEF a, b, p, c, t

\* A command that does not read or store the message
LEMMA OwnedExec ==
    ASSUME PipeOK, AnswerOK, NEW s \in Server, pipe[s] # <<>>, pipe' = [pipe EXCEPT ![s] = Tail(@)],
           NEW R \in SUBSET Answer,
           \/ R = {} /\ UNCHANGED answer
           \/ \E r : R = {r} /\ Reply(s, r),
           UNCHANGED <<alive, player, posted>>, NEW m \in Message, Owned(s, m),
           \A r \in R : (r \in Held(m) => Head(pipe[s]) \in Held(m)) /\ r \notin Carry(m),
           One(mailbox'[m.receiver], {m}),
           Has(mailbox'[m.receiver], {m}) => OnList(m) /\ Head(pipe[s]) \notin Del(m.receiver)
    PROVE  Owned(s, m)'
<1> DEFINE c == Head(pipe[s])
           t == Tail(pipe[s])
<1>1. /\ pipe'[s] = t
      /\ \A K : /\ Has(pipe[s], K) <=> c \in K \/ Has(t, K)
                /\ Has(answer'[s], K) <=> Has(answer[s], K) \/ \E r \in R : r \in K
                /\ Has(Line(s), K) <=> Has(answer[s], K) \/ c \in K \/ Has(t, K)
                /\ Has(Line(s)', K) <=> Has(answer'[s], K) \/ Has(t, K)
                /\ One(Line(s), K) /\ ((\E r \in R : r \in K) => c \in K) => One(Line(s)', K)
  BY Executed
<1> HIDE DEF t
<1>2. One(Line(s)', Held(m)) /\ (Has(Line(s)', Held(m)) => Unread(s, m))
  BY <1>1 DEF Owned, Unread
<1>3. ~ Has(answer'[s], Doubled(m)) /\ (Has(answer'[s], Carry(m)) => Has(answer[s], Carry(m)))
  <2>1. \A r \in R : r \notin Doubled(m)
    BY DEF Doubled
  <2> QED BY <1>1, <2>1 DEF Owned
<1>4. c \notin Del(m.receiver) => (Deleting(s, m.receiver) => Deleting(s, m.receiver)')
  BY <1>1 DEF Deleting
<1>5. \A h \in Handle : OnceAt(h, m)' /\ (Got(h, m)' => Got(h, m))
  BY DEF Owned, OnceAt, Got, Made
<1> QED BY <1>2, <1>3, <1>4, <1>5, OwnedKept

\* LRANGE: the message is on the list, no Player has it and no answer carries
\* it, for a list is not read again before it is deleted.
LEMMA OwnedRead ==
    ASSUME PipeOK, AnswerOK, Halted, NEW s \in Server, pipe[s] # <<>>, pipe' = [pipe EXCEPT ![s] = Tail(@)],
           NEW r \in Answer, Reply(s, r), r.op = "lrangeMsg",
           UNCHANGED <<alive, player, posted, mailbox>>, NEW m \in Message, Owned(s, m),
           InOrder(Line(s), m.receiver), r \in Read(m.receiver),
           Head(pipe[s]) \in Read(m.receiver), r.list = mailbox[m.receiver], OnList(m)
    PROVE  Owned(s, m)'
<1> DEFINE c == Head(pipe[s])
           t == Tail(pipe[s])
           u == m.receiver
<1>0. \E x : {r} = {x} /\ Reply(s, x)
  OBVIOUS
<1>1. /\ pipe'[s] = t
      /\ \A K : /\ Has(pipe[s], K) <=> c \in K \/ Has(t, K)
                /\ Has(answer'[s], K) <=> Has(answer[s], K) \/ r \in K
                /\ Has(Line(s), K) <=> Has(answer[s], K) \/ c \in K \/ Has(t, K)
                /\ Has(Line(s)', K) <=> Has(answer'[s], K) \/ Has(t, K)
                /\ One(Line(s), K) /\ (r \in K => c \in K) => One(Line(s)', K)
                /\ One(Line(s), K) /\ c \in K => ~ Has(answer[s], K) /\ ~ Has(t, K)
      /\ \A K, L : Before(Line(s), K, L) /\ c \in L => ~ Has(pipe[s], K)
  <2> DEFINE R == {r}
  <2>1. R \in SUBSET Answer /\ (\E x : R = {x} /\ Reply(s, x)) /\ \A K : (\E x \in R : x \in K) <=> r \in K
    BY <1>0
  <2> HIDE DEF R
  <2>2. /\ pipe'[s] = t
        /\ \A K : /\ Has(pipe[s], K) <=> c \in K \/ Has(t, K)
                  /\ Has(answer'[s], K) <=> Has(answer[s], K) \/ \E x \in R : x \in K
                  /\ Has(Line(s), K) <=> Has(answer[s], K) \/ c \in K \/ Has(t, K)
                  /\ Has(Line(s)', K) <=> Has(answer'[s], K) \/ Has(t, K)
                  /\ One(Line(s), K) /\ ((\E x \in R : x \in K) => c \in K) => One(Line(s)', K)
                  /\ One(Line(s), K) /\ c \in K => ~ Has(answer[s], K) /\ ~ Has(t, K)
        /\ \A K, L : Before(Line(s), K, L) /\ c \in L => ~ Has(pipe[s], K)
    BY <2>1, Executed
  <2> HIDE DEF c, t
  <2> QED BY <2>1, <2>2
<1> HIDE DEF c, t
<1>2. ~ Deleting(s, u)
  BY <1>1 DEF Deleting, InOrder, c
<1>3. alive[s]
  BY DEF Halted
<1>4. ~ Out(s, m) /\ ~ Unread(s, m) /\ m \in posted
  BY <1>2, <1>3 DEF Owned
<1>5. r \notin Held(m) /\ r \notin Doubled(m)
  BY DEF Held, Doubled, Owned
<1>6. One(Line(s)', Held(m)) /\ ~ Has(Line(s)', Held(m)) /\ ~ Has(answer'[s], Doubled(m))
  BY <1>1, <1>4, <1>5 DEF Owned, Unread
<1>7. Deleting(s, u)'
  BY <1>1 DEF Deleting
<1>8. \A h \in Handle : OnceAt(h, m)' /\ ~ Got(h, m)'
  BY <1>4 DEF Owned, OnceAt, Got, Made, Out
<1>9. One(mailbox'[u], {m}) /\ m \in posted'
  BY <1>4 DEF Owned
<1> QED BY <1>6, <1>7, <1>8, <1>9 DEF Owned, Unread

\* RPUSH: the message leaves the pipe for the list.
LEMMA OwnedStored ==
    ASSUME PipeOK, AnswerOK, RedisOK, NEW s \in Server, pipe[s] # <<>>, pipe' = [pipe EXCEPT ![s] = Tail(@)],
           UNCHANGED <<alive, player, posted, answer>>, NEW m \in Message, Owned(s, m),
           Head(pipe[s]) \in Held(m), mailbox' = [mailbox EXCEPT ![m.receiver] = Append(@, m)]
    PROVE  Owned(s, m)'
<1> DEFINE c == Head(pipe[s])
           t == Tail(pipe[s])
           u == m.receiver
<1>1. /\ pipe'[s] = t
      /\ \A K : /\ Has(Line(s), K) <=> Has(answer[s], K) \/ c \in K \/ Has(t, K)
                /\ Has(Line(s)', K) <=> Has(answer'[s], K) \/ Has(t, K)
                /\ One(Line(s), K) => One(Line(s)', K)
                /\ One(Line(s), K) /\ c \in K => ~ Has(answer[s], K) /\ ~ Has(t, K)
  <2> DEFINE R == {}
  <2>1. R \in SUBSET Answer /\ R = {} /\ \A r : r \notin R
    OBVIOUS
  <2> HIDE DEF R
  <2> QED BY <2>1, Executed
<1> HIDE DEF c, t
<1>2. Unread(s, m) /\ ~ OnList(m) /\ ~ Out(s, m) /\ m \in posted
  BY <1>1 DEF Unread, Owned, c
<1>3. One(Line(s)', Held(m)) /\ ~ Has(Line(s)', Held(m))
  BY <1>1 DEF Owned, c
<1>4. One(mailbox'[u], {m})
  <2>1. u \in Uid /\ mailbox[u] \in Seq(Message) /\ mailbox'[u] = Append(mailbox[u], m)
    BY MessageFields DEF RedisOK
  <2> QED BY <1>2, <2>1, InAppend DEF Owned, OnList
<1>5. /\ ~ Out(s, m)' /\ m \in posted' /\ ~ Has(answer'[s], Doubled(m)) /\ ~ Unread(s, m)'
      /\ \A h \in Handle : OnceAt(h, m)'
  BY <1>2, <1>3 DEF Owned, Out, Got, OnceAt, Made, Unread
<1> QED BY <1>3, <1>4, <1>5 DEF Owned, Out

LEMMA OnceExecuted ==
    ASSUME PipeOK, AnswerOK, NEW s \in Server, OnceHere(s), pipe[s] # <<>>,
           pipe' = [pipe EXCEPT ![s] = Tail(@)],
           NEW R \in SUBSET Answer,
           \/ R = {} /\ UNCHANGED answer
           \/ \E r : R = {r} /\ Reply(s, r),
           \A u, r : r \in R => /\ r \in Login(u) <=> Head(pipe[s]) \in Login(u)
                                /\ r \in Read(u) <=> Head(pipe[s]) \in Read(u)
                                /\ r \notin Del(u),
           UNCHANGED <<player, bcast, posted>>,
           \A m \in Message : m.type = "private" /\ Owned(s, m) => Owned(s, m)'
    PROVE  OnceHere(s)'
<1>1. \A u \in Uid : InOrder(Line(s), u)'
  <2>1. \A u \in Uid : InOrder(Line(s), u) => InOrder(Line(s)', u)
    BY Executed
  <2>2. \A u \in Uid : InOrder(Line(s)', u)
    BY <2>1 DEF OnceHere
  <2> QED BY <2>2 DEF InOrder
<1>2. ASSUME NEW m \in Message, m.type = "private" PROVE Owned(s, m)'
  BY <1>2 DEF OnceHere
<1>3. ASSUME NEW m \in Message, m.type # "private" PROVE Announced(s, m)'
  <2>1. Announced(s, m)
    BY <1>3 DEF OnceHere
  <2> QED BY <2>1, CalmSame, AnnouncedCalm
<1> QED BY <1>1, <1>2, <1>3 DEF OnceHere

LEMMA OnceExec ==
    ASSUME IInv, Halted, NEW s \in Server, OnceHere(s), RedisExec(s)
    PROVE  OnceHere(s)'
<1> USE DEF IInv
<1> DEFINE c == Head(pipe[s])
<1>1. /\ pipe[s] # <<>> /\ pipe' = [pipe EXCEPT ![s] = Tail(@)]
      /\ UNCHANGED <<alive, player, bcast, posted>>
  BY DEF RedisExec, memory, env
<1>2. c \in Command /\ c \in Item
  <2>1. pipe[s] \in Seq(Command)
    BY DEF PipeOK
  <2> QED BY <1>1, <2>1 DEF Item
<1>3. ASSUME NEW m \in Message, Owned(s, m)
      PROVE  One(mailbox[m.receiver], {m}) /\ (Has(mailbox[m.receiver], {m}) => OnList(m))
  BY <1>3 DEF Owned, OnList
<1>4. ASSUME c.op # "delMsg", UNCHANGED mailbox, NEW r \in Answer, Reply(s, r),
             c.op = "login" => r = c,
             c.op # "login" => r.op = c.op /\ c.op \in {"getOnline", "lrangeBlack"},
             c.op = "getOnline" => r.msg = c.msg
      PROVE  OnceHere(s)'
  <2> HIDE DEF c
  <2> DEFINE R == {r}
  <2>1. R \in SUBSET Answer /\ (\E x : R = {x} /\ Reply(s, x)) /\ \A x \in R : x = r
    BY <1>4
  <2>2. /\ \A u : (r \in Login(u) <=> c \in Login(u)) /\ (r \in Read(u) <=> c \in Read(u)) /\ r \notin Del(u)
        /\ \A u : c \notin Del(u)
        /\ \A m : (r \in Held(m) => c \in Held(m)) /\ r \notin Carry(m)
    BY <1>2, <1>4 DEF Item, Login, Read, Del, Held, Carry
  <2> HIDE DEF R
  <2>3. ASSUME NEW m \in Message, Owned(s, m) PROVE Owned(s, m)'
    BY <1>1, <1>3, <1>4, <2>1, <2>2, <2>3, OwnedExec DEF c
  <2> QED BY <1>1, <2>1, <2>2, <2>3, OnceExecuted DEF c
<1>5. ASSUME UNCHANGED answer, NEW u \in Uid, NEW q,
             q = mailbox \/ (q = [mailbox EXCEPT ![u] = <<>>] /\ c.op = "delMsg" /\ c.uid = u),
             c.op = "delMsg" => q # mailbox \/ mailbox[u] = <<>>, c.op = "delMsg" => c.uid = u,
             mailbox' = q
      PROVE  OnceHere(s)'
  <2> HIDE DEF c
  <2> DEFINE R == {}
  <2>1. R \in SUBSET Answer /\ R = {} /\ \A x : x \notin R
    OBVIOUS
  <2> HIDE DEF R
  <2>2. ASSUME NEW m \in Message, Owned(s, m) PROVE Owned(s, m)'
    <3>1. m.receiver \in Uid
      BY MessageFields
    <3>2. One(mailbox'[m.receiver], {m}) /\ (Has(mailbox'[m.receiver], {m}) => OnList(m))
      BY <1>3, <1>5, <2>2, <3>1, InNothing DEF RedisOK
    <3>3. Has(mailbox'[m.receiver], {m}) => c \notin Del(m.receiver)
      BY <1>5, <3>1, InNothing DEF RedisOK, Del
    <3> QED BY <1>1, <1>5, <2>1, <2>2, <3>2, <3>3, OwnedExec DEF c
  <2> QED BY <1>1, <1>5, <2>1, <2>2, OnceExecuted
<1>6. CASE /\ c.op = "lrangeMsg" /\ UNCHANGED mailbox
           /\ Reply(s, [op |-> "lrangeMsg", uid |-> c.uid, list |-> mailbox[c.uid]])
  <2> DEFINE r == [op |-> "lrangeMsg", uid |-> c.uid, list |-> mailbox[c.uid]]
             R == {r}
  <2>1. c.uid \in Uid /\ mailbox[c.uid] \in Seq(Message)
    BY <1>2, <1>6, CommandFields DEF RedisOK
  <2>2. r \in Answer /\ r.op = "lrangeMsg" /\ r.uid = c.uid /\ r.list = mailbox[c.uid] /\ Reply(s, r)
    BY <1>6, <2>1 DEF Answer
  <2> HIDE DEF c, r
  <2>3. R \in SUBSET Answer /\ (\E x : R = {x} /\ Reply(s, x)) /\ \A x \in R : x = r
    BY <2>2
  <2>4. /\ \A u : (r \in Login(u) <=> c \in Login(u)) /\ (r \in Read(u) <=> c \in Read(u)) /\ r \notin Del(u)
        /\ \A u : c \notin Del(u)
        /\ \A m : r \notin Held(m)
        /\ r \in Read(c.uid) /\ c \in Read(c.uid)
    BY <1>2, <1>6, <2>2 DEF Item, Login, Read, Del, Held
  <2> HIDE DEF R
  <2>5. ASSUME NEW m \in Message, Owned(s, m) PROVE Owned(s, m)'
    <3>1. CASE r \notin Carry(m)
      BY <1>1, <1>3, <1>6, <2>3, <2>4, <2>5, <3>1, OwnedExec DEF c
    <3>2. CASE r \in Carry(m)
      <4>1. Has(mailbox[c.uid], {m})
        BY <2>2, <3>2 DEF Carry
      <4>2. m.receiver = c.uid
        BY <2>1, <4>1 DEF RedisOK, MailboxesAddressed, Has, Elements
      <4>3. OnList(m) /\ InOrder(Line(s), m.receiver)
        BY <2>1, <4>1, <4>2 DEF OnList, OnceHere
      <4> QED BY <1>1, <1>6, <2>2, <2>4, <2>5, <4>2, <4>3, OwnedRead DEF c
    <3> QED BY <3>1, <3>2
  <2> QED BY <1>1, <2>3, <2>4, <2>5, OnceExecuted DEF c
<1>7. CASE /\ c.op = "rpushMsg" /\ UNCHANGED answer
           /\ mailbox' = [mailbox EXCEPT ![c.msg.receiver] = Append(@, c.msg)]
  <2>1. c.msg \in Message
    BY <1>2, <1>7, CommandFields
  <2> DEFINE R == {}
  <2>2. R \in SUBSET Answer /\ R = {} /\ \A x : x \notin R
    OBVIOUS
  <2> HIDE DEF R, c
  <2>3. \A u : c \notin Del(u)
    BY <1>7 DEF Del
  <2>4. ASSUME NEW m \in Message, Owned(s, m) PROVE Owned(s, m)'
    <3>1. CASE m = c.msg
      <4>1. c \in Held(m)
        BY <1>2, <1>7, <3>1 DEF Held
      <4> QED BY <1>1, <1>7, <2>4, <3>1, <4>1, OwnedStored DEF c
    <3>2. CASE m # c.msg
      <4>1. m.receiver \in Uid /\ mailbox[m.receiver] \in Seq(Message)
        BY MessageFields DEF RedisOK
      <4>2. \/ mailbox'[m.receiver] = mailbox[m.receiver]
            \/ mailbox'[m.receiver] = Append(mailbox[m.receiver], c.msg)
        BY <1>7, <4>1 DEF RedisOK
      <4>3. One(mailbox'[m.receiver], {m}) /\ (Has(mailbox'[m.receiver], {m}) => OnList(m))
        <5>1. /\ One(Append(mailbox[m.receiver], c.msg), {m}) <=> One(mailbox[m.receiver], {m})
              /\ Has(Append(mailbox[m.receiver], c.msg), {m}) <=> Has(mailbox[m.receiver], {m})
          <6>1. c.msg \notin {m}
            BY <3>2
          <6> QED BY <2>1, <4>1, <6>1, InAppend
        <5> QED BY <1>3, <2>4, <4>2, <5>1
      <4> QED BY <1>1, <1>7, <2>2, <2>3, <2>4, <4>3, OwnedExec DEF c
    <3> QED BY <3>1, <3>2
  <2> QED BY <1>1, <1>7, <2>2, <2>4, OnceExecuted
<1>8. CASE c.op = "login" /\ Reply(s, c) /\ UNCHANGED mailbox
  BY <1>2, <1>4, <1>8, CommandFields
<1>9. CASE /\ c.op = "getOnline" /\ UNCHANGED mailbox
           /\ Reply(s, [op |-> "getOnline", msg |-> c.msg, at |-> online[c.msg.receiver]])
  <2> DEFINE r == [op |-> "getOnline", msg |-> c.msg, at |-> online[c.msg.receiver]]
  <2>1. c.msg \in Message /\ online[c.msg.receiver] \in Server \cup {Absent}
    BY <1>2, <1>9, CommandFields, MessageFields DEF RedisOK
  <2>2. r \in Answer /\ r.op = "getOnline" /\ r.msg = c.msg
    BY <2>1 DEF Answer
  <2> HIDE DEF c
  <2> QED BY <1>4, <1>9, <2>2
<1>10. CASE /\ c.op = "lrangeBlack" /\ UNCHANGED mailbox
            /\ Reply(s, [op |-> "lrangeBlack", uid |-> c.uid, list |-> blackKey[c.uid]])
  <2> DEFINE r == [op |-> "lrangeBlack", uid |-> c.uid, list |-> blackKey[c.uid]]
  <2>1. c.uid \in Uid /\ blackKey[c.uid] \in Seq(Uid)
    BY <1>2, <1>10, CommandFields DEF RedisOK
  <2>2. r \in Answer /\ r.op = "lrangeBlack"
    BY <2>1 DEF Answer
  <2> HIDE DEF c
  <2> QED BY <1>4, <1>10, <2>2
<1>11. CASE c.op = "delMsg" /\ UNCHANGED answer /\ mailbox' = [mailbox EXCEPT ![c.uid] = <<>>]
  <2>1. c.uid \in Uid
    BY <1>2, <1>11, CommandFields
  <2> HIDE DEF c
  <2>2. [mailbox EXCEPT ![c.uid] = <<>>] = mailbox => mailbox[c.uid] = <<>>
    BY <2>1 DEF RedisOK
  <2> QED BY <1>5, <1>11, <2>1, <2>2
<1>12. CASE c.op \in {"setOnline", "delOnline", "lpushBlack", "delBlack"} /\ UNCHANGED <<answer, mailbox>>
  BY <1>5, <1>12, UserAssumption
<1> HIDE DEF c
<1>13. \/ c.op = "login" /\ Reply(s, c) /\ UNCHANGED mailbox
       \/ /\ c.op = "getOnline" /\ UNCHANGED mailbox
          /\ Reply(s, [op |-> "getOnline", msg |-> c.msg, at |-> online[c.msg.receiver]])
       \/ /\ c.op = "lrangeMsg" /\ UNCHANGED mailbox
          /\ Reply(s, [op |-> "lrangeMsg", uid |-> c.uid, list |-> mailbox[c.uid]])
       \/ /\ c.op = "lrangeBlack" /\ UNCHANGED mailbox
          /\ Reply(s, [op |-> "lrangeBlack", uid |-> c.uid, list |-> blackKey[c.uid]])
       \/ c.op \in {"setOnline", "delOnline", "lpushBlack", "delBlack"} /\ UNCHANGED <<answer, mailbox>>
       \/ /\ c.op = "rpushMsg" /\ UNCHANGED answer
          /\ mailbox' = [mailbox EXCEPT ![c.msg.receiver] = Append(@, c.msg)]
       \/ c.op = "delMsg" /\ UNCHANGED answer /\ mailbox' = [mailbox EXCEPT ![c.uid] = <<>>]
  BY DEF RedisExec, redis, c
<1> QED BY <1>6, <1>7, <1>8, <1>9, <1>10, <1>11, <1>12, <1>13

-----------------------------------------------------------------------------
(* Every step                                                              *)

OnceInv(s) == Halted /\ Still /\ OnceHere(s)

\* A process that has ended sends and waits for nothing.
LEMMA HaltedStep ==
    ASSUME MemoryOK, PipeOK, AnswerOK, Halted, NEW s \in Server,
           \A t \in Server : t # s => pipe'[t] = pipe[t] /\ answer'[t] = answer[t] /\ alive'[t] = alive[t],
           Die(s) \/ (UNCHANGED alive /\ (alive[s] \/ UNCHANGED <<pipe, answer>>))
    PROVE  Halted'
<1>1. ASSUME NEW t \in Server, ~ alive'[t] PROVE pipe'[t] = <<>> /\ answer'[t] = <<>>
  BY <1>1 DEF Halted, Die, PipeOK, AnswerOK, MemoryOK
<1> QED BY <1>1 DEF Halted

LEMMA HaltedNext ==
    ASSUME IInv, Halted, [Next]_vars
    PROVE  Halted'
<1> USE DEF IInv
<1> DEFINE Apart(s) == \A t \in Server : t # s =>
               pipe'[t] = pipe[t] /\ answer'[t] = answer[t] /\ alive'[t] = alive[t]
<1>1. ASSUME NEW s \in Server, alive[s], UNCHANGED alive, Apart(s) PROVE Halted'
  BY <1>1, HaltedStep
<1>2. ASSUME NEW s \in Server, Die(s) PROVE Halted'
  BY <1>2, HaltedStep DEF Die, MemoryOK, PipeOK, AnswerOK
<1>3. UNCHANGED <<alive, pipe, answer>> => Halted'
  BY DEF Halted
<1>4. ASSUME NEW s \in Server, pipe[s] # <<>> \/ answer[s] # <<>> PROVE alive[s]
  BY <1>4 DEF Halted
<1>5. \A c \in Conn : ServerOf[c] \in Server
  BY ServerAssumption
<1>6. ASSUME NEW s \in Server, AnswerCallback(s) PROVE Halted'
  <2>1. answer[s] # <<>>
    BY <1>6 DEF AnswerCallback, LoginAnswer, OfflineAnswer, BlackAnswer, OnlineAnswer
  <2>2. \/ Die(s)
        \/ UNCHANGED alive /\ Apart(s)
    <3>1. LoginAnswer(s) => Die(s) \/ (UNCHANGED alive /\ Apart(s))
      BY DEF LoginAnswer, LoginThrough, LobbyLogin, Issue, PipeOK, AnswerOK
    <3>2. OfflineAnswer(s) => Die(s) \/ (UNCHANGED alive /\ Apart(s))
      BY DEF OfflineAnswer, Issue, PipeOK, AnswerOK
    <3>3. BlackAnswer(s) => Die(s) \/ (UNCHANGED alive /\ Apart(s))
      BY DEF BlackAnswer, PipeOK, AnswerOK
    <3>4. OnlineAnswer(s) => Die(s) \/ (UNCHANGED alive /\ Apart(s))
      BY DEF OnlineAnswer, Issue, PipeOK, AnswerOK
    <3> QED BY <1>6, <3>1, <3>2, <3>3, <3>4 DEF AnswerCallback
  <2> QED BY <1>1, <1>2, <1>4, <2>1, <2>2
<1>7. ASSUME NEW s \in Server, RedisExec(s) PROVE Halted'
  <2>1. pipe[s] # <<>> /\ UNCHANGED alive /\ Apart(s)
    BY <1>7 DEF RedisExec, Reply, PipeOK, AnswerOK
  <2> QED BY <1>1, <1>4, <2>1
<1>8. ASSUME NEW s \in Server, Tick(s) PROVE Halted'
  BY <1>2, <1>3, <1>8 DEF Tick
<1>9. ASSUME NEW s \in Server, alive[s], NEW m, NEW w, NewMessage(s, m, w) PROVE Halted'
  BY <1>1, <1>2, <1>3, <1>9 DEF NewMessage, Forward, PrivateChat, Issue, PipeOK
<1>10. ASSUME NEW s \in Server, alive[s], NEW u, LobbyLogout(s, u) PROVE Halted'
  BY <1>1, <1>2, <1>10 DEF LobbyLogout, Issue, PipeOK
<1>11. CASE Request
  <2>1. ASSUME NEW c \in Conn, Connect(c) \/ Disconnect(c) \/ Destroy(c) \/ PlayerList(c) PROVE Halted'
    BY <1>2, <1>3, <1>5, <1>10, <2>1 DEF Connect, Disconnect, Destroy, PlayerList, Up
  <2>2. ASSUME NEW c \in Conn, NEW u, LoginRequest(c, u) PROVE Halted'
    BY <1>1, <1>5, <2>2 DEF LoginRequest, Up, Issue, PipeOK
  <2>3. ASSUME NEW c \in Conn, NEW u, Logout(c, u) \/ GetBlackList(c, u) PROVE Halted'
    BY <1>2, <1>5, <1>10, <2>3 DEF Logout, GetBlackList, Up
  <2>4. ASSUME NEW c \in Conn, NEW u, NEW b, AddBlackList(c, u, b) \/ DelBlackList(c, u, b) PROVE Halted'
    BY <1>2, <1>3, <1>5, <2>4 DEF AddBlackList, DelBlackList, EditBlackList
  <2>5. ASSUME NEW c \in Conn, NEW m, Chat(c, m) PROVE Halted'
    BY <1>5, <1>9, <2>5 DEF Chat, Up
  <2> QED BY <1>11, <2>1, <2>2, <2>3, <2>4, <2>5 DEF Request
<1>12. CASE \E s, t \in Server : Receive(s, t)
  BY <1>9, <1>12 DEF Receive
<1>13. CASE UNCHANGED vars
  BY <1>3, <1>13 DEF vars
<1> QED BY <1>6, <1>7, <1>8, <1>11, <1>12, <1>13 DEF Next

LEMMA HaltedInit ==
    ASSUME Init
    PROVE  Halted
  BY DEF Init, Halted

\* A server on its own forwards nothing.
LEMMA StillNext ==
    ASSUME NEW s0, Server = {s0}, IInv, Still, [Next]_vars
    PROVE  Still'
<1>1. UNCHANGED wire => Still'
  BY DEF Still
<1>2. Peer[s0] = {} /\ \A c \in Conn : ServerOf[c] = s0
  BY ServerAssumption
<1>3. ASSUME NEW m, NewMessage(s0, m, wire) PROVE UNCHANGED wire
  <2>1. \A w : w \in [Server -> [Server -> Seq(Message)]] => Sent(w, s0, m, {}) = w
    BY DEF Sent
  <2>2. wire' = wire \/ wire' = Sent(wire, s0, m, {})
    BY <1>2, <1>3 DEF NewMessage, Forward
  <2> QED BY <2>1, <2>2 DEF IInv, WireOK
<1>4. ASSUME NEW c \in Conn, NEW m, Chat(c, m) PROVE UNCHANGED wire
  BY <1>2, <1>3, <1>4 DEF Chat
<1>5. CASE Request
  <2>1. \A c \in Conn : Connect(c) \/ Disconnect(c) \/ Destroy(c) \/ PlayerList(c) => UNCHANGED wire
    BY DEF Connect, Disconnect, Destroy, PlayerList
  <2>2. \A c, u : LoginRequest(c, u) \/ Logout(c, u) \/ GetBlackList(c, u) => UNCHANGED wire
    BY DEF LoginRequest, Logout, GetBlackList
  <2>3. \A c, u, b : AddBlackList(c, u, b) \/ DelBlackList(c, u, b) => UNCHANGED wire
    BY DEF AddBlackList, DelBlackList, EditBlackList
  <2> QED BY <1>1, <1>4, <1>5, <2>1, <2>2, <2>3 DEF Request
<1>6. ASSUME NEW s \in Server, AnswerCallback(s) \/ Tick(s) \/ RedisExec(s) PROVE UNCHANGED wire
  BY <1>2, <1>6 DEF AnswerCallback, LoginAnswer, OfflineAnswer, BlackAnswer, OnlineAnswer, Tick, RedisExec
<1>7. \A s, t \in Server : ~ Receive(s, t)
  BY DEF Receive, Still
<1>8. CASE UNCHANGED vars
  BY <1>1, <1>8 DEF vars
<1> QED BY <1>1, <1>5, <1>6, <1>7, <1>8 DEF Next

LEMMA OnceNext ==
    ASSUME NEW s0, Server = {s0}, ~ Overlap, \A m \in Message : m.type # "private" => m.receiver = Nobody,
           IInv, OnceInv(s0), [Next]_vars
    PROVE  OnceInv(s0)'
<1> USE DEF IInv, OnceInv
<1>1. Halted' /\ Still'
  BY HaltedNext, StillNext
<1>2. \A c \in Conn : ServerOf[c] = s0
  BY ServerAssumption
<1>3. ASSUME Die(s0), UNCHANGED <<mailbox, posted>> PROVE OnceHere(s0)'
  BY <1>3, OnceDie
<1>4. ASSUME UNCHANGED <<alive, answer, pipe, mailbox, bcast, posted>>, UNCHANGED player PROVE OnceHere(s0)'
  BY <1>4, CalmSame, OnceCalm
<1>5. ASSUME NEW u \in Uid, LobbyLogout(s0, u), UNCHANGED <<mailbox, posted>> PROVE OnceHere(s0)'
  BY <1>5, OnceLogout
<1>6. CASE Request
  <2>1. ASSUME NEW c \in Conn, Connect(c) \/ Destroy(c) PROVE OnceHere(s0)'
    BY <1>4, <2>1 DEF Connect, Destroy, memory, redis, env
  <2>2. ASSUME NEW c \in Conn, Disconnect(c) PROVE OnceHere(s0)'
    <3>1. owner[c] \in Uid
      BY DEF ConnsOK
    <3> QED BY <1>2, <1>4, <1>5, <2>2, <3>1 DEF Disconnect, memory, redis, env
  <2>3. ASSUME NEW c \in Conn, NEW u, PlayerList(c) \/ GetBlackList(c, u) PROVE OnceHere(s0)'
    BY <1>2, <1>3, <2>3 DEF PlayerList, GetBlackList, redis, env
  <2>4. ASSUME NEW c \in Conn, NEW u \in Uid, LoginRequest(c, u) PROVE OnceHere(s0)'
    BY <1>2, <2>4, OnceLoginRequest
  <2>5. ASSUME NEW c \in Conn, NEW u \in Account, Logout(c, u) PROVE OnceHere(s0)'
    BY <1>2, <1>5, <2>5 DEF Logout, Account, redis, env
  <2>6. ASSUME NEW c \in Conn, NEW u \in Account, NEW add, NEW del, EditBlackList(c, u, add, del)
        PROVE  OnceHere(s0)'
    <3>1. UNCHANGED <<mailbox, posted>>
      BY <2>6 DEF EditBlackList, redis, env
    <3>2. CASE Die(s0)
      BY <1>3, <3>1, <3>2
    <3>3. CASE ~ Die(s0)
      <4>1. /\ IsPlayer(s0, u)
            /\ player' = [player EXCEPT ![local[s0][u]].black = (@ \ del) \cup add]
            /\ UNCHANGED <<alive, local, active, bcast, pipe, answer>>
        BY <1>2, <2>6, <3>3 DEF EditBlackList
      <4>2. local[s0][u] \in Handle /\ Made(local[s0][u])
        BY <4>1 DEF IsPlayer, MemoryOK, SlotsAddressed, Account
      <4>3. Calm
        BY <4>1, <4>2, CalmBlack
      <4> QED BY <3>1, <4>1, <4>3, OnceCalm
    <3> QED BY <3>2, <3>3
  <2>7. ASSUME NEW c \in Conn, NEW m \in Message, Chat(c, m) PROVE OnceHere(s0)'
    BY <1>2, <2>7, OnceMessage DEF Chat, redis
  <2> QED BY <1>1, <1>6, <2>1, <2>2, <2>3, <2>4, <2>5, <2>6, <2>7 DEF Request, AddBlackList, DelBlackList
<1>7. AnswerCallback(s0) => OnceHere(s0)'
  BY OnceLoginAnswer, OnceOfflineAnswer, OnceBlackAnswer, OnceOnlineAnswer DEF AnswerCallback
<1>8. Tick(s0) \/ RedisExec(s0) => OnceHere(s0)'
  BY OnceTick, OnceExec
<1>9. \A s, t \in Server : ~ Receive(s, t)
  BY DEF Receive, Still
<1>10. CASE UNCHANGED vars
  <2>1. UNCHANGED <<alive, answer, pipe, mailbox, bcast, posted>> /\ UNCHANGED player
    BY <1>10 DEF vars, memory, redis, env
  <2> QED BY <1>1, <1>4, <2>1
<1> QED BY <1>1, <1>6, <1>7, <1>8, <1>9, <1>10 DEF Next

LEMMA OnceInit ==
    ASSUME NEW s0, Server = {s0}, Init
    PROVE  OnceInv(s0)
<1> USE DEF Init
<1>1. Halted /\ Still
  BY DEF Halted, Still
<1>2. Line(s0) = <<>> /\ answer[s0] = <<>> /\ bcast[s0] = <<>> /\ \A h \in Handle : ~ Made(h)
  BY DEF Line, Made
<1>3. ASSUME NEW m \in Message PROVE Owned(s0, m) /\ Announced(s0, m)
  <2>1. mailbox[m.receiver] = <<>>
    BY MessageFields
  <2>2. ~ Unread(s0, m) /\ ~ OnList(m) /\ ~ Out(s0, m)
    BY <1>2, <2>1, InNothing DEF Unread, OnList, Out, Got
  <2> QED BY <1>2, <2>1, <2>2, InNothing DEF Owned, Announced, OnceAt, Got
<1> QED BY <1>1, <1>2, <1>3, InOrderNothing DEF OnceInv, OnceHere

\* With one server, and accounts that are not logged in twice at a time, a
\* private message is sent to its receiver at most once over all its logins,
\* and a broadcast, which is addressed to nobody, at most once to each Player.
THEOREM DeliveredOnce ==
    ASSUME NEW s0, Server = {s0}, ~ Overlap,
           \A m \in Message : m.type # "private" => m.receiver = Nobody
    PROVE  Spec => []AtMostOnce
<1>1. IInv /\ OnceInv(s0) => AtMostOnce
  <2> SUFFICES ASSUME IInv, OnceInv(s0) PROVE AtMostOnce
    OBVIOUS
  <2>1. ASSUME NEW h \in Handle, NEW m \in Message, Made(h) PROVE player[h].sent[m] <= 1
    BY <2>1 DEF OnceInv, OnceHere, Owned, OnceAt, Announced
  <2>2. ASSUME NEW m \in Message, NEW g \in Handle, NEW h \in Handle, m.type = "private",
               Made(g), Made(h), player[g].sent[m] > 0, player[h].sent[m] > 0
        PROVE  g = h
    <3>1. Owned(s0, m) /\ Got(g, m) /\ Got(h, m)
      BY <2>2 DEF OnceInv, OnceHere, Got
    <3> QED BY <3>1 DEF Owned
  <2> QED BY <2>1, <2>2 DEF AtMostOnce
<1>2. IInv /\ OnceInv(s0) /\ [Next]_vars => OnceInv(s0)'
  BY OnceNext
<1>3. Init => OnceInv(s0)
  BY OnceInit
<1> QED BY <1>1, <1>2, <1>3, Inductive, PTL DEF Spec

-----------------------------------------------------------------------------
(* Where a private message waits, place by place: every step keeps it      *)
(* there, moves it on, or is one of the ways NoSilentLoss names.            *)

Sought(s, m)    == \E c \in Elements(pipe[s]) : c.op \in {"getOnline", "rpushMsg"} /\ c.msg = m
Found(s, m)     == \E a \in Elements(answer[s]) : a.op = "getOnline" /\ a.msg = m
Fetched(s, m)   == \E a \in Elements(answer[s]) : a.op = "lrangeMsg" /\ m \in Elements(a.list)
Queued(s, m)    == \E h \in active[s] : m \in Elements(player[h].queue)
Flying(s, t, m) == alive[t] /\ m \in Elements(wire[s][t])
Stored(m)       == m \in Elements(mailbox[m.receiver])

Spent(m) ==
    \/ SentTo(m)' \/ Blocked(m) \/ Ended(m) \/ Behind(m)
    \/ Unreachable(m) \/ ListDropped(m)
    \/ \E s \in Server : alive[s] /\ ~ alive'[s]

Kept(m) == Waiting(m)' \/ Spent(m)

LossStep == \A m \in Message : Waiting(m) /\ m.type = "private" /\ ~ Waiting(m)' => Spent(m)

LEMMA Places ==
    ASSUME NEW m
    PROVE  /\ Waiting(m) <=> \/ \E s \in Server : \/ Sought(s, m) \/ Found(s, m) \/ Fetched(s, m)
                                                  \/ Queued(s, m) \/ \E t \in Server : Flying(s, t, m)
                             \/ Stored(m)
           /\ Waiting(m)' <=> \/ \E s \in Server : \/ Sought(s, m)' \/ Found(s, m)' \/ Fetched(s, m)'
                                                   \/ Queued(s, m)' \/ \E t \in Server : Flying(s, t, m)'
                              \/ Stored(m)'
  BY DEF Waiting, Sought, Found, Fetched, Queued, Flying, Stored

\* What is kept place by place is kept.
LEMMA WaitingKept ==
    ASSUME NEW m,
           \A s \in Server : /\ Sought(s, m) => Sought(s, m)' \/ Kept(m)
                             /\ Found(s, m) => Found(s, m)' \/ Kept(m)
                             /\ Fetched(s, m) => Fetched(s, m)' \/ Kept(m)
                             /\ Queued(s, m) => Queued(s, m)' \/ Kept(m)
                             /\ \A t \in Server : Flying(s, t, m) => Flying(s, t, m)' \/ Kept(m),
           Stored(m) => Stored(m)' \/ Kept(m),
           Waiting(m)
    PROVE  Kept(m)
  BY Places DEF Kept

LEMMA PlacesUnchanged ==
    ASSUME NEW m
    PROVE  /\ UNCHANGED pipe => \A s \in Server : Sought(s, m) => Sought(s, m)'
           /\ UNCHANGED answer => \A s \in Server : (Found(s, m) => Found(s, m)') /\ (Fetched(s, m) => Fetched(s, m)')
           /\ UNCHANGED <<alive, wire>> => \A s, t \in Server : Flying(s, t, m) => Flying(s, t, m)'
           /\ UNCHANGED mailbox => (Stored(m) => Stored(m)')
  BY DEF Sought, Found, Fetched, Flying, Stored

LEMMA DieSpends ==
    ASSUME MemoryOK, NEW s \in Server, alive[s], Die(s), NEW m
    PROVE  Spent(m)
  BY DEF MemoryOK, Die, Spent

\* New commands come after the old ones.
LEMMA SoughtIssued ==
    ASSUME PipeOK, NEW s \in Server, NEW cmds \in Seq(Command), Issue(s, cmds), NEW m
    PROVE  /\ \A t \in Server : Sought(t, m) => Sought(t, m)'
           /\ \A i \in 1..Len(cmds) : cmds[i].op \in {"getOnline", "rpushMsg"} /\ cmds[i].msg = m
                  => Sought(s, m)'
<1>1. pipe[s] \in Seq(Command) /\ \A t \in Server : pipe'[t] = IF t = s THEN pipe[s] \o cmds ELSE pipe[t]
  BY DEF PipeOK, Issue
<1>2. ASSUME NEW p \in Seq(Command)
      PROVE  /\ Elements(p) \subseteq Elements(p \o cmds)
             /\ \A i \in 1..Len(cmds) : cmds[i] \in Elements(p \o cmds)
  <2>1. /\ DOMAIN p = 1..Len(p) /\ DOMAIN (p \o cmds) = 1..(Len(p) + Len(cmds))
        /\ \A i \in 1..Len(p) : (p \o cmds)[i] = p[i] /\ i \in 1..(Len(p) + Len(cmds))
        /\ \A i \in 1..Len(cmds) : (p \o cmds)[Len(p) + i] = cmds[i] /\ Len(p) + i \in 1..(Len(p) + Len(cmds))
    OBVIOUS
  <2> QED BY <2>1 DEF Elements
<1>3. Elements(pipe[s]) \subseteq Elements(pipe[s] \o cmds) /\ \A i \in 1..Len(cmds) : cmds[i] \in Elements(pipe[s] \o cmds)
  BY <1>1, <1>2
<1>4. /\ \A t \in Server : Elements(pipe[t]) \subseteq Elements(pipe'[t])
      /\ \A i \in 1..Len(cmds) : cmds[i] \in Elements(pipe'[s])
  BY <1>1, <1>3
<1> QED BY <1>4 DEF Sought

\* Of the messages in answers only those of the one that is handled leave.
LEMMA AnswerTaken ==
    ASSUME AnswerOK, NEW s \in Server, answer[s] # <<>>, answer' = [answer EXCEPT ![s] = Tail(@)], NEW m
    PROVE  LET a == Head(answer[s])
           IN  \A t \in Server :
                 /\ Found(t, m) => Found(t, m)' \/ (t = s /\ a.op = "getOnline" /\ a.msg = m)
                 /\ Fetched(t, m) => Fetched(t, m)' \/ (t = s /\ a.op = "lrangeMsg" /\ m \in Elements(a.list))
<1>1. answer[s] \in Seq(Answer) /\ \A t \in Server : answer'[t] = IF t = s THEN Tail(answer[s]) ELSE answer[t]
  BY DEF AnswerOK
<1>2. ASSUME NEW q \in Seq(Answer), q # <<>>
      PROVE  Elements(q) \subseteq {Head(q)} \cup Elements(Tail(q))
  <2>1. SUFFICES ASSUME NEW i \in 1..Len(q), i # 1 PROVE q[i] \in Elements(Tail(q))
    BY <1>2 DEF Elements
  <2>2. i - 1 \in DOMAIN Tail(q) /\ Tail(q)[i - 1] = q[i]
    BY <1>2, <2>1
  <2> QED BY <2>2 DEF Elements
<1>3. Elements(answer[s]) \subseteq {Head(answer[s])} \cup Elements(Tail(answer[s]))
  BY <1>1, <1>2
<1>4. \A t \in Server : t # s => answer'[t] = answer[t]
  BY <1>1
<1>5. answer'[s] = Tail(answer[s])
  BY <1>1
<1> QED BY <1>3, <1>4, <1>5 DEF Found, Fetched

\* A queue that is looked at keeps its messages and its place for the tick.
QueuesStay ==
    \A s \in Server : \A h \in active[s] :
        h \in active'[s] /\ Elements(player[h].queue) \subseteq Elements(player'[h].queue)

LEMMA QueuedStays ==
    ASSUME QueuesStay, NEW m
    PROVE  \A s \in Server : Queued(s, m) => Queued(s, m)'
  BY DEF QueuesStay, Queued

\* Players who join, edit their black lists, or do nothing leave the queues.
LEMMA QueuesKept ==
    ASSUME MemoryOK, UNCHANGED active,
           \/ UNCHANGED player
           \/ \E b : \E h \in Handle : player' = [player EXCEPT ![h].black = b]
           \/ \E p : \E h \in Handle : ~ Made(h) /\ player' = [player EXCEPT ![h] = p]
    PROVE  QueuesStay
<1>1. \A s \in Server : \A h \in active[s] : h \in Handle /\ Made(h) /\ player[h] \in Player
  BY DEF MemoryOK, Made
<1>2. CASE UNCHANGED player
  BY <1>2 DEF QueuesStay
<1>3. CASE \E b : \E h \in Handle : player' = [player EXCEPT ![h].black = b]
  <2>1. PICK b, h : h \in Handle /\ player' = [player EXCEPT ![h].black = b]
    BY <1>3
  <2>2. \A g \in Handle : player[g] \in Player => player'[g].queue = player[g].queue
    BY <2>1 DEF MemoryOK, Player
  <2> QED BY <1>1, <2>2 DEF QueuesStay
<1>4. CASE \E p : \E h \in Handle : ~ Made(h) /\ player' = [player EXCEPT ![h] = p]
  <2>1. \A g \in Handle : Made(g) => player'[g] = player[g]
    BY <1>4 DEF MemoryOK
  <2> QED BY <1>1, <2>1 DEF QueuesStay
<1> QED BY <1>2, <1>3, <1>4

\* A Player is given a list: what its black list lets through is in its queue,
\* and it has its place for the tick.
LEMMA QueuesGrow ==
    ASSUME MemoryOK, NEW s \in Server, NEW h \in Handle, Made(h), h \in Hearers(s), NEW list \in Seq(Message),
           \A m \in Elements(list) : m.receiver = player[h].uid,
           Enqueue(s, h, list), NEW m \in Message
    PROVE  /\ QueuesStay
           /\ m \in Elements(list) => Queued(s, m)' \/ Blocked(m)
<1>1. /\ \A g \in Handle : g # h => player'[g] = player[g]
      /\ \A n \in Message : Has(player'[h].queue, {n})
             <=> Has(player[h].queue, {n}) \/ (Has(list, {n}) /\ ~ isInBlackList(player[h].black, n))
  <2>1. \A g \in Handle : g # h => player'[g] = player[g]
    BY Enqueued
  <2>2. ASSUME NEW n \in Message
        PROVE  Has(player'[h].queue, {n})
                 <=> Has(player[h].queue, {n}) \/ (Has(list, {n}) /\ ~ isInBlackList(player[h].black, n))
    BY Enqueued
  <2> QED BY <2>1, <2>2
<1>2. \A q, n : Has(q, {n}) <=> n \in Elements(q)
  BY DEF Has, Elements
<1>3. Elements(player[h].queue) \subseteq Message
  BY DEF MemoryOK, Made, Player, Elements
<1>4. \A g \in Handle : Elements(player[g].queue) \subseteq Elements(player'[g].queue)
  BY <1>1, <1>2, <1>3
<1>5. \A t \in Server : active[t] \subseteq active'[t] /\ active[t] \subseteq Handle
  BY DEF MemoryOK, Enqueue
<1>6. QueuesStay
  BY <1>4, <1>5 DEF QueuesStay
<1>7. ASSUME m \in Elements(list) PROVE Queued(s, m)' \/ Blocked(m)
  <2>1. list # <<>>
    BY <1>7 DEF Elements
  <2>2. h \in active'[s]
    BY <2>1 DEF MemoryOK, Enqueue
  <2>3. CASE isInBlackList(player[h].black, m)
    BY <1>7, <2>3 DEF Blocked
  <2>4. CASE ~ isInBlackList(player[h].black, m)
    <3>1. m \in Elements(player'[h].queue)
      BY <1>1, <1>2, <1>7, <2>4
    <3> QED BY <2>2, <3>1 DEF Queued
  <2> QED BY <2>3, <2>4
<1> QED BY <1>6, <1>7

\* What the tick takes from a queue is sent, on a connection that is up and
\* unless the player has black-listed its sender.
LEMMA FlushedTaken ==
    ASSUME MemoryOK, NEW s \in Server, NEW h \in active[s], NEW i \in 1..Front(player[h].queue),
           cstate[player[h].conn] = "up", ~ isInBlackList(player[h].black, player[h].queue[i])
    PROVE  Flushed(s, h).sent[player[h].queue[i]] > 0
<1> DEFINE p  == player[h]
           m  == p.queue[i]
           n  == IF h \in active[s] THEN Front(p.queue) ELSE 0
           b  == IF h \in Hearers(s) THEN Len(bcast[s]) ELSE 0
           up == cstate[p.conn] = "up"
           queue == SubSeq(p.queue, n + 1, Len(p.queue))
           new(k) == p.sent[k] + Times(k, p.queue, n) + Times(k, bcast[s], b)
           sent == [k \in Message |-> IF up /\ k.sender \notin p.black THEN new(k) ELSE p.sent[k]]
<1>1. p \in Player /\ p.queue \in Seq(Message) /\ p.sent \in [Message -> Nat] /\ bcast[s] \in Seq(Message)
  BY DEF MemoryOK, Made, Player
<1>2. n = Front(p.queue) /\ n \in 0..Len(p.queue) /\ n \in Nat /\ b \in Nat /\ m \in Message
  BY <1>1, FrontNat
<1>3. Flushed(s, h) = [p EXCEPT !.queue = queue, !.sent = sent]
  BY <1>1 DEF Flushed, isInBlackList
<1>4. Times(m, p.queue, n) > 0
  BY <1>2, TimesSome
<1>5. p.sent[m] \in Nat /\ Times(m, p.queue, n) \in Nat /\ Times(m, bcast[s], b) \in Nat
  BY <1>1, <1>2, TimesNat
<1>6. new(m) > 0
  BY <1>4, <1>5
<1>7. sent[m] = new(m)
  BY <1>2 DEF isInBlackList
<1> HIDE DEF queue, sent
<1>8. Flushed(s, h).sent = sent
  BY <1>1, <1>3 DEF Player
<1> QED BY <1>6, <1>7, <1>8

\* A player who is not on the list for the tick keeps its queue.
LEMMA FlushedIdle ==
    ASSUME MemoryOK, NEW s \in Server, NEW h \in Handle, Made(h), h \notin active[s]
    PROVE  Flushed(s, h).queue = player[h].queue
<1> DEFINE p == player[h]
           queue == SubSeq(p.queue, 0 + 1, Len(p.queue))
           sent == Flushed(s, h).sent
<1>1. p \in Player /\ p.queue \in Seq(Message)
  BY DEF MemoryOK, Made, Player
<1>2. \A q \in Seq(Message) : SubSeq(q, 0 + 1, Len(q)) = q
  OBVIOUS
<1>3. Flushed(s, h).queue = queue
  BY <1>1 DEF Flushed, Player
<1> QED BY <1>1, <1>2, <1>3

LEMMA TickKept ==
    ASSUME IInv, NEW s \in Server, Tick(s), NEW m \in Message, Waiting(m)
    PROVE  Kept(m)
<1> USE DEF IInv
<1>1. CASE Die(s)
  BY <1>1, DieSpends DEF Tick, Kept
<1>2. CASE /\ player' = [h \in Handle |-> IF h \in active[s] \cup Hearers(s)
                                          THEN Flushed(s, h) ELSE player[h]]
           /\ active' = [active EXCEPT ![s] = {}]
           /\ UNCHANGED <<alive, pipe, answer>>
  <2>1. UNCHANGED <<alive, pipe, answer, wire, mailbox>>
    BY <1>2 DEF Tick, redis
  <2>2. \A t \in Server : \A h \in active[t] : h \in Handle /\ Made(h) /\ player[h].queue \in Seq(Message)
    BY DEF MemoryOK, Made, Player
  <2>3. ASSUME NEW h \in active[s], m \in Elements(player[h].queue)
        PROVE  Kept(m)
    <3> DEFINE q == player[h].queue
    <3>1. PICK i \in 1..Len(q) : q[i] = m
      BY <2>2, <2>3 DEF Elements
    <3>2. CASE i > Front(q)
      <4>1. Front(q) = Batch
        BY <2>2, <3>1, <3>2, BoundAssumption DEF Front
      <4>2. i \in DOMAIN q /\ i > Batch
        BY <2>2, <3>1, <3>2, <4>1
      <4> QED BY <3>1, <4>2 DEF Behind, Spent, Kept
    <3>3. CASE ~ i > Front(q)
      <4>1. i \in 1..Front(q)
        BY <2>2, <3>1, <3>3, FrontNat
      <4>2. CASE cstate[player[h].conn] # "up"
        BY <2>3, <4>2 DEF Ended, Spent, Kept
      <4>3. CASE isInBlackList(player[h].black, m)
        <5>1. player[h].uid = m.receiver
          BY <2>2, <2>3 DEF MemoryOK, QueuesAddressed
        <5> QED BY <4>3, <5>1 DEF Blocked, Spent, Kept
      <4>4. CASE cstate[player[h].conn] = "up" /\ ~ isInBlackList(player[h].black, m)
        <5>1. Flushed(s, h).sent[m] > 0
          BY <3>1, <4>1, <4>4, FlushedTaken
        <5>2. player'[h] = Flushed(s, h) /\ h \in Handle
          BY <1>2, <2>2
        <5>3. Made(h)'
          BY <2>2, <5>2, FlushedType, NullAssumption DEF Made
        <5> QED BY <5>1, <5>2, <5>3 DEF SentTo, Spent, Kept
      <4> QED BY <4>2, <4>3, <4>4
    <3> QED BY <3>2, <3>3
  <2>4. ASSUME NEW t \in Server, t # s, NEW h \in active[t], h \notin active[s]
        PROVE  h \in active'[t] /\ player'[h].queue = player[h].queue
    <3>1. h \in active'[t]
      BY <1>2, <2>4 DEF MemoryOK
    <3>2. player'[h] \in {Flushed(s, h), player[h]}
      BY <1>2, <2>2
    <3> QED BY <2>2, <2>4, <3>1, <3>2, FlushedIdle
  <2>5. \A t \in Server : Queued(t, m) => Queued(t, m)' \/ Kept(m)
    BY <2>3, <2>4 DEF Queued
  <2> QED BY <2>1, <2>5, PlacesUnchanged, WaitingKept
<1> QED BY <1>1, <1>2 DEF Tick

\* Requests and logins: no place is left, or a process ends.
LEMMA QuietKept ==
    ASSUME IInv, UNCHANGED <<alive, answer, wire, mailbox>>, QueuesStay,
           UNCHANGED pipe \/ \E s \in Server : \E cmds \in Seq(Command) : Issue(s, cmds),
           NEW m \in Message, Waiting(m)
    PROVE  Kept(m)
<1>1. \A s \in Server : Sought(s, m) => Sought(s, m)'
  BY PlacesUnchanged, SoughtIssued DEF IInv
<1> QED BY <1>1, PlacesUnchanged, QueuedStays, WaitingKept

LEMMA LogoutKept ==
    ASSUME IInv, NEW s \in Server, alive[s], NEW u \in Uid, LobbyLogout(s, u),
           UNCHANGED <<wire, mailbox>>, NEW m \in Message, Waiting(m)
    PROVE  Kept(m)
<1>1. CASE Die(s)
  BY <1>1, DieSpends DEF Kept, IInv
<1>2. CASE ~ Die(s)
  <2>1. IsPlayer(s, u) /\ UNCHANGED <<alive, player, active, answer>>
    BY <1>2 DEF LobbyLogout
  <2>2. PICK cmds \in LogoutCommands(u, player[local[s][u]].black) : Issue(s, cmds)
    BY <1>2 DEF LobbyLogout
  <2>3. player[local[s][u]].black \subseteq Uid
    BY <2>1 DEF IInv, MemoryOK, IsPlayer, SlotsAddressed, Made, Player
  <2>4. cmds \in Seq(Command)
    <3>1. \A B \in SUBSET Uid : LogoutCommands(u, B) \subseteq Seq(Command)
      BY LogoutCommandsFields
    <3> QED BY <2>2, <2>3, <3>1
  <2>5. QueuesStay
    BY <2>1, QueuesKept DEF IInv
  <2> QED BY <2>1, <2>2, <2>4, <2>5, QuietKept
<1> QED BY <1>1, <1>2

\* A chat that server s handles: whatever waited stays where it was, or a
\* process ends; and a private message that is handled waits or is blocked.
LEMMA MessageKept ==
    ASSUME IInv, NEW s \in Server, alive[s], NEW n \in Message,
           NEW w \in [Server -> [Server -> Seq(Message)]], NewMessage(s, n, w), NEW m \in Message
    PROVE  \/ Spent(m)
           \/ /\ UNCHANGED <<alive, answer>> /\ QueuesStay
              /\ \A t \in Server : Sought(t, m) => Sought(t, m)'
              /\ \A r, t \in Server : Elements(w[r][t]) \subseteq Elements(wire'[r][t])
              /\ m = n /\ m.type = "private" => Kept(m)
<1> USE DEF IInv
<1> DEFINE Well == /\ UNCHANGED <<alive, answer>> /\ QueuesStay
                   /\ \A t \in Server : Sought(t, m) => Sought(t, m)'
                   /\ \A r, t \in Server : Elements(w[r][t]) \subseteq Elements(wire'[r][t])
                   /\ m = n /\ m.type = "private" => Kept(m)
<1>1. CASE Die(s)
  BY <1>1, DieSpends
<1>2. CASE /\ n.type = "server"
           /\ wire' = Sent(w, s, n, {t \in Peer[s] : alive[t]})
           /\ UNCHANGED <<alive, local, player, active, pipe, answer>>
  <2>1. QueuesStay
    BY <1>2, QueuesKept
  <2>2. \A t \in Server : Sought(t, m) => Sought(t, m)'
    BY <1>2, PlacesUnchanged
  <2>3. \A r, t \in Server : Elements(w[r][t]) \subseteq Elements(wire'[r][t])
    <3>1. TAKE r \in Server, t \in Server
    <3>2. w[r][t] \in Seq(Message)
      OBVIOUS
    <3>3. Elements(w[r][t]) \subseteq Elements(Append(w[r][t], n))
      <4>1. \A q \in Seq(Message) : \A i \in DOMAIN q :
                i \in DOMAIN Append(q, n) /\ Append(q, n)[i] = q[i]
        OBVIOUS
      <4>2. \A q \in Seq(Message) : Elements(q) \subseteq Elements(Append(q, n))
        BY <4>1 DEF Elements
      <4> QED BY <3>2, <4>2
    <3>4. wire'[r][t] \in {w[r][t], Append(w[r][t], n)}
      BY <1>2 DEF Sent
    <3> QED BY <3>3, <3>4
  <2> QED BY <1>2, <2>1, <2>2, <2>3
<1>3. CASE PrivateChat(s, n) /\ wire' = w /\ ~ Die(s)
  <2> DEFINE u == n.receiver
             h == local[s][u]
  <2>0. u \in Uid /\ \A r, t \in Server : Elements(w[r][t]) \subseteq Elements(wire'[r][t])
    BY <1>3, MessageFields
  <2>1. CASE IsPlayer(s, u) /\ Enqueue(s, h, <<n>>) /\ UNCHANGED <<alive, local, pipe, answer>>
    <3>1. h \in Handle /\ Made(h) /\ player[h].uid = u /\ h \in Hearers(s)
      BY <2>0, <2>1 DEF IsPlayer, MemoryOK, SlotsAddressed, Hearers
    <3>2. <<n>> \in Seq(Message) /\ Elements(<<n>>) = {n}
      BY DEF Elements
    <3> HIDE DEF h
    <3>3. QueuesStay /\ (m = n => Queued(s, m)' \/ Blocked(m))
      BY <2>1, <3>1, <3>2, QueuesGrow
    <3>4. m = n => Kept(m)
      BY <3>3, Places DEF Kept, Spent
    <3> QED BY <2>0, <2>1, <3>3, <3>4, PlacesUnchanged
  <2>2. CASE Issue(s, <<[op |-> "getOnline", msg |-> n]>>) /\ UNCHANGED <<alive, local, player, active, answer>>
    <3> DEFINE c == [op |-> "getOnline", msg |-> n]
    <3>1. c \in Command /\ c.op = "getOnline" /\ c.msg = n
      BY DEF Command
    <3> HIDE DEF c
    <3>2. <<c>> \in Seq(Command) /\ 1 \in 1..Len(<<c>>) /\ <<c>>[1] = c
      BY <3>1
    <3>3. Issue(s, <<c>>)
      BY <2>2 DEF c
    <3>4. \A t \in Server : Sought(t, m) => Sought(t, m)'
      BY <3>2, <3>3, SoughtIssued
    <3>5. m = n => Sought(s, m)'
      BY <3>1, <3>2, <3>3, SoughtIssued
    <3>6. m = n => Kept(m)
      BY <3>5, Places DEF Kept
    <3>7. QueuesStay
      BY <2>2, QueuesKept
    <3> QED BY <2>0, <2>2, <3>4, <3>6, <3>7
  <2> QED BY <1>3, <2>1, <2>2 DEF PrivateChat
<1> QED BY <1>1, <1>2, <1>3 DEF NewMessage, Forward

LEMMA ChatKept ==
    ASSUME IInv, NEW c \in Conn, NEW n \in Message, Chat(c, n), NEW m \in Message, Waiting(m)
    PROVE  Kept(m)
<1>1. ServerOf[c] \in Server /\ alive[ServerOf[c]] /\ NewMessage(ServerOf[c], n, wire)
      /\ wire \in [Server -> [Server -> Seq(Message)]] /\ UNCHANGED mailbox
  BY ServerAssumption DEF Chat, Up, IInv, WireOK, redis
<1>2. CASE Spent(m)
  BY <1>2 DEF Kept
<1>3. CASE /\ UNCHANGED <<alive, answer>> /\ QueuesStay
           /\ \A t \in Server : Sought(t, m) => Sought(t, m)'
           /\ \A r, t \in Server : Elements(wire[r][t]) \subseteq Elements(wire'[r][t])
  <2>1. \A r, t \in Server : Flying(r, t, m) => Flying(r, t, m)'
    BY <1>3 DEF Flying
  <2> QED BY <1>1, <1>3, <2>1, PlacesUnchanged, QueuedStays, WaitingKept
<1> QED BY <1>1, <1>2, <1>3, MessageKept

LEMMA ReceiveKept ==
    ASSUME IInv, NEW r \in Server, NEW s \in Server, Receive(r, s),
           NEW m \in Message, m.type = "private", Waiting(m)
    PROVE  Kept(m)
<1> DEFINE q == wire[r][s]
           n == Head(q)
           w == [wire EXCEPT ![r][s] = Tail(q)]
<1>1. q \in Seq(Message) /\ q # <<>> /\ n \in Message /\ Tail(q) \in Seq(Message)
  BY DEF Receive, IInv, WireOK
<1>2. w \in [Server -> [Server -> Seq(Message)]]
  BY <1>1 DEF IInv, WireOK
<1>3. alive[s] /\ NewMessage(s, n, w) /\ UNCHANGED mailbox
  BY DEF Receive, redis
<1>4. Elements(q) \subseteq {n} \cup Elements(Tail(q))
  <2>1. ASSUME NEW i \in 1..Len(q), i # 1 PROVE q[i] \in Elements(Tail(q))
    <3>1. i - 1 \in DOMAIN Tail(q) /\ Tail(q)[i - 1] = q[i]
      BY <1>1, <2>1
    <3> QED BY <3>1 DEF Elements
  <2>2. n = q[1] /\ DOMAIN q = 1..Len(q)
    BY <1>1
  <2> HIDE DEF q, n
  <2> QED BY <2>1, <2>2 DEF Elements
<1>5. \A a, b \in Server : w[a][b] = IF a = r /\ b = s THEN Tail(q) ELSE wire[a][b]
  BY DEF IInv, WireOK
<1> HIDE DEF q, n, w
<1>6. CASE Spent(m)
  BY <1>6 DEF Kept
<1>7. CASE /\ UNCHANGED <<alive, answer>> /\ QueuesStay
           /\ \A t \in Server : Sought(t, m) => Sought(t, m)'
           /\ \A a, b \in Server : Elements(w[a][b]) \subseteq Elements(wire'[a][b])
           /\ m = n /\ m.type = "private" => Kept(m)
  <2>1. \A a, b \in Server : Flying(a, b, m) => Flying(a, b, m)' \/ Kept(m)
    <3>1. SUFFICES ASSUME NEW a \in Server, NEW b \in Server, Flying(a, b, m), m # n
                   PROVE  Flying(a, b, m)'
      BY <1>7
    <3>2. m \in Elements(w[a][b])
      <4>1. CASE a = r /\ b = s
        BY <1>4, <1>5, <3>1, <4>1 DEF Flying, q
      <4>2. CASE ~ (a = r /\ b = s)
        BY <1>5, <3>1, <4>2 DEF Flying
      <4> QED BY <4>1, <4>2
    <3> QED BY <1>7, <3>1, <3>2 DEF Flying
  <2> QED BY <1>3, <1>7, <2>1, PlacesUnchanged, QueuedStays, WaitingKept
<1> QED BY <1>1, <1>2, <1>3, <1>6, <1>7, MessageKept

\* The answer of a login or of LRANGE black:<uid>
LEMMA LoginAnswerKept ==
    ASSUME IInv, Halted, NEW s \in Server, LoginAnswer(s) \/ BlackAnswer(s), NEW m \in Message, Waiting(m)
    PROVE  Kept(m)
<1> USE DEF IInv
<1> DEFINE a == Head(answer[s])
<1>1. answer[s] # <<>> /\ alive[s] /\ a.op \in {"login", "lrangeBlack"} /\ a \in Answer
      /\ UNCHANGED <<wire, mailbox>>
  BY TakeAnswer DEF LoginAnswer, BlackAnswer, Halted, redis
<1>2. CASE Die(s)
  BY <1>1, <1>2, DieSpends DEF Kept
<1>3. ASSUME answer' = [answer EXCEPT ![s] = Tail(@)], UNCHANGED alive, QueuesStay,
             UNCHANGED pipe \/ \E cmds \in Seq(Command) : Issue(s, cmds)
      PROVE  Kept(m)
  <2>1. \A t \in Server : Sought(t, m) => Sought(t, m)'
    BY <1>3, PlacesUnchanged, SoughtIssued
  <2>2. \A t \in Server : (Found(t, m) => Found(t, m)') /\ (Fetched(t, m) => Fetched(t, m)')
    BY <1>1, <1>3, AnswerTaken
  <2> QED BY <1>1, <1>3, <2>1, <2>2, PlacesUnchanged, QueuedStays, WaitingKept
<1>4. UNCHANGED <<player, active>> => QueuesStay
  BY QueuesKept
<1>5. ASSUME NEW c, LoginAnswer(s), LobbyLogin(s, a.uid, c) PROVE QueuesStay /\ \E cmds \in Seq(Command) : Issue(s, cmds)
  <2>1. a.uid \in Uid
    BY <1>1, <1>5, AnswerFields DEF LoginAnswer
  <2> HIDE DEF a
  <2>2. LoginCommands(a.uid) \in Seq(Command)
    BY <2>1 DEF LoginCommands, Command
  <2>3. UNCHANGED active /\ (UNCHANGED player \/ \E h \in Handle : ~ Made(h) /\ player' = [player EXCEPT ![h] = NewPlayer(a.uid, c)])
    BY <1>5 DEF LobbyLogin, Insert
  <2> QED BY <1>5, <2>2, <2>3, QueuesKept DEF LobbyLogin
<1>6. CASE LoginAnswer(s)
  <2>1. CASE Refused(a.uid) /\ answer' = [answer EXCEPT ![s] = Tail(@)] /\ UNCHANGED <<alive, memory, pipe>>
    BY <1>3, <1>4, <2>1 DEF memory
  <2>2. ASSUME NEW c, LobbyLogin(s, a.uid, c), answer' = [answer EXCEPT ![s] = Tail(@)] PROVE Kept(m)
    <3>1. UNCHANGED alive
      BY <2>2 DEF LobbyLogin
    <3> QED BY <1>3, <1>5, <1>6, <2>2, <3>1
  <2> QED BY <1>2, <1>6, <2>1, <2>2 DEF LoginAnswer, LoginThrough
<1>7. CASE BlackAnswer(s) /\ ~ Die(s)
  <2>1. a.uid \in Uid
    BY <1>1, <1>7, AnswerFields DEF BlackAnswer
  <2>2. answer' = [answer EXCEPT ![s] = Tail(@)] /\ UNCHANGED <<alive, pipe, active>>
    BY <1>7 DEF BlackAnswer
  <2>3. CASE UNCHANGED player
    BY <1>3, <1>4, <2>2, <2>3
  <2>4. CASE /\ IsPlayer(s, a.uid)
             /\ player' = [player EXCEPT ![local[s][a.uid]].black = @ \cup Restored(a.list)]
    <3> DEFINE h == local[s][a.uid]
    <3>1. h \in Handle
      BY <2>4 DEF IsPlayer
    <3>2. player' = [player EXCEPT ![h].black = player[h].black \cup Restored(a.list)]
      BY <2>4
    <3> HIDE DEF h, a
    <3>3. QueuesStay
      BY <2>2, <3>1, <3>2, QueuesKept
    <3> QED BY <1>3, <2>2, <3>3
  <2> QED BY <1>7, <2>3, <2>4 DEF BlackAnswer
<1> QED BY <1>2, <1>6, <1>7

\* The answer of LRANGE msg:<uid>: the list goes into the Player's queue.
LEMMA OfflineAnswerKept ==
    ASSUME IInv, Halted, NEW s \in Server, OfflineAnswer(s), NEW m \in Message, Waiting(m)
    PROVE  Kept(m)
<1> USE DEF IInv
<1> DEFINE a == Head(answer[s])
           u == a.uid
           h == local[s][u]
           list == a.list
<1>1. answer[s] # <<>> /\ alive[s] /\ a.op = "lrangeMsg" /\ a \in Answer /\ a \in Elements(answer[s])
      /\ UNCHANGED <<wire, mailbox>>
  BY TakeAnswer DEF OfflineAnswer, Halted, redis
<1>2. u \in Uid /\ list \in Seq(Message) /\ \A n \in Elements(list) : n.receiver = u
  BY <1>1, AnswerFields DEF AnswerOK, AnswersAddressed
<1>3. CASE Die(s)
  BY <1>1, <1>3, DieSpends DEF Kept
<1>4. CASE ~ Die(s)
  <2>1. /\ answer' = [answer EXCEPT ![s] = Tail(@)] /\ Issue(s, Emptied(u)) /\ UNCHANGED alive
        /\ \/ IsPlayer(s, u) /\ Enqueue(s, h, list)
           \/ list = <<>> /\ UNCHANGED <<player, active>>
    BY <1>4 DEF OfflineAnswer
  <2>2. QueuesStay /\ (m \in Elements(list) => Kept(m))
    <3>1. CASE IsPlayer(s, u) /\ Enqueue(s, h, list)
      <4>1. h \in Handle /\ Made(h) /\ player[h].uid = u /\ h \in Hearers(s)
        BY <1>2, <3>1 DEF IsPlayer, MemoryOK, SlotsAddressed, Hearers
      <4> HIDE DEF h, list, u
      <4>2. QueuesStay /\ (m \in Elements(list) => Queued(s, m)' \/ Blocked(m))
        BY <1>2, <3>1, <4>1, QueuesGrow
      <4> QED BY <4>2, Places DEF Kept, Spent
    <3>2. CASE list = <<>> /\ UNCHANGED <<player, active>>
      <4>1. Elements(<<>>) = {}
        BY DEF Elements
      <4> QED BY <3>2, <4>1, QueuesKept
    <3> QED BY <2>1, <3>1, <3>2
  <2>3. \A t \in Server : Sought(t, m) => Sought(t, m)'
    <3>1. Emptied(u) \in Seq(Command)
      BY <1>2 DEF Emptied, Command
    <3> HIDE DEF u
    <3> QED BY <2>1, <3>1, SoughtIssued
  <2>4. \A t \in Server : (Found(t, m) => Found(t, m)') /\ (Fetched(t, m) => Fetched(t, m)' \/ Kept(m))
    BY <1>1, <2>1, <2>2, AnswerTaken
  <2> QED BY <1>1, <2>1, <2>2, <2>3, <2>4, PlacesUnchanged, QueuedStays, WaitingKept
<1> QED BY <1>3, <1>4

\* The answer of GET <uid>:online: the message is forwarded or stored.
LEMMA OnlineAnswerKept ==
    ASSUME IInv, Halted, NeverForwardedToSelf, NEW s \in Server, OnlineAnswer(s), NEW m \in Message, Waiting(m)
    PROVE  Kept(m)
<1> USE DEF IInv
<1> DEFINE a == Head(answer[s])
           n == a.msg
<1>1. answer[s] # <<>> /\ alive[s] /\ a.op = "getOnline" /\ a \in Answer /\ a \in Elements(answer[s])
  BY TakeAnswer DEF OnlineAnswer, Halted
<1>2. n \in Message /\ a.at \in Server \cup {Absent} /\ a.at # s /\ UNCHANGED mailbox
  BY <1>1, AnswerFields DEF NeverForwardedToSelf, OnlineAnswer, redis
<1>3. CASE Die(s)
  BY <1>1, <1>3, DieSpends DEF Kept
<1>4. CASE ~ Die(s)
  <2>1. QueuesStay /\ UNCHANGED alive /\ answer' = [answer EXCEPT ![s] = Tail(@)]
    BY <1>1, <1>4, QueuesKept DEF OnlineAnswer, memory
  <2>2. /\ \A t \in Server : Sought(t, m) => Sought(t, m)'
        /\ \A r, t \in Server : Flying(r, t, m) => Flying(r, t, m)'
        /\ m = n => Kept(m)
    <3>1. CASE Issue(s, <<[op |-> "rpushMsg", msg |-> n]>>) /\ UNCHANGED <<alive, wire>>
      <4> DEFINE c == [op |-> "rpushMsg", msg |-> n]
      <4>1. c \in Command /\ c.op = "rpushMsg" /\ c.msg = n
        BY <1>2 DEF Command
      <4> HIDE DEF c, n
      <4>2. <<c>> \in Seq(Command) /\ 1 \in 1..Len(<<c>>) /\ <<c>>[1] = c
        BY <4>1
      <4>3. Issue(s, <<c>>)
        BY <3>1 DEF c
      <4>4. /\ \A t \in Server : Sought(t, m) => Sought(t, m)'
            /\ m = n => Sought(s, m)'
        BY <4>1, <4>2, <4>3, SoughtIssued
      <4> QED BY <3>1, <4>4, Places, PlacesUnchanged DEF Kept
    <3>2. CASE /\ a.at \in Peer[s] /\ alive[a.at]
               /\ wire' = [wire EXCEPT ![s][a.at] = Append(@, n)]
               /\ UNCHANGED <<alive, pipe>>
      <4>0. PICK t0 \in Server : t0 = a.at
        BY <3>2, ServerAssumption
      <4> DEFINE q == wire[s][t0]
      <4>1. q \in Seq(Message) /\ Len(q) \in Nat /\ n \in Message
        BY <1>2 DEF WireOK
      <4>2. \A i \in DOMAIN q : i \in DOMAIN Append(q, n) /\ Append(q, n)[i] = q[i]
        BY <4>1
      <4>3. Len(q) + 1 \in DOMAIN Append(q, n) /\ Append(q, n)[Len(q) + 1] = n
        <5> HIDE DEF q, n
        <5> QED BY <4>1
      <4>4. \A r, t \in Server : wire'[r][t] = IF r = s /\ t = t0 THEN Append(q, n) ELSE wire[r][t]
        BY <3>2, <4>0 DEF WireOK
      <4> HIDE DEF n, q
      <4>5. Elements(q) \subseteq Elements(Append(q, n)) /\ n \in Elements(Append(q, n))
        BY <4>2, <4>3 DEF Elements
      <4>6. \A r, t \in Server : Elements(wire[r][t]) \subseteq Elements(wire'[r][t])
        BY <4>4, <4>5 DEF q
      <4>7. n \in Elements(wire'[s][t0])
        BY <4>4, <4>5
      <4>8. alive'[t0]
        BY <3>2, <4>0
      <4>9. m = n => Flying(s, t0, m)'
        BY <4>7, <4>8 DEF Flying
      <4>10. \A r, t \in Server : Flying(r, t, m) => Flying(r, t, m)'
        BY <3>2, <4>6 DEF Flying
      <4> QED BY <3>2, <4>9, <4>10, Places, PlacesUnchanged DEF Kept
    <3>3. CASE /\ a.at \in Server /\ (a.at \in Peer[s] => ~ alive[a.at])
               /\ UNCHANGED <<alive, pipe, wire>>
      <4>1. m = n => Unreachable(m)
        BY <1>1, <1>2, <3>3 DEF Unreachable
      <4> QED BY <3>3, <4>1, PlacesUnchanged DEF Kept, Spent
    <3> QED BY <1>4, <3>1, <3>2, <3>3 DEF OnlineAnswer, memory
  <2>3. \A t \in Server : (Found(t, m) => Found(t, m)' \/ Kept(m)) /\ (Fetched(t, m) => Fetched(t, m)')
    BY <1>1, <2>1, <2>2, AnswerTaken
  <2> QED BY <1>2, <2>1, <2>2, <2>3, PlacesUnchanged, QueuedStays, WaitingKept
<1> QED BY <1>3, <1>4

\* Redis executes a command: the message a command or a list is about moves
\* on, and DEL empties a list.
LEMMA ExecKept ==
    ASSUME IInv, NEW s \in Server, RedisExec(s), NEW m \in Message, Waiting(m)
    PROVE  Kept(m)
<1> USE DEF IInv
<1> DEFINE q == pipe[s]
           c == Head(q)
<1>1. q \in Seq(Command) /\ q # <<>> /\ c \in Command /\ UNCHANGED <<alive, wire, player, active>>
  <2>1. q # <<>> /\ UNCHANGED <<alive, wire, player, active>>
    BY DEF RedisExec, memory
  <2>2. q \in Seq(Command)
    BY DEF PipeOK
  <2> HIDE DEF q
  <2>3. Head(q) \in Command
    BY <2>1, <2>2, HeadTailProperties
  <2> QED BY <2>1, <2>2, <2>3
<1>2. \A t \in Server : Sought(t, m) => Sought(t, m)' \/ (t = s /\ c.op \in {"getOnline", "rpushMsg"} /\ c.msg = m)
  <2>1. ASSUME NEW i \in 1..Len(q), i # 1 PROVE q[i] \in Elements(Tail(q))
    <3>1. i - 1 \in DOMAIN Tail(q) /\ Tail(q)[i - 1] = q[i]
      BY <1>1, <2>1
    <3> QED BY <3>1 DEF Elements
  <2>2. c = q[1] /\ DOMAIN q = 1..Len(q)
    BY <1>1
  <2>3. \A t \in Server : pipe'[t] = IF t = s THEN Tail(q) ELSE pipe[t]
    BY DEF RedisExec, PipeOK
  <2> HIDE DEF c, q
  <2>4. Elements(q) \subseteq {c} \cup Elements(Tail(q))
    BY <2>1, <2>2 DEF Elements
  <2>5. pipe'[s] = Tail(q) /\ \A t \in Server : t # s => pipe'[t] = pipe[t]
    BY <2>3
  <2> QED BY <2>4, <2>5 DEF Sought, q
<1>3. \A a : Reply(s, a) =>
          /\ a \in Elements(answer'[s])
          /\ \A t \in Server : Elements(answer[t]) \subseteq Elements(answer'[t])
  <2>1. SUFFICES ASSUME NEW a, Reply(s, a)
                 PROVE  /\ a \in Elements(answer'[s])
                        /\ \A t \in Server : Elements(answer[t]) \subseteq Elements(answer'[t])
    OBVIOUS
  <2> DEFINE p == answer[s]
  <2>2. p \in Seq(Answer) /\ Len(p) \in Nat
    BY DEF AnswerOK
  <2>3. /\ \A i \in DOMAIN p : i \in DOMAIN Append(p, a) /\ Append(p, a)[i] = p[i]
        /\ Len(p) + 1 \in DOMAIN Append(p, a) /\ Append(p, a)[Len(p) + 1] = a
    <3>1. p \in Seq(Answer \cup {a}) /\ a \in Answer \cup {a}
      BY <2>2
    <3> HIDE DEF p
    <3> QED BY <3>1
  <2>4. \A t \in Server : answer'[t] = IF t = s THEN Append(p, a) ELSE answer[t]
    BY <2>1 DEF Reply, AnswerOK
  <2>5. Elements(p) \subseteq Elements(Append(p, a)) /\ a \in Elements(Append(p, a))
    <3> HIDE DEF p
    <3> QED BY <2>3 DEF Elements
  <2>6. answer'[s] = Append(p, a) /\ \A t \in Server : t # s => answer'[t] = answer[t]
    BY <2>4
  <2> HIDE DEF p
  <2> QED BY <2>5, <2>6 DEF p
<1>4. \A t \in Server : (Found(t, m) => Found(t, m)') /\ (Fetched(t, m) => Fetched(t, m)')
  <2>1. UNCHANGED answer \/ \E a : Reply(s, a)
    BY DEF RedisExec
  <2> QED BY <1>3, <2>1 DEF Found, Fetched
<1>5. c.op = "getOnline" /\ c.msg = m => Found(s, m)'
  <2> DEFINE a == [op |-> "getOnline", msg |-> m, at |-> online[m.receiver]]
  <2>1. c.op = "getOnline" /\ c.msg = m => Reply(s, a)
    BY DEF RedisExec
  <2>2. a.op = "getOnline" /\ a.msg = m
    OBVIOUS
  <2> HIDE DEF a, c
  <2> QED BY <1>3, <2>1, <2>2 DEF Found
<1>6. c.op = "rpushMsg" /\ c.msg = m => Stored(m)'
  <2> DEFINE l == mailbox[m.receiver]
  <2>1. l \in Seq(Message) /\ Len(l) \in Nat /\ m.receiver \in Uid
    BY MessageFields DEF RedisOK
  <2>2. Len(l) + 1 \in DOMAIN Append(l, m) /\ Append(l, m)[Len(l) + 1] = m
    <3> HIDE DEF l
    <3> QED BY <2>1
  <2>3. c.op = "rpushMsg" /\ c.msg = m => mailbox'[m.receiver] = Append(l, m)
    BY <2>1 DEF RedisExec, RedisOK
  <2> HIDE DEF l, c
  <2> QED BY <2>2, <2>3 DEF Stored, Elements
<1>7. Stored(m) => Stored(m)' \/ Kept(m)
  <2>1. CASE c.op = "delMsg" /\ c.uid = m.receiver
    <3>1. c = [op |-> "delMsg", uid |-> m.receiver]
      <4> HIDE DEF c
      <4> QED BY <1>1, <2>1 DEF Command
    <3> QED BY <1>1, <3>1 DEF Stored, ListDropped, Spent, Kept
  <2>2. CASE c.op = "delMsg" /\ c.uid # m.receiver
    <3>1. mailbox'[m.receiver] = mailbox[m.receiver]
      BY <2>2, MessageFields DEF RedisExec, RedisOK
    <3> QED BY <3>1 DEF Stored
  <2>3. CASE c.op = "rpushMsg"
    <3> DEFINE n == c.msg
               r == n.receiver
               l == mailbox[r]
    <3>1. n \in Message /\ r \in Uid /\ l \in Seq(Message)
      <4>1. n \in Message
        BY <1>1, <2>3, CommandFields
      <4> QED BY <4>1, MessageFields DEF RedisOK
    <3>2. \A i \in DOMAIN l : i \in DOMAIN Append(l, n) /\ Append(l, n)[i] = l[i]
      <4> HIDE DEF l, n
      <4> QED BY <3>1
    <3>3. \A u \in Uid : mailbox'[u] = IF u = r THEN Append(l, n) ELSE mailbox[u]
      BY <2>3 DEF RedisExec, RedisOK
    <3> HIDE DEF n, r, c
    <3>4. Elements(l) \subseteq Elements(Append(l, n))
      <4> HIDE DEF l
      <4> QED BY <3>2 DEF Elements
    <3>5. \A u \in Uid : Elements(mailbox[u]) \subseteq Elements(mailbox'[u])
      BY <3>3, <3>4
    <3> QED BY <3>5, MessageFields DEF Stored
  <2>4. CASE c.op \notin {"delMsg", "rpushMsg"}
    <3>1. UNCHANGED mailbox
      BY <2>4 DEF RedisExec, redis
    <3> QED BY <3>1, PlacesUnchanged
  <2> QED BY <2>1, <2>2, <2>3, <2>4
<1>8. \A t \in Server : Sought(t, m) => Sought(t, m)' \/ Kept(m)
  BY <1>2, <1>5, <1>6, Places DEF Kept
<1>9. QueuesStay
  BY <1>1, QueuesKept
<1> QED BY <1>1, <1>4, <1>7, <1>8, <1>9, PlacesUnchanged, QueuedStays, WaitingKept

LEMMA LossNext ==
    ASSUME IInv, Halted, NeverForwardedToSelf, [Next]_vars
    PROVE  LossStep
<1> SUFFICES ASSUME NEW m \in Message, Waiting(m), m.type = "private" PROVE Kept(m)
  BY DEF LossStep, Kept
<1>1. \A c \in Conn : ServerOf[c] \in Server
  BY ServerAssumption
<1>2. ASSUME UNCHANGED <<alive, answer, wire, mailbox, active, player, pipe>> PROVE Kept(m)
  BY <1>2, QueuesKept, QuietKept DEF IInv
<1>3. ASSUME NEW s \in Server, alive[s], Die(s) PROVE Kept(m)
  BY <1>3, DieSpends DEF Kept, IInv
<1>4. CASE Request
  <2>1. ASSUME NEW c \in Conn, Connect(c) \/ Destroy(c) PROVE Kept(m)
    BY <1>2, <2>1 DEF Connect, Destroy, memory, redis
  <2>2. ASSUME NEW c \in Conn, Disconnect(c) PROVE Kept(m)
    <3>1. owner[c] \in Uid
      BY DEF IInv, ConnsOK
    <3> QED BY <1>1, <1>2, <2>2, <3>1, LogoutKept DEF Disconnect, Up, memory, redis
  <2>3. ASSUME NEW c \in Conn, NEW u, PlayerList(c) \/ GetBlackList(c, u) PROVE Kept(m)
    BY <1>1, <1>3, <2>3 DEF PlayerList, GetBlackList, Up
  <2>4. ASSUME NEW c \in Conn, NEW u \in Uid, LoginRequest(c, u) PROVE Kept(m)
    <3>1. <<[op |-> "login", conn |-> c, uid |-> u]>> \in Seq(Command)
      BY DEF Command
    <3>2. UNCHANGED <<alive, answer, wire, mailbox, active, player>>
      BY <2>4 DEF LoginRequest, memory, redis
    <3>3. \E s \in Server : \E cmds \in Seq(Command) : Issue(s, cmds)
      BY <1>1, <2>4, <3>1 DEF LoginRequest
    <3>4. QueuesStay
      BY <3>2, QueuesKept DEF IInv
    <3> QED BY <3>2, <3>3, <3>4, QuietKept
  <2>5. ASSUME NEW c \in Conn, NEW u \in Account, Logout(c, u) PROVE Kept(m)
    BY <1>1, <2>5, LogoutKept DEF Logout, Up, Account, redis
  <2>6. ASSUME NEW c \in Conn, NEW u, NEW add, NEW del, EditBlackList(c, u, add, del) PROVE Kept(m)
    <3> DEFINE h == local[ServerOf[c]][u]
    <3>1. CASE Die(ServerOf[c])
      BY <1>1, <1>3, <2>6, <3>1 DEF EditBlackList, Up
    <3>2. CASE ~ Die(ServerOf[c])
      <4>1. /\ h \in Handle /\ UNCHANGED <<alive, answer, wire, mailbox, active, pipe>>
            /\ player' = [player EXCEPT ![h].black = (player[h].black \ del) \cup add]
        BY <2>6, <3>2 DEF EditBlackList, IsPlayer, redis
      <4> HIDE DEF h
      <4>2. QueuesStay
        BY <4>1, QueuesKept DEF IInv
      <4> QED BY <4>1, <4>2, QuietKept
    <3> QED BY <3>1, <3>2
  <2>7. ASSUME NEW c \in Conn, NEW n \in Message, Chat(c, n) PROVE Kept(m)
    BY <2>7, ChatKept
  <2> QED BY <1>4, <2>1, <2>2, <2>3, <2>4, <2>5, <2>6, <2>7 DEF Request, AddBlackList, DelBlackList
<1>5. ASSUME NEW s \in Server, AnswerCallback(s) PROVE Kept(m)
  BY <1>5, LoginAnswerKept, OfflineAnswerKept, OnlineAnswerKept DEF AnswerCallback
<1>6. ASSUME NEW s \in Server, Tick(s) \/ RedisExec(s) PROVE Kept(m)
  BY <1>6, TickKept, ExecKept
<1>7. ASSUME NEW r \in Server, NEW s \in Server, Receive(r, s) PROVE Kept(m)
  BY <1>7, ReceiveKept
<1>8. CASE UNCHANGED vars
  BY <1>2, <1>8 DEF vars, memory, redis
<1> QED BY <1>4, <1>5, <1>6, <1>7, <1>8 DEF Next

\* However many servers there are and whatever they do, a private message that
\* waits somewhere stays there, moves on, or is sent, unless its receiver blocks
\* the sender, its connection is closing or its queue longer than a batch, Redis
\* names a server it cannot be sent to, a process ends, or DEL deletes it.
THEOREM NothingLost == Spec => NoSilentLoss
<1>1. IInv /\ Halted /\ HomeInv /\ [Next]_vars => [LossStep]_vars
  BY LossNext DEF HomeInv
<1>2. IInv /\ Halted /\ HomeInv /\ [Next]_vars => Halted' /\ HomeInv'
  BY HaltedNext, HomeNext
<1>3. Init => Halted /\ HomeInv
  BY HaltedInit, HomeInit
<1>4. [LossStep]_vars => [\A m \in Message :
          Waiting(m) /\ m.type = "private" /\ ~ Waiting(m)' =>
            \/ SentTo(m)' \/ Blocked(m) \/ Ended(m) \/ Behind(m)
            \/ Unreachable(m) \/ ListDropped(m)
            \/ \E s \in Server : alive[s] /\ ~ alive'[s]]_vars
  BY DEF LossStep, Spent
<1> QED BY <1>1, <1>2, <1>3, <1>4, Inductive, PTL DEF Spec, NoSilentLoss

-----------------------------------------------------------------------------
(* Where a Player's queue is looked at: its connection leads to the server *)
(* it is on.                                                               *)

Mine(s, e)   == e.op = "login" => ServerOf[e.conn] = s
PipesMine    == \A s \in Server : \A c \in Elements(pipe[s]) : Mine(s, c)
AnswersMine  == \A s \in Server : \A a \in Elements(answer[s]) : Mine(s, a)
SlotsMine    == \A s \in Server, u \in Uid : IsPlayer(s, u) => ServerOf[player[local[s][u]].conn] = s

TrackInv == PipesMine /\ AnswersMine /\ SlotsMine /\ QueueTracked

\* No queue is longer than what a tick sends.
Short == \A h \in Handle : Made(h) => Len(player[h].queue) <= Batch

LEMMA PipesIssued ==
    ASSUME PipeOK, PipesMine, NEW s \in Server, NEW cmds \in Seq(Command), Issue(s, cmds),
           \A i \in 1..Len(cmds) : Mine(s, cmds[i])
    PROVE  PipesMine'
<1>1. pipe[s] \in Seq(Command) /\ \A t \in Server : pipe'[t] = IF t = s THEN pipe[s] \o cmds ELSE pipe[t]
  BY DEF PipeOK, Issue
<1>2. ASSUME NEW p \in Seq(Command), NEW c \in Elements(p \o cmds)
      PROVE  c \in Elements(p) \/ \E i \in 1..Len(cmds) : c = cmds[i]
  <2>1. PICK i \in 1..(Len(p) + Len(cmds)) : c = (p \o cmds)[i]
    BY DEF Elements
  <2>2. CASE i <= Len(p)
    BY <2>1, <2>2 DEF Elements
  <2>3. CASE i > Len(p)
    <3>1. i - Len(p) \in 1..Len(cmds) /\ c = cmds[i - Len(p)]
      BY <2>1, <2>3
    <3> QED BY <3>1
  <2> QED BY <2>1, <2>2, <2>3
<1>3. \A t \in Server : t # s => pipe'[t] = pipe[t]
  BY <1>1
<1>4. \A c \in Elements(pipe'[s]) : Mine(s, c)
  BY <1>1, <1>2 DEF PipesMine
<1> QED BY <1>3, <1>4 DEF PipesMine

LEMMA AnswersTaken ==
    ASSUME AnswerOK, AnswersMine, NEW s \in Server, answer[s] # <<>>, answer' = [answer EXCEPT ![s] = Tail(@)]
    PROVE  AnswersMine'
<1>1. answer[s] \in Seq(Answer) /\ \A t \in Server : answer'[t] = IF t = s THEN Tail(answer[s]) ELSE answer[t]
  BY DEF AnswerOK
<1>2. Elements(Tail(answer[s])) \subseteq Elements(answer[s])
  BY <1>1, HeadTailProperties DEF Elements
<1> QED BY <1>1, <1>2 DEF AnswersMine

\* Players keep their connections, and no slot is filled.
LEMMA SlotsStay ==
    ASSUME MemoryOK, SlotsMine,
           \A h \in Handle : Made(h) => player'[h].conn = player[h].conn,
           \A t \in Server, u \in Uid : IsPlayer(t, u)' => local'[t][u] = local[t][u]
    PROVE  SlotsMine'
<1>1. SUFFICES ASSUME NEW t \in Server, NEW u \in Uid, IsPlayer(t, u)'
               PROVE  ServerOf[player'[local'[t][u]].conn] = t
  BY DEF SlotsMine
<1>2. local'[t][u] = local[t][u] /\ IsPlayer(t, u) /\ local[t][u] \in Handle /\ Made(local[t][u])
  BY <1>1 DEF IsPlayer, MemoryOK, SlotsAddressed
<1> QED BY <1>2 DEF SlotsMine

LEMMA TrackDie ==
    ASSUME IInv, TrackInv, NEW s \in Server, Die(s)
    PROVE  TrackInv'
<1> USE DEF IInv
<1>1. PipesMine' /\ AnswersMine'
  BY DEF TrackInv, Die, PipesMine, AnswersMine, PipeOK, AnswerOK, Elements
<1>2. SlotsMine'
  <2>1. \A t \in Server, u \in Uid : IsPlayer(t, u)' => local'[t][u] = local[t][u]
    BY NullAssumption DEF Die, MemoryOK, IsPlayer, Handle
  <2> QED BY <2>1, SlotsStay DEF TrackInv, Die
<1>3. QueueTracked'
  <2>1. ~ alive'[s] /\ UNCHANGED player /\ \A t : t # s /\ t \in Server => alive'[t] = alive[t] /\ active'[t] = active[t]
    BY DEF Die, MemoryOK
  <2>2. SUFFICES ASSUME NEW h \in Handle, Made(h), player[h].queue # <<>>, ServerOf[player[h].conn] # s
                 PROVE  \/ h \in active'[ServerOf[player[h].conn]]
                        \/ ~ alive'[ServerOf[player[h].conn]]
    BY <2>1 DEF QueueTracked, Made
  <2>3. ServerOf[player[h].conn] \in Server
    BY <2>2, ServerAssumption DEF MemoryOK, Made, Player
  <2> QED BY <2>1, <2>2, <2>3 DEF TrackInv, QueueTracked
<1> QED BY <1>1, <1>2, <1>3 DEF TrackInv

\* What servers do besides logging in, queueing and sending
LEMMA TrackQuiet ==
    ASSUME IInv, TrackInv, NEW s \in Server, UNCHANGED <<alive, active>>,
           \/ UNCHANGED pipe
           \/ \E cmds \in Seq(Command) : Issue(s, cmds) /\ \A i \in 1..Len(cmds) : Mine(s, cmds[i]),
           UNCHANGED answer \/ (answer[s] # <<>> /\ answer' = [answer EXCEPT ![s] = Tail(@)]),
           \A t \in Server, u \in Uid : IsPlayer(t, u)' => local'[t][u] = local[t][u],
           UNCHANGED player \/ \E b : \E h \in Handle : Made(h) /\ player' = [player EXCEPT ![h].black = b]
    PROVE  TrackInv'
<1> USE DEF IInv, TrackInv
<1>1. PipesMine'
  BY PipesIssued DEF PipesMine
<1>2. AnswersMine'
  BY AnswersTaken DEF AnswersMine
<1>3. \A h \in Handle : /\ Made(h)' => Made(h)
                        /\ Made(h) => player'[h].conn = player[h].conn /\ player'[h].queue = player[h].queue
  <2>1. CASE UNCHANGED player
    BY <2>1 DEF Made
  <2>2. ASSUME NEW b, NEW h \in Handle, Made(h), player' = [player EXCEPT ![h].black = b]
        PROVE  \A g \in Handle : /\ g # h => player'[g] = player[g]
                                 /\ player[g] \in Player => player'[g].conn = player[g].conn /\ player'[g].queue = player[g].queue
    BY <2>2 DEF MemoryOK, Player
  <2>3. \A h \in Handle : Made(h) => player[h] \in Player
    BY DEF MemoryOK, Made
  <2>4. CASE \E b : \E h \in Handle : Made(h) /\ player' = [player EXCEPT ![h].black = b]
    <3>1. PICK b, h : h \in Handle /\ Made(h) /\ player' = [player EXCEPT ![h].black = b]
      BY <2>4
    <3>2. \A g \in Handle : g # h => player'[g] = player[g]
      BY <2>2, <3>1
    <3>3. \A g \in Handle : player[g] \in Player => player'[g].conn = player[g].conn /\ player'[g].queue = player[g].queue
      BY <2>2, <3>1
    <3> QED BY <2>3, <3>1, <3>2, <3>3 DEF Made
  <2> QED BY <2>1, <2>4
<1>4. SlotsMine'
  BY <1>3, SlotsStay
<1>5. QueueTracked'
  BY <1>3 DEF QueueTracked
<1> QED BY <1>1, <1>2, <1>4, <1>5

\* A Player is given messages, and its place for the tick.
LEMMA TrackEnqueue ==
    ASSUME IInv, TrackInv, NEW s \in Server, NEW u \in Uid, IsPlayer(s, u), NEW list \in Seq(Message),
           Enqueue(s, local[s][u], list), UNCHANGED <<alive, local>>,
           \/ UNCHANGED pipe
           \/ \E cmds \in Seq(Command) : Issue(s, cmds) /\ \A i \in 1..Len(cmds) : Mine(s, cmds[i]),
           UNCHANGED answer \/ (answer[s] # <<>> /\ answer' = [answer EXCEPT ![s] = Tail(@)])
    PROVE  TrackInv'
<1> USE DEF IInv, TrackInv
<1>1. PipesMine'
  BY PipesIssued DEF PipesMine
<1>2. AnswersMine'
  BY AnswersTaken DEF AnswersMine
<1>3. PICK h \in Handle : h = local[s][u]
  BY DEF IsPlayer
<1>4. Made(h) /\ ServerOf[player[h].conn] = s /\ player[h] \in Player
  BY <1>3 DEF MemoryOK, SlotsAddressed, SlotsMine, Made
<1> DEFINE q == Accepted(player[h].queue, list, player[h].black)
<1>5. player' = [player EXCEPT ![h].queue = q]
  BY <1>3 DEF Enqueue
<1>6. list = <<>> => q = player[h].queue
  <2>1. ASSUME list = <<>> PROVE Accepted(player[h].queue, list, player[h].black) = player[h].queue
    <3>1. PICK f : Steps(f, player[h].queue, list, player[h].black)
      BY AcceptedSteps
    <3>2. Len(list) = 0
      BY <2>1
    <3> QED BY <3>1, <3>2 DEF Steps
  <2> QED BY <2>1
<1> HIDE DEF q
<1>7. /\ player'[h].conn = player[h].conn /\ player'[h].queue = q
      /\ \A g \in Handle : g # h => player'[g] = player[g]
  BY <1>4, <1>5 DEF MemoryOK, Player
<1>8. SlotsMine'
  <2>1. \A g \in Handle : player'[g].conn = player[g].conn
    BY <1>7
  <2> QED BY <2>1, SlotsStay
<1>9. QueueTracked'
  <2>1. SUFFICES ASSUME NEW g \in Handle, Made(g)', player'[g].queue # <<>>
                 PROVE  \/ g \in active'[ServerOf[player'[g].conn]]
                        \/ ~ alive'[ServerOf[player'[g].conn]]
    BY DEF QueueTracked
  <2>2. \A t \in Server : active[t] \subseteq active'[t]
    BY DEF Enqueue, MemoryOK
  <2>3. list # <<>> => h \in active'[s]
    BY <1>3 DEF Enqueue, MemoryOK
  <2>4. CASE g = h /\ list # <<>>
    BY <1>4, <1>7, <2>3, <2>4
  <2>5. CASE g # h \/ list = <<>>
    <3>1. Made(g) /\ player'[g].conn = player[g].conn /\ player'[g].queue = player[g].queue
      BY <1>4, <1>6, <1>7, <2>1, <2>5 DEF Made
    <3>2. ServerOf[player[g].conn] \in Server
      BY <3>1, ServerAssumption DEF MemoryOK, Made, Player
    <3>3. \/ g \in active[ServerOf[player[g].conn]]
          \/ ~ alive[ServerOf[player[g].conn]]
      BY <2>1, <3>1 DEF QueueTracked
    <3> QED BY <2>2, <3>1, <3>2, <3>3
  <2> QED BY <2>4, <2>5
<1> QED BY <1>1, <1>2, <1>8, <1>9

\* A new Player has the connection its user logged in through.
LEMMA TrackLogin ==
    ASSUME IInv, TrackInv, NEW s \in Server, NEW u \in Uid, NEW c \in Conn, ServerOf[c] = s,
           LobbyLogin(s, u, c), answer[s] # <<>>, answer' = [answer EXCEPT ![s] = Tail(@)]
    PROVE  TrackInv'
<1> USE DEF IInv, TrackInv
<1>1. PipesMine'
  <2>1. LoginCommands(u) \in Seq(Command) /\ Len(LoginCommands(u)) = 3
    BY DEF LoginCommands, Command
  <2>2. \A i \in 1..3 : Mine(s, LoginCommands(u)[i])
    BY DEF LoginCommands, Mine
  <2> QED BY <2>1, <2>2, PipesIssued DEF LobbyLogin
<1>2. AnswersMine'
  BY AnswersTaken
<1>3. CASE UNCHANGED <<local, player>>
  <2>1. SlotsMine' /\ QueueTracked'
    BY <1>3 DEF LobbyLogin, SlotsMine, QueueTracked, IsPlayer, Made
  <2> QED BY <1>1, <1>2, <2>1
<1>4. ASSUME NEW h \in Handle, ~ Made(h), local' = [local EXCEPT ![s][u] = h],
             player' = [player EXCEPT ![h] = NewPlayer(u, c)]
      PROVE  SlotsMine' /\ QueueTracked'
  <2> DEFINE p == NewPlayer(u, c)
  <2>1. p.conn = c /\ p.queue = <<>>
    BY DEF NewPlayer
  <2> HIDE DEF p
  <2>2. player'[h] = p /\ \A g \in Handle : g # h => player'[g] = player[g]
    BY <1>4 DEF MemoryOK, p
  <2>3. \A t \in Server, v \in Uid : local'[t][v] = IF t = s /\ v = u THEN h ELSE local[t][v]
    BY <1>4 DEF MemoryOK
  <2>4. \A t \in Server, v \in Uid : IsPlayer(t, v) => local[t][v] \in Handle /\ local[t][v] # h
    BY <1>4 DEF MemoryOK, SlotsAddressed, IsPlayer
  <2>5. SlotsMine'
    BY <2>1, <2>2, <2>3, <2>4 DEF SlotsMine, IsPlayer
  <2>6. QueueTracked'
    BY <2>1, <2>2 DEF QueueTracked, LobbyLogin, Made
  <2> QED BY <2>5, <2>6
<1> QED BY <1>1, <1>2, <1>3, <1>4 DEF LobbyLogin, Insert

\* The tick forgets the players whose queues it has emptied.
LEMMA TrackTick ==
    ASSUME IInv, TrackInv, Short, NEW s \in Server, Tick(s)
    PROVE  TrackInv'
<1> USE DEF IInv, TrackInv
<1>1. CASE Die(s)
  BY <1>1, TrackDie
<1>2. CASE /\ player' = [h \in Handle |-> IF h \in active[s] \cup Hearers(s)
                                          THEN Flushed(s, h) ELSE player[h]]
           /\ active' = [active EXCEPT ![s] = {}]
           /\ UNCHANGED <<alive, local, pipe, answer>>
  <2>1. PipesMine' /\ AnswersMine'
    BY <1>2 DEF PipesMine, AnswersMine
  <2>2. \A h \in active[s] \cup Hearers(s) : h \in Handle /\ Made(h)
    BY DEF MemoryOK, Hearers, SlotsAddressed, IsPlayer
  <2>3. ASSUME NEW h \in Handle, Made(h)
        PROVE  /\ player'[h].conn = player[h].conn
               /\ h \notin active[s] => player'[h].queue = player[h].queue
               /\ h \in active[s] => player'[h].queue = <<>>
    <3>1. player[h] \in Player /\ player[h].queue \in Seq(Message) /\ Len(player[h].queue) <= Batch
      BY <2>3 DEF MemoryOK, Made, Player, Short
    <3>2. Flushed(s, h).conn = player[h].conn
      BY <3>1 DEF Flushed, Player
    <3>3. h \in active[s] => Flushed(s, h).queue = <<>>
      <4>1. Front(player[h].queue) = Len(player[h].queue)
        BY <3>1, BoundAssumption DEF Front
      <4>2. \A q \in Seq(Message) : SubSeq(q, Len(q) + 1, Len(q)) = <<>>
        OBVIOUS
      <4>3. h \in active[s] => Flushed(s, h).queue =
                SubSeq(player[h].queue, Front(player[h].queue) + 1, Len(player[h].queue))
        BY <3>1 DEF Flushed, Player
      <4> QED BY <3>1, <4>1, <4>2, <4>3
    <3> QED BY <1>2, <2>3, <3>2, <3>3, FlushedIdle
  <2>4. SlotsMine'
    BY <1>2, <2>3, SlotsStay
  <2>5. QueueTracked'
    <3>1. SUFFICES ASSUME NEW h \in Handle, Made(h)', player'[h].queue # <<>>
                   PROVE  \/ h \in active'[ServerOf[player'[h].conn]]
                          \/ ~ alive'[ServerOf[player'[h].conn]]
      BY DEF QueueTracked
    <3>2. Made(h)
      BY <1>2, <2>2, <3>1 DEF Made
    <3>3. h \notin active[s] /\ player'[h].conn = player[h].conn /\ player[h].queue # <<>>
      BY <2>3, <3>1, <3>2
    <3>4. ServerOf[player[h].conn] \in Server
      BY <3>2, ServerAssumption DEF MemoryOK, Made, Player
    <3> QED BY <1>2, <3>2, <3>3, <3>4 DEF QueueTracked, MemoryOK
  <2> QED BY <2>1, <2>4, <2>5
<1> QED BY <1>1, <1>2 DEF Tick

LEMMA TrackExec ==
    ASSUME IInv, TrackInv, NEW s \in Server, RedisExec(s)
    PROVE  TrackInv'
<1> USE DEF IInv, TrackInv
<1> DEFINE q == pipe[s]
           c == Head(q)
<1>1. q \in Seq(Command) /\ q # <<>> /\ UNCHANGED <<alive, memory>>
  BY DEF RedisExec, PipeOK
<1>2. c \in Elements(q) /\ Elements(Tail(q)) \subseteq Elements(q)
  <2>1. c = q[1] /\ 1 \in DOMAIN q
    BY <1>1
  <2> HIDE DEF c, q
  <2> QED BY <1>1, <2>1, HeadTailProperties DEF Elements
<1>3. PipesMine'
  <2>1. \A t \in Server : pipe'[t] = IF t = s THEN Tail(q) ELSE pipe[t]
    BY DEF RedisExec, PipeOK
  <2> QED BY <1>2, <2>1 DEF PipesMine
<1>4. AnswersMine'
  <2>1. UNCHANGED answer \/ \E a : Reply(s, a) /\ Mine(s, a)
    <3>1. Mine(s, c)
      BY <1>2 DEF PipesMine
    <3>2. c.op = "login" => Reply(s, c)
      BY DEF RedisExec
    <3>3. c.op = "getOnline" => \E a : Reply(s, a) /\ a.op = "getOnline"
      <4> DEFINE a == [op |-> "getOnline", msg |-> c.msg, at |-> online[c.msg.receiver]]
      <4>1. c.op = "getOnline" => Reply(s, a)
        BY DEF RedisExec
      <4>2. a.op = "getOnline"
        OBVIOUS
      <4> HIDE DEF a, c
      <4> QED BY <4>1, <4>2
    <3>4. c.op = "lrangeMsg" => \E a : Reply(s, a) /\ a.op = "lrangeMsg"
      <4> DEFINE a == [op |-> "lrangeMsg", uid |-> c.uid, list |-> mailbox[c.uid]]
      <4>1. c.op = "lrangeMsg" => Reply(s, a)
        BY DEF RedisExec
      <4>2. a.op = "lrangeMsg"
        OBVIOUS
      <4> HIDE DEF a, c
      <4> QED BY <4>1, <4>2
    <3>5. c.op = "lrangeBlack" => \E a : Reply(s, a) /\ a.op = "lrangeBlack"
      <4> DEFINE a == [op |-> "lrangeBlack", uid |-> c.uid, list |-> blackKey[c.uid]]
      <4>1. c.op = "lrangeBlack" => Reply(s, a)
        BY DEF RedisExec
      <4>2. a.op = "lrangeBlack"
        OBVIOUS
      <4> HIDE DEF a, c
      <4> QED BY <4>1, <4>2
    <3>6. c.op \notin {"login", "getOnline", "lrangeMsg", "lrangeBlack"} => UNCHANGED answer
      BY DEF RedisExec
    <3> HIDE DEF c
    <3> QED BY <3>1, <3>2, <3>3, <3>4, <3>5, <3>6 DEF Mine
  <2>2. CASE UNCHANGED answer
    BY <2>2 DEF AnswersMine
  <2>3. ASSUME NEW a, Reply(s, a), Mine(s, a) PROVE AnswersMine'
    <3> DEFINE p == answer[s]
    <3>1. p \in Seq(Answer \cup {a}) /\ a \in Answer \cup {a}
      BY DEF AnswerOK
    <3>2. \A t \in Server : answer'[t] = IF t = s THEN Append(p, a) ELSE answer[t]
      BY <2>3 DEF Reply, AnswerOK
    <3>3. Elements(Append(p, a)) \subseteq Elements(p) \cup {a}
      <4> HIDE DEF p
      <4> QED BY <3>1, AppendProperties DEF Elements
    <3> QED BY <2>3, <3>2, <3>3 DEF AnswersMine
  <2> QED BY <2>1, <2>2, <2>3
<1>5. SlotsMine' /\ QueueTracked'
  BY <1>1 DEF memory, SlotsMine, QueueTracked, IsPlayer, Made
<1> QED BY <1>3, <1>4, <1>5

LEMMA TrackMessage ==
    ASSUME IInv, TrackInv, NEW s \in Server, NEW n \in Message, NEW w, NewMessage(s, n, w)
    PROVE  TrackInv'
<1> USE DEF IInv
<1>1. CASE Die(s)
  BY <1>1, TrackDie
<1>2. n.receiver \in Uid /\ <<n>> \in Seq(Message)
  BY MessageFields
<1>3. CASE UNCHANGED <<alive, local, player, active, pipe, answer>>
  BY <1>3, TrackQuiet DEF IsPlayer
<1>4. CASE IsPlayer(s, n.receiver) /\ Enqueue(s, local[s][n.receiver], <<n>>) /\ UNCHANGED <<alive, local, pipe, answer>>
  BY <1>2, <1>4, TrackEnqueue
<1>5. CASE Issue(s, <<[op |-> "getOnline", msg |-> n]>>) /\ UNCHANGED <<alive, local, player, active, answer>>
  <2> DEFINE c == [op |-> "getOnline", msg |-> n]
  <2>1. c \in Command /\ c.op # "login"
    BY DEF Command
  <2> HIDE DEF c
  <2>2. <<c>> \in Seq(Command) /\ \A i \in 1..Len(<<c>>) : Mine(s, <<c>>[i])
    BY <2>1 DEF Mine
  <2>3. Issue(s, <<c>>)
    BY <1>5 DEF c
  <2> QED BY <1>5, <2>2, <2>3, TrackQuiet
<1> QED BY <1>1, <1>3, <1>4, <1>5 DEF NewMessage, Forward, PrivateChat

LEMMA TrackLogout ==
    ASSUME IInv, TrackInv, NEW s \in Server, NEW u \in Uid, LobbyLogout(s, u)
    PROVE  TrackInv'
<1> USE DEF IInv
<1>1. CASE Die(s)
  BY <1>1, TrackDie
<1>2. CASE ~ Die(s)
  <2>1. /\ IsPlayer(s, u) /\ UNCHANGED <<alive, player, active, answer>>
        /\ local' = [local EXCEPT ![s][u] = Absent]
    BY <1>2 DEF LobbyLogout
  <2>2. PICK cmds \in LogoutCommands(u, player[local[s][u]].black) : Issue(s, cmds)
    BY <1>2 DEF LobbyLogout
  <2>3. player[local[s][u]].black \in SUBSET Uid
    BY <2>1 DEF MemoryOK, IsPlayer, SlotsAddressed, Made, Player
  <2>4. cmds \in Seq(Command) /\ \A i \in 1..Len(cmds) : cmds[i].op # "login"
    <3>1. \A B \in SUBSET Uid : \A l \in LogoutCommands(u, B) :
              l \in Seq(Command) /\ \A i \in 1..Len(l) : l[i].op \in {"delOnline", "delBlack", "lpushBlack"}
      BY LogoutCommandsFields
    <3>2. cmds \in Seq(Command) /\ \A i \in 1..Len(cmds) : cmds[i].op \in {"delOnline", "delBlack", "lpushBlack"}
      BY <2>2, <2>3, <3>1
    <3> QED BY <3>2
  <2>5. \A t \in Server, v \in Uid : IsPlayer(t, v)' => local'[t][v] = local[t][v]
    BY <2>1, NullAssumption DEF MemoryOK, IsPlayer, Handle
  <2> QED BY <2>1, <2>2, <2>4, <2>5, TrackQuiet DEF Mine
<1> QED BY <1>1, <1>2

LEMMA TrackAnswer ==
    ASSUME IInv, TrackInv, NEW s \in Server, AnswerCallback(s)
    PROVE  TrackInv'
<1> USE DEF IInv
<1> DEFINE a == Head(answer[s])
           u == a.uid
<1>1. answer[s] # <<>> /\ a \in Answer /\ a \in Elements(answer[s])
  BY TakeAnswer DEF AnswerCallback, LoginAnswer, OfflineAnswer, BlackAnswer, OnlineAnswer
<1>2. CASE Die(s)
  BY <1>2, TrackDie
<1>3. ASSUME NEW v \in Uid, local' = [local EXCEPT ![s][v] = Null]
      PROVE  \A t \in Server, w \in Uid : IsPlayer(t, w)' => local'[t][w] = local[t][w]
  BY <1>3, NullAssumption DEF MemoryOK, IsPlayer, Handle
<1>4. UNCHANGED local => \A t \in Server, w \in Uid : IsPlayer(t, w)' => local'[t][w] = local[t][w]
  OBVIOUS
<1>5. CASE LoginAnswer(s) /\ ~ Die(s)
  <2>1. a.op = "login" /\ a.conn \in Conn /\ u \in Uid /\ ServerOf[a.conn] = s
    BY <1>1, <1>5, AnswerFields DEF LoginAnswer, TrackInv, AnswersMine, Mine
  <2>2. answer' = [answer EXCEPT ![s] = Tail(@)]
    BY <1>5 DEF LoginAnswer
  <2>3. CASE UNCHANGED <<alive, memory, pipe>>
    BY <1>1, <1>4, <2>2, <2>3, TrackQuiet DEF memory
  <2>4. ASSUME NEW c \in Conn, ServerOf[c] = s, LobbyLogin(s, u, c) PROVE TrackInv'
    BY <1>1, <2>1, <2>2, <2>4, TrackLogin
  <2> QED BY <1>5, <2>1, <2>3, <2>4 DEF LoginAnswer, LoginThrough
<1>6. CASE OfflineAnswer(s) /\ ~ Die(s)
  <2>1. u \in Uid /\ a.list \in Seq(Message)
    BY <1>1, <1>6, AnswerFields DEF OfflineAnswer
  <2>2. answer' = [answer EXCEPT ![s] = Tail(@)] /\ UNCHANGED alive /\ Issue(s, Emptied(u))
    BY <1>6 DEF OfflineAnswer
  <2>3. Emptied(u) \in Seq(Command) /\ \A i \in 1..Len(Emptied(u)) : Mine(s, Emptied(u)[i])
    BY <2>1 DEF Emptied, Command, Mine
  <2>4. CASE IsPlayer(s, u) /\ Enqueue(s, local[s][u], a.list) /\ UNCHANGED local
    <3> HIDE DEF u, a
    <3> QED BY <1>1, <2>1, <2>2, <2>3, <2>4, TrackEnqueue DEF a
  <2>5. CASE local' = [local EXCEPT ![s][u] = Null] /\ UNCHANGED <<player, active>>
    <3>1. \A t \in Server, w \in Uid : IsPlayer(t, w)' => local'[t][w] = local[t][w]
      BY <1>3, <2>1, <2>5
    <3> HIDE DEF u, a
    <3> QED BY <1>1, <2>2, <2>3, <2>5, <3>1, TrackQuiet DEF a
  <2> QED BY <1>6, <2>4, <2>5 DEF OfflineAnswer
<1>7. CASE BlackAnswer(s) /\ ~ Die(s)
  <2>1. u \in Uid
    BY <1>1, <1>7, AnswerFields DEF BlackAnswer
  <2>2. answer' = [answer EXCEPT ![s] = Tail(@)] /\ UNCHANGED <<alive, pipe, active>>
    BY <1>7 DEF BlackAnswer
  <2>3. CASE /\ IsPlayer(s, u) /\ UNCHANGED local
             /\ player' = [player EXCEPT ![local[s][u]].black = @ \cup Restored(a.list)]
    <3> DEFINE h == local[s][u]
    <3>1. h \in Handle /\ Made(h)
      BY <2>1, <2>3 DEF IsPlayer, MemoryOK, SlotsAddressed
    <3>2. player' = [player EXCEPT ![h].black = player[h].black \cup Restored(a.list)]
      BY <2>3
    <3> HIDE DEF h, u
    <3> QED BY <1>1, <1>4, <2>2, <2>3, <3>1, <3>2, TrackQuiet
  <2>4. CASE local' = [local EXCEPT ![s][u] = Null] /\ UNCHANGED player
    <3>1. \A t \in Server, w \in Uid : IsPlayer(t, w)' => local'[t][w] = local[t][w]
      BY <1>3, <2>1, <2>4
    <3> QED BY <1>1, <2>2, <2>4, <3>1, TrackQuiet
  <2> QED BY <1>7, <2>3, <2>4 DEF BlackAnswer
<1>8. CASE OnlineAnswer(s) /\ ~ Die(s)
  <2>1. answer' = [answer EXCEPT ![s] = Tail(@)] /\ UNCHANGED <<alive, memory>> /\ a.msg \in Message
    BY <1>1, <1>8, AnswerFields DEF OnlineAnswer
  <2>2. CASE UNCHANGED pipe
    BY <1>1, <1>4, <2>1, <2>2, TrackQuiet DEF memory
  <2>3. CASE Issue(s, <<[op |-> "rpushMsg", msg |-> a.msg]>>)
    <3> DEFINE c == [op |-> "rpushMsg", msg |-> a.msg]
    <3>1. c \in Command /\ c.op # "login"
      BY <2>1 DEF Command
    <3> HIDE DEF c
    <3>2. <<c>> \in Seq(Command) /\ \A i \in 1..Len(<<c>>) : Mine(s, <<c>>[i])
      BY <3>1 DEF Mine
    <3>3. Issue(s, <<c>>)
      BY <2>3 DEF c
    <3> QED BY <1>1, <1>4, <2>1, <3>2, <3>3, TrackQuiet DEF memory
  <2> QED BY <1>8, <2>2, <2>3 DEF OnlineAnswer
<1> QED BY <1>2, <1>5, <1>6, <1>7, <1>8 DEF AnswerCallback

LEMMA TrackNext ==
    ASSUME IInv, TrackInv, Short, [Next]_vars
    PROVE  TrackInv'
<1> USE DEF IInv
<1>1. \A c \in Conn : ServerOf[c] \in Server
  BY ServerAssumption
<1>2. ASSUME UNCHANGED <<alive, local, player, active, pipe, answer>> PROVE TrackInv'
  BY <1>2 DEF TrackInv, PipesMine, AnswersMine, SlotsMine, QueueTracked, IsPlayer, Made
<1>3. CASE Request
  <2>1. ASSUME NEW c \in Conn, Connect(c) \/ Disconnect(c) \/ Destroy(c) \/ PlayerList(c) PROVE TrackInv'
    <3>1. owner[c] \in Uid
      BY DEF ConnsOK
    <3> QED BY <1>1, <1>2, <2>1, <3>1, TrackDie, TrackLogout DEF Connect, Disconnect, Destroy, PlayerList, memory
  <2>2. ASSUME NEW c \in Conn, NEW u \in Uid, LoginRequest(c, u) PROVE TrackInv'
    <3> DEFINE s == ServerOf[c]
               e == [op |-> "login", conn |-> c, uid |-> u]
    <3>1. e \in Command /\ Mine(s, e)
      BY DEF Command, Mine
    <3> HIDE DEF e
    <3>2. <<e>> \in Seq(Command) /\ \A i \in 1..Len(<<e>>) : Mine(s, <<e>>[i])
      BY <3>1
    <3>3. Issue(s, <<e>>)
      BY <2>2 DEF LoginRequest, e
    <3> QED BY <1>1, <2>2, <3>2, <3>3, TrackQuiet DEF LoginRequest, memory
  <2>3. ASSUME NEW c \in Conn, NEW u \in Account, Logout(c, u) \/ GetBlackList(c, u) PROVE TrackInv'
    BY <1>1, <2>3, TrackDie, TrackLogout DEF Logout, GetBlackList, Account
  <2>4. ASSUME NEW c \in Conn, NEW u \in Account, NEW add, NEW del, EditBlackList(c, u, add, del) PROVE TrackInv'
    <3> DEFINE s == ServerOf[c]
               h == local[s][u]
    <3>1. CASE Die(s)
      BY <1>1, <3>1, TrackDie
    <3>2. CASE ~ Die(s)
      <4>1. /\ h \in Handle /\ Made(h) /\ UNCHANGED <<alive, local, active, pipe, answer>>
            /\ player' = [player EXCEPT ![h].black = (player[h].black \ del) \cup add]
        BY <1>1, <2>4, <3>2 DEF EditBlackList, IsPlayer, MemoryOK, SlotsAddressed, Account
      <4> HIDE DEF h
      <4> QED BY <1>1, <4>1, TrackQuiet
    <3> QED BY <3>1, <3>2
  <2>5. ASSUME NEW c \in Conn, NEW m \in Message, Chat(c, m) PROVE TrackInv'
    BY <1>1, <2>5, TrackMessage DEF Chat
  <2> QED BY <1>3, <2>1, <2>2, <2>3, <2>4, <2>5 DEF Request, AddBlackList, DelBlackList
<1>4. ASSUME NEW r \in Server, NEW s \in Server, Receive(r, s) PROVE TrackInv'
  <2>1. Head(wire[r][s]) \in Message
    BY <1>4 DEF Receive, WireOK
  <2> QED BY <1>4, <2>1, TrackMessage DEF Receive
<1>5. CASE UNCHANGED vars
  BY <1>2, <1>5 DEF vars, memory
<1> QED BY <1>3, <1>4, <1>5, TrackAnswer, TrackTick, TrackExec DEF Next

LEMMA TrackInit ==
    ASSUME Init
    PROVE  TrackInv
<1>1. PipesMine /\ AnswersMine
  BY DEF Init, PipesMine, AnswersMine, Elements
<1>2. SlotsMine /\ QueueTracked
  BY NullAssumption DEF Init, SlotsMine, QueueTracked, IsPlayer, Handle, Made
<1> QED BY <1>1, <1>2 DEF TrackInv

\* However many servers there are: as long as no queue outgrows a batch, a
\* player with messages to get is in active_players_ of the server that its
\* connection leads to.
THEOREM Tracked == Spec /\ []Short => []QueueTracked
<1>1. IInv /\ TrackInv /\ Short /\ [Next]_vars => TrackInv'
  BY TrackNext
<1>2. Init => TrackInv
  BY TrackInit
<1>3. TrackInv => QueueTracked
  BY DEF TrackInv
<1> QED BY <1>1, <1>2, <1>3, Inductive, PTL DEF Spec

=============================================================================
