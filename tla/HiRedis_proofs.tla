--------------------------- MODULE HiRedis_proofs ---------------------------
(***************************************************************************)
(* A Hiredis, for any commands: which pointers it uses, and whose callback *)
(* it calls.                                                               *)
(***************************************************************************)
EXTENDS HiRedis, SequenceTheorems, TLAPS

\* Moving the first element of a sequence to the end of the one before it
LEMMA Moved ==
    ASSUME NEW S, NEW r \in Seq(S), NEW s \in Seq(S), NEW o \in Seq(S), s # <<>>
    PROVE  /\ Append(r, Head(s)) \in Seq(S) /\ Tail(s) \in Seq(S)
           /\ Append(r, Head(s)) \o (Tail(s) \o o) = r \o (s \o o)
<1>1. Head(s) \in S /\ Tail(s) \in Seq(S) /\ <<Head(s)>> \in Seq(S)
  BY HeadTailProperties
<1>2. Append(r, Head(s)) \in Seq(S) /\ Append(r, Head(s)) = r \o <<Head(s)>>
  BY <1>1, AppendProperties, AppendIsConcat
<1>3. s = <<Head(s)>> \o Tail(s)
  <2>1. Len(s) \in Nat /\ Len(s) # 0 /\ DOMAIN s = 1..Len(s)
    BY EmptySeq, LenProperties
  <2> DEFINE t == <<Head(s)>> \o Tail(s)
  <2>2. /\ t \in Seq(S) /\ Len(t) = 1 + Len(Tail(s)) /\ Len(Tail(s)) = Len(s) - 1
        /\ \A i \in 1..(1 + Len(Tail(s))) :
              t[i] = IF i <= 1 THEN <<Head(s)>>[i] ELSE Tail(s)[i - 1]
    BY <1>1, ConcatProperties, HeadTailProperties
  <2>3. \A i \in 1..Len(Tail(s)) : Tail(s)[i] = s[i + 1]
    BY HeadTailProperties
  <2>4. ASSUME NEW i \in 1..Len(s) PROVE t[i] = s[i]
    <3>1. CASE i = 1
      BY <2>1, <2>2, <3>1
    <3>2. CASE i # 1
      <4>1. i - 1 \in 1..Len(Tail(s)) /\ (i - 1) + 1 = i
        BY <2>1, <2>2, <3>2
      <4>2. Tail(s)[i - 1] = s[i]
        BY <2>3, <4>1
      <4> QED BY <2>1, <2>2, <3>2, <4>2
    <3> QED BY <3>1, <3>2
  <2>5. Len(t) = Len(s)
    BY <2>1, <2>2
  <2> HIDE DEF t
  <2> QED BY <2>2, <2>4, <2>5, SeqEqual DEF t
<1>4. Tail(s) \o o \in Seq(S)
  BY <1>1, ConcatProperties
<1>5. (r \o <<Head(s)>>) \o (Tail(s) \o o) = r \o (<<Head(s)>> \o (Tail(s) \o o))
  BY <1>1, <1>4, ConcatAssociative
<1>6. <<Head(s)>> \o (Tail(s) \o o) = (<<Head(s)>> \o Tail(s)) \o o
  BY <1>1, ConcatAssociative
<1> QED BY <1>1, <1>2, <1>3, <1>5, <1>6

LEMMA Joined ==
    ASSUME NEW S, NEW r \in Seq(S), NEW x \in Seq(S), r # <<>>
    PROVE  r \o x # <<>> /\ Head(r \o x) = Head(r) /\ Tail(r \o x) = Tail(r) \o x
<1>1. Len(r) \in Nat /\ Len(r) # 0 /\ Len(x) \in Nat
  BY EmptySeq, LenProperties
<1>2. /\ r \o x \in Seq(S) /\ Len(r \o x) = Len(r) + Len(x)
      /\ \A i \in 1..(Len(r) + Len(x)) : (r \o x)[i] = IF i <= Len(r) THEN r[i] ELSE x[i - Len(r)]
  BY ConcatProperties
<1>3. r \o x # <<>>
  BY <1>1, <1>2, EmptySeq
<1>4. /\ Tail(r) \in Seq(S) /\ Len(Tail(r)) = Len(r) - 1
      /\ \A i \in 1..Len(Tail(r)) : Tail(r)[i] = r[i + 1]
  BY HeadTailProperties
<1>5. /\ Tail(r \o x) \in Seq(S) /\ Len(Tail(r \o x)) = Len(r \o x) - 1
      /\ \A i \in 1..Len(Tail(r \o x)) : Tail(r \o x)[i] = (r \o x)[i + 1]
  BY <1>2, <1>3, HeadTailProperties
<1>6. /\ Tail(r) \o x \in Seq(S) /\ Len(Tail(r) \o x) = Len(Tail(r)) + Len(x)
      /\ \A i \in 1..(Len(Tail(r)) + Len(x)) :
            (Tail(r) \o x)[i] = IF i <= Len(Tail(r)) THEN Tail(r)[i] ELSE x[i - Len(Tail(r))]
  BY <1>4, ConcatProperties
<1>7. Head(r \o x) = Head(r)
  BY <1>1, <1>2
<1>8. Len(Tail(r \o x)) = Len(Tail(r) \o x)
  BY <1>1, <1>2, <1>4, <1>5, <1>6
<1>9. ASSUME NEW i \in 1..Len(Tail(r \o x)) PROVE Tail(r \o x)[i] = (Tail(r) \o x)[i]
  <2>1. i \in Nat /\ i >= 1 /\ i + 1 \in 1..(Len(r) + Len(x)) /\ i \in 1..(Len(Tail(r)) + Len(x))
    BY <1>1, <1>2, <1>4, <1>5, <1>8
  <2>2. Tail(r \o x)[i] = IF i + 1 <= Len(r) THEN r[i + 1] ELSE x[(i + 1) - Len(r)]
    BY <1>2, <1>5, <2>1
  <2>3. (Tail(r) \o x)[i] = IF i <= Len(Tail(r)) THEN Tail(r)[i] ELSE x[i - Len(Tail(r))]
    BY <1>6, <2>1
  <2>4. CASE i + 1 <= Len(r)
    <3>1. i \in 1..Len(Tail(r)) /\ i <= Len(Tail(r))
      BY <1>1, <1>4, <2>1, <2>4
    <3> QED BY <1>4, <2>2, <2>3, <2>4, <3>1
  <2>5. CASE ~ (i + 1 <= Len(r))
    <3>1. ~ (i <= Len(Tail(r))) /\ i - Len(Tail(r)) = (i + 1) - Len(r)
      BY <1>1, <1>4, <2>1, <2>5
    <3> QED BY <2>2, <2>3, <2>5, <3>1
  <2> QED BY <2>4, <2>5
<1> QED BY <1>3, <1>5, <1>6, <1>7, <1>8, <1>9, SeqEqual

LEMMA Lengthened ==
    ASSUME NEW r \in Seq(Command), NEW s \in Seq(Command), NEW o \in Seq(Command),
           NEW e \in Command
    PROVE  Append(r \o (s \o o), e) = r \o (s \o Append(o, e))
<1>1. s \o o \in Seq(Command) /\ r \o (s \o o) \in Seq(Command) /\ <<e>> \in Seq(Command)
  BY ConcatProperties
<1>2. /\ Append(r \o (s \o o), e) = (r \o (s \o o)) \o <<e>>
      /\ Append(o, e) = o \o <<e>>
  BY <1>1, AppendIsConcat
<1>3. (r \o (s \o o)) \o <<e>> = r \o ((s \o o) \o <<e>>)
  BY <1>1, ConcatAssociative
<1>4. (s \o o) \o <<e>> = s \o (o \o <<e>>)
  BY <1>1, ConcatAssociative
<1> QED BY <1>2, <1>3, <1>4

-----------------------------------------------------------------------------
Connected == {"up", "closing"}

\* The channel is there while the context is, and waits to write only if there
\* is something to write; a write is only still to do after the context was
\* freed if the connection had been lost.
Shape ==
    /\ context_ \in {"none", "freed"} => channel_ = None
    /\ context_ = "none" => socket = "none"
    /\ context_ = "connecting" => channel_ = {"write"} /\ socket # "none"
    /\ context_ \in Connected => channel_ # None /\ socket \in {"open", "lost"}
    /\ context_ \in Connected /\ "write" \in channel_ => obuf # <<>>
    /\ context_ = "freeing" => channel_ # None
    /\ context_ \in {"none", "connecting"} =>
          sub = None /\ callbacks = <<>> /\ obuf = <<>> /\ sent = <<>> /\ replies = <<>>
    /\ revents # {} =>
          \/ context_ \in Connected
          \/ context_ \in {"freeing", "freed"} /\ socket = "lost"
    /\ misuse = "late write" => context_ = "freed" /\ socket = "lost"

\* A Hiredis is for SUBSCRIBE or for the other commands.
Uses ==
    /\ obuf \in Seq(issued) /\ sent \in Seq(issued) /\ replies \in Seq(issued)
    /\ \A c, d \in issued : (Kind[c] = "keep") = (Kind[d] = "keep")
    /\ sub # None => sub \in live /\ Kind[sub] = "keep"

\* The callbacks that are due exist, once each, and what they will issue has
\* not been issued.
Due ==
    /\ \A i \in 1..Len(callbacks) : callbacks[i] \in live /\ Kind[callbacks[i]] # "keep"
    /\ \A i, j \in 1..Len(callbacks) : callbacks[i] = callbacks[j] => i = j
    /\ \A c \in Command : Follow[c] \in issued =>
          c \in issued /\ \A i \in 1..Len(callbacks) : callbacks[i] # c

\* The replies come in the order of the callbacks.
Pipe ==
    context_ \in Connected /\ sub = None =>
        /\ socket = "open" => callbacks = replies \o (sent \o obuf)
        /\ socket = "lost" =>
              /\ Len(replies) <= Len(callbacks)
              /\ \A i \in 1..Len(replies) : replies[i] = callbacks[i]

IInv == TypeOK /\ Shape /\ Uses /\ Due /\ Pipe /\ misuse # "other"

LEMMA InvInit ==
    ASSUME CommandAssumption, Init
    PROVE  IInv
<1>1. TypeOK
  <2>1. <<>> \in Seq(Command) /\ <<>> \in Seq(Command \X BOOLEAN)
    OBVIOUS
  <2>2. 0 \in 0..MaxPush
    BY DEF CommandAssumption
  <2> QED BY <2>1, <2>2 DEF Init, TypeOK
<1>2. Shape
  BY DEF Init, Shape, Connected
<1>3. Uses /\ Due
  <2>1. Len(callbacks) = 0 /\ issued = {} /\ sub = None
    BY DEF Init
  <2> QED BY <2>1 DEF Init, Uses, Due
<1>4. Pipe /\ misuse # "other"
  BY DEF Init, Pipe, Connected
<1> QED BY <1>1, <1>2, <1>3, <1>4 DEF IInv

\* Steps of the network and of the context alone
LEMMA SameUses ==
    ASSUME Uses, UNCHANGED <<obuf, sent, replies, issued, sub, live>>
    PROVE  Uses'
BY DEF Uses

LEMMA SameDue ==
    ASSUME Due, UNCHANGED <<callbacks, issued, live>>
    PROVE  Due'
BY DEF Due

-----------------------------------------------------------------------------
(* The callback of a command runs. *)

\* The first callback is called and deleted, and what it issues, if it is
\* accepted, is the last one.
LEMMA CallKeeps ==
    ASSUME CommandAssumption, IInv, NEW reply \in BOOLEAN, callbacks # <<>>,
           NEW c, c = Head(callbacks), CommandCallback(c, reply),
           \/ callbacks' = Tail(callbacks)
           \/ /\ process' = "runs" /\ Follow[c] # None
              /\ callbacks' = Append(Tail(callbacks), Follow[c]),
           sub' = sub
    PROVE  /\ misuse' = misuse /\ process' \in {"runs", "ended"} /\ called' = Append(called, <<c, reply>>)
           /\ called' \in Seq(Command \X BOOLEAN) /\ callbacks' \in Seq(Command)
           /\ live' \subseteq issued' /\ issued \subseteq issued' /\ issued' \subseteq Command
           /\ process' = "runs" /\ Follow[c] # None => Follow[c] \in issued'
           /\ sub = None /\ Due'
           /\ \A x, y \in issued' : (Kind[x] = "keep") = (Kind[y] = "keep")
<1> DEFINE rest == Tail(callbacks)
<1>1. /\ callbacks \in Seq(Command) /\ Len(callbacks) \in Nat /\ Len(callbacks) # 0
      /\ c = callbacks[1] /\ 1 \in 1..Len(callbacks) /\ c \in Command
  <2>1. callbacks \in Seq(Command) /\ Len(callbacks) \in Nat /\ Len(callbacks) # 0
    BY EmptySeq, LenProperties DEF IInv, TypeOK
  <2> QED BY <2>1, ElementOfSeq
<1>2. /\ rest \in Seq(Command) /\ Len(rest) = Len(callbacks) - 1
      /\ \A i \in 1..Len(rest) : rest[i] = callbacks[i + 1]
  BY <1>1, HeadTailProperties
<1>3. c \in live /\ c \in issued /\ Kind[c] # "keep" /\ Deleted(c) = {c}
  BY <1>1 DEF IInv, TypeOK, Due, Deleted
<1>4. \A x \in issued : Kind[x] # "keep"
  BY <1>3 DEF IInv, Uses
<1>5. sub = None
  BY <1>4 DEF IInv, Uses, TypeOK
<1>6. /\ misuse' = misuse /\ called' = Append(called, <<c, reply>>)
      /\ process' \in {"runs", "ended"}
  BY <1>3 DEF CommandCallback, IInv, TypeOK
<1>7. called' \in Seq(Command \X BOOLEAN)
  <2>1. <<c, reply>> \in Command \X BOOLEAN /\ called \in Seq(Command \X BOOLEAN)
    BY <1>1 DEF IInv, TypeOK
  <2> QED BY <1>6, <2>1, AppendProperties
\* The callbacks that are left
<1>8. /\ \A i \in 1..Len(rest) : rest[i] \in live \ {c} /\ Kind[rest[i]] # "keep"
      /\ \A i, j \in 1..Len(rest) : rest[i] = rest[j] => i = j
  <2>1. ASSUME NEW i \in 1..Len(rest)
        PROVE  i + 1 \in 1..Len(callbacks) /\ i + 1 # 1 /\ rest[i] = callbacks[i + 1]
    BY <1>1, <1>2
  <2>2. ASSUME NEW i \in 1..Len(rest) PROVE rest[i] \in live \ {c} /\ Kind[rest[i]] # "keep"
    BY <1>1, <2>1 DEF IInv, Due
  <2>3. ASSUME NEW i \in 1..Len(rest), NEW j \in 1..Len(rest), rest[i] = rest[j] PROVE i = j
    <3>1. i + 1 = j + 1
      BY <2>1, <2>3 DEF IInv, Due
    <3> QED BY <3>1
  <2> QED BY <2>2, <2>3
<1>9. CASE process' # "runs"
  <2>1. callbacks' = rest /\ UNCHANGED <<issued, live>>
    BY <1>9 DEF CommandCallback
  <2>2. Due'
    <3> HIDE DEF rest
    <3>1. \A i \in 1..Len(rest) : \E j \in 1..Len(callbacks) : rest[i] = callbacks[j]
      BY <1>1, <1>2
    <3> QED BY <1>8, <2>1, <3>1 DEF IInv, Due
  <2> QED BY <1>2, <1>5, <1>6, <1>7, <1>9, <2>1, <2>2 DEF IInv, TypeOK, Uses
<1>10. CASE process' = "runs" /\ Follow[c] = None
  <2>1. callbacks' = rest /\ issued' = issued /\ live' = live \ {c}
    BY <1>3, <1>10 DEF CommandCallback, Chain
  <2>2. Due'
    <3> HIDE DEF rest
    <3>1. \A i \in 1..Len(rest) : \E j \in 1..Len(callbacks) : rest[i] = callbacks[j]
      BY <1>1, <1>2
    <3> QED BY <1>8, <2>1, <3>1 DEF IInv, Due
  <2> QED BY <1>2, <1>5, <1>6, <1>7, <1>10, <2>1, <2>2 DEF IInv, TypeOK, Uses
<1>11. CASE process' = "runs" /\ Follow[c] # None
  <2> DEFINE d == Follow[c]
  <2>1. d \in Command /\ Kind[d] # "keep" /\ d # None
    BY <1>1, <1>11 DEF CommandAssumption
  <2>2. issued' = issued \cup {d} /\ live' = (live \ {c}) \cup {d}
    BY <1>3, <1>11, <2>1 DEF CommandCallback, Chain
  <2>3. d \notin issued
    BY <1>1 DEF IInv, Due
  <2>4. \A i \in 1..Len(rest) : rest[i] # d /\ rest[i] # c
    BY <1>8, <2>3 DEF IInv, TypeOK
  <2>5. \A x \in Command : Follow[x] = d => x = c
    BY <1>1, <2>1 DEF CommandAssumption
  <2>6. /\ callbacks' \in Seq(Command)
        /\ \A i \in 1..Len(callbacks') : callbacks'[i] = d \/ \E j \in 1..Len(rest) : callbacks'[i] = rest[j]
        /\ \A i, j \in 1..Len(callbacks') : callbacks'[i] = callbacks'[j] => i = j
    <3> HIDE DEF rest, d
    <3>1. CASE callbacks' = rest
      BY <1>2, <1>8, <3>1
    <3>2. CASE callbacks' = Append(rest, d)
      <4>1. /\ callbacks' \in Seq(Command) /\ Len(callbacks') = Len(rest) + 1 /\ Len(rest) \in Nat
            /\ \A i \in 1..Len(rest) : callbacks'[i] = rest[i]
            /\ callbacks'[Len(rest) + 1] = d
        BY <1>2, <2>1, <3>2, AppendProperties, LenProperties
      <4>2. \A i \in 1..Len(callbacks') : i \in 1..Len(rest) \/ i = Len(rest) + 1
        BY <4>1
      <4> QED BY <1>8, <2>4, <4>1, <4>2
    <3> QED BY <3>1, <3>2 DEF rest, d
  <2>7. Due'
    <3> HIDE DEF rest, d
    <3>1. \A i \in 1..Len(callbacks') : callbacks'[i] \in live' /\ Kind[callbacks'[i]] # "keep"
      BY <1>8, <2>1, <2>2, <2>6
    <3>2. ASSUME NEW x \in Command, Follow[x] \in issued'
          PROVE  x \in issued' /\ \A i \in 1..Len(callbacks') : callbacks'[i] # x
      <4>1. CASE Follow[x] = d
        <5>1. x = c /\ c # d
          BY <1>3, <2>3, <2>5, <4>1
        <5> QED BY <1>3, <2>2, <2>4, <2>6, <5>1
      <4>2. CASE Follow[x] # d
        <5>1. Follow[x] \in issued
          BY <2>2, <3>2, <4>2
        <5>2. x \in issued /\ \A i \in 1..Len(callbacks) : callbacks[i] # x
          BY <5>1 DEF IInv, Due
        <5>3. \A i \in 1..Len(rest) : \E j \in 1..Len(callbacks) : rest[i] = callbacks[j]
          BY <1>1, <1>2
        <5> QED BY <2>2, <2>3, <2>6, <5>2, <5>3
      <4> QED BY <4>1, <4>2
    <3> QED BY <2>6, <3>1, <3>2 DEF Due
  <2>8. \A x, y \in issued' : (Kind[x] = "keep") = (Kind[y] = "keep")
    BY <1>4, <2>1, <2>2
  <2>9. live' \subseteq issued' /\ issued \subseteq issued' /\ issued' \subseteq Command /\ d \in issued'
    BY <1>3, <2>1, <2>2 DEF IInv, TypeOK
  <2> QED BY <1>5, <1>6, <1>7, <2>6, <2>7, <2>8, <2>9
<1> QED BY <1>9, <1>10, <1>11

\* A reply is taken: it is that of the first callback, or of SUBSCRIBE.
LEMMA Replied ==
    ASSUME CommandAssumption, IInv, context_ \in Connected, replies # <<>>
    PROVE  /\ Head(replies) \in issued /\ Tail(replies) \in Seq(issued)
           /\ Head(replies) = sub <=> sub # None
           /\ sub = None => callbacks # <<>> /\ Head(callbacks) = Head(replies)
<1>1. /\ Head(replies) \in issued /\ Tail(replies) \in Seq(issued) /\ Head(replies) = replies[1]
      /\ Len(replies) \in Nat /\ Len(replies) # 0 /\ Head(replies) \in Command
  <2>1. replies \in Seq(issued) /\ issued \subseteq Command
    BY DEF IInv, Uses, TypeOK
  <2>2. Head(replies) \in issued /\ Tail(replies) \in Seq(issued)
    BY <2>1, HeadTailProperties
  <2>3. Len(replies) \in Nat /\ Len(replies) # 0
    BY <2>1, EmptySeq, LenProperties
  <2> QED BY <2>1, <2>2, <2>3
<1>2. CASE sub # None
  <2>1. sub \in issued /\ Kind[sub] = "keep" /\ sub \in Command /\ Head(replies) \in Command
    BY <1>1, <1>2 DEF IInv, Uses, TypeOK
  <2>2. Kind[Head(replies)] = "keep"
    BY <1>1, <2>1 DEF IInv, Uses
  <2> QED BY <1>1, <1>2, <2>1, <2>2 DEF CommandAssumption
<1>3. CASE sub = None
  <2>1. Head(replies) # sub
    BY <1>1, <1>3 DEF CommandAssumption
  <2>2. CASE socket = "open"
    <3>1. sent \o obuf \in Seq(Command)
      BY ConcatProperties DEF IInv, TypeOK
    <3>2. callbacks = replies \o (sent \o obuf)
      BY <1>3, <2>2 DEF IInv, Pipe
    <3> QED BY <1>1, <1>3, <2>1, <3>1, <3>2, Joined
  <2>3. CASE socket = "lost"
    <3>1. Len(replies) <= Len(callbacks) /\ \A i \in 1..Len(replies) : replies[i] = callbacks[i]
      BY <1>3, <2>3 DEF IInv, Pipe
    <3>2. callbacks \in Seq(Command) /\ Len(callbacks) \in Nat
      BY LenProperties DEF IInv, TypeOK
    <3>3. callbacks # <<>> /\ 1 \in 1..Len(replies)
      BY <1>1, <3>1, <3>2
    <3>4. Head(callbacks) = callbacks[1]
      BY <3>3
    <3> QED BY <1>1, <1>3, <2>1, <3>1, <3>3, <3>4
  <2> QED BY <2>2, <2>3 DEF IInv, Shape
<1> QED BY <1>2, <1>3

\* What the callback of the first command issues goes to the end of the
\* commands and of the callbacks.
LEMMA TakeReplyCases ==
    ASSUME CommandAssumption, IInv, Runs, context_ \in Connected, TakeReply
    PROVE  LET c == Head(replies)
               d == Follow[c]
           IN  /\ CommandCallback(c, TRUE) /\ replies # <<>> /\ replies' = Tail(replies)
               /\ UNCHANGED <<context_, socket, sent, sub>>
               /\ \/ sub # None /\ UNCHANGED <<callbacks, obuf, channel_>>
                  \/ /\ sub = None
                     /\ callbacks' = Tail(callbacks) /\ UNCHANGED <<obuf, channel_>>
                  \/ /\ sub = None /\ d \in Command /\ d # None /\ process' = "runs"
                     /\ callbacks' = Append(Tail(callbacks), d)
                     /\ obuf' = Append(obuf, d) /\ obuf' # <<>>
                     /\ channel_' = channel_ \cup {"write"}
<1> DEFINE c == Head(replies)
           more == IF context_ = "up" THEN Chained(c) ELSE <<>>
<1>1. /\ replies # <<>> /\ replies' = Tail(replies) /\ CommandCallback(c, TRUE)
      /\ callbacks' = (IF c = sub THEN callbacks ELSE Tail(callbacks)) \o more
      /\ obuf' = obuf \o more
      /\ channel_' = IF more = <<>> THEN channel_ ELSE channel_ \cup {"write"}
      /\ UNCHANGED <<context_, socket, sent, sub>>
  BY DEF TakeReply
<1>2. /\ c \in Command /\ (c = sub <=> sub # None)
      /\ sub = None => callbacks # <<>>
  BY <1>1, Replied DEF IInv, TypeOK
<1>3. process' = "runs"
  BY <1>1 DEF CommandCallback, Runs
<1>4. callbacks \in Seq(Command) /\ obuf \in Seq(Command) /\ (sub = None => Tail(callbacks) \in Seq(Command))
  BY <1>2, HeadTailProperties DEF IInv, TypeOK
<1>5. CASE sub # None
  <2>1. Follow[c] = None
    BY <1>2, <1>5 DEF IInv, Uses, CommandAssumption
  <2>2. more = <<>>
    BY <2>1 DEF Chained
  <2>3. callbacks \o <<>> = callbacks /\ obuf \o <<>> = obuf
    BY <1>4, ConcatEmptySeq
  <2> QED BY <1>1, <1>2, <1>5, <2>2, <2>3
<1>6. CASE sub = None /\ more = <<>>
  <2>1. Tail(callbacks) \o <<>> = Tail(callbacks) /\ obuf \o <<>> = obuf
    BY <1>4, <1>6, ConcatEmptySeq
  <2> QED BY <1>1, <1>2, <1>6, <2>1
<1>7. CASE sub = None /\ more # <<>>
  <2> DEFINE d == Follow[c]
  <2>1. more = <<d>> /\ d # None /\ d \in Command
    BY <1>2, <1>7 DEF Chained, CommandAssumption
  <2>2. Tail(callbacks) \o <<d>> = Append(Tail(callbacks), d) /\ obuf \o <<d>> = Append(obuf, d)
    <3> HIDE DEF d
    <3> QED BY <1>4, <1>7, <2>1, AppendIsConcat
  <2>3. Append(obuf, d) # <<>>
    <3> HIDE DEF d
    <3> QED BY <1>4, <2>1, AppendProperties
  <2> QED BY <1>1, <1>2, <1>3, <1>7, <2>1, <2>2, <2>3
<1> QED BY <1>5, <1>6, <1>7

-----------------------------------------------------------------------------
(* The invariant, action by action *)

LEMMA TakeReplyKeeps ==
    ASSUME CommandAssumption, IInv, Runs, context_ \in Connected, TakeReply,
           UNCHANGED pushes, revents' \in {{}, {"write"}}
    PROVE  IInv'
<1> DEFINE c == Head(replies)
           d == Follow[c]
<1>1. /\ CommandCallback(c, TRUE) /\ replies # <<>> /\ replies' = Tail(replies)
      /\ UNCHANGED <<context_, socket, sent, sub>>
      /\ \/ sub # None /\ UNCHANGED <<callbacks, obuf, channel_>>
         \/ /\ sub = None
            /\ callbacks' = Tail(callbacks) /\ UNCHANGED <<obuf, channel_>>
         \/ /\ sub = None /\ d \in Command /\ d # None /\ process' = "runs"
            /\ callbacks' = Append(Tail(callbacks), d)
            /\ obuf' = Append(obuf, d) /\ obuf' # <<>>
            /\ channel_' = channel_ \cup {"write"}
  BY TakeReplyCases
<1>2. /\ c \in issued /\ replies' \in Seq(issued) /\ (c = sub <=> sub # None)
      /\ sub = None => callbacks # <<>> /\ Head(callbacks) = c
  BY <1>1, Replied
<1>3. Shape'
  <2>1. /\ channel_' # None
        /\ "write" \in channel_' => "write" \in channel_ \/ obuf' # <<>>
        /\ obuf # <<>> /\ "write" \in channel_ => obuf' # <<>>
    BY <1>1 DEF IInv, TypeOK, Shape, CommandAssumption
  <2>2. misuse' # "late write"
    BY <1>1 DEF CommandCallback, Runs
  <2> QED BY <1>1, <2>1, <2>2 DEF IInv, Shape, Connected
<1>4. CASE sub # None
  <2>1. UNCHANGED <<callbacks, obuf, channel_>> /\ c = sub
    BY <1>1, <1>2, <1>4
  <2>2. sub \in live /\ Kind[sub] = "keep" /\ Follow[sub] = None /\ sub \in Command
    BY <1>4 DEF IInv, Uses, TypeOK, CommandAssumption
  <2>3. /\ misuse' = misuse /\ called' = called /\ process' = process
        /\ issued' = issued /\ live' = live
    BY <1>1, <2>1, <2>2 DEF CommandCallback, Chain, Deleted, Runs
  <2>4. TypeOK'
    <3>1. replies' \in Seq(Command)
      BY <1>2, SeqMonotonic DEF IInv, TypeOK
    <3> QED BY <1>1, <2>1, <2>3, <3>1 DEF IInv, TypeOK
  <2>5. Uses' /\ Due'
    BY <1>1, <1>2, <2>1, <2>3, SameDue DEF IInv, Uses
  <2>6. Pipe' /\ misuse' # "other"
    BY <1>1, <1>4, <2>3 DEF IInv, Pipe
  <2> QED BY <1>3, <2>4, <2>5, <2>6 DEF IInv
<1>5. CASE sub = None
  <2>1. /\ misuse' = misuse /\ process' \in {"runs", "ended"}
        /\ called' \in Seq(Command \X BOOLEAN) /\ callbacks' \in Seq(Command)
        /\ live' \subseteq issued' /\ issued \subseteq issued' /\ issued' \subseteq Command
        /\ (process' = "runs" /\ d # None => d \in issued')
        /\ Due'
        /\ \A x, y \in issued' : (Kind[x] = "keep") = (Kind[y] = "keep")
    BY <1>1, <1>2, <1>5, CallKeeps
  <2>2. replies' \in Seq(issued') /\ sent' \in Seq(issued') /\ obuf' \in Seq(issued')
    <3>1. replies' \in Seq(issued') /\ sent' \in Seq(issued') /\ obuf \in Seq(issued')
      BY <1>1, <1>2, <2>1, SeqMonotonic DEF IInv, Uses
    <3>2. obuf' = obuf \/ (d \in issued' /\ obuf' = Append(obuf, d))
      BY <1>1, <1>5, <2>1
    <3> QED BY <3>1, <3>2, AppendProperties
  <2>3. Uses'
    BY <1>1, <1>5, <2>1, <2>2 DEF Uses
  <2>4. TypeOK'
    <3>1. replies' \in Seq(Command) /\ sent' \in Seq(Command) /\ obuf' \in Seq(Command)
      BY <2>1, <2>2, SeqMonotonic
    <3>2. channel_' \in {None} \cup SUBSET {"read", "write"}
      BY <1>1 DEF IInv, TypeOK, Shape
    <3> QED BY <1>1, <2>1, <3>1, <3>2 DEF IInv, TypeOK
  <2>5. Pipe'
    <3> DEFINE x == sent \o obuf
    <3>1. /\ callbacks \in Seq(Command) /\ replies \in Seq(Command) /\ sent \in Seq(Command)
          /\ obuf \in Seq(Command) /\ x \in Seq(Command) /\ replies' \in Seq(Command)
      BY <1>1, ConcatProperties, HeadTailProperties DEF IInv, TypeOK
    <3>2. callbacks # <<>> /\ Tail(callbacks) \in Seq(Command)
      BY <1>2, <1>5, <3>1, HeadTailProperties
    <3>3. CASE socket = "open"
      <4>1. callbacks = replies \o x
        BY <1>5, <3>3 DEF IInv, Pipe
      <4>2. Tail(callbacks) = replies' \o x
        <5> HIDE DEF x
        <5> QED BY <1>1, <3>1, <4>1, Joined
      <4>3. CASE callbacks' = Tail(callbacks) /\ obuf' = obuf
        BY <1>1, <3>3, <4>2, <4>3 DEF Pipe
      <4>4. CASE d \in Command /\ callbacks' = Append(Tail(callbacks), d) /\ obuf' = Append(obuf, d)
        <5>1. Append(replies' \o (sent \o obuf), d) = replies' \o (sent \o Append(obuf, d))
          <6> HIDE DEF d
          <6>1. replies' \in Seq(Command) /\ sent \in Seq(Command) /\ obuf \in Seq(Command) /\ d \in Command
            BY <3>1, <4>4
          <6> QED BY <6>1, Lengthened
        <5>2. callbacks' = replies' \o (sent' \o obuf')
          <6> HIDE DEF d
          <6> QED BY <1>1, <4>2, <4>4, <5>1
        <5> QED BY <1>1, <3>3, <5>2 DEF Pipe
      <4> QED BY <1>1, <1>5, <4>3, <4>4
    <3>4. CASE socket = "lost"
      <4>1. Len(replies) <= Len(callbacks) /\ \A i \in 1..Len(replies) : replies[i] = callbacks[i]
        BY <1>5, <3>4 DEF IInv, Pipe
      <4>2. /\ Len(replies') = Len(replies) - 1 /\ Len(Tail(callbacks)) = Len(callbacks) - 1
            /\ \A i \in 1..Len(replies') : replies'[i] = replies[i + 1]
            /\ \A i \in 1..Len(Tail(callbacks)) : Tail(callbacks)[i] = callbacks[i + 1]
            /\ Len(replies) \in Nat /\ Len(callbacks) \in Nat
        BY <1>1, <3>1, <3>2, HeadTailProperties, LenProperties
      <4>3. Len(replies') <= Len(Tail(callbacks))
            /\ \A i \in 1..Len(replies') : replies'[i] = Tail(callbacks)[i]
        BY <4>1, <4>2
      <4>4. Len(Tail(callbacks)) <= Len(callbacks')
            /\ \A i \in 1..Len(Tail(callbacks)) : callbacks'[i] = Tail(callbacks)[i]
        <5> HIDE DEF d
        <5>1. CASE callbacks' = Append(Tail(callbacks), d) /\ d \in Command
          BY <3>2, <4>2, <5>1, AppendProperties
        <5>2. CASE callbacks' = Tail(callbacks)
          BY <4>2, <5>2
        <5> QED BY <1>1, <1>5, <5>1, <5>2
      <4>5. Len(callbacks') \in Nat
        BY <2>1, LenProperties
      <4>6. Len(replies') <= Len(callbacks') /\ \A i \in 1..Len(replies') : replies'[i] = callbacks'[i]
        BY <4>2, <4>3, <4>4, <4>5
      <4> QED BY <1>1, <3>4, <4>6 DEF Pipe
    <3> QED BY <3>3, <3>4 DEF IInv, Shape
  <2> QED BY <1>3, <2>1, <2>3, <2>4, <2>5 DEF IInv
<1> QED BY <1>4, <1>5

LEMMA HandleReadKeeps ==
    ASSUME CommandAssumption, IInv, HandleRead
    PROVE  IInv'
<1>1. /\ Runs /\ context_ # "freeing" /\ channel_ # None /\ "read" \in channel_ /\ revents = {}
      /\ revents' \in {{}, {"write"}} /\ UNCHANGED pushes
  BY DEF HandleRead, Active
<1>2. context_ \in Connected
  <2>1. context_ \notin {"none", "freed"}
    BY <1>1 DEF IInv, Shape
  <2>2. context_ # "connecting"
    <3>1. channel_ # {"write"}
      BY <1>1
    <3> QED BY <3>1 DEF IInv, Shape
  <2> QED BY <1>1, <2>1, <2>2 DEF IInv, TypeOK, Connected
<1>3. CASE TakeReply
  BY <1>1, <1>2, <1>3, TakeReplyKeeps
<1>4. CASE StartFree /\ (socket = "lost" \/ NothingLeft)
  <2>1. /\ context_' = "freeing" /\ misuse = "none"
        /\ UNCHANGED <<channel_, socket, obuf, sent, replies, callbacks, sub, live, called, issued,
                       process, misuse, pushes>>
    BY <1>1, <1>4 DEF StartFree, io, objects, Runs
  <2>2. revents' # {} => socket = "lost"
    <3>1. CASE NothingLeft
      BY <1>1, <1>2, <3>1 DEF NothingLeft, IInv, Shape, HandleRead, Writable, Active
    <3> QED BY <1>4, <3>1
  <2>3. TypeOK' /\ Shape'
    BY <1>1, <1>2, <2>1, <2>2 DEF IInv, TypeOK, Shape, Connected
  <2>4. Uses' /\ Due' /\ Pipe' /\ misuse' # "other"
    BY <2>1, SameUses, SameDue DEF IInv, Pipe, Connected
  <2> QED BY <2>3, <2>4 DEF IInv
<1> QED BY <1>1, <1>3, <1>4 DEF HandleRead

LEMMA HandleWriteKeeps ==
    ASSUME CommandAssumption, IInv, HandleWrite
    PROVE  IInv'
<1>1. /\ Runs /\ misuse = "none" /\ context_ # "freeing" /\ revents' = {} /\ UNCHANGED pushes
      /\ (revents = {"write"} \/ Writable)
  BY DEF HandleWrite, Runs
<1>2. CASE HandleConnect
  <2>1. /\ UNCHANGED <<socket, obuf, sent, replies, callbacks, sub, live, called, issued,
                       process, misuse, pushes>>
        /\ context_ = "connecting"
        /\ IF socket = "refused"
           THEN context_' = "freed" /\ channel_' = None
           ELSE context_' = "up" /\ channel_' = {"read"}
    BY <1>1, <1>2 DEF HandleConnect, io, objects, Rearmed
  <2>2. socket \in {"refused", "open", "lost"}
    BY <1>1, <2>1 DEF IInv, TypeOK, Shape, Connected, Writable
  <2>3. {"read"} # None
    BY DEF CommandAssumption
  <2>4. TypeOK'
    BY <1>1, <2>1 DEF IInv, TypeOK
  <2>5. Shape'
    BY <1>1, <2>1, <2>2, <2>3 DEF IInv, Shape, Connected
  <2>6. Uses' /\ Due' /\ misuse' # "other"
    BY <2>1, SameUses, SameDue DEF IInv
  <2>7. Pipe'
    <3>1. callbacks' = <<>> /\ replies' = <<>> /\ sent' = <<>> /\ obuf' = <<>>
      BY <2>1 DEF IInv, Shape
    <3>2. <<>> = <<>> \o (<<>> \o <<>>) /\ Len(<<>>) = 0
      <4>1. <<>> \in Seq(Command)
        OBVIOUS
      <4> QED BY <4>1, ConcatEmptySeq
    <3> QED BY <3>1, <3>2 DEF Pipe
  <2> QED BY <2>4, <2>5, <2>6, <2>7 DEF IInv
<1>3. CASE Flush
  <2>1. /\ context_ \in Connected /\ obuf' = <<>> /\ channel_' = {"read"}
        /\ sent' = IF socket = "open" THEN sent \o obuf ELSE sent
        /\ UNCHANGED <<context_, socket, replies, callbacks, sub, live, called, issued, process,
                       misuse, pushes>>
    BY <1>1, <1>3 DEF Flush, objects, Rearmed, Connected
  <2>2. {"read"} # None
    BY DEF CommandAssumption
  <2>3. obuf' \in Seq(issued) /\ sent' \in Seq(issued)
    BY <2>1, ConcatProperties DEF IInv, Uses
  <2>4. TypeOK'
    <3>1. obuf' \in Seq(Command) /\ sent' \in Seq(Command)
      BY <2>3, SeqMonotonic DEF IInv, TypeOK
    <3> QED BY <1>1, <2>1, <3>1 DEF IInv, TypeOK
  <2>5. Shape'
    BY <1>1, <2>1, <2>2 DEF IInv, Shape, Connected
  <2>6. Uses' /\ Due' /\ misuse' # "other"
    BY <2>1, <2>3, SameDue DEF IInv, Uses
  <2>7. Pipe'
    <3>1. (sent \o obuf) \o <<>> = sent \o obuf
      <4>1. sent \o obuf \in Seq(Command)
        BY ConcatProperties DEF IInv, TypeOK
      <4> QED BY <4>1, ConcatEmptySeq
    <3> QED BY <2>1, <3>1 DEF IInv, Pipe
  <2> QED BY <2>4, <2>5, <2>6, <2>7 DEF IInv
<1>4. CASE socket = "lost" /\ context_ \in {"up", "closing"} /\ StartFree
  <2>1. /\ context_' = "freeing" /\ context_ \in Connected
        /\ UNCHANGED <<channel_, socket, obuf, sent, replies, callbacks, sub, live, called, issued,
                       process, misuse, pushes>>
    BY <1>1, <1>4 DEF StartFree, io, objects, Connected
  <2>2. TypeOK' /\ Shape'
    BY <1>1, <2>1 DEF IInv, TypeOK, Shape, Connected
  <2>3. Uses' /\ Due' /\ Pipe' /\ misuse' # "other"
    BY <2>1, SameUses, SameDue DEF IInv, Pipe, Connected
  <2> QED BY <2>2, <2>3 DEF IInv
<1>5. CASE LateWrite
  <2>1. /\ context_ = "freed" /\ misuse' = "late write"
        /\ UNCHANGED <<context_, channel_, socket, obuf, sent, replies, callbacks, sub, live, called,
                       issued, process, pushes>>
    BY <1>1, <1>5 DEF LateWrite, io, objects
  <2>2. socket = "lost"
    BY <1>1, <2>1 DEF IInv, Shape, Connected, Writable, Active
  <2>3. TypeOK' /\ Shape'
    BY <1>1, <2>1, <2>2 DEF IInv, TypeOK, Shape, Connected
  <2>4. Uses' /\ Due' /\ Pipe' /\ misuse' # "other"
    BY <2>1, SameUses, SameDue DEF IInv, Pipe, Connected
  <2> QED BY <2>3, <2>4 DEF IInv
<1> QED BY <1>2, <1>3, <1>4, <1>5 DEF HandleWrite

\* What Issue does: the command is refused, or accepted for SUBSCRIBE's
\* callback or as the last of the others.
LEMMA IssueCases ==
    ASSUME CommandAssumption, IInv, NEW c \in Command, Issue(c)
    PROVE  /\ Runs /\ revents = {} /\ context_ # "freeing" /\ c \notin issued
           /\ \A d \in Command : Follow[d] # c
           /\ \A d \in issued : (Kind[d] = "keep") = (Kind[c] = "keep")
           /\ issued' = issued \cup {c} /\ misuse' = misuse
           /\ UNCHANGED <<context_, revents, socket, sent, replies, pushes, called>>
           /\ \/ /\ process' \in {process, "ended"} /\ live' \in {live, live \cup {c}}
                 /\ UNCHANGED <<obuf, channel_, sub, callbacks>>
              \/ /\ context_ = "up" /\ process' = process /\ live' = live \cup {c}
                 /\ obuf' = Append(obuf, c) /\ channel_' = channel_ \cup {"write"}
                 /\ \/ Kind[c] = "keep" /\ sub' = c /\ callbacks' = callbacks
                    \/ Kind[c] # "keep" /\ sub' = sub /\ callbacks' = Append(callbacks, c)
<1>1. misuse' = misuse
  BY DEF Issue, FlagsRead, IInv, Shape
<1>2. CASE connected /\ context_ = "up"
  BY <1>1, <1>2 DEF Issue, Accepted
<1>3. CASE ~ (connected /\ context_ = "up")
  <2>1. process' \in {process, "ended"} /\ live' \in {live, live \cup {c}}
        /\ UNCHANGED <<obuf, channel_, sub, callbacks>>
    BY <1>3 DEF Issue
  <2> QED BY <1>1, <2>1 DEF Issue
<1> QED BY <1>2, <1>3

LEMMA IssueKeeps ==
    ASSUME CommandAssumption, IInv, NEW c \in Command, Issue(c)
    PROVE  IInv'
<1>1. /\ Runs /\ revents = {} /\ context_ # "freeing" /\ c \notin issued
      /\ \A d \in Command : Follow[d] # c
      /\ \A d \in issued : (Kind[d] = "keep") = (Kind[c] = "keep")
      /\ issued' = issued \cup {c} /\ misuse' = misuse
      /\ UNCHANGED <<context_, revents, socket, sent, replies, pushes, called>>
  BY IssueCases
<1>2. \A x, y \in issued' : (Kind[x] = "keep") = (Kind[y] = "keep")
  BY <1>1 DEF IInv, Uses
<1>3. replies' \in Seq(issued') /\ sent' \in Seq(issued') /\ obuf \in Seq(issued')
  BY <1>1, SeqMonotonic DEF IInv, Uses
<1>4. /\ callbacks \in Seq(Command) /\ obuf \in Seq(Command) /\ sent \in Seq(Command)
      /\ replies \in Seq(Command) /\ Len(callbacks) \in Nat /\ Len(replies) \in Nat
  BY LenProperties DEF IInv, TypeOK
\* What the callback of c will issue has not been issued.
<1>5. \A x \in Command : Follow[x] \in issued' => x \in issued /\ \A i \in 1..Len(callbacks) : callbacks[i] # x
  BY <1>1 DEF IInv, Due
<1>6. CASE /\ process' \in {process, "ended"} /\ live' \in {live, live \cup {c}}
           /\ UNCHANGED <<obuf, channel_, sub, callbacks>>
  <2>1. live \subseteq live'
    BY <1>6
  <2>2. TypeOK'
    BY <1>1, <1>6 DEF IInv, TypeOK
  <2>3. Shape' /\ Pipe' /\ misuse' # "other"
    BY <1>1, <1>6 DEF IInv, Shape, Pipe
  <2>4. Uses'
    BY <1>1, <1>2, <1>3, <1>6, <2>1 DEF IInv, Uses
  <2>5. Due'
    BY <1>1, <1>5, <1>6, <2>1 DEF IInv, Due
  <2> QED BY <2>2, <2>3, <2>4, <2>5 DEF IInv
<1>7. CASE /\ context_ = "up" /\ process' = process /\ live' = live \cup {c}
           /\ obuf' = Append(obuf, c) /\ channel_' = channel_ \cup {"write"}
           /\ \/ Kind[c] = "keep" /\ sub' = c /\ callbacks' = callbacks
              \/ Kind[c] # "keep" /\ sub' = sub /\ callbacks' = Append(callbacks, c)
  <2>1. obuf' \in Seq(Command) /\ obuf' # <<>> /\ obuf' \in Seq(issued')
    BY <1>1, <1>3, <1>4, <1>7, AppendProperties
  <2>2. callbacks' \in Seq(Command)
    BY <1>4, <1>7, AppendProperties
  <2>3. channel_ \in SUBSET {"read", "write"} /\ channel_' \in SUBSET {"read", "write"} /\ channel_' # None
    <3>1. channel_ \in SUBSET {"read", "write"}
      BY <1>7 DEF IInv, TypeOK, Shape, Connected
    <3>2. channel_' \in SUBSET {"read", "write"}
      BY <1>7, <3>1
    <3> QED BY <3>1, <3>2 DEF CommandAssumption
  <2>4. TypeOK'
    BY <1>1, <1>7, <2>1, <2>2, <2>3 DEF IInv, TypeOK
  <2>5. Shape'
    BY <1>1, <1>7, <2>1, <2>3 DEF IInv, Shape, Connected
  <2>6. Uses'
    BY <1>1, <1>2, <1>3, <1>7, <2>1 DEF IInv, Uses
  <2>7. CASE Kind[c] = "keep"
    <3>1. Due'
      BY <1>1, <1>5, <1>7, <2>7 DEF IInv, Due
    <3>2. sub' # None
      BY <1>7, <2>7 DEF CommandAssumption
    <3> QED BY <1>1, <2>4, <2>5, <2>6, <3>1, <3>2 DEF IInv, Pipe
  <2>8. CASE Kind[c] # "keep"
    <3>1. sub' = sub /\ callbacks' = Append(callbacks, c)
      BY <1>7, <2>8
    <3>2. /\ Len(callbacks') = Len(callbacks) + 1 /\ callbacks'[Len(callbacks) + 1] = c
          /\ \A i \in 1..Len(callbacks) : callbacks'[i] = callbacks[i]
          /\ \A i \in 1..Len(callbacks') : i \in 1..Len(callbacks) \/ i = Len(callbacks) + 1
      BY <1>4, <3>1, AppendProperties
    <3>3. \A i \in 1..Len(callbacks) : callbacks[i] \in live /\ callbacks[i] # c /\ Kind[callbacks[i]] # "keep"
      <4>1. live \subseteq issued
        BY DEF IInv, TypeOK
      <4>2. \A i \in 1..Len(callbacks) : callbacks[i] \in live /\ Kind[callbacks[i]] # "keep"
        BY DEF IInv, Due
      <4> QED BY <1>1, <4>1, <4>2
    <3>4. \A i, j \in 1..Len(callbacks) : callbacks[i] = callbacks[j] => i = j
      BY DEF IInv, Due
    <3>5. /\ \A i \in 1..Len(callbacks') : callbacks'[i] \in live' /\ Kind[callbacks'[i]] # "keep"
          /\ \A i, j \in 1..Len(callbacks') : callbacks'[i] = callbacks'[j] => i = j
          /\ \A x \in Command : Follow[x] \in issued' =>
                x \in issued' /\ \A i \in 1..Len(callbacks') : callbacks'[i] # x
      BY <1>1, <1>5, <1>7, <2>8, <3>2, <3>3, <3>4
    <3>6. Due'
      BY <3>5 DEF Due
    <3>7. Pipe'
      <4>1. Append(replies \o (sent \o obuf), c) = replies \o (sent \o Append(obuf, c))
        BY <1>4, Lengthened
      <4>2. sub = None /\ socket = "open" => callbacks' = replies' \o (sent' \o obuf')
        BY <1>1, <1>7, <3>1, <4>1 DEF IInv, Pipe, Connected
      <4>3. sub = None /\ socket = "lost" =>
               Len(replies') <= Len(callbacks') /\ \A i \in 1..Len(replies') : replies'[i] = callbacks'[i]
        BY <1>1, <1>4, <1>7, <3>2 DEF IInv, Pipe, Connected
      <4> QED BY <1>1, <3>1, <4>2, <4>3 DEF Pipe
    <3> QED BY <1>1, <2>4, <2>5, <2>6, <3>6, <3>7 DEF IInv
  <2> QED BY <2>7, <2>8
<1> QED BY <1>6, <1>7, IssueCases

LEMMA FreeCallbacksKeeps ==
    ASSUME CommandAssumption, IInv, FreeCallbacks
    PROVE  IInv'
<1>1. /\ Runs /\ context_ = "freeing"
      /\ UNCHANGED <<context_, channel_, revents, socket, obuf, sent, replies, pushes>>
  BY DEF FreeCallbacks, io
<1>2. CASE callbacks # <<>> /\ CommandCallback(Head(callbacks), FALSE) /\ callbacks' = Tail(callbacks) /\ sub' = sub
  <2> DEFINE c == Head(callbacks)
  <2>1. /\ misuse' = misuse /\ process' \in {"runs", "ended"}
        /\ called' \in Seq(Command \X BOOLEAN) /\ callbacks' \in Seq(Command)
        /\ live' \subseteq issued' /\ issued \subseteq issued' /\ issued' \subseteq Command
        /\ sub = None /\ Due'
        /\ \A x, y \in issued' : (Kind[x] = "keep") = (Kind[y] = "keep")
    BY <1>2, CallKeeps
  <2>2. TypeOK'
    BY <1>1, <1>2, <2>1 DEF IInv, TypeOK
  <2>3. Uses'
    <3>1. replies' \in Seq(issued') /\ sent' \in Seq(issued') /\ obuf' \in Seq(issued')
      BY <1>1, <2>1, SeqMonotonic DEF IInv, Uses
    <3> QED BY <1>2, <2>1, <3>1 DEF Uses
  <2>4. Shape' /\ Pipe'
    BY <1>1, <2>1 DEF IInv, Shape, Pipe, Connected
  <2> QED BY <2>1, <2>2, <2>3, <2>4 DEF IInv
<1>3. CASE callbacks = <<>> /\ sub # None /\ CommandCallback(sub, FALSE) /\ sub' = None /\ callbacks' = callbacks
  <2>1. sub \in live /\ Kind[sub] = "keep"
    BY <1>3 DEF IInv, Uses
  <2>2. /\ misuse' = misuse /\ process' = "ended" /\ called' = called
        /\ UNCHANGED <<issued, live>>
    BY <1>3, <2>1 DEF CommandCallback
  <2>3. TypeOK'
    BY <1>1, <1>3, <2>2 DEF IInv, TypeOK
  <2>4. Uses' /\ Due'
    BY <1>1, <1>3, <2>2, SameDue DEF IInv, Uses
  <2>5. Shape' /\ Pipe' /\ misuse' # "other"
    BY <1>1, <2>2 DEF IInv, Shape, Pipe, Connected
  <2> QED BY <2>3, <2>4, <2>5 DEF IInv
<1> QED BY <1>2, <1>3 DEF FreeCallbacks

\* The context and its channel end or begin.
LEMMA ContextKeeps ==
    ASSUME CommandAssumption, IInv, Connect \/ Disconnect \/ Freed
    PROVE  IInv'
<1>1. UNCHANGED <<revents, obuf, sent, replies, callbacks, sub, live, called, issued, pushes, process>>
  BY DEF Connect, Disconnect, Freed, io, objects
<1>2. Uses' /\ Due'
  BY <1>1, SameUses, SameDue DEF IInv
<1>3. CASE Connect
  <2>1. context_ = "none" /\ context_' = "connecting" /\ socket' = "pending" /\ channel_' = {"write"}
        /\ misuse' = misuse /\ Runs
    BY <1>3 DEF Connect
  <2>2. TypeOK'
    BY <1>1, <2>1 DEF IInv, TypeOK
  <2>3. Shape' /\ Pipe' /\ misuse' # "other"
    BY <1>1, <2>1 DEF IInv, Shape, Pipe, Connected, Runs
  <2> QED BY <1>2, <2>2, <2>3 DEF IInv
<1>4. CASE Disconnect
  <2>1. /\ context_ = "up" /\ context_' \in {"freeing", "closing"} /\ revents = {} /\ Runs
        /\ UNCHANGED <<channel_, socket, misuse>>
    BY <1>4 DEF Disconnect, io
  <2>2. TypeOK'
    BY <1>1, <2>1 DEF IInv, TypeOK
  <2>3. Shape' /\ Pipe' /\ misuse' # "other"
    BY <1>1, <2>1 DEF IInv, Shape, Pipe, Connected, Runs
  <2> QED BY <1>2, <2>2, <2>3 DEF IInv
<1>5. CASE Freed
  <2>1. /\ context_ = "freeing" /\ context_' = "freed" /\ channel_' = None /\ socket' = socket /\ Runs
        /\ misuse' = misuse
    BY <1>5 DEF Freed, io, IInv, Shape
  <2>2. TypeOK'
    BY <1>1, <2>1 DEF IInv, TypeOK
  <2>3. Shape' /\ Pipe' /\ misuse' # "other"
    BY <1>1, <2>1 DEF IInv, Shape, Pipe, Connected, Runs
  <2> QED BY <1>2, <2>2, <2>3 DEF IInv
<1> QED BY <1>3, <1>4, <1>5

LEMMA NetworkKeeps ==
    ASSUME CommandAssumption, IInv, Establish \/ RedisExec \/ Push \/ Lose
    PROVE  IInv'
<1>1. UNCHANGED <<context_, channel_, revents, obuf, callbacks, sub, live, called, issued, process, misuse>>
  BY DEF Establish, RedisExec, Push, Lose, objects
<1>2. Due' /\ misuse' # "other"
  BY <1>1, SameDue DEF IInv
<1>3. /\ issued \subseteq Command /\ sent \in Seq(issued) /\ replies \in Seq(issued)
      /\ obuf \in Seq(issued) /\ obuf \in Seq(Command) /\ replies \in Seq(Command)
  BY DEF IInv, TypeOK, Uses
<1>4. CASE Establish
  <2>1. /\ socket = "pending" /\ socket' \in {"open", "refused"}
        /\ UNCHANGED <<sent, replies, pushes>>
    BY <1>4 DEF Establish
  <2>2. TypeOK' /\ Uses'
    BY <1>1, <2>1, SameUses DEF IInv, TypeOK
  <2>3. Shape' /\ Pipe'
    BY <1>1, <2>1 DEF IInv, Shape, Pipe
  <2> QED BY <1>2, <2>2, <2>3 DEF IInv
<1>5. CASE RedisExec
  <2>1. /\ socket = "open" /\ sent # <<>> /\ sent' = Tail(sent) /\ replies' = Append(replies, Head(sent))
        /\ UNCHANGED <<socket, pushes>>
    BY <1>5 DEF RedisExec
  <2>2. /\ replies' \in Seq(issued) /\ sent' \in Seq(issued)
        /\ replies' \o (sent' \o obuf) = replies \o (sent \o obuf)
    BY <1>3, <2>1, Moved
  <2>3. TypeOK'
    <3>1. replies' \in Seq(Command) /\ sent' \in Seq(Command)
      BY <1>3, <2>2, SeqMonotonic
    <3> QED BY <1>1, <2>1, <3>1 DEF IInv, TypeOK
  <2>4. Uses'
    BY <1>1, <2>2 DEF IInv, Uses
  <2>5. Shape'
    BY <1>1, <2>1 DEF IInv, Shape
  <2>6. Pipe'
    BY <1>1, <2>1, <2>2 DEF IInv, Pipe
  <2> QED BY <1>2, <2>3, <2>4, <2>5, <2>6 DEF IInv
<1>6. CASE Push
  <2>1. /\ sub # None /\ socket = "open" /\ replies' = Append(replies, sub)
        /\ UNCHANGED <<socket, sent>> /\ pushes' = pushes + 1 /\ pushes < MaxPush
    BY <1>6 DEF Push, Subscribed
  <2>2. sub \in issued
    BY <2>1 DEF IInv, Uses, TypeOK
  <2>3. replies' \in Seq(issued)
    BY <1>3, <2>1, <2>2, AppendProperties
  <2>4. TypeOK'
    <3>1. replies' \in Seq(Command)
      BY <1>3, <2>3, SeqMonotonic
    <3>2. pushes' \in 0..MaxPush
      <4>1. pushes \in 0..MaxPush /\ MaxPush \in Nat
        BY DEF IInv, TypeOK, CommandAssumption
      <4> QED BY <2>1, <4>1
    <3> QED BY <1>1, <2>1, <3>1, <3>2 DEF IInv, TypeOK
  <2>5. Uses'
    BY <1>1, <2>1, <2>3 DEF IInv, Uses
  <2>6. Shape' /\ Pipe'
    BY <1>1, <2>1 DEF IInv, Shape, Pipe
  <2> QED BY <1>2, <2>4, <2>5, <2>6 DEF IInv
<1>7. CASE Lose
  <2>1. /\ socket = "open" /\ socket' = "lost" /\ sent' = <<>> /\ replies' \in {replies, <<>>}
        /\ pushes' = pushes
    BY <1>7 DEF Lose
  <2>2. replies' \in Seq(issued) /\ sent' \in Seq(issued) /\ replies' \in Seq(Command) /\ sent' \in Seq(Command)
    <3>1. <<>> \in Seq(issued) /\ <<>> \in Seq(Command)
      OBVIOUS
    <3> QED BY <1>3, <2>1, <3>1
  <2>3. TypeOK'
    BY <1>1, <2>1, <2>2 DEF IInv, TypeOK
  <2>4. Uses'
    BY <1>1, <2>2 DEF IInv, Uses
  <2>5. Shape'
    BY <1>1, <2>1 DEF IInv, Shape
  <2>6. Pipe'
    <3>1. ASSUME context_ \in Connected, sub = None
          PROVE  /\ Len(replies') <= Len(callbacks)
                 /\ \A i \in 1..Len(replies') : replies'[i] = callbacks[i]
      <4> DEFINE x == sent \o obuf
      <4>1. callbacks = replies \o x
        BY <2>1, <3>1 DEF IInv, Pipe
      <4>2. x \in Seq(Command)
        BY ConcatProperties DEF IInv, TypeOK
      <4>3. /\ Len(callbacks) = Len(replies) + Len(x)
            /\ \A i \in 1..(Len(replies) + Len(x)) : callbacks[i] = IF i <= Len(replies) THEN replies[i] ELSE x[i - Len(replies)]
            /\ Len(replies) \in Nat /\ Len(x) \in Nat
        <5> HIDE DEF x
        <5> QED BY <1>3, <4>1, <4>2, ConcatProperties, LenProperties
      <4>4. CASE replies' = replies
        BY <4>3, <4>4
      <4>5. CASE replies' = <<>>
        BY <4>3, <4>5
      <4> QED BY <2>1, <4>4, <4>5
    <3> QED BY <1>1, <2>1, <3>1 DEF Pipe
  <2> QED BY <1>2, <2>3, <2>4, <2>5, <2>6 DEF IInv
<1> QED BY <1>4, <1>5, <1>6, <1>7

LEMMA InvNext ==
    ASSUME CommandAssumption, IInv, [Next]_vars
    PROVE  IInv'
<1>1. CASE UNCHANGED vars
  <2>1. UNCHANGED <<context_, channel_, revents, socket, obuf, sent, replies, callbacks, sub, live, called,
                    issued, pushes, process, misuse>>
    BY <1>1 DEF vars, io, objects
  <2>2. TypeOK'
    BY <2>1 DEF IInv, TypeOK
  <2>3. Shape' /\ Pipe' /\ misuse' # "other"
    BY <2>1 DEF IInv, Shape, Pipe
  <2> QED BY <2>1, <2>2, <2>3, SameUses, SameDue DEF IInv
<1>2. CASE \E c \in Command : Issue(c)
  BY <1>2, IssueKeeps
<1>3. CASE Connect \/ Disconnect \/ Freed
  BY <1>3, ContextKeeps
<1>4. CASE HandleRead
  BY <1>4, HandleReadKeeps
<1>5. CASE HandleWrite
  BY <1>5, HandleWriteKeeps
<1>6. CASE FreeCallbacks
  BY <1>6, FreeCallbacksKeeps
<1>7. CASE Establish \/ RedisExec \/ Push \/ Lose
  BY <1>7, NetworkKeeps
<1> QED BY <1>1, <1>2, <1>3, <1>4, <1>5, <1>6, <1>7 DEF Next, Loop

\* Every variable keeps its type, and no pointer to a context or a callback is
\* used after it was freed but in the one case that Guarded names, for any
\* commands that are each issued by one place (HiRedis.cc 25-200).
THEOREM PointersGuarded ==
    ASSUME CommandAssumption
    PROVE  Spec => [](TypeOK /\ Guarded)
<1>1. Init => IInv
  BY InvInit
<1>2. IInv /\ [Next]_vars => IInv'
  BY InvNext
<1>3. IInv => TypeOK /\ Guarded
  BY DEF IInv, Shape, Guarded
<1> QED BY <1>1, <1>2, <1>3, PTL DEF Spec

-----------------------------------------------------------------------------
(* It implements CommandQueue. *)

Down == context_ \in {"freeing", "freed"}

\* A callback runs: the first of the queue, and what it issues is the last.
LEMMA CallStep ==
    ASSUME Runs, callbacks # <<>>, called' = Append(called, <<Head(callbacks), ~ Down>>),
           UNCHANGED context_,
           \/ callbacks' = Tail(callbacks)
           \/ ~ Down /\ \E d \in Command : callbacks' = Append(Tail(callbacks), d)
    PROVE  Queue!Next
<1>1. (~ Runs)' \in BOOLEAN
  BY DEF Runs
<1>2. Queue!Call
  BY <1>1 DEF Queue!Call, Down
<1> QED BY <1>2 DEF Queue!Next

\* Nothing happens to the queue, but that the process may end.
LEMMA EndStep ==
    ASSUME UNCHANGED <<callbacks, called>>, Down' = Down, UNCHANGED Runs \/ ~ Runs'
    PROVE  [Queue!Next]_(Queue!vars)
BY DEF Queue!Next, Queue!End, Queue!vars, Down, Runs

LEMMA LoseStep ==
    ASSUME Runs, UNCHANGED <<callbacks, called, process, misuse>>, Down'
    PROVE  Queue!Next
BY DEF Queue!Next, Queue!Lose, Down, Runs

LEMMA StepImplements ==
    ASSUME CommandAssumption, IInv, [Next]_vars
    PROVE  [Queue!Next]_(Queue!vars)
<1>1. CASE UNCHANGED vars
  BY <1>1, EndStep DEF vars, objects, Down, Runs
<1>2. CASE Connect \/ Establish \/ RedisExec \/ Push \/ Lose
  <2>1. UNCHANGED <<callbacks, called, process, misuse>> /\ Down' = Down
    BY <1>2 DEF Connect, Establish, RedisExec, Push, Lose, objects, Down
  <2> QED BY <2>1, EndStep DEF Runs
<1>3. ASSUME NEW c \in Command, Issue(c)
      PROVE  [Queue!Next]_(Queue!vars)
  <2>1. Runs /\ context_ # "freeing" /\ misuse' = misuse /\ UNCHANGED <<context_, called>>
    BY <1>3, IssueCases
  <2>2. CASE process' \in {process, "ended"} /\ callbacks' = callbacks
    BY <2>1, <2>2, EndStep DEF Down, Runs
  <2>3. CASE context_ = "up" /\ process' = process /\ callbacks' = Append(callbacks, c)
    <3>1. Queue!Accept(c)
      BY <2>1, <2>3 DEF Queue!Accept, Down, Runs
    <3> QED BY <3>1 DEF Queue!Next
  <2> QED BY <1>3, <2>2, <2>3, IssueCases
<1>4. CASE Disconnect
  <2>1. /\ Runs /\ context_ = "up" /\ context_' \in {"freeing", "closing"}
        /\ UNCHANGED <<callbacks, called, process, misuse>>
    BY <1>4 DEF Disconnect, objects
  <2>2. CASE context_' = "freeing"
    BY <2>1, <2>2, LoseStep DEF Down
  <2>3. CASE context_' = "closing"
    BY <2>1, <2>3, EndStep DEF Down, Runs
  <2> QED BY <2>1, <2>2, <2>3
<1>5. CASE HandleRead
  <2>1. Runs /\ context_ # "freeing" /\ channel_ # None /\ "read" \in channel_
    BY <1>5 DEF HandleRead, Active
  <2>2. CASE StartFree
    BY <2>1, <2>2, LoseStep DEF StartFree, objects, Down
  <2>3. CASE TakeReply
    <3> DEFINE c == Head(replies)
    <3>1. context_ \in Connected /\ ~ Down
      <4>1. context_ \notin {"none", "freed"}
        BY <2>1 DEF IInv, Shape
      <4>2. channel_ # {"write"}
        BY <2>1
      <4>3. context_ # "connecting"
        BY <4>2 DEF IInv, Shape
      <4> QED BY <2>1, <4>1, <4>3 DEF IInv, TypeOK, Connected, Down
    <3>2. /\ CommandCallback(c, TRUE) /\ replies # <<>> /\ context_' = context_
          /\ \/ sub # None /\ callbacks' = callbacks
             \/ sub = None /\ callbacks' = Tail(callbacks)
             \/ sub = None /\ \E d \in Command : callbacks' = Append(Tail(callbacks), d)
      BY <2>1, <2>3, <3>1, TakeReplyCases
    <3>3. (c = sub <=> sub # None) /\ (sub = None => callbacks # <<>> /\ Head(callbacks) = c) /\ c \in issued
      BY <3>1, <3>2, Replied
    <3>4. CASE sub # None
      <4>1. c \in live /\ Kind[c] = "keep"
        BY <3>3, <3>4 DEF IInv, Uses
      <4>2. called' = called /\ misuse' = misuse /\ process' = process /\ callbacks' = callbacks
        BY <3>2, <3>4, <4>1 DEF CommandCallback
      <4> QED BY <3>2, <4>2, EndStep DEF Down, Runs
    <3>5. CASE sub = None
      <4>1. Kind[c] # "keep"
        <5>1. Len(callbacks) \in Nat /\ Len(callbacks) # 0 /\ c = callbacks[1]
          <6>1. callbacks \in Seq(Command) /\ callbacks # <<>>
            BY <3>3, <3>5 DEF IInv, TypeOK
          <6>2. Len(callbacks) \in Nat /\ Len(callbacks) # 0
            BY <6>1, EmptySeq, LenProperties
          <6> QED BY <3>3, <3>5, <6>1, <6>2
        <5>2. 1 \in 1..Len(callbacks)
          BY <5>1
        <5> QED BY <5>1, <5>2 DEF IInv, Due
      <4>2. called' = Append(called, <<Head(callbacks), ~ Down>>)
        <5>1. called' = Append(called, <<c, TRUE>>)
          BY <3>2, <4>1 DEF CommandCallback
        <5>2. (~ Down) = TRUE
          BY <3>1
        <5> QED BY <3>3, <3>5, <5>1, <5>2
      <4> QED BY <2>1, <3>1, <3>2, <3>3, <3>5, <4>2, CallStep
    <3> QED BY <3>4, <3>5
  <2> QED BY <1>5, <2>2, <2>3 DEF HandleRead
<1>6. CASE HandleWrite
  <2>1. Runs
    BY <1>6 DEF HandleWrite
  <2>2. CASE HandleConnect
    <3>1. UNCHANGED <<callbacks, called, process, misuse>> /\ context_ = "connecting" /\ context_' \in {"freed", "up"}
      BY <2>2 DEF HandleConnect, objects
    <3>2. CASE context_' = "freed"
      BY <2>1, <3>1, <3>2, LoseStep DEF Down
    <3>3. CASE context_' = "up"
      BY <2>1, <3>1, <3>3, EndStep DEF Down, Runs
    <3> QED BY <3>1, <3>2, <3>3
  <2>3. CASE Flush
    <3>1. UNCHANGED <<callbacks, called, process, misuse, context_>>
      BY <2>3 DEF Flush, objects
    <3> QED BY <3>1, EndStep DEF Down, Runs
  <2>4. CASE StartFree
    BY <2>1, <2>4, LoseStep DEF StartFree, objects, Down
  <2>5. CASE LateWrite
    <3>1. UNCHANGED <<callbacks, called, context_>> /\ misuse' = "late write"
      BY <2>5 DEF LateWrite, objects
    <3> QED BY <3>1, EndStep DEF Down, Runs
  <2> QED BY <1>6, <2>2, <2>3, <2>4, <2>5 DEF HandleWrite
<1>7. CASE FreeCallbacks
  <2>1. Runs /\ context_ = "freeing" /\ UNCHANGED context_ /\ Down
    BY <1>7 DEF FreeCallbacks, Down
  <2>2. CASE callbacks # <<>> /\ CommandCallback(Head(callbacks), FALSE) /\ callbacks' = Tail(callbacks) /\ sub' = sub
    <3>1. called' = Append(called, <<Head(callbacks), FALSE>>)
      BY <2>2, CallKeeps
    <3>2. (~ Down) = FALSE
      BY <2>1
    <3> QED BY <2>1, <2>2, <3>1, <3>2, CallStep
  <2>3. CASE callbacks = <<>> /\ sub # None /\ CommandCallback(sub, FALSE) /\ callbacks' = callbacks
    <3>1. Kind[sub] = "keep" /\ sub \in live
      BY <2>3 DEF IInv, Uses
    <3>2. called' = called /\ process' = "ended"
      BY <2>3, <3>1 DEF CommandCallback
    <3> QED BY <2>1, <2>3, <3>2, EndStep DEF Down, Runs
  <2> QED BY <1>7, <2>2, <2>3 DEF FreeCallbacks
<1>8. CASE Freed
  <2>1. /\ context_ = "freeing" /\ context_' = "freed" /\ misuse' = misuse
        /\ UNCHANGED <<callbacks, called, process>>
    BY <1>8 DEF Freed, objects, IInv, Shape
  <2> QED BY <2>1, EndStep DEF Down, Runs
<1> QED BY <1>1, <1>2, <1>3, <1>4, <1>5, <1>6, <1>7, <1>8 DEF Next, Loop

\* The callback of each command that is accepted is called at most once, in
\* order, and without a reply only when the connection has ended; the callback
\* that issues another command puts it last (HiRedis.cc 178-200, 81-99).
THEOREM ImplementsQueue ==
    ASSUME CommandAssumption
    PROVE  Spec => Queue!Spec
<1>1. Init => IInv
  BY InvInit
<1>2. IInv /\ [Next]_vars => IInv'
  BY InvNext
<1>3. Init => Queue!Init
  BY DEF Init, Queue!Init, Runs
<1>4. IInv /\ [Next]_vars => [Queue!Next]_(Queue!vars)
  BY StepImplements
<1> QED BY <1>1, <1>2, <1>3, <1>4, PTL DEF Spec, Queue!Spec

=============================================================================
