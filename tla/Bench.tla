------------------------------- MODULE Bench -------------------------------
(***************************************************************************)
(* The four load generators: "broadcast" and "online" log in many clients, *)
(* not too many at a time, and then send messages between them; "login"    *)
(* logs them in all at once and counts the notifications; "signup" creates *)
(* the accounts, one after the other.  Each is one thread: a callback is   *)
(* one action, but for the loop over the frames in a buffer, each of which *)
(* is one (a loop that does not get on is state "spins").                  *)
(*                                                                         *)
(* What a read finds may end in the middle of a frame.  "broadcast" and    *)
(* "login" then wait for the rest; "online" and "signup" take any bytes    *)
(* for a frame and fail Buffer's assertion, or misread what follows (state *)
(* "torn", where the model ends).                                          *)
(*                                                                         *)
(* The servers answer requests, deliver messages and send notifications    *)
(* that others have caused, which no generator tells from its own.         *)
(*                                                                         *)
(* An operator XMutant is a wrong X, put in its place to see that the      *)
(* properties notice; nothing else uses it.                                *)
(***************************************************************************)
EXTENDS Integers, Sequences, FiniteSetsExt, Functions

CONSTANTS
    client_count,   \* also normal_user_count, and the names to sign up
    Window,         \* logins at a time (1000)
    messageLimit,   \* at least 1
    MaxForeign      \* bound: notifications others have caused

\* A broadcast test sends until it has sent messageLimit messages, so at least 1.
BenchAssumption ==
    client_count \in Nat /\ Window \in Nat /\ messageLimit \in Nat \ {0} /\ MaxForeign \in Nat

Client  == 1..client_count
Program == {"broadcast", "online", "login", "signup"}

VARIABLES
    program,
    state,          \* "runs", "spins", "counted": has printed its result;
                    \* "broken": has lost a connection; "torn": see above
    timers,         \* functions that runAfter will call
    client_index,   \* clients made; of "signup": index, the names asked for
    request_count,  \* logins that are under way, as it counts them
    success_login,  \* logins that have succeeded; sign-ups that are answered
    bad_login,      \* logins that have failed
    conn,           \* the connection of each client
    asked,          \* clients whose request has not been answered
    inbox,          \* frames for each client
    cut,            \* clients whose last frame is not all there yet
    due,            \* messages that are still to be delivered to each client
    messages,       \* messages sent
    received,       \* message_receive_count, time_cost_list, ..._message_count
    foreign,        \* notifications to each client that others have caused
    finish_count    \* clients that have got messageLimit messages

logins == <<client_index, request_count, success_login, bad_login, conn, asked>>
test   == <<due, messages, received, finish_count>>
buffers == <<inbox, cut>>
vars   == <<program, state, timers, logins, buffers, test, foreign>>

Many == program \in {"broadcast", "online"}

Init ==
    /\ program \in Program
    /\ state = "runs"
    /\ timers = IF program = "signup" THEN {} ELSE {"login"}
    /\ client_index = 0 /\ request_count = 0 /\ success_login = 0 /\ bad_login = 0
    /\ conn = [c \in Client |-> IF program = "signup" /\ c = 1 THEN "opening" ELSE "none"]
    /\ asked = {}
    /\ inbox = [c \in Client |-> <<>>] /\ cut = {}
    /\ due = [c \in Client |-> 0] /\ messages = 0
    /\ received = [c \in Client |-> 0] /\ foreign = [c \in Client |-> 0]
    /\ finish_count = 0

Runs == state = "runs"

-----------------------------------------------------------------------------
(* Logging in *)

\* NewClient for the next n clients; the window is "broadcast"'s and
\* "online"'s.
OpenClients(n) ==
    /\ client_index' = client_index + n
    /\ conn' = [c \in Client |-> IF c \in (client_index + 1)..(client_index + n) THEN "opening"
                                 ELSE conn[c]]

Room == Min({Window - request_count, client_count - client_index})

\* loginFunc calls itself again until all requests are sent.
AgainMutant == timers \ {"login"}                \* runAfter left out
Again == timers
LoginFunc ==
    /\ Runs /\ Many /\ "login" \in timers
    /\ IF client_index = client_count
       THEN timers' = timers \ {"login"} /\ UNCHANGED <<client_index, conn, request_count>>
       ELSE /\ OpenClients(Room)
            /\ request_count' = request_count + Room
            /\ timers' = Again
    /\ UNCHANGED <<program, state, success_login, bad_login, asked, buffers, test, foreign>>

\* startLogin
StartLogin ==
    /\ Runs /\ program = "login" /\ "login" \in timers
    /\ OpenClients(client_count)
    /\ timers' = timers \ {"login"}
    /\ UNCHANGED <<program, state, request_count, success_login, bad_login, asked, buffers, test,
                   foreign>>

\* The connection callback sends a LOGIN, or the SIGN_UP of the first name.
Connected(c) ==
    /\ Runs /\ conn[c] = "opening"
    /\ conn' = [conn EXCEPT ![c] = "up"]
    /\ asked' = asked \cup {c}
    /\ client_index' = IF program = "signup" THEN 1 ELSE client_index
    /\ UNCHANGED <<program, state, timers, request_count, success_login, bad_login, buffers, test,
                   foreign>>

\* The connection ends: the process exits, or, "signup", waits for nothing.
Broken(c) ==
    /\ Runs /\ conn[c] = "up"
    /\ state' = "broken"
    /\ UNCHANGED <<program, timers, logins, buffers, test, foreign>>

-----------------------------------------------------------------------------
(* The servers *)

\* A frame comes, the last that came before it is then all there; its own end
\* may come later.
Put(c, frame) ==
    /\ inbox' = [inbox EXCEPT ![c] = Append(@, frame)]
    /\ cut' \in {cut \ {c}, cut \cup {c}}

Rest(c) ==
    /\ c \in cut
    /\ cut' = cut \ {c}
    /\ UNCHANGED <<program, state, timers, logins, inbox, test, foreign>>

Answer(c) ==
    /\ c \in asked
    /\ asked' = asked \ {c}
    /\ Put(c, "ok") \/ Put(c, "bad")
    /\ UNCHANGED <<program, state, timers, client_index, request_count, success_login, bad_login,
                   conn, test, foreign>>

Deliver(c) ==
    /\ due[c] > 0
    /\ due' = [due EXCEPT ![c] = @ - 1]
    /\ Put(c, "message")
    /\ UNCHANGED <<program, state, timers, logins, messages, received, finish_count, foreign>>

\* Somebody else broadcasts something.
Interfere(c) ==
    /\ program # "signup" /\ conn[c] = "up" /\ c \notin asked
    /\ SumFunction(foreign) < MaxForeign
    /\ foreign' = [foreign EXCEPT ![c] = @ + 1]
    /\ Put(c, "other")
    /\ UNCHANGED <<program, state, timers, logins, test>>

-----------------------------------------------------------------------------
(* The message callbacks *)

\* The first frame is there, to its end.
Whole(c) == Len(inbox[c]) > (IF c \in cut THEN 1 ELSE 0)

Took(c) == Runs /\ Whole(c) /\ inbox' = [inbox EXCEPT ![c] = Tail(@)] /\ UNCHANGED cut

\* These two do not ask whether a frame is whole.
Careless == program \in {"online", "signup"}
Torn(c) ==
    /\ Runs /\ Careless /\ inbox[c] # <<>> /\ ~ Whole(c)
    /\ state' = "torn"
    /\ UNCHANGED <<program, timers, logins, buffers, test, foreign>>

\* A login has succeeded; when all have, the test is to start.
AllInMutant(n) == n >= Window                    \* when the first have
AllIn(n) == n = client_count
LoginDone(c) ==
    /\ Many /\ Took(c) /\ Head(inbox[c]) = "ok"
    /\ request_count' = request_count - 1
    /\ success_login' = success_login + 1
    /\ timers' = IF AllIn(success_login') THEN timers \cup {"start"} ELSE timers
    /\ UNCHANGED <<program, state, client_index, bad_login, conn, asked, test, foreign>>

\* An answer that is an error is not retrieved from the buffer, so that the
\* loop finds it again and again; its head is enough for "online".
LoginFailed(c) ==
    /\ Runs /\ Many /\ inbox[c] # <<>> /\ Head(inbox[c]) = "bad"
    /\ Whole(c) \/ Careless
    /\ bad_login' = bad_login + 1
    /\ state' = "spins"
    /\ UNCHANGED <<program, timers, client_index, request_count, success_login, conn, asked,
                   buffers, test, foreign>>

\* Whatever CHAT comes counts.
Finished(n) == n = client_count
BroadcastReceived(c) ==
    /\ program = "broadcast" /\ Took(c) /\ Head(inbox[c]) \in {"message", "other"}
    /\ received' = [received EXCEPT ![c] = @ + 1]
    /\ finish_count' = finish_count + (IF received'[c] = messageLimit THEN 1 ELSE 0)
    /\ state' = IF Finished(finish_count') THEN "counted" ELSE state
    /\ UNCHANGED <<program, timers, logins, due, messages, foreign>>

\* "online" knows its messages by their texts.
ChatReceived(c) ==
    /\ program = "online" /\ Took(c) /\ Head(inbox[c]) \in {"message", "other"}
    /\ received' = IF Head(inbox[c]) = "message" THEN [received EXCEPT ![c] = @ + 1] ELSE received
    /\ UNCHANGED <<program, state, timers, logins, due, messages, finish_count, foreign>>

\* clientMessageCallback of "login" counts any answer as a login, and waits
\* for as many notifications as the servers would send if each login was
\* announced to all who are there.  Nobody sets test_stage.
Expected == (client_count * (client_count + 1)) \div 2
LoginReceived(c) ==
    /\ program = "login" /\ Took(c)
    /\ IF Head(inbox[c]) \in {"ok", "bad"}
       THEN success_login' = success_login + 1 /\ UNCHANGED <<received, timers>>
       ELSE /\ received' = [received EXCEPT ![c] = @ + 1]
            /\ timers' = IF SumFunction(received') = Expected THEN timers \cup {"result"}
                         ELSE timers
            /\ UNCHANGED success_login
    /\ UNCHANGED <<program, state, client_index, request_count, bad_login, conn, asked, due,
                   messages, finish_count, foreign>>

\* An answer to a SIGN_UP, and the request for the next name
SignUpDone(c) ==
    /\ program = "signup" /\ Took(c)
    /\ success_login' = success_login + 1
    /\ IF client_index = client_count
       THEN state' = "counted" /\ UNCHANGED <<client_index, asked>>
       ELSE client_index' = client_index + 1 /\ asked' = asked \cup {c} /\ UNCHANGED state
    /\ UNCHANGED <<program, timers, request_count, bad_login, conn, test, foreign>>

-----------------------------------------------------------------------------
(* The test *)

\* startBroadcastTest: client after client, until all are sent; each message
\* goes to all.
StartBroadcastTest ==
    /\ Runs /\ program = "broadcast" /\ "start" \in timers
    /\ timers' = timers \ {"start"}
    /\ messages' = messageLimit
    /\ due' = [c \in Client |-> messageLimit]
    /\ UNCHANGED <<program, state, logins, buffers, received, finish_count, foreign>>

\* startChatTest: one message at a time, to anybody; then it waits.
StartChatTest ==
    /\ Runs /\ program = "online" /\ "start" \in timers
    /\ IF messages < messageLimit
       THEN /\ messages' = messages + 1
            /\ \E c \in Client : due' = [due EXCEPT ![c] = @ + 1]
            /\ UNCHANGED timers
       ELSE timers' = (timers \ {"start"}) \cup {"result"} /\ UNCHANGED <<messages, due>>
    /\ UNCHANGED <<program, state, logins, buffers, received, finish_count, foreign>>

\* resultCount, of "online", and testClientLoginFinish
ResultCount ==
    /\ Runs /\ "result" \in timers
    /\ state' = "counted" /\ timers' = timers \ {"result"}
    /\ UNCHANGED <<program, logins, buffers, test, foreign>>

-----------------------------------------------------------------------------
Timer == LoginFunc \/ StartLogin \/ StartBroadcastTest \/ StartChatTest \/ ResultCount

Callback(c) ==
    \/ Connected(c)
    \/ LoginDone(c) \/ LoginFailed(c) \/ BroadcastReceived(c) \/ ChatReceived(c)
    \/ LoginReceived(c) \/ SignUpDone(c) \/ Torn(c)

Next ==
    \/ Timer
    \/ \E c \in Client :
           Callback(c) \/ Broken(c) \/ Answer(c) \/ Deliver(c) \/ Interfere(c) \/ Rest(c)

\* The loop calls what is due, the servers do what they are asked, and TCP
\* brings all of it.
Fairness ==
    /\ WF_vars(Timer)
    /\ \A c \in Client : /\ WF_vars(Callback(c)) /\ WF_vars(Rest(c))
                        /\ WF_vars(Answer(c)) /\ WF_vars(Deliver(c))

Spec == Init /\ [][Next]_vars /\ Fairness

-----------------------------------------------------------------------------
(* Properties *)

Unanswered == {c \in Client : conn[c] = "opening" \/ c \in asked \/
                              \E i \in DOMAIN inbox[c] : inbox[c][i] \in {"ok", "bad"}}

\* Messages are only sent between clients that are all logged in, and never
\* more than Window logins are under way; what is printed was measured: the
\* messages were sent, each client got all of a broadcast, but for as many as
\* others' notifications it took for one, and nobody is counted twice
\* (Broadcast.cc 100-190, Online.cc 84-155, Signup.cc 41-62).
Measured ==
    /\ Many => Cardinality(Unanswered) <= Window
    /\ messages > 0 => success_login = client_count /\ Unanswered = {}
    /\ state = "counted" =>
         CASE program = "broadcast" -> \A c \in Client :
                  received[c] >= messageLimit /\ due[c] <= foreign[c]
           [] program = "online"    -> /\ messages = messageLimit
                                       /\ SumFunction(received) <= messages
           [] program = "signup"    -> success_login = client_count /\ asked = {}
           [] OTHER                 -> SumFunction(received) >= Expected

\* A generator comes to its result unless a connection is lost, a login is
\* refused ("broadcast" and "online" then never leave their callback), or
\* "online" or "signup" has read a part of a frame; "login" does not, unless
\* others send what it waits for (Broadcast.cc 173, Online.cc 113-145,
\* Signup.cc 41-50, Login.cc 117).
Finishes ==
    <>(\/ state \in {"counted", "broken"}
       \/ Many /\ state = "spins"
       \/ Careless /\ state = "torn"
       \/ program = "login")

=============================================================================
