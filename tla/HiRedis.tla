------------------------------ MODULE HiRedis ------------------------------
(***************************************************************************)
(* A Hiredis: the channel in an event loop through which an asynchronous   *)
(* context of the library hiredis is read and written, and the callbacks   *)
(* of the commands.  The library is modelled by what its version 1.0 does  *)
(* to the context and which hooks and callbacks it calls.                  *)
(*                                                                         *)
(* The callbacks are those of the servers: "forget" ignores its reply, as  *)
(* that of SET, "read" looks into it, as that of GET, and "keep" looks     *)
(* into it and is kept for later ones, that of SUBSCRIBE.  A callback may  *)
(* issue another command, as handleOfflineMessage issues DEL.              *)
(*                                                                         *)
(* An operator XMutant is a wrong X, put in its place to see that the      *)
(* properties notice; nothing else uses it.                                *)
(***************************************************************************)
EXTENDS Naturals, Sequences

CONSTANTS
    Command,    \* commands; each is issued once
    Kind,       \* the kind of its callback
    Follow,     \* Follow[c]: the command that its callback issues, or None
    Vital,      \* commands without which their thread ends the process
    MaxPush,    \* bound: messages on the channel
    None

VARIABLES
    context_,   \* how far the context is; "freed" is a dangling pointer
    channel_,   \* the events it waits for, None for no channel
    revents,    \* what Channel::handleEvent has still to do
    socket,     \* the connection
    obuf,       \* commands hiredis has not written
    sent,       \* commands Redis has not executed
    replies,    \* replies that have not been read
    callbacks,  \* ac->replies: commands whose reply is due
    sub,        \* ac->sub: the SUBSCRIBE
    live,       \* commands whose CommandCallback exists
    issued,     \* commands issued
    pushes,     \* messages on the channel so far
    called,     \* callbacks called, but that of SUBSCRIBE
    process,    \* "ended" by a null reply or a REDIS_ERR
    misuse       \* a dangling or null pointer was used, an assertion failed

\* Each command is issued by one place: a handler of the loop, or the callback
\* of one command.  One of them is SUBSCRIBE, whose callback issues nothing.
CommandAssumption ==
    /\ None \notin Command /\ \A events \in SUBSET {"read", "write"} : events # None
    /\ Kind \in [Command -> {"forget", "read", "keep"}]
    /\ Follow \in [Command -> Command \cup {None}]
    /\ \A c, d \in Command :
          /\ Follow[c] = Follow[d] /\ Follow[c] # None => c = d
          /\ Kind[c] = "keep" /\ Kind[d] = "keep" => c = d
          /\ Kind[c] = "keep" => Follow[c] = None /\ Follow[d] # c
    /\ MaxPush \in Nat

io      == <<socket, obuf, sent, replies>>
objects == <<callbacks, sub, live, called>>
vars    == <<context_, channel_, revents, io, objects, issued, pushes, process, misuse>>

TypeOK ==
    /\ context_ \in {"none", "connecting", "up", "closing", "freeing", "freed"}
    /\ channel_ \in {None} \cup SUBSET {"read", "write"}
    /\ revents \subseteq {"write"}
    /\ socket \in {"none", "pending", "refused", "open", "lost"}
    /\ obuf \in Seq(Command) /\ sent \in Seq(Command) /\ replies \in Seq(Command)
    /\ callbacks \in Seq(Command)
    /\ sub \in {None} \cup Command
    /\ live \subseteq issued /\ issued \subseteq Command
    /\ pushes \in 0..MaxPush
    /\ called \in Seq(Command \X BOOLEAN)
    /\ process \in {"runs", "ended"}
    /\ misuse \in {"none", "late write", "other"}

Init ==
    /\ context_ = "none" /\ channel_ = None /\ revents = {}
    /\ socket = "none" /\ obuf = <<>> /\ sent = <<>> /\ replies = <<>>
    /\ callbacks = <<>> /\ sub = None /\ live = {} /\ called = <<>>
    /\ issued = {} /\ pushes = 0 /\ process = "runs" /\ misuse = "none"

Runs == process = "runs" /\ misuse = "none"

-----------------------------------------------------------------------------
(* Connecting and issuing commands *)

\* The hook that is called for the connect callback is addWrite.
Connect ==
    /\ Runs /\ context_ = "none"
    /\ context_' = "connecting" /\ socket' = "pending"
    /\ channel_' = {"write"}
    /\ UNCHANGED <<revents, obuf, sent, replies, objects, issued, pushes, process, misuse>>

\* connected() looks at the flags of the context only if there is a channel.
FlagsReadMutant == context_ # "none"
FlagsRead == channel_ # None /\ context_ # "none"
connected == FlagsRead /\ context_ \in {"up", "closing", "freeing"}

\* redisvAsyncCommand: the hook addWrite, and who gets the reply
Accepted(c) ==
    /\ obuf' = Append(obuf, c)
    /\ channel_' = channel_ \cup {"write"}
    /\ IF Kind[c] = "keep" THEN sub' = c /\ UNCHANGED callbacks
       ELSE callbacks' = Append(callbacks, c) /\ UNCHANGED sub

\* A handler of the loop calls Hiredis::command.  The CommandCallback is made
\* before redisvAsyncCommand refuses, and nobody deletes it then.  The servers
\* use one Hiredis for SUBSCRIBE and another one for the rest.
Issue(c) ==
    /\ Runs /\ context_ # "freeing" /\ revents = {}
    /\ c \notin issued /\ \A d \in Command : Follow[d] # c
    /\ \A d \in issued : (Kind[d] = "keep") = (Kind[c] = "keep")
    /\ issued' = issued \cup {c}
    /\ misuse' = IF FlagsRead /\ context_ = "freed" THEN "other" ELSE misuse
    /\ live' = IF connected THEN live \cup {c} ELSE live
    /\ IF connected /\ context_ = "up"
       THEN Accepted(c) /\ UNCHANGED process
       ELSE /\ process' = IF c \in Vital THEN "ended" ELSE process
            /\ UNCHANGED <<obuf, channel_, sub, callbacks>>
    /\ UNCHANGED <<context_, revents, socket, sent, replies, pushes, called>>

\* Nobody calls disconnect() yet.
Disconnect ==
    /\ Runs /\ revents = {} /\ connected /\ context_ = "up"
    /\ context_' = IF callbacks = <<>> THEN "freeing" ELSE "closing"
    /\ UNCHANGED <<channel_, revents, io, objects, issued, pushes, process, misuse>>

-----------------------------------------------------------------------------
(* Callbacks *)

\* commandCallback deletes the callback if it returns 0.
DeletedMutant(c) == {c}                          \* also that of SUBSCRIBE
Deleted(c) == IF Kind[c] = "keep" THEN {} ELSE {c}

\* What it issues is accepted if the context is up; cf. Issue.
Chained(c) == IF Follow[c] = None THEN <<>> ELSE <<Follow[c]>>
Chain(c) ==
    LET new == {Follow[c]} \ {None}
    IN  /\ issued' = issued \cup new
        /\ live' = (live \ Deleted(c)) \cup new

\* commandCallback: the callback of c runs.
CommandCallback(c, reply) ==
    /\ misuse' = IF c \in live THEN misuse ELSE "other"
    /\ process' = IF reply \/ Kind[c] = "forget" THEN process ELSE "ended"
    /\ called' = IF Kind[c] = "keep" THEN called ELSE Append(called, <<c, reply>>)
    /\ IF process' = "runs" THEN Chain(c) ELSE UNCHANGED <<issued, live>>

-----------------------------------------------------------------------------
(* The channel: Channel::handleEvent reads, and then writes, if the poll     *)
(* returned both.                                                            *)

\* __redisAsyncDisconnect: the callbacks that are left run next.
StartFree == context_' = "freeing" /\ UNCHANGED <<channel_, io, objects, issued, process, misuse>>

Active(event) == Runs /\ context_ # "freeing" /\ channel_ # None /\ event \in channel_
Writable == Active("write") /\ socket # "pending"

\* redisProcessCallbacks takes one of the replies.
TakeReply ==
    LET c == Head(replies)
        more == IF context_ = "up" THEN Chained(c) ELSE <<>>
    IN  /\ replies # <<>>
        /\ replies' = Tail(replies)
        /\ CommandCallback(c, TRUE)
        /\ callbacks' = (IF c = sub THEN callbacks ELSE Tail(callbacks)) \o more
        /\ obuf' = obuf \o more
        /\ channel_' = IF more = <<>> THEN channel_ ELSE channel_ \cup {"write"}
        /\ UNCHANGED <<context_, socket, sent, sub>>

\* It goes on to free a context that was disconnected and awaits no reply.
NothingLeft ==
    context_ = "closing" /\ callbacks = <<>> /\ obuf = <<>> /\ replies = <<>>

HandleRead ==
    /\ Active("read") /\ revents = {}
    /\ \/ TakeReply
       \/ socket = "lost" /\ replies = <<>> /\ StartFree
       \/ NothingLeft /\ StartFree
    /\ revents' \in IF Writable THEN {{}, {"write"}} ELSE {{}}
    /\ UNCHANGED pushes

\* handleWrite without a connection: removeChannel, then the context calls
\* connectCallback, which makes another channel or, refused, none; refused,
\* the context frees itself.  Nobody resets context_.
RearmedMutant == {}                              \* setChannel, no addRead
Rearmed == {"read"}
HandleConnect ==
    /\ context_ = "connecting"
    /\ IF socket = "refused"
       THEN context_' = "freed" /\ channel_' = None
       ELSE context_' = "up" /\ channel_' = Rearmed
    /\ UNCHANGED <<io, objects, issued, process, misuse>>

\* redisAsyncHandleWrite writes everything; the hooks are delWrite, addRead.
Flush ==
    /\ context_ \in {"up", "closing"}
    /\ sent' = IF socket = "open" THEN sent \o obuf ELSE sent
    /\ obuf' = <<>>
    /\ channel_' = Rearmed
    /\ UNCHANGED <<context_, socket, replies, objects, issued, process, misuse>>

\* The context was freed by the read that came before.
LateWrite ==
    /\ context_ = "freed"
    /\ misuse' = "late write"
    /\ UNCHANGED <<context_, channel_, io, objects, issued, process>>

HandleWrite ==
    /\ Runs /\ context_ # "freeing"
    /\ revents = {"write"} \/ Writable
    /\ revents' = {}
    /\ \/ HandleConnect
       \/ Flush
       \/ socket = "lost" /\ context_ \in {"up", "closing"} /\ StartFree
       \/ LateWrite
    /\ UNCHANGED pushes

-----------------------------------------------------------------------------
(* __redisAsyncFree: callbacks are called without a reply, in order, then    *)
(* that of SUBSCRIBE, then disconnectCallback.                               *)

FreeCallbacks ==
    /\ Runs /\ context_ = "freeing"
    /\ \/ /\ callbacks # <<>>
          /\ CommandCallback(Head(callbacks), FALSE)
          /\ callbacks' = Tail(callbacks)
          /\ UNCHANGED sub
       \/ /\ callbacks = <<>> /\ sub # None
          /\ CommandCallback(sub, FALSE)
          /\ sub' = None
          /\ UNCHANGED callbacks
    /\ UNCHANGED <<context_, channel_, revents, io, pushes>>

\* disconnectCallback: removeChannel
Freed ==
    /\ Runs /\ context_ = "freeing" /\ callbacks = <<>> /\ sub = None
    /\ context_' = "freed" /\ channel_' = None
    /\ misuse' = IF channel_ = None THEN "other" ELSE misuse
    /\ UNCHANGED <<revents, io, objects, issued, pushes, process>>

-----------------------------------------------------------------------------
(* Redis and the network *)

Establish ==
    /\ socket = "pending" /\ socket' \in {"open", "refused"}
    /\ UNCHANGED <<context_, channel_, revents, obuf, sent, replies, objects, issued,
                   pushes, process, misuse>>

RedisExec ==
    /\ socket = "open" /\ sent # <<>>
    /\ sent' = Tail(sent) /\ replies' = Append(replies, Head(sent))
    /\ UNCHANGED <<context_, channel_, revents, socket, obuf, objects, issued, pushes,
                   process, misuse>>

Subscribed == sub # None /\ \A i \in DOMAIN (obuf \o sent) : (obuf \o sent)[i] # sub

Push ==
    /\ socket = "open" /\ Subscribed /\ pushes < MaxPush
    /\ replies' = Append(replies, sub) /\ pushes' = pushes + 1
    /\ UNCHANGED <<context_, channel_, revents, socket, obuf, sent, objects, issued,
                   process, misuse>>

\* Redis is stopped; replies that have not been read may be lost with it.
Lose ==
    /\ socket = "open" /\ socket' = "lost"
    /\ sent' = <<>> /\ replies' \in {replies, <<>>}
    /\ UNCHANGED <<context_, channel_, revents, obuf, objects, issued, pushes, process, misuse>>

-----------------------------------------------------------------------------
Loop == HandleRead \/ HandleWrite \/ FreeCallbacks \/ Freed

Next ==
    \/ Connect \/ (\E c \in Command : Issue(c)) \/ Disconnect
    \/ Loop
    \/ Establish \/ RedisExec \/ Push \/ Lose

\* The loop handles what a poll returns, and Redis executes what it has.
Fairness == WF_vars(Loop) /\ WF_vars(RedisExec)

Spec == Init /\ [][Next]_vars /\ Fairness

-----------------------------------------------------------------------------
(* Properties *)

\* No pointer to the context or to a callback is used after it was freed and
\* no assertion of HiRedis.cc fails, whatever the order of commands, replies
\* and the end of the connection, but for one case: one poll reports the end
\* of the connection to handleRead and that the socket can be written, and
\* handleWrite runs after the context was freed (HiRedis.cc 89-99).
Guarded ==
    /\ misuse # "other"
    /\ misuse = "late write" => socket = "lost" /\ channel_ = None

Queue == INSTANCE CommandQueue WITH
    queue <- callbacks,
    called <- called,
    down <- context_ \in {"freeing", "freed"},
    ended <- ~ Runs

\* The callback of each command that is accepted is called once, in order,
\* and without a reply only when the connection has ended
\* (HiRedis.cc 178-200, 81-99).
InOrder == Queue!FairSpec

=============================================================================
