# A verification project for GameChatServer

GameChatServer is a chat system for a game: clients talk to a **proxy**, the
proxy to one **chat server** per area and to a **database server**, and all the
servers keep what they share in **Redis**.  The repository has no tests and its
only document is `src/base/message.md`; the modules here are translated from the
code in `src/`.

    client --TCP--> proxy (6 threads) --TCP--> chat server, area 1 --+
                        |        \---TCP--> chat server, area 2 --+-- Redis
                        |                      ^------TCP-----^   |
                        \-------TCP--> database server -----------+

Every process is built on muduo: one event loop per thread, callbacks that run
to their end.  What makes the system hard is what happens between callbacks.  A
handler sends a Redis command and goes on in the callback of the reply, when the
user, the connection or the object it remembered may be gone; two chat servers
use the same keys; TCP cuts the stream anywhere; processes and connections end.

Contents: 1 inventory, 2 plan, 3 modules, 4 runs and bounds, 5 fairness,
6 proofs, 7 findings, 8 what is not modelled, 9 how to run it.

## 1. Inventory

### Chat server (`src/chat`)

*State*: `local_players_` (uid to `Player`), `active_players_`,
`broadcast_message_list_`, `other_servers_`; for each Player a message queue, a
black list and a weak pointer to its connection; for each connection of a proxy
thread a `ProxyConnection` with `uid_` and `login_`.  In Redis: `<uid>:online`
(the server's description), `msg:<uid>` (messages for users who are offline),
`black:<uid>`.

*Operations*: requests LOGIN, LOGOUT, CHAT, ADD/DEL/GET_BLACK_LIST, PLAYER_LIST;
the callbacks of EVAL (login), LRANGE msg, LRANGE black, GET online; a 50 ms
timer that sends what is queued; the end of a connection, which destroys the
ProxyConnection and logs one user out; messages forwarded by other servers.

*Hard*: logins and logouts that overlap with the answers of an earlier login;
`operator[]` on a map that makes null entries; a callback that captures `this`
of a ProxyConnection; DEL of a list that was read one round trip earlier; two
servers that SET and DEL one key; broadcasts that must not be echoed.

*Correct if*: messages reach their receiver, at most once, and are lost only as
documented; nothing from a blocked sender is delivered; the slot of a user is
not taken over; the online key says where the user is; broadcasts reach every
player and come to an end.

### Proxy (`src/proxy`)

*State*, per thread: `login_clients` (uid to weak pointer), `user_info` (uid to
area), `login_requests` and `sign_up_requests` (by stamp), `current_stamp_`, a
`TcpClient` for each area and one for the database; per client connection a
`ProxyParser` with `client_state_` and `player_uid`.

*Operations*: a client connects, closes, sends LOGIN, SIGN_UP, INFO or another
request; an answer or message arrives from a chat server or the database; a chat
server's connection ends.

*Hard*: answers are routed by uid first and by stamp second; a client may close,
or log in elsewhere, while an answer is under way; entries that are inserted and
never overwritten; numbers of different kinds (stamps of proxy and clients, uids
and areas) that are compared; unchecked `lock()` and null clients.

*Correct if*: what concerns a user goes only to a client that gave the user's
password; each LOGIN and SIGN_UP is answered, to who asked; no pointer used
unchecked is null; chat servers are asked only for users they have.

### Framing (`BasicParser`, `ThreadEnvironment`, `Client.cc`)

Five loops cut a byte stream into frames of a 16-byte `Header` and a body.
*Correct if* every frame is handled once, in order and whole, however the stream
is cut, and nothing retrieves more than the buffer holds.

### Database server (`src/database`)

*State*: a `Parser` per connection with `header_`; in Redis `<name>:uid`, the
counter `UID`, `<uid>:player`.  *Operations*: SIGN_UP and INFO, each one script.
*Hard*: the answer is sent in a callback, when `header_` may be that of another
request, whose body may still have to come.  *Correct if* names and uids have one
owner, and requests are answered in order, to the connection that asked.

### Service discovery (`Lobby::start`, `redis_init_subscribe`)

*State*: the Redis set `server:info` and the channel `service_notify`;
`other_servers_` of each chat server, one client per area in each proxy thread.
*Hard*: the order of reading, adding, publishing and subscribing; servers that
are launched again; a connection callback that belongs to an earlier client.
*Correct if* processes that run find each other, and nobody itself.

### Redis client (`HiRedis.cc`)

*State*: `context_` (which nobody resets), `channel_`, the library's output
buffer and queue of callbacks, the `CommandCallback` objects.  *Operations*:
connect, command, disconnect; a poll that reports reading, writing or both; the
end of the connection, in which each callback is called without a reply.
*Hard*: the context frees itself and the channel goes on; a callback that issues
a command; the SUBSCRIBE, whose callback is kept.  *Correct if* nothing freed is
used and each accepted command's callback is called once, in order.

### Messages (`src/proto`)

*State*: five generated messages, on the wire, in a Redis list, copied.
*Hard*: a text with a zero byte or that is not UTF-8; negative numbers; a result
of `ParseFromString` that nobody reads; lists that a copy must replace.
*Correct if* what was set arrives, or `ParseFromString` says that it did not.

### Client (`src/client`)

*State*: `g_uid`, and what was shown last.  *Operations*: the user's commands,
answers and notifications, in two coroutines.  *Hard*: answers that cross a
LOGOUT or another LOGIN; names that are shown and typed again.  *Correct if* it
speaks for a user the servers have logged in, to the user who was meant.

### Load generators (`src/bench`, `src/database/bench`)

*State*: timers, counters, a connection per client.  *Hard*: a window of logins,
a refused login, notifications that others cause, frames that arrive in parts.  *Correct if* they come to a
result, and the result is what they say it is.

### The rest

Configuration and helpers (`src/base`), vendored libraries (`src/third-party`:
muduo, spdlog, ...).  Section 8 says what becomes of them.  Hazards, each at its
line, are listed in `PROJECT.json`.

## 2. Plan

Order of work, most important behaviour first.

1. **Lobby** - chat servers and the Redis keys they share.  *Done.*
   Proofs: types, private messages, slots, black lists.  *Done.*
2. **FrameStream / Framing** - what a receiver promises, and the five loops.
   *Done*, with a proof of the refinement for all five loops.
3. **Proxy** - one thread and everything it talks to.  *Done.*
4. **Database** - sign-ups and queries.  *Done.*
5. **Discovery** - how processes find each other.  *Done.*
6. **HiRedis / CommandQueue** - the Redis wrapper, and the promise it keeps.
   *Done.*
7. **Messages, Client, Bench** - the wire format, the client program, the load
   generators; **MCParts** checks them, HiRedis and Framing in one run.  *Done.*
8. **Database_proofs, Proxy_proofs, Discovery_proofs** - types and the
   invariants that hold for any bounds.  *Done*.
9. **HiRedis_proofs, Client_proofs**: `Guarded`, the safety part of `InOrder`,
   and both properties of the client.  *Done.*
10. **Mailbox**, an abstract specification of message delivery for one user
    (post, store, deliver, drop), with Lobby shown to implement it.
11. **Session** = Proxy + Lobby: the sessions Lobby assumes are those Proxy makes.
    Here the server's last LOGOUT and a user's change of area meet.
12. **Lobby + Discovery**: forwarding through a client without a connection
    (`Lobby.cc:90`, a hazard that no property covers).
13. More of Lobby proved: `OnlineIsLocal`, `NeverForwardedToSelf`,
    `BroadcastReaches`, `NoSilentLoss`, `QueueTracked` and, for one server,
    `AtMostOnce`.  *Done.*  `AtMostOnce` for two servers is left.
14. **Bench_proofs**: `Measured`.  *Done.*

## 3. Modules

| module | models | state and actions |
|---|---|---|
| `Lobby` | `Lobby`, `Player`, `ProxyConnection`, `chat.cc` | variables have the names of the code where there are any; one action per request handler, per Redis callback (`LoginAnswer`, `OfflineAnswer`, `BlackAnswer`, `OnlineAnswer`), for the timer (`Tick`), for forwarded messages (`Receive`), for the three stages of a connection and for Redis (`RedisExec`) |
| `FrameStream` | what a receiver promises | bytes arrive, frames are handled |
| `Framing` | the five loops | positions in the stream, not bytes; `retrieve` carries Buffer's assertion |
| `Proxy` | one proxy thread | one action per callback and request; the database is inline, chat servers are modelled by how they answer; uids, areas and stamps are numbers, as in the code |
| `Database` | `Parser`, `DatabaseServer.cc`, `database/bench` | `ParseHead` (of a body that comes later), `Parse`, `ParseBadHead` (a type that is refused, as the LOGIN of `database/bench`), `Misread` (a body whose head was overwritten), `Execute` (the scripts), `Reply` (callbacks) |
| `Discovery` | `Lobby::start`, `newServerInfo`, `redis_init_subscribe`, `TcpClient` | timers, callbacks, Redis, connections, the end of a server |
| `CommandQueue` | what a Redis client promises | commands are accepted, callbacks are called, the connection is lost |
| `HiRedis` | `Hiredis`, its channel, and hiredis as far as it calls them | `Issue`, `Disconnect`; `HandleRead` and `HandleWrite` of a poll; `FreeCallbacks`, `Freed`; Redis and the network |
| `Messages` | `message.pb.cc`, and how messages are sent and stored | write, parse, set, copy; bytes are numbers, and integers are scaled |
| `Client` | `Client.cc` | one action per command of the user and per frame; the servers by what they do for this client |
| `Bench` | `src/bench` | one action per timer and callback; the loop over a buffer is one action per frame, the last of which may be incomplete (`cut`) |
| `MC...` | instances for TLC | topologies, streams, who logs in where; `MCParts` has the small parts, of which the first state chooses one |
| `..._proofs` | | theorems about Lobby, Framing, Database, Proxy, Discovery, HiRedis, Client, Bench |

Conventions and abstractions, common to all:

* **One callback is one action.**  The loops of a process are single threads;
  only Redis, the network and other processes run between callbacks.
* **Redis** executes the commands of a connection in order, and answers in that
  order; commands of different connections interleave.  Its connection stays up:
  what happens when it does not is in `HiRedis`, and a null reply ends most
  processes.
* **A null or freed pointer that is dereferenced ends the process** (`Die`).
  Commands that Redis has not executed by then are lost; a command it would still
  have found in the socket was executed earlier in another behaviour.  A
  ProxyConnection used after its end (`Lobby`) is whatever now lives at its
  address, `addr`, or memory nobody uses.
* **Names, texts and passwords** are left out: a password is right or wrong.
  The strings of a black list are abstracted to the uid they begin with, which
  is all that `initBlackList` can read back.
* **Ghost variables**: `sent` of a Player counts what it was sent, `fetched`
  (Lobby) is what it was given from the offline list, `granted` says whose password
  a client gave, `misled` and `late` (Proxy) which clients were registered for a uid
  by mistake or when they were closing, `expected` (Messages) what was set, `crossed`
  (Client) that a LOGOUT and a LOGIN crossed, `foreign` and `due` (Bench) who
  caused a notification, `called` (HiRedis) which callbacks ran, `answers`
  (Database) and `sent` (Proxy) record what was written.  `asked`, `posted`,
  `talked`, `launches`, `pushes`, `hops` are bounds.
* An operator **`XMutant`** next to `X` is a wrong `X`, used to see that the
  properties notice the difference.
* In **Proxy** an answer of the database is sent and received in one step.  In
  between only `data` and the client's own state could differ, and the step is
  enabled in each of those states.
* In **Lobby** who may send what through which connection is `session`: a user
  sends requests after a login through that connection and before the end of
  that session, as the proxy does for clients that follow `Client.cc`.

## 4. Runs and bounds

| run | question | states |
|---|---|---|
| `lobby_private` | Where may a private message go, where may it be lost, is it sent twice or past a black list?  One server and connection, three logins of two users. | 842 k |
| `lobby_overlap` | What do overlapping and failed logins and answers to a connection that is gone do to slots and online keys? | 507 k |
| `lobby_two_servers` | Does a message between two servers come to rest, when its receiver logs in on one, out, and in on the other, and is it sent once but for one race? | 707 k |
| `lobby_server_cast` | Is a server broadcast forwarded once, not echoed, and sent to everybody who is there? | 1.4 M |
| `lobby_stranded` | (violated) Is what remains of a long queue looked at again? | - |
| `small_parts` | Which loops implement `FrameStream` for which cuts?  Does a Redis client keep the promise of `CommandQueue`?  What arrives of a message?  For whom and to whom does the client speak?  Do the load generators measure what they say? | 153 k |
| `framing_keep` | (violated) Does the proxy's parser bear any cut? | - |
| `proxy_patient` | With clients that wait for their answers: does each answer come, and to who asked, and are chat servers only asked for users they have? | 143 k |
| `proxy_hostile` | With clients that do everything the client program can do at any time, stamps that are given twice and numbers that collide: to whom does what is about a user go, and who is registered? | 6.0 M |
| `proxy_gone` | (violated) Is a client that closed early never registered? | - |
| `database_async` | Owners of names and uids, headers, order and answers with two connections, bodies that come late, and a third connection of `database/bench`. | 602 k |
| `discovery` | Who finds whom when two servers come, go and come again? | 261 k |

What the bounds are, and why they are enough:

* *Lobby*.  `Batch` stands for the 100 messages that one tick sends; 3 is more
  than the messages of a run, 1 reaches the other branch (`lobby_stranded`).
  `MaxLogin` logins: two are needed for an overlap, the third lets a user log in
  again with messages stored.  `Reach` says who logs in where: `SomeoneFails` has
  a failing login on a shared connection, `Roaming` a user who moves.  One
  message is enough for what can happen to a message; two for the queue.
  `Block` has one pair.  `Overlap = FALSE` (one login at a time per account) is an
  assumption that `AtMostOnce` needs: two logins read the stored messages twice.
  `lobby_two_servers` has three logins: the sender's one and two of the receiver,
  on either server, in either order.  To leave room for them there the sender logs in once and
  stays (`Stay`), and connections do not end (`Ends`), which the other runs have.
  A list that both servers read is sent twice (section 7): `AtMostOnce` allows
  two Players on two servers to be sent a message if both had it from the list, and
  nothing else.
  `lobby_server_cast` keeps users on their servers (`AtHome`), so that it does not show
  what a sender who moves does to a broadcast under way.
* *Framing*.  Bodies that are empty, shorter than, as long as and longer than a
  header, one after another, cut at every byte.  `Cuts` is every position for
  the loops that bear it and frame ends for the three that do not.
* *Proxy*.  Two clients and two users are enough for every wrong delivery.  The
  users are 1, the first that the database makes and also the number of an area, and
  10.  INT32_MAX is scaled down: `StampMax` is 2 in `proxy_hostile`, whose three logins
  use stamps again, and 4 elsewhere.  The client's fixed stamps (0, 2, 90, 102, 103,
  203) are scaled with it (`ClientStamp`) and stay among those that the proxy gives
  out; what the code needs is only that a LOGIN's differs from those of SIGN_UP and INFO.
  `getStamp` may start anywhere.  `Home` gives each user one area, in
  `proxy_hostile` one user two.  The other constants switch client behaviour on:
  wrong passwords (a pair of `Home` without a user), LOGOUT, several logins of a user,
  INFO and SIGN_UP at once, acting or closing before an answer (`Impatient`).
  `proxy_hostile` has all of it, and in it chat servers and the proxy end;
  `proxy_patient` has none, because with any one of them one of its
  properties fails (section 7), and its chat servers never end.
* *Database*.  Three requests for two names, on two connections of the proxy and
  one (`Tester`) of `database/bench`, which waits for each answer.
  Three are what it takes for a callback to find a header that is two requests ahead,
  or one whose body is late, and for two connections to sign up with one name.
* *HiRedis*.  Five commands, one of each kind the servers use: a callback that
  ignores its reply (SET, DEL), that reads it (GET, LRANGE), that issues another
  command (LRANGE, DEL), that is kept (SUBSCRIBE), and one whose loss ends the
  process.  Two messages on the channel: a first and a further one.
* *Messages*.  Texts that are plain, have a zero byte, or are not UTF-8; a length
  and numbers of one and of two bytes, negative ones; lists of at most two; three
  hops, enough for a frame, Redis and a frame.  Integers have 14 bits for 32 and
  words 28 for 64, so that a negative number is still written as a word.
* *Client*.  Two requests or frames under way, enough for an answer to cross a
  command.  Accounts 10 and 21 are shown as `player:1` and `player:12`, the
  writers 1 and 20 as `player:-8` and `player:11`: one digit, two different ones, a
  sign, two equal ones.
* *Bench*.  Two clients in a window of one, so that the second waits; two messages
  each; three foreign notifications, one more than a client waits for.  Any frame
  may come in two parts.
* *Discovery*.  Two servers of two areas, three launches: one server returns.
  Two servers of one area are outside of `Served`: the client for the second one
  is dropped when the connection of the first is closed (`ProxyForced`).

Runs do not check for deadlock: a process that has died or a bound that is
reached ends a behaviour.

The properties, by the question they answer:

* *Delivery*: `PrivateStaysPrivate`, `AtMostOnce`, `NoSilentLoss`, `Settles`,
  `BroadcastReaches`, `BlackListRespected`, `QueueTracked`.  `NoSilentLoss` names
  every way a private message is lost: a black list (`Blocked`), a connection that
  is closing (`Ended`), the rest of a queue behind a batch (`Behind`), a server
  that Redis names and nobody can send to (`Unreachable`), the end of a process,
  and the one race of DEL with a message stored after LRANGE (`ListDropped`).
  `QueueTracked` says that a Player with messages is on the list that the next
  tick goes through, of the server its connection leads to.
* *Where a user is*: `SlotSticky` (checked in `lobby_private`), `OnlineIsLocal`,
  `NeverForwardedToSelf`.
* *Routing*: `RightClient`, `Registered` and `LivePlayer` hold whatever clients do.
  `RightClient` names the ways to be sent what is another user's (`Misleads`: a
  failed LOGIN, the stamp of a client, a stamp given twice), `LivePlayer` those to stay
  registered without a connection.  `PlayerLocks` is the latter
  without exceptions, and violated.  `AnswersToAsker`, `ServersSurvive` and
  `Answered` are about patient clients.
* *Framing*: `HandlesFrames` (refinement of `FrameStream`, with its fairness),
  `Drained`, `RetrieveInBounds`.
* *Database*: `Owners`, `ReadsOwnWrites`, `LaterHeader`, `Answered`.
* *Discovery*: `NeverDialsSelf`, `Acquainted`, `Served`.
* *Redis client*: `Guarded` (nothing freed is used, but in one case that it
  names), `InOrder` (refinement of `CommandQueue`, with its fairness).
* *Messages*: `Intact`.  *Client*: `SpeaksForItself`, `Addressed`.  *Load
  generators*: `Measured`, `Finishes` (which names the ways to come to no result).

## 5. Fairness

Weak fairness only, of what an event loop or Redis does by itself: a callback
that is due runs, the 50 ms timer and the timers of a launch go off, Redis
executes what it has been sent, a connection that is being closed is destroyed,
`Connector` tries until it connects, a load generator's timers and callbacks
run and the servers answer and deliver what it asked for.  Nothing that a user, a client or the
network decides is fair: logins, messages, closing, arrival of bytes, launching
and the end of a process.  The exception is the rest of a frame of which a part has
come (`Database`, `Bench`): TCP delivers it.  `HandlesFrames` only needs the loop of a callback to
run to its end; `InOrder` needs that the loop handles what a poll returns and that
Redis executes what it has.  `Client` states no fairness, and its properties need none.

## 6. Proofs

Proved by TLAPS for all values of the constants that satisfy the assumptions of
the modules:

* `TypeCorrect`: `Spec => []TypeOK` for Lobby.
* `PrivateMessages`: `Spec => []PrivateStaysPrivate`.  A message may wait in a
  queue, a Redis list, an answer or on the wire; the property speaks of none of
  them, so it is strengthened to `IInv`: types, and that slots, queues, stored
  lists and answers hold only their user's messages and the broadcast list no
  private one (`SlotsAddressed`, `QueuesAddressed`, `MailboxesAddressed`,
  `AnswersAddressed`, `BroadcastsListed`), with what ties connections and bounds
  together.  `Inductive` proves `Spec => []IInv` from `InvInit` and `InvNext`, one
  lemma per action.
* `Slots`: `Spec => SlotSticky`, an action property, from `IInv`.
* `BlackLists`: `Spec => BlackListRespected`, from `IInv` and what `Flushed` sends.
* `Broadcasts`: `Spec => BroadcastReaches`, from `IInv`: only `Tick` shortens a
  broadcast list, and then `Flushed` sends all of it to every player of a slot.
* `OnlineAgrees` (`OnlineIsLocal`), for one server, as two write the same keys, and
  `NotToSelf` (`NeverForwardedToSelf`), for any number of them.  `HomeInv` adds to
  `OnlineIsLocal`, that the last word in the pipe about `<uid>:online` agrees with the
  slot, what a GET that is under way will find (`Asks`): behind the commands before
  it, the key does not name the server that asks.  A GET is sent for users without
  a slot, whose last word on that server is DEL; a login that comes later sends its
  SET behind it; and no other server writes this server's name.
* `NothingLost` (`NoSilentLoss`), with nothing assumed of the constants.  A message
  waits in one of six places (`Waiting`): a GET or RPUSH of a pipe, the answer to a GET
  or to an LRANGE, a queue, the wire to another server, the offline list.  There is
  one lemma per action, which says of each place that the message is still there,
  has moved to another place, was sent, or was lost in one of the ways the property
  names.  Needed besides `IInv` are `Halted`, that a server that has ended has no
  commands and no answers under way, and `HomeInv`, without which a GET could find
  the server that asks, which drops the message (`Lobby.cc:93`).
* `Tracked` (`QueueTracked`).  For any number of servers, as long
  as no queue is longer than a batch (`Short`), a Player with messages is in
  `active_players_`; without that `lobby_stranded` is a counterexample.  `TrackInv` follows the
  server: its login commands, their answers and its slots are about connections that
  lead to it (`PipesMine`, `AnswersMine`, `SlotsMine`), so that what is queued is
  noted where the timer looks.
* `DeliveredOnce` (`AtMostOnce`), for one server, `Overlap = FALSE`, and broadcasts
  that are addressed to nobody, which is what `Client.cc` sends: one that names a
  user would also be queued as a private message, and be sent twice.  The exception
  of `AtMostOnce` is empty there: no two Players are on two servers.  The hard part is
  the offline list, which is read by one command and deleted by another, that is
  issued when the answer to the first has come: in between the messages are both
  on the list and with the Player.  `OnceInv` looks at the answers and commands of the
  server as one line.  `InOrder` says what the line holds for an account: at most one
  login and one LRANGE, the LRANGE before the login, and a DEL before the LRANGE.
  `Owned` says that a private message is in one place (a GET or RPUSH of the line, the
  list, an answer to an LRANGE, the queue of one Player, or sent by that Player),
  or on the list and read, and then its DEL is still to come (`Deleting`).
  `Announced` says that a broadcast is on the list or sent, to each Player once.  What is
  on the line is counted by `Has`, `One` and `Before`, whose lemmas say what
  appending, taking and joining do to them.
* Framing: `FramesSafe`, that is `RetrieveInBounds` and `Drained`, any stream and
  any cuts, for all five loops, under `WholeFrames`: the three loops that do not bear a
  cut inside a frame are cut between frames.  `RetrieveInBounds` is the assertion of
  Buffer.  The invariant says that the buffer begins at a
  frame, or just behind its header while the parser waits for the body.
* `ImplementsStream`: under the same assumption every behaviour of `Framing`'s
  `Spec` is one of `FrameStream`'s.
* Database: `TypeCorrect`, `HeadersLater` (`LaterHeader`), `NamesOwned` (`Owners`),
  `WritesRead` (`ReadsOwnWrites`).  That two connections never get one uid or name
  follows from the script's atomicity, but only together with what is under way:
  `OrderInv` says that the stamps of a connection grow from its buffer over the
  commands to the replies (`Queued`, `Sent`, `Behind`, `Past`) and belong to it
  (`Whose`); `TruthInv` ties replies and answers to the keys (`Fresh`, `Owned`,
  `Unique`, `Signed`, `Later`).  `HeadInv` ties `header_` to both: it is never
  behind the commands and replies of its Parser, and never another connection's.
  `Budget`, that there are at least as many
  uids left as requests that may still take one, makes the types inductive.
* Proxy: `TypeCorrect`, `NobodyElse` (`RightClient`), `Registrations` (`Registered`) and
  `PlayersLive` (`LivePlayer`), with nothing assumed of clients, stamps or the number
  of requests.  The first needs `Truthful`: what a chat server answers has a user or
  an area in its header.  The second needs more, for an
  answer is routed by tables that other requests have filled.  As long as no stamp
  can have been given twice (`Fresh`), `Asked` and
  `Replied` say that the entry in `login_requests` under the stamp of a LOGIN or its
  answer is that of the client that asked, and `Signed` the same of sign-ups; after
  that `RightClient` itself is weaker.  `Given` are the stamps given last, as many as
  there were requests (`StampsGiven`), so that the next one is new.  `Routed` says that who is
  registered for a uid gave the password or is named in `misled`.  For the last two
  theorems `Here` says that a registration and the parser's state are made and taken
  back together, unless the client was closing or was registered again.
* Discovery: `TypeCorrect`, `NobodyDialsSelf` (`NeverDialsSelf`), which with the
  types is inductive as it stands.
* HiRedis: `PointersGuarded` (`Guarded`) and `ImplementsQueue`, that every behaviour
  of `HiRedis`'s `Spec` is one of `CommandQueue`'s.  Its invariant says that replies,
  sent commands and the output buffer together are `callbacks`, or a beginning of it
  once the connection is lost.  `CommandAssumption`: each command is issued by one
  place, a handler or the callback of one command, and one of them is SUBSCRIBE.
* Client: `InOwnName` (`SpeaksForItself`) and `RightAddress` (`Addressed`).  Between
  two commands `g_uid` may name a user who is gone only after a
  crossing (`Current`); the second one needs what `Reversed` does to numbers with a
  sign and to those of one or two digits, to which `ClientAssumption` limits them.

* Bench: `MeasuresTruly` (`Measured`).  Its invariant counts: as many clients are
  in one of the places of a login (being opened, asked, answered) as
  `request_count` says, so that when `success_login` is `client_count` nothing is
  under way (`LoginInv`); of "broadcast" each client's messages are counted, in its
  buffer or due, with those of others (`BroadcastInv`); of "online" the sum over
  the clients is what was sent (`OnlineInv`).

`MCParts` states the assumptions of the last three modules for its instances, so that
TLC evaluates them too.

Functions over sequences (`Accepted`, `Times`, `Flushed`) are recursive functions,
and so are the sums of `Bench`; what they compute is proved by taking the least index
(`Least`) or the smallest set (`NoneBad`) for which it fails, as the induction theorems
of the library need an operator as a parameter.

Only model-checked: liveness (`Settles`, both `Answered`, `Acquainted`, `Served`,
`Finishes`, the fairness of `HandlesFrames` and `InOrder`), as the prover has no
ENABLED; of Lobby `AtMostOnce` for two servers; of Proxy `AnswersToAsker` and
`ServersSurvive`, which only hold for patient clients; and `Intact`, which is about functions that read and write texts byte by byte.

## 7. Findings

Three runs show that the code does not do what one of its lines says:

* `lobby_stranded`: a player with 100 messages or more is sent 100, and the rest
  stays in the queue until another message comes (`Lobby.cc:158`, `Player.cc:32`).
* `framing_keep`: `ableToReadData` does not count the header that the proxy's
  parser leaves in the buffer, so that a request is handled up to 16 bytes too
  early (`BasicParser.cc:47`, `Buffer.h:115`).  Assertions are on: `CMakeLists.txt`
  sets the flags of a release itself, without `NDEBUG`.
* `proxy_gone`: a client that closes before its LOGIN is answered is registered
  for ever, and the next message for its uid goes through a null pointer
  (`ThreadEnvironment.cc:65`, `71`).

What the modules also show, and where the properties are limited for it:

* A failed LOGIN is answered with the area as uid, and the proxy registers the
  client for that uid (`ThreadEnvironment.cc:71`).  Users are counted from 1
  (`Parser.cc:26`), so that users 1 and 2 have those uids: the client is sent what is
  for them, and they cannot log in (the first case of `Misleads`).
* The client's fixed stamps are also the proxy's.  The answer to a request whose client
  has gone is looked for among the logins by its stamp, and the client of a LOGIN
  with that stamp is registered for the other's user (`ThreadEnvironment.cc:67`; the
  second case).
* A client whose LOGIN failed cannot log in again, as the proxy has registered it,
  and its end sends a LOGOUT for a user the chat server does not have, which ends
  the chat server (`Lobby.cc:34`).  So does a LOGOUT before the client closes, and so does a user
  who logs in to another area (`user_info` keeps the first).
* A request before LOGIN ends the proxy (`ProxyParser.cc:101`), and so does a
  LOGIN for an area whose server is lost.
* A user who logs in twice on a chat server keeps the first connection.
* A user who logs out after the stored messages were read, and logs in on another
  server before the first one's DEL has got to Redis, is sent them again
  (`Lobby.cc:120-122`): the exception in `AtMostOnce`.
* When a proxy's connection to a chat server ends, only the user who logged in
  last through it is logged out (`ProxyConnection.h:37`).
* The answer to an INFO that finds its name has the header of the last request that
  was parsed (`Parser.cc:98`), not the copy made for it: `LaterHeader`.
* When the answer to an INFO is made while the Parser has a head whose body is not
  there yet, that head is overwritten with type 0 and the length of the answer
  (`Parser.cc:98-99`): the request is refused, twice, or waits for bytes that nobody
  sends, and what is behind it is lost (`Misread`).
* When one poll reports the end of the Redis connection and that the socket can be
  written, `handleWrite` uses the freed context (`HiRedis.cc:92`).  After the end
  every callback gets a null reply, which most of them dereference.
* A stored message ends at its first zero byte, and a text that is not UTF-8 makes
  `ParseFromString` stop: the fields behind it are lost without a word
  (`Lobby.cc:107`, `118`).
* The number of a typed name is read backwards, so that a message for `player:12`
  goes to `player:21` (`Client.cc:125`), and one for `player:-8`, as the first user
  is shown, to `player:8`.
* A LOGOUT that crosses the answer to a LOGIN leaves the client speaking for a
  user who may be logged out (`Client.cc:339`).
* The load generators count every CHAT and every notification, whoever caused it; a refused
  LOGIN stays in the buffer, and `Broadcast.cc:184` and `Online.cc` loop over it for
  ever; `Online.cc:113` and `Signup.cc:42` do not ask whether a frame is whole, and one that
  is not fails Buffer's assertion or is misread; `Login.cc` waits for notifications that only others can cause.
* A chat server that is launched again is not connected to by the others, who
  keep a client without a connection (`Lobby.cc:193`); two that start together may
  not find each other; a proxy thread does not find servers that were there
  before it.

## 8. Not modelled

* *Chat server*: restored black lists are followed to the first name that is a number;
  a chat server that has ended is not launched again in Lobby (it is in
  Discovery); Redis stays connected.
* *Proxy*: heads and bodies that reach the database one after the other (in
  `Database`); a chat server that returns while clients are there; whether a
  connection to a server is complete; six threads, which share nothing; LOGIN with
  area 0, which the client does not send.
* *Framing*: a `header_` that changes between a head and its body, which only the
  database's INFO callback does: in `Database`.
* *Load generators*: what a generator reads after it has misread a frame.
* *Database*: `parseLogin`, which nothing calls; the two answers to a type that
  no program of the repository sends.  The server is single-threaded, and a Parser
  outlives its connection because `disConnect` works on a copy
  (`DatabaseServer.cc:50`).
* *Client*: what is only shown (`g_area`, `user_info`, texts), the syntax of the
  command line.
* *Messages*: descriptors, reflection and arenas of the generated code;
  `message.md` has no operations.
* *Configuration, helpers*: nothing constructs a `Config` and no program includes
  `Config.h`; the helpers are a clock and formatting.
* *Vendored libraries*: third-party; of muduo `Buffer`'s positions,
  the stages of a `TcpConnection`'s end and the life of a `TcpClient`, of hiredis
  the hooks and callbacks it calls, and of protobuf the wire format appear as far as
  the code depends on them.

## 9. Running

    tlc -workers 2 -config MCLobbyPrivate.cfg MCLobby
    tlapm Lobby_proofs.tla

`PROJECT.json` lists the runs with their properties, for each property a mutant
of the code that violates it, the lines each definition models, hazards,
findings and theorems.
