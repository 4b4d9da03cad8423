---------------------------- MODULE CommandQueue ----------------------------
(***************************************************************************)
(* What a Redis client promises to who issues commands: the callback of    *)
(* each command it has accepted is called once, in the order in which they *)
(* were accepted, with the reply, or, from the end of the connection on,   *)
(* without one, unless the process ends first.                             *)
(***************************************************************************)
EXTENDS Sequences

CONSTANT Command

VARIABLES
    queue,      \* accepted commands whose callback has not been called
    called,     \* the callbacks called, <<command, got a reply>>
    down,       \* the connection has ended
    ended       \* the process has ended

vars == <<queue, called, down, ended>>

Init == queue = <<>> /\ called = <<>> /\ down = FALSE /\ ended = FALSE

Accept(c) ==
    /\ ~ ended /\ ~ down
    /\ queue' = Append(queue, c)
    /\ UNCHANGED <<called, down, ended>>

\* The callback may issue another command, or end the process.
Call ==
    /\ ~ ended /\ queue # <<>>
    /\ called' = Append(called, <<Head(queue), ~ down>>)
    /\ \/ queue' = Tail(queue)
       \/ ~ down /\ \E c \in Command : queue' = Append(Tail(queue), c)
    /\ ended' \in BOOLEAN
    /\ UNCHANGED down

Lose == ~ ended /\ down' = TRUE /\ UNCHANGED <<queue, called, ended>>

End == ended' = TRUE /\ UNCHANGED <<queue, called, down>>

Next == (\E c \in Command : Accept(c)) \/ Call \/ Lose \/ End

Spec == Init /\ [][Next]_vars

FairSpec == Spec /\ WF_vars(Call)

=============================================================================
