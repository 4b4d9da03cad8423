---------------------------- MODULE FrameStream ----------------------------
(***************************************************************************)
(* What the receiving end of a connection promises: every frame of the     *)
(* stream is handled once, in order and whole, as soon as all of it has    *)
(* arrived, however the bytes were cut on the way.                         *)
(***************************************************************************)
EXTENDS Integers

CONSTANTS
    N,          \* frames in the stream
    Start       \* Start[i]: the position of frame i; Start[N + 1]: the end

VARIABLES
    arrived,    \* bytes that have arrived
    handled     \* frames that have been handled

vars == <<arrived, handled>>

Init == arrived = 0 /\ handled = 0

Arrive ==
    /\ \E n \in 1..(Start[N + 1] - arrived) : arrived' = arrived + n
    /\ UNCHANGED handled

Handle ==
    /\ handled < N /\ Start[handled + 2] <= arrived
    /\ handled' = handled + 1
    /\ UNCHANGED arrived

Next == Arrive \/ Handle

Spec == Init /\ [][Next]_vars

FairSpec == Spec /\ WF_vars(Handle)

=============================================================================
