------------------------------ MODULE MCSession ------------------------------
(* TLC instances of Session. *)
EXTENDS Session, TLC

Perms == Permutations(Topics)

Opt(size, policy, auth, ping, breaks) ==
    [size |-> size, policy |-> policy, auth |-> auth, ping |-> ping, faults |-> breaks]

\* A queue that can be full.
SmallQueues == {Opt(2, "Block", TRUE, FALSE, 1), Opt(2, "DropNewest", TRUE, FALSE, 1)}

\* A queue that holds every control message two topics can cause, and policies
\* that never wait with a queue of one frame and pings at any time.
LiveQueues == {Opt(6, "Block", FALSE, FALSE, 1)}
              \cup {Opt(1, p, TRUE, TRUE, 0) : p \in {"DropNewest", "DropOldest"}}

\* The default policy with a queue that resubscribing fills.
BlockingQueue == {Opt(2, "Block", FALSE, TRUE, 0)}

RoomyQueue == {Opt(6, "Block", FALSE, FALSE, 0)}
=============================================================================
