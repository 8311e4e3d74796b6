---------------------------- MODULE BoundedQueue ----------------------------
(***************************************************************************)
(* What a consumer queue promises, without ring indices, mutex or          *)
(* condition variables: a FIFO of at most Cap frames in which every frame  *)
(* is in exactly one place.  FrameQueue is shown to implement it.          *)
(***************************************************************************)
EXTENDS Naturals, Sequences, SequencesExt

CONSTANTS Producers,  \* threads that push (readers of the connections)
          Consumers,  \* threads that pop
          Frames,     \* frames in circulation
          None,       \* "no frame in hand"
          Cap         \* capacity of the queue

VARIABLES policy,     \* overflow policy, fixed at construction
          items,      \* queued frames, oldest first
          closed,
          free,       \* frames back in the pool
          hand        \* the frame a thread is pushing or processing

vars == <<policy, items, closed, free, hand>>

Init == /\ policy \in {"Block", "DropOldest", "DropNewest"}
        /\ items = <<>>
        /\ closed = FALSE
        /\ free = Frames
        /\ hand = [t \in Producers \cup Consumers |-> None]

Full == Len(items) = Cap

\* A producer obtains a frame it is going to push.
Offer(p) == /\ hand[p] = None
            /\ \E f \in free : /\ hand' = [hand EXCEPT ![p] = f]
                               /\ free' = free \ {f}
            /\ UNCHANGED <<policy, items, closed>>

\* The frame becomes the newest one.
Put(p) == /\ hand[p] # None
          /\ ~closed
          /\ ~Full
          /\ items' = Append(items, hand[p])
          /\ hand' = [hand EXCEPT ![p] = None]
          /\ UNCHANGED <<policy, closed, free>>

\* The frame takes the place of the oldest one, which is released.
Replace(p) == /\ hand[p] # None
              /\ ~closed
              /\ Full
              /\ policy = "DropOldest"
              /\ items' = Append(Tail(items), hand[p])
              /\ free' = free \cup {Head(items)}
              /\ hand' = [hand EXCEPT ![p] = None]
              /\ UNCHANGED <<policy, closed>>

\* The frame is refused: only a closed queue or a full one may do so.
Refuse(p) == /\ hand[p] # None
             /\ closed \/ (Full /\ policy = "DropNewest")
             /\ free' = free \cup {hand[p]}
             /\ hand' = [hand EXCEPT ![p] = None]
             /\ UNCHANGED <<policy, items, closed>>

\* A consumer takes the oldest frame.
Get(c) == /\ hand[c] = None
          /\ items # <<>>
          /\ hand' = [hand EXCEPT ![c] = Head(items)]
          /\ items' = Tail(items)
          /\ UNCHANGED <<policy, closed, free>>

\* The consumer has finished with its frame.
Done(c) == /\ hand[c] # None
           /\ free' = free \cup {hand[c]}
           /\ hand' = [hand EXCEPT ![c] = None]
           /\ UNCHANGED <<policy, items, closed>>

\* Closing releases everything that is still queued.
Close == /\ ~closed
         /\ closed' = TRUE
         /\ free' = free \cup ToSet(items)
         /\ items' = <<>>
         /\ UNCHANGED <<policy, hand>>

Next == \/ \E p \in Producers : Offer(p) \/ Put(p) \/ Replace(p) \/ Refuse(p)
        \/ \E c \in Consumers : Get(c) \/ Done(c)
        \/ Close

Spec == Init /\ [][Next]_vars
=============================================================================
