----------------------------- MODULE FanOutQueue -----------------------------
(***************************************************************************)
(* The queue of one consumer, as the fan-out uses it: whatever the router, *)
(* the read loops and the other consumers do, what is left of FanOut for   *)
(* that consumer is the BoundedQueue that FrameQueue implements.           *)
(*                                                                         *)
(* The read loops are its producers.  The frame a read loop has to give to *)
(* the consumer is the shared one, from Route until the consumer's turn    *)
(* has come, or the copy made for it.  Free are the frames that are on     *)
(* none of the consumer's hands: the pool's, and those of others.          *)
(***************************************************************************)
EXTENDS FanOut

CONSTANT Chosen  \* the consumer

ASSUME ChosenAssumption == Chosen \in Consumers

Offered(c, r) == IF rpc[r] = "share" /\ c \in ToSet(todo[r]) THEN rframe[r]
                 ELSE IF rcopy[r] # None /\ c = Head(todo[r]) THEN rcopy[r]
                 ELSE None

Hands(c) == [t \in Readers \cup {c} |-> IF t = c THEN cframe[c] ELSE Offered(c, t)]

FreeFor(c) == Frames \ (ToSet(queue[c]) \cup {cframe[c]} \cup {Offered(c, r) : r \in Readers})

ConsumerQueue == INSTANCE BoundedQueue WITH Producers <- Readers,
                                            Consumers <- {Chosen},
                                            policy <- policy[Chosen],
                                            items <- queue[Chosen],
                                            closed <- closed[Chosen],
                                            free <- FreeFor(Chosen),
                                            hand <- Hands(Chosen)

\* What reaches a consumer went through a bounded FIFO: Route offers it only frames that it
\* neither owns nor is owed, each is put at the end, or refused because the queue is
\* closed or full, or takes the place of the oldest, and the consumer gets them in this
\* order (router.go:54-104, consumer.go:75-147).
ImplementsConsumerQueue == ConsumerQueue!Spec
=============================================================================
