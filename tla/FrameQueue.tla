----------------------------- MODULE FrameQueue -----------------------------
(***************************************************************************)
(* The ring buffer behind a Consumer (libs/shared/websocket/consumer.go):  *)
(* frameQueue with its mutex and its two condition variables.  A critical  *)
(* section of the mutex is one step.  A thread in Wait has released the    *)
(* mutex and sits in the wait set of notEmpty (consumers) or notFull       *)
(* (producers); Signal moves one waiter, Broadcast all of them, to the     *)
(* mutex, where they run the loop body again.                              *)
(*                                                                         *)
(* Here a frame has one owner, so releasing it gives it back to the pool;  *)
(* frames shared by several queues are the subject of FanOut.              *)
(***************************************************************************)
EXTENDS Integers, FiniteSets, Sequences

CONSTANTS Producers,  \* threads that call Push: the read loops of the sessions
          Consumers,  \* threads that call Next
          Frames,     \* the frames in circulation
          None,       \* nil
          Cap         \* len(q.buf)

ASSUME CapAssumption == Cap \in Nat \ {0}
ASSUME ThreadsAssumption == /\ Producers \cap Consumers = {}
                            /\ IsFiniteSet(Producers)
                            /\ IsFiniteSet(Consumers)
ASSUME NoneAssumption == None \notin Frames

VARIABLES buf, head, tail, size, closed, policy,  \* fields of frameQueue
          pc,    \* where each thread is
          hand,  \* the frame a thread is pushing, or was given by Pop
          free   \* frames that have been released

queueVars == <<buf, head, tail, size, closed, policy>>
vars == <<buf, head, tail, size, closed, policy, pc, hand, free>>

Threads == Producers \cup Consumers
Slots == 0 .. (Cap - 1)
Policies == {"Block", "DropOldest", "DropNewest"}

(* idle: outside the queue; lock: about to run the loop body with the      *)
(* mutex held; wait: in Wait; work: processing a popped frame; gone: Pop   *)
(* returned false.                                                         *)
ProducerStates == {"idle", "lock", "wait"}
ConsumerStates == {"lock", "wait", "work", "gone"}

TypeOK == /\ buf \in [Slots -> Frames \cup {None}]
          /\ head \in Slots
          /\ tail \in Slots
          /\ size \in 0 .. Cap
          /\ closed \in BOOLEAN
          /\ policy \in Policies
          /\ pc \in [Threads -> ProducerStates \cup ConsumerStates]
          /\ \A p \in Producers : pc[p] \in ProducerStates
          /\ \A c \in Consumers : pc[c] \in ConsumerStates
          /\ hand \in [Threads -> Frames \cup {None}]
          /\ free \subseteq Frames

\* newFrameQueue, and every consumer calling Next.
Init == /\ buf = [i \in Slots |-> None]
        /\ head = 0
        /\ tail = 0
        /\ size = 0
        /\ closed = FALSE
        /\ policy \in Policies
        /\ pc = [t \in Threads |-> IF t \in Producers THEN "idle" ELSE "lock"]
        /\ hand = [t \in Threads |-> None]
        /\ free = Frames

-----------------------------------------------------------------------------
(* The condition variables.                                                *)

Waiting(T) == {t \in T : pc[t] = "wait"}
AtLock(T) == {t \in T : pc[t] = "lock"}

\* Mutants: Signal only when the queue leaves its empty or full state; no Signal.
SignalOnEdge(T, g) ==
    IF size \in {0, Cap} /\ Waiting(T) # {}
    THEN {[g EXCEPT ![w] = "lock"] : w \in Waiting(T)} ELSE {g}
SignalNobody(T, g) == {g}

\* Cond.Signal after the caller's own move to g: one waiter of T, if any, wakes.
Signal(T, g) ==
    IF Waiting(T) = {} THEN {g}
    ELSE {[g EXCEPT ![w] = "lock"] : w \in Waiting(T)}

\* Mutant: Close wakes notEmpty only.
BroadcastConsumers ==
    [t \in Threads |-> IF t \in Consumers /\ pc[t] = "wait" THEN "lock" ELSE pc[t]]

\* Cond.Broadcast on both conditions.
Broadcast == [t \in Threads |-> IF pc[t] = "wait" THEN "lock" ELSE pc[t]]

\* Mutants of the ring's index arithmetic.
SuccNoWrap(i) == i + 1
SuccSaturates(i) == IF i = Cap - 1 THEN i ELSE i + 1

Succ(i) == (i + 1) % Cap
HasRoom == size < Cap

\* The occupied slots, which Close walks: size of them, starting at head.
Window == {(head + i) % Cap : i \in 0 .. (size - 1)}

-----------------------------------------------------------------------------
(* Push: a read loop has a frame and calls enqueue.                        *)

Offer(p) == /\ pc[p] = "idle"
            /\ \E f \in free : /\ hand' = [hand EXCEPT ![p] = f]
                               /\ free' = free \ {f}
            /\ pc' = [pc EXCEPT ![p] = "lock"]
            /\ UNCHANGED queueVars

\* Mutant: a woken producer does not look at closed again.
PushInsertUnchecked(p) ==
    /\ pc[p] = "lock"
    /\ HasRoom
    /\ buf' = [buf EXCEPT ![tail] = hand[p]]
    /\ tail' = Succ(tail)
    /\ size' = size + 1
    /\ hand' = [hand EXCEPT ![p] = None]
    /\ pc' \in Signal(Consumers, [pc EXCEPT ![p] = "idle"])
    /\ UNCHANGED <<head, closed, policy, free>>

PushInsert(p) ==
    /\ pc[p] = "lock"
    /\ ~closed
    /\ HasRoom
    /\ buf' = [buf EXCEPT ![tail] = hand[p]]
    /\ tail' = Succ(tail)
    /\ size' = size + 1
    /\ hand' = [hand EXCEPT ![p] = None]
    /\ pc' \in Signal(Consumers, [pc EXCEPT ![p] = "idle"])
    /\ UNCHANGED <<head, closed, policy, free>>

\* OverflowBlock: notFull.Wait.
PushWait(p) ==
    /\ pc[p] = "lock"
    /\ ~closed
    /\ ~HasRoom
    /\ policy = "Block"
    /\ pc' = [pc EXCEPT ![p] = "wait"]
    /\ UNCHANGED <<queueVars, hand, free>>

\* Mutant: the dropped frame is not released.
PushDropOldestLeaks(p) ==
    /\ pc[p] = "lock"
    /\ ~closed
    /\ ~HasRoom
    /\ policy = "DropOldest"
    /\ buf' = [buf EXCEPT ![head] = None, ![tail] = hand[p]]
    /\ head' = Succ(head)
    /\ tail' = Succ(tail)
    /\ hand' = [hand EXCEPT ![p] = None]
    /\ pc' \in Signal(Consumers, [pc EXCEPT ![p] = "idle"])
    /\ UNCHANGED <<size, closed, policy, free>>

\* OverflowDropOldest: the head is released and the loop, still under the
\* mutex, finds the room it made.
PushDropOldest(p) ==
    /\ pc[p] = "lock"
    /\ ~closed
    /\ ~HasRoom
    /\ policy = "DropOldest"
    /\ buf' = [buf EXCEPT ![head] = None, ![tail] = hand[p]]
    /\ head' = Succ(head)
    /\ tail' = Succ(tail)
    /\ free' = free \cup {buf[head]}
    /\ hand' = [hand EXCEPT ![p] = None]
    /\ pc' \in Signal(Consumers, [pc EXCEPT ![p] = "idle"])
    /\ UNCHANGED <<size, closed, policy>>

\* Push returns false and its caller releases the frame.
PushRefuse(p) ==
    /\ pc[p] = "lock"
    /\ closed \/ (~HasRoom /\ policy = "DropNewest")
    /\ free' = free \cup {hand[p]}
    /\ hand' = [hand EXCEPT ![p] = None]
    /\ pc' = [pc EXCEPT ![p] = "idle"]
    /\ UNCHANGED queueVars

Push(p) == PushInsert(p) \/ PushWait(p) \/ PushDropOldest(p) \/ PushRefuse(p)

-----------------------------------------------------------------------------
(* Pop: a consumer calls Next.                                             *)

PopFrame(c) ==
    /\ pc[c] = "lock"
    /\ size > 0
    /\ hand' = [hand EXCEPT ![c] = buf[head]]
    /\ buf' = [buf EXCEPT ![head] = None]
    /\ head' = Succ(head)
    /\ size' = size - 1
    /\ pc' \in Signal(Producers, [pc EXCEPT ![c] = "work"])
    /\ UNCHANGED <<tail, closed, policy, free>>

PopClosed(c) ==
    /\ pc[c] = "lock"
    /\ size = 0
    /\ closed
    /\ pc' = [pc EXCEPT ![c] = "gone"]
    /\ UNCHANGED <<queueVars, hand, free>>

\* notEmpty.Wait.
PopWait(c) ==
    /\ pc[c] = "lock"
    /\ size = 0
    /\ ~closed
    /\ pc' = [pc EXCEPT ![c] = "wait"]
    /\ UNCHANGED <<queueVars, hand, free>>

Pop(c) == PopFrame(c) \/ PopClosed(c) \/ PopWait(c)

\* The consumer releases its frame and calls Next again.
Finish(c) == /\ pc[c] = "work"
             /\ free' = free \cup {hand[c]}
             /\ hand' = [hand EXCEPT ![c] = None]
             /\ pc' = [pc EXCEPT ![c] = "lock"]
             /\ UNCHANGED queueVars

-----------------------------------------------------------------------------
\* Close releases what is queued, empties the ring and wakes everybody.
Close == /\ ~closed
         /\ closed' = TRUE
         /\ free' = free \cup {buf[i] : i \in Window}
         /\ buf' = [i \in Slots |-> IF i \in Window THEN None ELSE buf[i]]
         /\ size' = 0
         /\ head' = 0
         /\ tail' = 0
         /\ pc' = Broadcast
         /\ UNCHANGED <<policy, hand>>

Next == \/ \E p \in Producers : Offer(p) \/ Push(p)
        \/ \E c \in Consumers : Pop(c) \/ Finish(c)
        \/ Close

(* A thread at the mutex gets it (sync.Mutex hands over after 1 ms of      *)
(* starvation) and a consumer finishes the frame it took.  Nothing obliges *)
(* a producer to push again or the owner to close.                         *)
Fairness == /\ \A p \in Producers : WF_vars(Push(p))
            /\ \A c \in Consumers : WF_vars(Pop(c)) /\ WF_vars(Finish(c))

Spec == Init /\ [][Next]_vars
FairSpec == Spec /\ Fairness

-----------------------------------------------------------------------------
(* Safety.                                                                 *)

\* The ring's indices and its slots agree: tail is size slots after head and
\* a slot holds a frame exactly when it lies in the window [head, head+size).
\* This is what lets Push overwrite buf[tail] and Pop return buf[head]
\* without looking (consumer.go:84, 94, 113).
RingInv == /\ tail = (head + size) % Cap
           /\ \A i \in Slots : buf[i] # None <=> i \in Window

\* Every frame is in exactly one place: the pool, one slot of the ring, or the
\* hand of one thread (no frame leaks or is released twice on overflow, close
\* or refusal).
FramesConserved ==
    \A f \in Frames :
        Cardinality({i \in Slots : buf[i] = f}) + Cardinality({t \in Threads : hand[t] = f})
            + (IF f \in free THEN 1 ELSE 0) = 1

\* No wakeup is lost although Signal wakes one thread only and a thread that
\* never waited may take the frame or the room first: while a consumer waits,
\* each queued frame has a consumer at the mutex to take it; while a producer
\* waits, each free slot has a producer at the mutex to use it; and nobody
\* waits on a closed queue.
NoLostWakeup ==
    /\ Waiting(Consumers) # {} => size <= Cardinality(AtLock(Consumers))
    /\ Waiting(Producers) # {} => Cap - size <= Cardinality(AtLock(Producers))
    /\ closed => Waiting(Threads) = {}

-----------------------------------------------------------------------------
(* The queue implements the abstract bounded FIFO.                         *)

Items == [i \in 1 .. size |-> buf[(head + i - 1) % Cap]]

BQ == INSTANCE BoundedQueue WITH items <- Items

\* Every step of the ring is a step of the FIFO or leaves it unchanged: frames
\* come out in the order they went in, a frame is refused only by a closed or a
\* full DropNewest queue, and only the oldest frame is ever dropped.
ImplementsBoundedQueue == BQ!Spec

-----------------------------------------------------------------------------
(* Liveness, under FairSpec.                                               *)

\* A queued frame does not stay: it is delivered, dropped or released by Close.
QueuedFrameLeaves ==
    \A f \in Frames : (\E i \in Slots : buf[i] = f) ~> ~(\E i \in Slots : buf[i] = f)

\* Close lets every thread go: all consumers leave Next with false and no
\* producer stays inside Push.
CloseReleasesThreads ==
    /\ \A c \in Consumers : closed ~> pc[c] = "gone"
    /\ \A p \in Producers : (closed /\ pc[p] # "idle") ~> pc[p] = "idle"
=============================================================================
