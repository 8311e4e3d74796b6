------------------------------- MODULE FanOut -------------------------------
(***************************************************************************)
(* From the read loops to the consumers: framePool (frame.go), router      *)
(* (router.go), the enqueue side of Consumer (consumer.go) and the part of *)
(* readLoop (session.go) that hands frames over.                           *)
(*                                                                         *)
(* A read loop takes a frame from the pool, decodes its topic and routes   *)
(* it.  Route holds the router's read lock while it enqueues, one consumer *)
(* after the other; consumers take frames, use them and release them at    *)
(* any moment in between.  In FanOutShared mode all of them own the same   *)
(* frame, and its reference count decides when it goes back to the pool.   *)
(* AddConsumer, RemoveConsumer and RemoveTopic need the write lock.        *)
(*                                                                         *)
(* A consumer queue is the bounded FIFO that FrameQueue implements.        *)
(***************************************************************************)
EXTENDS Integers, FiniteSets, Sequences, SequencesExt

CONSTANTS Readers,        \* read loops, one per session
          Consumers,
          Topics,
          Frames,         \* frame objects: as many as can be out of the pool
          None,           \* nil; also topic 0 and "no operation pending"
          Cap,            \* capacity of a consumer queue
          Modes,          \* fan-out modes considered
          Policies,       \* overflow policies considered
          FailPolicies    \* policies of the queues whose consumer's thread may return early

ASSUME CapAssumption == Cap \in Nat \ {0}
ASSUME ThreadsAssumption == /\ Readers \cap Consumers = {}
                            /\ IsFiniteSet(Readers)
                            /\ IsFiniteSet(Consumers)
ASSUME NoneAssumption == None \notin Frames \cup Topics
ASSUME ModesAssumption == /\ Modes \subseteq {"Copy", "Shared"}
                          /\ Policies \subseteq {"Block", "DropNewest", "DropOldest"}
                          /\ FailPolicies \subseteq Policies

VARIABLES topics,   \* router.topics: the consumers of each topic, <<>> if absent
          fanOut,   \* router.fanOut
          pending,  \* the operation waiting for the write lock, or None
          rpc,      \* per read loop: read, route, share, copy
          rframe,   \* the frame it routes
          rcopy,    \* the copy it is about to enqueue
          todo,     \* the consumers it has still to serve
          queue,    \* Consumer.queue
          closed,
          policy,
          cpc,      \* per consumer thread: next, use, gone
          cframe,   \* the frame it uses
          ref,      \* Frame.ref
          pooled,   \* how many times the frame lies in the pool
          ftopic    \* Frame.Topic

routerVars == <<topics, fanOut, pending>>
readerVars == <<rpc, rframe, rcopy, todo>>
threadVars == <<cpc, cframe>>
fixedVars == <<closed, policy>>
frameVars == <<ref, pooled, ftopic>>
vars == <<routerVars, readerVars, queue, fixedVars, threadVars, frameVars>>

Ops == [op : {"AddConsumer", "RemoveConsumer"}, topic : Topics, consumer : Consumers]
         \cup [op : {"RemoveTopic"}, topic : Topics]

TypeOK ==
    /\ topics \in [Topics -> Seq(Consumers)]
    /\ fanOut \in {"Copy", "Shared"}
    /\ pending \in Ops \cup {None}
    /\ rpc \in [Readers -> {"read", "route", "share", "copy"}]
    /\ rframe \in [Readers -> Frames \cup {None}]
    /\ rcopy \in [Readers -> Frames \cup {None}]
    /\ todo \in [Readers -> Seq(Consumers)]
    /\ queue \in [Consumers -> Seq(Frames)]
    /\ \A c \in Consumers : Len(queue[c]) <= Cap
    /\ closed \in [Consumers -> BOOLEAN]
    /\ policy \in [Consumers -> {"Block", "DropNewest", "DropOldest"}]
    /\ cpc \in [Consumers -> {"next", "use", "gone"}]
    /\ cframe \in [Consumers -> Frames \cup {None}]
    /\ ref \in [Frames -> Int]
    /\ pooled \in [Frames -> Nat]
    /\ ftopic \in [Frames -> Topics \cup {None}]
    /\ \A r \in Readers : /\ rpc[r] # "read" <=> rframe[r] # None
                          /\ rcopy[r] # None => rpc[r] = "copy" /\ todo[r] # <<>>
                          /\ rpc[r] = "share" => fanOut = "Shared"
                          /\ rpc[r] = "copy" => fanOut = "Copy"
    /\ \A c \in Consumers : cpc[c] = "use" <=> cframe[c] # None

Init ==
    /\ topics = [t \in Topics |-> <<>>]
    /\ fanOut \in Modes
    /\ pending = None
    /\ rpc = [r \in Readers |-> "read"]
    /\ rframe = [r \in Readers |-> None]
    /\ rcopy = [r \in Readers |-> None]
    /\ todo = [r \in Readers |-> <<>>]
    /\ queue = [c \in Consumers |-> <<>>]
    /\ closed = [c \in Consumers |-> FALSE]
    /\ policy \in [Consumers -> Policies]
    /\ cpc = [c \in Consumers |-> "next"]
    /\ cframe = [c \in Consumers |-> None]
    /\ ref = [f \in Frames |-> 0]
    /\ pooled = [f \in Frames |-> 1]
    /\ ftopic = [f \in Frames |-> None]

-----------------------------------------------------------------------------
(* Frames.                                                                 *)

\* framePool.New, and the topic its caller gives the frame.
NewFrame(f, t) == /\ pooled[f] > 0
                  /\ pooled' = [pooled EXCEPT ![f] = @ - 1]
                  /\ ref' = [ref EXCEPT ![f] = 1]
                  /\ ftopic' = [ftopic EXCEPT ![f] = t]

\* Mutant: the frame is recycled by the first release.
ReleaseAlways(f) == /\ ref' = [ref EXCEPT ![f] = @ - 1]
                    /\ pooled' = [pooled EXCEPT ![f] = @ + 1]
                    /\ ftopic' = [ftopic EXCEPT ![f] = None]

\* Frame.Release: the release that brings the count to zero recycles.
Release(f) == /\ ref' = [ref EXCEPT ![f] = @ - 1]
              /\ IF ref[f] - 1 # 0
                 THEN UNCHANGED <<pooled, ftopic>>
                 ELSE /\ pooled' = [pooled EXCEPT ![f] = @ + 1]
                      /\ ftopic' = [ftopic EXCEPT ![f] = None]

-----------------------------------------------------------------------------
(* Consumer.enqueue: frameQueue.Push on the queue of c.  With OverflowBlock *)
(* and a full queue nothing is enabled: Push waits.                        *)

\* Mutant: one frame too many.
FullLate(c) == Len(queue[c]) > Cap

Full(c) == Len(queue[c]) >= Cap

Insert(c, f) == /\ ~closed[c]
                /\ ~Full(c)
                /\ queue' = [queue EXCEPT ![c] = Append(@, f)]
                /\ UNCHANGED frameVars

DropOldest(c, f) == /\ ~closed[c]
                    /\ Full(c)
                    /\ policy[c] = "DropOldest"
                    /\ queue' = [queue EXCEPT ![c] = Append(Tail(@), f)]
                    /\ Release(Head(queue[c]))

\* Mutant: a producer that waits for room does not notice Close.
RefuseOnlyFull(c, f) == /\ Full(c) /\ policy[c] = "DropNewest"
                        /\ queue' = queue
                        /\ Release(f)

\* Push returns false and the router releases the frame.
Refuse(c, f) == /\ closed[c] \/ (Full(c) /\ policy[c] = "DropNewest")
                /\ queue' = queue
                /\ Release(f)

Enqueue(c, f) == Insert(c, f) \/ DropOldest(c, f) \/ Refuse(c, f)

-----------------------------------------------------------------------------
(* A read loop.                                                            *)

\* A message arrives; its topic is decoded, or not (None).
Read(r) == /\ rpc[r] = "read"
           /\ \E f \in Frames, t \in Topics \cup {None} :
                 /\ NewFrame(f, t)
                 /\ rframe' = [rframe EXCEPT ![r] = f]
           /\ rpc' = [rpc EXCEPT ![r] = "route"]
           /\ UNCHANGED <<routerVars, rcopy, todo, queue, fixedVars, threadVars>>

\* RLock: a waiting writer keeps new readers out.
CanRLock == pending = None
RLocked(r) == rpc[r] \in {"share", "copy"}

\* DecodeTopic failed, or Route finds no consumer: the frame is released.
Discard(r) ==
    /\ rpc[r] = "route"
    /\ LET t == ftopic[rframe[r]]
       IN t # None => CanRLock /\ topics[t] = <<>>
    /\ Release(rframe[r])
    /\ rpc' = [rpc EXCEPT ![r] = "read"]
    /\ rframe' = [rframe EXCEPT ![r] = None]
    /\ UNCHANGED <<routerVars, rcopy, todo, queue, fixedVars, threadVars>>

\* Mutant: the frame keeps the count of 1 it was created with.
SharedRefOne(f, consumers) == ref' = ref

\* routeShared: one reference per consumer, before the first enqueue.
SharedRef(f, consumers) == ref' = [ref EXCEPT ![f] = Len(consumers)]

\* Route up to its loop over the consumers, read lock held from here on.
Route(r) ==
    /\ rpc[r] = "route"
    /\ CanRLock
    /\ ftopic[rframe[r]] # None
    /\ LET consumers == topics[ftopic[rframe[r]]]
       IN /\ consumers # <<>>
          /\ todo' = [todo EXCEPT ![r] = consumers]
          /\ \/ /\ fanOut = "Shared"
                /\ SharedRef(rframe[r], consumers)
                /\ rpc' = [rpc EXCEPT ![r] = "share"]
             \/ /\ fanOut = "Copy"
                /\ ref' = ref
                /\ rpc' = [rpc EXCEPT ![r] = "copy"]
    /\ UNCHANGED <<routerVars, rframe, rcopy, queue, fixedVars, threadVars, pooled, ftopic>>

\* One turn of routeShared's loop.
ShareStep(r) == /\ rpc[r] = "share"
                /\ todo[r] # <<>>
                /\ Enqueue(Head(todo[r]), rframe[r])
                /\ todo' = [todo EXCEPT ![r] = Tail(@)]
                /\ UNCHANGED <<routerVars, rpc, rframe, rcopy, fixedVars, threadVars>>

\* One turn of routeCopy's loop: copyFrame, then enqueue.
CopyFrame(r) == /\ rpc[r] = "copy"
                /\ todo[r] # <<>>
                /\ rcopy[r] = None
                /\ \E f \in Frames : /\ NewFrame(f, ftopic[rframe[r]])
                                     /\ rcopy' = [rcopy EXCEPT ![r] = f]
                /\ UNCHANGED <<routerVars, rpc, rframe, todo, queue, fixedVars, threadVars>>

CopyStep(r) == /\ rpc[r] = "copy"
               /\ rcopy[r] # None
               /\ Enqueue(Head(todo[r]), rcopy[r])
               /\ todo' = [todo EXCEPT ![r] = Tail(@)]
               /\ rcopy' = [rcopy EXCEPT ![r] = None]
               /\ UNCHANGED <<routerVars, rpc, rframe, fixedVars, threadVars>>

\* The loop is over: RUnlock, and the original of the copies is released.
RouteReturn(r) ==
    /\ RLocked(r)
    /\ todo[r] = <<>>
    /\ \/ rpc[r] = "share" /\ UNCHANGED frameVars
       \/ rpc[r] = "copy" /\ Release(rframe[r])
    /\ rpc' = [rpc EXCEPT ![r] = "read"]
    /\ rframe' = [rframe EXCEPT ![r] = None]
    /\ UNCHANGED <<routerVars, rcopy, todo, queue, fixedVars, threadVars>>

RouteStep(r) == Discard(r) \/ Route(r) \/ ShareStep(r) \/ CopyFrame(r) \/ CopyStep(r)
                  \/ RouteReturn(r)

-----------------------------------------------------------------------------
(* The operations on the router, called by any other thread.               *)

Call(op) == /\ pending = None
            /\ pending' = op
            /\ UNCHANGED <<topics, fanOut, readerVars, queue, fixedVars, threadVars, frameVars>>

\* Mutant: the write lock does not wait for the readers.
CanLockAlways == TRUE

CanLock == \A r \in Readers : ~RLocked(r)

\* Mutant: a consumer is appended again.
WithConsumerTwice(list, c) == Append(list, c)

\* addConsumer.
WithConsumer(list, c) == IF Contains(list, c) THEN list ELSE Append(list, c)

\* removeConsumer: the last entry takes the place of the removed one.
WithoutConsumer(list, c) ==
    IF ~Contains(list, c) THEN list
    ELSE LET i == CHOOSE j \in DOMAIN list : list[j] = c
         IN SubSeq([list EXCEPT ![i] = list[Len(list)]], 1, Len(list) - 1)

\* Mutant: addConsumer's early return leaves the lock held.
ApplyKeepsLock ==
    /\ pending # None
    /\ CanLock
    /\ pending.op = "AddConsumer" => ~Contains(topics[pending.topic], pending.consumer)
    /\ topics' = [topics EXCEPT ![pending.topic] =
                     IF pending.op = "AddConsumer" THEN Append(@, pending.consumer) ELSE <<>>]
    /\ pending' = None
    /\ UNCHANGED <<fanOut, readerVars, queue, fixedVars, threadVars, frameVars>>

\* The write lock is granted: the map changes and the lock is released.
Apply == /\ pending # None
         /\ CanLock
         /\ LET t == pending.topic
            IN topics' = [topics EXCEPT ![t] =
                            CASE pending.op = "AddConsumer" -> WithConsumer(@, pending.consumer)
                              [] pending.op = "RemoveConsumer" -> WithoutConsumer(@, pending.consumer)
                              [] pending.op = "RemoveTopic" -> <<>>]
         /\ pending' = None
         /\ UNCHANGED <<fanOut, readerVars, queue, fixedVars, threadVars, frameVars>>

-----------------------------------------------------------------------------
(* A consumer's thread (runConsumer) and its owner.                        *)

NextFrame(c) ==
    /\ cpc[c] = "next"
    /\ \/ /\ queue[c] # <<>>
          /\ cframe' = [cframe EXCEPT ![c] = Head(queue[c])]
          /\ queue' = [queue EXCEPT ![c] = Tail(@)]
          /\ cpc' = [cpc EXCEPT ![c] = "use"]
       \/ /\ queue[c] = <<>>
          /\ closed[c]
          /\ cpc' = [cpc EXCEPT ![c] = "gone"]
          /\ UNCHANGED <<cframe, queue>>
    /\ UNCHANGED <<routerVars, readerVars, fixedVars, frameVars>>

\* The frame is released; when forwarding it failed the thread returns without
\* closing its queue.
Used(c) == /\ cpc[c] = "use"
           /\ Release(cframe[c])
           /\ cframe' = [cframe EXCEPT ![c] = None]
           /\ \/ cpc' = [cpc EXCEPT ![c] = "next"]
              \/ policy[c] \in FailPolicies /\ cpc' = [cpc EXCEPT ![c] = "gone"]
           /\ UNCHANGED <<routerVars, readerVars, queue, fixedVars>>

\* Consumer.Close releases every queued frame.  The frames of one queue are
\* distinct, so one release of each is one per slot.
Close(c) == /\ ~closed[c]
            /\ closed' = [closed EXCEPT ![c] = TRUE]
            /\ queue' = [queue EXCEPT ![c] = <<>>]
            /\ LET last == {f \in ToSet(queue[c]) : ref[f] - 1 = 0}
               IN /\ ref' = [f \in Frames |-> IF f \in ToSet(queue[c]) THEN ref[f] - 1 ELSE ref[f]]
                  /\ pooled' = [f \in Frames |-> IF f \in last THEN pooled[f] + 1 ELSE pooled[f]]
                  /\ ftopic' = [f \in Frames |-> IF f \in last THEN None ELSE ftopic[f]]
            /\ UNCHANGED <<routerVars, readerVars, policy, threadVars>>

-----------------------------------------------------------------------------
Next == \/ \E r \in Readers : Read(r) \/ RouteStep(r)
        \/ \E op \in Ops : Call(op)
        \/ Apply
        \/ \E c \in Consumers : NextFrame(c) \/ Used(c) \/ Close(c)

(* A read loop inside Route, a writer at the lock and a consumer's thread  *)
(* keep running; messages, calls and Close need not come.  RWMutex.Unlock  *)
(* admits the readers that waited for the writer before another writer can *)
(* get the lock, so a stream of calls cannot keep a read loop out: strong  *)
(* fairness.                                                               *)
Fairness == /\ \A r \in Readers : SF_vars(RouteStep(r))
            /\ WF_vars(Apply)
            /\ \A c \in Consumers : WF_vars(NextFrame(c)) /\ WF_vars(Used(c))

Spec == Init /\ [][Next]_vars
FairSpec == Spec /\ Fairness

-----------------------------------------------------------------------------
(* Who owns a frame.                                                       *)

OwedTo(c, f) == \E r \in Readers : rpc[r] = "share" /\ rframe[r] = f /\ c \in ToSet(todo[r])
Queued(c, f) == f \in ToSet(queue[c])
InUse(c, f) == cframe[c] = f
ReaderOwns(r, f) == (rpc[r] \in {"route", "copy"} /\ rframe[r] = f) \/ rcopy[r] = f

Owners(f) == {c \in Consumers : OwedTo(c, f) \/ Queued(c, f) \/ InUse(c, f)}
               \cup {r \in Readers : ReaderOwns(r, f)}

\* The read loop still has something to do with its frame.
Active(r) == rpc[r] \in {"route", "copy"} \/ (rpc[r] = "share" /\ todo[r] # <<>>)

Distinct(s) == \A i, j \in DOMAIN s : s[i] = s[j] => i = j

\* An owner owns a frame once: the lists a frame is delivered along name no
\* consumer twice, no queue holds a frame twice, the same consumer is never
\* owed, queueing and using the same frame at once, no two read loops work on
\* the same frame, and a frame that a read loop owns has no other owner.
OwnedOnce ==
    /\ \A t \in Topics : Distinct(topics[t])
    /\ \A r \in Readers : Distinct(todo[r])
    /\ \A c \in Consumers : Distinct(queue[c])
    /\ \A c \in Consumers, f \in Frames : /\ ~(OwedTo(c, f) /\ Queued(c, f))
                                          /\ ~(OwedTo(c, f) /\ InUse(c, f))
                                          /\ ~(Queued(c, f) /\ InUse(c, f))
    /\ \A r, s \in Readers : r # s /\ Active(r) /\ Active(s) => rframe[r] # rframe[s]
    /\ \A r \in Readers : rcopy[r] # None => rcopy[r] # rframe[r]
    /\ \A r \in Readers, f \in Frames : ReaderOwns(r, f) => Owners(f) = {r}

\* The count of a frame is the number of its owners at every moment of a
\* delivery, and a frame lies in the pool, once, exactly when nobody owns it:
\* no use after recycling, no second recycling, no leak (frame.go:27-37,
\* router.go:74-77, consumer.go:94-100, 135-141).
RefCountExact ==
    \A f \in Frames : /\ ref[f] = Cardinality(Owners(f))
                      /\ pooled[f] = IF Owners(f) = {} THEN 1 ELSE 0

\* What an owner sees of a frame does not change under it: as long as somebody
\* owns it, it is neither reset nor given out again.
TopicKept == \A f \in Frames : ftopic'[f] # ftopic[f] => Owners(f) \cap Owners(f)' = {}
OwnedFrameIntact == [][TopicKept]_vars

\* A frame enters a queue only while that consumer is registered for the
\* frame's topic: once RemoveConsumer or RemoveTopic has returned, no delivery
\* begun earlier still arrives.
RegisteredOnly ==
    \A c \in Consumers, f \in Frames :
        f \in ToSet(queue'[c]) /\ ~Queued(c, f) => ftopic[f] \in Topics /\ Contains(topics[ftopic[f]], c)
DeliveredOnlyToRegistered == [][RegisteredOnly]_vars

-----------------------------------------------------------------------------
(* Liveness, under FairSpec.                                               *)

\* Route returns, so the connection is read again.
RouteReturns == \A r \in Readers : rpc[r] # "read" ~> rpc[r] = "read"

\* AddConsumer, RemoveConsumer and RemoveTopic return.
ControlReturns == pending # None ~> pending = None
=============================================================================
