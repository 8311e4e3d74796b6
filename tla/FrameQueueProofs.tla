-------------------------- MODULE FrameQueueProofs --------------------------
(***************************************************************************)
(* Proofs about FrameQueue, for any number of producers, consumers and     *)
(* frames, any capacity and every overflow policy.                         *)
(***************************************************************************)
EXTENDS FrameQueue, FiniteSetTheorems, SequenceTheorems, TLAPS

-----------------------------------------------------------------------------
(* The ring's arithmetic.  Within two laps the modulus is a case           *)
(* distinction, which is linear: the slot k places behind h, and how far   *)
(* slot i lies behind h.                                                   *)

Place(h, k) == IF h + k < Cap THEN h + k ELSE h + k - Cap
Offset(h, i) == IF i >= h THEN i - h ELSE i + Cap - h

\* A number below the capacity is its own remainder (consumer.go:85: (tail+1) % len(buf)).
LEMMA ModSmall ==
    ASSUME NEW a \in Nat, a < Cap PROVE a % Cap = a
BY CapAssumption

\* One lap further, the remainder is one capacity less.
LEMMA ModLap ==
    ASSUME NEW a \in Nat, a >= Cap, a < Cap + Cap PROVE a % Cap = a - Cap
BY CapAssumption

\* What the expressions of the module are within one lap: the slot after i, the slot
\* that tail stands at, and the occupied slots.
LEMMA RingArithmetic ==
    ASSUME NEW h \in Slots, NEW n \in 0 .. Cap
    PROVE  /\ (h + n) % Cap = Place(h, n)
           /\ Place(h, n) \in Slots
           /\ Succ(h) = Place(h, 1)
           /\ \A i \in Slots : Offset(h, i) \in Slots /\ Place(h, Offset(h, i)) = i
           /\ \A k \in Slots : Place(h, k) \in Slots /\ Offset(h, Place(h, k)) = k
                               /\ (h + k) % Cap = Place(h, k)
           /\ {(h + k) % Cap : k \in 0 .. (n - 1)} = {i \in Slots : Offset(h, i) < n}
<1>1. \A k \in 0 .. Cap : (h + k) % Cap = Place(h, k) /\ Place(h, k) \in Slots
  <2> SUFFICES ASSUME NEW k \in 0 .. Cap
               PROVE  (h + k) % Cap = Place(h, k) /\ Place(h, k) \in Slots
    OBVIOUS
  <2>1. h + k \in Nat /\ h + k < Cap + Cap
    BY CapAssumption DEF Slots
  <2> QED
    BY <2>1, ModSmall, ModLap, CapAssumption DEF Place, Slots
<1>2. /\ \A i \in Slots : Offset(h, i) \in Slots /\ Place(h, Offset(h, i)) = i
      /\ \A k \in Slots : Offset(h, Place(h, k)) = k
  BY CapAssumption DEF Place, Offset, Slots
<1>3. {(h + k) % Cap : k \in 0 .. (n - 1)} = {i \in Slots : Offset(h, i) < n}
  <2>1. ASSUME NEW k \in 0 .. (n - 1) PROVE Place(h, k) \in Slots /\ Offset(h, Place(h, k)) < n
    BY CapAssumption DEF Place, Offset, Slots
  <2>2. ASSUME NEW i \in Slots, Offset(h, i) < n
        PROVE  \E k \in 0 .. (n - 1) : i = (h + k) % Cap
    <3>1. Offset(h, i) \in 0 .. (n - 1) /\ Offset(h, i) \in 0 .. Cap
      BY <1>2, <2>2, CapAssumption DEF Slots
    <3>2. i = (h + Offset(h, i)) % Cap
      BY <1>1, <1>2, <3>1
    <3> QED
      BY <3>1, <3>2
  <2>3. \A k \in 0 .. (n - 1) : k \in 0 .. Cap
    BY CapAssumption
  <2> QED
    BY <1>1, <2>1, <2>2, <2>3
<1>4. 1 \in 0 .. Cap /\ n \in 0 .. Cap /\ \A k \in Slots : k \in 0 .. Cap
  BY CapAssumption DEF Slots
<1> QED
  BY <1>1, <1>2, <1>3, <1>4 DEF Succ

\* The part of RingInv that a step has to keep, in linear form.
RingLinear == /\ tail = Place(head, size)
              /\ \A i \in Slots : buf[i] # None <=> Offset(head, i) < size

\* The ring's own invariant, written with remainders, follows from its linear form.
LEMMA RingIsLinear ==
    ASSUME head \in Slots, size \in 0 .. Cap
    PROVE  /\ RingInv <=> RingLinear
           /\ Window = {i \in Slots : Offset(head, i) < size}
BY RingArithmetic DEF RingInv, RingLinear, Window

-----------------------------------------------------------------------------
(* The inductive invariant.                                                *)

\* FramesConserved without counting: no frame is in two places, each is in one.
OnePlace ==
    /\ \A i, j \in Slots : buf[i] = buf[j] /\ buf[i] # None => i = j
    /\ \A s, t \in Threads : hand[s] = hand[t] /\ hand[s] # None => s = t
    /\ \A i \in Slots, t \in Threads : buf[i] # None => buf[i] # hand[t]
    /\ \A i \in Slots : buf[i] \notin free
    /\ \A t \in Threads : hand[t] \notin free
    /\ \A f \in Frames : \/ f \in free
                         \/ \E i \in Slots : buf[i] = f
                         \/ \E t \in Threads : hand[t] = f

\* A thread has a frame in hand exactly between Offer and the end of Push, and
\* between Pop and Finish.
InHand ==
    /\ \A p \in Producers : hand[p] # None <=> pc[p] \in {"lock", "wait"}
    /\ \A c \in Consumers : hand[c] # None <=> pc[c] = "work"

IInv == TypeOK /\ RingLinear /\ OnePlace /\ InHand /\ NoLostWakeup

\* newFrameQueue establishes the inductive invariant.
LEMMA IInvInit == Init => IInv
<1> SUFFICES ASSUME Init PROVE IInv
  OBVIOUS
<1>1. TypeOK
  <2>1. /\ buf \in [Slots -> Frames \cup {None}] /\ hand \in [Threads -> Frames \cup {None}]
        /\ closed \in BOOLEAN /\ policy \in Policies /\ free \subseteq Frames
    BY DEF Init
  <2>2. head \in Slots /\ tail \in Slots /\ size \in 0 .. Cap
    BY CapAssumption DEF Init, Slots
  <2>3. /\ pc \in [Threads -> ProducerStates \cup ConsumerStates]
        /\ \A p \in Producers : pc[p] \in ProducerStates
        /\ \A c \in Consumers : pc[c] \in ConsumerStates
    BY ThreadsAssumption DEF Init, Threads, ProducerStates, ConsumerStates
  <2> QED
    BY <2>1, <2>2, <2>3 DEF TypeOK
<1>2. RingLinear
  BY CapAssumption DEF Init, RingLinear, Place, Offset, Slots
<1>3. OnePlace
  BY NoneAssumption DEF Init, OnePlace
<1>4. InHand
  BY ThreadsAssumption DEF Init, InHand, Threads
<1>5. Waiting(Consumers) = {} /\ Waiting(Producers) = {} /\ ~closed
  BY ThreadsAssumption DEF Init, Waiting, Threads
<1> QED
  BY <1>1, <1>2, <1>3, <1>4, <1>5 DEF IInv, NoLostWakeup

-----------------------------------------------------------------------------
(* The condition variables.                                                *)

\* After Signal the callers' moves are g, but for at most one waiter of T that is
\* at the mutex now; if there was a waiter, there is one less.
LEMMA SignalMoves ==
    ASSUME NEW T, NEW g, pc' \in Signal(T, g)
    PROVE  \/ pc' = g /\ \A t \in T : pc[t] # "wait"
           \/ \E w \in T : pc[w] = "wait" /\ pc' = [g EXCEPT ![w] = "lock"]
BY DEF Signal, Waiting

\* The set of threads at the mutex when one arrives or leaves.
LEMMA Counting ==
    ASSUME NEW S, NEW x, IsFiniteSet(S)
    PROVE  /\ IsFiniteSet(S \cup {x}) /\ IsFiniteSet(S \ {x})
           /\ Cardinality(S) \in Nat
           /\ Cardinality(S \cup {x}) = IF x \in S THEN Cardinality(S) ELSE Cardinality(S) + 1
           /\ Cardinality(S \ {x}) = IF x \in S THEN Cardinality(S) - 1 ELSE Cardinality(S)
BY FS_AddElement, FS_RemoveElement, FS_CardinalityType

-----------------------------------------------------------------------------
(* Steps.                                                                  *)

\* What the ring's ends are: with frames queued the head is one of them, with room
\* the tail is an empty slot, and a full ring's tail is its head.
LEMMA RingEnds ==
    ASSUME IInv
    PROVE  /\ size > 0 => buf[head] \in Frames /\ buf[head] # None
           /\ size < Cap => buf[tail] = None
           /\ size = Cap => tail = head
<1>1. head \in Slots /\ tail \in Slots /\ size \in 0 .. Cap /\ RingLinear
      /\ buf \in [Slots -> Frames \cup {None}]
  BY DEF IInv, TypeOK
<1>2. Offset(head, head) = 0 /\ (size < Cap => Offset(head, tail) = size) /\ (size = Cap => tail = head)
  BY <1>1, CapAssumption DEF RingLinear, Offset, Place, Slots
<1> QED
  BY <1>1, <1>2 DEF RingLinear

\* A thread at the mutex or in Wait inside Push holds a frame; so does a consumer at work.
LEMMA HandFrame ==
    ASSUME IInv
    PROVE  /\ \A p \in Producers : pc[p] = "lock" => hand[p] \in Frames /\ hand[p] # None
           /\ \A p \in Producers : pc[p] = "idle" => hand[p] = None
           /\ \A c \in Consumers : pc[c] = "work" => hand[c] \in Frames /\ hand[c] # None
           /\ \A c \in Consumers : pc[c] = "lock" => hand[c] = None
BY DEF IInv, TypeOK, InHand, Threads

\* Every step keeps the types.
LEMMA TypeStep == ASSUME IInv, [Next]_vars PROVE TypeOK'
<1> USE DEF Threads, ProducerStates, ConsumerStates
<1>0. TypeOK
  BY DEF IInv
<1>a. \A i \in Slots : Succ(i) \in Slots
  <2> SUFFICES ASSUME NEW i \in Slots PROVE Succ(i) \in Slots
    OBVIOUS
  <2>1. 1 \in 0 .. Cap
    BY CapAssumption
  <2> QED
    BY <2>1, RingArithmetic
<1>b. ASSUME NEW T \in {Producers, Consumers}, NEW g, pc' \in Signal(T, g),
             g \in [Threads -> ProducerStates \cup ConsumerStates],
             \A p \in Producers : g[p] \in ProducerStates, \A c \in Consumers : g[c] \in ConsumerStates
      PROVE  /\ pc' \in [Threads -> ProducerStates \cup ConsumerStates]
             /\ \A p \in Producers : pc'[p] \in ProducerStates
             /\ \A c \in Consumers : pc'[c] \in ConsumerStates
  BY <1>b, SignalMoves, ThreadsAssumption
<1>1. ASSUME NEW p \in Producers, Offer(p) PROVE TypeOK'
  BY <1>0, <1>1, ThreadsAssumption DEF Offer, TypeOK, queueVars
<1>2. ASSUME NEW p \in Producers, PushInsert(p) PROVE TypeOK'
  <2>1. /\ [pc EXCEPT ![p] = "idle"] \in [Threads -> ProducerStates \cup ConsumerStates]
        /\ \A q \in Producers : [pc EXCEPT ![p] = "idle"][q] \in ProducerStates
        /\ \A c \in Consumers : [pc EXCEPT ![p] = "idle"][c] \in ConsumerStates
    BY <1>0, ThreadsAssumption DEF TypeOK
  <2>2. pc' \in Signal(Consumers, [pc EXCEPT ![p] = "idle"])
    BY <1>2 DEF PushInsert
  <2>3. /\ pc' \in [Threads -> ProducerStates \cup ConsumerStates]
        /\ \A q \in Producers : pc'[q] \in ProducerStates
        /\ \A c \in Consumers : pc'[c] \in ConsumerStates
    BY <2>1, <2>2, <1>b
  <2>4. size' \in 0 .. Cap /\ tail' \in Slots
    BY <1>0, <1>2, <1>a, CapAssumption DEF PushInsert, TypeOK, HasRoom
  <2> QED
    BY <1>0, <1>2, <2>3, <2>4 DEF PushInsert, TypeOK
<1>3. ASSUME NEW p \in Producers, PushWait(p) PROVE TypeOK'
  BY <1>0, <1>3, ThreadsAssumption DEF PushWait, TypeOK, queueVars
<1>4. ASSUME NEW p \in Producers, PushDropOldest(p) PROVE TypeOK'
  <2>1. /\ [pc EXCEPT ![p] = "idle"] \in [Threads -> ProducerStates \cup ConsumerStates]
        /\ \A q \in Producers : [pc EXCEPT ![p] = "idle"][q] \in ProducerStates
        /\ \A c \in Consumers : [pc EXCEPT ![p] = "idle"][c] \in ConsumerStates
    BY <1>0, ThreadsAssumption DEF TypeOK
  <2>2. pc' \in Signal(Consumers, [pc EXCEPT ![p] = "idle"])
    BY <1>4 DEF PushDropOldest
  <2>3. /\ pc' \in [Threads -> ProducerStates \cup ConsumerStates]
        /\ \A q \in Producers : pc'[q] \in ProducerStates
        /\ \A c \in Consumers : pc'[c] \in ConsumerStates
    BY <2>1, <2>2, <1>b
  <2>4. head' \in Slots /\ tail' \in Slots
    BY <1>0, <1>4, <1>a DEF PushDropOldest, TypeOK
  <2>5. buf[head] \in Frames
    BY <1>0, <1>4, RingEnds, CapAssumption DEF PushDropOldest, HasRoom, TypeOK
  <2> QED
    BY <1>0, <1>4, <2>3, <2>4, <2>5 DEF PushDropOldest, TypeOK
<1>5. ASSUME NEW p \in Producers, PushRefuse(p) PROVE TypeOK'
  BY <1>0, <1>5, HandFrame, ThreadsAssumption DEF PushRefuse, TypeOK, queueVars
<1>6. ASSUME NEW c \in Consumers, PopFrame(c) PROVE TypeOK'
  <2>1. /\ [pc EXCEPT ![c] = "work"] \in [Threads -> ProducerStates \cup ConsumerStates]
        /\ \A q \in Producers : [pc EXCEPT ![c] = "work"][q] \in ProducerStates
        /\ \A d \in Consumers : [pc EXCEPT ![c] = "work"][d] \in ConsumerStates
    BY <1>0, ThreadsAssumption DEF TypeOK
  <2>2. pc' \in Signal(Producers, [pc EXCEPT ![c] = "work"])
    BY <1>6 DEF PopFrame
  <2>3. /\ pc' \in [Threads -> ProducerStates \cup ConsumerStates]
        /\ \A q \in Producers : pc'[q] \in ProducerStates
        /\ \A d \in Consumers : pc'[d] \in ConsumerStates
    BY <2>1, <2>2, <1>b
  <2>4. size' \in 0 .. Cap /\ head' \in Slots
    BY <1>0, <1>6, <1>a, CapAssumption DEF PopFrame, TypeOK
  <2> QED
    BY <1>0, <1>6, <2>3, <2>4 DEF PopFrame, TypeOK
<1>7. ASSUME NEW c \in Consumers, PopClosed(c) \/ PopWait(c) PROVE TypeOK'
  BY <1>0, <1>7, ThreadsAssumption DEF PopClosed, PopWait, TypeOK, queueVars
<1>8. ASSUME NEW c \in Consumers, Finish(c) PROVE TypeOK'
  BY <1>0, <1>8, HandFrame, ThreadsAssumption DEF Finish, TypeOK, queueVars
<1>9. CASE Close
  <2>1. head' \in Slots /\ tail' \in Slots /\ size' \in 0 .. Cap
    BY <1>9, CapAssumption DEF Close, Slots
  <2>2. \A i \in Window : buf[i] \in Frames
    BY <1>0, RingIsLinear DEF IInv, TypeOK, RingLinear
  <2>3. /\ pc' \in [Threads -> ProducerStates \cup ConsumerStates]
        /\ \A q \in Producers : pc'[q] \in ProducerStates
        /\ \A d \in Consumers : pc'[d] \in ConsumerStates
    BY <1>0, <1>9, ThreadsAssumption DEF Close, Broadcast, TypeOK
  <2> QED
    BY <1>0, <1>9, <2>1, <2>2, <2>3 DEF Close, TypeOK
<1>10. CASE UNCHANGED vars
  BY <1>0, <1>10 DEF vars, TypeOK
<1> QED
  BY <1>1, <1>2, <1>3, <1>4, <1>5, <1>6, <1>7, <1>8, <1>9, <1>10 DEF Next, Push, Pop

\* Every step keeps the indices and the slots in agreement.
LEMMA RingStep == ASSUME IInv, [Next]_vars PROVE RingLinear'
<1>0. /\ head \in Slots /\ tail \in Slots /\ size \in 0 .. Cap /\ RingLinear
      /\ buf \in [Slots -> Frames \cup {None}]
  BY DEF IInv, TypeOK
<1>a. \A i \in Slots : Succ(i) = Place(i, 1)
  <2>1. 1 \in 0 .. Cap
    BY CapAssumption
  <2> QED
    BY <2>1, RingArithmetic
<1>1. ASSUME NEW p \in Producers, PushInsert(p) PROVE RingLinear'
  <2>1. hand[p] # None
    BY <1>1, HandFrame DEF PushInsert
  <2>2. tail' = Place(head, size + 1)
    BY <1>0, <1>1, <1>a, CapAssumption DEF PushInsert, HasRoom, RingLinear, Place, Slots
  <2>3. \A i \in Slots : Offset(head, i) = size <=> i = tail
    BY <1>0, <1>1, CapAssumption DEF PushInsert, HasRoom, RingLinear, Place, Offset, Slots
  <2>4. \A i \in Slots : Offset(head, i) \in Nat
    BY <1>0, CapAssumption DEF Offset, Slots
  <2>5. \A i \in Slots : Offset(head, i) < size + 1 <=> Offset(head, i) < size \/ i = tail
    BY <1>0, <2>3, <2>4
  <2> QED
    BY <1>0, <1>1, <2>1, <2>2, <2>5 DEF PushInsert, RingLinear
<1>2. ASSUME NEW p \in Producers, PushDropOldest(p) PROVE RingLinear'
  <2>1. hand[p] # None
    BY <1>2, HandFrame DEF PushDropOldest
  <2>2. size = Cap /\ tail = head
    BY <1>0, <1>2, RingEnds, CapAssumption DEF PushDropOldest, HasRoom
  <2>3. head' \in Slots /\ tail' = head' /\ size' = Cap
    <3>1. 1 \in 0 .. Cap
      BY CapAssumption
    <3> QED
      BY <1>0, <1>2, <2>2, <3>1, RingArithmetic DEF PushDropOldest
  <2>4. \A i \in Slots : buf'[i] # None
    BY <1>0, <1>2, <2>1, <2>2, CapAssumption DEF PushDropOldest, RingLinear, Offset, Slots
  <2>5. \A h \in Slots : Place(h, Cap) = h /\ \A i \in Slots : Offset(h, i) < Cap
    BY CapAssumption DEF Place, Offset, Slots
  <2> QED
    BY <2>3, <2>4, <2>5 DEF RingLinear
<1>3. ASSUME NEW c \in Consumers, PopFrame(c) PROVE RingLinear'
  <2>1. head' = Place(head, 1) /\ head' \in Slots /\ size' = size - 1 /\ tail' = tail
    <3>1. 1 \in 0 .. Cap
      BY CapAssumption
    <3> QED
      BY <1>0, <1>3, <3>1, RingArithmetic DEF PopFrame
  <2>2. tail' = Place(head', size')
    BY <1>0, <1>3, <2>1, CapAssumption DEF PopFrame, RingLinear, Place, Slots
  <2>3. \A i \in Slots : Offset(head', i) < size - 1 <=> Offset(head, i) < size /\ i # head
    BY <1>0, <2>1, CapAssumption DEF Place, Offset, Slots
  <2> QED
    BY <1>0, <1>3, <2>1, <2>2, <2>3 DEF PopFrame, RingLinear
<1>4. CASE Close
  <2>1. \A i \in Slots : buf'[i] = None
    BY <1>0, <1>4, RingIsLinear DEF Close, RingLinear
  <2> QED
    BY <1>4, <2>1, CapAssumption DEF Close, RingLinear, Place, Offset, Slots
<1>5. ASSUME UNCHANGED queueVars PROVE RingLinear'
  BY <1>0, <1>5 DEF queueVars, RingLinear
<1>6. ASSUME NEW p \in Producers, Offer(p) \/ PushWait(p) \/ PushRefuse(p) PROVE RingLinear'
  BY <1>5, <1>6 DEF Offer, PushWait, PushRefuse
<1>7. ASSUME NEW c \in Consumers, PopClosed(c) \/ PopWait(c) \/ Finish(c) PROVE RingLinear'
  BY <1>5, <1>7 DEF PopClosed, PopWait, Finish
<1>8. CASE UNCHANGED vars
  BY <1>5, <1>8 DEF vars, queueVars
<1> QED
  BY <1>1, <1>2, <1>3, <1>4, <1>6, <1>7, <1>8 DEF Next, Push, Pop

\* Every step moves a frame from one place to one other.
LEMMA PlaceStep == ASSUME IInv, [Next]_vars PROVE OnePlace'
<1>0. /\ head \in Slots /\ tail \in Slots /\ size \in 0 .. Cap /\ RingLinear
      /\ buf \in [Slots -> Frames \cup {None}] /\ hand \in [Threads -> Frames \cup {None}]
      /\ free \subseteq Frames /\ None \notin free /\ OnePlace
  BY NoneAssumption DEF IInv, TypeOK
<1>1. ASSUME NEW p \in Producers, Offer(p) PROVE OnePlace'
  <2>1. PICK f \in free : hand' = [hand EXCEPT ![p] = f] /\ free' = free \ {f}
    BY <1>1 DEF Offer
  <2>2. hand[p] = None /\ buf' = buf /\ p \in Threads
    BY <1>1, HandFrame DEF Offer, queueVars, Threads
  <2> QED
    BY <1>0, <2>1, <2>2, NoneAssumption DEF OnePlace
<1>2. ASSUME NEW p \in Producers, PushInsert(p) PROVE OnePlace'
  <2>1. p \in Threads /\ hand[p] # None /\ buf[tail] = None
    BY <1>2, HandFrame, RingEnds DEF PushInsert, HasRoom, Threads
  <2>2. buf' = [buf EXCEPT ![tail] = hand[p]] /\ hand' = [hand EXCEPT ![p] = None] /\ free' = free
    BY <1>2 DEF PushInsert
  <2> QED
    BY <1>0, <2>1, <2>2, NoneAssumption DEF OnePlace
<1>3. ASSUME NEW p \in Producers, PushDropOldest(p) PROVE OnePlace'
  <2>1. p \in Threads /\ hand[p] # None /\ tail = head /\ buf[head] # None
    BY <1>0, <1>3, HandFrame, RingEnds, CapAssumption DEF PushDropOldest, HasRoom, Threads
  <2>2. /\ buf' = [buf EXCEPT ![head] = hand[p]] /\ hand' = [hand EXCEPT ![p] = None]
        /\ free' = free \cup {buf[head]}
    BY <1>0, <1>3, <2>1 DEF PushDropOldest
  <2> QED
    BY <1>0, <2>1, <2>2, NoneAssumption DEF OnePlace
<1>4. ASSUME NEW t \in Threads, hand[t] # None, free' = free \cup {hand[t]},
             hand' = [hand EXCEPT ![t] = None], buf' = buf
      PROVE  OnePlace'
  BY <1>0, <1>4, NoneAssumption DEF OnePlace
<1>5. ASSUME NEW p \in Producers, PushRefuse(p) PROVE OnePlace'
  BY <1>4, <1>5, HandFrame DEF PushRefuse, queueVars, Threads
<1>6. ASSUME NEW c \in Consumers, PopFrame(c) PROVE OnePlace'
  <2>1. c \in Threads /\ hand[c] = None /\ buf[head] # None
    BY <1>6, HandFrame, RingEnds DEF PopFrame, Threads
  <2>2. buf' = [buf EXCEPT ![head] = None] /\ hand' = [hand EXCEPT ![c] = buf[head]] /\ free' = free
    BY <1>6 DEF PopFrame
  <2> QED
    BY <1>0, <2>1, <2>2, NoneAssumption DEF OnePlace
<1>7. ASSUME NEW c \in Consumers, Finish(c) PROVE OnePlace'
  BY <1>4, <1>7, HandFrame DEF Finish, queueVars, Threads
<1>8. CASE Close
  <2>1. Window = {i \in Slots : buf[i] # None}
    BY <1>0, RingIsLinear DEF RingLinear
  <2>2. /\ buf' = [i \in Slots |-> None] /\ hand' = hand
        /\ free' = free \cup {buf[i] : i \in Window}
    BY <1>0, <1>8, <2>1 DEF Close
  <2> QED
    BY <1>0, <2>1, <2>2, NoneAssumption DEF OnePlace
<1>9. ASSUME UNCHANGED <<buf, hand, free>> PROVE OnePlace'
  BY <1>0, <1>9 DEF OnePlace
<1>10. ASSUME NEW p \in Producers, PushWait(p) PROVE OnePlace'
  BY <1>9, <1>10 DEF PushWait, queueVars
<1>11. ASSUME NEW c \in Consumers, PopClosed(c) \/ PopWait(c) PROVE OnePlace'
  BY <1>9, <1>11 DEF PopClosed, PopWait, queueVars
<1>12. CASE UNCHANGED vars
  BY <1>9, <1>12 DEF vars
<1> QED
  BY <1>1, <1>2, <1>3, <1>5, <1>6, <1>7, <1>8, <1>10, <1>11, <1>12 DEF Next, Push, Pop

\* Every step that gives a thread a frame, or takes it, moves the thread accordingly;
\* Signal and Broadcast move producers from Wait to the mutex, frame in hand.
LEMMA HandStep == ASSUME IInv, [Next]_vars PROVE InHand'
<1>0. /\ pc \in [Threads -> ProducerStates \cup ConsumerStates] /\ hand \in [Threads -> Frames \cup {None}]
      /\ \A c \in Consumers : pc[c] \in ConsumerStates
      /\ \A p \in Producers : pc[p] \in ProducerStates
      /\ None \notin free /\ InHand
  BY NoneAssumption DEF IInv, TypeOK
<1> USE ThreadsAssumption DEF Threads, ProducerStates, ConsumerStates
<1>1. ASSUME NEW p \in Producers, Offer(p) PROVE InHand'
  BY <1>0, <1>1 DEF Offer, InHand
<1>2. ASSUME NEW p \in Producers, PushInsert(p) \/ PushDropOldest(p) PROVE InHand'
  <2>1. pc' \in Signal(Consumers, [pc EXCEPT ![p] = "idle"]) /\ hand' = [hand EXCEPT ![p] = None]
    BY <1>2 DEF PushInsert, PushDropOldest
  <2>2. \/ pc' = [pc EXCEPT ![p] = "idle"]
        \/ \E w \in Consumers : pc[w] = "wait" /\ pc' = [[pc EXCEPT ![p] = "idle"] EXCEPT ![w] = "lock"]
    BY <2>1, SignalMoves
  <2>3. \A q \in Producers : pc'[q] = IF q = p THEN "idle" ELSE pc[q]
    BY <1>0, <2>2
  <2>4. \A c \in Consumers : pc'[c] = "work" <=> pc[c] = "work"
    BY <1>0, <2>2
  <2> QED
    BY <1>0, <2>1, <2>3, <2>4 DEF InHand
<1>3. ASSUME NEW p \in Producers, PushWait(p) \/ PushRefuse(p) PROVE InHand'
  BY <1>0, <1>3 DEF PushWait, PushRefuse, InHand
<1>4. ASSUME NEW c \in Consumers, PopFrame(c) PROVE InHand'
  <2>1. /\ pc' \in Signal(Producers, [pc EXCEPT ![c] = "work"])
        /\ hand' = [hand EXCEPT ![c] = buf[head]] /\ buf[head] # None
    BY <1>4, RingEnds DEF PopFrame
  <2>2. \/ pc' = [pc EXCEPT ![c] = "work"]
        \/ \E w \in Producers : pc[w] = "wait" /\ pc' = [[pc EXCEPT ![c] = "work"] EXCEPT ![w] = "lock"]
    BY <2>1, SignalMoves
  <2>3. \A d \in Consumers : pc'[d] = IF d = c THEN "work" ELSE pc[d]
    BY <1>0, <2>2
  <2>4. \A q \in Producers : pc'[q] \in {"lock", "wait"} <=> pc[q] \in {"lock", "wait"}
    BY <1>0, <2>2
  <2> QED
    BY <1>0, <2>1, <2>3, <2>4 DEF InHand
<1>5. ASSUME NEW c \in Consumers, PopClosed(c) \/ PopWait(c) \/ Finish(c) PROVE InHand'
  BY <1>0, <1>5 DEF PopClosed, PopWait, Finish, InHand
<1>6. CASE Close
  BY <1>0, <1>6 DEF Close, Broadcast, InHand
<1>7. CASE UNCHANGED vars
  BY <1>0, <1>7 DEF vars, InHand
<1> QED
  BY <1>1, <1>2, <1>3, <1>4, <1>5, <1>6, <1>7 DEF Next, Push, Pop

\* A thread of kind A leaves the mutex and signals kind B: one thread less at the mutex
\* on its own side and, if somebody waits on the other side, one more there.
LEMMA SignalCounts ==
    ASSUME NEW A, NEW B, NEW t \in A, NEW s \in {"idle", "work"}, IsFiniteSet(A), IsFiniteSet(B),
           A \cap B = {}, A \cup B \subseteq Threads, TypeOK, pc[t] = "lock",
           pc' \in Signal(B, [pc EXCEPT ![t] = s])
    PROVE  /\ Cardinality(AtLock(A)') = Cardinality(AtLock(A)) - 1 /\ Cardinality(AtLock(A)) \in Nat
           /\ Waiting(A)' = Waiting(A)
           /\ Waiting(B)' # {} => /\ Waiting(B) # {}
                                  /\ Cardinality(AtLock(B)') = Cardinality(AtLock(B)) + 1
                                  /\ Cardinality(AtLock(B)) \in Nat
<1>0. pc \in [Threads -> ProducerStates \cup ConsumerStates]
  BY DEF TypeOK
<1>1. IsFiniteSet(AtLock(A)) /\ IsFiniteSet(AtLock(B))
  BY FS_Subset DEF AtLock
<1>2. \/ pc' = [pc EXCEPT ![t] = s] /\ \A u \in B : pc[u] # "wait"
      \/ \E w \in B : pc[w] = "wait" /\ pc' = [[pc EXCEPT ![t] = s] EXCEPT ![w] = "lock"]
  BY SignalMoves
<1>3. \A u \in A : pc'[u] = IF u = t THEN s ELSE pc[u]
  BY <1>0, <1>2
<1>4. AtLock(A)' = AtLock(A) \ {t} /\ t \in AtLock(A) /\ Waiting(A)' = Waiting(A)
  BY <1>3 DEF AtLock, Waiting
<1>5. CASE \A u \in B : pc[u] # "wait" /\ pc'[u] = pc[u]
  BY <1>1, <1>4, <1>5, Counting DEF Waiting
<1>6. ASSUME NEW w \in B, pc[w] = "wait", pc' = [[pc EXCEPT ![t] = s] EXCEPT ![w] = "lock"]
      PROVE  /\ Waiting(B) # {}
             /\ Cardinality(AtLock(B)') = Cardinality(AtLock(B)) + 1
             /\ Cardinality(AtLock(B)) \in Nat
  <2>1. \A u \in B : pc'[u] = IF u = w THEN "lock" ELSE pc[u]
    BY <1>0, <1>6
  <2>2. AtLock(B)' = AtLock(B) \cup {w} /\ w \notin AtLock(B)
    BY <1>6, <2>1 DEF AtLock
  <2> QED
    BY <1>1, <1>6, <2>2, Counting DEF Waiting
<1>7. CASE pc' = [pc EXCEPT ![t] = s] /\ \A u \in B : pc[u] # "wait"
  BY <1>0, <1>5, <1>7
<1>8. Cardinality(AtLock(A) \ {t}) = Cardinality(AtLock(A)) - 1 /\ Cardinality(AtLock(A)) \in Nat
  BY <1>1, <1>4, Counting
<1> QED
  BY <1>2, <1>4, <1>6, <1>7, <1>8

\* Every step keeps the wakeups: a frame or a slot that becomes available wakes a
\* waiter, and a thread that goes to wait finds none.
LEMMA WakeupStep == ASSUME IInv, [Next]_vars PROVE NoLostWakeup'
<1>0. /\ pc \in [Threads -> ProducerStates \cup ConsumerStates] /\ size \in 0 .. Cap /\ Cap \in Nat
      /\ closed \in BOOLEAN /\ TypeOK /\ NoLostWakeup
  BY CapAssumption DEF IInv, TypeOK
<1>a. /\ IsFiniteSet(Producers) /\ IsFiniteSet(Consumers) /\ Producers \cap Consumers = {}
      /\ Consumers \cap Producers = {} /\ Producers \cup Consumers \subseteq Threads
      /\ Consumers \cup Producers \subseteq Threads
  BY ThreadsAssumption DEF Threads
<1>b. Waiting(Threads) = {} <=> Waiting(Producers) = {} /\ Waiting(Consumers) = {}
  BY DEF Waiting, Threads
<1>c. Waiting(Threads)' = {} <=> Waiting(Producers)' = {} /\ Waiting(Consumers)' = {}
  BY DEF Waiting, Threads
<1>d. /\ Cardinality(AtLock(Producers)) \in Nat /\ IsFiniteSet(AtLock(Producers))
      /\ Cardinality(AtLock(Consumers)) \in Nat /\ IsFiniteSet(AtLock(Consumers))
  BY <1>a, FS_Subset, FS_CardinalityType DEF AtLock
<1>1. ASSUME NEW p \in Producers, Offer(p) PROVE NoLostWakeup'
  <2>1. pc[p] = "idle" /\ pc' = [pc EXCEPT ![p] = "lock"] /\ size' = size /\ closed' = closed
    BY <1>1 DEF Offer, queueVars
  <2>2. /\ Waiting(Producers)' = Waiting(Producers) /\ AtLock(Producers)' = AtLock(Producers) \cup {p}
        /\ Waiting(Consumers)' = Waiting(Consumers) /\ AtLock(Consumers)' = AtLock(Consumers)
    BY <1>0, <1>a, <2>1 DEF Waiting, AtLock
  <2>3. Cardinality(AtLock(Producers) \cup {p}) = Cardinality(AtLock(Producers)) + 1
    <3>1. p \notin AtLock(Producers)
      BY <2>1 DEF AtLock
    <3> QED
      BY <1>d, <3>1, Counting
  <2> QED
    BY <1>0, <1>b, <1>c, <1>d, <2>1, <2>2, <2>3 DEF NoLostWakeup
<1>2. ASSUME NEW p \in Producers, PushInsert(p) PROVE NoLostWakeup'
  <2>1. /\ pc[p] = "lock" /\ pc' \in Signal(Consumers, [pc EXCEPT ![p] = "idle"])
        /\ size' = size + 1 /\ closed' = closed /\ ~closed
    BY <1>2 DEF PushInsert
  <2>2. /\ Cardinality(AtLock(Producers)') = Cardinality(AtLock(Producers)) - 1
        /\ Waiting(Producers)' = Waiting(Producers)
        /\ Waiting(Consumers)' # {} => /\ Waiting(Consumers) # {}
                                       /\ Cardinality(AtLock(Consumers)') = Cardinality(AtLock(Consumers)) + 1
    BY <1>0, <1>a, <2>1, SignalCounts
  <2> QED
    BY <1>0, <1>d, <2>1, <2>2 DEF NoLostWakeup
<1>3. ASSUME NEW p \in Producers, PushWait(p) PROVE NoLostWakeup'
  <2>1. /\ pc[p] = "lock" /\ pc' = [pc EXCEPT ![p] = "wait"]
        /\ size' = size /\ closed' = closed /\ ~closed /\ size = Cap
    BY <1>0, <1>3 DEF PushWait, queueVars, HasRoom
  <2>2. Waiting(Consumers)' = Waiting(Consumers) /\ AtLock(Consumers)' = AtLock(Consumers)
        /\ AtLock(Producers)' = AtLock(Producers) \ {p}
    BY <1>0, <1>a, <2>1 DEF Waiting, AtLock
  <2>3. Cardinality(AtLock(Producers)') \in Nat
    BY <1>d, <2>2, FS_RemoveElement, FS_CardinalityType
  <2> QED
    BY <1>0, <2>1, <2>2, <2>3 DEF NoLostWakeup
<1>4. ASSUME NEW p \in Producers, PushDropOldest(p) PROVE NoLostWakeup'
  <2>1. /\ pc[p] = "lock" /\ pc' \in Signal(Consumers, [pc EXCEPT ![p] = "idle"])
        /\ size' = size /\ closed' = closed /\ ~closed /\ size = Cap
    BY <1>0, <1>4 DEF PushDropOldest, HasRoom
  <2>2. /\ Cardinality(AtLock(Producers)') = Cardinality(AtLock(Producers)) - 1
        /\ Waiting(Producers)' = Waiting(Producers)
        /\ Waiting(Consumers)' # {} => /\ Waiting(Consumers) # {}
                                       /\ Cardinality(AtLock(Consumers)') = Cardinality(AtLock(Consumers)) + 1
    BY <1>0, <1>a, <2>1, SignalCounts
  <2>3. p \in AtLock(Producers)
    BY <2>1 DEF AtLock
  <2>4. Cardinality(AtLock(Producers)) # 0
    BY <1>d, <2>3, FS_EmptySet
  <2> QED
    BY <1>0, <1>d, <2>1, <2>2, <2>4 DEF NoLostWakeup
<1>5. ASSUME NEW p \in Producers, PushRefuse(p) PROVE NoLostWakeup'
  <2>1. /\ pc[p] = "lock" /\ pc' = [pc EXCEPT ![p] = "idle"]
        /\ size' = size /\ closed' = closed /\ (closed \/ size = Cap)
    BY <1>0, <1>5 DEF PushRefuse, queueVars, HasRoom
  <2>2. /\ Waiting(Consumers)' = Waiting(Consumers) /\ AtLock(Consumers)' = AtLock(Consumers)
        /\ Waiting(Producers)' = Waiting(Producers) /\ AtLock(Producers)' = AtLock(Producers) \ {p}
    BY <1>0, <1>a, <2>1 DEF Waiting, AtLock
  <2>3. Cardinality(AtLock(Producers)') \in Nat
    BY <1>d, <2>2, FS_RemoveElement, FS_CardinalityType
  <2> QED
    BY <1>0, <1>b, <1>c, <2>1, <2>2, <2>3 DEF NoLostWakeup
<1>6. ASSUME NEW c \in Consumers, PopFrame(c) PROVE NoLostWakeup'
  <2>1. /\ pc[c] = "lock" /\ pc' \in Signal(Producers, [pc EXCEPT ![c] = "work"])
        /\ size' = size - 1 /\ closed' = closed
    BY <1>6 DEF PopFrame
  <2>2. /\ Cardinality(AtLock(Consumers)') = Cardinality(AtLock(Consumers)) - 1
        /\ Waiting(Consumers)' = Waiting(Consumers)
        /\ Waiting(Producers)' # {} => /\ Waiting(Producers) # {}
                                       /\ Cardinality(AtLock(Producers)') = Cardinality(AtLock(Producers)) + 1
    BY <1>0, <1>a, <2>1, SignalCounts
  <2> QED
    BY <1>0, <1>b, <1>c, <1>d, <2>1, <2>2 DEF NoLostWakeup
<1>7. ASSUME NEW c \in Consumers, PopClosed(c) \/ PopWait(c) PROVE NoLostWakeup'
  <2>1. /\ pc[c] = "lock" /\ pc' = [pc EXCEPT ![c] = IF closed THEN "gone" ELSE "wait"]
        /\ size' = size /\ closed' = closed /\ size = 0
    BY <1>0, <1>7 DEF PopClosed, PopWait, queueVars
  <2>2. /\ Waiting(Producers)' = Waiting(Producers) /\ AtLock(Producers)' = AtLock(Producers)
        /\ AtLock(Consumers)' = AtLock(Consumers) \ {c}
        /\ closed => Waiting(Consumers)' = Waiting(Consumers)
    BY <1>0, <1>a, <2>1 DEF Waiting, AtLock
  <2>3. Cardinality(AtLock(Consumers)') \in Nat
    BY <1>d, <2>2, FS_RemoveElement, FS_CardinalityType
  <2> QED
    BY <1>0, <1>b, <1>c, <2>1, <2>2, <2>3 DEF NoLostWakeup
<1>8. ASSUME NEW c \in Consumers, Finish(c) PROVE NoLostWakeup'
  <2>1. pc[c] = "work" /\ pc' = [pc EXCEPT ![c] = "lock"] /\ size' = size /\ closed' = closed
    BY <1>8 DEF Finish, queueVars
  <2>2. /\ Waiting(Producers)' = Waiting(Producers) /\ AtLock(Producers)' = AtLock(Producers)
        /\ Waiting(Consumers)' = Waiting(Consumers) /\ AtLock(Consumers)' = AtLock(Consumers) \cup {c}
    BY <1>0, <1>a, <2>1 DEF Waiting, AtLock
  <2>3. Cardinality(AtLock(Consumers) \cup {c}) = Cardinality(AtLock(Consumers)) + 1
    <3>1. c \notin AtLock(Consumers)
      BY <2>1 DEF AtLock
    <3> QED
      BY <1>d, <3>1, Counting
  <2> QED
    BY <1>0, <1>b, <1>c, <1>d, <2>1, <2>2, <2>3 DEF NoLostWakeup
<1>9. CASE Close
  <2>1. \A t \in Threads : pc'[t] # "wait"
    BY <1>0, <1>9 DEF Close, Broadcast
  <2> QED
    BY <1>a, <2>1 DEF NoLostWakeup, Waiting
<1>10. CASE UNCHANGED vars
  BY <1>0, <1>10 DEF vars, NoLostWakeup, Waiting, AtLock
<1> QED
  BY <1>1, <1>2, <1>3, <1>4, <1>5, <1>6, <1>7, <1>8, <1>9, <1>10 DEF Next, Push, Pop

\* Every step of a producer or consumer preserves it.
LEMMA IInvStep == IInv /\ [Next]_vars => IInv'
BY TypeStep, RingStep, PlaceStep, HandStep, WakeupStep DEF IInv

\* So it holds in every reachable state.
LEMMA Invariance == Spec => []IInv
<1>1. IInv /\ [Next]_vars => IInv'
  BY IInvStep
<1> QED
  BY IInvInit, <1>1, PTL DEF Spec

-----------------------------------------------------------------------------
(* What follows from the invariant.                                        *)

\* The queue's variables keep their types; in particular head, tail and size stay
\* within the buffer (consumer.go:48-73).
THEOREM TypeCorrect == Spec => []TypeOK
<1>1. IInv => TypeOK
  BY DEF IInv
<1> QED
  BY <1>1, Invariance, PTL

\* The slots that hold frames are the size slots from head on, whatever pushes, pops,
\* drops and closes have done to the ring.
THEOREM RingCorrect == Spec => []RingInv
<1>1. IInv => RingInv
  BY RingIsLinear DEF IInv, TypeOK
<1> QED
  BY <1>1, Invariance, PTL

\* Frames are conserved: none is lost or held twice on any path through Push, Pop and
\* Close.
THEOREM Conservation == Spec => []FramesConserved
<1>1. ASSUME IInv, NEW f \in Frames
      PROVE  Cardinality({i \in Slots : buf[i] = f}) + Cardinality({t \in Threads : hand[t] = f})
                 + (IF f \in free THEN 1 ELSE 0) = 1
  <2> DEFINE S == {i \in Slots : buf[i] = f}
             T == {t \in Threads : hand[t] = f}
  <2>1. f # None /\ OnePlace
    BY <1>1, NoneAssumption DEF IInv
  <2>2. \/ f \in free /\ S = {} /\ T = {}
        \/ f \notin free /\ T = {} /\ \E i : S = {i}
        \/ f \notin free /\ S = {} /\ \E t : T = {t}
    <3>1. CASE f \in free
      BY <2>1, <3>1 DEF OnePlace
    <3>2. ASSUME NEW i \in Slots, buf[i] = f PROVE f \notin free /\ T = {} /\ S = {i}
      BY <2>1, <3>2 DEF OnePlace
    <3>3. ASSUME NEW t \in Threads, hand[t] = f PROVE f \notin free /\ S = {} /\ T = {t}
      BY <2>1, <3>3 DEF OnePlace
    <3>4. f \in free \/ (\E i \in Slots : buf[i] = f) \/ (\E t \in Threads : hand[t] = f)
      BY <2>1 DEF OnePlace
    <3> QED
      BY <3>1, <3>2, <3>3, <3>4
  <2>3. Cardinality({}) = 0 /\ \A x : Cardinality({x}) = 1
    BY FS_EmptySet, FS_Singleton
  <2>4. \/ f \in free /\ Cardinality(S) = 0 /\ Cardinality(T) = 0
        \/ f \notin free /\ Cardinality(S) = 1 /\ Cardinality(T) = 0
        \/ f \notin free /\ Cardinality(S) = 0 /\ Cardinality(T) = 1
    <3> HIDE DEF S, T
    <3> QED
      BY <2>2, <2>3, Zenon
  <2> QED
    BY <2>4
<1>2. IInv => FramesConserved
  BY <1>1 DEF FramesConserved
<1> QED
  BY <1>2, Invariance, PTL

\* No wakeup is lost, for any number of producers and consumers.
THEOREM Wakeups == Spec => []NoLostWakeup
<1>1. IInv => NoLostWakeup
  BY DEF IInv
<1> QED
  BY <1>1, Invariance, PTL

-----------------------------------------------------------------------------
(* The refinement of BoundedQueue.                                         *)

\* The frames in n slots of b from h on, oldest first.
QueueOf(b, h, n) == [i \in 1 .. n |-> b[Place(h, i - 1)]]

\* The abstract queue: as long as the ring's count, its k-th frame k slots behind head.
LEMMA QueueOfIs ==
    ASSUME NEW b, NEW h \in Slots, NEW n \in 0 .. Cap
    PROVE  [i \in 1 .. n |-> b[(h + i - 1) % Cap]] = QueueOf(b, h, n)
<1>1. ASSUME NEW i \in 1 .. n PROVE (h + i - 1) % Cap = Place(h, i - 1)
  <2>1. i - 1 \in Slots /\ h + i - 1 = h + (i - 1)
    BY CapAssumption DEF Slots
  <2> QED
    BY <2>1, RingArithmetic
<1> QED
  BY <1>1 DEF QueueOf

\* It is a sequence of at most Cap frames.
LEMMA QueueOfType ==
    ASSUME NEW S, NEW b, NEW h \in Slots, NEW n \in 0 .. Cap, \A i \in Slots : Offset(h, i) < n => b[i] \in S
    PROVE  /\ QueueOf(b, h, n) \in Seq(S)
           /\ Len(QueueOf(b, h, n)) = n
           /\ \A i \in 1 .. n : QueueOf(b, h, n)[i] = b[Place(h, i - 1)]
<1>1. ASSUME NEW i \in 1 .. n PROVE b[Place(h, i - 1)] \in S
  <2>1. Place(h, i - 1) \in Slots /\ Offset(h, Place(h, i - 1)) < n
    BY CapAssumption DEF Place, Offset, Slots
  <2> QED
    BY <2>1
<1>2. QueueOf(b, h, n) \in [1 .. n -> S] /\ n \in Nat
  BY <1>1, CapAssumption DEF QueueOf
<1>3. QueueOf(b, h, n) \in Seq(S)
  BY <1>2, SeqDef
<1> QED
  BY <1>2, <1>3 DEF QueueOf

\* Append and Tail as functions.
LEMMA AppendIs ==
    ASSUME NEW S, NEW s \in Seq(S), NEW f \in S
    PROVE  Append(s, f) = [i \in 1 .. (Len(s) + 1) |-> IF i = Len(s) + 1 THEN f ELSE s[i]]
<1>1. /\ Append(s, f) \in Seq(S) /\ Len(Append(s, f)) = Len(s) + 1
      /\ \A i \in 1 .. Len(s) : Append(s, f)[i] = s[i]
      /\ Append(s, f)[Len(s) + 1] = f
  BY AppendProperties
<1>2. Append(s, f) \in [1 .. (Len(s) + 1) -> S] /\ Len(s) \in Nat
  BY <1>1, LenProperties
<1>3. \A i \in 1 .. (Len(s) + 1) : i # Len(s) + 1 => i \in 1 .. Len(s)
  BY <1>2
<1> QED
  BY <1>1, <1>2, <1>3

\* What Tail leaves of a sequence, element by element.
LEMMA TailIs ==
    ASSUME NEW S, NEW s \in Seq(S), s # <<>>
    PROVE  Tail(s) = [i \in 1 .. (Len(s) - 1) |-> s[i + 1]]
<1>1. /\ Tail(s) \in Seq(S) /\ Len(Tail(s)) = Len(s) - 1
      /\ \A i \in 1 .. Len(Tail(s)) : Tail(s)[i] = s[i + 1]
  BY HeadTailProperties
<1>2. Tail(s) \in [1 .. (Len(s) - 1) -> S]
  BY <1>1, LenProperties
<1> QED
  BY <1>1, <1>2

\* Writing the slot behind the last frame appends to the queue.
LEMMA QueueOfInsert ==
    ASSUME NEW S, NEW b \in [Slots -> S \cup {None}], NEW h \in Slots, NEW n \in 0 .. Cap, n < Cap,
           \A i \in Slots : Offset(h, i) < n => b[i] \in S, NEW f \in S
    PROVE  QueueOf([b EXCEPT ![Place(h, n)] = f], h, n + 1) = Append(QueueOf(b, h, n), f)
<1> DEFINE b1 == [b EXCEPT ![Place(h, n)] = f]
<1>1. Place(h, n) \in Slots /\ n + 1 \in 0 .. Cap
  BY CapAssumption DEF Place, Slots
<1>2. \A i \in 1 .. n : Place(h, i - 1) \in Slots /\ Place(h, i - 1) # Place(h, n)
  BY CapAssumption DEF Place, Slots
<1>3. \A i \in 1 .. n : b1[Place(h, i - 1)] = b[Place(h, i - 1)]
  BY <1>1, <1>2
<1>4. b1[Place(h, n)] = f
  BY <1>1
<1>5. /\ QueueOf(b, h, n) \in Seq(S) /\ Len(QueueOf(b, h, n)) = n
      /\ \A i \in 1 .. n : QueueOf(b, h, n)[i] = b[Place(h, i - 1)]
  BY QueueOfType
<1>6. Append(QueueOf(b, h, n), f) = [i \in 1 .. (n + 1) |-> IF i = n + 1 THEN f ELSE QueueOf(b, h, n)[i]]
  BY <1>5, AppendIs
<1>7. ASSUME NEW i \in 1 .. (n + 1)
      PROVE  b1[Place(h, i - 1)] = IF i = n + 1 THEN f ELSE QueueOf(b, h, n)[i]
  <2>1. CASE i = n + 1
    BY <1>4, <2>1
  <2>2. CASE i # n + 1
    <3>1. i \in 1 .. n
      BY <2>2
    <3> QED
      BY <2>2, <3>1, <1>3, <1>5
  <2> QED
    BY <2>1, <2>2
<1>8. QueueOf(b1, h, n + 1) = [i \in 1 .. (n + 1) |-> IF i = n + 1 THEN f ELSE QueueOf(b, h, n)[i]]
  <2> HIDE DEF b1
  <2> QED
    BY <1>7 DEF QueueOf
<1> QED
  BY <1>6, <1>8

\* Clearing the head slot and moving head on removes the oldest frame.
LEMMA QueueOfRemove ==
    ASSUME NEW b \in [Slots -> Frames \cup {None}], NEW h \in Slots, NEW n \in 0 .. Cap, n > 0,
           \A i \in Slots : Offset(h, i) < n => b[i] \in Frames
    PROVE  /\ QueueOf(b, h, n) # <<>>
           /\ Head(QueueOf(b, h, n)) = b[h]
           /\ QueueOf([b EXCEPT ![h] = None], Place(h, 1), n - 1) = Tail(QueueOf(b, h, n))
<1> DEFINE b1 == [b EXCEPT ![h] = None]
<1>1. /\ QueueOf(b, h, n) \in Seq(Frames) /\ Len(QueueOf(b, h, n)) = n
      /\ \A i \in 1 .. n : QueueOf(b, h, n)[i] = b[Place(h, i - 1)]
  BY QueueOfType
<1>2. QueueOf(b, h, n) # <<>> /\ Head(QueueOf(b, h, n)) = QueueOf(b, h, n)[1]
  BY <1>1
<1>3. Place(h, 0) = h
  BY CapAssumption DEF Place, Slots
<1>4. \A i \in 1 .. (n - 1) : /\ Place(Place(h, 1), i - 1) = Place(h, i)
                              /\ Place(h, i) \in Slots /\ Place(h, i) # h
  BY CapAssumption DEF Place, Slots
<1>5. Tail(QueueOf(b, h, n)) = [i \in 1 .. (n - 1) |-> QueueOf(b, h, n)[i + 1]]
  BY <1>1, <1>2, TailIs
<1>6. ASSUME NEW i \in 1 .. (n - 1)
      PROVE  b1[Place(Place(h, 1), i - 1)] = QueueOf(b, h, n)[i + 1]
  <2>1. i + 1 \in 1 .. n /\ (i + 1) - 1 = i
    OBVIOUS
  <2>2. QueueOf(b, h, n)[i + 1] = b[Place(h, i)]
    BY <1>1, <2>1
  <2> QED
    BY <1>4, <2>2
<1>7. QueueOf(b1, Place(h, 1), n - 1) = [i \in 1 .. (n - 1) |-> QueueOf(b, h, n)[i + 1]]
  <2> HIDE DEF b1
  <2> QED
    BY <1>6 DEF QueueOf
<1>8. Head(QueueOf(b, h, n)) = b[h]
  <2>1. 1 \in 1 .. n /\ 1 - 1 = 0
    OBVIOUS
  <2> QED
    BY <1>1, <1>2, <1>3, <2>1
<1> QED
  BY <1>2, <1>5, <1>7, <1>8

\* The mapped sequence, before and after a step.
LEMMA ItemsAre ==
    ASSUME IInv, IInv'
    PROVE  /\ Items = QueueOf(buf, head, size) /\ Items' = QueueOf(buf', head', size')
           /\ Items \in Seq(Frames) /\ Len(Items) = size
           /\ \A i \in Slots : Offset(head, i) < size => buf[i] \in Frames
           /\ size = 0 <=> Items = <<>>
<1>1. head \in Slots /\ size \in 0 .. Cap /\ head' \in Slots /\ size' \in 0 .. Cap
  BY DEF IInv, TypeOK
<1>2. Items = QueueOf(buf, head, size) /\ Items' = QueueOf(buf', head', size')
  BY <1>1, QueueOfIs DEF Items
<1>3. \A i \in Slots : Offset(head, i) < size => buf[i] \in Frames
  BY DEF IInv, TypeOK, RingLinear
<1>4. Items \in Seq(Frames) /\ Len(Items) = size
  BY <1>1, <1>2, <1>3, QueueOfType
<1> QED
  BY <1>1, <1>2, <1>3, <1>4

\* A step of the ring is a step of the FIFO, or changes nothing of it.
LEMMA RefinementStep == ASSUME IInv, IInv', [Next]_vars PROVE [BQ!Next]_(BQ!vars)
<1>0. /\ Items = QueueOf(buf, head, size) /\ Items' = QueueOf(buf', head', size')
      /\ Items \in Seq(Frames) /\ Len(Items) = size /\ (size = 0 <=> Items = <<>>)
  BY ItemsAre
<1>d. \A i \in Slots : Offset(head, i) < size => buf[i] \in Frames
  BY ItemsAre
<1>e. size < Cap <=> size # Cap
  BY CapAssumption DEF IInv, TypeOK
<1>a. /\ head \in Slots /\ tail \in Slots /\ size \in 0 .. Cap /\ RingLinear
      /\ buf \in [Slots -> Frames \cup {None}]
  BY DEF IInv, TypeOK
<1>b. \A i \in Slots : Succ(i) = Place(i, 1) /\ Place(i, 1) \in Slots
  <2>1. 1 \in 0 .. Cap
    BY CapAssumption
  <2> QED
    BY <2>1, RingArithmetic
<1>c. UNCHANGED <<buf, head, size>> => Items' = Items
  BY <1>0
<1>1. ASSUME NEW p \in Producers, Offer(p) PROVE BQ!Next
  <2>1. hand[p] = None
    BY <1>1, HandFrame DEF Offer
  <2>2. BQ!Offer(p)
    BY <1>1, <1>c, <2>1 DEF Offer, BQ!Offer, queueVars
  <2> QED
    BY <2>2 DEF BQ!Next
<1>2. ASSUME NEW p \in Producers, PushInsert(p) PROVE BQ!Next
  <2>1. hand[p] \in Frames /\ hand[p] # None /\ size < Cap /\ size' = size + 1 /\ head' = head
        /\ buf' = [buf EXCEPT ![Place(head, size)] = hand[p]]
    BY <1>2, <1>a, HandFrame DEF PushInsert, HasRoom, RingLinear
  <2>2. QueueOf([buf EXCEPT ![Place(head, size)] = hand[p]], head, size + 1)
            = Append(QueueOf(buf, head, size), hand[p])
    BY <1>a, <1>d, <2>1, QueueOfInsert
  <2>3. Items' = Append(Items, hand[p])
    BY <1>0, <2>1, <2>2
  <2>4. ~BQ!Full
    BY <1>0, <1>e, <2>1 DEF BQ!Full
  <2>5. BQ!Put(p)
    BY <1>2, <2>1, <2>3, <2>4 DEF PushInsert, BQ!Put
  <2> QED
    BY <2>5 DEF BQ!Next
<1>3. ASSUME NEW p \in Producers, PushDropOldest(p) PROVE BQ!Next
  <2>1. /\ hand[p] \in Frames /\ hand[p] # None /\ size = Cap /\ size' = Cap /\ tail = head /\ size > 0
        /\ head' = Place(head, 1)
    BY <1>3, <1>a, <1>b, HandFrame, RingEnds, CapAssumption DEF PushDropOldest, HasRoom
  <2> DEFINE b1 == [buf EXCEPT ![head] = None]
  <2>a. /\ Head(QueueOf(buf, head, size)) = buf[head]
        /\ QueueOf(b1, Place(head, 1), size - 1) = Tail(QueueOf(buf, head, size))
    BY <1>a, <1>d, <2>1, QueueOfRemove, Zenon
  <2>2. Head(Items) = buf[head] /\ QueueOf(b1, head', Cap - 1) = Tail(Items)
    <3> HIDE DEF b1
    <3> QED
      BY <1>0, <2>1, <2>a
  <2>3. b1 \in [Slots -> Frames \cup {None}] /\ head' \in Slots /\ Cap - 1 \in 0 .. Cap /\ Cap - 1 < Cap
    BY <1>a, <1>b, <2>1, CapAssumption
  <2>4. \A i \in Slots : Offset(head', i) < Cap - 1 => b1[i] \in Frames
    <3>1. \A i \in Slots : Offset(Place(head, 1), i) < Cap - 1 => i # head /\ Offset(head, i) < Cap
      BY <1>a, CapAssumption DEF Place, Offset, Slots
    <3> QED
      BY <1>a, <1>d, <2>1, <3>1
  <2>5. Place(head', Cap - 1) = head
    BY <1>a, <2>1, CapAssumption DEF Place, Slots
  <2>6. buf' = [b1 EXCEPT ![Place(head', Cap - 1)] = hand[p]] /\ (Cap - 1) + 1 = Cap
    BY <1>3, <1>a, <2>1, <2>5, CapAssumption DEF PushDropOldest
  <2>7. QueueOf([b1 EXCEPT ![Place(head', Cap - 1)] = hand[p]], head', (Cap - 1) + 1)
            = Append(QueueOf(b1, head', Cap - 1), hand[p])
    <3> HIDE DEF b1
    <3> QED
      BY <2>1, <2>3, <2>4, QueueOfInsert
  <2>8. Items' = Append(Tail(Items), hand[p])
    BY <1>0, <2>1, <2>2, <2>6, <2>7
  <2>9. BQ!Replace(p)
    BY <1>0, <1>3, <2>1, <2>2, <2>8 DEF PushDropOldest, BQ!Replace, BQ!Full
  <2> QED
    BY <2>9 DEF BQ!Next
<1>4. ASSUME NEW p \in Producers, PushRefuse(p) PROVE BQ!Next
  <2>1. hand[p] # None
    BY <1>4, HandFrame DEF PushRefuse
  <2>2. ~HasRoom <=> BQ!Full
    BY <1>0, <1>e DEF HasRoom, BQ!Full
  <2>3. closed \/ (BQ!Full /\ policy = "DropNewest")
    BY <1>4, <2>2, Zenon DEF PushRefuse
  <2>4. BQ!Refuse(p)
    BY <1>4, <1>c, <2>1, <2>3 DEF PushRefuse, BQ!Refuse, queueVars
  <2> QED
    BY <2>4 DEF BQ!Next
<1>5. ASSUME NEW c \in Consumers, PopFrame(c) PROVE BQ!Next
  <2>1. /\ hand[c] = None /\ size > 0 /\ size' = size - 1 /\ head' = Place(head, 1)
        /\ buf' = [buf EXCEPT ![head] = None]
    BY <1>5, <1>a, <1>b, HandFrame DEF PopFrame
  <2>a. /\ QueueOf(buf, head, size) # <<>> /\ Head(QueueOf(buf, head, size)) = buf[head]
        /\ QueueOf([buf EXCEPT ![head] = None], Place(head, 1), size - 1) = Tail(QueueOf(buf, head, size))
    BY <1>a, <1>d, <2>1, QueueOfRemove, Zenon
  <2>2. Items # <<>> /\ Head(Items) = buf[head] /\ Items' = Tail(Items)
    BY <1>0, <2>1, <2>a
  <2>3. BQ!Get(c)
    BY <1>5, <2>1, <2>2 DEF PopFrame, BQ!Get
  <2> QED
    BY <2>3 DEF BQ!Next
<1>6. ASSUME NEW c \in Consumers, Finish(c) PROVE BQ!Next
  <2>1. hand[c] # None
    BY <1>6, HandFrame DEF Finish
  <2>2. BQ!Done(c)
    BY <1>6, <1>c, <2>1 DEF Finish, BQ!Done, queueVars
  <2> QED
    BY <2>2 DEF BQ!Next
<1>7. CASE Close
  <2>1. Items' = <<>>
    <3>1. size' = 0 /\ head' = 0
      BY <1>7 DEF Close
    <3> QED
      BY <1>0, <3>1 DEF QueueOf
  <2>2. {Items[i] : i \in DOMAIN Items} = {buf[i] : i \in Window}
    <3>1. /\ DOMAIN Items = 1 .. size
          /\ \A i \in 1 .. size : Items[i] = buf[Place(head, i - 1)]
      BY <1>0, <1>a, QueueOfType DEF QueueOf
    <3>2. Window = {i \in Slots : Offset(head, i) < size}
      BY <1>a, RingIsLinear
    <3>3. \A k \in 1 .. size : Place(head, k - 1) \in Slots /\ Offset(head, Place(head, k - 1)) < size
      BY <1>a, CapAssumption DEF Place, Offset, Slots
    <3>4. ASSUME NEW i \in Slots, Offset(head, i) < size
          PROVE  \E k \in 1 .. size : Place(head, k - 1) = i
      <4>1. Offset(head, i) + 1 \in 1 .. size /\ (Offset(head, i) + 1) - 1 = Offset(head, i)
            /\ Place(head, Offset(head, i)) = i
        BY <1>a, <3>4, CapAssumption DEF Place, Offset, Slots
      <4> QED
        BY <4>1
    <3> QED
      BY <3>1, <3>2, <3>3, <3>4
  <2>3. BQ!Close
    BY <1>7, <2>1, <2>2 DEF Close, BQ!Close, BQ!ToSet
  <2> QED
    BY <2>3 DEF BQ!Next
<1>8. ASSUME UNCHANGED <<queueVars, hand, free>> PROVE UNCHANGED BQ!vars
  BY <1>8, <1>c DEF queueVars, BQ!vars
<1>9. ASSUME NEW p \in Producers, PushWait(p) PROVE UNCHANGED BQ!vars
  BY <1>8, <1>9 DEF PushWait
<1>10. ASSUME NEW c \in Consumers, PopClosed(c) \/ PopWait(c) PROVE UNCHANGED BQ!vars
  BY <1>8, <1>10 DEF PopClosed, PopWait
<1>11. CASE UNCHANGED vars
  BY <1>8, <1>11 DEF vars, queueVars
<1> QED
  BY <1>1, <1>2, <1>3, <1>4, <1>5, <1>6, <1>7, <1>9, <1>10, <1>11 DEF Next, Push, Pop

\* The ring with its mutex and condition variables implements the bounded FIFO: frames
\* leave in the order in which they came, and only a full DropOldest queue drops one.
THEOREM Refinement == Spec => ImplementsBoundedQueue
<1>1. Init => BQ!Init
  <2> SUFFICES ASSUME Init PROVE BQ!Init
    OBVIOUS
  <2>1. Items = <<>>
    BY DEF Init, Items
  <2> QED
    BY <2>1 DEF Init, BQ!Init, Policies, Threads
<1>2. IInv /\ IInv' /\ [Next]_vars => [BQ!Next]_(BQ!vars)
  BY RefinementStep
<1> QED
  BY <1>1, <1>2, Invariance, PTL DEF Spec, BQ!Spec, ImplementsBoundedQueue

=============================================================================
