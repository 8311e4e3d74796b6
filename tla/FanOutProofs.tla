---------------------------- MODULE FanOutProofs ----------------------------
(***************************************************************************)
(* Proofs about FanOut, for any number of read loops, consumers, topics    *)
(* and frames, any queue capacity and any mix of modes and policies.       *)
(***************************************************************************)
EXTENDS FanOutQueue, FiniteSetTheorems, TLAPS

-----------------------------------------------------------------------------
(* Sequences without repetition.                                           *)

\* Taking the head off a sequence without repetition removes exactly that element.
LEMMA TailDistinct ==
    ASSUME NEW S, NEW s \in Seq(S), s # <<>>, Distinct(s)
    PROVE  /\ Head(s) \in S
           /\ Head(s) \in ToSet(s)
           /\ Tail(s) \in Seq(S)
           /\ Len(Tail(s)) = Len(s) - 1
           /\ Distinct(Tail(s))
           /\ ToSet(Tail(s)) = ToSet(s) \ {Head(s)}
<1>1. /\ Head(s) = s[1] /\ 1 \in DOMAIN s /\ Tail(s) \in Seq(S) /\ Len(Tail(s)) = Len(s) - 1
      /\ \A i \in 1 .. (Len(s) - 1) : Tail(s)[i] = s[i + 1]
  OBVIOUS
<1>2. Distinct(Tail(s))
  BY <1>1 DEF Distinct
<1>3. ToSet(Tail(s)) \subseteq ToSet(s) \ {Head(s)}
  BY <1>1 DEF ToSet, Distinct
<1>4. ASSUME NEW x \in ToSet(s), x # Head(s) PROVE x \in ToSet(Tail(s))
  <2>1. PICK i \in DOMAIN s : x = s[i]
    BY DEF ToSet
  <2>2. i # 1 /\ i - 1 \in 1 .. (Len(s) - 1) /\ i = (i - 1) + 1
    BY <2>1, <1>1, <1>4
  <2>3. Tail(s)[i - 1] = x /\ i - 1 \in DOMAIN Tail(s)
    BY <2>1, <2>2, <1>1
  <2> QED
    BY <2>3 DEF ToSet
<1>5. Head(s) \in S /\ Head(s) \in ToSet(s)
  BY <1>1 DEF ToSet
<1> QED
  BY <1>1, <1>2, <1>3, <1>4, <1>5

\* Appending a new element keeps a sequence free of repetition.
LEMMA AppendDistinct ==
    ASSUME NEW S, NEW s \in Seq(S), NEW x \in S
    PROVE  /\ Append(s, x) \in Seq(S)
           /\ Len(Append(s, x)) = Len(s) + 1
           /\ ToSet(Append(s, x)) = ToSet(s) \cup {x}
           /\ Distinct(s) /\ x \notin ToSet(s) => Distinct(Append(s, x))
<1>1. /\ Append(s, x) \in Seq(S) /\ Len(Append(s, x)) = Len(s) + 1
      /\ \A i \in 1 .. Len(s) : Append(s, x)[i] = s[i]
      /\ Append(s, x)[Len(s) + 1] = x
  OBVIOUS
<1>2. ToSet(Append(s, x)) = ToSet(s) \cup {x}
  BY <1>1 DEF ToSet
<1>3. Distinct(s) /\ x \notin ToSet(s) => Distinct(Append(s, x))
  BY <1>1 DEF ToSet, Distinct
<1> QED
  BY <1>1, <1>2, <1>3

\* A sequence without repetition is as long as its set of elements is large.
LEMMA DistinctLen ==
    ASSUME NEW S, NEW s \in Seq(S), Distinct(s)
    PROVE  IsFiniteSet(ToSet(s)) /\ Cardinality(ToSet(s)) = Len(s)
<1>1. IsFiniteSet(1 .. Len(s)) /\ Cardinality(1 .. Len(s)) = Len(s)
  <2>1. Len(s) \in Nat
    OBVIOUS
  <2> QED
    BY <2>1, FS_Interval
<1>2. s \in Bijection(1 .. Len(s), ToSet(s))
  BY DEF Distinct, ToSet, Bijection, Injection, Surjection, IsInjective
<1>3. ExistsBijection(1 .. Len(s), ToSet(s))
  BY <1>2 DEF ExistsBijection
<1> QED
  BY <1>1, <1>3, FS_Bijection

\* addConsumer keeps the list of a topic well-formed.
LEMMA WithConsumerDistinct ==
    ASSUME NEW S, NEW s \in Seq(S), NEW c \in S
    PROVE  /\ WithConsumer(s, c) \in Seq(S)
           /\ Distinct(s) => Distinct(WithConsumer(s, c))
<1>1. Contains(s, c) <=> c \in ToSet(s)
  BY DEF Contains, ToSet
<1> QED
  BY <1>1, AppendDistinct DEF WithConsumer

\* removeConsumer, which moves the last entry into the gap, does so too.
LEMMA WithoutConsumerDistinct ==
    ASSUME NEW S, NEW s \in Seq(S), NEW c \in S
    PROVE  /\ WithoutConsumer(s, c) \in Seq(S)
           /\ Distinct(s) => Distinct(WithoutConsumer(s, c))
<1>1. CASE ~Contains(s, c)
  BY <1>1 DEF WithoutConsumer
<1>2. CASE Contains(s, c)
  <2> DEFINE i == CHOOSE j \in DOMAIN s : s[j] = c
             n == Len(s)
             m == [s EXCEPT ![i] = s[n]]
             w == SubSeq(m, 1, n - 1)
  <2>1. i \in 1 .. n /\ n \in Nat /\ n >= 1
    BY <1>2 DEF Contains
  <2>2. m \in Seq(S) /\ Len(m) = n /\ \A j \in 1 .. n : m[j] = IF j = i THEN s[n] ELSE s[j]
    BY <2>1
  <2> HIDE DEF m
  <2>3. w \in Seq(S) /\ Len(w) = n - 1 /\ \A j \in 1 .. (n - 1) : w[j] = m[j]
    BY <2>1, <2>2
  <2>4. ASSUME Distinct(s) PROVE Distinct(w)
    <3>1. ASSUME NEW j \in 1 .. (n - 1), NEW k \in 1 .. (n - 1), w[j] = w[k] PROVE j = k
      <4>1. m[j] = m[k]
        BY <2>3, <3>1
      <4>2. j \in 1 .. n /\ k \in 1 .. n /\ j # n /\ k # n
        BY <2>1
      <4>3. \A a, b \in 1 .. n : s[a] = s[b] => a = b
        BY <2>4 DEF Distinct
      <4>4. /\ m[j] = IF j = i THEN s[n] ELSE s[j]
            /\ m[k] = IF k = i THEN s[n] ELSE s[k]
        BY <4>2, <2>2
      <4> HIDE DEF i
      <4>5. n \in 1 .. n
        BY <2>1
      <4> QED
        BY <4>1, <4>2, <4>3, <4>4, <4>5
    <3> QED
      BY <3>1, <2>3 DEF Distinct
  <2>5. WithoutConsumer(s, c) = w
    BY <1>2, Zenon DEF WithoutConsumer, m
  <2> QED
    BY <2>3, <2>4, <2>5
<1> QED
  BY <1>1, <1>2

-----------------------------------------------------------------------------
(* Types.                                                                  *)

\* Release and NewFrame keep the counters typed.
LEMMA FrameTypes ==
    ASSUME TypeOK, NEW f \in Frames
    PROVE  /\ Release(f) => /\ ref' \in [Frames -> Int]
                            /\ pooled' \in [Frames -> Nat]
                            /\ ftopic' \in [Frames -> Topics \cup {None}]
           /\ \A t \in Topics \cup {None} :
                NewFrame(f, t) => /\ ref' \in [Frames -> Int]
                                  /\ pooled' \in [Frames -> Nat]
                                  /\ ftopic' \in [Frames -> Topics \cup {None}]
<1>1. /\ ref \in [Frames -> Int] /\ pooled \in [Frames -> Nat]
      /\ ftopic \in [Frames -> Topics \cup {None}]
  BY DEF TypeOK
<1>2. ASSUME Release(f)
      PROVE  /\ ref' \in [Frames -> Int]
             /\ pooled' \in [Frames -> Nat]
             /\ ftopic' \in [Frames -> Topics \cup {None}]
  BY <1>1, <1>2 DEF Release
<1>3. ASSUME NEW t \in Topics \cup {None}, NewFrame(f, t)
      PROVE  /\ ref' \in [Frames -> Int]
             /\ pooled' \in [Frames -> Nat]
             /\ ftopic' \in [Frames -> Topics \cup {None}]
  BY <1>1, <1>3 DEF NewFrame
<1> QED
  BY <1>2, <1>3

\* Enqueue keeps queues within their capacity.
LEMMA EnqueueTypes ==
    ASSUME TypeOK, NEW c \in Consumers, NEW f \in Frames, Enqueue(c, f)
    PROVE  /\ queue' \in [Consumers -> Seq(Frames)]
           /\ \A d \in Consumers : Len(queue'[d]) <= Cap
           /\ ref' \in [Frames -> Int]
           /\ pooled' \in [Frames -> Nat]
           /\ ftopic' \in [Frames -> Topics \cup {None}]
<1>0. queue[c] \in Seq(Frames) /\ Len(queue[c]) <= Cap /\ Cap \in Nat /\ Cap > 0
  BY CapAssumption DEF TypeOK
<1>1. CASE Insert(c, f)
  BY <1>0, <1>1 DEF Insert, Full, TypeOK, frameVars
<1>2. CASE DropOldest(c, f)
  <2>1. queue[c] # <<>>
    BY <1>0, <1>2 DEF DropOldest, Full
  <2>2. Head(queue[c]) \in Frames /\ Tail(queue[c]) \in Seq(Frames)
        /\ Len(Tail(queue[c])) = Len(queue[c]) - 1
    BY <1>0, <2>1
  <2>3. Release(Head(queue[c]))
    BY <1>2 DEF DropOldest
  <2>4. Append(Tail(queue[c]), f) \in Seq(Frames) /\ Len(Append(Tail(queue[c]), f)) = Len(queue[c])
    BY <2>2, <1>0
  <2> QED
    BY <1>0, <1>2, <2>2, <2>3, <2>4, FrameTypes DEF DropOldest, TypeOK
<1>3. CASE Refuse(c, f)
  <2>1. queue' = queue /\ Release(f)
    BY <1>3 DEF Refuse
  <2> QED
    BY <2>1, FrameTypes DEF TypeOK
<1> QED
  BY <1>1, <1>2, <1>3 DEF Enqueue

\* Every initial state is typed.
LEMMA TypeInit == Init => TypeOK
<1> SUFFICES ASSUME Init PROVE TypeOK
  OBVIOUS
<1>1. policy \in [Consumers -> {"Block", "DropNewest", "DropOldest"}] /\ fanOut \in {"Copy", "Shared"}
  BY ModesAssumption DEF Init
<1>2. /\ <<>> \in Seq(Consumers) /\ <<>> \in Seq(Frames) /\ Len(<<>>) <= Cap
  BY CapAssumption
<1> QED
  BY <1>1, <1>2, NoneAssumption DEF Init, TypeOK

\* Every step keeps the state typed.
LEMMA TypeStep == TypeOK /\ [Next]_vars => TypeOK'
<1> SUFFICES ASSUME TypeOK, [Next]_vars PROVE TypeOK'
  OBVIOUS
<1> USE NoneAssumption
<1>1. ASSUME NEW r \in Readers, Read(r) PROVE TypeOK'
  <2>1. PICK f \in Frames, t \in Topics \cup {None} :
           NewFrame(f, t) /\ rframe' = [rframe EXCEPT ![r] = f]
    BY <1>1 DEF Read
  <2>2. /\ ref' \in [Frames -> Int] /\ pooled' \in [Frames -> Nat]
        /\ ftopic' \in [Frames -> Topics \cup {None}]
    BY <2>1, FrameTypes
  <2> QED
    BY <1>1, <2>1, <2>2 DEF Read, TypeOK, routerVars, fixedVars, threadVars
<1>2. ASSUME NEW r \in Readers, Discard(r) PROVE TypeOK'
  <2>1. rframe[r] \in Frames /\ Release(rframe[r])
    BY <1>2 DEF Discard, TypeOK
  <2>2. /\ ref' \in [Frames -> Int] /\ pooled' \in [Frames -> Nat]
        /\ ftopic' \in [Frames -> Topics \cup {None}]
    BY <2>1, FrameTypes
  <2> QED
    BY <1>2, <2>2 DEF Discard, TypeOK, routerVars, fixedVars, threadVars
<1>3. ASSUME NEW r \in Readers, Route(r) PROVE TypeOK'
  <2>1. rframe[r] \in Frames /\ ftopic[rframe[r]] \in Topics
    BY <1>3 DEF Route, TypeOK
  <2>2. topics[ftopic[rframe[r]]] \in Seq(Consumers) /\ Len(topics[ftopic[rframe[r]]]) \in Int
    BY <2>1 DEF TypeOK
  <2>3. /\ todo' = [todo EXCEPT ![r] = topics[ftopic[rframe[r]]]]
        /\ UNCHANGED <<routerVars, rframe, rcopy, queue, fixedVars, threadVars, pooled, ftopic>>
        /\ rpc[r] = "route"
    BY <1>3 DEF Route
  <2>4. rcopy[r] = None
    BY <2>3 DEF TypeOK
  <2>5. CASE fanOut = "Shared" /\ SharedRef(rframe[r], topics[ftopic[rframe[r]]])
             /\ rpc' = [rpc EXCEPT ![r] = "share"]
    <3>1. ref' \in [Frames -> Int]
      BY <2>1, <2>2, <2>5 DEF SharedRef, TypeOK
    <3> QED
      BY <2>1, <2>2, <2>3, <2>4, <2>5, <3>1 DEF TypeOK, routerVars, fixedVars, threadVars
  <2>6. CASE fanOut = "Copy" /\ ref' = ref /\ rpc' = [rpc EXCEPT ![r] = "copy"]
    BY <2>1, <2>2, <2>3, <2>4, <2>6 DEF TypeOK, routerVars, fixedVars, threadVars
  <2> QED
    BY <1>3, <2>5, <2>6 DEF Route
<1>4. ASSUME NEW r \in Readers, ShareStep(r) PROVE TypeOK'
  <2>1. /\ rframe[r] \in Frames /\ todo[r] \in Seq(Consumers) /\ todo[r] # <<>>
        /\ Enqueue(Head(todo[r]), rframe[r])
    BY <1>4 DEF ShareStep, TypeOK
  <2>2. Head(todo[r]) \in Consumers /\ Tail(todo[r]) \in Seq(Consumers)
    BY <2>1
  <2>3. /\ queue' \in [Consumers -> Seq(Frames)] /\ \A d \in Consumers : Len(queue'[d]) <= Cap
        /\ ref' \in [Frames -> Int] /\ pooled' \in [Frames -> Nat]
        /\ ftopic' \in [Frames -> Topics \cup {None}]
    BY <2>1, <2>2, EnqueueTypes
  <2> QED
    BY <1>4, <2>2, <2>3 DEF ShareStep, TypeOK, routerVars, fixedVars, threadVars
<1>5. ASSUME NEW r \in Readers, CopyFrame(r) PROVE TypeOK'
  <2>1. PICK f \in Frames :
           NewFrame(f, ftopic[rframe[r]]) /\ rcopy' = [rcopy EXCEPT ![r] = f]
    BY <1>5 DEF CopyFrame
  <2>2. ftopic[rframe[r]] \in Topics \cup {None}
    BY <1>5 DEF CopyFrame, TypeOK
  <2>3. /\ ref' \in [Frames -> Int] /\ pooled' \in [Frames -> Nat]
        /\ ftopic' \in [Frames -> Topics \cup {None}]
    BY <2>1, <2>2, FrameTypes
  <2> QED
    BY <1>5, <2>1, <2>3 DEF CopyFrame, TypeOK, routerVars, fixedVars, threadVars
<1>6. ASSUME NEW r \in Readers, CopyStep(r) PROVE TypeOK'
  <2>1. /\ rcopy[r] \in Frames /\ todo[r] \in Seq(Consumers) /\ todo[r] # <<>>
        /\ Enqueue(Head(todo[r]), rcopy[r])
    BY <1>6 DEF CopyStep, TypeOK
  <2>2. Head(todo[r]) \in Consumers /\ Tail(todo[r]) \in Seq(Consumers)
    BY <2>1
  <2>3. /\ queue' \in [Consumers -> Seq(Frames)] /\ \A d \in Consumers : Len(queue'[d]) <= Cap
        /\ ref' \in [Frames -> Int] /\ pooled' \in [Frames -> Nat]
        /\ ftopic' \in [Frames -> Topics \cup {None}]
    BY <2>1, <2>2, EnqueueTypes
  <2> QED
    BY <1>6, <2>2, <2>3 DEF CopyStep, TypeOK, routerVars, fixedVars, threadVars
<1>7. ASSUME NEW r \in Readers, RouteReturn(r) PROVE TypeOK'
  <2>1. rframe[r] \in Frames
    BY <1>7 DEF RouteReturn, RLocked, TypeOK
  <2>2. /\ ref' \in [Frames -> Int] /\ pooled' \in [Frames -> Nat]
        /\ ftopic' \in [Frames -> Topics \cup {None}]
    <3>1. CASE UNCHANGED frameVars
      BY <3>1 DEF frameVars, TypeOK
    <3>2. CASE Release(rframe[r])
      BY <3>2, <2>1, FrameTypes
    <3> QED
      BY <1>7, <3>1, <3>2 DEF RouteReturn
  <2> QED
    BY <1>7, <2>2 DEF RouteReturn, TypeOK, routerVars, fixedVars, threadVars
<1>8. ASSUME NEW op \in Ops, Call(op) PROVE TypeOK'
  BY <1>8 DEF Call, TypeOK, readerVars, fixedVars, threadVars, frameVars
<1>9. ASSUME Apply PROVE TypeOK'
  <2> DEFINE t == pending.topic
  <2>1. pending \in Ops /\ t \in Topics
    BY <1>9 DEF Apply, TypeOK, Ops
  <2>2. topics[t] \in Seq(Consumers)
    BY <2>1 DEF TypeOK
  <2>3. pending.op \in {"AddConsumer", "RemoveConsumer"} => pending.consumer \in Consumers
    BY <2>1 DEF Ops
  <2>4. topics' \in [Topics -> Seq(Consumers)]
    <3>1. CASE pending.op = "AddConsumer"
      <4>1. WithConsumer(topics[t], pending.consumer) \in Seq(Consumers)
        BY <2>2, <2>3, <3>1, WithConsumerDistinct
      <4> QED
        BY <1>9, <2>1, <3>1, <4>1 DEF Apply, TypeOK
    <3>2. CASE pending.op = "RemoveConsumer"
      <4>1. WithoutConsumer(topics[t], pending.consumer) \in Seq(Consumers)
        BY <2>2, <2>3, <3>2, WithoutConsumerDistinct
      <4> QED
        BY <1>9, <2>1, <3>2, <4>1 DEF Apply, TypeOK
    <3>3. CASE pending.op = "RemoveTopic"
      <4>1. topics' = [topics EXCEPT ![t] = <<>>]
        BY <1>9, <3>3 DEF Apply
      <4>2. <<>> \in Seq(Consumers)
        OBVIOUS
      <4> QED
        BY <4>1, <4>2 DEF TypeOK
    <3>4. pending.op \in {"AddConsumer", "RemoveConsumer", "RemoveTopic"}
      BY <2>1 DEF Ops
    <3> QED
      BY <3>1, <3>2, <3>3, <3>4
  <2> QED
    BY <1>9, <2>4 DEF Apply, TypeOK, readerVars, fixedVars, threadVars, frameVars
<1>10. ASSUME NEW c \in Consumers, NextFrame(c) PROVE TypeOK'
  <2>1. queue[c] \in Seq(Frames) /\ Len(queue[c]) <= Cap
    BY DEF TypeOK
  <2>2. CASE queue[c] # <<>>
    <3>1. /\ Head(queue[c]) \in Frames /\ Tail(queue[c]) \in Seq(Frames)
          /\ Len(Tail(queue[c])) = Len(queue[c]) - 1 /\ Len(queue[c]) \in Nat /\ Cap \in Nat
      BY <2>1, <2>2, CapAssumption
    <3>2. /\ cframe' = [cframe EXCEPT ![c] = Head(queue[c])]
          /\ queue' = [queue EXCEPT ![c] = Tail(queue[c])]
          /\ cpc' = [cpc EXCEPT ![c] = "use"]
          /\ UNCHANGED <<routerVars, readerVars, fixedVars, frameVars>>
      BY <1>10, <2>2, Zenon DEF NextFrame
    <3>3. queue' \in [Consumers -> Seq(Frames)] /\ \A d \in Consumers : Len(queue'[d]) <= Cap
      BY <2>1, <3>1, <3>2 DEF TypeOK
    <3> QED
      BY <3>1, <3>2, <3>3 DEF TypeOK, routerVars, readerVars, fixedVars, frameVars
  <2>3. CASE queue[c] = <<>>
    BY <1>10, <2>3 DEF NextFrame, TypeOK, routerVars, readerVars, fixedVars, frameVars
  <2> QED
    BY <2>2, <2>3
<1>11. ASSUME NEW c \in Consumers, Used(c) PROVE TypeOK'
  <2>1. cframe[c] \in Frames /\ Release(cframe[c])
    BY <1>11 DEF Used, TypeOK
  <2>2. /\ ref' \in [Frames -> Int] /\ pooled' \in [Frames -> Nat]
        /\ ftopic' \in [Frames -> Topics \cup {None}]
    BY <2>1, FrameTypes
  <2> QED
    BY <1>11, <2>2 DEF Used, TypeOK, routerVars, readerVars, fixedVars
<1>12. ASSUME NEW c \in Consumers, Close(c) PROVE TypeOK'
  <2>1. /\ ref' \in [Frames -> Int] /\ pooled' \in [Frames -> Nat]
        /\ ftopic' \in [Frames -> Topics \cup {None}]
    BY <1>12 DEF Close, TypeOK
  <2>2. queue' \in [Consumers -> Seq(Frames)] /\ \A d \in Consumers : Len(queue'[d]) <= Cap
    BY <1>12, CapAssumption DEF Close, TypeOK
  <2> QED
    BY <1>12, <2>1, <2>2 DEF Close, TypeOK, routerVars, readerVars, threadVars
<1>13. CASE UNCHANGED vars
  BY <1>13 DEF TypeOK, vars, routerVars, readerVars, fixedVars, threadVars, frameVars
<1> QED
  BY <1>1, <1>2, <1>3, <1>4, <1>5, <1>6, <1>7, <1>8, <1>9, <1>10, <1>11, <1>12, <1>13
  DEF Next, RouteStep

\* The state of pool, router, read loops and consumers is always well-typed,
\* and the queues never exceed their capacity.
THEOREM TypeCorrect == Spec => []TypeOK
  BY TypeInit, TypeStep, PTL DEF Spec

-----------------------------------------------------------------------------
(* Counting owners.                                                        *)

\* RefCountExact for one frame.
Exact(f) == /\ ref[f] = Cardinality(Owners(f))
            /\ pooled[f] = IF Owners(f) = {} THEN 1 ELSE 0

\* The owners of a frame are finitely many, before and after a step.
LEMMA OwnersFinite ==
    ASSUME NEW f
    PROVE  /\ Owners(f) \subseteq Consumers \cup Readers
           /\ IsFiniteSet(Owners(f))
           /\ IsFiniteSet(Owners(f)')
<1>1. IsFiniteSet(Consumers \cup Readers)
  BY ThreadsAssumption, FS_Union
<1>2. Owners(f) \subseteq Consumers \cup Readers /\ Owners(f)' \subseteq Consumers \cup Readers
  BY DEF Owners
<1> QED
  BY <1>1, <1>2, FS_Subset

\* Nothing is counted and every frame keeps its owners, or passes from its only
\* owner to another one.
LEMMA ExactKept ==
    ASSUME RefCountExact, UNCHANGED <<ref, pooled>>,
           \A g \in Frames : \/ Owners(g)' = Owners(g)
                             \/ \E x, y : Owners(g) = {x} /\ Owners(g)' = {y}
    PROVE  RefCountExact'
<1> SUFFICES ASSUME NEW g \in Frames PROVE Exact(g)'
  BY DEF Exact, RefCountExact
<1>1. Exact(g)
  BY DEF Exact, RefCountExact
<1>2. CASE Owners(g)' = Owners(g)
  BY <1>1, <1>2 DEF Exact
<1>3. ASSUME NEW x, NEW y, Owners(g) = {x}, Owners(g)' = {y} PROVE Exact(g)'
  <2>1. Cardinality({x}) = 1 /\ Cardinality({y}) = 1
    BY FS_Singleton
  <2> QED
    BY <1>1, <1>3, <2>1 DEF Exact
<1> QED
  BY <1>2, <1>3

\* One owner leaves one frame, and releases it.
LEMMA ExactReleased ==
    ASSUME TypeOK, RefCountExact, NEW f \in Frames, Release(f), NEW x \in Owners(f),
           Owners(f)' = Owners(f) \ {x},
           \A g \in Frames \ {f} : Owners(g)' = Owners(g)
    PROVE  RefCountExact'
<1>1. \A g \in Frames : Exact(g)
  BY DEF Exact, RefCountExact
<1>2. /\ Cardinality(Owners(f) \ {x}) = Cardinality(Owners(f)) - 1
      /\ Cardinality(Owners(f) \ {x}) = 0 <=> Owners(f) \ {x} = {}
      /\ Cardinality(Owners(f)) \in Nat
  BY OwnersFinite, FS_RemoveElement, FS_EmptySet, FS_CardinalityType
<1>3. ref \in [Frames -> Int] /\ pooled \in [Frames -> Nat]
  BY DEF TypeOK
<1>4. Exact(f)'
  <2>1. pooled[f] = 0 /\ ref[f] = Cardinality(Owners(f))
    BY <1>1 DEF Exact
  <2>2. ref'[f] = ref[f] - 1 /\ pooled'[f] = IF ref[f] - 1 # 0 THEN pooled[f] ELSE pooled[f] + 1
    BY <1>3 DEF Release
  <2> QED
    BY <1>2, <2>1, <2>2 DEF Exact
<1>5. ASSUME NEW g \in Frames \ {f} PROVE Exact(g)'
  <2>1. ref'[g] = ref[g] /\ pooled'[g] = pooled[g]
    BY <1>3 DEF Release
  <2> QED
    BY <1>1, <2>1 DEF Exact
<1> QED
  BY <1>4, <1>5 DEF Exact, RefCountExact

\* A frame from the pool has no owner yet, and gets one.
LEMMA ExactNew ==
    ASSUME TypeOK, RefCountExact, NEW f \in Frames, NEW t, NewFrame(f, t), NEW x,
           Owners(f)' = {x},
           \A g \in Frames \ {f} : Owners(g)' = Owners(g)
    PROVE  RefCountExact' /\ Owners(f) = {}
<1>1. \A g \in Frames : Exact(g)
  BY DEF Exact, RefCountExact
<1>2. ref \in [Frames -> Int] /\ pooled \in [Frames -> Nat]
  BY DEF TypeOK
<1>3. Owners(f) = {} /\ pooled[f] = 1
  BY <1>1, <1>2 DEF Exact, NewFrame
<1>4. Exact(f)'
  <2>1. ref'[f] = 1 /\ pooled'[f] = 0
    BY <1>2, <1>3 DEF NewFrame
  <2>2. Cardinality({x}) = 1
    BY FS_Singleton
  <2> QED
    BY <2>1, <2>2 DEF Exact
<1>5. ASSUME NEW g \in Frames \ {f} PROVE Exact(g)'
  <2>1. ref'[g] = ref[g] /\ pooled'[g] = pooled[g]
    BY <1>2 DEF NewFrame
  <2> QED
    BY <1>1, <2>1 DEF Exact
<1> QED
  BY <1>3, <1>4, <1>5 DEF Exact, RefCountExact

-----------------------------------------------------------------------------
(* The inductive invariant and its preservation, action by action.  Each   *)
(* proof first says how the step changes the four places a frame can be    *)
(* (owed, queued, in use, with a read loop), then who owns what, then      *)
(* concludes.                                                              *)

IInv == TypeOK /\ OwnedOnce /\ RefCountExact

\* What it means to be an owner.
LEMMA OwnersMember ==
    ASSUME NEW f
    PROVE  /\ \A c \in Consumers : c \in Owners(f) <=> OwedTo(c, f) \/ Queued(c, f) \/ InUse(c, f)
           /\ \A r \in Readers : r \in Owners(f) <=> ReaderOwns(r, f)
  BY ThreadsAssumption DEF Owners

\* A read loop that still works on a frame implies an owner of that frame.
LEMMA ActiveOwned ==
    ASSUME TypeOK, NEW r \in Readers, Active(r)
    PROVE  rframe[r] \in Frames /\ Owners(rframe[r]) # {}
<1>1. rframe[r] \in Frames
  BY DEF Active, TypeOK
<1>2. CASE rpc[r] \in {"route", "copy"}
  BY <1>2, <1>1, OwnersMember DEF ReaderOwns
<1>3. CASE rpc[r] = "share" /\ todo[r] # <<>>
  <2>1. todo[r] \in Seq(Consumers)
    BY DEF TypeOK
  <2>2. Head(todo[r]) \in Consumers /\ Head(todo[r]) \in ToSet(todo[r])
    BY <2>1, <1>3 DEF ToSet
  <2>3. OwedTo(Head(todo[r]), rframe[r])
    BY <2>2, <1>3 DEF OwedTo
  <2> QED
    BY <1>1, <2>2, <2>3, OwnersMember
<1> QED
  BY <1>1, <1>2, <1>3 DEF Active

\* A frame in the pool has no owner.
LEMMA PooledUnowned ==
    ASSUME TypeOK, RefCountExact, NEW f \in Frames, pooled[f] > 0
    PROVE  Owners(f) = {}
<1>1. pooled[f] = IF Owners(f) = {} THEN 1 ELSE 0
  BY DEF RefCountExact
<1> QED
  BY <1>1

\* Read: the new frame belongs to the read loop alone.
LEMMA ReadInv ==
    ASSUME IInv, NEW r \in Readers, Read(r)
    PROVE  OwnedOnce' /\ RefCountExact'
<1> USE NoneAssumption DEF IInv
<1>1. PICK f \in Frames, t \in Topics \cup {None} :
         NewFrame(f, t) /\ rframe' = [rframe EXCEPT ![r] = f]
  BY DEF Read
<1>2. Owners(f) = {}
  BY <1>1, PooledUnowned DEF NewFrame
<1>3. /\ rpc[r] = "read" /\ rpc' = [rpc EXCEPT ![r] = "route"] /\ rcopy[r] = None
      /\ UNCHANGED <<topics, rcopy, todo, queue, cframe>>
  BY DEF Read, TypeOK, routerVars, threadVars
<1>4. /\ rpc \in [Readers -> {"read", "route", "share", "copy"}]
      /\ rframe \in [Readers -> Frames \cup {None}]
  BY DEF TypeOK
<1>5. \A c, g : /\ OwedTo(c, g)' <=> OwedTo(c, g)
                /\ Queued(c, g)' <=> Queued(c, g)
                /\ InUse(c, g)' <=> InUse(c, g)
  BY <1>1, <1>3, <1>4 DEF OwedTo, Queued, InUse
<1>6. \A s \in Readers, g \in Frames : ReaderOwns(s, g)' <=> ReaderOwns(s, g) \/ (s = r /\ g = f)
  BY <1>1, <1>3, <1>4 DEF ReaderOwns
<1>7. Owners(f)' = {r} /\ \A g \in Frames \ {f} : Owners(g)' = Owners(g)
  BY <1>2, <1>5, <1>6 DEF Owners
<1>8. RefCountExact'
  BY <1>1, <1>7, ExactNew
<1>9. OwnedOnce'
  <2>1. \A s \in Readers \ {r} : (Active(s)' <=> Active(s)) /\ rframe'[s] = rframe[s]
    BY <1>1, <1>3, <1>4 DEF Active
  <2>2. \A s \in Readers : Active(s) => rframe[s] # f
    BY <1>2, ActiveOwned
  <2>3. \A s, q \in Readers : s # q /\ Active(s)' /\ Active(q)' => rframe'[s] # rframe'[q]
    BY <1>1, <1>4, <2>1, <2>2 DEF OwnedOnce
  <2>4. \A s \in Readers : rcopy'[s] # None => rcopy'[s] # rframe'[s]
    <3>1. ASSUME NEW s \in Readers, s # r, rcopy[s] # None PROVE rcopy[s] # rframe'[s]
      BY <1>1, <1>4, <3>1 DEF OwnedOnce
    <3> QED
      BY <1>3, <3>1
  <2>5. \A s \in Readers, g \in Frames : ReaderOwns(s, g)' => Owners(g)' = {s}
    <3>1. \A s \in Readers : ~ReaderOwns(s, f)
      BY <1>2, OwnersMember
    <3> QED
      BY <1>6, <1>7, <3>1 DEF OwnedOnce
  <2> QED
    BY <1>3, <1>5, <2>3, <2>4, <2>5 DEF OwnedOnce
<1> QED
  BY <1>8, <1>9

\* Discard, and RouteReturn after copies: the read loop gives up its frame.
LEMMA ReaderReleasesInv ==
    ASSUME IInv, NEW r \in Readers, rpc[r] \in {"route", "copy"}, rcopy[r] = None,
           Release(rframe[r]),
           rpc' = [rpc EXCEPT ![r] = "read"], rframe' = [rframe EXCEPT ![r] = None],
           UNCHANGED <<topics, rcopy, todo, queue, cframe>>
    PROVE  OwnedOnce' /\ RefCountExact'
<1> USE NoneAssumption DEF IInv
<1>0. PICK f \in Frames : f = rframe[r]
  BY DEF TypeOK
<1>1. /\ rpc \in [Readers -> {"read", "route", "share", "copy"}]
      /\ rframe \in [Readers -> Frames \cup {None}]
  BY DEF TypeOK
<1>2. ReaderOwns(r, f) /\ Owners(f) = {r}
  BY <1>0, <1>1 DEF ReaderOwns, OwnedOnce
<1>3. \A c, g : /\ OwedTo(c, g)' <=> OwedTo(c, g)
                /\ Queued(c, g)' <=> Queued(c, g)
                /\ InUse(c, g)' <=> InUse(c, g)
  BY <1>1 DEF OwedTo, Queued, InUse
<1>4. \A s \in Readers, g \in Frames : ReaderOwns(s, g)' <=> ReaderOwns(s, g) /\ s # r
  BY <1>1 DEF ReaderOwns
<1>5. \A g \in Frames \ {f} : ~ReaderOwns(r, g)
  BY <1>0, <1>1 DEF ReaderOwns
<1>6. Owners(f)' = Owners(f) \ {r} /\ \A g \in Frames \ {f} : Owners(g)' = Owners(g)
  <2>1. Owners(f)' = Owners(f) \ {r}
    <3>1. \A c \in Consumers : ~OwedTo(c, f) /\ ~Queued(c, f) /\ ~InUse(c, f)
      BY <1>2, OwnersMember, ThreadsAssumption
    <3>2. \A s \in Readers : ~ReaderOwns(s, f)'
      BY <1>1, <1>2, <1>4, OwnersMember
    <3>3. Owners(f)' = {}
      BY <1>3, <3>1, <3>2 DEF Owners
    <3> QED
      BY <1>2, <3>3
  <2>2. ASSUME NEW g \in Frames \ {f} PROVE Owners(g)' = Owners(g)
    BY <1>3, <1>4, <1>5 DEF Owners
  <2> QED
    BY <2>1, <2>2
<1>7. RefCountExact'
  <2>1. Release(f) /\ r \in Owners(f)
    BY <1>0, <1>2
  <2> QED
    BY <1>6, <2>1, ExactReleased
<1>8. OwnedOnce'
  <2>1. ~Active(r)' /\ \A s \in Readers \ {r} : (Active(s)' <=> Active(s)) /\ rframe'[s] = rframe[s]
    BY <1>1 DEF Active
  <2>2. \A s, q \in Readers : s # q /\ Active(s)' /\ Active(q)' => rframe'[s] # rframe'[q]
    BY <2>1 DEF OwnedOnce
  <2>3. \A s \in Readers : rcopy'[s] # None => rcopy'[s] # rframe'[s]
    BY <2>1 DEF OwnedOnce
  <2>4. \A s \in Readers, g \in Frames : ReaderOwns(s, g)' => Owners(g)' = {s}
    BY <1>2, <1>4, <1>6 DEF OwnedOnce
  <2> QED
    BY <1>3, <2>2, <2>3, <2>4 DEF OwnedOnce
<1> QED
  BY <1>7, <1>8

\* RouteReturn after sharing: nobody is owed anything any more.
LEMMA ShareReturnInv ==
    ASSUME IInv, NEW r \in Readers, rpc[r] = "share", todo[r] = <<>>,
           rpc' = [rpc EXCEPT ![r] = "read"], rframe' = [rframe EXCEPT ![r] = None],
           UNCHANGED <<topics, rcopy, todo, queue, cframe, ref, pooled>>
    PROVE  OwnedOnce' /\ RefCountExact'
<1> USE NoneAssumption DEF IInv
<1>1. /\ rpc \in [Readers -> {"read", "route", "share", "copy"}]
      /\ rframe \in [Readers -> Frames \cup {None}]
      /\ rcopy[r] = None
  BY DEF TypeOK
<1>2. ToSet(todo[r]) = {}
  BY DEF ToSet
<1>3. \A c, g : /\ OwedTo(c, g)' <=> OwedTo(c, g)
                /\ Queued(c, g)' <=> Queued(c, g)
                /\ InUse(c, g)' <=> InUse(c, g)
  BY <1>1, <1>2 DEF OwedTo, Queued, InUse
<1>4. \A s \in Readers, g \in Frames : ReaderOwns(s, g)' <=> ReaderOwns(s, g)
  BY <1>1 DEF ReaderOwns
<1>5. \A g \in Frames : Owners(g)' = Owners(g)
  BY <1>3, <1>4 DEF Owners
<1>6. RefCountExact'
  BY <1>5, ExactKept
<1>7. OwnedOnce'
  <2>1. ~Active(r)' /\ \A s \in Readers \ {r} : (Active(s)' <=> Active(s)) /\ rframe'[s] = rframe[s]
    BY <1>1 DEF Active
  <2>2. \A s, q \in Readers : s # q /\ Active(s)' /\ Active(q)' => rframe'[s] # rframe'[q]
    BY <2>1 DEF OwnedOnce
  <2>3. \A s \in Readers : rcopy'[s] # None => rcopy'[s] # rframe'[s]
    BY <1>1, <2>1 DEF OwnedOnce
  <2> QED
    BY <1>3, <1>4, <1>5, <2>2, <2>3 DEF OwnedOnce
<1> QED
  BY <1>6, <1>7

\* Discard and RouteReturn are instances of the two lemmas above.
LEMMA DiscardInv ==
    ASSUME IInv, NEW r \in Readers, Discard(r) \/ RouteReturn(r)
    PROVE  OwnedOnce' /\ RefCountExact'
<1>1. CASE Discard(r)
  <2>1. rcopy[r] = None
    BY <1>1 DEF IInv, TypeOK, Discard
  <2> QED
    BY <1>1, <2>1, ReaderReleasesInv DEF Discard, routerVars, threadVars
<1>2. CASE RouteReturn(r) /\ rpc[r] = "copy"
  <2>1. rcopy[r] = None /\ Release(rframe[r])
    BY <1>2 DEF IInv, TypeOK, RouteReturn
  <2> QED
    BY <1>2, <2>1, ReaderReleasesInv DEF RouteReturn, routerVars, threadVars
<1>3. CASE RouteReturn(r) /\ rpc[r] = "share"
  BY <1>3, ShareReturnInv DEF RouteReturn, routerVars, threadVars, frameVars
<1> QED
  BY <1>1, <1>2, <1>3 DEF RouteReturn

\* Route: the frame of the read loop becomes owed to the consumers of its
\* topic, one reference each; before copying it stays with the read loop.
LEMMA RouteInv ==
    ASSUME IInv, NEW r \in Readers, Route(r)
    PROVE  OwnedOnce' /\ RefCountExact'
<1> USE NoneAssumption DEF IInv
<1>0. PICK f \in Frames : f = rframe[r]
  BY DEF TypeOK, Route
<1>1. /\ rpc \in [Readers -> {"read", "route", "share", "copy"}]
      /\ todo \in [Readers -> Seq(Consumers)]
      /\ rpc[r] = "route" /\ rcopy[r] = None
      /\ UNCHANGED <<topics, rframe, rcopy, queue, cframe, pooled>>
  BY DEF TypeOK, Route, routerVars, threadVars
<1>2. ReaderOwns(r, f) /\ Owners(f) = {r}
  BY <1>0, <1>1 DEF ReaderOwns, OwnedOnce
<1>3. PICK list \in Seq(Consumers) : /\ list = topics[ftopic[f]] /\ list # <<>> /\ Distinct(list)
                                     /\ todo' = [todo EXCEPT ![r] = list]
  <2>1. ftopic[f] \in Topics
    BY <1>0 DEF Route, TypeOK
  <2> QED
    BY <2>1, <1>0 DEF Route, TypeOK, OwnedOnce
<1>4. \A s \in Readers : Distinct(todo'[s])
  BY <1>1, <1>3 DEF OwnedOnce
<1>5. \A c, g : (Queued(c, g)' <=> Queued(c, g)) /\ (InUse(c, g)' <=> InUse(c, g))
  BY <1>1 DEF Queued, InUse
<1>6. CASE ref' = [ref EXCEPT ![f] = Len(list)] /\ rpc' = [rpc EXCEPT ![r] = "share"]
  <2>1. \A c, g : OwedTo(c, g)' <=> OwedTo(c, g) \/ (g = f /\ c \in ToSet(list))
    BY <1>0, <1>1, <1>3, <1>6 DEF OwedTo
  <2>2. \A s \in Readers, g \in Frames : ReaderOwns(s, g)' <=> ReaderOwns(s, g) /\ s # r
    BY <1>1, <1>6 DEF ReaderOwns
  <2>3. \A g \in Frames \ {f} : ~ReaderOwns(r, g)
    BY <1>0, <1>1 DEF ReaderOwns
  <2>4. /\ \A c \in Consumers : ~OwedTo(c, f) /\ ~Queued(c, f) /\ ~InUse(c, f)
        /\ \A s \in Readers : ~ReaderOwns(s, f)'
    BY <1>2, <2>2, OwnersMember, ThreadsAssumption
  <2>5. Owners(f)' = ToSet(list)
    <3>1. ToSet(list) \subseteq Consumers
      BY DEF ToSet
    <3> QED
      BY <1>5, <2>1, <2>4, <3>1 DEF Owners
  <2>6. ASSUME NEW g \in Frames \ {f} PROVE Owners(g)' = Owners(g)
    BY <1>5, <2>1, <2>2, <2>3 DEF Owners
  <2>7. RefCountExact'
    <3>1. \A g \in Frames : Exact(g)
      BY DEF Exact, RefCountExact
    <3>2. Cardinality(ToSet(list)) = Len(list) /\ ToSet(list) # {}
      <4>1. list[1] \in ToSet(list)
        BY <1>3 DEF ToSet
      <4> QED
        BY <1>3, <4>1, DistinctLen
    <3>3. pooled[f] = 0
      BY <1>2, <3>1 DEF Exact
    <3>4. ref'[f] = Len(list) /\ \A g \in Frames \ {f} : ref'[g] = ref[g]
      BY <1>6 DEF TypeOK
    <3>5. Exact(f)'
      BY <1>1, <2>5, <3>2, <3>3, <3>4 DEF Exact
    <3>6. ASSUME NEW g \in Frames \ {f} PROVE Exact(g)'
      BY <1>1, <2>6, <3>1, <3>4 DEF Exact
    <3> QED
      BY <3>5, <3>6 DEF Exact, RefCountExact
  <2>8. OwnedOnce'
    <3>1. \A s \in Readers : Active(s)' => Active(s)
      BY <1>1, <1>3, <1>6 DEF Active
    <3>2. \A s, q \in Readers : s # q /\ Active(s)' /\ Active(q)' => rframe'[s] # rframe'[q]
      BY <1>1, <3>1 DEF OwnedOnce
    <3>3. \A s \in Readers, g \in Frames : ReaderOwns(s, g)' => Owners(g)' = {s}
      BY <2>2, <2>4, <2>6 DEF OwnedOnce
    <3>4. \A c \in Consumers, g \in Frames : /\ ~(OwedTo(c, g)' /\ Queued(c, g)')
                                             /\ ~(OwedTo(c, g)' /\ InUse(c, g)')
                                             /\ ~(Queued(c, g)' /\ InUse(c, g)')
      BY <1>5, <2>1, <2>4 DEF OwnedOnce
    <3> QED
      BY <1>1, <1>4, <3>2, <3>3, <3>4 DEF OwnedOnce
  <2> QED
    BY <2>7, <2>8
<1>7. CASE ref' = ref /\ rpc' = [rpc EXCEPT ![r] = "copy"]
  <2>1. \A c, g : OwedTo(c, g)' <=> OwedTo(c, g)
    BY <1>1, <1>3, <1>7 DEF OwedTo
  <2>2. \A s \in Readers, g \in Frames : ReaderOwns(s, g)' <=> ReaderOwns(s, g)
    BY <1>1, <1>7 DEF ReaderOwns
  <2>3. \A g \in Frames : Owners(g)' = Owners(g)
    BY <1>5, <2>1, <2>2 DEF Owners
  <2>4. RefCountExact'
    BY <1>1, <1>7, <2>3, ExactKept
  <2>5. OwnedOnce'
    <3>1. \A s \in Readers : Active(s)' => Active(s)
      BY <1>1, <1>3, <1>7 DEF Active
    <3>2. \A s, q \in Readers : s # q /\ Active(s)' /\ Active(q)' => rframe'[s] # rframe'[q]
      BY <1>1, <3>1 DEF OwnedOnce
    <3> QED
      BY <1>1, <1>4, <1>5, <2>1, <2>2, <2>3, <3>2 DEF OwnedOnce
  <2> QED
    BY <2>4, <2>5
<1> QED
  BY <1>0, <1>3, <1>6, <1>7 DEF Route, SharedRef

\* CopyFrame: the copy belongs to the read loop alone.
LEMMA CopyFrameInv ==
    ASSUME IInv, NEW r \in Readers, CopyFrame(r)
    PROVE  OwnedOnce' /\ RefCountExact'
<1> USE NoneAssumption DEF IInv
<1>1. PICK f \in Frames : /\ NewFrame(f, ftopic[rframe[r]])
                          /\ rcopy' = [rcopy EXCEPT ![r] = f]
  BY DEF CopyFrame
<1>2. Owners(f) = {}
  BY <1>1, PooledUnowned DEF NewFrame
<1>3. /\ rpc[r] = "copy" /\ rcopy[r] = None /\ rcopy \in [Readers -> Frames \cup {None}]
      /\ rframe[r] \in Frames
      /\ UNCHANGED <<topics, rpc, rframe, todo, queue, cframe>>
  BY DEF CopyFrame, TypeOK, routerVars, threadVars
<1>4. \A c, g : /\ OwedTo(c, g)' <=> OwedTo(c, g)
                /\ Queued(c, g)' <=> Queued(c, g)
                /\ InUse(c, g)' <=> InUse(c, g)
  BY <1>3 DEF OwedTo, Queued, InUse
<1>5. \A s \in Readers, g \in Frames : ReaderOwns(s, g)' <=> ReaderOwns(s, g) \/ (s = r /\ g = f)
  BY <1>1, <1>3 DEF ReaderOwns
<1>6. Owners(f)' = {r} /\ \A g \in Frames \ {f} : Owners(g)' = Owners(g)
  BY <1>2, <1>4, <1>5 DEF Owners
<1>7. RefCountExact'
  BY <1>1, <1>6, ExactNew
<1>8. OwnedOnce'
  <2>1. \A s \in Readers : ~ReaderOwns(s, f)
    BY <1>2, OwnersMember
  <2>2. rframe[r] # f
    BY <1>3, <2>1 DEF ReaderOwns
  <2>3. \A s \in Readers : Active(s)' <=> Active(s)
    BY <1>3 DEF Active
  <2>4. \A s \in Readers : rcopy'[s] # None => rcopy'[s] # rframe'[s]
    BY <1>1, <1>3, <2>2 DEF OwnedOnce
  <2>5. \A s \in Readers, g \in Frames : ReaderOwns(s, g)' => Owners(g)' = {s}
    BY <1>5, <1>6, <2>1 DEF OwnedOnce
  <2> QED
    BY <1>3, <1>4, <2>3, <2>4, <2>5 DEF OwnedOnce
<1> QED
  BY <1>7, <1>8

\* What Enqueue does to the queues: the frame is added, or takes the place of
\* the oldest one, or is refused.
LEMMA EnqueuePlaces ==
    ASSUME TypeOK, NEW c \in Consumers, NEW f \in Frames, Enqueue(c, f),
           \A d \in Consumers : Distinct(queue[d]), ~Queued(c, f)
    PROVE  /\ \A d \in Consumers : Distinct(queue'[d])
           /\ \/ /\ UNCHANGED frameVars
                 /\ \A d \in Consumers, g \in Frames :
                       Queued(d, g)' <=> Queued(d, g) \/ (d = c /\ g = f)
              \/ \E h \in Frames :
                    /\ h # f /\ Queued(c, h) /\ Release(h)
                    /\ \A d \in Consumers, g \in Frames :
                          Queued(d, g)' <=> (Queued(d, g) /\ ~(d = c /\ g = h)) \/ (d = c /\ g = f)
              \/ /\ Release(f)
                 /\ \A d \in Consumers, g \in Frames : Queued(d, g)' <=> Queued(d, g)
<1>0. /\ queue \in [Consumers -> Seq(Frames)] /\ Cap > 0 /\ Cap \in Nat
      /\ f \notin ToSet(queue[c]) /\ queue[c] \in Seq(Frames)
  BY CapAssumption DEF TypeOK, Queued
<1>1. CASE Insert(c, f)
  <2>1. queue' = [queue EXCEPT ![c] = Append(queue[c], f)] /\ UNCHANGED frameVars
    BY <1>1 DEF Insert
  <2>2. /\ ToSet(Append(queue[c], f)) = ToSet(queue[c]) \cup {f}
        /\ Distinct(Append(queue[c], f))
    BY <1>0, AppendDistinct
  <2>3. \A d \in Consumers : queue'[d] = IF d = c THEN Append(queue[c], f) ELSE queue[d]
    BY <1>0, <2>1
  <2> QED
    BY <2>1, <2>2, <2>3 DEF Queued
<1>2. CASE DropOldest(c, f)
  <2>1. /\ queue' = [queue EXCEPT ![c] = Append(Tail(queue[c]), f)]
        /\ Release(Head(queue[c]))
        /\ Len(queue[c]) >= Cap
    BY <1>2 DEF DropOldest, Full
  <2>2. queue[c] # <<>>
    BY <1>0, <2>1
  <2>3. PICK h \in Frames : h = Head(queue[c])
    BY <1>0, <2>2
  <2>4. /\ h \in ToSet(queue[c]) /\ Tail(queue[c]) \in Seq(Frames) /\ Distinct(Tail(queue[c]))
        /\ ToSet(Tail(queue[c])) = ToSet(queue[c]) \ {h}
    BY <1>0, <2>2, <2>3, TailDistinct
  <2>5. /\ ToSet(Append(Tail(queue[c]), f)) = (ToSet(queue[c]) \ {h}) \cup {f}
        /\ Distinct(Append(Tail(queue[c]), f))
    <3>1. f \notin ToSet(Tail(queue[c]))
      BY <1>0, <2>4
    <3>2. PICK q \in Seq(Frames) : q = Tail(queue[c])
      BY <2>4
    <3>3. ToSet(Append(q, f)) = ToSet(q) \cup {f} /\ Distinct(Append(q, f))
      <4>1. f \notin ToSet(q) /\ Distinct(q)
        BY <2>4, <3>1, <3>2
      <4> QED
        BY <4>1, AppendDistinct
    <3> QED
      BY <2>4, <3>2, <3>3
  <2>6. \A d \in Consumers : queue'[d] = IF d = c THEN Append(Tail(queue[c]), f) ELSE queue[d]
    BY <1>0, <2>1
  <2>7. h # f /\ Queued(c, h) /\ Release(h)
    BY <1>0, <2>1, <2>3, <2>4 DEF Queued
  <2>8. \A d \in Consumers, g \in Frames :
           Queued(d, g)' <=> (Queued(d, g) /\ ~(d = c /\ g = h)) \/ (d = c /\ g = f)
    BY <2>5, <2>6 DEF Queued
  <2>9. \A d \in Consumers : Distinct(queue'[d])
    BY <2>5, <2>6
  <2> QED
    BY <2>7, <2>8, <2>9
<1>3. CASE Refuse(c, f)
  BY <1>3 DEF Refuse, Queued
<1> QED
  BY <1>1, <1>2, <1>3 DEF Enqueue

\* A turn of routeShared's loop: what was owed to the consumer is queued, or
\* released.
LEMMA ShareStepInv ==
    ASSUME IInv, NEW r \in Readers, ShareStep(r)
    PROVE  OwnedOnce' /\ RefCountExact'
<1> USE NoneAssumption DEF IInv
<1>0. PICK f \in Frames : f = rframe[r]
  BY DEF TypeOK, ShareStep
<1>1. /\ rpc[r] = "share" /\ todo[r] \in Seq(Consumers) /\ todo[r] # <<>> /\ Distinct(todo[r])
      /\ todo \in [Readers -> Seq(Consumers)]
      /\ todo' = [todo EXCEPT ![r] = Tail(todo[r])]
      /\ UNCHANGED <<topics, rpc, rframe, rcopy, cframe>>
  BY DEF TypeOK, OwnedOnce, ShareStep, routerVars, threadVars
<1>2. PICK c \in Consumers : c = Head(todo[r])
  BY <1>1
<1>3. /\ c \in ToSet(todo[r]) /\ Distinct(Tail(todo[r]))
      /\ ToSet(Tail(todo[r])) = ToSet(todo[r]) \ {c}
  BY <1>1, <1>2, TailDistinct
<1>4. OwedTo(c, f) /\ ~Queued(c, f) /\ ~InUse(c, f)
  <2>1. OwedTo(c, f)
    BY <1>0, <1>1, <1>3 DEF OwedTo
  <2> QED
    BY <2>1 DEF OwnedOnce
<1>5. \A d \in Consumers, g \in Frames : OwedTo(d, g)' <=> OwedTo(d, g) /\ ~(d = c /\ g = f)
  <2>1. ASSUME NEW s \in Readers \ {r}, rpc[s] = "share", rframe[s] = f PROVE ToSet(todo[s]) = {}
    <3>1. Active(r) /\ ~Active(s)
      BY <1>0, <1>1, <2>1 DEF Active, OwnedOnce
    <3>2. todo[s] = <<>>
      BY <2>1, <3>1 DEF Active
    <3> QED
      BY <3>2 DEF ToSet
  <2>2. \A s \in Readers : todo'[s] = IF s = r THEN Tail(todo[r]) ELSE todo[s]
    BY <1>1
  <2>3. ASSUME NEW d \in Consumers, NEW g \in Frames, OwedTo(d, g)'
        PROVE  OwedTo(d, g) /\ ~(d = c /\ g = f)
    BY <1>0, <1>1, <1>3, <2>1, <2>2, <2>3 DEF OwedTo
  <2>4. ASSUME NEW d \in Consumers, NEW g \in Frames, OwedTo(d, g), ~(d = c /\ g = f)
        PROVE  OwedTo(d, g)'
    BY <1>0, <1>1, <1>3, <2>2, <2>4 DEF OwedTo
  <2> QED
    BY <2>3, <2>4
<1>6. \A d, g : InUse(d, g)' <=> InUse(d, g)
  BY <1>1 DEF InUse
<1>7. \A s \in Readers, g \in Frames : ReaderOwns(s, g)' <=> ReaderOwns(s, g)
  BY <1>1 DEF ReaderOwns
<1>8. Enqueue(c, f)
  BY <1>0, <1>2 DEF ShareStep
<1>9. \A d \in Consumers : Distinct(queue[d])
  BY DEF OwnedOnce
<1>10. \A d \in Consumers : Distinct(queue'[d])
  BY <1>4, <1>8, <1>9, EnqueuePlaces
<1>11. \A s \in Readers : Distinct(todo'[s])
  BY <1>1, <1>3 DEF OwnedOnce
<1>12. \A s, q \in Readers : s # q /\ Active(s)' /\ Active(q)' => rframe'[s] # rframe'[q]
  <2>1. \A s \in Readers : Active(s)' => Active(s)
    BY <1>1 DEF Active
  <2> QED
    BY <1>1, <2>1 DEF OwnedOnce
<1>13. ASSUME UNCHANGED frameVars,
              \A d \in Consumers, g \in Frames :
                 Queued(d, g)' <=> Queued(d, g) \/ (d = c /\ g = f)
       PROVE  OwnedOnce' /\ RefCountExact'
  <2>1. \A g \in Frames : Owners(g)' = Owners(g)
    BY <1>4, <1>5, <1>6, <1>7, <1>13 DEF Owners
  <2>2. RefCountExact'
    BY <1>13, <2>1, ExactKept DEF frameVars
  <2>3. \A d \in Consumers, g \in Frames : /\ ~(OwedTo(d, g)' /\ Queued(d, g)')
                                           /\ ~(OwedTo(d, g)' /\ InUse(d, g)')
                                           /\ ~(Queued(d, g)' /\ InUse(d, g)')
    BY <1>4, <1>5, <1>6, <1>13 DEF OwnedOnce
  <2> QED
    BY <1>1, <1>7, <1>10, <1>11, <1>12, <2>1, <2>2, <2>3 DEF OwnedOnce
<1>14. ASSUME NEW h \in Frames, h # f, Queued(c, h), Release(h),
              \A d \in Consumers, g \in Frames :
                 Queued(d, g)' <=> (Queued(d, g) /\ ~(d = c /\ g = h)) \/ (d = c /\ g = f)
       PROVE  OwnedOnce' /\ RefCountExact'
  <2>1. ~OwedTo(c, h) /\ ~InUse(c, h) /\ c \in Owners(h)
    BY <1>14, OwnersMember DEF OwnedOnce
  <2>2. Owners(h)' = Owners(h) \ {c}
    BY <1>5, <1>6, <1>7, <1>14, <2>1, ThreadsAssumption DEF Owners
  <2>3. \A g \in Frames \ {h} : Owners(g)' = Owners(g)
    BY <1>4, <1>5, <1>6, <1>7, <1>14 DEF Owners
  <2>4. RefCountExact'
    BY <1>14, <2>1, <2>2, <2>3, ExactReleased
  <2>5. \A d \in Consumers, g \in Frames : /\ ~(OwedTo(d, g)' /\ Queued(d, g)')
                                           /\ ~(OwedTo(d, g)' /\ InUse(d, g)')
                                           /\ ~(Queued(d, g)' /\ InUse(d, g)')
    BY <1>4, <1>5, <1>6, <1>14 DEF OwnedOnce
  <2>6. \A s \in Readers, g \in Frames : ReaderOwns(s, g)' => Owners(g)' = {s}
    BY <1>7, <2>1, <2>3, ThreadsAssumption DEF OwnedOnce
  <2> QED
    BY <1>1, <1>10, <1>11, <1>12, <2>4, <2>5, <2>6 DEF OwnedOnce
<1>15. ASSUME Release(f), \A d \in Consumers, g \in Frames : Queued(d, g)' <=> Queued(d, g)
       PROVE  OwnedOnce' /\ RefCountExact'
  <2>1. c \in Owners(f)
    BY <1>4, OwnersMember
  <2>2. Owners(f)' = Owners(f) \ {c}
    BY <1>4, <1>5, <1>6, <1>7, <1>15, ThreadsAssumption DEF Owners
  <2>3. \A g \in Frames \ {f} : Owners(g)' = Owners(g)
    BY <1>5, <1>6, <1>7, <1>15 DEF Owners
  <2>4. RefCountExact'
    BY <1>15, <2>1, <2>2, <2>3, ExactReleased
  <2>5. \A s \in Readers, g \in Frames : ReaderOwns(s, g)' => Owners(g)' = {s}
    BY <1>7, <2>1, <2>3, ThreadsAssumption DEF OwnedOnce
  <2>6. \A d \in Consumers, g \in Frames : /\ ~(OwedTo(d, g)' /\ Queued(d, g)')
                                           /\ ~(OwedTo(d, g)' /\ InUse(d, g)')
                                           /\ ~(Queued(d, g)' /\ InUse(d, g)')
    BY <1>5, <1>6, <1>15 DEF OwnedOnce
  <2> QED
    BY <1>1, <1>10, <1>11, <1>12, <2>4, <2>5, <2>6 DEF OwnedOnce
<1> QED
  BY <1>4, <1>8, <1>9, <1>13, <1>14, <1>15, EnqueuePlaces

\* A turn of routeCopy's loop: the copy passes from the read loop to the
\* consumer, or is released.
LEMMA CopyStepInv ==
    ASSUME IInv, NEW r \in Readers, CopyStep(r)
    PROVE  OwnedOnce' /\ RefCountExact'
<1> USE NoneAssumption DEF IInv
<1>0. PICK f \in Frames : f = rcopy[r]
  BY DEF TypeOK, CopyStep
<1>1. /\ rpc[r] = "copy" /\ todo[r] \in Seq(Consumers) /\ todo[r] # <<>> /\ Distinct(todo[r])
      /\ todo \in [Readers -> Seq(Consumers)] /\ rcopy \in [Readers -> Frames \cup {None}]
      /\ rframe[r] # f
      /\ todo' = [todo EXCEPT ![r] = Tail(todo[r])]
      /\ rcopy' = [rcopy EXCEPT ![r] = None]
      /\ UNCHANGED <<topics, rpc, rframe, cframe>>
  BY <1>0 DEF TypeOK, OwnedOnce, CopyStep, routerVars, threadVars
<1>2. PICK c \in Consumers : c = Head(todo[r])
  BY <1>1
<1>3. Distinct(Tail(todo[r]))
  BY <1>1, TailDistinct
<1>4. ReaderOwns(r, f) /\ Owners(f) = {r}
  BY <1>0 DEF ReaderOwns, OwnedOnce
<1>5. /\ \A d \in Consumers : ~OwedTo(d, f) /\ ~Queued(d, f) /\ ~InUse(d, f)
      /\ \A s \in Readers : ReaderOwns(s, f) => s = r
  BY <1>4, OwnersMember, ThreadsAssumption
<1>6. \A d, g : (OwedTo(d, g)' <=> OwedTo(d, g)) /\ (InUse(d, g)' <=> InUse(d, g))
  BY <1>1 DEF OwedTo, InUse
<1>7. \A s \in Readers, g \in Frames : ReaderOwns(s, g)' <=> ReaderOwns(s, g) /\ ~(s = r /\ g = f)
  BY <1>0, <1>1 DEF ReaderOwns
<1>8. Enqueue(c, f)
  BY <1>0, <1>2 DEF CopyStep
<1>9. \A d \in Consumers : Distinct(queue[d])
  BY DEF OwnedOnce
<1>10. \A d \in Consumers : Distinct(queue'[d])
  BY <1>5, <1>8, <1>9, EnqueuePlaces
<1>11. /\ \A s \in Readers : Distinct(todo'[s])
       /\ \A s \in Readers : rcopy'[s] # None => rcopy'[s] # rframe'[s]
  BY <1>1, <1>3 DEF OwnedOnce
<1>12. \A s, q \in Readers : s # q /\ Active(s)' /\ Active(q)' => rframe'[s] # rframe'[q]
  <2>1. \A s \in Readers : Active(s)' => Active(s)
    BY <1>1 DEF Active
  <2> QED
    BY <1>1, <2>1 DEF OwnedOnce
<1>13. \A s \in Readers, g \in Frames : ReaderOwns(s, g)' => g # f /\ Owners(g) = {s}
  BY <1>5, <1>7 DEF OwnedOnce
<1>14. ASSUME UNCHANGED frameVars,
              \A d \in Consumers, g \in Frames :
                 Queued(d, g)' <=> Queued(d, g) \/ (d = c /\ g = f)
       PROVE  OwnedOnce' /\ RefCountExact'
  <2>1. Owners(f)' = {c}
    BY <1>5, <1>6, <1>7, <1>14 DEF Owners
  <2>2. \A g \in Frames \ {f} : Owners(g)' = Owners(g)
    BY <1>6, <1>7, <1>14 DEF Owners
  <2>3. RefCountExact'
    BY <1>4, <1>14, <2>1, <2>2, ExactKept DEF frameVars
  <2>4. \A d \in Consumers, g \in Frames : /\ ~(OwedTo(d, g)' /\ Queued(d, g)')
                                           /\ ~(OwedTo(d, g)' /\ InUse(d, g)')
                                           /\ ~(Queued(d, g)' /\ InUse(d, g)')
    BY <1>5, <1>6, <1>14 DEF OwnedOnce
  <2>5. \A s \in Readers, g \in Frames : ReaderOwns(s, g)' => Owners(g)' = {s}
    BY <1>13, <2>2
  <2> QED
    BY <1>1, <1>10, <1>11, <1>12, <2>3, <2>4, <2>5 DEF OwnedOnce
<1>15. ASSUME NEW h \in Frames, h # f, Queued(c, h), Release(h),
              \A d \in Consumers, g \in Frames :
                 Queued(d, g)' <=> (Queued(d, g) /\ ~(d = c /\ g = h)) \/ (d = c /\ g = f)
       PROVE  OwnedOnce' /\ RefCountExact'
  <2>1. ~OwedTo(c, h) /\ ~InUse(c, h) /\ c \in Owners(h)
    BY <1>15, OwnersMember DEF OwnedOnce
  <2>2. Owners(h)' = Owners(h) \ {c}
    BY <1>6, <1>7, <1>15, <2>1, ThreadsAssumption DEF Owners
  <2>3. Owners(f)' = {c}
    BY <1>5, <1>6, <1>7, <1>15 DEF Owners
  <2>4. \A g \in Frames \ {h, f} : Owners(g)' = Owners(g)
    BY <1>6, <1>7, <1>15 DEF Owners
  <2>5. RefCountExact'
    <3>1. \A g \in Frames : Exact(g)
      BY DEF Exact, RefCountExact
    <3>2. /\ Cardinality(Owners(h) \ {c}) = Cardinality(Owners(h)) - 1
          /\ Cardinality(Owners(h) \ {c}) = 0 <=> Owners(h) \ {c} = {}
          /\ Cardinality({r}) = 1 /\ Cardinality({c}) = 1
      BY <2>1, OwnersFinite, FS_RemoveElement, FS_EmptySet, FS_Singleton
    <3>3. /\ ref'[h] = ref[h] - 1
          /\ pooled'[h] = IF ref[h] - 1 # 0 THEN pooled[h] ELSE pooled[h] + 1
          /\ \A g \in Frames \ {h} : ref'[g] = ref[g] /\ pooled'[g] = pooled[g]
      BY <1>15 DEF Release, TypeOK
    <3>4. Exact(h)'
      <4>1. pooled[h] = 0 /\ ref[h] = Cardinality(Owners(h))
        BY <2>1, <3>1 DEF Exact
      <4> QED
        BY <2>2, <3>2, <3>3, <4>1 DEF Exact
    <3>5. Exact(f)'
      <4>1. ref[f] = 1 /\ pooled[f] = 0
        BY <1>4, <3>1, <3>2 DEF Exact
      <4> QED
        BY <1>15, <2>3, <3>2, <3>3, <4>1 DEF Exact
    <3>6. ASSUME NEW g \in Frames \ {h, f} PROVE Exact(g)'
      BY <2>4, <3>1, <3>3 DEF Exact
    <3> QED
      BY <3>4, <3>5, <3>6 DEF Exact, RefCountExact
  <2>6. \A d \in Consumers, g \in Frames : /\ ~(OwedTo(d, g)' /\ Queued(d, g)')
                                           /\ ~(OwedTo(d, g)' /\ InUse(d, g)')
                                           /\ ~(Queued(d, g)' /\ InUse(d, g)')
    BY <1>5, <1>6, <1>15 DEF OwnedOnce
  <2>7. \A s \in Readers, g \in Frames : ReaderOwns(s, g)' => Owners(g)' = {s}
    BY <1>13, <2>1, <2>4, ThreadsAssumption
  <2> QED
    BY <1>1, <1>10, <1>11, <1>12, <2>5, <2>6, <2>7 DEF OwnedOnce
<1>16. ASSUME Release(f), \A d \in Consumers, g \in Frames : Queued(d, g)' <=> Queued(d, g)
       PROVE  OwnedOnce' /\ RefCountExact'
  <2>1. Owners(f)' = {}
    BY <1>5, <1>6, <1>7, <1>16 DEF Owners
  <2>2. \A g \in Frames \ {f} : Owners(g)' = Owners(g)
    BY <1>6, <1>7, <1>16 DEF Owners
  <2>3. RefCountExact'
    <3>1. r \in Owners(f) /\ Owners(f)' = Owners(f) \ {r}
      BY <1>4, <2>1
    <3> QED
      BY <1>16, <2>2, <3>1, ExactReleased
  <2>4. \A s \in Readers, g \in Frames : ReaderOwns(s, g)' => Owners(g)' = {s}
    BY <1>13, <2>2
  <2>5. \A d \in Consumers, g \in Frames : /\ ~(OwedTo(d, g)' /\ Queued(d, g)')
                                           /\ ~(OwedTo(d, g)' /\ InUse(d, g)')
                                           /\ ~(Queued(d, g)' /\ InUse(d, g)')
    BY <1>6, <1>16 DEF OwnedOnce
  <2> QED
    BY <1>1, <1>10, <1>11, <1>12, <2>3, <2>4, <2>5 DEF OwnedOnce
<1> QED
  BY <1>5, <1>8, <1>9, <1>14, <1>15, <1>16, EnqueuePlaces

\* Calls on the router change no owner, and keep its lists free of repetition.
LEMMA ControlInv ==
    ASSUME IInv, (\E op \in Ops : Call(op)) \/ Apply
    PROVE  OwnedOnce' /\ RefCountExact'
<1> USE DEF IInv
<1>1. UNCHANGED <<rpc, rframe, rcopy, todo, queue, cframe, ref, pooled>>
  BY DEF Call, Apply, readerVars, threadVars, frameVars
<1>2. \A t \in Topics : Distinct(topics'[t])
  <2>1. ASSUME Apply PROVE \A t \in Topics : Distinct(topics'[t])
    <3>1. pending \in Ops /\ pending.topic \in Topics
      BY <2>1 DEF Apply, TypeOK, Ops
    <3>2. PICK t \in Topics : t = pending.topic
      BY <3>1
    <3>3. topics[t] \in Seq(Consumers) /\ Distinct(topics[t])
      BY DEF TypeOK, OwnedOnce
    <3>4. pending.op \in {"AddConsumer", "RemoveConsumer"} => pending.consumer \in Consumers
      BY <3>1 DEF Ops
    <3>5. pending.op \in {"AddConsumer", "RemoveConsumer", "RemoveTopic"}
      BY <3>1 DEF Ops
    <3>6. CASE pending.op = "AddConsumer"
      <4>1. topics' = [topics EXCEPT ![t] = WithConsumer(topics[t], pending.consumer)]
        BY <2>1, <3>2, <3>6 DEF Apply
      <4>2. Distinct(WithConsumer(topics[t], pending.consumer))
        BY <3>3, <3>4, <3>6, WithConsumerDistinct
      <4> QED
        BY <4>1, <4>2 DEF TypeOK, OwnedOnce
    <3>7. CASE pending.op = "RemoveConsumer"
      <4>1. topics' = [topics EXCEPT ![t] = WithoutConsumer(topics[t], pending.consumer)]
        BY <2>1, <3>2, <3>7 DEF Apply
      <4>2. Distinct(WithoutConsumer(topics[t], pending.consumer))
        BY <3>3, <3>4, <3>7, WithoutConsumerDistinct
      <4> QED
        BY <4>1, <4>2 DEF TypeOK, OwnedOnce
    <3>8. CASE pending.op = "RemoveTopic"
      <4>1. topics' = [topics EXCEPT ![t] = <<>>]
        BY <2>1, <3>2, <3>8 DEF Apply
      <4>2. Distinct(<<>>)
        BY DEF Distinct
      <4> QED
        BY <4>1, <4>2 DEF TypeOK, OwnedOnce
    <3> QED
      BY <3>5, <3>6, <3>7, <3>8
  <2>2. ASSUME NEW op \in Ops, Call(op) PROVE \A t \in Topics : Distinct(topics'[t])
    BY <2>2 DEF Call, OwnedOnce
  <2> QED
    BY <2>1, <2>2
<1>3. /\ \A c, g : /\ OwedTo(c, g)' <=> OwedTo(c, g)
                   /\ Queued(c, g)' <=> Queued(c, g)
                   /\ InUse(c, g)' <=> InUse(c, g)
      /\ \A r, g : ReaderOwns(r, g)' <=> ReaderOwns(r, g)
      /\ \A r : Active(r)' <=> Active(r)
  BY <1>1 DEF OwedTo, Queued, InUse, ReaderOwns, Active
<1>4. \A g \in Frames : Owners(g)' = Owners(g)
  BY <1>3 DEF Owners
<1>5. RefCountExact'
  BY <1>1, <1>4, ExactKept
<1> QED
  BY <1>1, <1>2, <1>3, <1>4, <1>5 DEF OwnedOnce

\* NextFrame: a frame moves from the queue into the consumer's hand.
LEMMA NextFrameInv ==
    ASSUME IInv, NEW c \in Consumers, NextFrame(c)
    PROVE  OwnedOnce' /\ RefCountExact'
<1> USE NoneAssumption DEF IInv
<1>1. /\ queue \in [Consumers -> Seq(Frames)] /\ queue[c] \in Seq(Frames) /\ Distinct(queue[c])
      /\ cframe \in [Consumers -> Frames \cup {None}] /\ cframe[c] = None
      /\ UNCHANGED <<topics, rpc, rframe, rcopy, todo, ref, pooled>>
  BY DEF TypeOK, OwnedOnce, NextFrame, routerVars, readerVars, frameVars
<1>2. /\ \A d, g : OwedTo(d, g)' <=> OwedTo(d, g)
      /\ \A r, g : ReaderOwns(r, g)' <=> ReaderOwns(r, g)
      /\ \A r : Active(r)' <=> Active(r)
  BY <1>1 DEF OwedTo, ReaderOwns, Active
<1>3. CASE queue[c] # <<>>
  <2>1. /\ cframe' = [cframe EXCEPT ![c] = Head(queue[c])]
        /\ queue' = [queue EXCEPT ![c] = Tail(queue[c])]
    BY <1>3, Zenon DEF NextFrame
  <2>2. PICK h \in Frames : h = Head(queue[c])
    BY <1>1, <1>3
  <2>3. /\ h \in ToSet(queue[c]) /\ Distinct(Tail(queue[c]))
        /\ ToSet(Tail(queue[c])) = ToSet(queue[c]) \ {h}
    BY <1>1, <1>3, <2>2, TailDistinct
  <2>4. \A d \in Consumers : queue'[d] = IF d = c THEN Tail(queue[c]) ELSE queue[d]
    BY <1>1, <2>1
  <2>5. \A d \in Consumers, g \in Frames : Queued(d, g)' <=> Queued(d, g) /\ ~(d = c /\ g = h)
    BY <2>3, <2>4 DEF Queued
  <2>6. \A d \in Consumers, g \in Frames : InUse(d, g)' <=> InUse(d, g) \/ (d = c /\ g = h)
    BY <1>1, <2>1, <2>2 DEF InUse
  <2>7. Queued(c, h)
    BY <2>3 DEF Queued
  <2>8. \A g \in Frames : Owners(g)' = Owners(g)
    BY <1>2, <2>5, <2>6, <2>7 DEF Owners
  <2>9. RefCountExact'
    BY <1>1, <2>8, ExactKept
  <2>10. \A d \in Consumers, g \in Frames : /\ ~(OwedTo(d, g)' /\ Queued(d, g)')
                                            /\ ~(OwedTo(d, g)' /\ InUse(d, g)')
                                            /\ ~(Queued(d, g)' /\ InUse(d, g)')
    BY <1>2, <2>5, <2>6, <2>7 DEF OwnedOnce
  <2>11. \A d \in Consumers : Distinct(queue'[d])
    BY <2>3, <2>4 DEF OwnedOnce
  <2> QED
    BY <1>1, <1>2, <2>8, <2>9, <2>10, <2>11 DEF OwnedOnce
<1>4. CASE queue[c] = <<>>
  <2>1. UNCHANGED <<cframe, queue>>
    BY <1>4 DEF NextFrame
  <2>2. \A d, g : (Queued(d, g)' <=> Queued(d, g)) /\ (InUse(d, g)' <=> InUse(d, g))
    BY <2>1 DEF Queued, InUse
  <2>3. \A g \in Frames : Owners(g)' = Owners(g)
    BY <1>2, <2>2 DEF Owners
  <2>4. RefCountExact'
    BY <1>1, <2>3, ExactKept
  <2> QED
    BY <1>1, <1>2, <2>1, <2>2, <2>3, <2>4 DEF OwnedOnce
<1> QED
  BY <1>3, <1>4

\* Used: the consumer releases the frame in its hand.
LEMMA UsedInv ==
    ASSUME IInv, NEW c \in Consumers, Used(c)
    PROVE  OwnedOnce' /\ RefCountExact'
<1> USE NoneAssumption DEF IInv
<1>0. PICK f \in Frames : f = cframe[c]
  BY DEF TypeOK, Used
<1>1. /\ cframe \in [Consumers -> Frames \cup {None}]
      /\ cframe' = [cframe EXCEPT ![c] = None] /\ Release(f)
      /\ UNCHANGED <<topics, rpc, rframe, rcopy, todo, queue>>
  BY <1>0 DEF TypeOK, Used, routerVars, readerVars
<1>2. InUse(c, f) /\ ~OwedTo(c, f) /\ ~Queued(c, f) /\ c \in Owners(f)
  BY <1>0, OwnersMember DEF InUse, OwnedOnce
<1>3. /\ \A d, g : (OwedTo(d, g)' <=> OwedTo(d, g)) /\ (Queued(d, g)' <=> Queued(d, g))
      /\ \A r, g : ReaderOwns(r, g)' <=> ReaderOwns(r, g)
      /\ \A r : Active(r)' <=> Active(r)
  BY <1>1 DEF OwedTo, Queued, ReaderOwns, Active
<1>4. \A d \in Consumers, g \in Frames : InUse(d, g)' <=> InUse(d, g) /\ ~(d = c /\ g = f)
  BY <1>0, <1>1 DEF InUse
<1>5. Owners(f)' = Owners(f) \ {c}
  BY <1>2, <1>3, <1>4, ThreadsAssumption DEF Owners
<1>6. \A g \in Frames \ {f} : Owners(g)' = Owners(g)
  BY <1>3, <1>4 DEF Owners
<1>7. RefCountExact'
  BY <1>1, <1>2, <1>5, <1>6, ExactReleased
<1>8. \A r \in Readers, g \in Frames : ReaderOwns(r, g)' => Owners(g)' = {r}
  BY <1>2, <1>3, <1>6, ThreadsAssumption DEF OwnedOnce
<1>9. \A d \in Consumers, g \in Frames : /\ ~(OwedTo(d, g)' /\ Queued(d, g)')
                                         /\ ~(OwedTo(d, g)' /\ InUse(d, g)')
                                         /\ ~(Queued(d, g)' /\ InUse(d, g)')
  BY <1>3, <1>4 DEF OwnedOnce
<1> QED
  BY <1>1, <1>3, <1>7, <1>8, <1>9 DEF OwnedOnce

\* Close: the consumer releases every frame of its queue.
LEMMA CloseInv ==
    ASSUME IInv, NEW c \in Consumers, Close(c)
    PROVE  OwnedOnce' /\ RefCountExact'
<1> USE DEF IInv
<1>1. /\ queue \in [Consumers -> Seq(Frames)]
      /\ queue' = [queue EXCEPT ![c] = <<>>]
      /\ UNCHANGED <<topics, rpc, rframe, rcopy, todo, cframe>>
  BY DEF TypeOK, Close, routerVars, readerVars, threadVars
<1>2. /\ \A d, g : (OwedTo(d, g)' <=> OwedTo(d, g)) /\ (InUse(d, g)' <=> InUse(d, g))
      /\ \A r, g : ReaderOwns(r, g)' <=> ReaderOwns(r, g)
      /\ \A r : Active(r)' <=> Active(r)
  BY <1>1 DEF OwedTo, InUse, ReaderOwns, Active
<1>3. ToSet(<<>>) = {} /\ Distinct(<<>>)
  BY DEF ToSet, Distinct
<1>4. \A d \in Consumers, g \in Frames : Queued(d, g)' <=> Queued(d, g) /\ d # c
  BY <1>1, <1>3 DEF Queued
<1>5. ASSUME NEW g \in Frames, Queued(c, g)
      PROVE  /\ Owners(g)' = Owners(g) \ {c} /\ c \in Owners(g)
             /\ \A r \in Readers : ~ReaderOwns(r, g)
  <2>1. c \in Owners(g) /\ ~OwedTo(c, g) /\ ~InUse(c, g)
    BY <1>5, OwnersMember DEF OwnedOnce
  <2>2. Owners(g)' = Owners(g) \ {c}
    BY <1>2, <1>4, <2>1, ThreadsAssumption DEF Owners
  <2> QED
    BY <2>1, <2>2, ThreadsAssumption DEF OwnedOnce
<1>6. ASSUME NEW g \in Frames, ~Queued(c, g) PROVE Owners(g)' = Owners(g)
  BY <1>2, <1>4, <1>6 DEF Owners
<1>7. RefCountExact'
  <2> SUFFICES ASSUME NEW g \in Frames PROVE Exact(g)'
    BY DEF Exact, RefCountExact
  <2>1. Exact(g)
    BY DEF Exact, RefCountExact
  <2>2. CASE Queued(c, g)
    <3>1. ref'[g] = ref[g] - 1 /\ pooled'[g] = IF ref[g] - 1 = 0 THEN pooled[g] + 1 ELSE pooled[g]
      BY <2>2 DEF Close, Queued
    <3>2. /\ Cardinality(Owners(g) \ {c}) = Cardinality(Owners(g)) - 1
          /\ Cardinality(Owners(g) \ {c}) = 0 <=> Owners(g) \ {c} = {}
      BY <1>5, <2>2, OwnersFinite, FS_RemoveElement, FS_EmptySet
    <3>3. pooled[g] = 0 /\ ref[g] = Cardinality(Owners(g))
      BY <1>5, <2>1, <2>2 DEF Exact
    <3>4. Owners(g)' = Owners(g) \ {c}
      BY <1>5, <2>2
    <3> QED
      BY <3>1, <3>2, <3>3, <3>4 DEF Exact
  <2>3. CASE ~Queued(c, g)
    <3>1. ref'[g] = ref[g] /\ pooled'[g] = pooled[g]
      BY <2>3 DEF Close, Queued
    <3> QED
      BY <1>6, <2>1, <2>3, <3>1 DEF Exact
  <2> QED
    BY <2>2, <2>3
<1>8. \A r \in Readers, g \in Frames : ReaderOwns(r, g)' => Owners(g)' = {r}
  BY <1>2, <1>5, <1>6 DEF OwnedOnce
<1>9. \A d \in Consumers : Distinct(queue'[d])
  BY <1>1, <1>3 DEF OwnedOnce
<1>10. \A d \in Consumers, g \in Frames : /\ ~(OwedTo(d, g)' /\ Queued(d, g)')
                                          /\ ~(OwedTo(d, g)' /\ InUse(d, g)')
                                          /\ ~(Queued(d, g)' /\ InUse(d, g)')
  BY <1>2, <1>4 DEF OwnedOnce
<1> QED
  BY <1>1, <1>2, <1>7, <1>8, <1>9, <1>10 DEF OwnedOnce

-----------------------------------------------------------------------------
\* At the start all frames lie in the pool and nobody owns one.
LEMMA IInvInit == Init => IInv
<1> SUFFICES ASSUME Init PROVE IInv
  OBVIOUS
<1> USE NoneAssumption
<1>1. TypeOK
  BY TypeInit
<1>2. ToSet(<<>>) = {} /\ Distinct(<<>>)
  BY DEF ToSet, Distinct
<1>3. /\ \A c \in Consumers, g \in Frames : ~OwedTo(c, g) /\ ~Queued(c, g) /\ ~InUse(c, g)
      /\ \A r \in Readers, g \in Frames : ~ReaderOwns(r, g)
      /\ \A r \in Readers : ~Active(r)
  BY <1>2 DEF Init, OwedTo, Queued, InUse, ReaderOwns, Active
<1>4. \A g \in Frames : Owners(g) = {}
  BY <1>3 DEF Owners
<1>5. OwnedOnce
  BY <1>2, <1>3 DEF Init, OwnedOnce
<1>6. RefCountExact
  BY <1>4, FS_EmptySet DEF Init, RefCountExact
<1> QED
  BY <1>1, <1>5, <1>6 DEF IInv

\* Every step preserves the invariant.
LEMMA IInvStep == IInv /\ [Next]_vars => IInv'
<1> SUFFICES ASSUME IInv, [Next]_vars PROVE IInv'
  OBVIOUS
<1>1. TypeOK'
  BY TypeStep DEF IInv
<1>2. ASSUME NEW r \in Readers, Read(r) \/ RouteStep(r) PROVE OwnedOnce' /\ RefCountExact'
  BY <1>2, ReadInv, DiscardInv, RouteInv, ShareStepInv, CopyFrameInv, CopyStepInv DEF RouteStep
<1>3. ASSUME (\E op \in Ops : Call(op)) \/ Apply PROVE OwnedOnce' /\ RefCountExact'
  BY <1>3, ControlInv
<1>4. ASSUME NEW c \in Consumers, NextFrame(c) \/ Used(c) \/ Close(c)
      PROVE  OwnedOnce' /\ RefCountExact'
  BY <1>4, NextFrameInv, UsedInv, CloseInv
<1>5. ASSUME UNCHANGED vars PROVE OwnedOnce' /\ RefCountExact'
  <2>1. UNCHANGED <<topics, rpc, rframe, rcopy, todo, queue, cframe, ref, pooled>>
    BY <1>5 DEF vars, routerVars, readerVars, threadVars, frameVars
  <2>2. /\ \A c, g : /\ OwedTo(c, g)' <=> OwedTo(c, g)
                     /\ Queued(c, g)' <=> Queued(c, g)
                     /\ InUse(c, g)' <=> InUse(c, g)
        /\ \A r, g : ReaderOwns(r, g)' <=> ReaderOwns(r, g)
        /\ \A r : Active(r)' <=> Active(r)
    BY <2>1 DEF OwedTo, Queued, InUse, ReaderOwns, Active
  <2>3. \A g \in Frames : Owners(g)' = Owners(g)
    BY <2>2 DEF Owners
  <2>4. RefCountExact'
    BY <2>1, <2>3, ExactKept DEF IInv
  <2>5. OwnedOnce
    BY DEF IInv
  <2> QED
    BY <2>1, <2>2, <2>3, <2>4, <2>5 DEF OwnedOnce
<1>6. ASSUME Next PROVE OwnedOnce' /\ RefCountExact'
  BY <1>2, <1>3, <1>4, <1>6 DEF Next
<1> QED
  BY <1>1, <1>5, <1>6 DEF IInv

\* The invariant holds in every reachable state.
LEMMA Invariance == Spec => []IInv
  BY IInvInit, IInvStep, PTL DEF Spec

\* At every moment of every delivery the reference count of a frame is the
\* number of its owners, and the pool holds it, once, exactly when there is
\* none: shared fan-out neither recycles a frame in use, nor recycles one
\* twice, nor leaks one, whatever the consumers, policies and closings do.
THEOREM RefCounting == Spec => []RefCountExact
<1>1. IInv => RefCountExact
  BY DEF IInv
<1> QED
  BY <1>1, Invariance, PTL

\* No consumer is listed twice, no queue holds a frame twice, no frame has two
\* places with one owner, and a frame still with its read loop has no other
\* owner.
THEOREM SingleOwnership == Spec => []OwnedOnce
<1>1. IInv => OwnedOnce
  BY DEF IInv
<1> QED
  BY <1>1, Invariance, PTL

-----------------------------------------------------------------------------
(* What a step may not do.                                                 *)

\* The topic of a frame changes when it leaves the pool, and when its count reaches zero.
LEMMA TopicChanges ==
    ASSUME TypeOK, [Next]_vars, NEW f \in Frames, ftopic'[f] # ftopic[f]
    PROVE  pooled[f] > 0 \/ ref'[f] = 0
<1> USE DEF routerVars, readerVars, threadVars, fixedVars, frameVars
<1>t. ftopic \in [Frames -> Topics \cup {None}] /\ ref \in [Frames -> Int]
  BY DEF TypeOK
<1>u. ~UNCHANGED ftopic
  OBVIOUS
<1>n. ASSUME NEW g \in Frames, NEW t, NewFrame(g, t) PROVE pooled[f] > 0
  BY <1>n, <1>t DEF NewFrame
<1>r. ASSUME NEW g \in Frames, Release(g) PROVE ref'[f] = 0
  BY <1>r, <1>t, <1>u DEF Release
<1>q. ASSUME NEW c \in Consumers, NEW g \in Frames, Enqueue(c, g) PROVE ref'[f] = 0
  <2>1. CASE Insert(c, g)
    BY <2>1, <1>u DEF Insert
  <2>2. CASE DropOldest(c, g)
    <3>1. queue[c] \in Seq(Frames) /\ Len(queue[c]) >= Cap
      BY <2>2 DEF DropOldest, Full, TypeOK
    <3>2. Head(queue[c]) \in Frames
      BY <3>1, CapAssumption
    <3> QED
      BY <2>2, <3>2, <1>r DEF DropOldest
  <2>3. CASE Refuse(c, g)
    BY <2>3, <1>r DEF Refuse
  <2> QED
    BY <1>q, <2>1, <2>2, <2>3 DEF Enqueue
<1>1. ASSUME NEW r \in Readers, Read(r) \/ CopyFrame(r) PROVE pooled[f] > 0
  BY <1>1, <1>n DEF Read, CopyFrame
<1>2. ASSUME NEW r \in Readers, Discard(r) \/ RouteReturn(r) PROVE ref'[f] = 0
  <2>1. rframe[r] \in Frames
    BY <1>2 DEF Discard, RouteReturn, RLocked, TypeOK
  <2> QED
    BY <1>2, <2>1, <1>u, <1>r DEF Discard, RouteReturn
<1>3. ASSUME NEW r \in Readers, ShareStep(r) PROVE ref'[f] = 0
  <2>1. rframe[r] \in Frames /\ todo[r] \in Seq(Consumers) /\ todo[r] # <<>>
    BY <1>3 DEF ShareStep, TypeOK
  <2> QED
    BY <1>3, <2>1, <1>q DEF ShareStep
<1>4. ASSUME NEW r \in Readers, CopyStep(r) PROVE ref'[f] = 0
  <2>1. rcopy[r] \in Frames /\ todo[r] \in Seq(Consumers) /\ todo[r] # <<>>
    BY <1>4 DEF CopyStep, TypeOK
  <2> QED
    BY <1>4, <2>1, <1>q DEF CopyStep
<1>5. ASSUME NEW c \in Consumers, Used(c) PROVE ref'[f] = 0
  <2>1. cframe[c] \in Frames
    BY <1>5 DEF Used, TypeOK
  <2> QED
    BY <1>5, <2>1, <1>r DEF Used
<1>6. ASSUME NEW c \in Consumers, Close(c) PROVE ref'[f] = 0
  BY <1>6, <1>t DEF Close
<1>7. ASSUME NEW r \in Readers PROVE ~Route(r)
  BY <1>u DEF Route
<1>8. ASSUME NEW c \in Consumers PROVE ~NextFrame(c)
  BY <1>u DEF NextFrame
<1>9. ~Apply /\ \A op \in Ops : ~Call(op)
  BY <1>u DEF Apply, Call
<1>10. ~UNCHANGED vars
  BY <1>u DEF vars
<1> QED
  BY <1>1, <1>2, <1>3, <1>4, <1>5, <1>6, <1>7, <1>8, <1>9, <1>10 DEF Next, RouteStep

\* So it changes for nobody: there is no owner before the step, or none after it.
LEMMA TopicChangesUnowned ==
    ASSUME IInv, IInv', [Next]_vars, NEW f \in Frames, ftopic'[f] # ftopic[f]
    PROVE  Owners(f) = {} \/ Owners(f)' = {}
<1>1. CASE pooled[f] > 0
  BY <1>1, PooledUnowned DEF IInv
<1>2. CASE ref'[f] = 0
  <2>1. Cardinality(Owners(f)') = 0
    BY <1>2 DEF IInv, RefCountExact
  <2>2. IsFiniteSet(Owners(f)')
    BY OwnersFinite
  <2> QED
    BY <2>1, <2>2, FS_EmptySet
<1> QED
  BY <1>1, <1>2, TopicChanges DEF IInv

\* What an owner sees of a frame stays as it is while it owns the frame: the frame is
\* neither reset by another owner's Release nor given out again (frame.go:27-37).
THEOREM FramesIntact == Spec => OwnedFrameIntact
<1>1. IInv /\ IInv' /\ [Next]_vars => [TopicKept]_vars
  BY TopicChangesUnowned DEF TopicKept
<1> QED
  BY <1>1, Invariance, PTL DEF Spec, OwnedFrameIntact

\* The read loop is in Route's loop and has consumers left.
Delivering(r) == rpc[r] \in {"share", "copy"} /\ todo[r] # <<>>

\* Those consumers are registered for the frame's topic, and a copy has the topic of its
\* original.
Listed ==
    \A r \in Readers :
        /\ Delivering(r) => /\ ftopic[rframe[r]] \in Topics
                            /\ ToSet(todo[r]) \subseteq ToSet(topics[ftopic[rframe[r]]])
        /\ rcopy[r] # None => ftopic[rcopy[r]] = ftopic[rframe[r]]

\* Push puts the frame it is given into the queue it is called on, and no other.
LEMMA EnqueueEnters ==
    ASSUME IInv, NEW c \in Consumers, NEW g \in Frames, Enqueue(c, g),
           NEW d \in Consumers, NEW f \in Frames, Queued(d, f)', ~Queued(d, f)
    PROVE  d = c /\ f = g
<1>0. queue \in [Consumers -> Seq(Frames)] /\ queue[c] \in Seq(Frames) /\ Distinct(queue[c])
  BY DEF IInv, TypeOK, OwnedOnce
<1>1. CASE Insert(c, g)
  <2>1. queue' = [queue EXCEPT ![c] = Append(queue[c], g)]
    BY <1>1 DEF Insert
  <2>2. ToSet(Append(queue[c], g)) = ToSet(queue[c]) \cup {g}
    BY <1>0, AppendDistinct
  <2> QED
    BY <1>0, <2>1, <2>2 DEF Queued
<1>2. CASE DropOldest(c, g)
  <2>1. queue' = [queue EXCEPT ![c] = Append(Tail(queue[c]), g)] /\ Len(queue[c]) >= Cap
    BY <1>2 DEF DropOldest, Full
  <2>2. queue[c] # <<>>
    BY <1>0, <2>1, CapAssumption
  <2>3. PICK q \in Seq(Frames) : q = Tail(queue[c]) /\ ToSet(q) \subseteq ToSet(queue[c])
    BY <1>0, <2>2, TailDistinct
  <2>4. ToSet(Append(q, g)) = ToSet(q) \cup {g}
    BY AppendDistinct
  <2> QED
    BY <1>0, <2>1, <2>3, <2>4 DEF Queued
<1>3. CASE Refuse(c, g)
  BY <1>3 DEF Refuse, Queued
<1> QED
  BY <1>1, <1>2, <1>3 DEF Enqueue

\* A frame enters a queue in a turn of Route's loop, from the read loop to the consumer
\* that comes next.
LEMMA Enters ==
    ASSUME IInv, [Next]_vars, NEW d \in Consumers, NEW f \in Frames, Queued(d, f)', ~Queued(d, f)
    PROVE  \E r \in Readers : /\ Delivering(r) /\ d = Head(todo[r])
                              /\ f = rframe[r] \/ (f = rcopy[r] /\ rcopy[r] # None)
<1> USE DEF routerVars, readerVars, threadVars, fixedVars, frameVars
<1>q. queue' # queue /\ queue \in [Consumers -> Seq(Frames)]
  BY DEF Queued, IInv, TypeOK
<1>1. ASSUME NEW r \in Readers, ShareStep(r)
      PROVE  Delivering(r) /\ d = Head(todo[r]) /\ f = rframe[r]
  <2>1. rframe[r] \in Frames /\ todo[r] \in Seq(Consumers) /\ todo[r] # <<>>
    BY <1>1 DEF ShareStep, IInv, TypeOK
  <2>2. Head(todo[r]) \in Consumers /\ Enqueue(Head(todo[r]), rframe[r])
    BY <2>1, <1>1 DEF ShareStep
  <2>3. d = Head(todo[r]) /\ f = rframe[r]
    BY <2>1, <2>2, EnqueueEnters
  <2> QED
    BY <2>1, <2>3, <1>1 DEF ShareStep, Delivering
<1>2. ASSUME NEW r \in Readers, CopyStep(r)
      PROVE  Delivering(r) /\ d = Head(todo[r]) /\ f = rcopy[r] /\ rcopy[r] # None
  <2>1. rcopy[r] \in Frames /\ todo[r] \in Seq(Consumers) /\ todo[r] # <<>> /\ rcopy[r] # None
    BY <1>2 DEF CopyStep, IInv, TypeOK
  <2>2. Head(todo[r]) \in Consumers /\ Enqueue(Head(todo[r]), rcopy[r])
    BY <2>1, <1>2 DEF CopyStep
  <2>3. d = Head(todo[r]) /\ f = rcopy[r]
    BY <2>1, <2>2, EnqueueEnters
  <2> QED
    BY <2>1, <2>3, <1>2 DEF CopyStep, Delivering
<1>3. ASSUME NEW r \in Readers PROVE ~Read(r) /\ ~Discard(r) /\ ~Route(r) /\ ~CopyFrame(r) /\ ~RouteReturn(r)
  BY <1>q DEF Read, Discard, Route, CopyFrame, RouteReturn
<1>4. ASSUME NEW c \in Consumers PROVE ~NextFrame(c) /\ ~Used(c) /\ ~Close(c)
  <2>1. ~Used(c)
    BY <1>q DEF Used
  <2>2. ASSUME Close(c) PROVE FALSE
    <3>1. ToSet(<<>>) = {}
      BY DEF ToSet
    <3> QED
      BY <2>2, <3>1, <1>q DEF Close, Queued
  <2>3. ASSUME NextFrame(c) PROVE FALSE
    <3>1. queue' = [queue EXCEPT ![c] = Tail(queue[c])] /\ queue[c] # <<>>
      BY <2>3, <1>q DEF NextFrame
    <3>2. ToSet(Tail(queue[c])) \subseteq ToSet(queue[c])
      BY <3>1, TailDistinct DEF IInv, TypeOK, OwnedOnce
    <3> QED
      BY <3>1, <3>2, <1>q DEF Queued
  <2> QED
    BY <2>1, <2>2, <2>3
<1>5. ~Apply /\ \A op \in Ops : ~Call(op)
  BY <1>q DEF Apply, Call
<1>6. ~UNCHANGED vars
  BY <1>q DEF vars
<1> QED
  BY <1>1, <1>2, <1>3, <1>4, <1>5, <1>6 DEF Next, RouteStep

\* How a read loop moves: it starts to deliver along the list of the topic, with nothing
\* changed for its frame; it makes a copy, of a frame from the pool; or it goes on with what
\* it has of its list, the read lock keeping the list as it is.
ReaderMoves(r) ==
    \/ /\ rpc[r] = "route" /\ rcopy'[r] = None /\ UNCHANGED <<topics, rframe, ftopic>>
       /\ ftopic[rframe[r]] \in Topics /\ todo'[r] = topics[ftopic[rframe[r]]]
    \/ /\ Delivering(r) /\ rframe'[r] = rframe[r] /\ topics' = topics
       /\ \/ /\ todo'[r] = todo[r] /\ rcopy[r] = None /\ rcopy'[r] \in Frames
             /\ pooled[rcopy'[r]] > 0 /\ ftopic'[rcopy'[r]] = ftopic[rframe[r]]
          \/ todo'[r] = todo[r] /\ rcopy'[r] = rcopy[r]
          \/ todo'[r] = Tail(todo[r]) /\ rcopy'[r] = None

\* A read loop that delivers after a step has moved so.
LEMMA ReaderMovesAre ==
    ASSUME IInv, [Next]_vars, NEW r \in Readers, Delivering(r)'
    PROVE  ReaderMoves(r)
<1> USE DEF routerVars, readerVars, threadVars, fixedVars, frameVars
<1>t. /\ rpc \in [Readers -> {"read", "route", "share", "copy"}]
      /\ rframe \in [Readers -> Frames \cup {None}] /\ rcopy \in [Readers -> Frames \cup {None}]
      /\ todo \in [Readers -> Seq(Consumers)] /\ ftopic \in [Frames -> Topics \cup {None}]
      /\ rpc[r] # "read" <=> rframe[r] # None
      /\ rcopy[r] # None => rpc[r] = "copy" /\ todo[r] # <<>>
  BY DEF IInv, TypeOK
<1>s. ASSUME rpc'[r] = rpc[r], rframe'[r] = rframe[r], todo'[r] = todo[r], rcopy'[r] = rcopy[r], topics' = topics
      PROVE  ReaderMoves(r)
  BY <1>s DEF ReaderMoves, Delivering
<1>1. ASSUME NEW s \in Readers, s # r, Read(s) \/ RouteStep(s) PROVE ReaderMoves(r)
  <2>1. rpc'[r] = rpc[r] /\ rframe'[r] = rframe[r] /\ topics' = topics
    BY <1>1, <1>t DEF Read, RouteStep, Discard, Route, ShareStep, CopyFrame, CopyStep, RouteReturn
  <2>2. todo'[r] = todo[r]
    BY <1>1, <1>t DEF Read, RouteStep, Discard, Route, ShareStep, CopyFrame, CopyStep, RouteReturn
  <2>3. rcopy'[r] = rcopy[r]
    BY <1>1, <1>t DEF Read, RouteStep, Discard, Route, ShareStep, CopyFrame, CopyStep, RouteReturn
  <2> QED
    BY <2>1, <2>2, <2>3, <1>s
<1>2. ASSUME Read(r) \/ Discard(r) \/ RouteReturn(r) PROVE FALSE
  BY <1>2, <1>t DEF Read, Discard, RouteReturn, Delivering
<1>3. CASE Route(r)
  <2>1. /\ rpc[r] = "route" /\ UNCHANGED <<topics, rframe, rcopy, ftopic>> /\ ftopic[rframe[r]] # None
        /\ todo' = [todo EXCEPT ![r] = topics[ftopic[rframe[r]]]]
    BY <1>3 DEF Route
  <2>2. rframe[r] \in Frames /\ rcopy[r] = None
    BY <2>1, <1>t
  <2>3. ftopic[rframe[r]] \in Topics /\ todo'[r] = topics[ftopic[rframe[r]]]
    BY <2>1, <2>2, <1>t
  <2> QED
    BY <2>1, <2>2, <2>3 DEF ReaderMoves
<1>4. CASE ShareStep(r)
  <2>1. /\ rpc[r] = "share" /\ todo[r] # <<>> /\ todo' = [todo EXCEPT ![r] = Tail(todo[r])]
        /\ UNCHANGED <<topics, rframe, rcopy>>
    BY <1>4, Zenon DEF ShareStep
  <2>2. todo'[r] = Tail(todo[r]) /\ rcopy'[r] = None
    BY <2>1, <1>t
  <2> QED
    BY <2>1, <2>2 DEF ReaderMoves, Delivering
<1>5. CASE CopyFrame(r)
  <2>1. PICK f \in Frames : NewFrame(f, ftopic[rframe[r]]) /\ rcopy' = [rcopy EXCEPT ![r] = f]
    BY <1>5 DEF CopyFrame
  <2>2. rcopy'[r] = f /\ pooled[f] > 0 /\ ftopic'[f] = ftopic[rframe[r]]
    BY <2>1, <1>t DEF NewFrame
  <2> QED
    BY <2>2, <1>5 DEF CopyFrame, ReaderMoves, Delivering
<1>6. CASE CopyStep(r)
  <2>1. /\ rpc[r] = "copy" /\ rcopy[r] # None /\ todo' = [todo EXCEPT ![r] = Tail(todo[r])]
        /\ rcopy' = [rcopy EXCEPT ![r] = None] /\ UNCHANGED <<topics, rframe>>
    BY <1>6, Zenon DEF CopyStep
  <2>2. todo'[r] = Tail(todo[r]) /\ rcopy'[r] = None /\ todo[r] # <<>>
    BY <2>1, <1>t
  <2> QED
    BY <2>1, <2>2 DEF ReaderMoves, Delivering
<1>7. CASE Apply
  <2>1. rpc' = rpc /\ ~RLocked(r)
    BY <1>7 DEF Apply, CanLock
  <2> QED
    BY <2>1 DEF RLocked, Delivering
<1>8. CASE \E op \in Ops : Call(op)
  BY <1>8, <1>s DEF Call
<1>9. CASE \E c \in Consumers : NextFrame(c) \/ Used(c) \/ Close(c)
  BY <1>9, <1>s DEF NextFrame, Used, Close
<1>10. CASE UNCHANGED vars
  BY <1>10, <1>s DEF vars
<1> QED
  BY <1>1, <1>2, <1>3, <1>4, <1>5, <1>6, <1>7, <1>8, <1>9, <1>10 DEF Next, RouteStep

\* Every step preserves Listed.
LEMMA ListedStep == ASSUME IInv, IInv', Listed, [Next]_vars PROVE Listed'
<1> USE NoneAssumption
<1>k. ASSUME NEW f \in Frames, Owners(f) # {}, Owners(f)' # {} PROVE ftopic'[f] = ftopic[f]
  BY <1>k, TopicChangesUnowned
<1>a. ASSUME NEW r \in Readers, Delivering(r) PROVE rframe[r] \in Frames /\ Owners(rframe[r]) # {}
  BY <1>a, ActiveOwned DEF IInv, Delivering, Active
<1>b. ASSUME NEW r \in Readers, NEW f \in Frames, Delivering(r)', f = rframe'[r] PROVE Owners(f)' # {}
  <2>1. rpc'[r] \in {"share", "copy"} /\ todo'[r] \in Seq(Consumers) /\ todo'[r] # <<>>
    BY <1>b DEF IInv, TypeOK, Delivering
  <2>2. PICK d \in Consumers : d \in ToSet(todo'[r])
    BY <2>1 DEF ToSet
  <2>3. CASE rpc'[r] = "share"
    <3>1. OwedTo(d, f)'
      BY <1>b, <2>2, <2>3 DEF OwedTo
    <3> QED
      BY <3>1 DEF Owners
  <2>4. CASE rpc'[r] = "copy"
    BY <1>b, <2>4 DEF Owners, ReaderOwns
  <2> QED
    BY <2>1, <2>3, <2>4
<1>c. ASSUME NEW r \in Readers, rcopy'[r] # None PROVE Delivering(r)' /\ rcopy'[r] \in Frames
  BY <1>c DEF IInv, TypeOK, Delivering
<1> SUFFICES ASSUME NEW r \in Readers, Delivering(r)'
             PROVE  /\ ftopic'[rframe'[r]] \in Topics
                    /\ ToSet(todo'[r]) \subseteq ToSet(topics'[ftopic'[rframe'[r]]])
                    /\ rcopy'[r] # None => ftopic'[rcopy'[r]] = ftopic'[rframe'[r]]
  BY <1>c DEF Listed
<1>1. CASE /\ rpc[r] = "route" /\ rcopy'[r] = None /\ UNCHANGED <<topics, rframe, ftopic>>
           /\ ftopic[rframe[r]] \in Topics /\ todo'[r] = topics[ftopic[rframe[r]]]
  BY <1>1
<1>2. CASE Delivering(r) /\ rframe'[r] = rframe[r] /\ topics' = topics
  <2>1. PICK f \in Frames : f = rframe[r]
    BY <1>2, <1>a
  <2>2. ftopic'[f] = ftopic[f]
    <3>1. Owners(f) # {}
      BY <1>2, <1>a, <2>1
    <3>2. Owners(f)' # {}
      BY <1>2, <1>b, <2>1
    <3> QED
      BY <3>1, <3>2, <1>k
  <2>3. ToSet(todo'[r]) \subseteq ToSet(todo[r])
    <3>1. CASE todo'[r] = todo[r]
      BY <3>1
    <3>2. CASE todo'[r] = Tail(todo[r])
      BY <3>2, <1>2, TailDistinct DEF IInv, TypeOK, OwnedOnce, Delivering
    <3> QED
      BY <3>1, <3>2, ReaderMovesAre, <1>2 DEF ReaderMoves, Delivering
  <2>4. ASSUME rcopy'[r] # None PROVE ftopic'[rcopy'[r]] = ftopic'[f]
    <3>1. PICK g \in Frames : g = rcopy'[r]
      BY <2>4, <1>c
    <3>2. CASE ftopic'[rcopy'[r]] = ftopic[rframe[r]]
      BY <3>2, <2>1, <2>2
    <3>3. CASE rcopy'[r] = rcopy[r]
      <4>1. Owners(g) # {} /\ Owners(g)' # {}
        BY <3>1, <3>3, <2>4 DEF Owners, ReaderOwns
      <4>2. ftopic'[g] = ftopic[g]
        BY <4>1, <1>k
      <4> QED
        BY <4>2, <3>1, <3>3, <2>1, <2>2, <2>4 DEF Listed
    <3> QED
      BY <3>2, <3>3, <2>4, ReaderMovesAre, <1>2 DEF ReaderMoves, Delivering
  <2> QED
    BY <1>2, <2>1, <2>2, <2>3, <2>4 DEF Listed
<1> QED
  BY <1>1, <1>2, ReaderMovesAre DEF ReaderMoves

\* At the start nothing is delivered.
LEMMA ListedInit == Init => Listed
BY DEF Init, Listed, Delivering

\* A frame enters a queue only while its consumer is registered for its topic: no delivery
\* begun before RemoveConsumer or RemoveTopic arrives after it has returned, and none goes
\* to a topic the frame does not have (router.go:54-104).
THEOREM OnlyRegistered == Spec => DeliveredOnlyToRegistered
<1>1. IInv /\ Listed /\ [Next]_vars => [RegisteredOnly]_vars
  <2> SUFFICES ASSUME IInv, Listed, [Next]_vars, NEW c \in Consumers, NEW f \in Frames,
                      f \in ToSet(queue'[c]), ~Queued(c, f)
               PROVE  ftopic[f] \in Topics /\ Contains(topics[ftopic[f]], c)
    BY DEF RegisteredOnly
  <2>1. PICK r \in Readers : /\ Delivering(r) /\ c = Head(todo[r])
                             /\ f = rframe[r] \/ (f = rcopy[r] /\ rcopy[r] # None)
    BY Enters DEF Queued
  <2>2. c \in ToSet(todo[r])
    BY <2>1 DEF Delivering, ToSet, IInv, TypeOK
  <2>3. ftopic[f] = ftopic[rframe[r]]
    BY <2>1 DEF Listed
  <2>4. ftopic[f] \in Topics /\ c \in ToSet(topics[ftopic[f]])
    BY <2>1, <2>2, <2>3 DEF Listed
  <2> QED
    BY <2>4 DEF Contains, ToSet
<1>2. Listed /\ IInv /\ IInv' /\ [Next]_vars => Listed'
  BY ListedStep
<1> QED
  BY <1>1, <1>2, ListedInit, Invariance, PTL DEF Spec, DeliveredOnlyToRegistered

-----------------------------------------------------------------------------
(* The queue of a consumer is a BoundedQueue.                              *)

\* A frame is on at most one of a consumer's hands, and then in use nowhere else with it:
\* what a read loop offers is neither queued nor used by the consumer, nor offered by
\* another read loop.
LEMMA OfferedOnce ==
    ASSUME IInv, NEW c \in Consumers, NEW r \in Readers, Offered(c, r) # None
    PROVE  /\ Offered(c, r) \in Frames
           /\ ~Queued(c, Offered(c, r)) /\ ~InUse(c, Offered(c, r))
           /\ \A s \in Readers \ {r} : Offered(c, s) # Offered(c, r)
<1>t. /\ \A s \in Readers : rframe[s] \in Frames \cup {None} /\ rcopy[s] \in Frames \cup {None}
      /\ \A s \in Readers : rcopy[s] # None => rpc[s] = "copy"
      /\ \A s \in Readers : rpc[s] # "read" <=> rframe[s] # None
  BY DEF IInv, TypeOK
<1>o. \A s \in Readers : rcopy[s] # None => Owners(rcopy[s]) = {s}
  <2> SUFFICES ASSUME NEW s \in Readers, rcopy[s] # None PROVE Owners(rcopy[s]) = {s}
    OBVIOUS
  <2>1. rcopy[s] \in Frames /\ ReaderOwns(s, rcopy[s])
    BY <1>t DEF ReaderOwns
  <2> QED
    BY <2>1 DEF IInv, OwnedOnce
<1>s. ASSUME NEW s \in Readers, rpc[s] = "share", c \in ToSet(todo[s])
      PROVE  /\ rframe[s] \in Frames /\ OwedTo(c, rframe[s]) /\ c \in Owners(rframe[s])
             /\ Active(s)
  <2>1. rframe[s] \in Frames /\ OwedTo(c, rframe[s])
    BY <1>s, <1>t DEF OwedTo
  <2>2. todo[s] # <<>>
    BY <1>s DEF ToSet
  <2> QED
    BY <1>s, <2>1, <2>2, OwnersMember DEF Active
<1>n. c \notin Readers
  BY ThreadsAssumption
<1>1. CASE rpc[r] = "share" /\ c \in ToSet(todo[r])
  <2>1. /\ Offered(c, r) = rframe[r] /\ rframe[r] \in Frames /\ OwedTo(c, rframe[r])
        /\ c \in Owners(rframe[r]) /\ Active(r)
    BY <1>1, <1>s DEF Offered
  <2>2. ~Queued(c, rframe[r]) /\ ~InUse(c, rframe[r])
    BY <2>1 DEF IInv, OwnedOnce
  <2>3. ASSUME NEW s \in Readers \ {r}, Offered(c, s) = rframe[r] PROVE FALSE
    <3>1. CASE rpc[s] = "share" /\ c \in ToSet(todo[s])
      <4>1. rframe[s] = rframe[r] /\ Active(s)
        BY <3>1, <2>3, <1>s DEF Offered
      <4> QED
        BY <4>1, <2>1 DEF IInv, OwnedOnce
    <3>2. CASE ~(rpc[s] = "share" /\ c \in ToSet(todo[s]))
      <4>1. rcopy[s] = rframe[r] /\ rcopy[s] # None
        BY <3>2, <2>1, <2>3, NoneAssumption DEF Offered
      <4> QED
        BY <4>1, <2>1, <1>o, <1>n
    <3> QED
      BY <3>1, <3>2
  <2> QED
    BY <2>1, <2>2, <2>3
<1>2. CASE ~(rpc[r] = "share" /\ c \in ToSet(todo[r]))
  <2>1. Offered(c, r) = rcopy[r] /\ rcopy[r] # None
    BY <1>2 DEF Offered
  <2>2. rcopy[r] \in Frames /\ Owners(rcopy[r]) = {r}
    BY <2>1, <1>t, <1>o
  <2>3. ~Queued(c, rcopy[r]) /\ ~InUse(c, rcopy[r])
    BY <2>2, <1>n, OwnersMember
  <2>4. ASSUME NEW s \in Readers \ {r}, Offered(c, s) = rcopy[r] PROVE FALSE
    <3>1. CASE rpc[s] = "share" /\ c \in ToSet(todo[s])
      BY <3>1, <2>2, <2>4, <1>s, <1>n DEF Offered
    <3>2. CASE ~(rpc[s] = "share" /\ c \in ToSet(todo[s]))
      <4>1. rcopy[s] = rcopy[r]
        BY <3>2, <2>1, <2>4 DEF Offered
      <4> QED
        BY <4>1, <2>1, <2>2, <1>o
    <3> QED
      BY <3>1, <3>2
  <2> QED
    BY <2>1, <2>2, <2>3, <2>4
<1> QED
  BY <1>1, <1>2

\* A frame somebody else owns alone is free for the consumer.
LEMMA OthersAreFree ==
    ASSUME IInv, NEW c \in Consumers, NEW f \in Frames, c \notin Owners(f),
           \A r \in Readers : rcopy[r] # f
    PROVE  f \in FreeFor(c)
<1>1. ~Queued(c, f) /\ ~InUse(c, f) /\ ~OwedTo(c, f)
  BY OwnersMember
<1>2. \A r \in Readers : Offered(c, r) # f
  BY <1>1, NoneAssumption DEF Offered, OwedTo
<1> QED
  BY <1>1, <1>2 DEF FreeFor, Queued, InUse

\* Nothing changes for the consumer.
Quiet(c) == /\ queue'[c] = queue[c] /\ cframe'[c] = cframe[c] /\ closed'[c] = closed[c]
            /\ policy'[c] = policy[c]
            /\ \A r \in Readers : Offered(c, r)' = Offered(c, r)

\* Then nothing of its queue changes.
LEMMA QuietStutters == Quiet(Chosen) => UNCHANGED ConsumerQueue!vars
<1> SUFFICES ASSUME Quiet(Chosen) PROVE UNCHANGED ConsumerQueue!vars
  OBVIOUS
<1>1. Hands(Chosen)' = Hands(Chosen)
  BY DEF Quiet, Hands
<1>2. FreeFor(Chosen)' = FreeFor(Chosen)
  BY DEF Quiet, FreeFor, Queued, InUse
<1> QED
  BY <1>1, <1>2 DEF Quiet, ConsumerQueue!vars

\* Only what read loop r offers to the consumer changes, and its queue perhaps.
OffersOnly(c, r) == /\ cframe'[c] = cframe[c] /\ closed'[c] = closed[c] /\ policy'[c] = policy[c]
                    /\ \A s \in Readers \ {r} : Offered(c, s)' = Offered(c, s)

\* What is on whose hands.
LEMMA HandsOf ==
    ASSUME NEW c \in Consumers
    PROVE  /\ \A r \in Readers : Hands(c)[r] = Offered(c, r) /\ Hands(c)'[r] = Offered(c, r)'
           /\ Hands(c)[c] = cframe[c] /\ Hands(c)'[c] = cframe'[c]
           /\ DOMAIN Hands(c) = Readers \cup {c} /\ DOMAIN Hands(c)' = Readers \cup {c}
<1>1. c \notin Readers
  BY ThreadsAssumption
<1> QED
  BY <1>1 DEF Hands

\* Then the hands change in one place.
LEMMA HandChanges ==
    ASSUME NEW c \in Consumers, NEW r \in Readers, OffersOnly(c, r)
    PROVE  Hands(c)' = [Hands(c) EXCEPT ![r] = Offered(c, r)']
<1>1. c \notin Readers
  BY ThreadsAssumption
<1> DEFINE f == Offered(c, r)'
<1>2. Hands(c)' = [t \in Readers \cup {c} |-> IF t = c THEN cframe[c] ELSE IF t = r THEN f ELSE Offered(c, t)]
  BY DEF Hands, OffersOnly
<1> HIDE DEF f
<1>3. [Hands(c) EXCEPT ![r] = f] = [t \in Readers \cup {c} |-> IF t = c THEN cframe[c] ELSE IF t = r THEN f ELSE Offered(c, t)]
  BY <1>1 DEF Hands
<1> QED
  BY <1>2, <1>3 DEF f

\* A read loop that begins to offer a free frame.
LEMMA BeginsToOffer ==
    ASSUME NEW r \in Readers, OffersOnly(Chosen, r), queue'[Chosen] = queue[Chosen],
           Offered(Chosen, r) = None, Offered(Chosen, r)' \in FreeFor(Chosen)
    PROVE  ConsumerQueue!Offer(r)
<1> USE ChosenAssumption
<1> DEFINE f == Offered(Chosen, r)'
<1>1. Hands(Chosen)[r] = None
  BY HandsOf
<1>2. Hands(Chosen)' = [Hands(Chosen) EXCEPT ![r] = f]
  BY HandChanges
<1>3. f \in FreeFor(Chosen) /\ f \in Frames /\ f # None
  BY NoneAssumption DEF FreeFor
<1> HIDE DEF f
<1>4. FreeFor(Chosen)' = FreeFor(Chosen) \ {f}
  <2>1. \A g : Queued(Chosen, g)' = Queued(Chosen, g) /\ InUse(Chosen, g)' = InUse(Chosen, g)
    BY DEF Queued, InUse, OffersOnly
  <2>2. ASSUME NEW g \in Frames
        PROVE  (\A s \in Readers : Offered(Chosen, s)' # g) <=> g # f /\ \A s \in Readers : Offered(Chosen, s) # g
    BY NoneAssumption DEF OffersOnly, f
  <2> QED
    BY <2>1, <2>2 DEF FreeFor, Queued, InUse
<1> QED
  BY <1>1, <1>2, <1>3, <1>4 DEF ConsumerQueue!Offer, OffersOnly

\* A read loop whose state is not touched offers what it did.
LEMMA OfferedKept ==
    ASSUME NEW c, NEW s, rpc'[s] = rpc[s], rframe'[s] = rframe[s], rcopy'[s] = rcopy[s], todo'[s] = todo[s]
    PROVE  Offered(c, s)' = Offered(c, s)
  BY DEF Offered

\* Which frames are free before and after a step.
LEMMA FreeIs ==
    ASSUME NEW c, NEW f \in Frames
    PROVE  /\ f \in FreeFor(c) <=> ~Queued(c, f) /\ ~InUse(c, f) /\ \A s \in Readers : Offered(c, s) # f
           /\ f \in FreeFor(c)' <=> ~Queued(c, f)' /\ ~InUse(c, f)' /\ \A s \in Readers : Offered(c, s)' # f
  BY DEF FreeFor, Queued, InUse

\* A read loop's turn to give the consumer what it has for it: enqueue puts it into the
\* queue, at the end or in the place of the oldest, or refuses it.
LEMMA Delivers ==
    ASSUME IInv, NEW r \in Readers, NEW f \in Frames, OffersOnly(Chosen, r), Enqueue(Chosen, f),
           Offered(Chosen, r) = f, Offered(Chosen, r)' = None
    PROVE  ConsumerQueue!Put(r) \/ ConsumerQueue!Replace(r) \/ ConsumerQueue!Refuse(r)
<1> USE ChosenAssumption
<1>1. /\ queue \in [Consumers -> Seq(Frames)] /\ queue[Chosen] \in Seq(Frames)
      /\ Len(queue[Chosen]) <= Cap /\ Len(queue[Chosen]) \in Nat
      /\ Distinct(queue[Chosen])
  BY DEF IInv, TypeOK, OwnedOnce
<1>2. Full(Chosen) <=> Len(queue[Chosen]) = Cap
  BY <1>1, CapAssumption DEF Full
<1>3. f # None /\ Hands(Chosen)[r] = f
  BY NoneAssumption, HandsOf
<1>4. Hands(Chosen)' = [Hands(Chosen) EXCEPT ![r] = None]
  BY HandChanges
<1>5. ~Queued(Chosen, f) /\ ~InUse(Chosen, f) /\ \A s \in Readers \ {r} : Offered(Chosen, s) # f
  BY <1>3, OfferedOnce
<1>6. \A g : InUse(Chosen, g)' = InUse(Chosen, g)
  BY DEF InUse, OffersOnly
<1>7. ASSUME NEW g \in Frames
      PROVE  (\A s \in Readers : Offered(Chosen, s)' # g) <=> g = f \/ \A s \in Readers : Offered(Chosen, s) # g
  BY <1>5, NoneAssumption DEF OffersOnly
<1>f. FreeFor(Chosen) \subseteq Frames /\ FreeFor(Chosen)' \subseteq Frames
  BY DEF FreeFor
<1>u. policy'[Chosen] = policy[Chosen] /\ closed'[Chosen] = closed[Chosen]
  BY DEF OffersOnly
<1>a. ASSUME Insert(Chosen, f) PROVE ConsumerQueue!Put(r)
  <2>1. ~closed[Chosen] /\ ~Full(Chosen) /\ queue'[Chosen] = Append(queue[Chosen], f)
    BY <1>a, <1>1 DEF Insert
  <2>2. ToSet(Append(queue[Chosen], f)) = ToSet(queue[Chosen]) \cup {f}
    BY <1>1, AppendDistinct
  <2>3. \A g \in Frames : Queued(Chosen, g)' <=> Queued(Chosen, g) \/ g = f
    BY <2>1, <2>2 DEF Queued
  <2>4. ASSUME NEW g \in Frames PROVE g \in FreeFor(Chosen)' <=> g \in FreeFor(Chosen)
    <3>1. CASE g = f
      BY <3>1, <2>3, FreeIs
    <3>2. CASE g # f
      BY <3>2, <2>3, <1>6, <1>7, FreeIs
    <3> QED
      BY <3>1, <3>2
  <2>5. FreeFor(Chosen)' = FreeFor(Chosen)
    BY <2>4, <1>f
  <2> QED
    BY <1>2, <1>3, <1>4, <1>u, <2>1, <2>5 DEF ConsumerQueue!Put, ConsumerQueue!Full
<1>b. ASSUME DropOldest(Chosen, f) PROVE ConsumerQueue!Replace(r)
  <2>1. /\ ~closed[Chosen] /\ Full(Chosen) /\ policy[Chosen] = "DropOldest"
        /\ queue'[Chosen] = Append(Tail(queue[Chosen]), f)
    BY <1>b, <1>1 DEF DropOldest
  <2>2. queue[Chosen] # <<>>
    BY <1>1, <1>2, <2>1, CapAssumption
  <2>3. PICK h \in Frames : h = Head(queue[Chosen])
    BY <1>1, <2>2
  <2>4. PICK q \in Seq(Frames) : /\ q = Tail(queue[Chosen])
                                 /\ ToSet(q) = ToSet(queue[Chosen]) \ {h}
                                 /\ h \in ToSet(queue[Chosen])
    BY <1>1, <2>2, <2>3, TailDistinct
  <2>5. ToSet(Append(q, f)) = ToSet(q) \cup {f}
    BY AppendDistinct
  <2>6. \A g \in Frames : Queued(Chosen, g)' <=> (Queued(Chosen, g) /\ g # h) \/ g = f
    BY <2>1, <2>4, <2>5 DEF Queued
  <2>7. /\ Queued(Chosen, h) /\ h # f /\ ~InUse(Chosen, h)
        /\ \A s \in Readers : Offered(Chosen, s) # h
    <3>1. Queued(Chosen, h) /\ h # f /\ h # None
      BY <2>4, <1>5, NoneAssumption DEF Queued
    <3>2. ~InUse(Chosen, h)
      BY <3>1 DEF IInv, OwnedOnce
    <3> QED
      BY <3>1, <3>2, OfferedOnce
  <2>8. ASSUME NEW g \in Frames PROVE g \in FreeFor(Chosen)' <=> g \in FreeFor(Chosen) \/ g = h
    <3>1. CASE g = f
      BY <3>1, <2>6, <2>7, FreeIs
    <3>2. CASE g # f
      BY <3>2, <2>6, <2>7, <1>6, <1>7, FreeIs
    <3> QED
      BY <3>1, <3>2
  <2>9. FreeFor(Chosen)' = FreeFor(Chosen) \cup {Head(queue[Chosen])}
    BY <2>3, <2>8, <1>f
  <2> QED
    BY <1>2, <1>3, <1>4, <1>u, <2>1, <2>9 DEF ConsumerQueue!Replace, ConsumerQueue!Full
<1>c. ASSUME Refuse(Chosen, f) PROVE ConsumerQueue!Refuse(r)
  <2>1. (closed[Chosen] \/ (Full(Chosen) /\ policy[Chosen] = "DropNewest")) /\ queue'[Chosen] = queue[Chosen]
    BY <1>c DEF Refuse
  <2>2. \A g \in Frames : Queued(Chosen, g)' <=> Queued(Chosen, g)
    BY <2>1 DEF Queued
  <2>3. ASSUME NEW g \in Frames PROVE g \in FreeFor(Chosen)' <=> g \in FreeFor(Chosen) \/ g = f
    <3>1. CASE g = f
      BY <3>1, <2>2, <1>5, <1>6, <1>7, FreeIs
    <3>2. CASE g # f
      BY <3>2, <2>2, <1>6, <1>7, FreeIs
    <3> QED
      BY <3>1, <3>2
  <2>4. FreeFor(Chosen)' = FreeFor(Chosen) \cup {f}
    BY <2>3, <1>f
  <2> QED
    BY <1>2, <1>3, <1>4, <1>u, <2>1, <2>4 DEF ConsumerQueue!Refuse, ConsumerQueue!Full
<1> QED
  BY <1>a, <1>b, <1>c DEF Enqueue

\* A read loop's step concerns the read loop and the frames only, and the queue that it
\* enqueues to.
LEMMA ReaderLocal ==
    ASSUME IInv, NEW r \in Readers, Read(r) \/ RouteStep(r), NEW c \in Consumers
    PROVE  OffersOnly(c, r)
<1> USE DEF routerVars, readerVars, threadVars, fixedVars, frameVars
<1>t. /\ rpc \in [Readers -> {"read", "route", "share", "copy"}]
      /\ rframe \in [Readers -> Frames \cup {None}] /\ rcopy \in [Readers -> Frames \cup {None}]
      /\ todo \in [Readers -> Seq(Consumers)]
  BY DEF IInv, TypeOK
<1>1. UNCHANGED <<cframe, closed, policy>>
  BY DEF Read, RouteStep, Discard, Route, ShareStep, CopyFrame, CopyStep, RouteReturn
<1>2. ASSUME NEW s \in Readers \ {r} PROVE Offered(c, s)' = Offered(c, s)
  <2>1. rpc'[s] = rpc[s] /\ rframe'[s] = rframe[s]
    BY <1>t DEF Read, RouteStep, Discard, Route, ShareStep, CopyFrame, CopyStep, RouteReturn
  <2>2. todo'[s] = todo[s]
    BY <1>t DEF Read, RouteStep, Discard, Route, ShareStep, CopyFrame, CopyStep, RouteReturn
  <2>3. rcopy'[s] = rcopy[s]
    BY <1>t DEF Read, RouteStep, Discard, Route, ShareStep, CopyFrame, CopyStep, RouteReturn
  <2> QED
    BY <2>1, <2>2, <2>3, OfferedKept
<1> QED
  BY <1>1, <1>2 DEF OffersOnly

\* A read loop's step that neither changes the consumer's queue nor what it offers to it.
LEMMA ReaderQuiet ==
    ASSUME NEW c \in Consumers, NEW r \in Readers, OffersOnly(c, r), queue'[c] = queue[c],
           Offered(c, r)' = Offered(c, r)
    PROVE  Quiet(c)
  BY DEF OffersOnly, Quiet

\* A message arrives, or a read loop is done with its frame: nothing for the consumer.
LEMMA OutsideQuiet ==
    ASSUME IInv, NEW r \in Readers, Read(r) \/ Discard(r) \/ RouteReturn(r), NEW c \in Consumers
    PROVE  Quiet(c)
<1>1. OffersOnly(c, r)
  BY ReaderLocal DEF RouteStep
<1>2. /\ rpc \in [Readers -> {"read", "route", "share", "copy"}]
      /\ rcopy[r] # None => rpc[r] = "copy" /\ todo[r] # <<>>
  BY DEF IInv, TypeOK
<1>3. queue' = queue /\ rcopy' = rcopy
  BY DEF Read, Discard, RouteReturn
<1>4. rcopy[r] = None
  BY <1>2 DEF Read, Discard, RouteReturn, RLocked
<1>5. Offered(c, r) = None
  <2>1. rpc[r] = "share" => todo[r] = <<>>
    BY <1>2 DEF Read, Discard, RouteReturn
  <2>2. ToSet(<<>>) = {}
    BY DEF ToSet
  <2> QED
    BY <1>4, <2>1, <2>2 DEF Offered
<1>6. Offered(c, r)' = None
  <2>1. rpc'[r] \in {"read", "route"}
    BY <1>2 DEF Read, Discard, RouteReturn
  <2> QED
    BY <1>3, <1>4, <2>1 DEF Offered
<1> QED
  BY <1>1, <1>3, <1>5, <1>6, ReaderQuiet

\* Route: in shared mode the read loop begins to offer its frame to every consumer of the
\* list; in copy mode there is nothing to give yet.
LEMMA RouteOffers ==
    ASSUME IInv, NEW r \in Readers, Route(r)
    PROVE  ConsumerQueue!Offer(r) \/ Quiet(Chosen)
<1> USE ChosenAssumption
<1>1. OffersOnly(Chosen, r)
  BY ReaderLocal DEF RouteStep
<1>2. /\ rpc \in [Readers -> {"read", "route", "share", "copy"}]
      /\ rpc[r] = "route" /\ rframe[r] \in Frames /\ rcopy[r] = None
      /\ UNCHANGED <<queue, rframe, rcopy>>
  BY DEF IInv, TypeOK, Route
<1>3. Offered(Chosen, r) = None
  BY <1>2 DEF Offered
<1>4. Offered(Chosen, r)' \in {None, rframe[r]}
  BY <1>2 DEF Offered
<1>5. rframe[r] \in FreeFor(Chosen)
  <2>1. ReaderOwns(r, rframe[r])
    BY <1>2 DEF ReaderOwns
  <2>2. Owners(rframe[r]) = {r}
    BY <1>2, <2>1 DEF IInv, OwnedOnce
  <2>3. ASSUME NEW s \in Readers, rcopy[s] = rframe[r] PROVE FALSE
    <3>1. ReaderOwns(s, rframe[r])
      BY <2>3 DEF ReaderOwns
    <3>2. s = r
      BY <3>1, <2>2, OwnersMember
    <3> QED
      BY <3>2, <2>3, <1>2, NoneAssumption
  <2>4. Chosen \notin Owners(rframe[r])
    BY <2>2, ThreadsAssumption
  <2> QED
    BY <1>2, <2>3, <2>4, OthersAreFree
<1>6. CASE Offered(Chosen, r)' = None
  BY <1>6, <1>1, <1>2, <1>3, ReaderQuiet
<1>7. CASE Offered(Chosen, r)' = rframe[r]
  BY <1>7, <1>1, <1>2, <1>3, <1>5, BeginsToOffer
<1> QED
  BY <1>4, <1>6, <1>7

\* copyFrame: the copy comes from the pool, for the consumer that is next.
LEMMA CopyOffers ==
    ASSUME IInv, NEW r \in Readers, CopyFrame(r)
    PROVE  ConsumerQueue!Offer(r) \/ Quiet(Chosen)
<1> USE ChosenAssumption
<1>1. OffersOnly(Chosen, r)
  BY ReaderLocal DEF RouteStep
<1>2. PICK f \in Frames : NewFrame(f, ftopic[rframe[r]]) /\ rcopy' = [rcopy EXCEPT ![r] = f]
  BY DEF CopyFrame
<1>3. /\ rcopy \in [Readers -> Frames \cup {None}]
      /\ rpc[r] = "copy" /\ rcopy[r] = None /\ UNCHANGED <<rpc, rframe, todo, queue>>
  BY DEF IInv, TypeOK, CopyFrame
<1>4. Offered(Chosen, r) = None /\ Offered(Chosen, r)' \in {None, f}
  BY <1>2, <1>3 DEF Offered
<1>5. f \in FreeFor(Chosen)
  <2>1. Owners(f) = {}
    BY <1>2, PooledUnowned DEF NewFrame, IInv
  <2>2. \A s \in Readers : rcopy[s] # f
    BY <2>1, OwnersMember DEF ReaderOwns
  <2> QED
    BY <2>1, <2>2, OthersAreFree
<1>6. CASE Offered(Chosen, r)' = None
  BY <1>6, <1>1, <1>3, <1>4, ReaderQuiet
<1>7. CASE Offered(Chosen, r)' = f
  BY <1>7, <1>1, <1>3, <1>4, <1>5, BeginsToOffer
<1> QED
  BY <1>4, <1>6, <1>7

\* A turn of Route's loop, on the consumer's queue or on another one.
LEMMA TurnDelivers ==
    ASSUME IInv, NEW r \in Readers, ShareStep(r) \/ CopyStep(r)
    PROVE  \/ ConsumerQueue!Put(r) \/ ConsumerQueue!Replace(r) \/ ConsumerQueue!Refuse(r)
           \/ Quiet(Chosen)
<1> USE ChosenAssumption
<1>1. OffersOnly(Chosen, r)
  BY ReaderLocal DEF RouteStep
<1>2. /\ todo \in [Readers -> Seq(Consumers)] /\ todo[r] \in Seq(Consumers) /\ Distinct(todo[r])
      /\ queue \in [Consumers -> Seq(Frames)] /\ rcopy \in [Readers -> Frames \cup {None}]
      /\ rframe[r] \in Frames \cup {None}
      /\ rpc[r] # "read" <=> rframe[r] # None
      /\ rcopy[r] # None => rpc[r] = "copy" /\ todo[r] # <<>>
  BY DEF IInv, TypeOK, OwnedOnce
<1>3. /\ todo[r] # <<>> /\ rpc' = rpc /\ rframe' = rframe /\ todo'[r] = Tail(todo[r]) /\ rcopy'[r] = None
      /\ rpc[r] \in {"share", "copy"} /\ (rpc[r] = "copy" => rcopy[r] # None)
  BY <1>2 DEF ShareStep, CopyStep
<1>4. PICK d \in Consumers : d = Head(todo[r])
  BY <1>2, <1>3
<1>5. d \in ToSet(todo[r]) /\ ToSet(Tail(todo[r])) = ToSet(todo[r]) \ {d}
  BY <1>2, <1>3, <1>4, TailDistinct
<1>6. PICK f \in Frames : Enqueue(d, f) /\ f = IF rpc[r] = "share" THEN rframe[r] ELSE rcopy[r]
  BY <1>2, <1>3, <1>4 DEF ShareStep, CopyStep
<1>7. Offered(Chosen, r)' = IF rpc[r] = "share" /\ Chosen \in ToSet(todo[r]) \ {d} THEN rframe[r] ELSE None
  BY <1>3, <1>5 DEF Offered
<1>8. CASE d = Chosen
  <2>1. Offered(Chosen, r) = f /\ Offered(Chosen, r)' = None
    BY <1>3, <1>4, <1>5, <1>6, <1>7, <1>8 DEF Offered
  <2> QED
    BY <2>1, <1>1, <1>6, <1>8, Delivers
<1>9. CASE d # Chosen
  <2>1. queue'[Chosen] = queue[Chosen]
    BY <1>2, <1>6, <1>9 DEF Enqueue, Insert, DropOldest, Refuse
  <2>2. Offered(Chosen, r)' = Offered(Chosen, r)
    BY <1>2, <1>3, <1>4, <1>5, <1>7, <1>9 DEF Offered
  <2> QED
    BY <1>1, <2>1, <2>2, ReaderQuiet
<1> QED
  BY <1>8, <1>9

\* A step of a consumer's thread, or of its owner, leaves the read loops alone.
LEMMA OffersKept ==
    ASSUME UNCHANGED readerVars
    PROVE  \A c \in Consumers, r \in Readers : Offered(c, r)' = Offered(c, r)
  BY DEF readerVars, Offered

\* The consumer takes the oldest frame; its thread ending changes nothing.
LEMMA NextFrameGets ==
    ASSUME IInv, NextFrame(Chosen)
    PROVE  ConsumerQueue!Get(Chosen) \/ Quiet(Chosen)
<1> USE ChosenAssumption
<1>1. /\ queue \in [Consumers -> Seq(Frames)] /\ queue[Chosen] \in Seq(Frames) /\ Distinct(queue[Chosen])
      /\ cframe \in [Consumers -> Frames \cup {None}]
      /\ cpc[Chosen] = "use" <=> cframe[Chosen] # None
  BY DEF IInv, TypeOK, OwnedOnce
<1>2. /\ UNCHANGED <<closed, policy>> /\ cframe[Chosen] = None
      /\ \A r \in Readers : Offered(Chosen, r)' = Offered(Chosen, r)
  BY <1>1, OffersKept DEF NextFrame, fixedVars
<1>3. CASE queue[Chosen] = <<>>
  BY <1>2, <1>3 DEF NextFrame, Quiet
<1>4. CASE queue[Chosen] # <<>>
  <2>1. PICK h \in Frames : h = Head(queue[Chosen])
    BY <1>1, <1>4
  <2>2. queue'[Chosen] = Tail(queue[Chosen]) /\ cframe' = [cframe EXCEPT ![Chosen] = h]
    BY <1>1, <1>4, <2>1 DEF NextFrame
  <2>3. h \in ToSet(queue[Chosen]) /\ ToSet(Tail(queue[Chosen])) = ToSet(queue[Chosen]) \ {h}
    BY <1>1, <1>4, <2>1, TailDistinct
  <2>4. Hands(Chosen)' = [Hands(Chosen) EXCEPT ![Chosen] = h]
    BY <1>1, <1>2, <2>2 DEF Hands
  <2>5. \A g \in Frames : /\ Queued(Chosen, g)' <=> Queued(Chosen, g) /\ g # h
                          /\ InUse(Chosen, g)' <=> g = h
                          /\ ~InUse(Chosen, g)
    BY <1>1, <1>2, <2>2, <2>3, NoneAssumption DEF Queued, InUse
  <2>6. Queued(Chosen, h)
    BY <2>3 DEF Queued
  <2>7. FreeFor(Chosen)' = FreeFor(Chosen)
    <3>1. \A g \in Frames : g \in FreeFor(Chosen)' <=> g \in FreeFor(Chosen)
      BY <1>2, <2>5, <2>6, FreeIs
    <3> QED
      BY <3>1 DEF FreeFor
  <2>8. Hands(Chosen)[Chosen] = None
    BY <1>2, HandsOf
  <2>9. ConsumerQueue!Get(Chosen)
    BY <1>2, <1>4, <2>1, <2>2, <2>4, <2>7, <2>8 DEF ConsumerQueue!Get
  <2> QED
    BY <2>9
<1> QED
  BY <1>3, <1>4

\* The consumer has finished with its frame.
LEMMA UsedIsDone ==
    ASSUME IInv, Used(Chosen)
    PROVE  ConsumerQueue!Done(Chosen)
<1> USE ChosenAssumption
<1>1. /\ cframe \in [Consumers -> Frames \cup {None}]
      /\ cpc[Chosen] = "use" <=> cframe[Chosen] # None
  BY DEF IInv, TypeOK
<1>2. /\ UNCHANGED <<queue, closed, policy>> /\ cframe' = [cframe EXCEPT ![Chosen] = None]
      /\ \A r \in Readers : Offered(Chosen, r)' = Offered(Chosen, r)
  BY OffersKept DEF Used, fixedVars
<1>3. PICK f \in Frames : f = cframe[Chosen] /\ f # None
  BY <1>1 DEF Used
<1>4. Hands(Chosen)' = [Hands(Chosen) EXCEPT ![Chosen] = None] /\ Hands(Chosen)[Chosen] = f
  <2>1. Hands(Chosen)[Chosen] = f
    BY <1>3, HandsOf
  <2> QED
    BY <1>1, <1>2, <2>1 DEF Hands
<1>5. InUse(Chosen, f) /\ ~Queued(Chosen, f) /\ \A r \in Readers : Offered(Chosen, r) # f
  <2>1. InUse(Chosen, f)
    BY <1>3 DEF InUse
  <2>2. ~Queued(Chosen, f)
    BY <2>1 DEF IInv, OwnedOnce
  <2> QED
    BY <2>1, <2>2, <1>3, OfferedOnce
<1>6. \A g \in Frames : /\ Queued(Chosen, g)' <=> Queued(Chosen, g)
                        /\ ~InUse(Chosen, g)'
                        /\ InUse(Chosen, g) <=> g = f
  BY <1>1, <1>2, <1>3, NoneAssumption DEF Queued, InUse
<1>7. \A g \in Frames : g \in FreeFor(Chosen)' <=> g \in FreeFor(Chosen) \/ g = f
  BY <1>2, <1>5, <1>6, FreeIs
<1>8. FreeFor(Chosen)' = FreeFor(Chosen) \cup {f}
  BY <1>7 DEF FreeFor
<1> QED
  BY <1>2, <1>3, <1>4, <1>8 DEF ConsumerQueue!Done

\* Close releases what is queued.
LEMMA CloseCloses ==
    ASSUME IInv, Close(Chosen)
    PROVE  ConsumerQueue!Close
<1> USE ChosenAssumption
<1>1. /\ queue \in [Consumers -> Seq(Frames)] /\ queue[Chosen] \in Seq(Frames)
      /\ closed \in [Consumers -> BOOLEAN]
  BY DEF IInv, TypeOK
<1>2. /\ ~closed[Chosen] /\ closed'[Chosen] = TRUE /\ queue'[Chosen] = <<>> /\ UNCHANGED <<policy, cframe>>
      /\ \A r \in Readers : Offered(Chosen, r)' = Offered(Chosen, r)
  BY <1>1, OffersKept DEF Close, threadVars
<1>3. Hands(Chosen)' = Hands(Chosen)
  BY <1>2 DEF Hands
<1>4. \A g \in Frames : ~Queued(Chosen, g)' /\ InUse(Chosen, g)' = InUse(Chosen, g)
  BY <1>2 DEF Queued, InUse, ToSet
<1>5. ASSUME NEW g \in Frames, Queued(Chosen, g)
      PROVE  ~InUse(Chosen, g) /\ \A r \in Readers : Offered(Chosen, r) # g
  <2>1. ~InUse(Chosen, g)
    BY <1>5 DEF IInv, OwnedOnce
  <2> QED
    BY <2>1, <1>5, OfferedOnce, NoneAssumption
<1>6. \A g \in Frames : g \in FreeFor(Chosen)' <=> g \in FreeFor(Chosen) \/ Queued(Chosen, g)
  BY <1>2, <1>4, <1>5, FreeIs
<1>7. ToSet(queue[Chosen]) \subseteq Frames
  BY <1>1 DEF ToSet
<1>8. FreeFor(Chosen)' = FreeFor(Chosen) \cup ToSet(queue[Chosen])
  BY <1>6, <1>7 DEF FreeFor, Queued
<1>9. ToSet(queue[Chosen]) = ConsumerQueue!ToSet(queue[Chosen])
  BY DEF ToSet, ConsumerQueue!ToSet
<1> QED
  BY <1>2, <1>3, <1>8, <1>9 DEF ConsumerQueue!Close

\* The other consumers, and calls on the router, change nothing for this one.
LEMMA OthersQuiet ==
    ASSUME IInv, NEW c \in Consumers,
           \/ \E d \in Consumers \ {c} : NextFrame(d) \/ Used(d) \/ Close(d)
           \/ \E op \in Ops : Call(op)
           \/ Apply
           \/ UNCHANGED vars
    PROVE  Quiet(c)
<1> USE DEF routerVars, threadVars, fixedVars, frameVars
<1>1. UNCHANGED readerVars
  BY DEF NextFrame, Used, Close, Call, Apply, vars
<1>2. /\ queue \in [Consumers -> Seq(Frames)] /\ closed \in [Consumers -> BOOLEAN]
      /\ cframe \in [Consumers -> Frames \cup {None}]
  BY DEF IInv, TypeOK
<1>3. queue'[c] = queue[c] /\ cframe'[c] = cframe[c] /\ closed'[c] = closed[c] /\ policy' = policy
  <2>1. ASSUME NEW d \in Consumers \ {c}, NextFrame(d) \/ Used(d) \/ Close(d)
        PROVE  queue'[c] = queue[c] /\ cframe'[c] = cframe[c] /\ closed'[c] = closed[c] /\ policy' = policy
    BY <1>2, <2>1 DEF NextFrame, Used, Close
  <2>2. CASE \E op \in Ops : Call(op)
    BY <2>2 DEF Call
  <2>3. CASE Apply
    BY <2>3 DEF Apply
  <2>4. CASE UNCHANGED vars
    BY <2>4 DEF vars
  <2> QED
    BY <2>1, <2>2, <2>3, <2>4
<1> QED
  BY <1>1, <1>3, OffersKept DEF Quiet

\* A step of the fan-out is a step of the consumer's queue, or none.
LEMMA QueueStep == ASSUME IInv, [Next]_vars PROVE [ConsumerQueue!Next]_(ConsumerQueue!vars)
<1> USE ChosenAssumption
<1>1. ASSUME NEW r \in Readers, Read(r) \/ RouteStep(r) PROVE ConsumerQueue!Next \/ Quiet(Chosen)
  <2>1. CASE Read(r) \/ Discard(r) \/ RouteReturn(r)
    BY <2>1, OutsideQuiet
  <2>2. CASE Route(r) \/ CopyFrame(r)
    BY <2>2, RouteOffers, CopyOffers DEF ConsumerQueue!Next
  <2>3. CASE ShareStep(r) \/ CopyStep(r)
    BY <2>3, TurnDelivers DEF ConsumerQueue!Next
  <2> QED
    BY <1>1, <2>1, <2>2, <2>3 DEF RouteStep
<1>2. ASSUME NextFrame(Chosen) \/ Used(Chosen) \/ Close(Chosen) PROVE ConsumerQueue!Next \/ Quiet(Chosen)
  BY <1>2, NextFrameGets, UsedIsDone, CloseCloses DEF ConsumerQueue!Next
<1>3. ConsumerQueue!Next \/ Quiet(Chosen)
  BY <1>1, <1>2, OthersQuiet DEF Next
<1> QED
  BY <1>3, QuietStutters

\* Every consumer's queue, however the router, the read loops and the other consumers
\* drive it, is the bounded FIFO that FrameQueue implements: the reference counts let a
\* shared frame be in several queues, but never twice on one consumer's hands, so each
\* queue can be understood as if it had its frames for itself.
THEOREM ConsumerQueueRefined == Spec => ImplementsConsumerQueue
<1>1. Init => ConsumerQueue!Init
  <2> SUFFICES ASSUME Init PROVE ConsumerQueue!Init
    OBVIOUS
  <2>1. /\ policy[Chosen] \in {"Block", "DropOldest", "DropNewest"}
        /\ queue[Chosen] = <<>> /\ closed[Chosen] = FALSE /\ cframe[Chosen] = None
    BY ChosenAssumption, ModesAssumption DEF Init
  <2>2. \A r \in Readers : Offered(Chosen, r) = None
    BY DEF Init, Offered
  <2>3. Hands(Chosen) = [t \in Readers \cup {Chosen} |-> None]
    BY <2>1, <2>2 DEF Hands
  <2>4. FreeFor(Chosen) = Frames
    <3>1. \A f \in Frames : ~Queued(Chosen, f) /\ ~InUse(Chosen, f)
      BY <2>1, NoneAssumption DEF Queued, InUse, ToSet
    <3> QED
      BY <2>2, <3>1, NoneAssumption DEF FreeFor, Queued, InUse
  <2> QED
    BY <2>1, <2>3, <2>4 DEF ConsumerQueue!Init
<1>2. IInv /\ [Next]_vars => [ConsumerQueue!Next]_(ConsumerQueue!vars)
  BY QueueStep
<1> QED
  BY <1>1, <1>2, Invariance, PTL DEF Spec, ConsumerQueue!Spec, ImplementsConsumerQueue
=============================================================================
