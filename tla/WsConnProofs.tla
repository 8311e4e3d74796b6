----------------------------- MODULE WsConnProofs -----------------------------
(***************************************************************************)
(* Proofs about WsConn, for any bucket sizes, any frames from the peer and *)
(* any number of dials, headers, writes and faults.                        *)
(***************************************************************************)
EXTENDS WsConn, FiniteSetTheorems, SequenceTheorems, TLAPS

-----------------------------------------------------------------------------
(* The inductive invariant.                                                *)

\* A size some bucket of the pool has.
Bucket(size) == \E i \in DOMAIN Sizes : size = Sizes[i]

\* The bytes a buffer must hold to take up the message that is pending.
Need(c) == Len(pending[c].data) + pending[c].frame.len

Runs == [pc : {"dial", "tls", "upgrade", "up", "run", "write", "close", "end"}, c : 0 .. MaxConns, stop : BOOLEAN]
WriteCalls == [st : {"idle", "lock", "head", "body", "ok", "failed"}, op : {"none", "pong", "close", "data"},
               len : Nat, tag : Nat]
Parts == [part : {"head", "body"}, by : Writers, op : {"none", "pong", "close", "data"}, len : Nat, tag : Nat]
Reads == [pc : {"off", "get", "head", "data", "ctrl", "pong", "grow", "store", "route", "done"},
          cap : Nat, got : Seq(Nat), mt : {"none", "text", "binary"}, frame : Frames \cup {<<>>},
          tag : Nat, next : Nat, err : {"none", "protocol", "toolarge", "eof", "conn"}]
Kept == [data : Seq(Nat), mt : {"text", "binary"}, frame : Frames, tag : Nat]

\* What every variable is, as far as the argument needs it.
Types ==
    /\ run \in Runs
    /\ sock \in [Conns -> {"none", "open", "broken", "closed"}]
    /\ mu \in [Conns -> Writers \cup {Nobody}]
    /\ wr \in [Conns -> [Writers -> WriteCalls]]
    /\ out \in [Conns -> Seq(Parts)]
    /\ rd \in [Conns -> Reads]
    /\ pending \in [Conns -> Kept \cup {None}]
    /\ owed \in [Conns -> Nat]
    /\ sent \in [Conns -> Seq(Frames)]
    /\ lost \subseteq Conns
    /\ headers \in 0 .. MaxHeaders /\ writes \in 0 .. MaxWrites /\ faults \in 0 .. MaxFaults
    /\ panicked \in BOOLEAN

\* A connection that is still to be dialled has no reader, and runSession starts the
\* reader of the present one only once.
Fresh ==
    /\ run.pc \notin {"dial", "end"} => run.c \in Conns
    /\ \A c \in Conns : c > run.c => rd[c].pc = "off"
    /\ run.pc \in {"tls", "upgrade", "up"} => rd[run.c].pc = "off"

\* The buffer of a Read is a bucket, and what was read and is about to be read fits.
Fits(c) ==
    /\ rd[c].pc \in {"head", "data", "ctrl", "pong", "grow"} => Bucket(rd[c].cap)
    /\ Len(rd[c].got) <= rd[c].cap
    /\ rd[c].pc \in {"data", "ctrl"} => rd[c].frame \in Frames
    /\ rd[c].pc = "data" => rd[c].mt # "none" /\ Len(rd[c].got) + rd[c].frame.len <= rd[c].cap
    /\ rd[c].err # "none" => rd[c].pc = "done"

\* A message is pending only between the Read that could not hold it and the one that can.
PendingAt(c) == pending[c] # None => rd[c].pc \in {"get", "grow", "store", "done"}

\* Payload bytes stand before the next header only while their frame is being read or is
\* pending, until a frame longer than maxPayloadLen comes.
OwedAt(c) ==
    /\ c \in lost => Big(c)
    /\ owed[c] # 0 => Big(c) \/ rd[c].pc \in {"data", "ctrl", "done"} \/ pending[c] # None

\* readLoop grows its buffer only for a message that the present one does not hold.
Growing(c) ==
    /\ rd[c].pc = "grow" => Big(c) \/ Need(c) > rd[c].cap
    /\ rd[c].pc = "store" => Bucket(rd[c].next) /\ (rd[c].next > MaxAlloc => Beyond(c))
    /\ rd[c].err = "toolarge" => Beyond(c)

\* session.frameSize is a bucket, and beyond what can be allocated only for such a message.
SizeNeeded ==
    /\ Bucket(frameSize)
    /\ frameSize > MaxAlloc /\ Conns # {} => \E c \in Conns : Beyond(c)
    /\ panicked => \E c \in Conns : Beyond(c)

Reading == Types /\ Fresh /\ SizeNeeded /\ \A c \in Conns : Fits(c) /\ PendingAt(c) /\ OwedAt(c) /\ Growing(c)

\* wsConn.mu is held exactly between a frame's first write and its last.
Exclusive(c) == \A p \in Writers : wr[c][p].st \in {"head", "body"} <=> mu[c] = p

\* Each side has one writeFrame under way at a time: the reader while it answers a ping,
\* session.run while it writes a frame or closes the connection it has.
Callers(c) ==
    /\ wr[c]["reader"].st # "idle" => rd[c].pc = "pong"
    /\ wr[c]["run"].st # "idle" => c = run.c /\ run.pc \in {"write", "close"}
    /\ wr[c]["run"].op # "pong"
    /\ c > run.c => out[c] = <<>>

OpenHead(x) == x.part = "head" /\ x.len > 0

\* A header whose payload is still to come is the last thing written, by the one who holds
\* the mutex.
HalfWritten(c) ==
    /\ \A p \in Writers : wr[c][p].st = "body" =>
          out[c] # <<>> /\ out[c][Len(out[c])] = Part(c, p, "head") /\ wr[c][p].len > 0
    /\ sock[c] = "open" /\ out[c] # <<>> /\ OpenHead(out[c][Len(out[c])]) =>
          \E p \in Writers : wr[c][p].st = "body"

\* Every pong that was written answers a ping before the n-th frame.
PongsBefore(c, n) == \A i \in DOMAIN out[c] : IsPong(out[c][i]) => out[c][i].tag < n
PongsInTurn(c) ==
    /\ PongsBefore(c, Len(sent[c]) + 1)
    /\ rd[c].pc = "ctrl" /\ rd[c].tag > 0 => rd[c].tag <= Len(sent[c]) /\ PongsBefore(c, rd[c].tag)
    /\ wr[c]["reader"].st \in {"lock", "head"} /\ wr[c]["reader"].tag > 0 =>
          wr[c]["reader"].tag <= Len(sent[c]) /\ PongsBefore(c, wr[c]["reader"].tag)

\* OutboundWhole on one connection, in its three parts.
BodyAfterHead(c) ==
    \A i \in DOMAIN out[c] : out[c][i].part = "body" => i > 1 /\ out[c][i - 1] = [out[c][i] EXCEPT !.part = "head"]
HeadBeforeBody(c) ==
    \A i \in DOMAIN out[c] : OpenHead(out[c][i]) /\ i < Len(out[c]) => out[c][i + 1] = [out[c][i] EXCEPT !.part = "body"]
PongOrder(c) ==
    \A i, j \in DOMAIN out[c] : i < j /\ IsPong(out[c][i]) /\ IsPong(out[c][j]) => out[c][i].tag < out[c][j].tag

Writing ==
    \A c \in Conns : /\ Exclusive(c) /\ Callers(c) /\ HalfWritten(c) /\ PongsInTurn(c)
                     /\ BodyAfterHead(c) /\ HeadBeforeBody(c) /\ PongOrder(c)

IInv == Reading /\ Writing

-----------------------------------------------------------------------------
(* The bucket sizes.                                                       *)

Increasing(s) == \A i, j \in DOMAIN s : i < j => s[i] < s[j]

\* A set of numbers that is not empty has a least element.
LEMMA LeastOf == ASSUME NEW S \in SUBSET Nat, S # {} PROVE \E x \in S : \A y \in S : x <= y
<1> DEFINE Less == {ss \in Nat \X Nat : ss[1] < ss[2]}
<1>1. IsWellFoundedOn(Less, Nat)
  BY NatLessThanWellFounded, Zenon DEF OpToRel
<1> HIDE DEF Less
<1>2. PICK x \in S : \A y \in S : ~ (<<y, x>> \in Less)
  BY <1>1, WFMin
<1>3. ASSUME NEW y \in S PROVE x <= y
  <2>1. x \in Nat /\ y \in Nat /\ ~ (<<y, x>> \in Less)
    BY <1>2
  <2>2. ~ (y < x)
    BY <2>1 DEF Less
  <2> QED
    BY <2>1, <2>2
<1> QED
  BY <1>3

\* A finite set of numbers can be listed in increasing order.
LEMMA SortedExists ==
    ASSUME NEW S \in SUBSET Nat, IsFiniteSet(S)
    PROVE  \E s \in [1 .. Cardinality(S) -> S] : Increasing(s)
<1> DEFINE Listed(U) == \E s \in [1 .. Cardinality(U) -> U] : Increasing(s)
           Bad == {U \in FiniteSubsetsOf(S) : ~Listed(U)}
<1> SUFFICES ASSUME Bad # {} PROVE FALSE
  <2>1. S \in FiniteSubsetsOf(S)
    BY DEF FiniteSubsetsOf
  <2> QED
    BY <2>1
<1>1. PICK U \in Bad : \A V \in Bad : ~ (<<V, U>> \in StrictSubsetOrdering(S))
  <2>1. IsWellFoundedOn(StrictSubsetOrdering(S), FiniteSubsetsOf(S))
    BY FS_StrictSubsetOrderingWellFounded
  <2>2. Bad \subseteq FiniteSubsetsOf(S)
    OBVIOUS
  <2> HIDE DEF Bad
  <2> QED
    BY <2>1, <2>2, WFMin
<1>2. U \in SUBSET S /\ IsFiniteSet(U) /\ ~Listed(U)
  BY DEF FiniteSubsetsOf
<1>3. U # {}
  <2>1. SUFFICES ASSUME U = {} PROVE FALSE
    OBVIOUS
  <2>2. Cardinality(U) = 0
    BY <2>1, FS_EmptySet
  <2>3. [i \in 1 .. 0 |-> 0] \in [1 .. Cardinality(U) -> U]
    BY <2>2
  <2>4. Increasing([i \in 1 .. 0 |-> 0])
    BY DEF Increasing
  <2> QED
    BY <1>2, <2>3, <2>4
<1>4. PICK x \in U : \A y \in U : x <= y
  BY <1>2, <1>3, LeastOf
<1>5. PICK n \in Nat : n = Cardinality(U)
  BY <1>2, FS_CardinalityType
<1>6. IsFiniteSet(U \ {x}) /\ Cardinality(U \ {x}) = n - 1
  BY <1>2, <1>5, FS_RemoveElement
<1>7. Listed(U \ {x})
  <2>1. U \ {x} \in FiniteSubsetsOf(S)
    BY <1>2, <1>6 DEF FiniteSubsetsOf
  <2>2. <<U \ {x}, U>> \in StrictSubsetOrdering(S)
    BY <1>2 DEF StrictSubsetOrdering, FiniteSubsetsOf
  <2> QED
    BY <1>1, <2>1, <2>2
<1>8. PICK s \in [1 .. n - 1 -> U \ {x}] : Increasing(s)
  BY <1>6, <1>7
<1> DEFINE t == [i \in 1 .. n |-> IF i = 1 THEN x ELSE s[i - 1]]
<1>9. t \in [1 .. n -> U]
  BY <1>8
<1>10. Increasing(t)
  <2> SUFFICES ASSUME NEW i \in 1 .. n, NEW j \in 1 .. n, i < j PROVE t[i] < t[j]
    BY DEF Increasing
  <2>1. j - 1 \in 1 .. n - 1 /\ t[j] = s[j - 1] /\ s[j - 1] \in U \ {x}
    BY <1>8
  <2>2. CASE i = 1
    <3>1. x <= s[j - 1] /\ x # s[j - 1] /\ x \in Nat /\ s[j - 1] \in Nat
      BY <1>2, <1>4, <2>1
    <3> QED
      BY <2>1, <2>2, <3>1
  <2>3. CASE i # 1
    <3>1. i - 1 \in 1 .. n - 1 /\ t[i] = s[i - 1] /\ i - 1 < j - 1
      BY <2>3
    <3> QED
      BY <1>8, <2>1, <3>1 DEF Increasing
  <2> QED
    BY <2>2, <2>3
<1> HIDE DEF t
<1> QED
  BY <1>2, <1>5, <1>9, <1>10

\* newBufferPool keeps at least one bucket, and the sizes are positive and increasing.
LEMMA SizesList ==
    /\ Len(Sizes) \in Nat \ {0} /\ DOMAIN Sizes = 1 .. Len(Sizes)
    /\ \A i \in 1 .. Len(Sizes) : Sizes[i] \in Nat \ {0}
    /\ Increasing(Sizes)
<1> DEFINE kept == {x \in {Buckets[i] : i \in DOMAIN Buckets} : x > 0}
<1>1. Buckets \in Seq(Int) /\ Len(Buckets) \in Nat /\ DOMAIN Buckets = 1 .. Len(Buckets)
  BY WsConnAssumption
<1>2. kept # {}
  BY WsConnAssumption
<1>3. kept \subseteq Nat \ {0}
  BY <1>1
<1>4. IsFiniteSet(kept)
  <2> DEFINE used == {i \in DOMAIN Buckets : Buckets[i] > 0}
             f == [i \in used |-> Buckets[i]]
  <2>1. IsFiniteSet(used)
    <3>1. IsFiniteSet(1 .. Len(Buckets))
      BY <1>1, FS_Interval
    <3>2. used \in SUBSET (1 .. Len(Buckets))
      BY <1>1
    <3> HIDE DEF used
    <3> QED
      BY <3>1, <3>2, FS_Subset
  <2>2. f \in Surjection(used, kept)
    BY DEF Surjection
  <2> QED
    BY <2>1, <2>2, FS_Surjection
<1>5. Cardinality(kept) \in Nat \ {0}
  BY <1>2, <1>4, FS_CardinalityType, FS_EmptySet
<1>6. Sizes = CHOOSE s \in [1 .. Cardinality(kept) -> kept] : \A i, j \in DOMAIN s : i < j => s[i] < s[j]
  BY DEF Sizes, normalizeBucketSizes
<1>7. \E s \in [1 .. Cardinality(kept) -> kept] : \A i, j \in DOMAIN s : i < j => s[i] < s[j]
  BY <1>3, <1>4, SortedExists DEF Increasing
<1> HIDE DEF kept
<1>8. Sizes \in [1 .. Cardinality(kept) -> kept] /\ \A i, j \in DOMAIN Sizes : i < j => Sizes[i] < Sizes[j]
  BY <1>6, <1>7
<1>9. Sizes \in Seq(kept) /\ Len(Sizes) = Cardinality(kept)
  BY <1>5, <1>8, SeqDef
<1> QED
  BY <1>3, <1>5, <1>8, <1>9 DEF Increasing

\* The buckets around a size: SearchInts finds it, Get returns it, NextBucketSize the next.
LEMMA BucketOf ==
    ASSUME NEW i \in 1 .. Len(Sizes)
    PROVE  /\ SearchInts(Sizes[i]) = i
           /\ Get(Sizes[i]) = Sizes[i]
           /\ NextBucketSize(Sizes[i]) = IF i = Len(Sizes) THEN 0 ELSE Sizes[i + 1]
<1>1. /\ Len(Sizes) \in Nat \ {0}
      /\ \A j, k \in 1 .. Len(Sizes) : Sizes[j] \in Nat \ {0} /\ (j < k => Sizes[j] < Sizes[k])
  BY SizesList DEF Increasing
<1>2. /\ i \in 1 .. Len(Sizes) + 1
      /\ \A j \in 1 .. i - 1 : Sizes[j] < Sizes[i]
      /\ i = Len(Sizes) + 1 \/ Sizes[i] >= Sizes[i]
  BY <1>1
<1>3. ASSUME NEW k \in 1 .. Len(Sizes) + 1,
             \A j \in 1 .. k - 1 : Sizes[j] < Sizes[i],
             k = Len(Sizes) + 1 \/ Sizes[k] >= Sizes[i]
      PROVE  k = i
  <2>1. k <= i
    <3>1. SUFFICES ASSUME i < k PROVE FALSE
      BY <1>1
    <3> QED
      BY <1>1, <1>3, <3>1
  <2>2. ~(k < i)
    BY <1>1, <1>3
  <2> QED
    BY <1>1, <2>1, <2>2
<1>4. SearchInts(Sizes[i]) = i
  BY <1>2, <1>3 DEF SearchInts
<1> QED
  BY <1>1, <1>4 DEF Get, NextBucketSize

-----------------------------------------------------------------------------
(* Types.                                                                  *)

\* The constants that are numbers.
LEMMA Numbers == {MaxAlloc, MaxPayload, MaxControl, MaxConns, MaxHeaders, MaxWrites, MaxFaults} \subseteq Nat
BY WsConnAssumption

\* The fields of a frame.
LEMMA FrameFields == \A f \in Frames : f.op \in Opcodes /\ f.fin \in BOOLEAN /\ f.len \in Nat
BY WsConnAssumption

\* What is pending, or nothing, has bytes and a length.
LEMMA PendingFields ==
    ASSUME NEW q \in Kept \cup {None}
    PROVE  q.data \in Seq(Nat) /\ q.frame.len \in Nat /\ (q # None => q \in Kept)
<1>1. CASE q \in Kept
  BY <1>1, FrameFields DEF Kept
<1>2. CASE q = None
  <2>1. None.data = <<>> /\ None.frame.len = 0
    BY DEF None
  <2>2. <<>> \in Seq(Nat)
    BY EmptySeq
  <2> QED
    BY <1>2, <2>1, <2>2
<1> QED
  BY <1>1, <1>2

\* A reader that starts, or starts again, and one that ends.
LEMMA ReaderTypes ==
    /\ Reader \in Reads /\ Again \in Reads
    /\ \A e \in {"protocol", "toolarge", "eof", "conn"} : [Reader EXCEPT !.pc = "done", !.err = e] \in Reads
    /\ \A n \in Nat : /\ [Reader EXCEPT !.pc = "head", !.cap = n] \in Reads
                      /\ [Reader EXCEPT !.pc = "grow", !.cap = n] \in Reads
                      /\ [Reader EXCEPT !.pc = "store", !.next = n] \in Reads
BY EmptySeq DEF Reader, Again, Reads

\* One that goes on.
LEMMA ReadTypes ==
    ASSUME NEW r \in Reads
    PROVE  /\ \A pc \in {"head", "pong", "ctrl"} : [r EXCEPT !.pc = pc] \in Reads
           /\ \A got \in Seq(Nat), pc \in {"head", "route"} : [r EXCEPT !.pc = pc, !.got = got] \in Reads
           /\ \A f \in Frames, tag \in Nat, mt \in {"none", "text", "binary"} :
                 [r EXCEPT !.frame = f, !.tag = tag, !.mt = mt] \in Reads
BY DEF Reads

\* A writeFrame call that goes on, and one that starts or ends.
LEMMA CallTypes ==
    ASSUME Types, NEW c \in Conns, NEW p \in Writers
    PROVE  /\ wr[c][p] \in WriteCalls
           /\ \A st \in {"head", "body", "ok", "failed"} :
                 [wr EXCEPT ![c][p].st = st] \in [Conns -> [Writers -> WriteCalls]]
           /\ \A x \in WriteCalls : [wr EXCEPT ![c][p] = x] \in [Conns -> [Writers -> WriteCalls]]
<1>1. wr \in [Conns -> [Writers -> WriteCalls]] /\ wr[c] \in [Writers -> WriteCalls] /\ wr[c][p] \in WriteCalls
  BY DEF Types
<1>2. \A x \in WriteCalls : [wr EXCEPT ![c][p] = x] \in [Conns -> [Writers -> WriteCalls]]
  BY <1>1
<1>3. ASSUME NEW st \in {"head", "body", "ok", "failed"}
      PROVE  [wr EXCEPT ![c][p].st = st] \in [Conns -> [Writers -> WriteCalls]]
  <2>1. [wr[c][p] EXCEPT !.st = st] \in WriteCalls
    BY <1>1 DEF WriteCalls
  <2>2. [wr[c] EXCEPT ![p] = [wr[c][p] EXCEPT !.st = st]] \in [Writers -> WriteCalls]
    BY <1>1, <2>1
  <2>3. [wr EXCEPT ![c] = [wr[c] EXCEPT ![p] = [wr[c][p] EXCEPT !.st = st]]] \in [Conns -> [Writers -> WriteCalls]]
    BY <1>1, <2>2
  <2> QED
    BY <2>3, Zenon
<1> QED
  BY <1>1, <1>2, <1>3

\* A write to the socket.
LEMMA WriteTypes == ASSUME Types, NEW c \in Conns, NEW p \in Writers, WriteStep(c, p) PROVE Types'
<1> USE DEF connVars, streamVars
<1>1. wr' \in [Conns -> [Writers -> WriteCalls]] /\ mu' \in [Conns -> Writers \cup {Nobody}]
  <2>1. PICK st \in {"head", "body", "ok", "failed"} : wr' = [wr EXCEPT ![c][p].st = st]
    BY Zenon DEF WriteStep, Lock, WriteHeader, WritePayload, WriteFails, Result
  <2>2. mu' \in [Conns -> Writers \cup {Nobody}]
    BY DEF Types, WriteStep, Lock, WriteHeader, WritePayload, WriteFails, Result
  <2>3. [wr EXCEPT ![c][p].st = st] \in [Conns -> [Writers -> WriteCalls]]
    BY CallTypes
  <2> QED
    BY <2>1, <2>2, <2>3
<1>2. out' \in [Conns -> Seq(Parts)]
  <2>1. \A part \in {"head", "body"} : Part(c, p, part) \in Parts
    BY DEF Types, Part, Parts, WriteCalls
  <2>2. \A part \in {"head", "body"} : Append(out[c], Part(c, p, part)) \in Seq(Parts)
    BY <2>1, AppendProperties DEF Types
  <2> QED
    BY <2>2 DEF Types, WriteStep, Lock, WriteHeader, WritePayload, WriteFails
<1> QED
  BY <1>1, <1>2 DEF Types, WriteStep


\* The bucket a size is, and the one after it.
LEMMA Buckets1 ==
    ASSUME NEW size, Bucket(size)
    PROVE  /\ size \in Nat \ {0} /\ Get(size) = size
           /\ NextBucketSize(size) \in Nat
           /\ NextBucketSize(size) = 0 => \A i \in DOMAIN Sizes : Sizes[i] <= size
           /\ NextBucketSize(size) # 0 => /\ Bucket(NextBucketSize(size)) /\ NextBucketSize(size) > size
                                          /\ \A i \in DOMAIN Sizes : Sizes[i] < NextBucketSize(size) => Sizes[i] <= size
<1>1. /\ Len(Sizes) \in Nat \ {0} /\ DOMAIN Sizes = 1 .. Len(Sizes)
      /\ \A j, k \in 1 .. Len(Sizes) : Sizes[j] \in Nat \ {0} /\ (j < k => Sizes[j] < Sizes[k])
  BY SizesList DEF Increasing
<1>2. PICK i \in 1 .. Len(Sizes) : size = Sizes[i]
  BY <1>1 DEF Bucket
<1>3. /\ Get(size) = size /\ size \in Nat \ {0}
      /\ NextBucketSize(size) = IF i = Len(Sizes) THEN 0 ELSE Sizes[i + 1]
  BY <1>1, <1>2, BucketOf
<1>n. PICK n \in Nat \ {0} : n = Len(Sizes)
  BY <1>1
<1>4. CASE i = Len(Sizes)
  <2>1. \A j \in 1 .. Len(Sizes) : j = i \/ j < i
    BY <1>n, <1>4
  <2>2. \A j \in DOMAIN Sizes : Sizes[j] <= size
    BY <1>1, <1>2, <2>1
  <2> QED
    BY <1>3, <1>4, <2>2
<1>5. CASE i # Len(Sizes)
  <2>1. i + 1 \in 1 .. Len(Sizes) /\ i < i + 1
    BY <1>n, <1>5
  <2>2. \A j \in 1 .. Len(Sizes) : j = i \/ j < i \/ j = i + 1 \/ i + 1 < j
    BY <1>n
  <2>3. Sizes[i + 1] \in Nat \ {0} /\ Sizes[i + 1] > size
    BY <1>1, <1>2, <2>1
  <2>4. \A j \in 1 .. Len(Sizes) : Sizes[j] < Sizes[i + 1] => Sizes[j] <= size
    BY <1>1, <1>2, <2>1, <2>2
  <2>5. Bucket(Sizes[i + 1])
    BY <1>1, <2>1 DEF Bucket
  <2> QED
    BY <1>1, <1>3, <1>5, <2>3, <2>4, <2>5
<1> QED
  BY <1>4, <1>5

-----------------------------------------------------------------------------
(* One turn of a reader: what becomes of its own connection.               *)

Local(c) == Fits(c) /\ PendingAt(c) /\ OwedAt(c) /\ Growing(c)

\* The fields of a reader.
LEMMA ReadFields ==
    ASSUME Types, NEW c \in Conns
    PROVE  /\ rd[c] \in Reads /\ rd[c].cap \in Nat /\ rd[c].got \in Seq(Nat) /\ Len(rd[c].got) \in Nat
           /\ rd[c].mt \in {"none", "text", "binary"} /\ rd[c].tag \in Nat /\ rd[c].next \in Nat
           /\ pending[c] \in Kept \cup {None} /\ owed[c] \in Nat /\ sent[c] \in Seq(Frames)
BY LenProperties DEF Types, Reads

\* What is written of a reader stands in rd'.
LEMMA SetReader ==
    ASSUME Types, NEW c \in Conns, NEW q \in Reads, Set(c, q)
    PROVE  /\ rd' \in [Conns -> Reads] /\ rd'[c] = q
           /\ \A d \in Conns : d # c => rd'[d] = rd[d]
BY DEF Types, Set

\* The same without types.
LEMMA SetAt == ASSUME Types, NEW c \in Conns, NEW q, Set(c, q) PROVE rd'[c] = q
BY DEF Types, Set

\* The same bytes pending and the same frames sent: the same is too large.
LEMMA SameNeed ==
    ASSUME NEW c \in Conns, pending'[c] = pending[c], sent'[c] = sent[c]
    PROVE  (Big(c)' <=> Big(c)) /\ (Beyond(c)' <=> Beyond(c)) /\ Need(c)' = Need(c)
BY DEF Big, Beyond, Need

\* The header that is read adds to what was sent.
LEMMA BigStays ==
    ASSUME Types, NEW c \in Conns, NEW f \in Frames, sent'[c] = Append(sent[c], f)
    PROVE  (Big(c) => Big(c)') /\ (f.len > MaxPayload => Big(c)')
<1>1. /\ sent[c] \in Seq(Frames) /\ sent'[c] \in Seq(Frames) /\ Len(sent'[c]) = Len(sent[c]) + 1
      /\ \A i \in 1 .. Len(sent[c]) : sent'[c][i] = sent[c][i]
      /\ sent'[c][Len(sent[c]) + 1] = f
      /\ DOMAIN sent[c] = 1 .. Len(sent[c]) /\ DOMAIN sent'[c] = 1 .. Len(sent'[c]) /\ Len(sent[c]) \in Nat
  BY AppendProperties, LenProperties DEF Types
<1> QED
  BY <1>1 DEF Big

\* buf := Get(frameSize) and the start of Read.
LEMMA GetBufferLocal ==
    ASSUME Reading, NEW c \in Conns, GetBuffer(c)
    PROVE  rd' \in [Conns -> Reads] /\ pending' \in [Conns -> Kept \cup {None}] /\ Local(c)'
<1> DEFINE old == pending[c]
           fresh == [Reader EXCEPT !.pc = "head", !.cap = frameSize]
<1>1. Types /\ Local(c) /\ Bucket(frameSize) /\ frameSize \in Nat /\ Get(frameSize) = frameSize
  BY Buckets1 DEF Reading, SizeNeeded, Local
<1>2. rd[c].pc = "get" /\ sent' = sent /\ owed' = owed /\ lost' = lost /\ frameSize' = frameSize
  BY DEF GetBuffer, streamVars
<1>3. old \in Kept \cup {None} /\ old.data \in Seq(Nat) /\ Len(old.data) \in Nat /\ old.frame.len \in Nat
      /\ (old # None => old \in Kept)
  BY <1>1, ReadFields, PendingFields, LenProperties
<1>f. /\ fresh \in Reads /\ fresh.pc = "head" /\ fresh.cap = frameSize /\ fresh.got = <<>> /\ Len(fresh.got) = 0
      /\ fresh.err = "none"
  BY <1>1, ReaderTypes DEF Reader
<1>4. CASE UNCHANGED <<rd, pending>>
  BY <1>1, <1>2, <1>4, SameNeed DEF Types, Local, Fits, PendingAt, OwedAt, Growing
<1>5. CASE old = None /\ Set(c, fresh) /\ UNCHANGED pending
  <2>1. rd' \in [Conns -> Reads] /\ rd'[c] = fresh
    BY <1>1, <1>5, <1>f, SetReader
  <2> HIDE DEF fresh
  <2>2. Fits(c)' /\ PendingAt(c)'
    BY <1>1, <1>5, <1>f, <2>1 DEF Fits, PendingAt
  <2>3. OwedAt(c)' /\ Growing(c)'
    BY <1>1, <1>2, <1>5, <1>f, <2>1, SameNeed DEF Local, OwedAt, Growing
  <2> QED
    BY <1>1, <1>5, <2>1, <2>2, <2>3 DEF Local, Types
<1>6. CASE old # None /\ ~Holds(frameSize, old) /\ Set(c, [fresh EXCEPT !.pc = "grow"]) /\ UNCHANGED pending
  <2> DEFINE q == [fresh EXCEPT !.pc = "grow"]
  <2>q. /\ q \in Reads /\ q.pc = "grow" /\ q.cap = frameSize /\ q.got = <<>> /\ Len(q.got) = 0 /\ q.err = "none"
    BY <1>1, ReaderTypes DEF Reader
  <2> HIDE DEF q, fresh
  <2>1. rd' \in [Conns -> Reads] /\ rd'[c] = q
    BY <1>1, <1>6, <2>q, SetReader DEF q
  <2>2. Fits(c)' /\ PendingAt(c)'
    BY <1>1, <1>6, <2>q, <2>1 DEF Fits, PendingAt
  <2>3. OwedAt(c)' /\ Growing(c)'
    BY <1>1, <1>2, <1>3, <1>6, <2>q, <2>1, SameNeed DEF Local, OwedAt, Growing, Need, Holds
  <2> QED
    BY <1>1, <1>6, <2>1, <2>2, <2>3 DEF Local, Types
<1>7. CASE /\ old # None /\ Holds(frameSize, old)
           /\ Set(c, [fresh EXCEPT !.pc = "data", !.got = old.data, !.mt = old.mt, !.frame = old.frame, !.tag = old.tag])
           /\ pending' = [pending EXCEPT ![c] = None]
  <2> DEFINE q == [fresh EXCEPT !.pc = "data", !.got = old.data, !.mt = old.mt, !.frame = old.frame, !.tag = old.tag]
  <2>k. old \in Kept /\ old.mt \in {"text", "binary"} /\ old.frame \in Frames /\ old.tag \in Nat
    BY <1>3, <1>7 DEF Kept
  <2>q. /\ q \in Reads /\ q.pc = "data" /\ q.cap = frameSize /\ q.got = old.data /\ q.mt = old.mt
        /\ q.frame = old.frame /\ q.err = "none"
    BY <1>1, <1>3, <2>k DEF Reader, Reads
  <2> HIDE DEF q, fresh
  <2>1. rd' \in [Conns -> Reads] /\ rd'[c] = q
    BY <1>1, <1>7, <2>q, SetReader DEF q
  <2>2. pending' \in [Conns -> Kept \cup {None}] /\ pending'[c] = None
    BY <1>1, <1>7 DEF Types
  <2>3. Fits(c)' /\ PendingAt(c)'
    BY <1>1, <1>3, <1>7, <2>k, <2>q, <2>1, <2>2 DEF Fits, PendingAt, Holds
  <2>4. OwedAt(c)' /\ Growing(c)'
    BY <1>1, <1>2, <1>7, <2>q, <2>1 DEF Local, OwedAt, Growing, Big
  <2> QED
    BY <2>1, <2>2, <2>3, <2>4 DEF Local
<1> QED
  BY <1>1, <1>4, <1>5, <1>6, <1>7 DEF GetBuffer

\* The next header, in step or not.
LEMMA ReadHeaderLocal ==
    ASSUME Reading, NEW c \in Conns, ReadHeader(c)
    PROVE  /\ rd' \in [Conns -> Reads] /\ pending' \in [Conns -> Kept \cup {None}]
           /\ owed' \in [Conns -> Nat] /\ sent' \in [Conns -> Seq(Frames)] /\ lost' \subseteq Conns
           /\ headers' \in 0 .. MaxHeaders
           /\ Local(c)'
<1> DEFINE instep == c \notin lost /\ owed[c] = 0
<1>1. Types /\ Fits(c) /\ PendingAt(c) /\ OwedAt(c) /\ Growing(c)
  BY DEF Reading
<1>2. rd[c].pc = "head" /\ pending[c] = None /\ Bucket(rd[c].cap) /\ Len(rd[c].got) <= rd[c].cap
      /\ rd[c].err = "none"
  BY <1>1 DEF ReadHeader, PendingAt, Fits
<1>3. PICK f \in Frames :
         /\ sent' = IF instep THEN [sent EXCEPT ![c] = Append(@, f)] ELSE sent
         /\ owed' = [owed EXCEPT ![c] = f.len]
         /\ Accept(c, f, IF instep THEN Len(sent[c]) + 1 ELSE 0)
  BY DEF ReadHeader
<1>4. f.len \in Nat /\ f.op \in Opcodes /\ f.fin \in BOOLEAN
  BY FrameFields
<1>5. PICK tag \in Nat : Accept(c, f, tag)
  BY <1>1, <1>3, ReadFields, LenProperties
<1>6. /\ rd[c] \in Reads /\ rd[c].cap \in Nat /\ rd[c].got \in Seq(Nat) /\ Len(rd[c].got) \in Nat
      /\ rd[c].mt \in {"none", "text", "binary"} /\ sent[c] \in Seq(Frames)
  BY <1>1, ReadFields
<1>7. /\ owed' \in [Conns -> Nat] /\ owed'[c] = f.len
      /\ lost' \subseteq Conns /\ lost' = (IF instep THEN lost ELSE lost \cup {c})
      /\ headers' \in 0 .. MaxHeaders
  <2>1. owed' \in [Conns -> Nat] /\ owed'[c] = f.len
    BY <1>1, <1>3, <1>4 DEF Types
  <2>2. lost' = (IF instep THEN lost ELSE lost \cup {c})
    BY DEF ReadHeader
  <2>3. lost' \subseteq Conns
    BY <1>1, <2>2 DEF Types
  <2>4. headers < MaxHeaders /\ headers' = headers + 1
    BY DEF ReadHeader
  <2>5. headers' \in 0 .. MaxHeaders
    BY <1>1, <2>4, Numbers DEF Types
  <2> QED
    BY <2>1, <2>2, <2>3, <2>5
<1>8. /\ sent' \in [Conns -> Seq(Frames)]
      /\ sent'[c] = IF instep THEN Append(sent[c], f) ELSE sent[c]
  BY <1>1, <1>3, <1>6, AppendProperties DEF Types
<1>9. (Big(c) => Big(c)') /\ (instep /\ f.len > MaxPayload => Big(c)') /\ (~instep => Big(c) /\ Big(c)')
  <2>1. CASE instep
    BY <1>1, <1>8, <2>1, BigStays
  <2>2. CASE ~instep
    <3>1. Big(c)
      BY <1>1, <1>2, <2>2 DEF OwedAt
    <3>2. Big(c)'
      BY <1>8, <2>2, <3>1 DEF Big
    <3> QED
      BY <2>2, <3>1, <3>2
  <2> QED
    BY <2>1, <2>2
<1>10. (c \in lost' => Big(c)') /\ (f.len > MaxPayload => Big(c)')
  BY <1>7, <1>9
<1> HIDE DEF instep
<1>c. Big(c)' => Beyond(c)'
  BY DEF Beyond
<1>11. ASSUME NEW q \in Reads, Set(c, q), UNCHANGED pending, q.pc # "store", q.err = "none" \/ (q.err = "protocol" /\ q.pc = "done"),
              q.pc \in {"head", "data", "ctrl", "pong", "grow"} => q.cap = rd[c].cap,
              Len(q.got) <= q.cap,
              q.pc \in {"data", "ctrl"} => q.frame = f,
              q.pc = "data" => q.mt # "none" /\ Len(q.got) + f.len <= q.cap,
              q.pc = "grow" => Big(c)',
              q.pc \in {"data", "ctrl", "done"} \/ Big(c)'
       PROVE  rd' \in [Conns -> Reads] /\ pending' \in [Conns -> Kept \cup {None}] /\ Local(c)'
  <2>1. rd' \in [Conns -> Reads] /\ rd'[c] = q
    BY <1>1, <1>11, SetReader
  <2>2. pending' \in [Conns -> Kept \cup {None}] /\ pending'[c] = None
    BY <1>1, <1>2, <1>11 DEF Types
  <2>3. Fits(c)' /\ PendingAt(c)'
    BY <1>2, <1>11, <2>1, <2>2 DEF Fits, PendingAt
  <2>4. OwedAt(c)'
    BY <1>10, <1>11, <2>1 DEF OwedAt
  <2>5. Growing(c)'
    BY <1>11, <2>1 DEF Growing
  <2> QED
    BY <2>1, <2>2, <2>3, <2>4, <2>5 DEF Local
<1>12. CASE f.len > MaxPayload /\ Set(c, [Reader EXCEPT !.pc = "grow", !.cap = rd[c].cap]) /\ UNCHANGED pending
  <2> DEFINE q == [Reader EXCEPT !.pc = "grow", !.cap = rd[c].cap]
  <2>1. q \in Reads /\ q.pc = "grow" /\ q.cap = rd[c].cap /\ q.err = "none" /\ Len(q.got) = 0
    BY <1>6, ReaderTypes, EmptySeq DEF Reader
  <2> HIDE DEF q
  <2>2. Set(c, q) /\ Len(q.got) <= q.cap
    BY <1>6, <1>12, <2>1 DEF q
  <2> QED
    BY <1>7, <1>8, <1>10, <1>11, <1>12, <2>1, <2>2
<1>13. CASE Fails(c, "protocol") /\ UNCHANGED pending
  <2> DEFINE q == [Reader EXCEPT !.pc = "done", !.err = "protocol"]
  <2>1. q \in Reads /\ q.pc = "done" /\ q.err = "protocol" /\ Len(q.got) = 0 /\ q.cap = 0
    BY ReaderTypes, EmptySeq DEF Reader
  <2>2. Set(c, q)
    BY <1>13 DEF Fails
  <2> HIDE DEF q
  <2> QED
    BY <1>7, <1>8, <1>11, <1>13, <2>1, <2>2
<1> DEFINE r(mt) == [rd[c] EXCEPT !.frame = f, !.tag = tag, !.mt = mt]
<1>14. ASSUME NEW pc \in {"data", "ctrl"}, NEW mt \in {"none", "text", "binary"}
       PROVE  LET q == [r(mt) EXCEPT !.pc = pc]
              IN  /\ q \in Reads /\ q.pc = pc /\ q.err = rd[c].err /\ q.got = rd[c].got /\ q.cap = rd[c].cap
                  /\ q.frame = f /\ q.mt = mt /\ q.tag = tag
  BY <1>5, <1>6 DEF Reads
<1>15. CASE f.op \in Control /\ Set(c, [r(rd[c].mt) EXCEPT !.pc = "ctrl"]) /\ UNCHANGED pending
  <2> DEFINE q == [r(rd[c].mt) EXCEPT !.pc = "ctrl"]
  <2>1. q \in Reads /\ q.pc = "ctrl" /\ q.err = rd[c].err /\ q.got = rd[c].got /\ q.cap = rd[c].cap /\ q.frame = f
    BY <1>6, <1>14
  <2> HIDE DEF q
  <2>2. Set(c, q)
    BY <1>15 DEF q
  <2> QED
    BY <1>2, <1>7, <1>8, <1>11, <1>15, <2>1, <2>2
<1> DEFINE mt == IF f.op = "cont" THEN rd[c].mt ELSE f.op
<1>16. CASE /\ f.op \notin Control /\ mt \in {"text", "binary"}
            /\ IF Exceeds(rd[c], f)
                 THEN Set(c, [Reader EXCEPT !.pc = "grow", !.cap = rd[c].cap]) /\ StashPending(c, f, mt, tag)
                 ELSE Set(c, [r(mt) EXCEPT !.pc = "data"]) /\ UNCHANGED pending
  <2> HIDE DEF mt
  <2>1. CASE ~Exceeds(rd[c], f)
    <3> DEFINE q == [r(mt) EXCEPT !.pc = "data"]
    <3>1. /\ q \in Reads /\ q.pc = "data" /\ q.err = rd[c].err /\ q.got = rd[c].got /\ q.cap = rd[c].cap
          /\ q.frame = f /\ q.mt = mt
      <4>1. mt \in {"none", "text", "binary"}
        BY <1>16
      <4> QED
        BY <1>14, <4>1
    <3> HIDE DEF q
    <3>2. Set(c, q) /\ UNCHANGED pending
      BY <1>16, <2>1 DEF q
    <3>3. Len(q.got) <= q.cap /\ Len(q.got) + f.len <= q.cap
      BY <1>2, <1>4, <1>6, <2>1, <3>1 DEF Exceeds
    <3> QED
      BY <1>2, <1>7, <1>8, <1>11, <1>16, <3>1, <3>2, <3>3
  <2>2. CASE Exceeds(rd[c], f)
    <3> DEFINE q == [Reader EXCEPT !.pc = "grow", !.cap = rd[c].cap]
               k == [data |-> rd[c].got, mt |-> mt, frame |-> f, tag |-> tag]
    <3>1. q \in Reads /\ q.pc = "grow" /\ q.cap = rd[c].cap /\ q.err = "none" /\ Len(q.got) = 0
      BY <1>6, ReaderTypes, EmptySeq DEF Reader
    <3>2. k \in Kept /\ k.data = rd[c].got /\ k.frame = f /\ k # None
      BY <1>6, <1>5, <1>16 DEF Kept, None
    <3>3. Set(c, q) /\ pending' = [pending EXCEPT ![c] = k]
      BY <1>16, <2>2 DEF StashPending
    <3> HIDE DEF q, k
    <3>4. rd' \in [Conns -> Reads] /\ rd'[c] = q
      BY <1>1, <3>1, <3>3, SetReader
    <3>5. pending' \in [Conns -> Kept \cup {None}] /\ pending'[c] = k
      BY <1>1, <3>2, <3>3 DEF Types
    <3>6. Need(c)' > rd[c].cap
      BY <2>2, <3>2, <3>5, <1>6, <1>4 DEF Need, Exceeds
    <3>7. Fits(c)' /\ PendingAt(c)'
      BY <1>2, <1>6, <3>1, <3>4 DEF Fits, PendingAt
    <3>8. OwedAt(c)'
      BY <1>10, <3>2, <3>4, <3>5 DEF OwedAt
    <3>9. Growing(c)'
      BY <3>1, <3>4, <3>6 DEF Growing
    <3> QED
      BY <1>7, <1>8, <3>4, <3>5, <3>7, <3>8, <3>9 DEF Local
  <2> QED
    BY <2>1, <2>2
<1>17. \/ f.len > MaxPayload /\ Set(c, [Reader EXCEPT !.pc = "grow", !.cap = rd[c].cap]) /\ UNCHANGED pending
       \/ Fails(c, "protocol") /\ UNCHANGED pending
       \/ f.op \in Control /\ Set(c, [r(rd[c].mt) EXCEPT !.pc = "ctrl"]) /\ UNCHANGED pending
       \/ /\ f.op \notin Control /\ mt \in {"text", "binary"}
          /\ IF Exceeds(rd[c], f)
               THEN Set(c, [Reader EXCEPT !.pc = "grow", !.cap = rd[c].cap]) /\ StashPending(c, f, mt, tag)
               ELSE Set(c, [r(mt) EXCEPT !.pc = "data"]) /\ UNCHANGED pending
  BY <1>4, <1>5, <1>6 DEF Accept, Opcodes, Control
<1> QED
  BY <1>12, <1>13, <1>15, <1>16, <1>17, <1>7, <1>8

\* A reader that ends, or takes its next turn, with nothing owed that was not before.
LEMMA LeavesLocal ==
    ASSUME Reading, NEW c \in Conns, NEW q \in Reads, Set(c, q), q.pc \in {"done", "get", "store", "route"},
           Len(q.got) <= q.cap, q.err = "none" \/ q.pc = "done",
           UNCHANGED <<pending, sent, lost>>, owed'[c] \in {0, owed[c]},
           q.pc = "route" => pending[c] = None,
           q.pc \in {"get", "store", "route"} => rd[c].pc \notin {"data", "ctrl", "done"} \/ owed'[c] = 0,
           q.pc = "store" => Bucket(q.next) /\ (q.next > MaxAlloc => Beyond(c)),
           q.err = "toolarge" => Beyond(c)
    PROVE  rd' \in [Conns -> Reads] /\ Local(c)'
<1>1. Types /\ PendingAt(c) /\ OwedAt(c) /\ Growing(c)
  BY DEF Reading
<1>2. rd' \in [Conns -> Reads] /\ rd'[c] = q
  BY <1>1, SetReader
<1>3. (Big(c)' <=> Big(c)) /\ (Beyond(c)' <=> Beyond(c))
  BY SameNeed
<1>4. Fits(c)' /\ PendingAt(c)'
  BY <1>1, <1>2 DEF Fits, PendingAt
<1>5. OwedAt(c)'
  BY <1>1, <1>2, <1>3 DEF OwedAt
<1>6. Growing(c)'
  BY <1>2, <1>3 DEF Growing
<1> QED
  BY <1>2, <1>4, <1>5, <1>6 DEF Local

\* A reader that goes on with its Read once a payload has been read.
LEMMA GoesOnLocal ==
    ASSUME Reading, NEW c \in Conns, NEW q \in Reads, Set(c, q), q.pc \in {"head", "pong"},
           rd[c].pc \in {"data", "ctrl", "pong"}, q.cap = rd[c].cap, Len(q.got) <= q.cap, q.err = rd[c].err,
           UNCHANGED <<pending, sent, lost>>, owed'[c] = 0 \/ (owed'[c] = owed[c] /\ rd[c].pc = "pong")
    PROVE  rd' \in [Conns -> Reads] /\ Local(c)'
<1>1. Types /\ Fits(c) /\ PendingAt(c) /\ OwedAt(c) /\ Growing(c)
  BY DEF Reading
<1>2. rd' \in [Conns -> Reads] /\ rd'[c] = q
  BY <1>1, SetReader
<1>3. (Big(c)' <=> Big(c)) /\ (Beyond(c)' <=> Beyond(c))
  BY SameNeed
<1>4. Fits(c)' /\ PendingAt(c)'
  BY <1>1, <1>2 DEF Fits, PendingAt
<1>5. OwedAt(c)'
  BY <1>1, <1>2, <1>3 DEF OwedAt
<1>6. Growing(c)'
  BY <1>1, <1>2, <1>3 DEF Growing, Fits
<1> QED
  BY <1>2, <1>4, <1>5, <1>6 DEF Local

\* The next turn of readLoop, and its end.
LEMMA Leaving ==
    /\ Again \in Reads /\ Again.pc = "get" /\ Again.err = "none" /\ Len(Again.got) <= Again.cap
    /\ \A e \in {"protocol", "toolarge", "eof", "conn"} :
          LET q == [Reader EXCEPT !.pc = "done", !.err = e]
          IN  q \in Reads /\ q.pc = "done" /\ q.err = e /\ Len(q.got) <= q.cap
<1>1. Len(<<>>) = 0
  BY EmptySeq
<1>2. Again.pc = "get" /\ Again.err = "none" /\ Again.got = <<>> /\ Again.cap = 0
  BY DEF Again, Reader
<1>3. ASSUME NEW e \in {"protocol", "toolarge", "eof", "conn"}
      PROVE  LET q == [Reader EXCEPT !.pc = "done", !.err = e]
             IN  q \in Reads /\ q.pc = "done" /\ q.err = e /\ Len(q.got) <= q.cap
  <2> DEFINE q == [Reader EXCEPT !.pc = "done", !.err = e]
  <2>1. q \in Reads
    BY ReaderTypes
  <2>2. q.pc = "done" /\ q.err = e /\ q.got = <<>> /\ q.cap = 0
    BY DEF Reader
  <2> QED
    BY <1>1, <2>1, <2>2
<1>4. Len(Again.got) = 0
  BY <1>1, <1>2
<1>5. Again \in Reads
  BY ReaderTypes
<1> QED
  BY <1>2, <1>3, <1>4, <1>5

\* A payload.
LEMMA ReadPayloadLocal ==
    ASSUME Reading, NEW c \in Conns, ReadPayload(c)
    PROVE  rd' \in [Conns -> Reads] /\ owed' \in [Conns -> Nat] /\ Local(c)'
<1> DEFINE r == rd[c]
           piece == Bytes(r.frame, r.tag)
           got == r.got \o piece
<1>1. Types /\ Fits(c) /\ PendingAt(c)
  BY DEF Reading
<1>2. /\ r \in Reads /\ r.got \in Seq(Nat) /\ r.cap \in Nat /\ r.tag \in Nat /\ r.pc = "data"
      /\ r.frame \in Frames /\ r.frame.len \in Nat /\ Len(r.got) \in Nat /\ Len(r.got) + r.frame.len <= r.cap
      /\ r.frame.fin \in BOOLEAN /\ r.err = "none" /\ pending[c] = None
  BY <1>1, ReadFields, FrameFields DEF ReadPayload, Fits, PendingAt
<1>3. got \in Seq(Nat) /\ Len(got) = Len(r.got) + r.frame.len
  <2> HIDE DEF r
  <2>1. piece \in [1 .. r.frame.len -> Nat]
    BY <1>2 DEF Bytes
  <2>2. piece \in Seq(Nat) /\ Len(piece) = r.frame.len
    BY <1>2, <2>1, SeqDef
  <2>3. PICK x \in Seq(Nat), y \in Seq(Nat) : x = r.got /\ y = piece
    BY <1>2, <2>2
  <2>4. x \o y \in Seq(Nat) /\ Len(x \o y) = Len(x) + Len(y)
    BY ConcatProperties
  <2> HIDE DEF piece
  <2> QED
    BY <2>2, <2>3, <2>4
<1>4. /\ owed' \in [Conns -> Nat] /\ owed'[c] = 0
      /\ UNCHANGED <<pending, sent, lost>>
  BY <1>1 DEF ReadPayload, Types
<1> HIDE DEF got
<1>5. CASE Set(c, [r EXCEPT !.pc = "head", !.got = got])
  <2> DEFINE q == [r EXCEPT !.pc = "head", !.got = got]
  <2>1. q \in Reads /\ q.pc = "head" /\ q.cap = r.cap /\ q.got = got /\ q.err = r.err
    BY <1>2, <1>3 DEF Reads
  <2> HIDE DEF q
  <2>2. Set(c, q)
    BY <1>5 DEF q
  <2> QED
    BY <1>2, <1>3, <1>4, <2>1, <2>2, GoesOnLocal
<1>6. CASE Set(c, Again)
  BY <1>2, <1>4, <1>6, Leaving, LeavesLocal
<1>7. CASE Set(c, [r EXCEPT !.pc = "route", !.got = got])
  <2> DEFINE q == [r EXCEPT !.pc = "route", !.got = got]
  <2>1. q \in Reads /\ q.pc = "route" /\ q.cap = r.cap /\ q.got = got /\ q.err = r.err
    BY <1>2, <1>3 DEF Reads
  <2> HIDE DEF q
  <2>2. Set(c, q)
    BY <1>7 DEF q
  <2> QED
    BY <1>2, <1>3, <1>4, <2>1, <2>2, LeavesLocal
<1> QED
  BY <1>2, <1>4, <1>5, <1>6, <1>7 DEF ReadPayload, got

\* A control frame's payload: the ping's answer, the close, the pong.
LEMMA ReadControlLocal ==
    ASSUME Reading, NEW c \in Conns, ReadControl(c)
    PROVE  rd' \in [Conns -> Reads] /\ owed' \in [Conns -> Nat] /\ Local(c)' /\ wr' \in [Conns -> [Writers -> WriteCalls]]
<1>1. Types /\ Fits(c) /\ PendingAt(c)
  BY DEF Reading
<1>2. /\ rd[c] \in Reads /\ rd[c].pc = "ctrl" /\ rd[c].err = "none" /\ Len(rd[c].got) <= rd[c].cap
      /\ rd[c].frame \in Frames /\ rd[c].frame.len \in Nat /\ rd[c].tag \in Nat
  BY <1>1, ReadFields, FrameFields DEF ReadControl, Fits
<1>3. /\ owed' \in [Conns -> Nat] /\ owed'[c] = 0
      /\ UNCHANGED <<pending, sent, lost>>
  BY <1>1 DEF ReadControl, Types
<1>4. ASSUME NEW pc \in {"pong", "head"}, Set(c, [rd[c] EXCEPT !.pc = pc])
      PROVE  rd' \in [Conns -> Reads] /\ Local(c)'
  <2> DEFINE q == [rd[c] EXCEPT !.pc = pc]
  <2>1. q \in Reads /\ q.pc = pc /\ q.cap = rd[c].cap /\ q.got = rd[c].got /\ q.err = rd[c].err
    BY <1>2 DEF Reads
  <2> HIDE DEF q
  <2>2. Set(c, q)
    BY <1>4 DEF q
  <2> QED
    BY <1>2, <1>3, <2>1, <2>2, GoesOnLocal
<1>5. ASSUME Fails(c, "eof") PROVE rd' \in [Conns -> Reads] /\ Local(c)'
  BY <1>2, <1>3, <1>5, Leaving, LeavesLocal DEF Fails
<1>6. wr' \in [Conns -> [Writers -> WriteCalls]]
  <2>1. [st |-> "lock", op |-> "pong", len |-> rd[c].frame.len, tag |-> rd[c].tag] \in WriteCalls
    BY <1>2 DEF WriteCalls
  <2>2. "reader" \in Writers
    BY DEF Writers
  <2>3. \A x \in WriteCalls : [wr EXCEPT ![c]["reader"] = x] \in [Conns -> [Writers -> WriteCalls]]
    BY <1>1, <2>2, CallTypes
  <2>4. wr' = wr \/ wr' = [wr EXCEPT ![c]["reader"] = [st |-> "lock", op |-> "pong", len |-> rd[c].frame.len, tag |-> rd[c].tag]]
    BY Zenon DEF ReadControl, Call
  <2> QED
    BY <1>1, <2>1, <2>3, <2>4 DEF Types
<1> QED
  BY <1>3, <1>4, <1>5, <1>6 DEF ReadControl

\* The pong has been written, or not.
LEMMA PongedLocal ==
    ASSUME Reading, NEW c \in Conns, Ponged(c)
    PROVE  rd' \in [Conns -> Reads] /\ Local(c)' /\ wr' \in [Conns -> [Writers -> WriteCalls]]
<1>1. Types /\ Fits(c)
  BY DEF Reading
<1>2. rd[c] \in Reads /\ rd[c].pc = "pong" /\ Len(rd[c].got) <= rd[c].cap /\ UNCHANGED <<pending, sent, lost, owed>>
  BY <1>1, ReadFields DEF Ponged, Fits, streamVars
<1> DEFINE q == [rd[c] EXCEPT !.pc = "head"]
<1>3. q \in Reads /\ q.pc = "head" /\ q.cap = rd[c].cap /\ q.got = rd[c].got /\ q.err = rd[c].err
  BY <1>2 DEF Reads
<1> HIDE DEF q
<1>4. Set(c, q)
  BY DEF q, Ponged
<1>5. rd' \in [Conns -> Reads] /\ Local(c)'
  BY <1>2, <1>3, <1>4, GoesOnLocal
<1>6. wr' \in [Conns -> [Writers -> WriteCalls]]
  <2>1. NoWrite \in WriteCalls /\ "reader" \in Writers
    BY DEF NoWrite, WriteCalls, Writers
  <2>2. \A x \in WriteCalls : [wr EXCEPT ![c]["reader"] = x] \in [Conns -> [Writers -> WriteCalls]]
    BY <1>1, <2>1, CallTypes
  <2> QED
    BY <2>1, <2>2 DEF Ponged
<1> QED
  BY <1>5, <1>6

\* A read that fails.
LEMMA ReadFailsLocal ==
    ASSUME Reading, NEW c \in Conns, ReadFails(c)
    PROVE  rd' \in [Conns -> Reads] /\ Local(c)'
BY Leaving, LeavesLocal DEF ReadFails, Fails, streamVars

\* tryGrowReadBuffer: the message that is pending is larger than the buffer, so what comes
\* after the buffer's size is needed, and when nothing does the message is too large.
LEMMA GrowLocal ==
    ASSUME Reading, NEW c \in Conns, Grow(c)
    PROVE  rd' \in [Conns -> Reads] /\ Local(c)'
<1>1. Types /\ Fits(c) /\ Growing(c) /\ PendingAt(c)
  BY DEF Reading
<1>2. /\ rd[c].pc = "grow" /\ Bucket(rd[c].cap) /\ (Big(c) \/ Need(c) > rd[c].cap)
      /\ UNCHANGED <<pending, sent, lost, owed>>
  BY <1>1 DEF Grow, Fits, Growing, streamVars
<1>3. Need(c) \in Nat
  BY <1>1, ReadFields, PendingFields, LenProperties DEF Need
<1>4. PICK cap \in Nat, next \in Nat : cap = rd[c].cap /\ next = NextBucketSize(rd[c].cap)
  BY <1>2, Buckets1
<1>5. \A i \in DOMAIN Sizes : Sizes[i] \in Nat
  BY SizesList
<1>6. /\ next = 0 => \A i \in DOMAIN Sizes : Sizes[i] <= cap
      /\ next # 0 => Bucket(next) /\ \A i \in DOMAIN Sizes : Sizes[i] < next => Sizes[i] <= cap
  BY <1>2, <1>4, Buckets1
<1>7. next = 0 \/ next > MaxAlloc => Beyond(c)
  <2>1. SUFFICES ASSUME next = 0 \/ next > MaxAlloc, ~Big(c), NEW i \in DOMAIN Sizes, Sizes[i] <= MaxAlloc
                 PROVE  Need(c) > Sizes[i]
    BY DEF Beyond, Need
  <2>2. Sizes[i] <= cap
    BY <1>4, <1>5, <1>6, <2>1, Numbers
  <2> QED
    BY <1>2, <1>3, <1>4, <1>5, <2>1, <2>2
<1>8. CASE next = 0
  <2>1. Fails(c, "toolarge")
    BY <1>4, <1>8 DEF Grow
  <2> QED
    BY <1>2, <1>7, <1>8, <2>1, Leaving, LeavesLocal DEF Fails
<1>9. CASE next # 0
  <2> DEFINE q == [Reader EXCEPT !.pc = "store", !.next = next]
  <2>1. q \in Reads
    BY ReaderTypes
  <2>2. q.pc = "store" /\ q.err = "none" /\ q.next = next /\ q.got = <<>> /\ q.cap = 0
    BY DEF Reader
  <2>3. Len(q.got) <= q.cap
    BY <2>2, EmptySeq
  <2> HIDE DEF q
  <2>4. Set(c, q) \/ Set(c, Again)
    BY <1>4, <1>9 DEF Grow, q
  <2>5. CASE Set(c, q)
    BY <1>2, <1>6, <1>7, <1>9, <2>1, <2>2, <2>3, <2>5, LeavesLocal
  <2>6. CASE Set(c, Again)
    BY <1>2, <2>6, Leaving, LeavesLocal
  <2> QED
    BY <2>4, <2>5, <2>6
<1> QED
  BY <1>8, <1>9

\* s.frameSize = next, and the message handed on.
LEMMA TurnsLocal ==
    ASSUME Reading, NEW c \in Conns, StoreSize(c) \/ Deliver(c)
    PROVE  rd' \in [Conns -> Reads] /\ Local(c)'
<1>1. rd[c].pc \in {"store", "route"} /\ Set(c, Again) /\ UNCHANGED <<pending, sent, lost, owed>>
  BY DEF StoreSize, Deliver, streamVars
<1> QED
  BY <1>1, Leaving, LeavesLocal

-----------------------------------------------------------------------------
(* Every step keeps the readers' invariant.                                *)

\* A turn of one reader leaves the other connections as they are.
LEMMA ReaderElsewhere ==
    ASSUME Types, NEW c \in Conns, ReaderStep(c) \/ PeerStep(c), NEW d \in Conns, d # c
    PROVE  /\ rd'[d] = rd[d] /\ pending'[d] = pending[d] /\ owed'[d] = owed[d] /\ sent'[d] = sent[d]
           /\ wr'[d] = wr[d] /\ (d \in lost' <=> d \in lost)
<1> USE DEF Set, Again, Fails, Call, streamVars, Types
<1>1. CASE GetBuffer(c)
  BY <1>1 DEF GetBuffer
<1>2. CASE Ponged(c)
  BY <1>2 DEF Ponged
<1>3. CASE ReadFails(c) \/ Grow(c) \/ StoreSize(c) \/ Deliver(c)
  BY <1>3 DEF ReadFails, Grow, StoreSize, Deliver
<1>4. CASE ReadHeader(c)
  BY <1>4 DEF ReadHeader, Accept, StashPending
<1>5. CASE ReadPayload(c)
  BY <1>5 DEF ReadPayload
<1>6. CASE ReadControl(c)
  BY <1>6 DEF ReadControl
<1> QED
  BY <1>1, <1>2, <1>3, <1>4, <1>5, <1>6 DEF ReaderStep, PeerStep

\* A turn of a reader keeps the types, and its own connection's invariant.
LEMMA ReaderKeeps ==
    ASSUME Reading, NEW c \in Conns, ReaderStep(c) \/ PeerStep(c)
    PROVE  Types' /\ Local(c)' /\ UNCHANGED <<run, sock, mu, out>>
<1>1. Types /\ UNCHANGED <<run, sock, mu, out, writes, faults>>
  BY DEF Reading, ReaderStep, PeerStep, connVars
<1>2. CASE GetBuffer(c)
  <2>1. UNCHANGED <<owed, sent, lost, headers, wr>> /\ panicked' \in BOOLEAN
    BY <1>1, <1>2 DEF GetBuffer, streamVars, Types
  <2> QED
    BY <1>1, <1>2, <2>1, GetBufferLocal DEF Types
<1>3. CASE Ponged(c)
  BY <1>1, <1>3, PongedLocal DEF Types, Ponged, streamVars
<1>4. CASE ReadFails(c)
  BY <1>1, <1>4, ReadFailsLocal DEF Types, ReadFails, streamVars
<1>5. CASE Grow(c)
  BY <1>1, <1>5, GrowLocal DEF Types, Grow, streamVars
<1>6. CASE StoreSize(c) \/ Deliver(c)
  BY <1>1, <1>6, TurnsLocal DEF Types, StoreSize, Deliver, streamVars
<1>7. CASE ReadHeader(c)
  BY <1>1, <1>7, ReadHeaderLocal DEF Types, ReadHeader
<1>8. CASE ReadPayload(c)
  BY <1>1, <1>8, ReadPayloadLocal DEF Types, ReadPayload
<1>9. CASE ReadControl(c)
  BY <1>1, <1>9, ReadControlLocal DEF Types, ReadControl
<1> QED
  BY <1>2, <1>3, <1>4, <1>5, <1>6, <1>7, <1>8, <1>9 DEF ReaderStep, PeerStep

\* What cannot be held stays so: a pending message is taken up only by a buffer that holds
\* it, and replaced by another only after that.
LEMMA BeyondStays ==
    ASSUME Reading, NEW c \in Conns, ReaderStep(c) \/ PeerStep(c), Beyond(c)
    PROVE  Beyond(c)'
<1>1. Types /\ PendingAt(c) /\ SizeNeeded /\ Bucket(frameSize) /\ Get(frameSize) = frameSize
  BY Buckets1 DEF Reading, SizeNeeded
<1>2. CASE GetBuffer(c)
  <2>1. sent'[c] = sent[c]
    BY <1>2 DEF GetBuffer, streamVars
  <2>2. CASE pending'[c] = pending[c]
    BY <2>1, <2>2, SameNeed
  <2>3. CASE pending'[c] # pending[c]
    <3>1. frameSize <= MaxAlloc /\ Holds(frameSize, pending[c])
      BY <1>1, <1>2, <2>3 DEF GetBuffer
    <3>2. Need(c) \in Nat /\ MaxAlloc \in Nat /\ Need(c) <= frameSize /\ frameSize \in Nat
      <4>1. pending[c] \in Kept \cup {None}
        BY <1>1, ReadFields
      <4>2. Len(pending[c].data) \in Nat /\ pending[c].frame.len \in Nat
        BY <4>1, PendingFields, LenProperties
      <4>3. MaxAlloc \in Nat /\ frameSize \in Nat
        BY <1>1, Numbers, Buckets1
      <4> QED
        BY <3>1, <4>2, <4>3 DEF Need, Holds
    <3>3. ~ (\A i \in DOMAIN Sizes : Sizes[i] <= MaxAlloc => Need(c) > Sizes[i])
      BY <1>1, <3>1, <3>2 DEF Bucket
    <3>4. Big(c)
      BY <3>3 DEF Beyond, Need
    <3>5. Big(c)'
      BY <2>1, <3>4 DEF Big
    <3> QED
      BY <3>5 DEF Beyond
  <2> QED
    BY <2>2, <2>3
<1>3. CASE ReadHeader(c)
  <2>1. pending[c] = None
    BY <1>1, <1>3 DEF ReadHeader, PendingAt
  <2>2. PICK f \in Frames : sent'[c] = Append(sent[c], f) \/ sent'[c] = sent[c]
    BY <1>1, <1>3 DEF ReadHeader, Types
  <2>3. CASE Big(c)
    <3>1. Big(c)'
      <4>1. CASE sent'[c] = sent[c]
        BY <2>3, <4>1 DEF Big
      <4>2. CASE sent'[c] = Append(sent[c], f)
        BY <1>1, <2>3, <4>2, BigStays
      <4> QED
        BY <2>2, <4>1, <4>2
    <3> QED
      BY <3>1 DEF Beyond
  <2>4. CASE ~Big(c)
    <3>1. \A i \in DOMAIN Sizes : Sizes[i] <= MaxAlloc => Need(c) > Sizes[i]
      BY <2>4 DEF Beyond, Need
    <3>2. Need(c) = 0
      <4>1. None.data = <<>> /\ None.frame.len = 0
        BY DEF None
      <4> QED
        BY <2>1, <4>1, EmptySeq DEF Need
    <3>3. \A i \in DOMAIN Sizes : ~ (Sizes[i] <= MaxAlloc)
      BY <3>1, <3>2, SizesList
    <3> QED
      BY <3>3 DEF Beyond
  <2> QED
    BY <2>3, <2>4
<1>4. CASE ~GetBuffer(c) /\ ~ReadHeader(c)
  <2>1. pending'[c] = pending[c] /\ sent'[c] = sent[c]
    BY <1>4 DEF ReaderStep, PeerStep, Ponged, ReadFails, Grow, StoreSize, Deliver, ReadPayload, ReadControl, streamVars
  <2> QED
    BY <2>1, SameNeed
<1> QED
  BY <1>2, <1>3, <1>4

\* A turn of a reader keeps Reading.
LEMMA ReaderReading ==
    ASSUME Reading, ~panicked, NEW c \in Conns, ReaderStep(c) \/ PeerStep(c)
    PROVE  Reading'
<1>1. Types' /\ Local(c)' /\ UNCHANGED <<run, sock, mu, out>>
  BY ReaderKeeps
<1>t. Types /\ Fresh /\ SizeNeeded
  BY DEF Reading
<1>2. ASSUME NEW d \in Conns, d # c PROVE Local(d)' /\ (Beyond(d) => Beyond(d)')
  <2>1. /\ rd'[d] = rd[d] /\ pending'[d] = pending[d] /\ owed'[d] = owed[d] /\ sent'[d] = sent[d]
        /\ (d \in lost' <=> d \in lost)
    BY <1>2, <1>t, ReaderElsewhere
  <2>2. (Big(d)' <=> Big(d)) /\ (Beyond(d)' <=> Beyond(d)) /\ Need(d)' = Need(d)
    BY <2>1, SameNeed
  <2>3. Fits(d) /\ PendingAt(d) /\ OwedAt(d) /\ Growing(d)
    BY DEF Reading
  <2>4. Fits(d)' /\ PendingAt(d)'
    BY <2>1, <2>3 DEF Fits, PendingAt
  <2>5. OwedAt(d)' /\ Growing(d)'
    BY <2>1, <2>2, <2>3 DEF OwedAt, Growing
  <2> QED
    BY <2>2, <2>4, <2>5 DEF Local
<1>3. \A d \in Conns : Beyond(d) => Beyond(d)'
  BY <1>2, BeyondStays
<1>4. rd[c].pc # "off"
  BY DEF ReaderStep, PeerStep, GetBuffer, Ponged, ReadFails, Grow, StoreSize, Deliver, ReadHeader, ReadPayload, ReadControl
<1>5. Fresh'
  <2>1. \A d \in Conns : rd[d].pc = "off" => rd'[d].pc = "off"
    BY <1>4, <1>t, ReaderElsewhere
  <2>2. run' = run
    BY <1>1
  <2>3. run.c \in 0 .. MaxConns
    BY <1>t DEF Types, Runs
  <2> QED
    BY <1>t, <2>1, <2>2 DEF Fresh
<1>6. SizeNeeded'
  <2>1. CASE frameSize' = frameSize /\ panicked' = panicked
    BY <1>t, <1>3, <2>1 DEF SizeNeeded, Bucket
  <2>2. CASE GetBuffer(c) /\ panicked' # panicked
    <3>1. frameSize' = frameSize /\ Get(frameSize) > MaxAlloc /\ Get(frameSize) = frameSize
      BY <1>t, <2>2, Buckets1 DEF GetBuffer, SizeNeeded
    <3>2. \E d \in Conns : Beyond(d)
      BY <1>t, <3>1 DEF SizeNeeded
    <3> QED
      BY <1>t, <1>3, <3>1, <3>2 DEF SizeNeeded, Bucket
  <2>3. CASE StoreSize(c)
    <3>1. /\ frameSize' = rd[c].next /\ panicked' = panicked
          /\ Bucket(rd[c].next) /\ (rd[c].next > MaxAlloc => Beyond(c))
      BY <2>3 DEF StoreSize, Reading, Growing
    <3> QED
      BY <1>t, <1>3, <3>1 DEF SizeNeeded, Bucket
  <2>4. frameSize' = frameSize \/ StoreSize(c)
    BY DEF ReaderStep, PeerStep, GetBuffer, Ponged, ReadFails, Grow, Deliver, ReadHeader, ReadPayload, ReadControl
  <2>5. panicked' = panicked \/ GetBuffer(c)
    BY DEF ReaderStep, PeerStep, StoreSize, Ponged, ReadFails, Grow, Deliver, ReadHeader, ReadPayload, ReadControl
  <2>6. GetBuffer(c) => frameSize' = frameSize
    BY DEF GetBuffer
  <2> QED
    BY <2>1, <2>2, <2>3, <2>4, <2>5, <2>6
<1> QED
  BY <1>1, <1>2, <1>5, <1>6 DEF Reading, Local

\* What session.run, the writers and the network leave alone of the readers.
OthersLeave == UNCHANGED <<pending, frameSize, owed, sent, lost, headers, panicked>>

\* session.run's steps keep the types.
LEMMA RunTypes ==
    ASSUME Types, Fresh, RunStep \/ StopStep
    PROVE  Types'
<1>1. OthersLeave /\ UNCHANGED <<mu, out>>
  BY DEF RunStep, StopStep, OthersLeave, streamVars
<1>2. /\ run \in Runs /\ run.c \in 0 .. MaxConns /\ MaxConns \in Nat /\ MaxFaults \in Nat /\ MaxWrites \in Nat
      /\ (run.pc \notin {"dial", "end"} => run.c \in Conns)
  BY Numbers DEF Types, Runs, Fresh
<1>3. /\ \A pc \in {"dial", "tls", "upgrade", "up", "run", "write", "close", "end"} : [run EXCEPT !.pc = pc] \in Runs
      /\ [run EXCEPT !.pc = "close", !.stop = TRUE] \in Runs
  BY <1>2 DEF Runs
<1>d. ASSUME run.c < MaxConns PROVE [run EXCEPT !.pc = "tls", !.c = @ + 1] \in Runs
  <2>1. run.c + 1 \in 0 .. MaxConns
    BY <1>2, <1>d
  <2> QED
    BY <1>2, <2>1 DEF Runs
<1>4. run' \in Runs
  BY <1>3, <1>d DEF RunStep, StopStep, DialTCP, Handshake, HandshakeFails, Closed, Serve, Write, Written, ReadError,
                    Stopped, Close, At
<1>5. sock' \in [Conns -> {"none", "open", "broken", "closed"}]
  BY DEF Types, RunStep, StopStep, DialTCP, Handshake, HandshakeFails, Closed, Serve, Write, Written, ReadError, Stopped, Hang
<1>6. writes' \in 0 .. MaxWrites /\ faults' \in 0 .. MaxFaults
  BY <1>2 DEF Types, RunStep, StopStep, DialTCP, Handshake, HandshakeFails, Closed, Serve, Write, Written, ReadError, Stopped, Fault
<1>7. rd' \in [Conns -> Reads]
  BY ReaderTypes DEF Types, RunStep, StopStep, DialTCP, Handshake, HandshakeFails, Closed, Serve, Write, Written, ReadError, Stopped
<1>8. wr' \in [Conns -> [Writers -> WriteCalls]]
  <2>1. CASE wr' = wr
    BY <2>1 DEF Types
  <2>2. CASE run.c \in Conns /\ \E x \in WriteCalls : wr' = [wr EXCEPT ![run.c]["run"] = x]
    <3>1. PICK x \in WriteCalls : wr' = [wr EXCEPT ![run.c]["run"] = x]
      BY <2>2
    <3>2. "run" \in Writers
      BY DEF Writers
    <3> QED
      BY <2>2, <3>1, <3>2, CallTypes
  <2>3. NoWrite \in WriteCalls /\ [st |-> "lock", op |-> "close", len |-> 1, tag |-> 0] \in WriteCalls
        /\ \A n \in {0, 1} : [st |-> "lock", op |-> "data", len |-> n, tag |-> 0] \in WriteCalls
    BY DEF NoWrite, WriteCalls
  <2>4. wr' = wr \/ \E x \in WriteCalls : wr' = [wr EXCEPT ![run.c]["run"] = x]
    BY <2>3 DEF RunStep, StopStep, DialTCP, Handshake, HandshakeFails, Closed, Serve, Write, Written, ReadError, Stopped,
                Close, Call
  <2>5. wr' = wr \/ run.c \in Conns
    BY <1>2 DEF RunStep, StopStep, DialTCP, Handshake, HandshakeFails, Closed, Serve, Write, Written, ReadError, Stopped
  <2> QED
    BY <2>1, <2>2, <2>4, <2>5
<1> QED
  BY <1>1, <1>4, <1>5, <1>6, <1>7, <1>8 DEF Types, OthersLeave

\* Nothing but a reader's own turn touches what its invariant is about, except that
\* runSession starts the reader that is off.
LEMMA OthersReading ==
    ASSUME Reading, ~panicked, OthersLeave, Types', Fresh',
           \/ rd' = rd
           \/ run.c \in Conns /\ rd[run.c].pc = "off" /\ rd' = [rd EXCEPT ![run.c] = Again]
    PROVE  Reading'
<1>1. Types
  BY DEF Reading
<1>2. ASSUME NEW d \in Conns PROVE Local(d)' /\ (Beyond(d)' <=> Beyond(d))
  <2>1. pending'[d] = pending[d] /\ owed'[d] = owed[d] /\ sent'[d] = sent[d] /\ lost' = lost
    BY DEF OthersLeave
  <2>2. (Big(d)' <=> Big(d)) /\ (Beyond(d)' <=> Beyond(d)) /\ Need(d)' = Need(d)
    BY <2>1, SameNeed
  <2>3. Fits(d) /\ PendingAt(d) /\ OwedAt(d) /\ Growing(d)
    BY DEF Reading
  <2>4. CASE rd'[d] = rd[d]
    <3>1. Fits(d)' /\ PendingAt(d)'
      BY <2>1, <2>3, <2>4 DEF Fits, PendingAt
    <3>2. OwedAt(d)' /\ Growing(d)'
      BY <2>1, <2>2, <2>3, <2>4 DEF OwedAt, Growing
    <3> QED
      BY <2>2, <3>1, <3>2 DEF Local
  <2>5. CASE rd[d].pc = "off" /\ rd'[d] = Again
    <3>1. Again.pc = "get" /\ Again.err = "none" /\ Len(Again.got) <= Again.cap
      BY Leaving
    <3>2. Fits(d)' /\ PendingAt(d)'
      BY <2>5, <3>1 DEF Fits, PendingAt
    <3>3. OwedAt(d)' /\ Growing(d)'
      BY <2>1, <2>2, <2>3, <2>5, <3>1 DEF OwedAt, Growing
    <3> QED
      BY <2>2, <3>2, <3>3 DEF Local
  <2>6. rd'[d] = rd[d] \/ (rd[d].pc = "off" /\ rd'[d] = Again)
    BY <1>1 DEF Types
  <2> QED
    BY <2>4, <2>5, <2>6
<1>3. SizeNeeded'
  BY <1>2 DEF Reading, SizeNeeded, OthersLeave, Bucket
<1> QED
  BY <1>2, <1>3 DEF Reading, Local

\* session.run's steps keep what is fresh.
LEMMA RunFresh ==
    ASSUME Types, Fresh, RunStep \/ StopStep
    PROVE  /\ Fresh'
           /\ \/ rd' = rd
              \/ run.c \in Conns /\ rd[run.c].pc = "off" /\ rd' = [rd EXCEPT ![run.c] = Again]
<1>1. /\ run.c \in 0 .. MaxConns /\ MaxConns \in Nat /\ run \in Runs
      /\ (run.pc \notin {"dial", "end"} => run.c \in Conns)
      /\ rd \in [Conns -> Reads]
  BY Numbers DEF Types, Runs, Fresh
<1>2. CASE DialTCP
  <2>1. run' = [run EXCEPT !.pc = "tls", !.c = @ + 1] /\ rd' = rd /\ run.c < MaxConns
    BY <1>2 DEF DialTCP
  <2>2. run'.pc = "tls" /\ run'.c = run.c + 1 /\ run.c + 1 \in Conns
    BY <1>1, <2>1 DEF Runs, Conns
  <2> QED
    BY <1>1, <2>1, <2>2 DEF Fresh, Conns
<1>3. CASE Handshake
  <2>1. run'.c = run.c /\ run'.pc \in {"upgrade", "up"} /\ run.pc \in {"tls", "upgrade"} /\ rd' = rd
    BY <1>1, <1>3 DEF Handshake, At, Runs
  <2> QED
    BY <2>1 DEF Fresh
<1>4. CASE HandshakeFails \/ Closed(run.c) \/ Write(run.c) \/ Written(run.c) \/ ReadError(run.c) \/ Stopped(run.c)
  <2>1. /\ run'.c = run.c /\ run'.pc \in {"dial", "end", "run", "write", "close"}
        /\ (run'.pc \notin {"dial", "end"} => run.pc \notin {"dial", "end"})
        /\ rd' = rd
    BY <1>1, <1>4 DEF HandshakeFails, Closed, Write, Written, ReadError, Stopped, Close, At, Runs
  <2> QED
    BY <2>1 DEF Fresh
<1>5. CASE Serve(run.c)
  <2>1. /\ run'.c = run.c /\ run'.pc \in {"run", "close"} /\ run.pc = "up" /\ run.c \in Conns /\ rd[run.c].pc = "off"
        /\ rd' = rd \/ rd' = [rd EXCEPT ![run.c] = Again]
    BY <1>1, <1>5 DEF Serve, Close, At, Runs, Fresh
  <2>2. \A d \in Conns : d > run.c => rd'[d] = rd[d]
    BY <1>1, <2>1 DEF Conns
  <2> QED
    BY <2>1, <2>2 DEF Fresh
<1> QED
  BY <1>2, <1>3, <1>4, <1>5 DEF RunStep, StopStep

\* The readers' invariant is inductive.
LEMMA ReadingNext == ASSUME Reading, [Next]_vars PROVE Reading'
<1>t. Types /\ Fresh
  BY DEF Reading
<1>1. CASE UNCHANGED vars
  <2>1. OthersLeave /\ Types' /\ Fresh' /\ rd' = rd
    BY <1>1, <1>t DEF vars, connVars, writeVars, streamVars, OthersLeave, Types, Fresh
  <2> QED
    BY <1>1, <2>1, <1>t DEF vars, connVars, writeVars, streamVars, Reading, SizeNeeded, Fits, PendingAt, OwedAt, Growing,
                       Big, Beyond, Need, Bucket
<1>2. ASSUME ~panicked, RunStep \/ StopStep PROVE Reading'
  <2>1. OthersLeave
    BY <1>2 DEF RunStep, StopStep, OthersLeave, streamVars
  <2> QED
    BY <1>t, <1>2, <2>1, RunTypes, RunFresh, OthersReading
<1>3. ASSUME ~panicked, NEW c \in Conns, NEW p \in Writers, WriteStep(c, p) PROVE Reading'
  <2>1. OthersLeave /\ rd' = rd /\ run' = run
    BY <1>3 DEF WriteStep, OthersLeave, streamVars, connVars
  <2>2. Fresh'
    BY <1>t, <2>1 DEF Fresh
  <2> QED
    BY <1>t, <1>3, <2>1, <2>2, WriteTypes, OthersReading
<1>4. ASSUME ~panicked, NEW c \in Conns, Break(c) PROVE Reading'
  <2>1. OthersLeave /\ rd' = rd /\ run' = run
    BY <1>4 DEF Break, OthersLeave, streamVars
  <2>2. Fresh'
    BY <1>t, <2>1 DEF Fresh
  <2>3. Types'
    BY <1>t, <1>4, Numbers DEF Break, Types, streamVars, writeVars, Fault
  <2> QED
    BY <1>t, <1>4, <2>1, <2>2, <2>3, OthersReading
<1>5. ASSUME ~panicked, NEW c \in Conns, ReaderStep(c) \/ PeerStep(c) PROVE Reading'
  BY <1>5, ReaderReading
<1> QED
  BY <1>1, <1>2, <1>3, <1>4, <1>5 DEF Next, Progress

\* newSession's state satisfies it.
LEMMA ReadingInit == Init => Reading
<1> SUFFICES ASSUME Init PROVE Reading
  OBVIOUS
<1>1. Types
  <2>1. Reader \in Reads
    BY ReaderTypes
  <2>2. NoWrite \in WriteCalls /\ run \in Runs
    BY Numbers DEF NoWrite, WriteCalls, Runs, Init
  <2>3. \A S : <<>> \in Seq(S)
    BY EmptySeq
  <2>4. wr \in [Conns -> [Writers -> WriteCalls]] /\ rd \in [Conns -> Reads]
    BY <2>1, <2>2 DEF Init
  <2>5. out \in [Conns -> Seq(Parts)] /\ sent \in [Conns -> Seq(Frames)]
    BY <2>3 DEF Init
  <2>6. /\ sock \in [Conns -> {"none", "open", "broken", "closed"}] /\ mu \in [Conns -> Writers \cup {Nobody}]
        /\ pending \in [Conns -> Kept \cup {None}] /\ owed \in [Conns -> Nat] /\ lost \subseteq Conns
    BY DEF Init
  <2>7. headers \in 0 .. MaxHeaders /\ writes \in 0 .. MaxWrites /\ faults \in 0 .. MaxFaults
    BY Numbers DEF Init
  <2>8. panicked \in BOOLEAN
    BY Zenon DEF Init
  <2> QED
    BY <2>2, <2>4, <2>5, <2>6, <2>7, <2>8 DEF Types
<1>2. Reader.pc = "off" /\ Reader.err = "none" /\ Len(Reader.got) <= Reader.cap
  <2>1. Reader.pc = "off" /\ Reader.err = "none" /\ Reader.got = <<>> /\ Reader.cap = 0
    BY DEF Reader
  <2> QED
    BY <2>1, EmptySeq
<1>3. Fresh
  BY <1>2, Numbers DEF Fresh, Init
<1>4. \A c \in Conns : Fits(c) /\ PendingAt(c) /\ OwedAt(c) /\ Growing(c)
  BY <1>2 DEF Init, Fits, PendingAt, OwedAt, Growing
<1>5. SizeNeeded
  <2>1. 1 \in DOMAIN Sizes /\ \A i \in DOMAIN Sizes : Sizes[i] \in Nat /\ Sizes[1] <= Sizes[i]
    BY SizesList DEF Increasing
  <2>2. Sizes[1] > MaxAlloc => \A c \in Conns : Beyond(c)
    BY <2>1, Numbers DEF Beyond
  <2> QED
    BY <2>1, <2>2 DEF SizeNeeded, Bucket, Init, InitSize
<1> QED
  BY <1>1, <1>3, <1>4, <1>5 DEF Reading

-----------------------------------------------------------------------------
(* The theorems about reading.                                             *)

\* Types and the readers' invariant give TypeOK.
LEMMA ReadingTypeOK == Reading => TypeOK
<1> SUFFICES ASSUME Reading PROVE TypeOK
  OBVIOUS
<1>1. Types /\ Bucket(frameSize) /\ \A c \in Conns : Len(rd[c].got) <= rd[c].cap
  BY DEF Reading, SizeNeeded, Fits
<1>2. run.pc \in {"dial", "tls", "upgrade", "up", "run", "write", "close", "end"} /\ run.c \in 0 .. MaxConns /\ run.stop \in BOOLEAN
  BY <1>1 DEF Types, Runs
<1>3. \A c \in Conns, p \in Writers : wr[c][p].st \in {"idle", "lock", "head", "body", "ok", "failed"}
  BY <1>1 DEF Types, WriteCalls
<1>4. \A c \in Conns :
         /\ rd[c].pc \in {"off", "get", "head", "data", "ctrl", "pong", "grow", "store", "route", "done"}
         /\ rd[c].err \in {"none", "protocol", "toolarge", "eof", "conn"}
  BY <1>1 DEF Types, Reads
<1> QED
  BY <1>1, <1>2, <1>3, <1>4 DEF Types, TypeOK, Bucket

\* Every reachable state satisfies the readers' invariant.
LEMMA ReadingCorrect == Spec => []Reading
BY ReadingInit, ReadingNext, PTL DEF Spec

\* The connection's state keeps its types, frameSize is always one of the pool's buckets and
\* no Read holds more than its buffer (dialer.go, session.go, buffer_pool.go).
THEOREM TypeCorrect == Spec => []TypeOK
BY ReadingCorrect, ReadingTypeOK, PTL

\* wsConn.Read takes payload bytes for a header only after a frame longer than maxPayloadLen
\* (dialer.go: the error of such a frame is the one readLoop answers by growing).
THEOREM ReadersInStep == Spec => []InStep
<1>1. Reading => InStep
  BY DEF Reading, Types, OwedAt, InStep
<1> QED
  BY <1>1, ReadingCorrect, PTL

\* readLoop gives a message up as too large, and make panics, only for a message that no
\* bucket that can be allocated holds (session.go's tryGrowReadBuffer, buffer_pool.go's Get).
THEOREM GivenUpOnlyIfTooLarge == Spec => []NeverTooSmall
<1>1. Reading => NeverTooSmall
  BY DEF Reading, SizeNeeded, Growing, NeverTooSmall
<1> QED
  BY <1>1, ReadingCorrect, PTL

-----------------------------------------------------------------------------
(* Writing: one step of a writeFrame call.                                 *)

Channel(c) == /\ Exclusive(c) /\ Callers(c) /\ HalfWritten(c) /\ PongsInTurn(c)
              /\ BodyAfterHead(c) /\ HeadBeforeBody(c) /\ PongOrder(c)

\* The fields of a call, and what a step of it leaves.
LEMMA CallFields ==
    ASSUME Types, NEW c \in Conns, NEW p \in Writers
    PROVE  /\ wr[c][p] \in WriteCalls /\ wr[c][p].len \in Nat /\ wr[c][p].tag \in Nat
           /\ wr[c][p].st \in {"idle", "lock", "head", "body", "ok", "failed"}
           /\ out[c] \in Seq(Parts) /\ Len(out[c]) \in Nat /\ DOMAIN out[c] = 1 .. Len(out[c])
           /\ sent[c] \in Seq(Frames) /\ Len(sent[c]) \in Nat
BY LenProperties DEF Types, WriteCalls

StepTo(c, p, st) == wr' = [wr EXCEPT ![c][p].st = st]

\* A step of the call of p on c.
LEMMA CallSteps ==
    ASSUME Types, NEW c \in Conns, NEW p \in Writers, NEW st, StepTo(c, p, st)
    PROVE  /\ wr'[c][p].st = st /\ wr'[c][p].op = wr[c][p].op
           /\ wr'[c][p].len = wr[c][p].len /\ wr'[c][p].tag = wr[c][p].tag
           /\ \A q \in Writers : q # p => wr'[c][q] = wr[c][q]
           /\ \A d \in Conns : d # c => wr'[d] = wr[d]
<1>1. wr \in [Conns -> [Writers -> WriteCalls]] /\ wr[c] \in [Writers -> WriteCalls] /\ wr[c][p] \in WriteCalls
  BY DEF Types
<1>2. wr' = [wr EXCEPT ![c] = [wr[c] EXCEPT ![p] = [wr[c][p] EXCEPT !.st = st]]]
  BY Zenon DEF StepTo
<1>3. wr'[c] = [wr[c] EXCEPT ![p] = [wr[c][p] EXCEPT !.st = st]]
  BY <1>1, <1>2
<1>4. wr'[c][p] = [wr[c][p] EXCEPT !.st = st]
  BY <1>1, <1>3
<1>5. \A q \in Writers : q # p => wr'[c][q] = wr[c][q]
  BY <1>1, <1>3
<1>6. \A d \in Conns : d # c => wr'[d] = wr[d]
  BY <1>1, <1>2
<1>7. /\ [wr[c][p] EXCEPT !.st = st].st = st /\ [wr[c][p] EXCEPT !.st = st].op = wr[c][p].op
      /\ [wr[c][p] EXCEPT !.st = st].len = wr[c][p].len /\ [wr[c][p] EXCEPT !.st = st].tag = wr[c][p].tag
  BY <1>1 DEF WriteCalls
<1> QED
  BY <1>4, <1>5, <1>6, <1>7

SetTo(c, p, x) == wr' = [wr EXCEPT ![c][p] = x]

\* A call that starts or ends.
LEMMA CallSet ==
    ASSUME Types, NEW c \in Conns, NEW p \in Writers, NEW x, SetTo(c, p, x)
    PROVE  /\ wr'[c][p] = x
           /\ \A q \in Writers : q # p => wr'[c][q] = wr[c][q]
           /\ \A d \in Conns : d # c => wr'[d] = wr[d]
BY DEF Types, SetTo

\* A connection of which nothing changes but where its reader is, as long as that is not
\* the reader's call or a control frame.
LEMMA ChannelSame ==
    ASSUME NEW c \in Conns, Channel(c), wr'[c] = wr[c], mu'[c] = mu[c], out'[c] = out[c], sent'[c] = sent[c],
           sock'[c] = "open" => sock[c] = "open" \/ out[c] = <<>>,
           rd'[c] = rd[c] \/ (rd[c].pc # "pong" /\ rd'[c].pc # "ctrl"),
           c > run'.c => c > run.c,
           wr[c]["run"].st # "idle" => run'.c = run.c /\ run'.pc \in {"write", "close"}
    PROVE  Channel(c)'
<1>1. Exclusive(c)' /\ BodyAfterHead(c)' /\ HeadBeforeBody(c)' /\ PongOrder(c)'
  BY DEF Channel, Exclusive, BodyAfterHead, HeadBeforeBody, PongOrder
<1>2. Callers(c)'
  BY DEF Channel, Callers
<1>3. HalfWritten(c)'
  BY DEF Channel, HalfWritten, Part
<1>4. PongsInTurn(c)'
  BY DEF Channel, PongsInTurn, PongsBefore
<1> QED
  BY <1>1, <1>2, <1>3, <1>4 DEF Channel

\* writeFrame's first step.
LEMMA LockChannel ==
    ASSUME Types, NEW c \in Conns, NEW p \in Writers, Channel(c), WriteStep(c, p), Lock(c, p)
    PROVE  Channel(c)'
<1>1. /\ wr[c][p].st = "lock" /\ mu[c] = Nobody /\ mu'[c] = p /\ out' = out
      /\ UNCHANGED <<run, sock, rd, sent>>
  BY DEF Lock, WriteStep, connVars, streamVars, Types
<1>s. StepTo(c, p, "head")
  BY DEF Lock, StepTo
<1>2. /\ wr'[c][p].st = "head" /\ wr'[c][p].op = wr[c][p].op
      /\ wr'[c][p].len = wr[c][p].len /\ wr'[c][p].tag = wr[c][p].tag
      /\ \A q \in Writers : q # p => wr'[c][q] = wr[c][q]
  BY <1>s, CallSteps
<1>3. \A q \in Writers : q # Nobody
  BY DEF Writers, Nobody
<1>4. Exclusive(c)'
  BY <1>1, <1>2, <1>3 DEF Channel, Exclusive
<1>5. Callers(c)'
  BY <1>1, <1>2 DEF Channel, Callers, Writers
<1>6. HalfWritten(c)'
  BY <1>1, <1>2 DEF Channel, HalfWritten, Part
<1>7. PongsInTurn(c)'
  BY <1>1, <1>2 DEF Channel, PongsInTurn, PongsBefore, Writers
<1>8. BodyAfterHead(c)' /\ HeadBeforeBody(c)' /\ PongOrder(c)'
  BY <1>1 DEF Channel, BodyAfterHead, HeadBeforeBody, PongOrder
<1> QED
  BY <1>4, <1>5, <1>6, <1>7, <1>8 DEF Channel

\* The write fails: the socket is not open, and a header may stay without its payload.
LEMMA FailChannel ==
    ASSUME Types, NEW c \in Conns, NEW p \in Writers, Channel(c), WriteStep(c, p), WriteFails(c, p)
    PROVE  Channel(c)'
<1>1. /\ wr[c][p].st \in {"head", "body"} /\ sock[c] # "open" /\ mu'[c] = Nobody /\ out' = out
      /\ UNCHANGED <<run, sock, rd, sent>>
  BY DEF WriteFails, WriteStep, Result, connVars, streamVars, Types
<1>s. StepTo(c, p, "failed")
  BY DEF WriteFails, Result, StepTo
<1>2. /\ wr'[c][p].st = "failed" /\ wr'[c][p].op = wr[c][p].op
      /\ wr'[c][p].len = wr[c][p].len /\ wr'[c][p].tag = wr[c][p].tag
      /\ \A q \in Writers : q # p => wr'[c][q] = wr[c][q]
  BY <1>s, CallSteps
<1>3. \A q \in Writers : q # Nobody
  BY DEF Writers, Nobody
<1>4. Exclusive(c)'
  BY <1>1, <1>2, <1>3 DEF Channel, Exclusive
<1>5. Callers(c)'
  BY <1>1, <1>2 DEF Channel, Callers, Writers
<1>6. HalfWritten(c)'
  BY <1>1, <1>2 DEF Channel, HalfWritten, Part
<1>7. PongsInTurn(c)'
  BY <1>1, <1>2 DEF Channel, PongsInTurn, PongsBefore, Writers
<1>8. BodyAfterHead(c)' /\ HeadBeforeBody(c)' /\ PongOrder(c)'
  BY <1>1 DEF Channel, BodyAfterHead, HeadBeforeBody, PongOrder
<1> QED
  BY <1>4, <1>5, <1>6, <1>7, <1>8 DEF Channel

\* What a write to the socket adds.
LEMMA Added ==
    ASSUME Types, NEW c \in Conns, NEW x \in Parts, out'[c] = Append(out[c], x)
    PROVE  /\ Len(out[c]) \in Nat /\ Len(out'[c]) = Len(out[c]) + 1 /\ out'[c] # <<>>
           /\ DOMAIN out[c] = 1 .. Len(out[c]) /\ DOMAIN out'[c] = 1 .. Len(out[c]) + 1
           /\ \A i \in 1 .. Len(out[c]) : out'[c][i] = out[c][i]
           /\ out'[c][Len(out[c]) + 1] = x
<1>1. out[c] \in Seq(Parts)
  BY DEF Types
<1>2. /\ out'[c] \in Seq(Parts) /\ Len(out'[c]) = Len(out[c]) + 1 /\ Len(out[c]) \in Nat
      /\ \A i \in 1 .. Len(out[c]) : out'[c][i] = out[c][i]
      /\ out'[c][Len(out[c]) + 1] = x
  BY <1>1, AppendProperties, LenProperties
<1> QED
  BY <1>1, <1>2, LenProperties, EmptySeq

\* The fields of a part.
LEMMA PartFields ==
    ASSUME Types, NEW c \in Conns, NEW p \in Writers, NEW part \in {"head", "body"}
    PROVE  /\ Part(c, p, part) \in Parts
           /\ Part(c, p, part).part = part /\ Part(c, p, part).op = wr[c][p].op
           /\ Part(c, p, part).len = wr[c][p].len /\ Part(c, p, part).tag = wr[c][p].tag
BY DEF Types, Part, Parts, WriteCalls

\* Pongs written before stay before.
LEMMA BeforeStays ==
    ASSUME Types, NEW c \in Conns, NEW x \in Parts, out'[c] = Append(out[c], x), NEW n \in Nat,
           PongsBefore(c, n), IsPong(x) => x.tag < n
    PROVE  \A i \in DOMAIN out'[c] : IsPong(out'[c][i]) => out'[c][i].tag < n
<1>1. /\ Len(out[c]) \in Nat /\ DOMAIN out[c] = 1 .. Len(out[c]) /\ DOMAIN out'[c] = 1 .. Len(out[c]) + 1
      /\ \A i \in 1 .. Len(out[c]) : out'[c][i] = out[c][i]
      /\ out'[c][Len(out[c]) + 1] = x
  BY Added
<1> SUFFICES ASSUME NEW i \in 1 .. Len(out[c]) + 1, IsPong(out'[c][i]) PROVE out'[c][i].tag < n
  BY <1>1
<1>2. CASE i = Len(out[c]) + 1
  BY <1>1, <1>2
<1>3. CASE i # Len(out[c]) + 1
  <2>1. i \in 1 .. Len(out[c])
    BY <1>1, <1>3
  <2> QED
    BY <1>1, <2>1 DEF PongsBefore
<1> QED
  BY <1>2, <1>3

\* Only a connection that was dialled is written to.
LEMMA Dialled ==
    ASSUME Types, Fresh, NEW c \in Conns, NEW p \in Writers, Channel(c), wr[c][p].st # "idle"
    PROVE  ~(c > run.c)
<1>1. CASE p = "reader"
  BY <1>1 DEF Channel, Callers, Fresh
<1>2. CASE p = "run"
  <2>1. c = run.c /\ c \in Int
    BY <1>2, Numbers DEF Channel, Callers, Conns
  <2> QED
    BY <2>1
<1> QED
  BY <1>1, <1>2 DEF Writers

\* The header of a frame, and all of a frame without payload.
LEMMA HeaderChannel ==
    ASSUME Types, Fresh, NEW c \in Conns, NEW p \in Writers, Channel(c), WriteStep(c, p), WriteHeader(c, p)
    PROVE  Channel(c)'
<1> DEFINE x == Part(c, p, "head")
           last == out[c][Len(out[c])]
<1>1. wr[c][p].st = "head" /\ sock[c] = "open" /\ mu[c] = p /\ out'[c] = Append(out[c], x) /\ UNCHANGED <<run, sock, rd, sent>>
  BY DEF WriteHeader, WriteStep, connVars, streamVars, Types, Channel, Exclusive
<1>x. x \in Parts /\ x.part = "head" /\ x.op = wr[c][p].op /\ x.len = wr[c][p].len /\ x.tag = wr[c][p].tag
  BY PartFields
<1>n. wr[c][p].len \in Nat /\ wr[c][p].tag \in Nat /\ Len(sent[c]) \in Nat
  BY CallFields
<1>2. /\ Len(out[c]) \in Nat /\ Len(out'[c]) = Len(out[c]) + 1 /\ out'[c] # <<>>
      /\ DOMAIN out[c] = 1 .. Len(out[c]) /\ DOMAIN out'[c] = 1 .. Len(out[c]) + 1
      /\ \A i \in 1 .. Len(out[c]) : out'[c][i] = out[c][i]
      /\ out'[c][Len(out[c]) + 1] = x
  BY <1>1, <1>x, Added
<1>s. \E st \in {"ok", "body"} : StepTo(c, p, st) /\ mu'[c] = (IF st = "ok" THEN Nobody ELSE p)
                                /\ (st = "ok" <=> wr[c][p].len = 0)
  <2>1. CASE wr[c][p].len = 0
    BY <2>1 DEF WriteHeader, Result, StepTo, Types
  <2>2. CASE wr[c][p].len # 0
    BY <1>1, <2>2 DEF WriteHeader, StepTo, Types
  <2> QED
    BY <2>1, <2>2
<1>3. PICK st \in {"ok", "body"} : StepTo(c, p, st) /\ mu'[c] = (IF st = "ok" THEN Nobody ELSE p)
                                   /\ (st = "ok" <=> wr[c][p].len = 0)
  BY <1>s
<1>4. /\ wr'[c][p].st = st /\ wr'[c][p].op = wr[c][p].op
      /\ wr'[c][p].len = wr[c][p].len /\ wr'[c][p].tag = wr[c][p].tag
      /\ \A q \in Writers : q # p => wr'[c][q] = wr[c][q]
  BY <1>3, CallSteps
<1>5. \A q \in Writers : q # Nobody /\ wr[c][q].st # "body" /\ (q # p => wr[c][q].st \notin {"head", "body"})
  BY <1>1 DEF Channel, Exclusive, Writers, Nobody
<1>6. out[c] # <<>> => ~OpenHead(last)
  BY <1>1, <1>5 DEF Channel, HalfWritten
<1>7. IsPong(x) => p = "reader" /\ x.tag <= Len(sent[c]) /\ PongsBefore(c, x.tag)
  BY <1>1, <1>x DEF Channel, Callers, PongsInTurn, IsPong, Writers
<1> HIDE DEF x
<1>8. Exclusive(c)'
  BY <1>1, <1>3, <1>4, <1>5 DEF Exclusive
<1>9. Callers(c)'
  <2>1. ~(c > run.c)
    BY <1>1, Dialled
  <2> QED
    BY <1>1, <1>4, <2>1 DEF Channel, Callers, Writers
<1>10. HalfWritten(c)'
  <2>1. Part(c, p, "head")' = x
    BY <1>4 DEF Part, x
  <2>2. \A q \in Writers : wr'[c][q].st = "body" => q = p /\ st = "body"
    BY <1>4, <1>5
  <2>3. \A q \in Writers : wr'[c][q].st = "body" =>
          out'[c] # <<>> /\ out'[c][Len(out'[c])] = Part(c, q, "head")' /\ wr'[c][q].len > 0
    BY <1>2, <1>3, <1>4, <1>n, <2>1, <2>2
  <2>4. OpenHead(x) => wr'[c][p].st = "body"
    BY <1>3, <1>4, <1>x DEF OpenHead
  <2> QED
    BY <1>2, <2>3, <2>4 DEF HalfWritten
<1>11. PongsInTurn(c)'
  <2>1. PongsBefore(c, Len(sent[c]) + 1) /\ (IsPong(x) => x.tag < Len(sent[c]) + 1)
    BY <1>7, <1>n, <1>x DEF Channel, PongsInTurn
  <2>2. \A i \in DOMAIN out'[c] : IsPong(out'[c][i]) => out'[c][i].tag < Len(sent[c]) + 1
    BY <1>1, <1>n, <1>x, <2>1, BeforeStays
  <2>3. CASE p = "reader"
    <3>1. rd'[c].pc # "ctrl" /\ wr'[c]["reader"].st \notin {"lock", "head"}
      BY <1>1, <1>4, <2>3 DEF Channel, Callers
    <3> QED
      BY <1>1, <2>2, <3>1 DEF PongsInTurn, PongsBefore
  <2>4. CASE p # "reader"
    <3>1. ~IsPong(x) /\ wr'[c]["reader"] = wr[c]["reader"]
      BY <1>4, <1>7, <2>4 DEF Writers
    <3>2. ASSUME NEW n \in Nat, PongsBefore(c, n)
          PROVE  \A i \in DOMAIN out'[c] : IsPong(out'[c][i]) => out'[c][i].tag < n
      BY <1>1, <1>x, <3>1, <3>2, BeforeStays
    <3>3. rd[c].tag \in Nat /\ wr[c]["reader"].tag \in Nat
      BY ReadFields, CallFields DEF Writers
    <3> QED
      BY <1>1, <2>2, <3>1, <3>2, <3>3 DEF Channel, PongsInTurn, PongsBefore
  <2> QED
    BY <2>3, <2>4
<1>12. BodyAfterHead(c)'
  <2> SUFFICES ASSUME NEW i \in 1 .. Len(out[c]) + 1, out'[c][i].part = "body"
               PROVE  i > 1 /\ out'[c][i - 1] = [out'[c][i] EXCEPT !.part = "head"]
    BY <1>2 DEF BodyAfterHead
  <2>1. i \in 1 .. Len(out[c]) /\ out'[c][i] = out[c][i]
    BY <1>2, <1>x
  <2>2. i > 1 /\ out[c][i - 1] = [out[c][i] EXCEPT !.part = "head"]
    BY <1>2, <2>1 DEF Channel, BodyAfterHead
  <2>3. i - 1 \in 1 .. Len(out[c])
    BY <1>2, <2>1, <2>2
  <2> QED
    BY <1>2, <2>1, <2>2, <2>3
<1>13. HeadBeforeBody(c)'
  <2> SUFFICES ASSUME NEW i \in 1 .. Len(out[c]) + 1, OpenHead(out'[c][i]), i < Len(out[c]) + 1
               PROVE  out'[c][i + 1] = [out'[c][i] EXCEPT !.part = "body"]
    BY <1>2 DEF HeadBeforeBody
  <2>1. i \in 1 .. Len(out[c]) /\ out'[c][i] = out[c][i] /\ out[c] # <<>>
    BY <1>2, EmptySeq
  <2>2. i # Len(out[c])
    BY <1>6, <2>1
  <2>3. i < Len(out[c]) /\ i + 1 \in 1 .. Len(out[c])
    BY <1>2, <2>1, <2>2
  <2> QED
    BY <1>2, <2>1, <2>3 DEF Channel, HeadBeforeBody
<1>14. PongOrder(c)'
  <2> SUFFICES ASSUME NEW i \in 1 .. Len(out[c]) + 1, NEW j \in 1 .. Len(out[c]) + 1, i < j,
                      IsPong(out'[c][i]), IsPong(out'[c][j])
               PROVE  out'[c][i].tag < out'[c][j].tag
    BY <1>2 DEF PongOrder
  <2>1. i \in 1 .. Len(out[c]) /\ out'[c][i] = out[c][i]
    BY <1>2
  <2>2. CASE j = Len(out[c]) + 1
    BY <1>2, <1>7, <2>1, <2>2 DEF PongsBefore
  <2>3. CASE j # Len(out[c]) + 1
    <3>1. j \in 1 .. Len(out[c])
      BY <1>2, <2>3
    <3> QED
      BY <1>2, <2>1, <3>1 DEF Channel, PongOrder
  <2> QED
    BY <2>2, <2>3
<1> QED
  BY <1>8, <1>9, <1>10, <1>11, <1>12, <1>13, <1>14 DEF Channel

\* The payload, right after its header.
LEMMA PayloadChannel ==
    ASSUME Types, Fresh, NEW c \in Conns, NEW p \in Writers, Channel(c), WriteStep(c, p), WritePayload(c, p)
    PROVE  Channel(c)'
<1> DEFINE x == Part(c, p, "body")
           h == Part(c, p, "head")
<1>1. /\ wr[c][p].st = "body" /\ sock[c] = "open" /\ mu[c] = p /\ out'[c] = Append(out[c], x)
      /\ mu'[c] = Nobody /\ UNCHANGED <<run, sock, rd, sent>>
  BY DEF WritePayload, WriteStep, Result, connVars, streamVars, Types, Channel, Exclusive
<1>x. x \in Parts /\ x.part = "body"
  BY PartFields
<1>h. x = [h EXCEPT !.part = "body"] /\ h = [x EXCEPT !.part = "head"] /\ h.part = "head"
  BY DEF Part
<1>n. Len(sent[c]) \in Nat
  BY CallFields
<1>2. /\ Len(out[c]) \in Nat /\ Len(out'[c]) = Len(out[c]) + 1 /\ out'[c] # <<>>
      /\ DOMAIN out[c] = 1 .. Len(out[c]) /\ DOMAIN out'[c] = 1 .. Len(out[c]) + 1
      /\ \A i \in 1 .. Len(out[c]) : out'[c][i] = out[c][i]
      /\ out'[c][Len(out[c]) + 1] = x
  BY <1>1, <1>x, Added
<1>3. out[c] # <<>> /\ out[c][Len(out[c])] = h /\ Len(out[c]) \in 1 .. Len(out[c])
  <2>1. out[c] # <<>> /\ out[c][Len(out[c])] = h
    BY <1>1 DEF Channel, HalfWritten
  <2>2. Len(out[c]) # 0
    BY <2>1, EmptySeq DEF Types
  <2> QED
    BY <1>2, <2>1, <2>2
<1>s. StepTo(c, p, "ok")
  BY DEF WritePayload, Result, StepTo
<1>4. /\ wr'[c][p].st = "ok" /\ wr'[c][p].op = wr[c][p].op
      /\ wr'[c][p].len = wr[c][p].len /\ wr'[c][p].tag = wr[c][p].tag
      /\ \A q \in Writers : q # p => wr'[c][q] = wr[c][q]
  BY <1>s, CallSteps
<1>5. \A q \in Writers : q # Nobody /\ (q # p => wr[c][q].st \notin {"head", "body"})
  BY <1>1 DEF Channel, Exclusive, Writers, Nobody
<1>7. ~IsPong(x) /\ ~OpenHead(x)
  BY <1>x DEF IsPong, OpenHead
<1> HIDE DEF x, h
<1>8. Exclusive(c)'
  BY <1>1, <1>4, <1>5 DEF Exclusive
<1>9. Callers(c)'
  <2>1. ~(c > run.c)
    BY <1>1, Dialled
  <2> QED
    BY <1>1, <1>4, <2>1 DEF Channel, Callers, Writers
<1>10. HalfWritten(c)'
  <2>1. \A q \in Writers : wr'[c][q].st # "body"
    BY <1>4, <1>5
  <2>2. out'[c][Len(out'[c])] = x
    BY <1>2
  <2> QED
    BY <1>7, <2>1, <2>2 DEF HalfWritten
<1>11. PongsInTurn(c)'
  <2>1. ASSUME NEW n \in Nat, PongsBefore(c, n)
        PROVE  \A i \in DOMAIN out'[c] : IsPong(out'[c][i]) => out'[c][i].tag < n
    BY <1>1, <1>x, <1>7, <2>1, BeforeStays
  <2>2. rd[c].tag \in Nat /\ wr[c]["reader"].tag \in Nat /\ Len(sent[c]) + 1 \in Nat
    BY <1>n, ReadFields, CallFields DEF Writers
  <2>3. wr'[c]["reader"].tag = wr[c]["reader"].tag
    BY <1>4 DEF Writers
  <2>4. wr'[c]["reader"].st \in {"lock", "head"} => wr[c]["reader"].st \in {"lock", "head"}
    BY <1>4 DEF Writers
  <2> QED
    BY <1>1, <2>1, <2>2, <2>3, <2>4 DEF Channel, PongsInTurn, PongsBefore
<1>12. BodyAfterHead(c)'
  <2> SUFFICES ASSUME NEW i \in 1 .. Len(out[c]) + 1, out'[c][i].part = "body"
               PROVE  i > 1 /\ out'[c][i - 1] = [out'[c][i] EXCEPT !.part = "head"]
    BY <1>2 DEF BodyAfterHead
  <2>1. CASE i = Len(out[c]) + 1
    <3>1. i - 1 = Len(out[c]) /\ i > 1
      BY <1>2, <1>3, <2>1
    <3>2. out'[c][i - 1] = h /\ out'[c][i] = x
      BY <1>2, <1>3, <2>1, <3>1
    <3> QED
      BY <1>h, <3>1, <3>2
  <2>2. CASE i # Len(out[c]) + 1
    <3>1. i \in 1 .. Len(out[c]) /\ out'[c][i] = out[c][i]
      BY <1>2, <2>2
    <3>2. i > 1 /\ out[c][i - 1] = [out[c][i] EXCEPT !.part = "head"]
      BY <1>2, <3>1 DEF Channel, BodyAfterHead
    <3>3. i - 1 \in 1 .. Len(out[c])
      BY <1>2, <3>1, <3>2
    <3> QED
      BY <1>2, <3>1, <3>2, <3>3
  <2> QED
    BY <2>1, <2>2
<1>13. HeadBeforeBody(c)'
  <2> SUFFICES ASSUME NEW i \in 1 .. Len(out[c]) + 1, OpenHead(out'[c][i]), i < Len(out[c]) + 1
               PROVE  out'[c][i + 1] = [out'[c][i] EXCEPT !.part = "body"]
    BY <1>2 DEF HeadBeforeBody
  <2>1. i \in 1 .. Len(out[c]) /\ out'[c][i] = out[c][i]
    BY <1>2
  <2>2. CASE i = Len(out[c])
    BY <1>2, <1>3, <1>h, <2>1, <2>2
  <2>3. CASE i # Len(out[c])
    <3>1. i < Len(out[c]) /\ i + 1 \in 1 .. Len(out[c])
      BY <1>2, <2>1, <2>3
    <3> QED
      BY <1>2, <2>1, <3>1 DEF Channel, HeadBeforeBody
  <2> QED
    BY <2>2, <2>3
<1>14. PongOrder(c)'
  <2> SUFFICES ASSUME NEW i \in 1 .. Len(out[c]) + 1, NEW j \in 1 .. Len(out[c]) + 1, i < j,
                      IsPong(out'[c][i]), IsPong(out'[c][j])
               PROVE  out'[c][i].tag < out'[c][j].tag
    BY <1>2 DEF PongOrder
  <2>1. i \in 1 .. Len(out[c]) /\ j \in 1 .. Len(out[c])
    BY <1>2, <1>7
  <2> QED
    BY <1>2, <2>1 DEF Channel, PongOrder
<1> QED
  BY <1>8, <1>9, <1>10, <1>11, <1>12, <1>13, <1>14 DEF Channel

-----------------------------------------------------------------------------
(* Every step keeps the writers' invariant.                                *)

\* A step of a writeFrame call.
LEMMA WriteWriting ==
    ASSUME Reading, Writing, NEW c \in Conns, NEW p \in Writers, WriteStep(c, p)
    PROVE  Writing'
<1>1. Types /\ Fresh /\ \A d \in Conns : Channel(d)
  BY DEF Reading, Writing, Channel
<1>2. Channel(c)'
  BY <1>1, LockChannel, HeaderChannel, PayloadChannel, FailChannel DEF WriteStep
<1>3. ASSUME NEW d \in Conns, d # c PROVE Channel(d)'
  <2>1. UNCHANGED <<run, sock, rd, sent>>
    BY DEF WriteStep, connVars, streamVars
  <2>2. mu'[d] = mu[d] /\ out'[d] = out[d]
    BY <1>1, <1>3 DEF WriteStep, Lock, WriteHeader, WritePayload, WriteFails, Result, Types
  <2>3. PICK st \in {"head", "body", "ok", "failed"} : StepTo(c, p, st)
    BY DEF WriteStep, Lock, WriteHeader, WritePayload, WriteFails, Result, StepTo
  <2>4. wr'[d] = wr[d]
    BY <1>1, <1>3, <2>3, CallSteps
  <2>5. wr[d]["run"].st # "idle" => run.pc \in {"write", "close"}
    BY <1>1 DEF Channel, Callers
  <2>6. /\ sent'[d] = sent[d] /\ rd'[d] = rd[d] /\ sock'[d] = sock[d]
        /\ run'.c = run.c /\ run'.pc = run.pc
    BY <2>1
  <2> QED
    BY <1>1, <2>2, <2>4, <2>5, <2>6, ChannelSame
<1> QED
  BY <1>2, <1>3 DEF Writing, Channel

\* The network breaks a connection.
LEMMA BreakWriting == ASSUME Reading, Writing, NEW c \in Conns, Break(c) PROVE Writing'
<1>1. Types /\ Fresh /\ \A d \in Conns : Channel(d)
  BY DEF Reading, Writing, Channel
<1>2. ASSUME NEW d \in Conns PROVE Channel(d)'
  <2>1. UNCHANGED <<run, rd, sent, wr, mu, out>>
    BY DEF Break, writeVars, streamVars
  <2>2. sock'[d] = "open" => sock[d] = "open"
    BY <1>1 DEF Break, Types
  <2>3. wr[d]["run"].st # "idle" => run.pc \in {"write", "close"}
    BY <1>1 DEF Channel, Callers
  <2>4. /\ sent'[d] = sent[d] /\ rd'[d] = rd[d] /\ wr'[d] = wr[d] /\ mu'[d] = mu[d] /\ out'[d] = out[d]
        /\ run'.c = run.c /\ run'.pc = run.pc
    BY <2>1
  <2> QED
    BY <1>1, <2>2, <2>3, <2>4, ChannelSame
<1> QED
  BY <1>2 DEF Writing, Channel

\* The reader of c answers a ping: its call starts, with a tag after those of all pongs before.
LEMMA PingChannel ==
    ASSUME Types, NEW c \in Conns, Channel(c), rd[c].pc = "ctrl", rd'[c].pc = "pong", NEW x \in WriteCalls,
           x.st = "lock", x.tag = rd[c].tag, SetTo(c, "reader", x),
           UNCHANGED <<run, sock, mu, out, sent>>
    PROVE  Channel(c)'
<1>1. "reader" \in Writers /\ "run" \in Writers
  BY DEF Writers
<1>2. wr'[c]["reader"] = x /\ \A q \in Writers : q # "reader" => wr'[c][q] = wr[c][q]
  BY <1>1, CallSet
<1>3. wr[c]["reader"].st = "idle"
  BY DEF Channel, Callers
<1>4. Exclusive(c)'
  BY <1>1, <1>2, <1>3 DEF Channel, Exclusive
<1>5. Callers(c)'
  BY <1>1, <1>2 DEF Channel, Callers
<1>6. HalfWritten(c)'
  BY <1>1, <1>2, <1>3 DEF Channel, HalfWritten, Part
<1>7. PongsInTurn(c)'
  BY <1>2 DEF Channel, PongsInTurn, PongsBefore
<1>8. BodyAfterHead(c)' /\ HeadBeforeBody(c)' /\ PongOrder(c)'
  BY DEF Channel, BodyAfterHead, HeadBeforeBody, PongOrder
<1> QED
  BY <1>4, <1>5, <1>6, <1>7, <1>8 DEF Channel

\* Its call ends.
LEMMA PongedChannel ==
    ASSUME Types, NEW c \in Conns, Channel(c), Ponged(c), rd'[c].pc = "head", UNCHANGED <<run, sock, mu, out, sent>>
    PROVE  Channel(c)'
<1>1. "reader" \in Writers /\ "run" \in Writers /\ NoWrite.st = "idle"
  BY DEF Writers, NoWrite
<1>2. SetTo(c, "reader", NoWrite) /\ rd[c].pc = "pong" /\ wr[c]["reader"].st \in {"ok", "failed"}
  BY DEF Ponged, SetTo
<1>3. wr'[c]["reader"] = NoWrite /\ \A q \in Writers : q # "reader" => wr'[c][q] = wr[c][q]
  BY <1>1, <1>2, CallSet
<1>4. Exclusive(c)'
  BY <1>1, <1>2, <1>3 DEF Channel, Exclusive
<1>5. Callers(c)'
  BY <1>1, <1>3 DEF Channel, Callers
<1>6. HalfWritten(c)'
  BY <1>1, <1>2, <1>3 DEF Channel, HalfWritten, Part
<1>7. PongsInTurn(c)'
  BY <1>1, <1>3 DEF Channel, PongsInTurn, PongsBefore
<1>8. BodyAfterHead(c)' /\ HeadBeforeBody(c)' /\ PongOrder(c)'
  BY DEF Channel, BodyAfterHead, HeadBeforeBody, PongOrder
<1> QED
  BY <1>4, <1>5, <1>6, <1>7, <1>8 DEF Channel

\* A header is read: the frame's number is after those of all pongs so far.
LEMMA HeaderReadChannel ==
    ASSUME Types, NEW c \in Conns, Channel(c), ReadHeader(c), UNCHANGED <<run, sock, mu, out>>
    PROVE  Channel(c)'
<1>1. rd[c].pc = "head" /\ wr' = wr /\ wr[c]["reader"].st = "idle"
  BY DEF ReadHeader, Channel, Callers
<1> DEFINE instep == c \notin lost /\ owed[c] = 0
<1>f. PICK f \in Frames :
         /\ sent' = IF instep THEN [sent EXCEPT ![c] = Append(@, f)] ELSE sent
         /\ Accept(c, f, IF instep THEN Len(sent[c]) + 1 ELSE 0)
  BY DEF ReadHeader
<1>n. Len(sent[c]) \in Nat /\ sent[c] \in Seq(Frames)
  BY LenProperties DEF Types
<1>2. PICK tag \in Nat : /\ Accept(c, f, tag)
                         /\ \/ tag = 0 /\ sent'[c] = sent[c]
                            \/ tag = Len(sent[c]) + 1 /\ sent'[c] = Append(sent[c], f)
  <2>1. CASE instep
    BY <1>f, <1>n, <2>1 DEF Types
  <2>2. CASE ~instep
    BY <1>f, <2>2
  <2> QED
    BY <2>1, <2>2
<1>3. rd'[c].pc = "ctrl" => rd'[c].tag = tag
  <2>1. rd[c] \in Reads
    BY DEF Types
  <2> DEFINE r(mt) == [rd[c] EXCEPT !.frame = f, !.tag = tag, !.mt = mt]
  <2>2. \A mt : [r(mt) EXCEPT !.pc = "ctrl"].tag = tag /\ [r(mt) EXCEPT !.pc = "data"].pc = "data"
    BY <2>1 DEF Reads
  <2>3. [Reader EXCEPT !.pc = "grow", !.cap = rd[c].cap].pc = "grow" /\ [Reader EXCEPT !.pc = "done", !.err = "protocol"].pc = "done"
    BY DEF Reader
  <2>4. \/ rd'[c] = [Reader EXCEPT !.pc = "grow", !.cap = rd[c].cap]
        \/ rd'[c] = [Reader EXCEPT !.pc = "done", !.err = "protocol"]
        \/ \E mt : rd'[c] = [r(mt) EXCEPT !.pc = "ctrl"] \/ rd'[c] = [r(mt) EXCEPT !.pc = "data"]
    <3>1. \/ Set(c, [Reader EXCEPT !.pc = "grow", !.cap = rd[c].cap])
          \/ Set(c, [Reader EXCEPT !.pc = "done", !.err = "protocol"])
          \/ \E mt : Set(c, [r(mt) EXCEPT !.pc = "ctrl"]) \/ Set(c, [r(mt) EXCEPT !.pc = "data"])
      BY <1>2 DEF Accept, Fails
    <3> HIDE DEF r
    <3> QED
      BY <3>1, SetAt
  <2> HIDE DEF r
  <2> QED
    BY <2>2, <2>3, <2>4
<1>4. Len(sent[c]) \in Nat /\ Len(sent'[c]) \in Nat /\ Len(sent[c]) <= Len(sent'[c]) /\ (tag > 0 => tag = Len(sent'[c]) /\ tag = Len(sent[c]) + 1)
  BY <1>2, <1>n, AppendProperties, LenProperties
<1>5. PongsBefore(c, Len(sent[c]) + 1)
  BY DEF Channel, PongsInTurn
<1>6. \A i \in DOMAIN out[c] : out[c][i].tag \in Nat
  <2>1. out[c] \in Seq(Parts) /\ DOMAIN out[c] = 1 .. Len(out[c])
    BY LenProperties DEF Types
  <2>2. \A i \in DOMAIN out[c] : out[c][i] \in Parts
    BY <2>1, ElementOfSeq
  <2> QED
    BY <2>2 DEF Parts
<1>7. PongsInTurn(c)'
  <2>1. PongsBefore(c, Len(sent'[c]) + 1)
    BY <1>4, <1>5, <1>6 DEF PongsBefore
  <2>2. rd'[c].pc = "ctrl" /\ rd'[c].tag > 0 => rd'[c].tag <= Len(sent'[c]) /\ PongsBefore(c, rd'[c].tag)
    BY <1>3, <1>4, <1>5
  <2> QED
    BY <1>1, <2>1, <2>2 DEF PongsInTurn, PongsBefore
<1>8. Exclusive(c)' /\ BodyAfterHead(c)' /\ HeadBeforeBody(c)' /\ PongOrder(c)'
  BY <1>1 DEF Channel, Exclusive, BodyAfterHead, HeadBeforeBody, PongOrder
<1>9. Callers(c)' /\ HalfWritten(c)'
  BY <1>1 DEF Channel, Callers, HalfWritten, Part
<1> QED
  BY <1>7, <1>8, <1>9 DEF Channel

\* A turn of a reader.
LEMMA ReaderWriting ==
    ASSUME Reading, Writing, NEW c \in Conns, ReaderStep(c) \/ PeerStep(c)
    PROVE  Writing'
<1>1. Types /\ Fresh /\ \A d \in Conns : Channel(d)
  BY DEF Reading, Writing, Channel
<1>2. UNCHANGED <<run, sock, mu, out>> /\ run'.c = run.c /\ run'.pc = run.pc
  BY DEF ReaderStep, PeerStep, connVars
<1>3. ASSUME NEW d \in Conns PROVE wr[d]["run"].st # "idle" => run.pc \in {"write", "close"}
  BY <1>1 DEF Channel, Callers
<1>4. ASSUME NEW d \in Conns, d # c PROVE Channel(d)'
  <2>1. rd'[d] = rd[d] /\ sent'[d] = sent[d] /\ wr'[d] = wr[d] /\ mu'[d] = mu[d] /\ out'[d] = out[d] /\ sock'[d] = sock[d]
    BY <1>1, <1>2, <1>4, ReaderElsewhere
  <2> QED
    BY <1>1, <1>2, <1>3, <2>1, ChannelSame
<1>5. ASSUME wr' = wr, sent' = sent, rd'[c] = rd[c] \/ (rd[c].pc # "pong" /\ rd'[c].pc # "ctrl") PROVE Channel(c)'
  <2>1. sent'[c] = sent[c] /\ wr'[c] = wr[c] /\ mu'[c] = mu[c] /\ out'[c] = out[c] /\ sock'[c] = sock[c]
    BY <1>2, <1>5
  <2> QED
    BY <1>1, <1>2, <1>3, <1>5, <2>1, ChannelSame
<1> SUFFICES Channel(c)'
  BY <1>4 DEF Writing, Channel
<1>6. CASE GetBuffer(c)
  <2> DEFINE fresh == [Reader EXCEPT !.pc = "head", !.cap = Get(frameSize)]
             q == [fresh EXCEPT !.pc = "data", !.got = pending[c].data, !.mt = pending[c].mt,
                                !.frame = pending[c].frame, !.tag = pending[c].tag]
  <2>1. fresh.pc = "head" /\ [fresh EXCEPT !.pc = "grow"].pc = "grow" /\ q.pc = "data"
    BY DEF Reader
  <2>2. rd' = rd \/ Set(c, fresh) \/ Set(c, [fresh EXCEPT !.pc = "grow"]) \/ Set(c, q)
    BY <1>6 DEF GetBuffer
  <2> HIDE DEF fresh, q
  <2>3. rd'[c] = rd[c] \/ rd'[c].pc \in {"head", "grow", "data"}
    BY <1>1, <2>1, <2>2, SetAt
  <2>4. rd[c].pc = "get" /\ wr' = wr /\ sent' = sent
    BY <1>6 DEF GetBuffer, streamVars
  <2> QED
    BY <1>5, <2>3, <2>4
<1>7. CASE ReadFails(c) \/ Grow(c) \/ StoreSize(c) \/ Deliver(c) \/ ReadPayload(c)
  <2>1. rd[c].pc # "pong" /\ wr' = wr /\ sent' = sent /\ rd[c] \in Reads
    BY <1>1, <1>7 DEF ReadFails, Grow, StoreSize, Deliver, ReadPayload, streamVars, Types
  <2>2. \E q : Set(c, q) /\ q.pc # "ctrl"
    <3>1. \A e, n : /\ [Reader EXCEPT !.pc = "done", !.err = e].pc = "done"
                    /\ [Reader EXCEPT !.pc = "store", !.next = n].pc = "store"
                    /\ Again.pc = "get"
      BY DEF Reader, Again
    <3>2. \A g : [rd[c] EXCEPT !.pc = "head", !.got = g].pc = "head" /\ [rd[c] EXCEPT !.pc = "route", !.got = g].pc = "route"
      BY <2>1 DEF Reads
    <3>3. CASE ReadFails(c)
      BY <3>1, <3>3 DEF ReadFails, Fails
    <3>4. CASE Grow(c)
      BY <3>1, <3>4 DEF Grow, Fails
    <3>5. CASE StoreSize(c) \/ Deliver(c)
      BY <3>1, <3>5 DEF StoreSize, Deliver
    <3>6. CASE ReadPayload(c)
      <4>1. PICK g : \/ Set(c, [rd[c] EXCEPT !.pc = "head", !.got = g]) \/ Set(c, Again)
                     \/ Set(c, [rd[c] EXCEPT !.pc = "route", !.got = g])
        <5>1. rd[c].frame.fin \in BOOLEAN
          BY <3>6, FrameFields DEF Reading, Fits, ReadPayload
        <5> QED
          BY <3>6, <5>1 DEF ReadPayload
      <4> QED
        BY <3>1, <3>2, <4>1
    <3> QED
      BY <1>7, <3>3, <3>4, <3>5, <3>6
  <2>3. rd'[c].pc # "ctrl"
    BY <1>1, <2>2, SetAt
  <2> QED
    BY <1>5, <2>1, <2>3
<1>8. CASE Ponged(c)
  <2>1. rd'[c].pc = "head" /\ sent' = sent
    BY <1>1, <1>8 DEF Ponged, Set, Types, Reads, streamVars
  <2> QED
    BY <1>1, <1>2, <1>8, <2>1, PongedChannel
<1>9. CASE ReadHeader(c)
  BY <1>1, <1>2, <1>9, HeaderReadChannel
<1>10. CASE ReadControl(c)
  <2>1. rd[c].pc = "ctrl" /\ sent' = sent /\ rd[c] \in Reads
    BY <1>1, <1>10 DEF ReadControl, Types
  <2>2. CASE wr' = wr /\ (Fails(c, "eof") \/ Set(c, [rd[c] EXCEPT !.pc = "head"]))
    <3>1. [Reader EXCEPT !.pc = "done", !.err = "eof"].pc = "done" /\ [rd[c] EXCEPT !.pc = "head"].pc = "head"
      BY <2>1 DEF Reader, Reads
    <3>2. rd'[c].pc # "ctrl"
      BY <1>1, <2>2, <3>1, SetAt DEF Fails
    <3> QED
      BY <1>5, <2>1, <2>2, <3>2
  <2>3. CASE Call(c, "reader", "pong", rd[c].frame.len, rd[c].tag) /\ Set(c, [rd[c] EXCEPT !.pc = "pong"])
    <3> DEFINE x == [st |-> "lock", op |-> "pong", len |-> rd[c].frame.len, tag |-> rd[c].tag]
    <3>1. rd'[c].pc = "pong"
      BY <1>1, <2>1, <2>3 DEF Set, Types, Reads
    <3>2. rd[c].frame \in Frames /\ rd[c].frame.len \in Nat /\ rd[c].tag \in Nat
      BY <1>1, <2>1, ReadFields, FrameFields DEF Reading, Fits
    <3>3. x \in WriteCalls /\ x.st = "lock" /\ x.tag = rd[c].tag
      BY <3>2 DEF WriteCalls
    <3>4. SetTo(c, "reader", x)
      BY <2>3, Zenon DEF Call, SetTo
    <3> HIDE DEF x
    <3> QED
      BY <1>1, <1>2, <2>1, <3>1, <3>3, <3>4, PingChannel
  <2> QED
    BY <1>10, <2>2, <2>3 DEF ReadControl
<1> QED
  BY <1>6, <1>7, <1>8, <1>9, <1>10 DEF ReaderStep, PeerStep

\* A call of session.run on its connection starts, or ends.
LEMMA RunChannel ==
    ASSUME Types, NEW c \in Conns, Channel(c), c = run.c, run'.c = run.c, NEW x \in WriteCalls, SetTo(c, "run", x),
           x.st = "idle" \/ (x.st = "lock" /\ run'.pc \in {"write", "close"}), x.op # "pong",
           wr[c]["run"].st \notin {"head", "body"},
           rd'[c] = rd[c], mu'[c] = mu[c], out'[c] = out[c], sent'[c] = sent[c], sock'[c] = "open" => sock[c] = "open"
    PROVE  Channel(c)'
<1>1. "reader" \in Writers /\ "run" \in Writers /\ "reader" # "run"
  BY DEF Writers
<1>2. wr'[c]["run"] = x /\ \A q \in Writers : q # "run" => wr'[c][q] = wr[c][q]
  BY <1>1, CallSet
<1>3. wr'[c]["reader"] = wr[c]["reader"]
  BY <1>1, <1>2
<1>4. Exclusive(c)'
  BY <1>1, <1>2 DEF Channel, Exclusive
<1>5. Callers(c)'
  BY <1>2, <1>3 DEF Channel, Callers
<1>6. HalfWritten(c)'
  BY <1>1, <1>2 DEF Channel, HalfWritten, Part
<1>7. PongsInTurn(c)'
  BY <1>3 DEF Channel, PongsInTurn, PongsBefore
<1>8. BodyAfterHead(c)' /\ HeadBeforeBody(c)' /\ PongOrder(c)'
  BY DEF Channel, BodyAfterHead, HeadBeforeBody, PongOrder
<1> QED
  BY <1>4, <1>5, <1>6, <1>7, <1>8 DEF Channel

\* session.run's steps.
LEMMA RunWriting == ASSUME Reading, Writing, RunStep \/ StopStep PROVE Writing'
<1>1. Types /\ Fresh /\ \A d \in Conns : Channel(d)
  BY DEF Reading, Writing, Channel
<1>2. UNCHANGED <<mu, out, sent>>
  BY DEF RunStep, StopStep, streamVars
<1>3. run.c \in 0 .. MaxConns /\ MaxConns \in Nat /\ run \in Runs
  BY <1>1, Numbers DEF Types, Runs
<1>4. \A d \in Conns : wr[d]["run"].st # "idle" => d = run.c /\ run.pc \in {"write", "close"}
  BY <1>1 DEF Channel, Callers
<1>5. ASSUME wr' = wr, \A d \in Conns : wr[d]["run"].st = "idle",
             run'.c = run.c \/ run'.c = run.c + 1,
             \A d \in Conns : sock'[d] = "open" => sock[d] = "open" \/ out[d] = <<>>,
             \A d \in Conns : rd'[d] = rd[d] \/ (rd[d].pc = "off" /\ rd'[d].pc = "get")
      PROVE  Writing'
  <2>1. ASSUME NEW d \in Conns PROVE Channel(d)'
    <3>1. wr'[d] = wr[d] /\ mu'[d] = mu[d] /\ out'[d] = out[d] /\ sent'[d] = sent[d]
      BY <1>2, <1>5
    <3>2. d > run'.c => d > run.c
      BY <1>3, <1>5 DEF Conns
    <3> QED
      BY <1>1, <1>5, <3>1, <3>2, ChannelSame
  <2> QED
    BY <2>1 DEF Writing, Channel
<1>6. ASSUME run.c \in Conns, run'.c = run.c, NEW x \in WriteCalls, SetTo(run.c, "run", x),
             x.st = "idle" \/ (x.st = "lock" /\ run'.pc \in {"write", "close"}), x.op # "pong",
             wr[run.c]["run"].st \notin {"head", "body"},
             rd' = rd, \A d \in Conns : sock'[d] = "open" => sock[d] = "open"
      PROVE  Writing'
  <2>1. ASSUME NEW d \in Conns, d = run.c PROVE Channel(d)'
    <3>1. rd'[d] = rd[d] /\ mu'[d] = mu[d] /\ out'[d] = out[d] /\ sent'[d] = sent[d]
      BY <1>2, <1>6
    <3> QED
      BY <1>1, <1>6, <2>1, <3>1, RunChannel
  <2>2. ASSUME NEW d \in Conns, d # run.c PROVE Channel(d)'
    <3>1. wr'[d] = wr[d]
      BY <1>1, <1>6, <2>2, CallSet DEF Writers
    <3>2. /\ mu'[d] = mu[d] /\ out'[d] = out[d] /\ sent'[d] = sent[d] /\ rd'[d] = rd[d] /\ wr[d]["run"].st = "idle"
          /\ (sock'[d] = "open" => sock[d] = "open")
      BY <1>2, <1>4, <1>6, <2>2
    <3> QED
      BY <1>1, <1>6, <3>1, <3>2, ChannelSame
  <2> QED
    BY <2>1, <2>2 DEF Writing, Channel
<1>x. /\ NoWrite \in WriteCalls /\ NoWrite.st = "idle" /\ NoWrite.op # "pong"
      /\ \A op \in {"close", "data"}, n \in {0, 1} :
            LET x == [st |-> "lock", op |-> op, len |-> n, tag |-> 0]
            IN  x \in WriteCalls /\ x.st = "lock" /\ x.op # "pong"
  BY DEF NoWrite, WriteCalls
<1>7. \A pc : [run EXCEPT !.pc = pc].pc = pc /\ [run EXCEPT !.pc = pc].c = run.c
  BY <1>3 DEF Runs
<1>8. CASE DialTCP
  <2>1. run'.c = run.c + 1 /\ wr' = wr /\ rd' = rd /\ run.pc = "dial" /\ run.c < MaxConns
    BY <1>3, <1>8 DEF DialTCP, Runs
  <2>2. run.c + 1 \in Conns /\ run.c + 1 > run.c
    BY <1>3, <2>1 DEF Conns
  <2>3. out[run.c + 1] = <<>>
    BY <1>1, <2>2 DEF Channel, Callers
  <2>4. \A d \in Conns : sock'[d] = "open" => sock[d] = "open" \/ out[d] = <<>>
    BY <1>1, <1>8, <2>3 DEF DialTCP, Types
  <2> QED
    BY <1>4, <1>5, <2>1, <2>4
<1>9. CASE Handshake \/ HandshakeFails
  <2>1. run'.c = run.c /\ wr' = wr /\ rd' = rd /\ run.pc \in {"tls", "upgrade"}
    BY <1>7, <1>9 DEF Handshake, HandshakeFails, At
  <2>2. \A d \in Conns : sock'[d] = "open" => sock[d] = "open"
    BY <1>1, <1>9 DEF Handshake, HandshakeFails, Hang, Types
  <2> QED
    BY <1>4, <1>5, <2>1, <2>2
<1>10. CASE Closed(run.c)
  <2>1. /\ run'.c = run.c /\ rd' = rd /\ run.pc = "close" /\ wr[run.c]["run"].st \in {"ok", "failed"}
        /\ SetTo(run.c, "run", NoWrite)
    BY <1>7, <1>10 DEF Closed, At, SetTo
  <2>2. \A d \in Conns : sock'[d] = "open" => sock[d] = "open"
    BY <1>1, <1>10 DEF Closed, Hang, Types
  <2>3. run.c \in Conns
    BY <1>1, <2>1 DEF Fresh
  <2> QED
    BY <1>6, <1>x, <2>1, <2>2, <2>3
<1>11. ASSUME run.pc \in {"up", "run"} \/ (run.pc = "write" /\ wr[run.c]["run"].st = "failed"),
              Call(run.c, "run", "close", 1, 0), run'.c = run.c, run'.pc = "close", rd' = rd, sock' = sock
       PROVE  Writing'
  <2> DEFINE x == [st |-> "lock", op |-> "close", len |-> 1, tag |-> 0]
  <2>1. SetTo(run.c, "run", x)
    BY <1>11 DEF Call, SetTo
  <2>2. x \in WriteCalls /\ x.st = "lock" /\ x.op # "pong"
    BY <1>x
  <2>3. run.c \in Conns
    BY <1>1, <1>11 DEF Fresh
  <2>4. wr[run.c]["run"].st \notin {"head", "body"}
    BY <1>4, <1>11, <2>3
  <2> HIDE DEF x
  <2> QED
    BY <1>6, <1>11, <2>1, <2>2, <2>3, <2>4
<1>12. CASE Serve(run.c)
  <2>1. CASE At("run") /\ rd' = [rd EXCEPT ![run.c] = Again] /\ wr' = wr /\ sock' = sock
    <3>1. run.pc = "up" /\ run.c \in Conns /\ rd[run.c].pc = "off"
      BY <1>1, <1>12 DEF Serve, Fresh
    <3>2. \A d \in Conns : rd'[d] = rd[d] \/ (rd[d].pc = "off" /\ rd'[d].pc = "get")
      BY <1>1, <2>1, <3>1, Leaving DEF Types
    <3>3. run'.c = run.c
      BY <1>7, <2>1 DEF At
    <3> QED
      BY <1>4, <1>5, <2>1, <3>1, <3>2, <3>3
  <2>2. CASE Close(run.c) /\ UNCHANGED rd /\ sock' = sock
    BY <1>7, <1>11, <1>12, <2>2 DEF Serve, Close, At
  <2> QED
    BY <1>12, <2>1, <2>2 DEF Serve
<1>13. CASE Write(run.c)
  <2>1. run.pc = "run" /\ run'.c = run.c /\ run'.pc = "write" /\ rd' = rd /\ sock' = sock
    BY <1>7, <1>13 DEF Write, At
  <2>2. PICK n \in {0, 1} : Call(run.c, "run", "data", n, 0)
    BY <1>13 DEF Write
  <2> DEFINE x == [st |-> "lock", op |-> "data", len |-> n, tag |-> 0]
  <2>3. SetTo(run.c, "run", x)
    BY <2>2 DEF Call, SetTo
  <2>4. x \in WriteCalls /\ x.st = "lock" /\ x.op # "pong"
    BY <1>x
  <2>5. run.c \in Conns
    BY <1>1, <2>1 DEF Fresh
  <2>6. wr[run.c]["run"].st \notin {"head", "body"}
    BY <1>4, <2>1, <2>5
  <2> HIDE DEF x
  <2> QED
    BY <1>6, <2>1, <2>3, <2>4, <2>5, <2>6
<1>14. CASE Written(run.c)
  <2>1. CASE wr[run.c]["run"].st = "failed" /\ Close(run.c)
    BY <1>7, <1>11, <1>14, <2>1 DEF Written, Close, At
  <2>2. CASE wr[run.c]["run"].st = "ok" /\ At("run") /\ wr' = [wr EXCEPT ![run.c]["run"] = NoWrite]
    <3>1. run.pc = "write" /\ run'.c = run.c /\ rd' = rd /\ sock' = sock /\ SetTo(run.c, "run", NoWrite)
      BY <1>7, <1>14, <2>2 DEF Written, At, SetTo
    <3>2. run.c \in Conns
      BY <1>1, <3>1 DEF Fresh
    <3> QED
      BY <1>6, <1>x, <2>2, <3>1, <3>2
  <2> QED
    BY <1>14, <2>1, <2>2 DEF Written
<1>15. CASE ReadError(run.c)
  BY <1>7, <1>11, <1>15 DEF ReadError, Close, At
<1>16. CASE Stopped(run.c)
  <2>1. [run EXCEPT !.pc = "close", !.stop = TRUE].pc = "close" /\ [run EXCEPT !.pc = "close", !.stop = TRUE].c = run.c
    BY <1>3 DEF Runs
  <2> QED
    BY <1>11, <1>16, <2>1 DEF Stopped
<1> QED
  BY <1>8, <1>9, <1>10, <1>12, <1>13, <1>14, <1>15, <1>16 DEF RunStep, StopStep

\* The writers' invariant is inductive, given the readers'.
LEMMA WritingNext == ASSUME Reading, Writing, [Next]_vars PROVE Writing'
<1>1. CASE UNCHANGED vars
  BY <1>1 DEF vars, connVars, writeVars, streamVars, Writing, Exclusive, Callers, HalfWritten, PongsInTurn, PongsBefore,
              BodyAfterHead, HeadBeforeBody, PongOrder, Part
<1>2. CASE Next
  BY <1>2, RunWriting, WriteWriting, BreakWriting, ReaderWriting DEF Next, Progress
<1> QED
  BY <1>1, <1>2

\* Nothing has been written at first.
LEMMA WritingInit == Init => Writing
<1> SUFFICES ASSUME Init, NEW c \in Conns PROVE Channel(c)
  BY DEF Writing, Channel
<1>1. out[c] = <<>> /\ DOMAIN out[c] = {} /\ mu[c] = Nobody
  BY DEF Init
<1>2. \A p \in Writers : wr[c][p].st = "idle" /\ wr[c][p].op = "none" /\ p # Nobody
  BY DEF Init, NoWrite, Writers, Nobody
<1>3. rd[c].pc = "off"
  BY DEF Init, Reader
<1>4. Exclusive(c)
  BY <1>1, <1>2 DEF Exclusive
<1>5. Callers(c)
  BY <1>1, <1>2 DEF Callers, Writers
<1>6. HalfWritten(c)
  BY <1>1, <1>2 DEF HalfWritten
<1>7. PongsInTurn(c)
  BY <1>1, <1>2, <1>3 DEF PongsInTurn, PongsBefore, Writers
<1>8. BodyAfterHead(c) /\ HeadBeforeBody(c) /\ PongOrder(c)
  BY <1>1 DEF BodyAfterHead, HeadBeforeBody, PongOrder
<1> QED
  BY <1>4, <1>5, <1>6, <1>7, <1>8 DEF Channel

-----------------------------------------------------------------------------
(* The theorem about writing.                                              *)

\* What writeFrame puts on a connection is whole frames, each header with its payload right
\* behind it, and the pongs answer the pings in order (dialer.go: wsConn.mu around both
\* writes), although the reader and session.run write at the same time.
THEOREM FramesWhole == Spec => []OutboundWhole
<1>1. Init => IInv
  BY ReadingInit, WritingInit DEF IInv
<1>2. IInv /\ [Next]_vars => IInv'
  BY ReadingNext, WritingNext DEF IInv
<1>3. IInv => OutboundWhole
  BY DEF IInv, Writing, BodyAfterHead, HeadBeforeBody, PongOrder, OpenHead, OutboundWhole
<1> QED
  BY <1>1, <1>2, <1>3, PTL DEF Spec

=============================================================================
