--------------------------- MODULE WsMessagesProofs ---------------------------
(***************************************************************************)
(* The proof that wsConn.Read and readLoop hand on the messages the peer   *)
(* sent, for any buffers, frames and number of headers (MessagesIntact).   *)
(***************************************************************************)
EXTENDS WsConnProofs

-----------------------------------------------------------------------------
(* The inductive invariant.                                                *)

Messages == [mt : {"text", "binary"}, data : Seq(Nat)]

\* The messages done and one that has begun, with its bytes and its type.
State(data, mt, done) == [data |-> data, mt |-> mt, done |-> done]

\* What the frames of c amount to, by the place its reader is at: the message so far, that
\* message and the frame at hand, the one about to be routed, or the one pending.
Intact(c) ==
    LET all == Reassemble(sent[c])
        r == rd[c]
        p == pending[c]
        done == delivered[c]
    IN  /\ r.pc = "off" => sent[c] = <<>> /\ done = <<>>
        /\ r.pc = "head" /\ owed[c] = 0 => all = State(r.got, r.mt, done)
        /\ r.pc \in {"ctrl", "pong"} => all = State(r.got, r.mt, done)
        /\ r.pc = "data" => /\ all = Extend(State(r.got, r.mt, done), r.frame, r.tag)
                            /\ r.frame.op \in {"cont", r.mt}
        /\ r.pc = "route" => all = State(<<>>, "none", Append(done, Message(r.mt, r.got)))
        /\ r.pc \in {"get", "grow", "store"} /\ p # None => /\ all = Extend(State(p.data, p.mt, done), p.frame, p.tag)
                                                            /\ p.frame.op \in {"cont", p.mt}
        /\ r.pc \in {"get", "grow", "store"} /\ p = None /\ owed[c] = 0 => all = State(<<>>, "none", done)

\* A message that is routed has a type, and what is delivered is what was sent unless the
\* reader is out of step.
AssemblyAt(c) == /\ rd[c].pc = "route" => rd[c].mt # "none"
                 /\ c \notin lost => Intact(c)

Assembly == /\ delivered \in [Conns -> Seq(Messages)]
            /\ \A c \in Conns : AssemblyAt(c)

-----------------------------------------------------------------------------
(* What Reassemble computes.  A claim about all numbers is proved by the   *)
(* least number it could fail for (LeastOf).                               *)

\* g lists what the first 0, 1, ... n frames amount to.
Chain(g, frames, n) == /\ g[0] = NoMessage
                       /\ \A i \in 1 .. n : g[i] = Extend(g[i - 1], frames[i], i)

Equation(g, frames, n) == g = [i \in 0 .. n |-> IF i = 0 THEN NoMessage ELSE Extend(g[i - 1], frames[i], i)]

\* AfterEach's equation has a solution.
LEMMA EquationSolved == ASSUME NEW frames, NEW n \in Nat PROVE \E g : Equation(g, frames, n)
<1> DEFINE Bad == {k \in Nat : ~ \E g : Equation(g, frames, k)}
<1> SUFFICES ASSUME Bad # {} PROVE FALSE
  OBVIOUS
<1>1. PICK k \in Bad : \A j \in Bad : k <= j
  <2>1. Bad \in SUBSET Nat
    OBVIOUS
  <2> HIDE DEF Bad
  <2> QED
    BY <2>1, LeastOf
<1>2. k \in Nat /\ ~ \E g : Equation(g, frames, k)
  OBVIOUS
<1>3. k # 0
  <2>1. Equation([i \in 0 .. 0 |-> NoMessage], frames, 0)
    BY DEF Equation
  <2> QED
    BY <1>2, <2>1
<1>4. PICK g : Equation(g, frames, k - 1)
  <2>1. k - 1 \in Nat /\ ~(k <= k - 1)
    BY <1>2, <1>3
  <2> QED
    BY <1>1, <2>1
<1> DEFINE h == [i \in 0 .. k |-> IF i = k THEN Extend(g[k - 1], frames[k], k) ELSE g[i]]
<1>5. ASSUME NEW i \in 0 .. k PROVE h[i] = IF i = 0 THEN NoMessage ELSE Extend(h[i - 1], frames[i], i)
  <2>1. CASE i = k
    <3>1. h[i - 1] = g[k - 1] /\ h[i] = Extend(g[k - 1], frames[k], k)
      BY <1>2, <1>3, <2>1
    <3> QED
      BY <1>3, <2>1, <3>1
  <2>2. CASE i # k
    <3>1. i \in 0 .. k - 1 /\ h[i] = g[i]
      BY <1>2, <2>2
    <3>2. g[i] = IF i = 0 THEN NoMessage ELSE Extend(g[i - 1], frames[i], i)
      BY <1>4, <3>1 DEF Equation
    <3>3. i # 0 => h[i - 1] = g[i - 1]
      BY <1>2, <2>2
    <3> HIDE DEF h
    <3> QED
      BY <3>1, <3>2, <3>3
  <2> QED
    BY <2>1, <2>2
<1>6. h = [i \in 0 .. k |-> IF i = 0 THEN NoMessage ELSE Extend(h[i - 1], frames[i], i)]
  <2>1. DOMAIN h = 0 .. k /\ h = [i \in 0 .. k |-> h[i]]
    OBVIOUS
  <2> HIDE DEF h
  <2> QED
    BY <1>5, <2>1
<1> HIDE DEF h
<1> QED
  BY <1>2, <1>6 DEF Equation

\* So AfterEach is what it is defined to be.
LEMMA AfterEachChain == ASSUME NEW frames \in Seq(Frames) PROVE Chain(AfterEach(frames), frames, Len(frames))
<1>1. AfterEach(frames) = CHOOSE g : g = [i \in 0 .. Len(frames) |-> IF i = 0 THEN NoMessage
                                                                   ELSE Extend(g[i - 1], frames[i], i)]
  BY Zenon DEF AfterEach
<1>2. \E g : g = [i \in 0 .. Len(frames) |-> IF i = 0 THEN NoMessage ELSE Extend(g[i - 1], frames[i], i)]
  BY LenProperties, EquationSolved DEF Equation
<1> DEFINE a == AfterEach(frames)
<1>3. a = [i \in 0 .. Len(frames) |-> IF i = 0 THEN NoMessage ELSE Extend(a[i - 1], frames[i], i)]
  BY <1>1, <1>2
<1> HIDE DEF a
<1>4. Len(frames) \in Nat
  BY LenProperties
<1>5. Chain(a, frames, Len(frames))
  BY <1>3, <1>4 DEF Chain
<1> QED
  BY <1>5 DEF a

\* Two chains along the same frames agree.
LEMMA ChainsAgree ==
    ASSUME NEW n \in Nat, NEW frames, NEW others, \A i \in 1 .. n : frames[i] = others[i],
           NEW g, NEW h, Chain(g, frames, n), Chain(h, others, n)
    PROVE  g[n] = h[n]
<1> DEFINE Bad == {k \in 0 .. n : g[k] # h[k]}
<1> SUFFICES ASSUME Bad # {} PROVE FALSE
  OBVIOUS
<1>1. PICK k \in Bad : \A j \in Bad : k <= j
  <2>1. Bad \in SUBSET Nat
    OBVIOUS
  <2> HIDE DEF Bad
  <2> QED
    BY <2>1, LeastOf
<1>2. k \in 0 .. n /\ g[k] # h[k]
  OBVIOUS
<1>3. k # 0
  BY <1>2 DEF Chain
<1>4. k - 1 \in 0 .. n /\ ~(k <= k - 1) /\ k \in 1 .. n
  BY <1>2, <1>3
<1>5. g[k - 1] = h[k - 1]
  BY <1>1, <1>4
<1> HIDE DEF Bad
<1> QED
  BY <1>2, <1>4, <1>5 DEF Chain

\* No frame, no message; one frame more extends what there was.
LEMMA Reassembled ==
    /\ Reassemble(<<>>) = NoMessage
    /\ \A frames \in Seq(Frames), f \in Frames :
          Reassemble(Append(frames, f)) = Extend(Reassemble(frames), f, Len(frames) + 1)
<1>1. Reassemble(<<>>) = NoMessage
  <2>1. <<>> \in Seq(Frames) /\ Len(<<>>) = 0
    BY EmptySeq
  <2>2. Chain(AfterEach(<<>>), <<>>, 0)
    BY <2>1, AfterEachChain
  <2> QED
    BY <2>1, <2>2 DEF Chain, Reassemble
<1>2. ASSUME NEW frames \in Seq(Frames), NEW f \in Frames
      PROVE  Reassemble(Append(frames, f)) = Extend(Reassemble(frames), f, Len(frames) + 1)
  <2> DEFINE more == Append(frames, f)
  <2>1. PICK n \in Nat : n = Len(frames)
    BY LenProperties
  <2>2. /\ more \in Seq(Frames) /\ Len(more) = n + 1 /\ more[n + 1] = f
        /\ \A i \in 1 .. n : more[i] = frames[i]
    BY <2>1, AppendProperties
  <2> HIDE DEF more
  <2>3. Chain(AfterEach(more), more, n + 1) /\ Chain(AfterEach(frames), frames, n)
    BY <2>1, <2>2, AfterEachChain
  <2>4. Chain(AfterEach(more), more, n) /\ AfterEach(more)[n + 1] = Extend(AfterEach(more)[n], f, n + 1)
    BY <2>2, <2>3 DEF Chain
  <2>5. AfterEach(more)[n] = AfterEach(frames)[n]
    BY <2>2, <2>3, <2>4, ChainsAgree
  <2>6. Reassemble(more) = Extend(Reassemble(frames), f, n + 1)
    BY <2>1, <2>2, <2>4, <2>5 DEF Reassemble
  <2> QED
    BY <2>1, <2>6 DEF more
<1> QED
  BY <1>1, <1>2

\* What frame f adds to a message of type m whose bytes are d.
LEMMA ExtendsTo ==
    ASSUME NEW d, NEW m, NEW e, NEW f, NEW i
    PROVE  LET got == d \o Bytes(f, i)
               mt == IF f.op = "cont" THEN m ELSE f.op
           IN  Extend(State(d, m, e), f, i) = IF f.op \in Control THEN State(d, m, e)
                                              ELSE IF ~f.fin THEN State(got, mt, e)
                                              ELSE State(<<>>, "none", IF got = <<>> THEN e
                                                                       ELSE Append(e, Message(mt, got)))
<1> DEFINE s == [data |-> d, mt |-> m, done |-> e]
           got == d \o Bytes(f, i)
           mt == IF f.op = "cont" THEN m ELSE f.op
           done == IF got = <<>> THEN e ELSE Append(e, Message(mt, got))
<1>1. State(d, m, e) = s /\ s.data = d /\ s.mt = m /\ s.done = e
  BY DEF State
<1>2. Extend(s, f, i) = IF f.op \in Control THEN s
                        ELSE IF ~f.fin THEN [data |-> got, mt |-> mt, done |-> e]
                        ELSE [data |-> <<>>, mt |-> "none", done |-> done]
  BY DEF Extend
<1>3. [data |-> got, mt |-> mt, done |-> e] = State(got, mt, e)
  BY DEF State
<1>4. [data |-> <<>>, mt |-> "none", done |-> done] = State(<<>>, "none", done)
  BY DEF State
<1> HIDE DEF s, got, mt, done
<1>5. Extend(State(d, m, e), f, i) = IF f.op \in Control THEN State(d, m, e)
                                     ELSE IF ~f.fin THEN State(got, mt, e)
                                     ELSE State(<<>>, "none", done)
  BY <1>1, <1>2, <1>3, <1>4
<1> QED
  BY <1>5 DEF got, mt, done

\* A control frame adds nothing.
LEMMA ExtendsControl ==
    ASSUME NEW d, NEW m, NEW e, NEW f, NEW i, f.op \in Control
    PROVE  Extend(State(d, m, e), f, i) = State(d, m, e)
BY ExtendsTo

\* A frame that starts a message gives it its type.
LEMMA ExtendsType ==
    ASSUME NEW d, NEW m, NEW e, NEW f, NEW i, f.op \notin Control
    PROVE  Extend(State(d, m, e), f, i) = Extend(State(d, IF f.op = "cont" THEN m ELSE f.op, e), f, i)
<1> DEFINE mt == IF f.op = "cont" THEN m ELSE f.op
           got == d \o Bytes(f, i)
           after(x) == IF ~f.fin THEN State(got, x, e)
                       ELSE State(<<>>, "none", IF got = <<>> THEN e ELSE Append(e, Message(x, got)))
<1>1. Extend(State(d, m, e), f, i) = after(mt)
  BY ExtendsTo
<1>2. (IF f.op = "cont" THEN mt ELSE f.op) = mt
  OBVIOUS
<1>3. Extend(State(d, mt, e), f, i) = after(IF f.op = "cont" THEN mt ELSE f.op)
  <2> HIDE DEF mt
  <2> QED
    BY ExtendsTo
<1> HIDE DEF mt
<1>4. Extend(State(d, m, e), f, i) = Extend(State(d, mt, e), f, i)
  BY <1>1, <1>2, <1>3
<1> QED
  BY <1>4 DEF mt

\* A data frame adds its bytes, and the final one completes the message.
LEMMA ExtendsData ==
    ASSUME NEW d, NEW m, NEW e, NEW f, NEW i, f.op \notin Control, f.op \in {"cont", m}
    PROVE  Extend(State(d, m, e), f, i)
              = IF ~f.fin THEN State(d \o Bytes(f, i), m, e)
                ELSE State(<<>>, "none", IF d \o Bytes(f, i) = <<>> THEN e ELSE Append(e, Message(m, d \o Bytes(f, i))))
<1>1. (IF f.op = "cont" THEN m ELSE f.op) = m
  OBVIOUS
<1> QED
  BY <1>1, ExtendsTo

-----------------------------------------------------------------------------
(* One turn of a reader.                                                   *)

\* Nothing of the connection changes.
LEMMA QuietAt ==
    ASSUME NEW c \in Conns, AssemblyAt(c), rd'[c] = rd[c], pending'[c] = pending[c], owed'[c] = owed[c],
           sent'[c] = sent[c], delivered'[c] = delivered[c], c \in lost' <=> c \in lost
    PROVE  AssemblyAt(c)'
BY DEF AssemblyAt, Intact

\* Between two Reads, and at the end.
LEMMA TurnAt ==
    ASSUME NEW c \in Conns, AssemblyAt(c),
           rd'[c].pc = "done" \/ (rd[c].pc \in {"get", "grow", "store"} /\ rd'[c].pc \in {"get", "grow", "store"}),
           UNCHANGED <<pending, owed, sent, lost, delivered>>
    PROVE  AssemblyAt(c)'
BY DEF AssemblyAt, Intact

\* The start of Read: nothing is pending, or it stays so, or it is taken up.
LEMMA GetBufferAt == ASSUME Reading, NEW c \in Conns, AssemblyAt(c), GetBuffer(c) PROVE AssemblyAt(c)'
<1> DEFINE old == pending[c]
           fresh == [Reader EXCEPT !.pc = "head", !.cap = Get(frameSize)]
<1>1. Types /\ rd[c].pc = "get" /\ UNCHANGED <<owed, sent, lost, delivered>>
  BY DEF Reading, GetBuffer, streamVars
<1>2. CASE UNCHANGED <<rd, pending>>
  BY <1>1, <1>2, QuietAt
<1>3. CASE old = None /\ Set(c, fresh) /\ UNCHANGED pending
  <2>1. fresh.pc = "head" /\ fresh.got = <<>> /\ fresh.mt = "none"
    BY DEF Reader
  <2> HIDE DEF fresh
  <2>2. rd'[c] = fresh
    BY <1>1, <1>3, SetAt
  <2> QED
    BY <1>1, <1>3, <2>1, <2>2 DEF AssemblyAt, Intact
<1>4. CASE old # None /\ Set(c, [fresh EXCEPT !.pc = "grow"]) /\ UNCHANGED pending
  <2> DEFINE q == [fresh EXCEPT !.pc = "grow"]
  <2>1. q.pc = "grow"
    BY DEF Reader
  <2>2. rd'[c] = q
    BY <1>1, <1>4, SetAt
  <2> HIDE DEF q
  <2> QED
    BY <1>1, <1>4, <2>1, <2>2, TurnAt
<1>5. CASE /\ old # None
           /\ Set(c, [fresh EXCEPT !.pc = "data", !.got = old.data, !.mt = old.mt, !.frame = old.frame, !.tag = old.tag])
           /\ pending' = [pending EXCEPT ![c] = None]
  <2> DEFINE q == [fresh EXCEPT !.pc = "data", !.got = old.data, !.mt = old.mt, !.frame = old.frame, !.tag = old.tag]
  <2>1. q.pc = "data" /\ q.got = old.data /\ q.mt = old.mt /\ q.frame = old.frame /\ q.tag = old.tag
    BY DEF Reader
  <2>2. rd'[c] = q
    BY <1>1, <1>5, SetAt
  <2> HIDE DEF q
  <2> QED
    BY <1>1, <1>5, <2>1, <2>2 DEF AssemblyAt, Intact
<1> QED
  BY <1>2, <1>3, <1>4, <1>5 DEF GetBuffer

\* A header read in step adds a frame to those sent; one read out of step says nothing.
LEMMA ReadHeaderAt == ASSUME Reading, NEW c \in Conns, AssemblyAt(c), ReadHeader(c) PROVE AssemblyAt(c)'
<1> DEFINE instep == c \notin lost /\ owed[c] = 0
           n == Len(sent[c]) + 1
<1>1. Types /\ PendingAt(c) /\ rd[c].pc = "head" /\ pending[c] = None /\ UNCHANGED delivered
  BY DEF Reading, PendingAt, ReadHeader
<1>2. PICK f \in Frames :
         /\ sent' = IF instep THEN [sent EXCEPT ![c] = Append(@, f)] ELSE sent
         /\ owed' = [owed EXCEPT ![c] = f.len]
         /\ Accept(c, f, IF instep THEN n ELSE 0)
  BY DEF ReadHeader
<1>3. lost' = IF instep THEN lost ELSE lost \cup {c}
  BY DEF ReadHeader
<1>4. f.len \in Nat /\ f.op \in Opcodes /\ MaxPayload \in Nat /\ sent[c] \in Seq(Frames)
  BY <1>1, FrameFields, ReadFields, Numbers
<1>5. PICK tag : Accept(c, f, tag) /\ (instep => tag = n)
  BY <1>2
<1>6. owed'[c] = f.len /\ (instep => sent'[c] = Append(sent[c], f))
  BY <1>1, <1>2 DEF Types
<1> DEFINE got == rd[c].got
           mt == IF f.op = "cont" THEN rd[c].mt ELSE f.op
           done == delivered[c]
<1>7. instep => Reassemble(sent'[c]) = Extend(State(got, rd[c].mt, done), f, n)
  <2>1. SUFFICES ASSUME instep PROVE Reassemble(sent'[c]) = Extend(State(got, rd[c].mt, done), f, n)
    OBVIOUS
  <2>2. Reassemble(sent[c]) = State(got, rd[c].mt, done)
    BY <1>1, <2>1 DEF AssemblyAt, Intact
  <2>3. Reassemble(Append(sent[c], f)) = Extend(Reassemble(sent[c]), f, n)
    BY <1>4, Reassembled
  <2> QED
    BY <1>6, <2>1, <2>2, <2>3
<1>8. c \notin lost' => instep
  BY <1>3
<1> HIDE DEF instep, n
<1>9. CASE f.len > MaxPayload /\ Set(c, [Reader EXCEPT !.pc = "grow", !.cap = rd[c].cap]) /\ UNCHANGED pending
  <2> DEFINE q == [Reader EXCEPT !.pc = "grow", !.cap = rd[c].cap]
  <2>1. q.pc = "grow" /\ rd'[c] = q
    BY <1>1, <1>9, SetAt DEF Reader
  <2> HIDE DEF q
  <2>2. owed'[c] # 0 /\ pending'[c] = None
    BY <1>1, <1>4, <1>6, <1>9
  <2> QED
    BY <2>1, <2>2 DEF AssemblyAt, Intact
<1>10. CASE Fails(c, "protocol")
  <2> DEFINE q == [Reader EXCEPT !.pc = "done", !.err = "protocol"]
  <2>1. q.pc = "done" /\ rd'[c] = q
    BY <1>1, <1>10, SetAt DEF Reader, Fails
  <2> HIDE DEF q
  <2> QED
    BY <2>1 DEF AssemblyAt, Intact
<1> DEFINE r(m) == [rd[c] EXCEPT !.frame = f, !.tag = tag, !.mt = m]
<1>11. ASSUME NEW pc, NEW m
       PROVE  LET q == [r(m) EXCEPT !.pc = pc]
              IN  q.pc = pc /\ q.got = got /\ q.frame = f /\ q.mt = m /\ q.tag = tag
  <2>1. rd[c] \in Reads
    BY <1>1, ReadFields
  <2> QED
    BY <2>1 DEF Reads
<1>12. CASE f.op \in Control /\ Set(c, [r(rd[c].mt) EXCEPT !.pc = "ctrl"])
  <2> DEFINE q == [r(rd[c].mt) EXCEPT !.pc = "ctrl"]
  <2>1. q.pc = "ctrl" /\ q.got = got /\ q.mt = rd[c].mt
    BY <1>11
  <2>2. rd'[c] = q
    BY <1>1, <1>12, SetAt
  <2> HIDE DEF q
  <2>3. Extend(State(got, rd[c].mt, done), f, n) = State(got, rd[c].mt, done)
    BY <1>12, ExtendsControl
  <2> QED
    BY <1>1, <1>7, <1>8, <2>1, <2>2, <2>3 DEF AssemblyAt, Intact
<1>13. CASE /\ f.op \notin Control
            /\ \/ Set(c, [Reader EXCEPT !.pc = "grow", !.cap = rd[c].cap]) /\ StashPending(c, f, mt, tag)
               \/ Set(c, [r(mt) EXCEPT !.pc = "data"]) /\ UNCHANGED pending
  <2>1. instep => Reassemble(sent'[c]) = Extend(State(got, mt, done), f, tag)
    <3>1. Extend(State(got, rd[c].mt, done), f, n) = Extend(State(got, mt, done), f, n)
      BY <1>13, ExtendsType
    <3> QED
      BY <1>5, <1>7, <3>1
  <2>2. f.op \in {"cont", mt}
    OBVIOUS
  <2> HIDE DEF mt
  <2>3. CASE Set(c, [Reader EXCEPT !.pc = "grow", !.cap = rd[c].cap]) /\ StashPending(c, f, mt, tag)
    <3> DEFINE q == [Reader EXCEPT !.pc = "grow", !.cap = rd[c].cap]
               k == [data |-> got, mt |-> mt, frame |-> f, tag |-> tag]
    <3>1. q.pc = "grow" /\ rd'[c] = q
      BY <1>1, <2>3, SetAt DEF Reader
    <3>2. k.data = got /\ k.mt = mt /\ k.frame = f /\ k.tag = tag
      OBVIOUS
    <3>3. pending'[c] = k
      BY <1>1, <2>3 DEF StashPending, Types
    <3>4. k # None
      <4>1. None.frame = [len |-> 0] /\ DOMAIN [len |-> 0] = {"len"}
        BY DEF None
      <4>2. f \in [op : Opcodes, fin : BOOLEAN, len : Nat]
        BY WsConnAssumption
      <4>3. "op" \in DOMAIN f
        BY <4>2
      <4> QED
        BY <3>2, <4>1, <4>3
    <3> HIDE DEF q, k
    <3> QED
      BY <1>1, <1>8, <2>1, <2>2, <3>1, <3>2, <3>3, <3>4 DEF AssemblyAt, Intact
  <2>4. CASE Set(c, [r(mt) EXCEPT !.pc = "data"]) /\ UNCHANGED pending
    <3> DEFINE q == [r(mt) EXCEPT !.pc = "data"]
    <3>1. q.pc = "data" /\ q.got = got /\ q.mt = mt /\ q.frame = f /\ q.tag = tag
      BY <1>11
    <3>2. rd'[c] = q
      BY <1>1, <2>4, SetAt
    <3> HIDE DEF q
    <3> QED
      BY <1>1, <1>8, <2>1, <2>2, <3>1, <3>2 DEF AssemblyAt, Intact
  <2> QED
    BY <1>13, <2>3, <2>4
<1>14. \/ f.len > MaxPayload /\ Set(c, [Reader EXCEPT !.pc = "grow", !.cap = rd[c].cap]) /\ UNCHANGED pending
       \/ Fails(c, "protocol")
       \/ f.op \in Control /\ Set(c, [r(rd[c].mt) EXCEPT !.pc = "ctrl"])
       \/ /\ f.op \notin Control
          /\ \/ Set(c, [Reader EXCEPT !.pc = "grow", !.cap = rd[c].cap]) /\ StashPending(c, f, mt, tag)
             \/ Set(c, [r(mt) EXCEPT !.pc = "data"]) /\ UNCHANGED pending
  BY <1>5 DEF Accept
<1> QED
  BY <1>9, <1>10, <1>12, <1>13, <1>14

\* A payload completes the message, or is a fragment of it.
LEMMA ReadPayloadAt == ASSUME Reading, NEW c \in Conns, AssemblyAt(c), ReadPayload(c) PROVE AssemblyAt(c)'
<1> DEFINE r == rd[c]
           f == r.frame
           done == delivered[c]
           got == r.got \o Bytes(f, r.tag)
<1>1. /\ Types /\ Fits(c) /\ PendingAt(c) /\ r.pc = "data" /\ UNCHANGED <<pending, sent, lost, delivered>>
      /\ pending[c] = None
  BY DEF Reading, PendingAt, ReadPayload
<1>2. f \in Frames /\ f.fin \in BOOLEAN /\ r \in Reads /\ r.mt \in {"text", "binary"}
  <2>1. r.mt \in {"none", "text", "binary"} /\ r.mt # "none" /\ f \in Frames /\ r \in Reads
    BY <1>1, ReadFields DEF Fits
  <2> QED
    BY <2>1, FrameFields
<1>3. c \notin lost => Reassemble(sent[c]) = Extend(State(r.got, r.mt, done), f, r.tag) /\ f.op \in {"cont", r.mt}
  BY <1>1 DEF AssemblyAt, Intact
<1>4. f.op \in {"cont", r.mt} => f.op \notin Control
  BY <1>2 DEF Control
<1>5. c \notin lost => /\ ~f.fin => Reassemble(sent[c]) = State(got, r.mt, done)
                       /\ f.fin /\ got = <<>> => Reassemble(sent[c]) = State(<<>>, "none", done)
                       /\ f.fin /\ got # <<>> => Reassemble(sent[c]) = State(<<>>, "none", Append(done, Message(r.mt, got)))
  <2> SUFFICES ASSUME c \notin lost
               PROVE  /\ ~f.fin => Reassemble(sent[c]) = State(got, r.mt, done)
                      /\ f.fin /\ got = <<>> => Reassemble(sent[c]) = State(<<>>, "none", done)
                      /\ f.fin /\ got # <<>> => Reassemble(sent[c]) = State(<<>>, "none", Append(done, Message(r.mt, got)))
    OBVIOUS
  <2>1. Reassemble(sent[c]) = Extend(State(r.got, r.mt, done), f, r.tag) /\ f.op \in {"cont", r.mt} /\ f.op \notin Control
    BY <1>3, <1>4
  <2> HIDE DEF f, r, done, got
  <2>2. Extend(State(r.got, r.mt, done), f, r.tag)
           = IF ~f.fin THEN State(r.got \o Bytes(f, r.tag), r.mt, done)
             ELSE State(<<>>, "none", IF r.got \o Bytes(f, r.tag) = <<>> THEN done
                                      ELSE Append(done, Message(r.mt, r.got \o Bytes(f, r.tag))))
    BY <2>1, ExtendsData
  <2>3. Extend(State(r.got, r.mt, done), f, r.tag)
           = IF ~f.fin THEN State(got, r.mt, done)
             ELSE State(<<>>, "none", IF got = <<>> THEN done ELSE Append(done, Message(r.mt, got)))
    BY <2>2 DEF got
  <2> QED
    BY <2>1, <2>3
<1>6. ASSUME NEW pc \in {"head", "route"}
      PROVE  LET q == [r EXCEPT !.pc = pc, !.got = got] IN q.pc = pc /\ q.got = got /\ q.mt = r.mt
  BY <1>2 DEF Reads
<1>7. CASE ~f.fin /\ Set(c, [r EXCEPT !.pc = "head", !.got = got])
  <2> DEFINE q == [r EXCEPT !.pc = "head", !.got = got]
  <2>1. q.pc = "head" /\ q.got = got /\ q.mt = r.mt
    BY <1>6
  <2>2. rd'[c] = q
    BY <1>1, <1>7, SetAt
  <2> HIDE DEF q, got
  <2> QED
    BY <1>1, <1>5, <1>7, <2>1, <2>2 DEF AssemblyAt, Intact
<1>8. CASE f.fin /\ got = <<>> /\ Set(c, Again)
  <2>1. rd'[c].pc = "get"
    BY <1>1, <1>8, SetAt, Leaving
  <2> HIDE DEF got
  <2> QED
    BY <1>1, <1>5, <1>8, <2>1 DEF AssemblyAt, Intact
<1>9. CASE f.fin /\ got # <<>> /\ Set(c, [r EXCEPT !.pc = "route", !.got = got])
  <2> DEFINE q == [r EXCEPT !.pc = "route", !.got = got]
  <2>1. q.pc = "route" /\ q.got = got /\ q.mt = r.mt
    BY <1>6
  <2>2. rd'[c] = q
    BY <1>1, <1>9, SetAt
  <2> HIDE DEF q, got
  <2> QED
    BY <1>1, <1>2, <1>5, <1>9, <2>1, <2>2 DEF AssemblyAt, Intact
<1>10. Set(c, CASE ~f.fin -> [r EXCEPT !.pc = "head", !.got = got]
                [] f.fin /\ got = <<>> -> Again
                [] OTHER -> [r EXCEPT !.pc = "route", !.got = got])
  BY DEF ReadPayload
<1> HIDE DEF got
<1> QED
  BY <1>2, <1>7, <1>8, <1>9, <1>10

\* A control frame: the Read goes on, behind the pong it may have to write, or ends.
LEMMA ReadControlAt == ASSUME Reading, NEW c \in Conns, AssemblyAt(c), ReadControl(c) \/ Ponged(c) PROVE AssemblyAt(c)'
<1>1. /\ Types /\ rd[c] \in Reads /\ rd[c].pc \in {"ctrl", "pong"}
      /\ sent' = sent /\ lost' = lost /\ pending' = pending /\ delivered' = delivered
  BY ReadFields DEF Reading, ReadControl, Ponged, streamVars
<1>2. ASSUME NEW pc \in {"head", "pong"}, Set(c, [rd[c] EXCEPT !.pc = pc]) PROVE AssemblyAt(c)'
  <2> DEFINE q == [rd[c] EXCEPT !.pc = pc]
  <2>1. q.pc = pc /\ q.got = rd[c].got /\ q.mt = rd[c].mt
    BY <1>1 DEF Reads
  <2>2. rd'[c] = q
    BY <1>1, <1>2, SetAt
  <2> HIDE DEF q
  <2> QED
    BY <1>1, <1>2, <2>1, <2>2 DEF AssemblyAt, Intact
<1>3. CASE Fails(c, "eof")
  <2>1. rd'[c].pc = "done"
    BY <1>1, <1>3, SetAt, Leaving DEF Fails
  <2> QED
    BY <2>1 DEF AssemblyAt, Intact
<1>4. Set(c, [rd[c] EXCEPT !.pc = "head"]) \/ Set(c, [rd[c] EXCEPT !.pc = "pong"]) \/ Fails(c, "eof")
  BY DEF ReadControl, Ponged
<1> QED
  BY <1>2, <1>3, <1>4

\* The message is handed on, and is one that was sent.
LEMMA DeliverAt == ASSUME Reading, Assembly, NEW c \in Conns, Deliver(c)
                   PROVE  /\ AssemblyAt(c)' /\ delivered' \in [Conns -> Seq(Messages)]
                          /\ \A d \in Conns : d # c => delivered'[d] = delivered[d]
<1> DEFINE m == Message(rd[c].mt, rd[c].got)
<1>1. /\ Types /\ PendingAt(c) /\ rd[c].pc = "route" /\ UNCHANGED <<pending, owed, sent, lost>> /\ Set(c, Again)
      /\ delivered' = [delivered EXCEPT ![c] = Append(@, m)]
  BY DEF Reading, Deliver, streamVars
<1>2. rd[c].mt \in {"text", "binary"} /\ rd[c].got \in Seq(Nat)
  BY <1>1, ReadFields DEF Assembly, AssemblyAt
<1>3. m \in Messages
  BY <1>2 DEF Message, Messages
<1> HIDE DEF m
<1>4. delivered[c] \in Seq(Messages) /\ Append(delivered[c], m) \in Seq(Messages)
  BY <1>3, AppendProperties DEF Assembly
<1>5. delivered' \in [Conns -> Seq(Messages)] /\ delivered'[c] = Append(delivered[c], m)
  BY <1>1, <1>4 DEF Assembly
<1>6. rd'[c].pc = "get"
  BY <1>1, SetAt, Leaving
<1>7. c \notin lost => Reassemble(sent[c]) = State(<<>>, "none", Append(delivered[c], m))
  BY <1>1 DEF Assembly, AssemblyAt, Intact, m
<1>8. AssemblyAt(c)'
  BY <1>1, <1>5, <1>6, <1>7 DEF AssemblyAt, Intact, PendingAt
<1> QED
  BY <1>1, <1>5, <1>8 DEF Assembly

-----------------------------------------------------------------------------
(* Every step.                                                             *)

\* A turn of one reader.
LEMMA ReaderAssembly == ASSUME Reading, Assembly, NEW c \in Conns, ReaderStep(c) \/ PeerStep(c) PROVE Assembly'
<1>1. Types /\ AssemblyAt(c)
  BY DEF Reading, Assembly
<1>2. CASE ~Deliver(c)
  <2>1. delivered' = delivered
    BY <1>2 DEF ReaderStep, PeerStep, GetBuffer, Ponged, ReadFails, Grow, StoreSize, ReadHeader, ReadPayload, ReadControl
  <2>2. AssemblyAt(c)'
    <3>1. CASE ReadFails(c) \/ Grow(c) \/ StoreSize(c)
      <4>1. UNCHANGED <<pending, owed, sent, lost>>
        BY <3>1 DEF ReadFails, Grow, StoreSize, streamVars
      <4>2. \/ \E e \in {"conn", "toolarge"} : Fails(c, e)
            \/ Set(c, Again) /\ rd[c].pc \in {"grow", "store"}
            \/ Set(c, [Reader EXCEPT !.pc = "store", !.next = NextBucketSize(rd[c].cap)]) /\ rd[c].pc = "grow"
        BY <3>1 DEF ReadFails, Grow, StoreSize
      <4>3. \A e \in {"conn", "toolarge"} : Fails(c, e) => rd'[c].pc = "done"
        BY <1>1, SetAt, Leaving DEF Fails
      <4>4. Set(c, Again) => rd'[c].pc = "get"
        BY <1>1, SetAt, Leaving
      <4>5. Set(c, [Reader EXCEPT !.pc = "store", !.next = NextBucketSize(rd[c].cap)]) => rd'[c].pc = "store"
        <5> DEFINE q == [Reader EXCEPT !.pc = "store", !.next = NextBucketSize(rd[c].cap)]
        <5>1. q.pc = "store"
          BY DEF Reader
        <5> HIDE DEF q
        <5>2. Set(c, q) => rd'[c].pc = "store"
          BY <1>1, <5>1, SetAt
        <5> QED
          BY <5>2 DEF q
      <4> QED
        BY <1>1, <2>1, <4>1, <4>2, <4>3, <4>4, <4>5, TurnAt
    <3> QED
      BY <1>1, <1>2, <3>1, GetBufferAt, ReadHeaderAt, ReadPayloadAt, ReadControlAt DEF ReaderStep, PeerStep
  <2>3. ASSUME NEW d \in Conns, d # c PROVE AssemblyAt(d)'
    BY <1>1, <2>1, <2>3, ReaderElsewhere, QuietAt DEF Assembly
  <2> QED
    BY <2>1, <2>2, <2>3 DEF Assembly
<1>3. CASE Deliver(c)
  <2>1. ASSUME NEW d \in Conns, d # c PROVE AssemblyAt(d)'
    BY <1>1, <1>3, <2>1, DeliverAt, ReaderElsewhere, QuietAt DEF Assembly
  <2> QED
    BY <1>3, <2>1, DeliverAt DEF Assembly
<1> QED
  BY <1>2, <1>3

\* session.run, the writers and the network: a reader is left alone, or is started.
LEMMA OthersAssembly ==
    ASSUME Reading, Assembly, OthersLeave, delivered' = delivered,
           \/ rd' = rd
           \/ run.c \in Conns /\ rd[run.c].pc = "off" /\ rd' = [rd EXCEPT ![run.c] = Again]
    PROVE  Assembly'
<1>1. rd \in [Conns -> Reads] /\ \A d \in Conns : PendingAt(d) /\ AssemblyAt(d)
  BY DEF Reading, Types, Assembly
<1>2. ASSUME NEW d \in Conns PROVE AssemblyAt(d)'
  <2>1. CASE rd'[d] = rd[d]
    BY <1>1, <2>1, QuietAt DEF OthersLeave
  <2>2. CASE rd[d].pc = "off" /\ rd'[d] = Again
    <3>1. Again.pc = "get"
      BY Leaving
    <3>2. pending[d] = None /\ (d \notin lost => sent[d] = <<>> /\ delivered[d] = <<>>)
      BY <1>1, <2>2 DEF PendingAt, AssemblyAt, Intact
    <3>3. Reassemble(<<>>) = State(<<>>, "none", <<>>)
      BY Reassembled DEF NoMessage, State
    <3> QED
      BY <2>2, <3>1, <3>2, <3>3 DEF AssemblyAt, Intact, OthersLeave
  <2> QED
    BY <1>1, <2>1, <2>2
<1> QED
  BY <1>2 DEF Assembly

\* The invariant is inductive, given the readers' own.
LEMMA AssemblyNext == ASSUME Reading, Assembly, [Next]_vars PROVE Assembly'
<1>1. Types /\ Fresh
  BY DEF Reading
<1>2. CASE UNCHANGED vars
  BY <1>2, OthersAssembly DEF vars, connVars, writeVars, streamVars, OthersLeave
<1>3. CASE RunStep \/ StopStep
  <2>1. OthersLeave /\ delivered' = delivered
    BY <1>3 DEF RunStep, StopStep, OthersLeave, streamVars
  <2> QED
    BY <1>1, <1>3, <2>1, RunFresh, OthersAssembly
<1>4. ASSUME NEW c \in Conns, Break(c) \/ \E p \in Writers : WriteStep(c, p) PROVE Assembly'
  <2>1. OthersLeave /\ rd' = rd /\ delivered' = delivered
    BY <1>4 DEF WriteStep, Break, OthersLeave, streamVars, connVars
  <2> QED
    BY <2>1, OthersAssembly
<1>5. ASSUME NEW c \in Conns, ReaderStep(c) \/ PeerStep(c) PROVE Assembly'
  BY <1>5, ReaderAssembly
<1> QED
  BY <1>2, <1>3, <1>4, <1>5 DEF Next, Progress

\* Nothing is read and nothing delivered in the beginning.
LEMMA AssemblyInit == Init => Assembly
<1> SUFFICES ASSUME Init PROVE Assembly
  OBVIOUS
<1>1. Reader.pc = "off" /\ <<>> \in Seq(Messages)
  BY EmptySeq DEF Reader
<1>2. \A c \in Conns : rd[c].pc = "off" /\ sent[c] = <<>> /\ delivered[c] = <<>>
  BY <1>1 DEF Init
<1> QED
  BY <1>1, <1>2 DEF Init, Assembly, AssemblyAt, Intact

\* Whatever the buffers were and however often a Read had to start again, the messages given to
\* DecodeTopic and Route are those of the frames read so far, as long as the reader is in
\* step (dialer.go Read and stashPending, session.go readLoop).
THEOREM MessagesAreIntact == Spec => []MessagesIntact
<1>1. Reading /\ Assembly => MessagesIntact
  <2> SUFFICES ASSUME Assembly, NEW c \in Conns, rd[c].pc = "head", c \notin lost, owed[c] = 0
               PROVE  delivered[c] = Reassemble(sent[c]).done
    BY DEF MessagesIntact
  <2>1. Reassemble(sent[c]) = State(rd[c].got, rd[c].mt, delivered[c])
    BY DEF Assembly, AssemblyAt, Intact
  <2>2. State(rd[c].got, rd[c].mt, delivered[c]).done = delivered[c]
    BY DEF State
  <2> QED
    BY <2>1, <2>2
<1> QED
  BY <1>1, ReadingCorrect, AssemblyInit, AssemblyNext, PTL DEF Spec

=============================================================================
