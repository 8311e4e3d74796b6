-------------------------------- MODULE WsConn --------------------------------
(***************************************************************************)
(* The WebSocket connection of a session: Dial and the handshake, Read     *)
(* with its fragments, control frames and the part-read message it keeps   *)
(* when the buffer is too small, writeFrame under its mutex (dialer.go),   *)
(* the read loop that grows its buffer (session.go) and the bucketed pool  *)
(* the buffer comes from (buffer_pool.go).                                 *)
(*                                                                         *)
(* A connection's reader is a goroutine of its own: the one of an earlier  *)
(* connection may still run when the next one has been dialled, and both   *)
(* then use session.frameSize.  The peer's bytes are seen one header and   *)
(* one payload at a time, when they are read; a payload is as many copies  *)
(* of its frame's number as it has bytes.  Masking is left out.            *)
(***************************************************************************)
EXTENDS Integers, Sequences, FiniteSetsExt, SequencesExt

CONSTANTS Buckets,     \* defaultBufferPoolBuckets
          MaxAlloc,    \* the largest buffer make can allocate
          MaxPayload,  \* maxPayloadLen
          MaxControl,  \* 125: the longest payload of a control frame
          Frames,      \* what the peer may send: op, fin and length
          MaxConns,    \* bound: dials
          MaxHeaders,  \* bound: headers read
          MaxWrites,   \* bound: frames the session writes
          MaxFaults    \* bound: failed dials and broken connections

Opcodes == {"cont", "text", "binary", "close", "ping", "pong", "other"}
Control == {"close", "ping", "pong"}

ASSUME WsConnAssumption ==
    /\ Buckets \in Seq(Int) /\ \E i \in DOMAIN Buckets : Buckets[i] > 0
    /\ Frames \subseteq [op : Opcodes, fin : BOOLEAN, len : Nat]
    /\ {MaxAlloc, MaxPayload, MaxControl, MaxConns, MaxHeaders, MaxWrites, MaxFaults} \subseteq Nat

VARIABLES run,        \* session.run: where it is, its connection, is the context done
          sock,       \* per connection: none, open, broken, closed
          mu,         \* per connection: who holds wsConn.mu
          wr,         \* per connection and writer: its writeFrame call
          out,        \* per connection: what was written, headers and payloads
          rd,         \* per connection: its readLoop and the Read under way
          pending,    \* per connection: wsConn.pending
          frameSize,  \* session.frameSize
          owed,       \* per connection: payload bytes before the next header
          sent,       \* per connection: the frames whose headers were read
          lost,       \* connections read out of step with the frames
          headers,    \* headers read so far
          writes,     \* frames the session has written
          faults,     \* failures so far
          delivered,  \* per connection: the messages given to DecodeTopic and Route
          panicked    \* make was asked for more than MaxAlloc

connVars == <<run, sock, writes, faults>>
writeVars == <<mu, wr, out>>
streamVars == <<owed, sent, lost, headers>>
vars == <<connVars, writeVars, rd, pending, frameSize, streamVars, delivered, panicked>>

Conns == 1 .. MaxConns
Writers == {"reader", "run"}
Nobody == "nobody"
None == [data |-> <<>>, mt |-> "none", frame |-> [len |-> 0], tag |-> 0]   \* no message is pending
NoWrite == [st |-> "idle", op |-> "none", len |-> 0, tag |-> 0]
Reader == [pc |-> "off", cap |-> 0, got |-> <<>>, mt |-> "none", frame |-> <<>>,
           tag |-> 0, next |-> 0, err |-> "none"]

-----------------------------------------------------------------------------
(* The buffer pool.                                                        *)

\* Mutant: a size that occurs twice stays twice.
SortOnly(sizes) == SortSeq(SelectSeq(sizes, LAMBDA x : x > 0), <)

\* Positive, sorted, without duplicates.
normalizeBucketSizes(sizes) ==
    LET kept == {x \in {sizes[i] : i \in DOMAIN sizes} : x > 0}
    IN  CHOOSE s \in [1 .. Cardinality(kept) -> kept] : \A i, j \in DOMAIN s : i < j => s[i] < s[j]

Sizes == normalizeBucketSizes(Buckets)

InitSize == Sizes[1]

\* sort.SearchInts: the first bucket that holds size; Len(Sizes) + 1 for none.
SearchInts(size) ==
    CHOOSE i \in 1 .. Len(Sizes) + 1 :
        /\ \A j \in 1 .. i - 1 : Sizes[j] < size
        /\ i = Len(Sizes) + 1 \/ Sizes[i] >= size

\* bufferPool.Get: the capacity of the buffer; its length is size.
Get(size) == IF SearchInts(size) > Len(Sizes) THEN size ELSE Sizes[SearchInts(size)]

\* 0: there is none.
NextBucketSize(size) ==
    LET idx == SearchInts(size)
        next == IF idx <= Len(Sizes) /\ Sizes[idx] = size THEN idx + 1 ELSE idx
    IN  IF next > Len(Sizes) THEN 0 ELSE Sizes[next]

-----------------------------------------------------------------------------
TypeOK ==
    /\ run.pc \in {"dial", "tls", "upgrade", "up", "run", "write", "close", "end"}
    /\ run.c \in 0 .. MaxConns /\ run.stop \in BOOLEAN
    /\ sock \in [Conns -> {"none", "open", "broken", "closed"}]
    /\ mu \in [Conns -> Writers \cup {Nobody}]
    /\ \A c \in Conns, p \in Writers :
          wr[c][p].st \in {"idle", "lock", "head", "body", "ok", "failed"}
    /\ \A c \in Conns :
          /\ rd[c].pc \in {"off", "get", "head", "data", "ctrl", "pong", "grow", "store", "route", "done"}
          /\ rd[c].err \in {"none", "protocol", "toolarge", "eof", "conn"}
          /\ Len(rd[c].got) <= rd[c].cap
    /\ \E i \in DOMAIN Sizes : frameSize = Sizes[i]
    /\ owed \in [Conns -> Nat]
    /\ lost \subseteq Conns
    /\ headers \in 0 .. MaxHeaders /\ writes \in 0 .. MaxWrites /\ faults \in 0 .. MaxFaults
    /\ panicked \in BOOLEAN

\* newSession: nothing is dialled, and the buffers are of the smallest size.
Init ==
    /\ run = [pc |-> "dial", c |-> 0, stop |-> FALSE]
    /\ sock = [c \in Conns |-> "none"]
    /\ mu = [c \in Conns |-> Nobody]
    /\ wr = [c \in Conns |-> [p \in Writers |-> NoWrite]]
    /\ out = [c \in Conns |-> <<>>]
    /\ rd = [c \in Conns |-> Reader]
    /\ pending = [c \in Conns |-> None]
    /\ frameSize = InitSize
    /\ owed = [c \in Conns |-> 0] /\ sent = [c \in Conns |-> <<>>] /\ lost = {}
    /\ headers = 0 /\ writes = 0 /\ faults = 0 /\ panicked = FALSE
    /\ delivered = [c \in Conns |-> <<>>]

-----------------------------------------------------------------------------
(* writeFrame by p on connection c: header and payload are two writes to   *)
(* the socket, both with the mutex held.                                   *)

Call(c, p, op, len, tag) ==
    wr' = [wr EXCEPT ![c][p] = [st |-> "lock", op |-> op, len |-> len, tag |-> tag]]
Result(c, p, st) == /\ wr' = [wr EXCEPT ![c][p].st = st]
                    /\ mu' = [mu EXCEPT ![c] = Nobody]

\* Mutant: the mutex is not taken.
LockNothing(c, p) == /\ wr[c][p].st = "lock"
                     /\ wr' = [wr EXCEPT ![c][p].st = "head"]
                     /\ UNCHANGED <<mu, out>>

Lock(c, p) == /\ wr[c][p].st = "lock" /\ mu[c] = Nobody
              /\ mu' = [mu EXCEPT ![c] = p]
              /\ wr' = [wr EXCEPT ![c][p].st = "head"]
              /\ UNCHANGED out

Part(c, p, part) == [part |-> part, by |-> p, op |-> wr[c][p].op, len |-> wr[c][p].len, tag |-> wr[c][p].tag]

WriteHeader(c, p) ==
    /\ wr[c][p].st = "head" /\ sock[c] = "open"
    /\ out' = [out EXCEPT ![c] = Append(@, Part(c, p, "head"))]
    /\ IF wr[c][p].len = 0
         THEN Result(c, p, "ok")
         ELSE wr' = [wr EXCEPT ![c][p].st = "body"] /\ UNCHANGED mu

WritePayload(c, p) ==
    /\ wr[c][p].st = "body" /\ sock[c] = "open"
    /\ out' = [out EXCEPT ![c] = Append(@, Part(c, p, "body"))]
    /\ Result(c, p, "ok")

\* The deadline cannot be set or the write fails: the mutex is released.  Pong and close frames
\* are written without the session's context.  A queued frame whose write fails at its
\* header because that context is done is not a step of its own: nothing was written and
\* the connection is closed, as by Stopped before the frame is taken from the queue.
WriteFails(c, p) == /\ wr[c][p].st \in {"head", "body"} /\ sock[c] # "open"
                    /\ Result(c, p, "failed")
                    /\ UNCHANGED out

WriteStep(c, p) ==
    /\ Lock(c, p) \/ WriteHeader(c, p) \/ WritePayload(c, p) \/ WriteFails(c, p)
    /\ UNCHANGED <<connVars, rd, pending, frameSize, streamVars, delivered, panicked>>

-----------------------------------------------------------------------------
(* readLoop and wsConn.Read on connection c.                               *)

\* The payload of frame f, the tag-th of its connection, and a message.
Bytes(f, tag) == [i \in 1 .. f.len |-> tag]
Message(mt, data) == [mt |-> mt, data |-> data]

Set(c, r) == rd' = [rd EXCEPT ![c] = r]
Again == [Reader EXCEPT !.pc = "get"]   \* the next turn of readLoop
Fails(c, err) == Set(c, [Reader EXCEPT !.pc = "done", !.err = err])

\* Mutant: a pending message is taken up whatever the buffer's size.
HoldsAny(cap, old) == TRUE

\* The buffer holds what is pending and the payload that comes next.
Holds(cap, old) == cap >= Len(old.data) + old.frame.len

\* buf := Get(frameSize), which may panic, and the start of Read: what is pending is
\* taken up again if the buffer holds it, and stays pending if not.
GetBuffer(c) ==
    LET old == pending[c]
        cap == Get(frameSize)
        fresh == [Reader EXCEPT !.pc = "head", !.cap = cap]
    IN  /\ rd[c].pc = "get"
        /\ \/ /\ cap > MaxAlloc
              /\ panicked' = TRUE /\ UNCHANGED <<rd, pending>>
           \/ /\ cap <= MaxAlloc /\ old = None
              /\ Set(c, fresh) /\ UNCHANGED <<pending, panicked>>
           \/ /\ cap <= MaxAlloc /\ old # None /\ ~Holds(cap, old)
              /\ Set(c, [fresh EXCEPT !.pc = "grow"]) /\ UNCHANGED <<pending, panicked>>
           \/ /\ cap <= MaxAlloc /\ old # None /\ Holds(cap, old)
              /\ Set(c, [fresh EXCEPT !.pc = "data", !.got = old.data, !.mt = old.mt,
                                      !.frame = old.frame, !.tag = old.tag])
              /\ pending' = [pending EXCEPT ![c] = None] /\ UNCHANGED panicked
        /\ UNCHANGED <<frameSize, streamVars, wr, delivered>>

\* Mutant: nothing is kept, so the payload is left in the stream.
StashNothing(c, f, mt, tag) == UNCHANGED pending

\* Mutant: the fragments read before are not copied.
StashHeader(c, f, mt, tag) ==
    pending' = [pending EXCEPT ![c] = [data |-> <<>>, mt |-> mt, frame |-> f, tag |-> tag]]

\* stashPending: the message so far and the header just read.
StashPending(c, f, mt, tag) ==
    pending' = [pending EXCEPT ![c] = [data |-> rd[c].got, mt |-> mt, frame |-> f, tag |-> tag]]

\* Mutant: a message that just fits is refused.
ExceedsOrFills(r, f) == Len(r.got) + f.len >= r.cap

\* require > len(dst)
Exceeds(r, f) == Len(r.got) + f.len > r.cap

\* What Read does with the header of frame f, the tag-th of the connection.
Accept(c, f, tag) ==
    LET mt == IF f.op = "cont" THEN rd[c].mt ELSE f.op
        bad == /\ f.len <= MaxPayload
               /\ \/ f.op = "other"
                  \/ f.op = "cont" /\ rd[c].mt = "none"
                  \/ f.op \in Control /\ (~f.fin \/ f.len > MaxControl)
        r == [rd[c] EXCEPT !.frame = f, !.tag = tag, !.mt = IF f.op \in Control THEN @ ELSE mt]
    IN  \/ f.len > MaxPayload /\ Set(c, [Reader EXCEPT !.pc = "grow", !.cap = rd[c].cap]) /\ UNCHANGED pending
        \/ bad /\ Fails(c, "protocol") /\ UNCHANGED pending
        \/ /\ ~bad /\ f.len <= MaxPayload /\ f.op \in Control
           /\ Set(c, [r EXCEPT !.pc = "ctrl"]) /\ UNCHANGED pending
        \/ /\ ~bad /\ f.len <= MaxPayload /\ f.op \notin Control
           /\ IF Exceeds(rd[c], f)
                THEN Set(c, [Reader EXCEPT !.pc = "grow", !.cap = rd[c].cap]) /\ StashPending(c, f, mt, tag)
                ELSE Set(c, [r EXCEPT !.pc = "data"]) /\ UNCHANGED pending

\* The next header.  When payload bytes come first they are taken for a header,
\* which may then say anything.
ReadHeader(c) ==
    LET instep == c \notin lost /\ owed[c] = 0
    IN  /\ rd[c].pc = "head" /\ sock[c] \in {"open", "broken"} /\ headers < MaxHeaders
        /\ headers' = headers + 1
        /\ lost' = IF instep THEN lost ELSE lost \cup {c}
        /\ \E f \in Frames :
              /\ sent' = IF instep THEN [sent EXCEPT ![c] = Append(@, f)] ELSE sent
              /\ owed' = [owed EXCEPT ![c] = f.len]
              /\ Accept(c, f, IF instep THEN Len(sent[c]) + 1 ELSE 0)
        /\ UNCHANGED <<frameSize, wr, delivered, panicked>>

\* The payload of a data frame; the last one ends the Read, and readLoop skips a
\* message without a byte.
ReadPayload(c) ==
    LET r == rd[c]
        got == r.got \o Bytes(r.frame, r.tag)
    IN  /\ r.pc = "data" /\ sock[c] \in {"open", "broken"}
        /\ Set(c, CASE ~r.frame.fin -> [r EXCEPT !.pc = "head", !.got = got]
                    [] r.frame.fin /\ got = <<>> -> Again
                    [] OTHER -> [r EXCEPT !.pc = "route", !.got = got])
        /\ owed' = [owed EXCEPT ![c] = 0]
        /\ UNCHANGED <<pending, frameSize, sent, lost, headers, wr, delivered, panicked>>

\* A ping is answered with its payload, a close ends the connection.
ReadControl(c) ==
    LET f == rd[c].frame
    IN  /\ rd[c].pc = "ctrl" /\ sock[c] \in {"open", "broken"}
        /\ owed' = [owed EXCEPT ![c] = 0]
        /\ \/ /\ f.op = "ping" /\ Call(c, "reader", "pong", f.len, rd[c].tag)
              /\ Set(c, [rd[c] EXCEPT !.pc = "pong"])
           \/ f.op = "close" /\ Fails(c, "eof") /\ UNCHANGED wr
           \/ f.op = "pong" /\ Set(c, [rd[c] EXCEPT !.pc = "head"]) /\ UNCHANGED wr
        /\ UNCHANGED <<pending, frameSize, sent, lost, headers, delivered, panicked>>

\* The pong has been written, or not: the error is dropped.
Ponged(c) == /\ rd[c].pc = "pong" /\ wr[c]["reader"].st \in {"ok", "failed"}
             /\ wr' = [wr EXCEPT ![c]["reader"] = NoWrite]
             /\ Set(c, [rd[c] EXCEPT !.pc = "head"])
             /\ UNCHANGED <<pending, frameSize, streamVars, delivered, panicked>>

\* The connection is gone, or runSession has returned and cancelled the context.
ReadFails(c) == /\ rd[c].pc \in {"head", "data", "ctrl"}
                /\ sock[c] # "open" \/ run.c # c \/ run.pc \in {"close", "end"}
                /\ Fails(c, "conn")
                /\ UNCHANGED <<pending, frameSize, streamVars, wr, delivered, panicked>>

\* tryGrowReadBuffer up to its comparison; a buffer is as long as its capacity,
\* since frameSize is always a bucket.
Grow(c) == /\ rd[c].pc = "grow"
           /\ LET next == NextBucketSize(rd[c].cap)
              IN  IF next = 0 THEN Fails(c, "toolarge")
                  ELSE Set(c, IF next > frameSize THEN [Reader EXCEPT !.pc = "store", !.next = next]
                                                  ELSE Again)
           /\ UNCHANGED <<pending, frameSize, streamVars, wr, delivered, panicked>>

\* s.frameSize = next, which another reader may have raised meanwhile.
StoreSize(c) == /\ rd[c].pc = "store"
                /\ frameSize' = rd[c].next
                /\ Set(c, Again)
                /\ UNCHANGED <<pending, streamVars, wr, delivered, panicked>>

Deliver(c) == /\ rd[c].pc = "route"
              /\ delivered' = [delivered EXCEPT ![c] = Append(@, Message(rd[c].mt, rd[c].got))]
              /\ Set(c, Again)
              /\ UNCHANGED <<pending, frameSize, streamVars, wr, panicked>>

\* What the goroutine does without the peer.
ReaderStep(c) ==
    /\ \/ GetBuffer(c) \/ Ponged(c) \/ ReadFails(c) \/ Grow(c) \/ StoreSize(c) \/ Deliver(c)
    /\ UNCHANGED <<connVars, mu, out>>

\* What it does with bytes from the peer.
PeerStep(c) ==
    /\ ReadHeader(c) \/ ReadPayload(c) \/ ReadControl(c)
    /\ UNCHANGED <<connVars, mu, out>>

-----------------------------------------------------------------------------
(* session.run: dial, serve, close, dial again.                            *)

At(pc) == run' = [run EXCEPT !.pc = pc]
Hang(c) == sock' = [sock EXCEPT ![c] = "closed"]

Fault == faults < MaxFaults /\ faults' = faults + 1

\* DialContext succeeds: TLS and the upgrade come next.
DialTCP == /\ run.pc = "dial" /\ ~run.stop /\ run.c < MaxConns
           /\ run' = [run EXCEPT !.pc = "tls", !.c = @ + 1]
           /\ sock' = [sock EXCEPT ![run.c + 1] = "open"]
           /\ UNCHANGED <<writes, faults, wr, rd>>

\* tls.HandshakeContext, then dialWebSocket with its checks of the response.
Handshake == /\ run.pc \in {"tls", "upgrade"}
             /\ At(IF run.pc = "tls" THEN "upgrade" ELSE "up")
             /\ UNCHANGED <<sock, writes, faults, wr, rd>>

\* Either may fail, and what was opened is closed.
HandshakeFails == /\ run.pc \in {"tls", "upgrade"} /\ Fault
                  /\ At("dial") /\ Hang(run.c)
                  /\ UNCHANGED <<writes, wr, rd>>

\* wsConn.Close writes a close frame and then closes the socket.
Close(c) == Call(c, "run", "close", 1, 0) /\ At("close")
Closed(c) == /\ run.pc = "close" /\ wr[c]["run"].st \in {"ok", "failed"}
             /\ wr' = [wr EXCEPT ![c]["run"] = NoWrite]
             /\ Hang(c)
             /\ At(IF run.stop THEN "end" ELSE "dial")
             /\ UNCHANGED <<writes, faults, rd>>

\* runSession starts the read loop, unless OnConnect or resubscribe failed.
Serve(c) == /\ run.pc = "up"
            /\ \/ At("run") /\ rd' = [rd EXCEPT ![c] = Again] /\ UNCHANGED <<faults, wr>>
               \/ Fault /\ Close(c) /\ UNCHANGED rd
            /\ UNCHANGED <<sock, writes>>

\* A queued frame or a ping (no payload) is written.
Write(c) == /\ run.pc = "run" /\ writes < MaxWrites
            /\ writes' = writes + 1
            /\ \E len \in {0, 1} : Call(c, "run", "data", len, 0)
            /\ At("write")
            /\ UNCHANGED <<sock, faults, rd>>

Written(c) == /\ run.pc = "write"
              /\ \/ /\ wr[c]["run"].st = "ok" /\ At("run")
                    /\ wr' = [wr EXCEPT ![c]["run"] = NoWrite]
                 \/ wr[c]["run"].st = "failed" /\ Close(c)
              /\ UNCHANGED <<sock, writes, faults, rd>>

\* runSession returns: the reader reported an error, or the context is done.
ReadError(c) == /\ run.pc = "run" /\ rd[c].err # "none"
                /\ Close(c)
                /\ UNCHANGED <<sock, writes, faults, rd>>
Stopped(c) == /\ run.pc = "run" /\ Fault
              /\ Call(c, "run", "close", 1, 0) /\ run' = [run EXCEPT !.pc = "close", !.stop = TRUE]
              /\ UNCHANGED <<sock, writes, rd>>

RunStep ==
    /\ \/ DialTCP \/ Handshake \/ HandshakeFails
       \/ Closed(run.c) \/ Serve(run.c) \/ Write(run.c) \/ Written(run.c) \/ ReadError(run.c)
    /\ UNCHANGED <<mu, out, pending, frameSize, streamVars, delivered, panicked>>
StopStep == Stopped(run.c) /\ UNCHANGED <<mu, out, pending, frameSize, streamVars, delivered, panicked>>

\* The peer or the network ends the connection; what was received can still be read.
Break(c) == /\ sock[c] = "open" /\ Fault
            /\ sock' = [sock EXCEPT ![c] = "broken"]
            /\ UNCHANGED <<run, writes, writeVars, rd, pending, frameSize, streamVars, delivered, panicked>>

\* What the process does by itself; StopStep, PeerStep and Break are up to others.
Progress == \/ RunStep
            \/ \E c \in Conns : ReaderStep(c)
            \/ \E c \in Conns, p \in Writers : WriteStep(c, p)

\* A panic takes the process down.
Next == /\ ~panicked
        /\ Progress \/ StopStep \/ \E c \in Conns : PeerStep(c) \/ Break(c)

\* Some goroutine that can run does (the peer takes what is written); nothing is
\* assumed of what the peer sends.
Fairness == WF_vars(~panicked /\ Progress)

Spec == Init /\ [][Next]_vars
FairSpec == Spec /\ Fairness

-----------------------------------------------------------------------------
(* Properties.                                                             *)

\* The messages of a sequence of frames, put together as RFC 6455 says: those that are
\* complete (but for empty ones), and the type and the bytes of the one that is not.
NoMessage == [data |-> <<>>, mt |-> "none", done |-> <<>>]
Extend(s, f, i) ==
    LET data == s.data \o Bytes(f, i)
        mt == IF f.op = "cont" THEN s.mt ELSE f.op
    IN  IF f.op \in Control THEN s
        ELSE IF ~f.fin THEN [data |-> data, mt |-> mt, done |-> s.done]
        ELSE [data |-> <<>>, mt |-> "none",
              done |-> IF data = <<>> THEN s.done ELSE Append(s.done, Message(mt, data))]
AfterEach(frames) ==
    LET after[n \in 0 .. Len(frames)] == IF n = 0 THEN NoMessage ELSE Extend(after[n - 1], frames[n], n)
    IN  after
Reassemble(frames) == AfterEach(frames)[Len(frames)]

\* A frame that starts a message never comes inside another message.
WellFormed(frames) ==
    \A i, j \in DOMAIN frames :
        i < j /\ frames[i].op \in {"text", "binary"} /\ ~frames[i].fin /\ frames[j].op \in {"text", "binary"}
        => \E k \in i + 1 .. j - 1 : frames[k].op = "cont" /\ frames[k].fin

\* Whatever buffers the read loop went through, the messages handed on are those of
\* the frames read so far: none lost, doubled, cut short or out of order.
MessagesIntact ==
    \A c \in Conns : rd[c].pc = "head" /\ c \notin lost /\ owed[c] = 0 /\ WellFormed(sent[c])
                     => delivered[c] = Reassemble(sent[c]).done

\* A frame longer than maxPayloadLen was announced.
Big(c) == \E i \in DOMAIN sent[c] : sent[c][i].len > MaxPayload

\* No buffer that can be allocated holds what is pending.
Beyond(c) == \/ Big(c)
             \/ \A i \in DOMAIN Sizes : Sizes[i] <= MaxAlloc => Len(pending[c].data) + pending[c].frame.len > Sizes[i]

\* The reader takes payload for a header only after a frame longer than maxPayloadLen,
\* whose error readLoop takes for a buffer that is too small.
InStep == \A c \in lost : Big(c)

\* The header of an answer to a ping that was read in step.
IsPong(x) == x.op = "pong" /\ x.part = "head" /\ x.tag > 0

\* What this side writes stays a sequence of frames: header and payload adjacent, and the
\* pongs answer the pings in their order, whoever else writes meanwhile.
OutboundWhole ==
    \A c \in Conns :
        /\ \A i \in DOMAIN out[c] : LET x == out[c][i] IN
              /\ x.part = "body" => i > 1 /\ out[c][i - 1] = [x EXCEPT !.part = "head"]
              /\ x.part = "head" /\ x.len > 0 /\ i < Len(out[c]) => out[c][i + 1] = [x EXCEPT !.part = "body"]
        /\ \A i, j \in DOMAIN out[c] :
              i < j /\ IsPong(out[c][i]) /\ IsPong(out[c][j]) => out[c][i].tag < out[c][j].tag

\* A message is given up as too large, or make panics, only if no bucket that can be
\* allocated holds it (or the reader is out of step).
NeverTooSmall == /\ panicked => \E c \in Conns : Beyond(c)
                 /\ \A c \in Conns : rd[c].err = "toolarge" => Beyond(c)

\* Once its socket is closed a read loop ends: no goroutine is left behind, neither in a
\* read nor growing its buffer for ever.
ReadersEnd == \A c \in Conns : sock[c] = "closed" ~> rd[c].pc \in {"off", "done"} \/ panicked

=============================================================================
