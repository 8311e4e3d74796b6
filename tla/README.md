# A TLA+ model of go-hft

go-hft is a market data and order gateway. Its working core is the `websocket`
library (`libs/shared/websocket`), which keeps connections to exchanges alive and
fans their messages out to consumers; around it are the ingest service, which
serves subscriptions to local clients over a Unix socket, and the order service.
The core, risk and wal services are descriptions without code.

This directory specifies that core: TLA+ modules translated from the Go source,
TLC runs over small instances, and TLAPS proofs for all instances. PROJECT.json
lists components, runs, mutants, the map from definitions to source lines, the
hazards, and the findings.

## 1. Inventory

| Component | State | Operations | Interacts with |
|---|---|---|---|
| `Consumer` / `frameQueue` (consumer.go) | ring `buf`, `head`, `tail`, `size`, `closed`, `policy`; one mutex, conditions `notEmpty`, `notFull` | Push, Pop, Close, Len | router pushes; `runConsumer` pops; the connection handler closes |
| `Frame` / `framePool` (frame.go) | `ref` per frame; a `sync.Pool` | New, Retain, Release, recycle | read loop, router, queues and consumers all release |
| `router` (router.go) | `topics` map, `RWMutex`, fan-out mode | AddConsumer, RemoveConsumer, RemoveTopic, Route | called by read loops and by Manager |
| `writer` (writer.go) | bounded channel, `connected` flag, policy | Enqueue, Send, SetConnected, Drain | any caller enqueues; `runSession` reads |
| `session` (session.go) | `connected`, `running`, `done`, buffer size | start, stop, run, subscribe, unsubscribe, readLoop | writer, subscriptions, router, dialer |
| `subscriptions` (subscriptions.go) | `desired`, `active` | Add, Remove, Desired, Count, MarkActive, ClearActive | manager and session |
| `Manager` (manager.go) | sessions, topic-to-session map, context | Run, Subscribe, Unsubscribe, AddConsumer, RemoveConsumer, Send | everything above |
| `bufferPool`, `Backoff` | buckets; delays | Get, Put, NextBucketSize; Next | session, router |
| dialer / `wsConn` (dialer.go) | pending part of a message | Dial, Read, Write, Close | session |
| `ingest.Usecase` (usecase.go) | groups per platform and key, topics with `refCount` | Subscribe, Unsubscribe, Resolve | Manager, codecs |
| binance and btcc codecs | stream and symbol lookups | Register, Unregister, Encode*, DecodeTopic | Manager, Usecase |
| payload decoding, `scanner` | none | parseDecimal, Decode* | `runConsumer` |
| cmd/ingest (main.go) | connections, their subscriptions and consumers | handleConn, runConsumer, writeResponse | Usecase, uds |
| order usecase, BTCC delegator | request queue | Handle, Run, Send | HTTP |
| uds server, client | socket path | Listen, Accept, Close, Dial | cmd/ingest |

What is hard here:

* **Shared frames.** One frame is in several queues at once; its count is set by
  the router before the first enqueue and decremented by queues, consumers and the
  router itself, concurrently. Correct means: the count is the number of owners, so
  a frame is recycled once, and never under somebody who still reads it.
* **Condition variables.** `Signal` wakes one thread, another may overtake it.
  Correct means: no frame lies in a queue while all who could take it sleep.
* **Locks held while waiting.** Route keeps the read lock during a blocking push.
  Correct means: it comes back, for each policy under what that policy needs.
* **Flags and sets without a common lock.** `connected`, `writer.connected`, the
  desired set and the queue decide together whether a subscription is sent. Correct
  means: a topic whose Subscribe returned nil is subscribed on whatever connection
  is being served, and an unsubscribed one is not.
* **A goroutine that fills the queue it empties.** Correct means: cancelling ends it.
* **Four tables with four locks.** A stream is known to the group (`topics`,
  `refCount`), the codec (`streamByID` and the lookups), the manager (topic to
  session, desired sets) and the router (consumers). Subscribe and Unsubscribe go
  through them one critical section at a time, in different orders. Correct means: a
  connection gets exactly the streams it has subscribed, and the tables agree again
  once the calls are over.
* **A read that ends in the middle.** A message may exceed the buffer after some of
  its fragments were read; what was read is kept, the buffer is replaced, and control
  frames may come at any point. Correct means: the messages handed on are those sent.
* **Requests whose fate is unknown.** An order may be executed after its sender gave
  up. Correct means: the response says no more than is known.
* **Text to numbers at a fixed width.** Correct means: a decoded field has the
  document's value, or the message is refused.

The list with lines is under "hazards" in PROJECT.json; a hazard without a property
has a note that says why.

## 2. Modules

| Module | What it is |
|---|---|
| `BoundedQueue` | abstract: a bounded FIFO that puts, replaces the oldest, refuses, closes |
| `FrameQueue` | detailed: the ring, the mutex, both conditions; implements `BoundedQueue` |
| `FanOut` | frame pool, router, consumer queues (as bounded FIFOs), read loops, consumers |
| `FanOutQueue` | composition: the queue of one consumer inside `FanOut`, as the `BoundedQueue` it must be |
| `Session` | `session.run`, writer, desired set, callers of Subscribe and Unsubscribe, the exchange |
| `Ingest` | composition: one group of the Usecase, the codec's registry, the manager with several coarse sessions, the router's table, client connections |
| `WsConn` | dialer, `wsConn.Read` and `writeFrame`, `readLoop`, the buffer pool |
| `Payload` | scanners, decimals and the four decoders, as operators |
| `Order` | order queue, workers, BTCC delegator, the exchange |
| `FrameQueueProofs`, `FanOutProofs`, `SessionProofs`, `IngestProofs`, `WsConnProofs`, `PayloadProofs`, `OrderProofs` | TLAPS proofs about the module of that name; `FanOutProofs` also about `FanOutQueue` |
| `WsMessagesProofs` | the proof of `MessagesIntact`, on top of `WsConnProofs` |
| `MCFanOut`, `MCSession`, `MCIngest`, `MCWsConn`, `MCPayload`, `MCOrder` | symmetry and values of constants for TLC |

How they fit together: `WsConn` is what a `Session` dials and reads from; a message
`WsConn` delivers enters `FanOut` at `Read`; each of `FanOut`'s queues is a `BoundedQueue`
(`FanOutQueue`, checked and proved), which `FrameQueue` implements (checked and proved); a frame a consumer takes out is decoded by `Payload`;
`Ingest` has the tables that decide which consumers `FanOut` serves, over sessions
that are `Session` reduced to down, up and done.

Definitions marked *Mutant* in a comment are plausible mistakes in the definition
that follows them. They are in no specification; substituting one must make the
property PROJECT.json names fail.

### FrameQueue

A critical section of the mutex is one step. A thread is at the mutex (`lock`), in
`Wait` (`wait`), outside (`idle`, `work`) or has left (`gone`). `Signal(T, g)`
nondeterministically moves one waiter of `T` to the mutex, where it runs the loop
body again, exactly like a thread that has just called: that is how overtaking
arises. DropOldest drops and inserts in one step because the Go loop keeps the
mutex. A frame in this module has one owner, so a release frees it; shared frames
are FanOut's subject.

### FanOut

One step per queue operation, release or lock operation. `Route` takes the read lock
(`rpc` = share or copy), sets the count (shared) and lists the consumers still to
serve in `todo`; `ShareStep`, `CopyFrame` and `CopyStep` are turns of the loops,
`RouteReturn` unlocks. A blocked push is a `ShareStep` that is not enabled.
`pending` is the one writer waiting at the lock: while it waits no reader enters, as
`sync.RWMutex` has it. Other writers wait outside the model, which does not change
what readers see. `Release` is atomic: the recycling that follows the decrement to
zero touches a frame nobody owns. `Frames` are the frame objects; an empty pool makes
`Read` wait where Go would allocate, so the number of frames bounds the state and
nothing is asked of `Read`. `ftopic` is what a frame contains, as far as the
properties see it. A consumer's thread may end early (`runConsumer` returns after a
failed write without closing its queue) if its policy is in `FailPolicies`.

### Session

Every load, store and channel operation on shared state is a step. `writer.Enqueue`
is a small procedure run by a thread (the session's goroutine `Run`, or the caller of
a topic): check the flag, send, or fail by policy. `pc` follows `session.run` line by
line: set the two flags, OnConnect, copy the desired topics, one SUB each, serve,
clear the two flags, drain, close, sleep. In `runSession` the select is
nondeterministic. The exchange is external: it forgets everything when the connection
closes and, with `opt.auth`, ignores a SUB that comes before AUTH. A topic is
used by one caller at a time: `Usecase` gives every registration an id of its own.
`Subscribe` adds the topic and starts the session in one step: the session's first
step may come arbitrarily later, so a delayed start adds nothing, except after the
context has ended (see the hazard at session.go:58). An emptied session is
detached from the manager and never picked again. Encoding errors are left to
Ingest, since only the codec's registry can cause them. `opt` is the manager's Option
(queue size, overflow policy, is there an AUTH, are there pings) together with a bound
on failures; a run considers a set of options. `Eventual`, the topics the exchange will
have once it has read the queue, is a set and not a fold over the queue: a topic is in it
if its last SUB that will be heeded (`Heeded`: AUTH came before) has no UNSUB behind it, or
if it is subscribed now and no UNSUB is queued. The lemma `EventualWrite` of SessionProofs
shows that writing the queue's head leaves it unchanged, as it must.

### Ingest

A client connection is `handleConn`: it subscribes key after key, and at its end
unsubscribes them all. `pc` follows `Usecase.Subscribe` (`ensure`, `msubscribe`, `send`,
`check`, `attach`, `count`) and `Unsubscribe` (`rcheck`, `detach`, `drop`, `unregister`,
`munsubscribe`). A label is a critical section of one of the four locks, or what follows one
without a lock (`start`, behind `Manager.Subscribe`'s section; `send`). `ensureTopic` keeps
`group.mu` over several of them, which `glock` says. One label is more: `munsubscribe` is the section
of `Manager.Unsubscribe` (manager.go:230-242) together with `RemoveTopic` (244), the UNSUB (246) and the
stop of an emptied session (249-251), which come behind it. After the section no table of
the manager names the topic, its id is never used again, and an emptied session is neither listed nor
picked. An AddConsumer or a start by `Run`'s loop that comes in between has the same outcome before
the section. One interleaving is lost: a session that was down connects in between without
any topic, and because the UNSUB then cannot be encoded (usecase.go:156 came first) it is not stopped. It
is then connected, unlisted and empty, which is how every session ends whose last UNSUB failed
(`StreamsNeverRetracted`).

`Manager.Run` is a section too: it sets the context and copies the sessions (`ManagerRun`,
`snapshot`); its loop starts them one at a time after the lock is gone (`RunStarts`). A session of
the copy may meanwhile have been started by a Subscribe, emptied, unlisted, and ended; the loop
starts it again. `closes` counts how often a session has closed its `done` channel; the second time
is the panic (`Panicked`), and nothing runs any more. That a session's end closes the consumers'
queues, or that a connection's Close does, changes none of these tables and is left out.

`lookup` is what
`DecodeTopic` consults: per kind and market for BTCC, per symbol for Binance, where the
depth and the order stream of a symbol share one entry (the name in `"e"` is never a
stream name, so `streamLookup` never matches). A key's topic id is new for every
registration, as in the code; ids of connections' AUTH are left out.

A session connects if every desired topic can be encoded. `SendFails` is
`session.subscribe` finding the writer's queue full or the writer not connected, which
Session shows to be possible while `connected` is set. `pickSessionLocked` takes the
first session with room; the model takes any, because the list's order depends on
earlier removals.

`contested` is history and not code: the keys about which a Subscribe and an
Unsubscribe have overlapped, or whose lookup entry was taken by another topic. It
makes `ServedExactly` precise: outside of it nothing goes wrong, and `ingest_race`
shows what happens inside. `readRequest` decodes an empty buffer and never reads
from the connection at this commit; the model takes a request to be any request. The
end of the context (`ErrNotRunning`, a second Run) is not part of the module.

### WsConn

Up to `MaxConns` connections are dialled one after the other by the session's
goroutine; each has a reader of its own, which may outlive its connection and shares
`frameSize` with the next one. That variable is written without a lock: `Grow` compares
and `StoreSize` stores, as two steps. A peer's frame is chosen when its header is read;
`owed` is the payload still in the stream, and a header read while bytes are owed is a
header out of step (`lost`), which may say anything. A payload is a sequence of copies of
its frame's number, so that the content of a delivered message identifies the frames it
was made of; `Reassemble` is the reference. `writeFrame` is four steps (lock, header,
payload, unlock with the last write), taken by the reader for pongs and by the session for
frames and Close. A write fails when the socket is not open. Pong and close frames are written without
the session's context; a queued frame whose write fails at its header because that context is done
(dialer.go:326, 437-443) is covered by `Stopped` before the frame is taken, since in both cases nothing of it is
written and the connection is closed. `Stopped` likewise stands for a context that ends in
any other state of `session.run` than serving, where no reader exists. `make` panics beyond `MaxAlloc`.

With the default buckets (16, 256, 4096, 65536, 2^32, 2^63-1) a message of more than 64 KiB
asks for 4 GiB, and the last bucket cannot be allocated: `ErrFrameTooLarge`
(session.go:297) is never returned on a 64-bit machine. `SmallBuckets` has both cases: a
bucket far above the others, and one beyond `MaxAlloc`.

### Payload

A payload is a sequence of tokens: punctuation, spaces, quoted strings, bare words; only
numbers are spelled out, character by character, because `parseDecimal` works on them, and
because a payload may be cut off inside one; one cut off inside a string ends in a string without
its closing quote (`Open`). Each scanner is the set of places it would stop at, and the first of them. Both packages
have the same decimal functions; `MaxInt` is `maxInt64`, small in the run, and sums wrap in
two's complement exactly where the code does not check them. `RunConsumer` is one
frame in `runConsumer`: its switch (main.go:263-271) has a case for Binance only, every other platform's
frame is released undecoded. `CallBtcc` is a direct call of `btcc.DecodeMarketDataPayload`, which is
exported and has no caller at this commit. The properties compare the result with the document
the payload was made of; no string value of the documents is spelled like a key, as the
exchanges' own are not (a client order id could be: `indexOfFrom` would take it for the key). Escaped
quotes are left out (the scanners know none, and the exchanges' numbers and enumerations
have none), and times are in units of which `Milli` make a millisecond.

### Order

`Handle` tries the channel; a worker's select may take a request or the end of the
context, whichever. `Send` is split at the HTTP exchange: the request is with the
exchange (`net`), which executes or refuses it at any time, and answers with an id or an error code
according to what it did (an exchange that answers an executed order with an error code is
not considered: no client could tell); Do may give up at any moment
(the 15 seconds, a broken connection, the context). `resp` is what Send returned, which
the worker at this commit drops. A panic stops everything.

## 3. Runs

| Run | Shows |
|---|---|
| `frame_queue` | `RingInv`: indices and slots agree across every wrap. `FramesConserved`: each frame is in one place. `NoLostWakeup`: while someone sleeps, each frame or free slot has an awake taker. `ImplementsBoundedQueue`: refinement. `QueuedFrameLeaves`, `CloseReleasesThreads`: liveness |
| `fan_out_safety` | `RefCountExact`, `OwnedOnce`, `OwnedFrameIntact` (no reset under an owner), `DeliveredOnlyToRegistered` (nothing arrives after a removal has returned), `ImplementsConsumerQueue` (what a consumer sees of the router, the read loops, the pool and the other consumers is the bounded FIFO that `FrameQueue` implements) |
| `fan_out_live` | `RouteReturns`: a read loop comes back from Route, also one kept out by a writer that waits behind another loop's blocking push. `ControlReturns`: so does the writer |
| `session_safety` | `NoMissedSubscription` |
| `session_live` | `EventuallySubscribed` with a roomy queue; `CancelEnds` with that queue and with the policies that never wait |
| `session_block` | **violated**: `CancelEnds` with OverflowBlock |
| `session_zombie` | **violated**: `NoZombieSubscription` |
| `ingest_safety` | `ServedExactly`: a connection gets the updates of exactly its streams, unless calls about them overlapped. `TopicBacked`, `LookupHome`, `SessionsBalanced`: the four tables agree, at every step. `RestartedByRunOnly`: a session is started after its end (its `done` is then closed twice) only by `Run`'s loop, and only one that others have started and emptied since it was copied. `PoisonedForGood`, `StreamsNeverRetracted`: what the code's error path and order of calls leave behind |
| `ingest_race` | **violated**: `SubscribedIsAttached` |
| `ws_conn` | `MessagesIntact`: the messages handed on are the reassembled ones. `InStep`: only an over-long frame puts the reader out of step. `OutboundWhole`: frames are not interleaved. `NeverTooSmall`: a message is given up only if no bucket holds it. `ReadersEnd`: no reader is left behind |
| `payload` | `OrderFaithful`: an order's fields are the document's or missing, but for a bare number the cut goes through. `DepthFaithful`: the levels `runConsumer` decodes are the first of those sent |
| `order` | `ReportTrue`: a response says no more than is known, unless Do gave up. `AcceptedIsAnswered`: every accepted request is answered, unless the service stops or panics first |

Bounds, and why they are enough to be interesting:

* `frame_queue`: capacity 2 (the ring wraps, and "one signal for two frames" can
  happen), 2 consumers, 3 producers and 4 frames, so two producers can wait for room
  at once; all policies.
* `fan_out_safety`: 2 read loops, 2 consumers, 3 frames, capacity 1, one topic, both
  modes, every assignment of policies. A shared frame can be owed to one consumer
  while the other uses it, two deliveries overlap on one queue, and copies compete
  with originals. One topic suffices since topics meet only in the lock and the pool.
  One consumer is `Chosen` for the refinement, so symmetry is over the others. No thread
  returns early here, as one that does might be one that is slow, to a safety property;
  `fan_out_live` has threads that do.
* `fan_out_live`: 2 read loops, one consumer, shared mode, 3 frames, no symmetry (liveness): a
  frame in the full queue, one whose loop waits for room with the read lock, and one whose loop
  waits behind the writer that waits for that lock. With two consumers the graph (5 million
  states) is out of reach of the liveness check; `fan_out_safety` has them. Copy
  mode is not included: it takes frames inside Route, so that a bounded pool would
  block where the program allocates.
* `session_*`: 2 topics; `MaxCalls` Subscribe calls per topic, `opt.faults` failed
  dials and broken links. `session_safety` has a queue of 2 and up to 2 calls per
  topic, so that stale frames, a full queue and a second connection meet.
  `session_live` considers a queue of 6, which holds the 2 SUBs of resubscribe and the
  SUB and UNSUB of each caller (what the default size of 1024 is meant for), and
  queues of 1 with DropNewest and DropOldest, AUTH and pings.
* `ingest_safety`: 3 connections on one symbol, both kinds of streams, both exchanges,
  3 topic ids, 2 topics per session, 2 failures, one Subscribe call per connection.
  The third connection is what lets a new registration meet an old one's removal while
  another subscriber stays; with 3 ids and 2 topics per session a second session
  appears. `ingest_race` needs 2 connections and no failure.
* `ws_conn`: 2 connections, 3 headers, buckets 1, 2, 4, 9 given unsorted with a
  duplicate and a zero, 9 beyond `MaxAlloc`; frames of 0 to 5 bytes, fragments, ping, pong,
  close; one write of the session and one failure. Three headers are a fragmented
  message with a control frame inside, grown over two buckets.
* `payload`: about 13,700 inputs: 4 kinds of sides twice over, keys in both spellings, with
  and without spaces; quantities of up to 3 characters out of `-`, `.`, 0, 1, 9, and `-1.9`, and 8
  sorts of fills, at `MaxInt` = 18, so that every check and the unchecked sum overflow and a sum
  meets the smallest number there is (-19). Depth messages, and orders with eight different
  quantities, are also cut off everywhere: between tokens, inside strings and inside numbers. Ids and
  times have two digits, so that a cut leaves another number; the times BTCC decodes lie on both
  sides of the limit between seconds and milliseconds.
* `order`: 2 workers, a queue of 2, 3 calls of 4 sorts of requests: the queue is full
  while a worker waits for an answer.

Deadlock is checked for FrameQueue and FanOut (read loops never end). It is off for
the others, whose behaviours end: the session or its connections are over, the clients
gone and the calls used up, the payload decoded.

### Fairness

* FrameQueue: weak fairness of each Push and Pop (`sync.Mutex` prevents starvation)
  and of the consumer finishing its frame; none for new frames or Close.
* FanOut: weak fairness of the waiting writer and of live consumer threads; strong
  fairness of a read loop inside Route, because `RWMutex.Unlock` admits the readers
  that waited before the next writer can get in. Nothing obliges messages, calls, or
  Close to come. A consumer whose queue blocks must keep running: with OverflowBlock
  and a thread that is gone, Route waits until Close, by that policy's definition.
* Session: weak fairness of the goroutine and of calls that have begun (Dial, Write
  and the timer return); strong fairness of Write and Done, because select picks at
  random among the ready cases. None for calls, cancellation or faults.
* WsConn: weak fairness of the process as a whole (some goroutine that can run does).
  Nothing obliges the peer to send; that what is written is taken is assumed.
* Order: weak fairness of each worker; the timeout of `client.Do` is what keeps `DoFails`
  enabled while it waits. None for Handle, Run, Stop or the exchange.
* Ingest and Payload state safety only.

### Findings

* **session_block.** `resubscribe` fills the outbound queue before its only reader
  starts, and pings go into it from that reader. With OverflowBlock, the default,
  and a full queue the goroutine waits for itself; the send looks at no context, so
  `Manager.Run` does not return although "Run starts the connection lifecycle and
  blocks until ctx is done" (manager.go:159). The default queue makes it unlikely,
  not impossible: callers may fill it while the connection is being set up.
* **session_zombie.** A topic unsubscribed between resubscribe's copy
  (session.go:163) and its SUB (session.go:171) has its UNSUB queued first and stays
  subscribed, against "Unsubscribe removes a subscription by topic id"
  (manager.go:225).
* **ingest_race.** Between ensureTopic (usecase.go:101) and `refCount++` (110) the last
  other consumer may remove the topic; Subscribe returns nil and its consumer gets
  nothing, against "Subscribe registers a topic and attaches the consumer to receive
  frames" (usecase.go:84).
* **PoisonedForGood.** A Subscribe that fails in `manager.Subscribe` (usecase.go:337) leaves
  its topic desired but not encodable: the session cannot resubscribe any more, and
  all of its topics are off from the next reconnection on.
* **StreamsNeverRetracted.** Unregister before `manager.Unsubscribe` (usecase.go:156) makes
  the UNSUB impossible to encode: it is never sent, and an emptied session is not
  stopped while it is connected.
* **RestartedByRunOnly.** `Manager.Run` starts its copy of the sessions after it has given its
  lock back (manager.go:171-176). A session that a Subscribe starts before the loop does, and that
  is emptied and ends before the loop comes to it, is started a second time, and closes `done`
  twice (session.go:58). The property says that this is the only way.
* **Binance lookups.** The depth and the order topic of a symbol share one entry of
  `symbolLookup` (binance/codec.go:98); the later registration takes both streams' updates,
  and unregistering either ends both. `ServedExactly` excepts exactly these keys.
* **InStep.** A frame longer than `maxPayloadLen` is reported as a buffer that is too small
  (dialer.go:286), and the read loop goes on in the middle of the stream.
* **DepthFaithful.** `btcc.DecodeMarketDataPayload` decodes no depth message: `scanNextValue` stops at
  the comma between price and quantity (btcc/payload.go:265). The property's last conjunct states it.
* **BTCC updates.** `runConsumer` would not call it anyway: every frame of a BTCC group is released
  undecoded (main.go:268-270, `RunConsumer`), so a client's Subscribe of a BTCC topic succeeds and no update ever
  reaches it.
* **OrderFaithful.** `parseDecimal` does not check the last sum (binance/payload.go:403), and
  `decimalSub` answers 0 when the scales do not fit (417-423). The property holds with
  these exceptions only, and one for payloads that are cut off: of a bare number that the cut goes
  through the remaining digits are taken for the number, and the order has another id or time.
* **ReportTrue.** A request that timed out is "order: request did not send", although it may
  be executed (delegator.go:180).

Seen while modelling, without a property: the delegator sends time in force as 0, 8, 16
(btccTimeInForce) while the decoder expects 1, 2, 3 (mapBtccTimeInForce), so a BTCC order's
own update never shows it; an unknown order side is sent as BUY (delegator.go:86); the
workers drop what Send returns (order/usecase.go:83), while order/doc.go promises "results of
external APIs to WAL"; `wsConn.Read` accepts a new text frame inside a fragmented message,
which `WellFormed` excludes from `MessagesIntact`.

## 4. Proofs

Eight modules hold the proofs, one per component and one more for `MessagesIntact`. Every safety
property that a run checks is also a theorem for all values of the constants, except the two of
Payload, whose arithmetic is proved and whose scanners are checked; PROJECT.json lists them all under "theorems". Each inductive invariant was
checked by TLC on the run's instance before it was proved. A theorem
rests on the named ASSUME of its module and on nothing else; TLC evaluates those on
every run.

| Module | Theorems (property) |
|---|---|
| `FrameQueueProofs` | `TypeCorrect` (TypeOK), `RingCorrect` (RingInv), `Conservation` (FramesConserved), `Wakeups` (NoLostWakeup), `Refinement` (ImplementsBoundedQueue) |
| `FanOutProofs` | `TypeCorrect` (TypeOK), `RefCounting` (RefCountExact), `SingleOwnership` (OwnedOnce), `FramesIntact` (OwnedFrameIntact), `OnlyRegistered` (DeliveredOnlyToRegistered), `ConsumerQueueRefined` (ImplementsConsumerQueue) |
| `SessionProofs` | `TypeCorrect` (TypeOK), `NeverForgotten` (NoMissedSubscription) |
| `IngestProofs` | `TypeCorrect` (TypeOK), `SessionTables` (SessionsBalanced), `TopicsBacked` (TopicBacked), `LookupsHome` (LookupHome), `OnlyRunRestarts` (RestartedByRunOnly), `NeverRetracted` (StreamsNeverRetracted), `StaysPoisoned` (PoisonedForGood), `ServedAsSubscribed` (ServedExactly) |
| `WsConnProofs` | `TypeCorrect` (TypeOK), `ReadersInStep` (InStep), `GivenUpOnlyIfTooLarge` (NeverTooSmall), `FramesWhole` (OutboundWhole) |
| `WsMessagesProofs` | `MessagesAreIntact` (MessagesIntact) |
| `PayloadProofs` | `DecimalsAreFaithful` (DecimalFaithful, the part of OrderFaithful and DepthFaithful about numbers), `RepresentableIsParsed`, `LeftIsExact` (LeftFaithful) |
| `OrderProofs` | `TypeCorrect` (TypeOK), `ReportsAreTrue` (ReportTrue), `ServedOnce` (InOnePlace, the invariant's core) |

### FrameQueue

Any capacity of at least 1, any producers, consumers and frames, every policy. The
invariant is `TypeOK /\ RingLinear /\ OnePlace /\ InHand /\ NoLostWakeup`. `RingInv` speaks of
remainders, which the solver does not handle well; `RingLinear` says the same with
the case distinction that a remainder is within two laps (`Place`, `Offset`), and
`RingArithmetic` proves once that the two agree. `OnePlace` and `InHand` say that no frame
is in two slots, and who has the others; `FramesConserved` follows. `NoLostWakeup` is
inductive by itself: it counts no signals, it relates the sleepers to the awake threads.
The refinement maps the ring to the sequence of its slots from `head` on; an Init lemma and one
lemma per action show which abstract action, or stutter, each step is.

### FanOut

Any read loops, consumers, topics, frames, capacity, mode and policies. The assumptions:
capacity at least 1, finite disjoint sets of threads (finite because `Cardinality` of the
owners is what the count is compared with), `None` outside the frames and topics, modes and
policies among the known ones.

The invariant is `TypeOK /\ OwnedOnce /\ RefCountExact`. None of its parts is inductive
alone. The count changes by one per step, so RefCountExact needs to know that the step
adds or removes exactly one owner, which is OwnedOnce: a consumer listed twice, or owed a
frame it already queues, would be one owner for two references. OwnedOnce in turn needs
RefCountExact: a frame taken from the pool has no owner only because the pool holds
exactly the frames whose count is zero. The last conjunct of OwnedOnce (a frame that a read
loop owns has no other owner) is what lets `SharedRef` overwrite the count instead of adding
to it. Three lemmas carry the counting: `ExactKept` (owners unchanged), `ExactReleased` (one
owner gone) and `ExactNew` (a pooled frame gets its first owner).

`FramesIntact` follows from the same invariant: a frame's content changes only when it leaves
the pool or its count drops to zero, so it has no owner before or none after. `OnlyRegistered`
needs `Listed` in addition: while a read loop holds the lock, the consumers it has yet to
serve are in its topic's list, and a copy has its original's topic.

`ConsumerQueueRefined` is for any consumer, `Chosen`. The mapping gives each read loop the frame
it has yet to offer that consumer: the shared one from Route until its turn has come, or the
copy made for it; free is whatever is on none of the consumer's hands. Lemmas for the kinds of
steps (`RouteOffers`, `CopyOffers`, `TurnDelivers`, `NextFrameGets`, `UsedIsDone`, `CloseCloses`, and those
that change nothing for the consumer) show which abstract action each is; `OwnedOnce` is what makes a
new frame a free one, since a frame a read loop has taken from the pool is on nobody's hands.
With `Refinement` of `FrameQueueProofs` this closes the chain: ring, FIFO, fan-out.

### Session

Any topics, options and numbers of calls and faults. `NeverForgotten` is
`NoMissedSubscription` for the policies other than DropOldest. The hypothesis is needed: DropOldest
discards a queued SUB or the AUTH to make room, and then the topic is missed by that policy's
definition; the run `session_safety` leaves that policy out for the same reason.

The invariant follows a topic and the AUTH through the code: `Shapes` (what each thread is
enqueuing, from the phase it is in; a topic is desired from Subscribe's critical section to
Unsubscribe's; the flag is up from before the copy until runSession returns), `AuthFirst`
(from a successful OnConnect the AUTH is in the queue or has arrived) and `Kept`: from
the copy of the desired topics on, a topic whose caller has been, or is about to be, told
nil is still to be sent by resubscribe, or is in `Eventual`. `NoMissedSubscription` alone says
nothing before `run`, so it is not inductive: what makes it true is that a caller who finds
the flag down was desired before the copy was taken, and one who finds it up enqueues the SUB
itself.

### Ingest

Any finite set of connections (finite because `refCount` is compared with a cardinality), with
`"nobody"`, the value of the free lock, not among them; any kinds, markets, ids, calls, faults and
limits. The invariant of the tables is `TypeOK /\ Tables /\ InCalls`: the three
table properties together with what each label of a call implies: who makes a topic holds `group.mu` and is the only
one to know its id (`NewTopics`), who removes one is past the group's table (`OldTopics`), an id not yet handed out
is unknown everywhere (`FreshIds`). `Backed` topics survive another connection's removal only
because of the order `drop`, `unregister`, `munsubscribe`. `OnlyRunRestarts` needs that a session
to be started (`Start`) either has a topic on it that its caller has just put there, or is one of
Run's copy. The first has not ended (a session ends only after its last topic went, and gets
none again), which leaves the copy (`StartSessions`).

`ServedExactly` rests on a second invariant, `Serving`, proved relative to the first: outside of
`contested`, no Subscribe and Unsubscribe of a key are under way together, a call is about the
topic its key has now, a connection is attached exactly if it has the subscription or is
at the labels in between, and `refCount` is the number of such connections, so that the
last one, and only the last one, removes the topic.

### WsConn

Any bucket sizes of which one is positive, any frames, any numbers of dials, headers, writes and
faults. `normalizeBucketSizes` is defined as the increasing enumeration of the positive sizes;
`SortedExists` proves that there is one, by a least counterexample among the finite sets.

The invariant has two halves. `Reading`: the buffer of a Read is a bucket and holds what was
read (`Fits`); a message is pending only between the Read that could not hold it and the one
that can (`PendingAt`); bytes are owed only while their frame is being read or pending, until an
over-long frame comes (`OwedAt`); the buffer grows only for a message larger than it, and a
size beyond `MaxAlloc` is stored only when no other bucket holds that message
(`Growing`, `SizeNeeded`). The last is what makes the unlocked `frameSize` harmless for
`NeverTooSmall`: a reader may find it raised or lowered by another, but
never beyond `MaxAlloc` without a message that needs it, and such a message stays pending
(`BeyondStays`). `Writing`, relative to `Reading`: the mutex is held exactly from a frame's first write to
its last (`Exclusive`), each side has one call at a time (`Callers`), a header without its payload is the last thing
written and its writer holds the mutex (`HalfWritten`), and a pong's number is above those
of all pongs before it (`PongsInTurn`).

`MessagesAreIntact` needs a third invariant, `Assembly`, relative to `Reading`: for each
connection whose reader is not out of step, the frames so far amount to exactly what the
reader holds at the place it is at (`Intact`): the message begun and its bytes, that and the
frame at hand, the message about to be routed, or what is pending while a larger buffer is
fetched. `Reassemble` is a recursive function; that it has a value, and that a frame more is one `Extend`
more, is proved by a least counterexample.

### Payload

Any text over any characters and any `MaxInt` of at least 1, 2^63 - 1 among them.
`parseDecimal`'s loop and the reference `Number` are recursive functions over the text.
`Turns` proves that the states of a loop can be listed, `ScannedIs` and `NumberIs` that the two
functions are such lists, and `EveryTurn` is induction over the turns: both rest on `LeastOf` (a
set of numbers that is not empty has a least element), from `WFMin` of the library. The
invariant of the loop, turn by turn: the integer part, shifted by the scale, and the fraction
make the number of the digits read, the fraction being below the power (`PartsMake`); a dot has
been read exactly if `dot` says so (`DotSeen`); the scale counts the characters behind it
(`ScaleIs`); a loop that goes on has read a well-formed text (`OkIsWellFormed`), and it goes
on through any whose number and scale fit (`WellFormedIsOk`, which needs that neither ever
shrinks, `ReadingOn`). Behind the loop, the checked product and the fraction below the power
leave at most twice `maxInt64`, so the value wraps once at most (`WrappedOnce`). The sign is
applied after the wrap: a sum of `maxInt64` + 1 with a minus in front comes out exact. The first
statement of the property called that value out of range; the proof did not go through
and the run, with `-1.9`, confirmed it.

### Order

Any workers, calls and queue length. The invariant is `TypeOK /\ Shapes /\ InOnePlace /\ Progress
/\ ReportTrue`: a response is true because the worker that writes it is the only one at
that call (`InOnePlace`) and because the exchange's state for a call at `decode` is final
(`Progress`).

### Only model-checked

* All liveness (`QueuedFrameLeaves`, `CloseReleasesThreads`, `RouteReturns`, `ControlReturns`,
  `EventuallySubscribed`, `CancelEnds`, `ReadersEnd`, `AcceptedIsAnswered`): the prover handles neither
  fairness nor ENABLED.
* `OrderFaithful` and `DepthFaithful` as a whole: what the scanners find in a payload depends on how the
  exchanges lay it out, which only the run's documents say. What becomes of the texts they find is proved.
* Induction over data can be proved here only in the form used above: about one recursive
  function at a time, by the least turn that breaks a claim. The library's induction theorems take
  an operator as a parameter, which the provers cannot instantiate. `Depth`'s rows (`ScanRows`), a recursive
  function whose turns depend on the scanners, are left to the run.
* The three violated properties are counterexamples and need no proof.

## 5. Plan

Done: all modules above, and the proofs of section 4. No module that is proved about, or that
such a module uses, declares a RECURSIVE operator.

What could follow: the scanners as theorems, for payloads described by a grammar; `ScanRows`
(each row is a row sent); a second Run of a manager and the uds package, which are not modelled.

## 6. Not modelled

Retain, writer.Next, EnsureSize, Manager.Send and the outbound frame API (no callers);
Len and other reads; `subscriptions.active` (never read); bufferPool.Put (memory only);
encodeControl's choice of a buffer; masking, TLS and the fields of the HTTP upgrade; the
auth topic of the codecs and its acknowledgement; `libs/shared/scanner`, whose loops are
those of Payload's scanners; Backoff's delays (floating point, random); the encoding
of decoded records and the response header (`writeResponse`); a Run that returns and
is called again; the uds package, which is socket calls; the generated `*_codable.go`
files; memory statistics, the database connection string and the code generator; the
empty core, risk and wal services; the example programs and the test client.

## 7. Running

    tlc -workers 2 -config FanOut_safety.cfg MCFanOut
    tlc -workers 2 -config Ingest_safety.cfg MCIngest
    tlapm FanOutProofs.tla
    tlapm PayloadProofs.tla
