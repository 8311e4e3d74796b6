------------------------------- MODULE Session -------------------------------
(***************************************************************************)
(* One connection of the manager: session.run with its reconnection loop   *)
(* (session.go), the outbound queue it reads (writer.go), the set of       *)
(* desired topics (subscriptions.go) and the callers of Manager.Subscribe  *)
(* and Manager.Unsubscribe (manager.go), one thread per topic.             *)
(*                                                                         *)
(* The two connected flags, the queue and the desired set are shared       *)
(* without a common lock, so every load, store and channel operation is a  *)
(* step of its own.  The exchange is seen through the messages written to  *)
(* the connection: subscriptions live as long as the connection, and when  *)
(* opt.auth they count only after the AUTH message OnConnect sends.        *)
(*                                                                         *)
(* subscriptions.active is not modelled: nothing reads it.                 *)
(***************************************************************************)
EXTENDS Integers, Sequences, FiniteSets

CONSTANTS Topics,      \* topics that may be put on this session
          Run,         \* the session's own goroutine
          Options,     \* the values of the manager's Option considered
          MaxCalls     \* bound: Subscribe calls per topic

\* WriteQueueSize, WriteOverflow, does OnConnect send AUTH, PingInterval > 0; and
\* a bound: the failed dials and broken connections considered with them.
OptionSet == [size : Nat \ {0}, policy : {"Block", "DropNewest", "DropOldest"},
              auth : BOOLEAN, ping : BOOLEAN, faults : Nat]

ASSUME SessionAssumption == /\ Options \subseteq OptionSet
                            /\ Run \notin Topics
                            /\ MaxCalls \in Nat

VARIABLES pc,         \* of session.run
          todo,       \* what resubscribe has still to send
          connected,  \* session.connected
          cancelled,  \* the session's context is done
          wconnected, \* writer.connected
          queue,      \* writer.queue
          opt,        \* session.opt
          at,         \* per thread: where it is inside writer.Enqueue
          msg,        \* per thread: the message it enqueues
          desired,    \* subscriptions.desired
          detached,   \* the manager has dropped the session from its list
          ust,        \* per topic: its caller's state
          calls,      \* per topic: Subscribe calls made
          emptied,    \* topics whose Unsubscribe found the session empty
          link,       \* the connection: none, up or broken
          srv,        \* exchange: topics subscribed on this connection
          authed,     \* exchange: AUTH received on this connection
          faults      \* failures so far

runVars == <<pc, todo, connected, cancelled>>
writerVars == <<wconnected, queue, opt, at, msg>>
userVars == <<desired, detached, ust, calls, emptied>>
linkVars == <<link, srv, authed, faults>>
vars == <<runVars, writerVars, userVars, linkVars>>

Threads == Topics \cup {Run}
SUB(t) == <<"SUB", t>>
UNSUB(t) == <<"UNSUB", t>>
AUTH == <<"AUTH">>
PING == <<"PING">>
Messages == {SUB(t) : t \in Topics} \cup {UNSUB(t) : t \in Topics} \cup {AUTH, PING}

TypeOK ==
    /\ pc \in {"off", "top", "dialed", "marked", "hello", "snapshot", "resub", "run",
               "abort", "down", "unmark", "drain", "sleep", "done"}
    /\ todo \subseteq Topics
    /\ connected \in BOOLEAN /\ cancelled \in BOOLEAN /\ wconnected \in BOOLEAN
    /\ queue \in Seq(Messages) /\ Len(queue) <= opt.size
    /\ opt \in Options
    /\ at \in [Threads -> {"idle", "check", "send", "drop", "ok", "refused"}]
    /\ msg \in [Threads -> Messages]
    /\ desired \subseteq Topics
    /\ detached \in BOOLEAN
    /\ ust \in [Topics -> {"out", "adding", "sending", "in", "failed", "removing", "retracting"}]
    /\ calls \in [Topics -> 0 .. MaxCalls]
    /\ emptied \subseteq Topics
    /\ link \in {"none", "up", "broken"}
    /\ srv \subseteq Topics
    /\ authed \in BOOLEAN
    /\ faults \in 0 .. opt.faults

\* newSession, before its first topic.
Init ==
    /\ pc = "off" /\ todo = {} /\ connected = FALSE /\ cancelled = FALSE
    /\ wconnected = FALSE /\ queue = <<>> /\ opt \in Options
    /\ at = [a \in Threads |-> "idle"] /\ msg = [a \in Threads |-> PING]
    /\ desired = {} /\ detached = FALSE
    /\ ust = [t \in Topics |-> "out"] /\ calls = [t \in Topics |-> 0] /\ emptied = {}
    /\ link = "none" /\ srv = {} /\ authed = FALSE /\ faults = 0

-----------------------------------------------------------------------------
(* writer.Enqueue, run by thread a; StartEnqueue is the call, and the      *)
(* caller goes on from "ok" or "refused" with EndEnqueue.                  *)

StartEnqueue(a, m) == /\ at[a] = "idle"
                      /\ at' = [at EXCEPT ![a] = "check"]
                      /\ msg' = [msg EXCEPT ![a] = m]
                      /\ UNCHANGED <<wconnected, queue, opt>>

EndEnqueue(a, result) == /\ at[a] = result
                         /\ at' = [at EXCEPT ![a] = "idle"]
                         /\ msg' = [msg EXCEPT ![a] = PING]
                         /\ UNCHANGED <<wconnected, queue, opt>>

\* if !w.connected.Load() { return false }
CheckConnected(a) ==
    /\ at[a] = "check"
    /\ at' = [at EXCEPT ![a] = IF wconnected THEN "send" ELSE "refused"]
    /\ UNCHANGED <<wconnected, queue, opt, msg>>

\* Mutant: one frame more than the channel holds.
SendOneMore(a) ==
    /\ at[a] = "send"
    /\ Len(queue) <= opt.size
    /\ queue' = Append(queue, msg[a])
    /\ at' = [at EXCEPT ![a] = "ok"]
    /\ UNCHANGED <<wconnected, opt, msg>>

\* w.queue <- frame
SendOnQueue(a) ==
    /\ at[a] = "send"
    /\ Len(queue) < opt.size
    /\ queue' = Append(queue, msg[a])
    /\ at' = [at EXCEPT ![a] = "ok"]
    /\ UNCHANGED <<wconnected, opt, msg>>

\* Mutant: the select has no default case, so every policy waits.
QueueFullWaits(a) == FALSE /\ UNCHANGED writerVars

\* The queue is full: OverflowBlock waits, DropNewest gives up, DropOldest
\* turns to the oldest frame.
QueueFull(a) ==
    /\ at[a] = "send"
    /\ Len(queue) >= opt.size
    /\ opt.policy # "Block"
    /\ at' = [at EXCEPT ![a] = IF opt.policy = "DropOldest" THEN "drop" ELSE "refused"]
    /\ UNCHANGED <<wconnected, queue, opt, msg>>

\* Another thread may have emptied the queue meanwhile: then false.
DropOldest(a) ==
    /\ at[a] = "drop"
    /\ queue' = IF queue = <<>> THEN queue ELSE Tail(queue)
    /\ at' = [at EXCEPT ![a] = IF queue = <<>> THEN "refused" ELSE "send"]
    /\ UNCHANGED <<wconnected, opt, msg>>

EnqueueStep(a) == /\ CheckConnected(a) \/ SendOnQueue(a) \/ QueueFull(a) \/ DropOldest(a)
                  /\ UNCHANGED <<runVars, userVars, linkVars>>

-----------------------------------------------------------------------------
(* session.run.                                                            *)

Goto(label) == pc' = label

\* Top of the loop: context done, or no topic left.
Leave == /\ pc = "top"
         /\ cancelled \/ desired = {}
         /\ Goto("done")
         /\ UNCHANGED <<todo, connected, cancelled, writerVars, userVars, linkVars>>

DialOK == /\ pc = "top"
          /\ ~cancelled /\ desired # {}
          /\ Goto("dialed")
          /\ link' = "up"
          /\ UNCHANGED <<todo, connected, cancelled, writerVars, userVars, srv, authed, faults>>

DialFails == /\ pc = "top"
             /\ ~cancelled /\ desired # {}
             /\ faults < opt.faults
             /\ faults' = faults + 1
             /\ Goto("sleep")
             /\ UNCHANGED <<todo, connected, cancelled, writerVars, userVars, link, srv, authed>>

\* Mutant: the flag Subscribe looks at is not set.
MarkNothing == /\ pc = "dialed"
               /\ Goto("marked")
               /\ UNCHANGED <<todo, connected, cancelled, writerVars, userVars, linkVars>>

\* s.connected.Store(true)
MarkConnected == /\ pc = "dialed"
                 /\ connected' = TRUE
                 /\ Goto("marked")
                 /\ UNCHANGED <<todo, cancelled, writerVars, userVars, linkVars>>

\* s.writer.SetConnected(true)
MarkWriter == /\ pc = "marked"
              /\ wconnected' = TRUE
              /\ Goto("hello")
              /\ UNCHANGED <<todo, connected, cancelled, queue, opt, at, msg, userVars, linkVars>>

\* OnConnect sends AUTH; an error aborts the connection.
OnConnect ==
    /\ pc = "hello"
    /\ \/ ~opt.auth /\ Goto("snapshot") /\ UNCHANGED writerVars
       \/ opt.auth /\ StartEnqueue(Run, AUTH) /\ UNCHANGED pc
       \/ EndEnqueue(Run, "ok") /\ Goto("snapshot")
       \/ EndEnqueue(Run, "refused") /\ Goto("abort")
    /\ UNCHANGED <<todo, connected, cancelled, userVars, linkVars>>

\* Mutant: nothing is subscribed again on a new connection.
SnapshotNothing == /\ pc = "snapshot"
                   /\ todo' = {}
                   /\ Goto("resub")
                   /\ UNCHANGED <<connected, cancelled, writerVars, userVars, linkVars>>

\* resubscribe: desired is copied under its lock.
Snapshot == /\ pc = "snapshot"
            /\ todo' = desired
            /\ Goto("resub")
            /\ UNCHANGED <<connected, cancelled, writerVars, userVars, linkVars>>

\* resubscribe: one SUB per topic of the copy, in any order.
Resubscribe ==
    /\ pc = "resub"
    /\ \/ /\ todo = {} /\ Goto("run")
          /\ UNCHANGED <<todo, writerVars>>
       \/ /\ \E t \in todo : StartEnqueue(Run, SUB(t))
          /\ UNCHANGED <<pc, todo>>
       \/ /\ EndEnqueue(Run, "ok")
          /\ todo' = todo \ {msg[Run][2]}
          /\ UNCHANGED pc
       \/ /\ EndEnqueue(Run, "refused")
          /\ Goto("abort")
          /\ UNCHANGED todo
    /\ UNCHANGED <<connected, cancelled, userVars, linkVars>>

\* What the exchange makes of a message.
Received(s, m) == [subs |-> CASE m[1] = "SUB" /\ (s.authed \/ ~opt.auth) -> s.subs \cup {m[2]}
                              [] m[1] = "UNSUB" -> s.subs \ {m[2]}
                              [] OTHER -> s.subs,
                   authed |-> s.authed \/ m[1] = "AUTH"]

Exchange == [subs |-> srv, authed |-> authed]

\* runSession: a frame is written.  A broken connection swallows it, or fails.
Write ==
    /\ pc = "run"
    /\ at[Run] = "idle"
    /\ queue # <<>>
    /\ queue' = Tail(queue)
    /\ \/ /\ link = "up"
          /\ LET s == Received(Exchange, Head(queue))
             IN srv' = s.subs /\ authed' = s.authed
          /\ UNCHANGED pc
       \/ /\ link = "broken"
          /\ UNCHANGED <<srv, authed>>
          /\ UNCHANGED pc \/ Goto("down")
    /\ UNCHANGED <<todo, connected, cancelled, wconnected, opt, at, msg, userVars, link, faults>>

\* runSession: the ticker fires and Send queues a PING, whatever comes of it.
Ping ==
    /\ pc = "run"
    /\ \/ opt.ping /\ StartEnqueue(Run, PING)
       \/ EndEnqueue(Run, "ok")
       \/ EndEnqueue(Run, "refused")
    /\ UNCHANGED <<runVars, userVars, linkVars>>

\* runSession: the read loop reported an error.
ReadError == /\ pc = "run"
             /\ at[Run] = "idle"
             /\ link = "broken"
             /\ Goto("down")
             /\ UNCHANGED <<todo, connected, cancelled, writerVars, userVars, linkVars>>

\* runSession: ctx.Done.
Done == /\ pc = "run"
        /\ at[Run] = "idle"
        /\ cancelled
        /\ Goto("down")
        /\ UNCHANGED <<todo, connected, cancelled, writerVars, userVars, linkVars>>

\* conn.Close: the exchange forgets the connection.
Hangup == link' = "none" /\ srv' = {} /\ authed' = FALSE

\* OnConnect or resubscribe failed: the connection is closed first.
Abort == /\ pc = "abort"
         /\ Hangup
         /\ todo' = {}
         /\ Goto("down")
         /\ UNCHANGED <<connected, cancelled, writerVars, userVars, faults>>

Unmark == \/ /\ pc = "down"
             /\ connected' = FALSE
             /\ Goto("unmark")
             /\ UNCHANGED <<todo, cancelled, writerVars, userVars, linkVars>>
          \/ /\ pc = "unmark"
             /\ wconnected' = FALSE
             /\ Goto("drain")
             /\ UNCHANGED <<todo, connected, cancelled, queue, opt, at, msg, userVars, linkVars>>

\* writer.Drain, frame by frame, then the connection is closed.
Drain ==
    /\ pc = "drain"
    /\ \/ /\ queue # <<>>
          /\ queue' = Tail(queue)
          /\ UNCHANGED <<pc, link, srv, authed>>
       \/ /\ queue = <<>>
          /\ Hangup
          /\ Goto(IF cancelled /\ link # "none" THEN "done" ELSE "sleep")
          /\ UNCHANGED queue
    /\ UNCHANGED <<todo, connected, cancelled, wconnected, opt, at, msg, userVars, faults>>

\* sleepBackoff ends, by its timer or by the context.
Sleep == /\ pc = "sleep"
         /\ Goto("top")
         /\ UNCHANGED <<todo, connected, cancelled, writerVars, userVars, linkVars>>

RunStep == \/ Leave \/ DialOK \/ DialFails \/ MarkConnected \/ MarkWriter \/ OnConnect
           \/ Snapshot \/ Resubscribe \/ Write \/ Ping \/ ReadError \/ Done \/ Abort
           \/ Unmark \/ Drain \/ Sleep \/ EnqueueStep(Run)

-----------------------------------------------------------------------------
(* Manager.Subscribe and Manager.Unsubscribe for topic t.                  *)

\* Under m.mu: the topic becomes desired; the session is started if need be.
\* A session that was emptied is not picked again.
Subscribe(t) ==
    /\ ust[t] = "out"
    /\ ~detached /\ ~cancelled
    /\ calls[t] < MaxCalls
    /\ calls' = [calls EXCEPT ![t] = @ + 1]
    /\ desired' = desired \cup {t}
    /\ ust' = [ust EXCEPT ![t] = "adding"]
    /\ pc' = IF pc = "off" THEN "top" ELSE pc
    /\ UNCHANGED <<todo, connected, cancelled, writerVars, detached, emptied, linkVars>>

\* session.subscribe: nothing to send while not connected.
SessionSubscribe(t) ==
    /\ ust[t] = "adding"
    /\ \/ /\ ~connected
          /\ ust' = [ust EXCEPT ![t] = "in"]
          /\ UNCHANGED writerVars
       \/ /\ connected
          /\ StartEnqueue(t, SUB(t))
          /\ ust' = [ust EXCEPT ![t] = "sending"]
    /\ UNCHANGED <<runVars, desired, detached, calls, emptied, linkVars>>

SubscribeReturns(t) ==
    /\ ust[t] = "sending"
    /\ \/ EndEnqueue(t, "ok") /\ ust' = [ust EXCEPT ![t] = "in"]
       \/ EndEnqueue(t, "refused") /\ ust' = [ust EXCEPT ![t] = "failed"]
    /\ UNCHANGED <<runVars, desired, detached, calls, emptied, linkVars>>

\* Under m.mu: the topic is no longer desired, an empty session is dropped.
Unsubscribe(t) ==
    /\ ust[t] \in {"in", "failed"}
    /\ ust' = [ust EXCEPT ![t] = "removing"]
    /\ desired' = desired \ {t}
    /\ IF desired = {t}
       THEN detached' = TRUE /\ emptied' = emptied \cup {t}
       ELSE UNCHANGED <<detached, emptied>>
    /\ UNCHANGED <<runVars, writerVars, calls, linkVars>>

\* Unsubscribe returns nil: it stops the session it emptied.
Stop(t) == /\ cancelled' = (cancelled \/ t \in emptied)
           /\ ust' = [ust EXCEPT ![t] = "out"]
           /\ UNCHANGED <<pc, todo, connected, desired, detached, calls, emptied, linkVars>>

SessionUnsubscribe(t) ==
    /\ ust[t] = "removing"
    /\ \/ ~connected /\ Stop(t) /\ UNCHANGED writerVars
       \/ /\ connected
          /\ StartEnqueue(t, UNSUB(t))
          /\ ust' = [ust EXCEPT ![t] = "retracting"]
          /\ UNCHANGED <<runVars, desired, detached, calls, emptied, linkVars>>

\* An error returns before the stop.
UnsubscribeReturns(t) ==
    /\ ust[t] = "retracting"
    /\ \/ EndEnqueue(t, "ok") /\ Stop(t)
       \/ /\ EndEnqueue(t, "refused")
          /\ ust' = [ust EXCEPT ![t] = "out"]
          /\ UNCHANGED <<runVars, desired, detached, calls, emptied, linkVars>>

CallStep(t) == \/ SessionSubscribe(t) \/ SubscribeReturns(t)
               \/ SessionUnsubscribe(t) \/ UnsubscribeReturns(t) \/ EnqueueStep(t)

-----------------------------------------------------------------------------
(* The environment.                                                        *)

\* The context given to Manager.Run ends.
Cancel == /\ ~cancelled
          /\ cancelled' = TRUE
          /\ UNCHANGED <<pc, todo, connected, writerVars, userVars, linkVars>>

LinkBreaks == /\ link = "up"
              /\ faults < opt.faults
              /\ faults' = faults + 1
              /\ link' = "broken"
              /\ UNCHANGED <<runVars, writerVars, userVars, srv, authed>>

Next == \/ RunStep
        \/ \E t \in Topics : Subscribe(t) \/ Unsubscribe(t) \/ CallStep(t)
        \/ Cancel
        \/ LinkBreaks

(* Dial, Write and the sleep return; calls that were begun go on; select   *)
(* chooses at random among the ready cases, so a case that is ready again  *)
(* and again is taken (strong fairness for Write and Done, which pings may *)
(* interrupt).                                                             *)
Fairness == /\ WF_vars(RunStep)
            /\ SF_vars(Write) /\ SF_vars(Done)
            /\ \A t \in Topics : WF_vars(CallStep(t))

Spec == Init /\ [][Next]_vars
FairSpec == Spec /\ Fairness

-----------------------------------------------------------------------------
(* Properties.                                                             *)

\* The exchange acts on the i-th queued message if AUTH is not asked for or comes before it.
Heeded(i) == ~opt.auth \/ authed \/ \E j \in 1 .. i - 1 : queue[j] = AUTH

\* What the i-th queued message (0: the connection so far) says of t, no later one takes back.
Stands(t, i) == /\ IF i = 0 THEN t \in srv ELSE queue[i] = SUB(t) /\ Heeded(i)
                /\ \A j \in i + 1 .. Len(queue) : queue[j] # UNSUB(t)

\* The exchange's topics once it has received what is queued.
Eventual == {t \in Topics : \E i \in 0 .. Len(queue) : Stands(t, i)}

\* A topic whose Subscribe has returned nil is not forgotten: while the session
\* serves a connection, the exchange has the subscription or the SUB is on its
\* way, no matter how Subscribe, the connected flags, OnConnect's AUTH and
\* resubscribe's copy of the desired topics interleave, and whatever stale
\* frames an earlier connection left in the queue.
NoMissedSubscription ==
    \A t \in Topics : pc = "run" /\ link = "up" /\ ust[t] = "in" => t \in Eventual

\* Unsubscribe "removes a subscription by topic id": a topic whose Unsubscribe
\* has returned is not subscribed at the exchange, nor about to be.
NoZombieSubscription ==
    \A t \in Topics : pc = "run" /\ link = "up" /\ ust[t] = "out" => t \notin Eventual

\* The queue holds the SUBs of resubscribe and the SUB and UNSUB of each caller.
Roomy == opt.size >= 3 * Cardinality(Topics)

\* Once the failures end, a topic that stays subscribed gets its stream, if the
\* queue is as large as the default one is meant to be.
EventuallySubscribed ==
    Roomy => \A t \in Topics : <>[](ust[t] = "in" /\ ~cancelled) => <>[](link = "up" /\ t \in srv)

\* When its context is done the session ends, so Manager.Run can return.
CancelEnds == cancelled ~> pc \in {"off", "done"}
=============================================================================
