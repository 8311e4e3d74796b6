---------------------------- MODULE SessionProofs ----------------------------
(***************************************************************************)
(* Proofs about Session, for any set of topics, any options and any number *)
(* of calls and faults.                                                    *)
(***************************************************************************)
EXTENDS Session, SequenceTheorems, TLAPS

-----------------------------------------------------------------------------
(* The inductive invariant.                                                *)

\* A connection's state at the exchange ends with the connection, and session.run has
\* none while it dials or sleeps.
LinkShape ==
    /\ link = "none" => srv = {} /\ ~authed
    /\ pc \in {"off", "top", "sleep", "done"} => link = "none"

\* Subscribe sees the connected flag from before the copy of the desired topics is taken
\* until runSession has returned.
FlagUp == pc \in {"marked", "hello", "snapshot", "resub", "run", "abort", "down"} => connected

\* A topic is desired from Subscribe's critical section to Unsubscribe's.
DesiredIs == \A t \in Topics : t \in desired <=> ust[t] \in {"adding", "sending", "in", "failed"}

\* What the callers are enqueuing, and that they enqueue nothing else.
CallerShape ==
    \A t \in Topics :
        /\ ust[t] = "sending" => msg[t] = SUB(t)
        /\ ust[t] = "retracting" => msg[t] = UNSUB(t)
        /\ ust[t] \notin {"sending", "retracting"} => at[t] = "idle"

\* What session.run is enqueuing: OnConnect's AUTH, resubscribe's SUB of a topic that
\* is still to be sent, a ping.
RunShape ==
    /\ at[Run] # "idle" => pc \in {"hello", "resub", "run"}
    /\ at[Run] # "idle" /\ pc = "hello" => msg[Run] = AUTH /\ opt.auth
    /\ at[Run] # "idle" /\ pc = "resub" => \E t \in todo : msg[Run] = SUB(t)
    /\ at[Run] # "idle" /\ pc = "run" => msg[Run] = PING
    /\ pc = "run" => todo = {}

\* Only OverflowDropOldest takes a frame out of the queue to make room.
DropShape == \A a \in Threads : at[a] = "drop" => opt.policy = "DropOldest"

\* AUTH is on its way from the moment OnConnect's Enqueue succeeds.
AuthQueued == \E i \in 1 .. Len(queue) : queue[i] = AUTH
AuthFirst ==
    /\ pc = "hello" /\ at[Run] = "ok" => AuthQueued
    /\ pc \in {"snapshot", "resub", "run"} /\ link = "up" /\ opt.auth => authed \/ AuthQueued

\* The callers that have been told, or are about to be, that their topic is subscribed.
Promised(t) == ust[t] = "in" \/ (ust[t] = "sending" /\ at[t] = "ok")

\* What resubscribe has yet to put into the queue.
ToSend(t) == t \in todo /\ ~(at[Run] = "ok" /\ msg[Run] = SUB(t))

\* From the copy of the desired topics on, a promised topic is queued, received, or to be
\* sent by resubscribe.
Kept == \A t \in Topics : pc \in {"resub", "run"} /\ link = "up" /\ Promised(t) => ToSend(t) \/ t \in Eventual

Shapes == LinkShape /\ FlagUp /\ DesiredIs /\ CallerShape /\ RunShape /\ DropShape
IInv == TypeOK /\ Shapes /\ (opt.policy # "DropOldest" => AuthFirst /\ Kept)

-----------------------------------------------------------------------------
(* Messages and the queue.                                                 *)

\* The messages are told apart by their first field, and by their topic.
LEMMA MessagesDiffer ==
    /\ \A t, u : SUB(t) # UNSUB(u) /\ SUB(t) # AUTH /\ SUB(t) # PING /\ UNSUB(t) # AUTH /\ UNSUB(t) # PING
    /\ \A t, u : (SUB(t) = SUB(u) => t = u) /\ (UNSUB(t) = UNSUB(u) => t = u)
    /\ AUTH # PING
BY DEF SUB, UNSUB, AUTH, PING

\* Every message that is sent is one of Messages.
LEMMA MessageType ==
    /\ AUTH \in Messages /\ PING \in Messages
    /\ \A t \in Topics : SUB(t) \in Messages /\ UNSUB(t) \in Messages
BY DEF Messages

\* The options are a record with the fields the code reads.
LEMMA OptType == TypeOK => opt \in OptionSet /\ opt.size \in Nat /\ opt.faults \in Nat
BY SessionAssumption DEF TypeOK, OptionSet

\* What a send does to the queue.
LEMMA Appended ==
    ASSUME NEW q \in Seq(Messages), NEW m \in Messages
    PROVE  /\ Append(q, m) \in Seq(Messages) /\ Len(q) \in Nat /\ Len(Append(q, m)) = Len(q) + 1
           /\ \A i \in 1 .. Len(q) : Append(q, m)[i] = q[i]
           /\ Append(q, m)[Len(q) + 1] = m
BY AppendProperties, LenProperties

\* What a receive does to it.
LEMMA Received1 ==
    ASSUME NEW q \in Seq(Messages), q # <<>>
    PROVE  /\ Tail(q) \in Seq(Messages) /\ Len(q) \in Nat \ {0} /\ Len(Tail(q)) = Len(q) - 1
           /\ \A i \in 1 .. Len(q) - 1 : Tail(q)[i] = q[i + 1]
           /\ Head(q) = q[1] /\ q[1] \in Messages
<1>1. /\ Tail(q) \in Seq(Messages) /\ Len(Tail(q)) = Len(q) - 1
      /\ \A i \in 1 .. Len(Tail(q)) : Tail(q)[i] = q[i + 1]
      /\ Head(q) \in Messages
  BY HeadTailProperties
<1>2. Len(q) \in Nat /\ Len(q) # 0
  BY LenProperties, EmptySeq
<1> QED
  BY <1>1, <1>2

-----------------------------------------------------------------------------
(* Type correctness.                                                       *)

\* writer.Enqueue's steps.
LEMMA EnqueueTypes == ASSUME TypeOK, NEW a \in Threads, EnqueueStep(a) PROVE TypeOK'
<1> USE DEF runVars, userVars, linkVars
<1>1. CASE CheckConnected(a)
  BY <1>1 DEF CheckConnected, EnqueueStep, TypeOK
<1>2. CASE SendOnQueue(a)
  <2>1. queue \in Seq(Messages) /\ msg[a] \in Messages /\ opt.size \in Nat
    BY OptType DEF TypeOK
  <2>2. queue' \in Seq(Messages) /\ Len(queue') <= opt.size
    BY <1>2, <2>1, Appended DEF SendOnQueue
  <2> QED
    BY <1>2, <2>2 DEF SendOnQueue, EnqueueStep, TypeOK
<1>3. CASE QueueFull(a)
  BY <1>3 DEF QueueFull, EnqueueStep, TypeOK
<1>4. CASE DropOldest(a)
  <2>1. queue \in Seq(Messages) /\ Len(queue) <= opt.size /\ opt.size \in Nat
    BY OptType DEF TypeOK
  <2>2. queue' \in Seq(Messages) /\ Len(queue') <= opt.size
    BY <1>4, <2>1, Received1 DEF DropOldest
  <2> QED
    BY <1>4, <2>2 DEF DropOldest, EnqueueStep, TypeOK
<1> QED
  BY <1>1, <1>2, <1>3, <1>4 DEF EnqueueStep

\* A call of Enqueue and its return keep the writer's types.
LEMMA StartTypes ==
    ASSUME TypeOK, NEW a \in Threads, NEW m \in Messages,
           StartEnqueue(a, m) \/ EndEnqueue(a, "ok") \/ EndEnqueue(a, "refused")
    PROVE  /\ UNCHANGED <<wconnected, queue, opt>>
           /\ at' \in [Threads -> {"idle", "check", "send", "drop", "ok", "refused"}]
           /\ msg' \in [Threads -> Messages]
BY MessageType DEF StartEnqueue, EndEnqueue, TypeOK

\* session.run's steps.
LEMMA RunTypes == ASSUME TypeOK, RunStep PROVE TypeOK'
<1> USE DEF runVars, userVars, linkVars, writerVars, Goto
<1>r. Run \in Threads /\ opt.faults \in Nat /\ opt.size \in Nat
  BY OptType DEF Threads
<1>1. CASE Leave
  BY <1>1 DEF Leave, TypeOK
<1>2. CASE DialOK
  BY <1>2 DEF DialOK, TypeOK
<1>3. CASE DialFails
  BY <1>3, <1>r DEF DialFails, TypeOK
<1>4. CASE MarkConnected
  BY <1>4 DEF MarkConnected, TypeOK
<1>5. CASE MarkWriter
  BY <1>5 DEF MarkWriter, TypeOK
<1>6. CASE OnConnect
  <2>1. /\ UNCHANGED <<wconnected, queue, opt>>
        /\ at' \in [Threads -> {"idle", "check", "send", "drop", "ok", "refused"}]
        /\ msg' \in [Threads -> Messages]
    <3>1. CASE UNCHANGED writerVars
      BY <3>1 DEF TypeOK
    <3>2. CASE StartEnqueue(Run, AUTH) \/ EndEnqueue(Run, "ok") \/ EndEnqueue(Run, "refused")
      BY <3>2, <1>r, StartTypes, MessageType
    <3> QED
      BY <3>1, <3>2, <1>6 DEF OnConnect
  <2>2. pc' \in {"hello", "snapshot", "abort"}
    BY <1>6 DEF OnConnect
  <2> QED
    BY <1>6, <2>1, <2>2 DEF OnConnect, TypeOK
<1>7. CASE Snapshot
  BY <1>7 DEF Snapshot, TypeOK
<1>8. CASE Resubscribe
  <2>1. /\ UNCHANGED <<wconnected, queue, opt>>
        /\ at' \in [Threads -> {"idle", "check", "send", "drop", "ok", "refused"}]
        /\ msg' \in [Threads -> Messages]
    <3>1. CASE UNCHANGED writerVars
      BY <3>1 DEF TypeOK
    <3>2. CASE \E t \in todo : StartEnqueue(Run, SUB(t))
      <4>1. PICK t \in todo : StartEnqueue(Run, SUB(t))
        BY <3>2
      <4>2. SUB(t) \in Messages
        BY MessageType DEF TypeOK
      <4> QED
        BY <4>1, <4>2, <1>r, StartTypes
    <3>3. CASE EndEnqueue(Run, "ok") \/ EndEnqueue(Run, "refused")
      BY <3>3, <1>r, StartTypes, MessageType
    <3> QED
      BY <3>1, <3>2, <3>3, <1>8 DEF Resubscribe
  <2>2. pc' \in {"resub", "run", "abort"} /\ todo' \subseteq todo
    BY <1>8 DEF Resubscribe
  <2> QED
    BY <1>8, <2>1, <2>2 DEF Resubscribe, TypeOK
<1>9. CASE Write
  <2>1. queue \in Seq(Messages) /\ Len(queue) <= opt.size /\ queue # <<>>
    BY <1>9 DEF TypeOK, Write
  <2>2. /\ queue' \in Seq(Messages) /\ Len(queue') <= opt.size /\ Head(queue) \in Messages
    BY <1>9, <1>r, <2>1, Received1 DEF Write
  <2>3. srv' \subseteq Topics /\ authed' \in BOOLEAN
    <3>1. CASE UNCHANGED <<srv, authed>>
      BY <3>1 DEF TypeOK
    <3>2. CASE /\ srv' = Received(Exchange, Head(queue)).subs
               /\ authed' = Received(Exchange, Head(queue)).authed
      <4>1. Head(queue)[1] = "SUB" => Head(queue)[2] \in Topics
        BY <2>2 DEF Messages, SUB, UNSUB, AUTH, PING
      <4> QED
        BY <3>2, <4>1 DEF Received, Exchange, TypeOK
    <3> QED
      BY <3>1, <3>2, <1>9 DEF Write
  <2>4. pc' \in {"run", "down"}
    BY <1>9 DEF Write
  <2> QED
    BY <1>9, <2>2, <2>3, <2>4 DEF Write, TypeOK
<1>10. CASE Ping
  <2>1. /\ UNCHANGED <<wconnected, queue, opt>>
        /\ at' \in [Threads -> {"idle", "check", "send", "drop", "ok", "refused"}]
        /\ msg' \in [Threads -> Messages]
    BY <1>10, <1>r, StartTypes, MessageType DEF Ping
  <2> QED
    BY <1>10, <2>1 DEF Ping, TypeOK
<1>11. CASE ReadError
  BY <1>11 DEF ReadError, TypeOK
<1>12. CASE Done
  BY <1>12 DEF Done, TypeOK
<1>13. CASE Abort
  BY <1>13 DEF Abort, Hangup, TypeOK
<1>14. CASE Unmark
  BY <1>14 DEF Unmark, TypeOK
<1>15. CASE Drain
  <2>1. queue' \in Seq(Messages) /\ Len(queue') <= opt.size
    <3>1. CASE queue # <<>> /\ queue' = Tail(queue)
      BY <3>1, <1>r, Received1 DEF TypeOK
    <3>2. CASE UNCHANGED queue
      BY <3>2 DEF TypeOK
    <3> QED
      BY <1>15, <3>1, <3>2 DEF Drain
  <2>2. /\ pc' \in {"drain", "done", "sleep"} /\ link' \in {"none", "up", "broken"}
        /\ srv' \subseteq Topics /\ authed' \in BOOLEAN
    BY <1>15 DEF Drain, Hangup, TypeOK
  <2> QED
    BY <1>15, <2>1, <2>2 DEF Drain, TypeOK
<1>16. CASE Sleep
  BY <1>16 DEF Sleep, TypeOK
<1>17. CASE EnqueueStep(Run)
  BY <1>17, <1>r, EnqueueTypes
<1> QED
  BY <1>1, <1>2, <1>3, <1>4, <1>5, <1>6, <1>7, <1>8, <1>9, <1>10, <1>11, <1>12, <1>13, <1>14,
     <1>15, <1>16, <1>17 DEF RunStep

\* The steps of the callers of Subscribe and Unsubscribe.
LEMMA CallerTypes ==
    ASSUME TypeOK, NEW t \in Topics, Subscribe(t) \/ Unsubscribe(t) \/ CallStep(t)
    PROVE  TypeOK'
<1> USE DEF runVars, userVars, linkVars, writerVars
<1> DEFINE WriterOK == /\ UNCHANGED <<wconnected, queue, opt>>
                       /\ at' \in [Threads -> {"idle", "check", "send", "drop", "ok", "refused"}]
                       /\ msg' \in [Threads -> Messages]
<1>t. t \in Threads /\ SUB(t) \in Messages /\ UNSUB(t) \in Messages
  BY MessageType DEF Threads
<1>w. ASSUME UNCHANGED writerVars \/ StartEnqueue(t, SUB(t)) \/ StartEnqueue(t, UNSUB(t))
             \/ EndEnqueue(t, "ok") \/ EndEnqueue(t, "refused")
      PROVE  WriterOK
  <2>1. CASE UNCHANGED writerVars
    BY <2>1 DEF TypeOK
  <2>2. CASE StartEnqueue(t, SUB(t)) \/ EndEnqueue(t, "ok") \/ EndEnqueue(t, "refused")
    BY <2>2, <1>t, StartTypes
  <2>3. CASE StartEnqueue(t, UNSUB(t))
    BY <2>3, <1>t, StartTypes
  <2> QED
    BY <1>w, <2>1, <2>2, <2>3
<1>1. CASE Subscribe(t)
  <2>1. calls[t] + 1 \in 0 .. MaxCalls
    BY <1>1, SessionAssumption DEF Subscribe, TypeOK
  <2> QED
    BY <1>1, <2>1 DEF Subscribe, TypeOK
<1>2. CASE SessionSubscribe(t)
  <2>1. WriterOK
    BY <1>2, <1>w DEF SessionSubscribe
  <2>2. ust' \in [Topics -> {"out", "adding", "sending", "in", "failed", "removing", "retracting"}]
    BY <1>2 DEF SessionSubscribe, TypeOK
  <2> QED
    BY <1>2, <2>1, <2>2 DEF SessionSubscribe, TypeOK
<1>3. CASE SubscribeReturns(t)
  <2>1. WriterOK
    BY <1>3, <1>w DEF SubscribeReturns
  <2>2. ust' \in [Topics -> {"out", "adding", "sending", "in", "failed", "removing", "retracting"}]
    BY <1>3 DEF SubscribeReturns, TypeOK
  <2> QED
    BY <1>3, <2>1, <2>2 DEF SubscribeReturns, TypeOK
<1>4. CASE Unsubscribe(t)
  BY <1>4 DEF Unsubscribe, TypeOK
<1>5. CASE SessionUnsubscribe(t)
  <2>1. WriterOK
    BY <1>5, <1>w DEF SessionUnsubscribe
  <2>2. /\ ust' \in [Topics -> {"out", "adding", "sending", "in", "failed", "removing", "retracting"}]
        /\ cancelled' \in BOOLEAN
    BY <1>5 DEF SessionUnsubscribe, Stop, TypeOK
  <2> QED
    BY <1>5, <2>1, <2>2 DEF SessionUnsubscribe, Stop, TypeOK
<1>6. CASE UnsubscribeReturns(t)
  <2>1. WriterOK
    BY <1>6, <1>w DEF UnsubscribeReturns
  <2>2. /\ ust' \in [Topics -> {"out", "adding", "sending", "in", "failed", "removing", "retracting"}]
        /\ cancelled' \in BOOLEAN
    BY <1>6 DEF UnsubscribeReturns, Stop, TypeOK
  <2> QED
    BY <1>6, <2>1, <2>2 DEF UnsubscribeReturns, Stop, TypeOK
<1>7. CASE EnqueueStep(t)
  BY <1>7, <1>t, EnqueueTypes
<1> QED
  BY <1>1, <1>2, <1>3, <1>4, <1>5, <1>6, <1>7 DEF CallStep

\* No step leaves the types.
LEMMA TypeStep == ASSUME TypeOK, [Next]_vars PROVE TypeOK'
<1> USE DEF runVars, userVars, linkVars, writerVars
<1>1. CASE RunStep
  BY <1>1, RunTypes
<1>2. CASE \E t \in Topics : Subscribe(t) \/ Unsubscribe(t) \/ CallStep(t)
  BY <1>2, CallerTypes
<1>3. CASE Cancel
  BY <1>3 DEF Cancel, TypeOK
<1>4. CASE LinkBreaks
  <2>1. faults + 1 \in 0 .. opt.faults
    BY <1>4, OptType DEF LinkBreaks, TypeOK
  <2> QED
    BY <1>4, <2>1 DEF LinkBreaks, TypeOK
<1>5. CASE UNCHANGED vars
  BY <1>5 DEF vars, TypeOK
<1> QED
  BY <1>1, <1>2, <1>3, <1>4, <1>5 DEF Next

\* newSession's state has its type.
LEMMA TypeInit == Init => TypeOK
<1> SUFFICES ASSUME Init PROVE TypeOK
  OBVIOUS
<1>1. opt \in Options /\ opt.size \in Nat /\ opt.faults \in Nat
  BY SessionAssumption DEF Init, OptionSet
<1>2. queue \in Seq(Messages) /\ Len(queue) <= opt.size
  BY <1>1, EmptySeq DEF Init
<1>3. 0 \in 0 .. MaxCalls /\ 0 \in 0 .. opt.faults
  BY <1>1, SessionAssumption
<1>4. /\ msg \in [Threads -> Messages] /\ calls \in [Topics -> 0 .. MaxCalls]
      /\ at \in [Threads -> {"idle", "check", "send", "drop", "ok", "refused"}]
      /\ ust \in [Topics -> {"out", "adding", "sending", "in", "failed", "removing", "retracting"}]
  BY <1>3, MessageType DEF Init
<1>5. /\ connected \in BOOLEAN /\ cancelled \in BOOLEAN /\ wconnected \in BOOLEAN
      /\ detached \in BOOLEAN /\ authed \in BOOLEAN
  BY DEF Init
<1> QED
  BY <1>1, <1>2, <1>3, <1>4, <1>5 DEF Init, TypeOK

\* Every variable keeps its type, and the queue never holds more than WriteQueueSize
\* frames (writer.go:76: make(chan, size)), whoever sends and drops meanwhile.
THEOREM TypeCorrect == Spec => []TypeOK
BY TypeInit, TypeStep, PTL DEF Spec

-----------------------------------------------------------------------------
(* Where everybody is.                                                     *)

\* The steps of Enqueue leave the callers, session.run and the connection alone.
LEMMA EnqueueShapes == ASSUME TypeOK, Shapes, NEW a \in Threads, EnqueueStep(a) PROVE Shapes'
<1> USE DEF runVars, userVars, linkVars
<1>1. /\ UNCHANGED <<pc, todo, connected, cancelled, desired, ust, link, srv, authed, opt, msg>>
      /\ at[a] # "idle" /\ at'[a] # "idle" /\ \A b \in Threads : b # a => at'[b] = at[b]
      /\ at'[a] = "drop" => opt.policy = "DropOldest"
  BY DEF EnqueueStep, CheckConnected, SendOnQueue, QueueFull, DropOldest, TypeOK
<1>2. LinkShape' /\ FlagUp' /\ DesiredIs'
  BY <1>1 DEF Shapes, LinkShape, FlagUp, DesiredIs
<1>3. CallerShape'
  BY <1>1 DEF Shapes, CallerShape, Threads
<1>4. RunShape'
  BY <1>1 DEF Shapes, RunShape, Threads
<1>5. DropShape'
  BY <1>1 DEF Shapes, DropShape
<1> QED
  BY <1>2, <1>3, <1>4, <1>5 DEF Shapes

\* A call of Enqueue, or its return, moves its own thread only.
LEMMA StartMoves ==
    ASSUME TypeOK, NEW a \in Threads, NEW m,
           StartEnqueue(a, m) \/ EndEnqueue(a, "ok") \/ EndEnqueue(a, "refused")
    PROVE  /\ UNCHANGED <<queue, opt>>
           /\ StartEnqueue(a, m) => at[a] = "idle" /\ at'[a] = "check" /\ msg'[a] = m
           /\ ~StartEnqueue(a, m) => at[a] \in {"ok", "refused"} /\ at'[a] = "idle" /\ msg'[a] = PING
           /\ at'[a] # "drop" /\ at'[a] # "ok"
           /\ \A b \in Threads : b # a => at'[b] = at[b] /\ msg'[b] = msg[b]
BY DEF StartEnqueue, EndEnqueue, TypeOK

\* So do session.run's own steps leave the callers.
LEMMA RunShapes == ASSUME TypeOK, Shapes, RunStep PROVE Shapes'
<1> USE DEF runVars, userVars, linkVars, writerVars, Goto
<1>r. Run \in Threads /\ Run \notin Topics /\ \A t \in Topics : t \in Threads /\ t # Run
  BY SessionAssumption DEF Threads
<1>c. ASSUME desired' = desired, ust' = ust, opt' = opt,
             \A b \in Threads : b # Run => at'[b] = at[b] /\ msg'[b] = msg[b],
             at'[Run] = at[Run] \/ at'[Run] # "drop"
      PROVE  DesiredIs' /\ CallerShape' /\ DropShape'
  <2>1. DesiredIs'
    BY <1>c DEF Shapes, DesiredIs
  <2>2. CallerShape'
    BY <1>c, <1>r DEF Shapes, CallerShape
  <2>3. DropShape'
    BY <1>c, <1>r DEF Shapes, DropShape
  <2> QED
    BY <2>1, <2>2, <2>3
<1>s. ASSUME UNCHANGED <<at, msg>>, desired' = desired, ust' = ust, opt' = opt
      PROVE  DesiredIs' /\ CallerShape' /\ DropShape'
  BY <1>s, <1>c
<1>1. CASE Leave
  BY <1>1, <1>s DEF Leave, Shapes, LinkShape, FlagUp, RunShape
<1>2. CASE DialOK
  BY <1>2, <1>s DEF DialOK, Shapes, LinkShape, FlagUp, RunShape
<1>3. CASE DialFails
  BY <1>3, <1>s DEF DialFails, Shapes, LinkShape, FlagUp, RunShape
<1>4. CASE MarkConnected
  BY <1>4, <1>s DEF MarkConnected, Shapes, LinkShape, FlagUp, RunShape
<1>5. CASE MarkWriter
  BY <1>5, <1>s DEF MarkWriter, Shapes, LinkShape, FlagUp, RunShape
<1>6. CASE OnConnect
  <2>1. CASE UNCHANGED writerVars /\ pc' = "snapshot" /\ ~opt.auth
    BY <2>1, <1>6, <1>s DEF OnConnect, Shapes, LinkShape, FlagUp, RunShape
  <2>2. CASE StartEnqueue(Run, AUTH) /\ UNCHANGED pc /\ opt.auth
    BY <2>2, <1>6, <1>c, <1>r, StartMoves DEF OnConnect, Shapes, LinkShape, FlagUp, RunShape
  <2>3. CASE /\ EndEnqueue(Run, "ok") \/ EndEnqueue(Run, "refused")
             /\ pc' = "snapshot" \/ pc' = "abort"
    <3>1. at'[Run] = "idle" /\ opt' = opt /\ \A b \in Threads : b # Run => at'[b] = at[b] /\ msg'[b] = msg[b]
      BY <2>3, <1>r DEF EndEnqueue, TypeOK
    <3> QED
      BY <2>3, <3>1, <1>6, <1>c, <1>r DEF OnConnect, Shapes, LinkShape, FlagUp, RunShape
  <2> QED
    BY <2>1, <2>2, <2>3, <1>6 DEF OnConnect
<1>7. CASE Snapshot
  BY <1>7, <1>s DEF Snapshot, Shapes, LinkShape, FlagUp, RunShape
<1>8. CASE Resubscribe
  <2>1. CASE UNCHANGED <<todo, writerVars>> /\ todo = {} /\ pc' = "run"
    BY <2>1, <1>8, <1>s DEF Resubscribe, Shapes, LinkShape, FlagUp, RunShape
  <2>2. CASE (\E t \in todo : StartEnqueue(Run, SUB(t))) /\ UNCHANGED <<pc, todo>>
    <3>1. PICK t \in todo : StartEnqueue(Run, SUB(t))
      BY <2>2
    <3>2. /\ opt' = opt /\ at'[Run] = "check" /\ msg'[Run] = SUB(t)
          /\ \A b \in Threads : b # Run => at'[b] = at[b] /\ msg'[b] = msg[b]
      BY <3>1, <1>r, StartMoves
    <3>3. DesiredIs' /\ CallerShape' /\ DropShape'
      BY <3>2, <1>8, <1>c DEF Resubscribe
    <3>4. LinkShape' /\ FlagUp' /\ RunShape'
      BY <2>2, <3>2, <1>8 DEF Resubscribe, Shapes, LinkShape, FlagUp, RunShape
    <3> QED
      BY <3>3, <3>4 DEF Shapes
  <2>3. CASE EndEnqueue(Run, "ok") \/ EndEnqueue(Run, "refused")
    <3>1. at'[Run] = "idle" /\ opt' = opt /\ \A b \in Threads : b # Run => at'[b] = at[b] /\ msg'[b] = msg[b]
      BY <2>3, <1>r DEF EndEnqueue, TypeOK
    <3>2. pc' \in {"resub", "abort"} \/ (pc' = "run" /\ todo' = {})
      BY <1>8 DEF Resubscribe
    <3> QED
      BY <2>3, <3>1, <3>2, <1>8, <1>c, <1>r DEF Resubscribe, Shapes, LinkShape, FlagUp, RunShape
  <2> QED
    BY <2>1, <2>2, <2>3, <1>8 DEF Resubscribe
<1>9. CASE Write
  <2>1. /\ pc = "run" /\ pc' \in {"run", "down"} /\ at[Run] = "idle" /\ link' = link /\ link # "none"
        /\ UNCHANGED <<todo, connected, opt, at, msg, desired, ust>>
    BY <1>9 DEF Write
  <2> QED
    BY <2>1, <1>s DEF Shapes, LinkShape, FlagUp, RunShape
<1>10. CASE Ping
  <2>1. /\ opt' = opt /\ \A b \in Threads : b # Run => at'[b] = at[b] /\ msg'[b] = msg[b]
        /\ at'[Run] # "drop" /\ msg'[Run] = PING
    BY <1>10, <1>r, StartMoves DEF Ping
  <2> QED
    BY <1>10, <2>1, <1>c DEF Ping, Shapes, LinkShape, FlagUp, RunShape
<1>11. CASE ReadError
  BY <1>11, <1>s DEF ReadError, Shapes, LinkShape, FlagUp, RunShape
<1>12. CASE Done
  BY <1>12, <1>s DEF Done, Shapes, LinkShape, FlagUp, RunShape
<1>13. CASE Abort
  BY <1>13, <1>s DEF Abort, Hangup, Shapes, LinkShape, FlagUp, RunShape
<1>14. CASE Unmark
  BY <1>14, <1>s DEF Unmark, Shapes, LinkShape, FlagUp, RunShape
<1>15. CASE Drain
  BY <1>15, <1>s DEF Drain, Hangup, Shapes, LinkShape, FlagUp, RunShape
<1>16. CASE Sleep
  BY <1>16, <1>s DEF Sleep, Shapes, LinkShape, FlagUp, RunShape
<1>17. CASE EnqueueStep(Run)
  BY <1>17, <1>r, EnqueueShapes
<1> QED
  BY <1>1, <1>2, <1>3, <1>4, <1>5, <1>6, <1>7, <1>8, <1>9, <1>10, <1>11, <1>12, <1>13, <1>14,
     <1>15, <1>16, <1>17 DEF RunStep

\* What a step of topic t's caller does to the callers: t goes to state u, and is
\* desired or not.
CallerMoved(t, u) ==
    /\ ust'[t] = u
    /\ \A x \in Topics : x # t => ust'[x] = ust[x] /\ (x \in desired' <=> x \in desired)
    /\ \A a \in Threads : a # t => at'[a] = at[a] /\ msg'[a] = msg[a]
    /\ opt' = opt

\* Such a step keeps the shapes if it keeps those of its own topic.
LEMMA MovedShapes ==
    ASSUME Shapes, NEW t \in Topics, NEW u, CallerMoved(t, u),
           t \in desired' <=> u \in {"adding", "sending", "in", "failed"},
           u = "sending" => msg'[t] = SUB(t),
           u = "retracting" => msg'[t] = UNSUB(t),
           u \notin {"sending", "retracting"} => at'[t] = "idle",
           at'[t] # "drop",
           UNCHANGED <<todo, connected, link, srv, authed>>,
           pc' = pc \/ (pc = "off" /\ pc' = "top")
    PROVE  Shapes'
<1>r. Run \in Threads /\ Run # t /\ \A x \in Topics : x \in Threads
  BY SessionAssumption DEF Threads
<1>1. LinkShape' /\ FlagUp'
  BY DEF Shapes, LinkShape, FlagUp
<1>2. DesiredIs'
  BY DEF Shapes, DesiredIs, CallerMoved
<1>3. CallerShape'
  BY <1>r DEF Shapes, CallerShape, CallerMoved
<1>4. RunShape'
  BY <1>r DEF Shapes, RunShape, CallerMoved
<1>5. DropShape'
  BY <1>r DEF Shapes, DropShape, CallerMoved
<1> QED
  BY <1>1, <1>2, <1>3, <1>4, <1>5 DEF Shapes

\* What each step of topic t's caller is, of what follows it needs.
Steps(t) ==
    \/ \* Subscribe
       /\ CallerMoved(t, "adding") /\ ust[t] = "out" /\ at'[t] = "idle" /\ t \in desired'
       /\ UNCHANGED <<todo, connected, queue, link, srv, authed>>
       /\ pc' = pc \/ (pc = "off" /\ pc' = "top")
    \/ /\ UNCHANGED <<pc, todo, connected, queue, link, srv, authed>>
       /\ \/ \* Subscribe ends: the session is not connected, Enqueue succeeded or not
             /\ CallerMoved(t, "in") /\ at'[t] = "idle" /\ t \in desired /\ t \in desired'
             /\ ~connected \/ (ust[t] = "sending" /\ at[t] = "ok")
          \/ CallerMoved(t, "failed") /\ at'[t] = "idle" /\ t \in desired'
          \/ CallerMoved(t, "sending") /\ at'[t] = "check" /\ msg'[t] = SUB(t) /\ t \in desired'
          \/ \* Unsubscribe
             CallerMoved(t, "removing") /\ at'[t] = "idle" /\ t \notin desired'
          \/ CallerMoved(t, "retracting") /\ at'[t] = "check" /\ msg'[t] = UNSUB(t) /\ t \notin desired'
          \/ CallerMoved(t, "out") /\ at'[t] = "idle" /\ t \notin desired'

\* The table is complete.
LEMMA StepsAre ==
    ASSUME TypeOK, Shapes, NEW t \in Topics, Subscribe(t) \/ Unsubscribe(t) \/ CallStep(t), ~EnqueueStep(t)
    PROVE  Steps(t)
<1> USE DEF runVars, userVars, linkVars, writerVars
<1>t. t \in Threads /\ t \in DOMAIN ust /\ ust \in [Topics -> {"out", "adding", "sending", "in", "failed", "removing", "retracting"}]
  BY DEF Threads, TypeOK
<1>d. /\ t \in desired <=> ust[t] \in {"adding", "sending", "in", "failed"}
      /\ ust[t] \notin {"sending", "retracting"} => at[t] = "idle"
  BY DEF Shapes, DesiredIs, CallerShape
<1>e. ASSUME NEW u, ust' = [ust EXCEPT ![t] = u], UNCHANGED <<desired, at, msg, opt>> PROVE CallerMoved(t, u)
  BY <1>e, <1>t DEF CallerMoved
<1>f. ASSUME NEW u, NEW m, ust' = [ust EXCEPT ![t] = u], UNCHANGED desired,
             StartEnqueue(t, m) \/ EndEnqueue(t, "ok") \/ EndEnqueue(t, "refused")
      PROVE  CallerMoved(t, u) /\ UNCHANGED queue
  BY <1>f, <1>t, StartMoves DEF CallerMoved
<1>1. CASE Subscribe(t)
  <2>1. CallerMoved(t, "adding")
    BY <1>1, <1>t DEF Subscribe, CallerMoved
  <2> QED
    BY <2>1, <1>1, <1>d DEF Subscribe, Steps
<1>2. CASE SessionSubscribe(t)
  <2>1. CASE ~connected
    <3>1. CallerMoved(t, "in")
      BY <2>1, <1>2, <1>e DEF SessionSubscribe
    <3> QED
      BY <3>1, <2>1, <1>2, <1>d DEF SessionSubscribe, Steps
  <2>2. CASE connected
    <3>1. CallerMoved(t, "sending") /\ UNCHANGED queue
      BY <2>2, <1>2, <1>f DEF SessionSubscribe
    <3>2. at'[t] = "check" /\ msg'[t] = SUB(t)
      BY <2>2, <1>2, <1>t, StartMoves DEF SessionSubscribe
    <3> QED
      BY <3>1, <3>2, <2>2, <1>2, <1>d DEF SessionSubscribe, Steps
  <2> QED
    BY <2>1, <2>2
<1>3. CASE SubscribeReturns(t)
  <2>1. CASE EndEnqueue(t, "ok") /\ ust' = [ust EXCEPT ![t] = "in"]
    <3>1. CallerMoved(t, "in") /\ UNCHANGED queue
      BY <2>1, <1>3, <1>f DEF SubscribeReturns
    <3>2. at[t] = "ok" /\ at'[t] = "idle"
      BY <2>1, <1>t DEF EndEnqueue, TypeOK
    <3> QED
      BY <3>1, <3>2, <2>1, <1>3, <1>d DEF SubscribeReturns, Steps
  <2>2. CASE EndEnqueue(t, "refused") /\ ust' = [ust EXCEPT ![t] = "failed"]
    <3>1. CallerMoved(t, "failed") /\ UNCHANGED queue
      BY <2>2, <1>3, <1>f DEF SubscribeReturns
    <3>2. at'[t] = "idle"
      BY <2>2, <1>t DEF EndEnqueue, TypeOK
    <3> QED
      BY <3>1, <3>2, <2>2, <1>3, <1>d DEF SubscribeReturns, Steps
  <2> QED
    BY <2>1, <2>2, <1>3 DEF SubscribeReturns
<1>4. CASE Unsubscribe(t)
  <2>1. CallerMoved(t, "removing")
    BY <1>4, <1>t DEF Unsubscribe, CallerMoved
  <2> QED
    BY <2>1, <1>4, <1>d DEF Unsubscribe, Steps
<1>5. CASE SessionUnsubscribe(t)
  <2>1. CASE ~connected
    <3>1. CallerMoved(t, "out")
      BY <2>1, <1>5, <1>e DEF SessionUnsubscribe, Stop
    <3> QED
      BY <3>1, <2>1, <1>5, <1>d DEF SessionUnsubscribe, Stop, Steps
  <2>2. CASE connected
    <3>1. CallerMoved(t, "retracting") /\ UNCHANGED queue
      BY <2>2, <1>5, <1>f DEF SessionUnsubscribe
    <3>2. at'[t] = "check" /\ msg'[t] = UNSUB(t)
      BY <2>2, <1>5, <1>t, StartMoves DEF SessionUnsubscribe
    <3> QED
      BY <3>1, <3>2, <2>2, <1>5, <1>d DEF SessionUnsubscribe, Steps
  <2> QED
    BY <2>1, <2>2
<1>6. CASE UnsubscribeReturns(t)
  <2>1. EndEnqueue(t, "ok") \/ EndEnqueue(t, "refused")
    BY <1>6 DEF UnsubscribeReturns
  <2>2. CallerMoved(t, "out") /\ UNCHANGED queue
    BY <2>1, <1>6, <1>f DEF UnsubscribeReturns, Stop
  <2>3. at'[t] = "idle"
    BY <2>1, <1>t DEF EndEnqueue, TypeOK
  <2> QED
    BY <2>2, <2>3, <1>6, <1>d DEF UnsubscribeReturns, Stop, Steps
<1> QED
  BY <1>1, <1>2, <1>3, <1>4, <1>5, <1>6 DEF CallStep

\* The callers' steps keep the shapes.
LEMMA CallerShapes ==
    ASSUME TypeOK, Shapes, NEW t \in Topics, Subscribe(t) \/ Unsubscribe(t) \/ CallStep(t)
    PROVE  Shapes'
<1>1. CASE EnqueueStep(t)
  BY <1>1, EnqueueShapes DEF Threads
<1>2. CASE ~EnqueueStep(t)
  <2>1. Steps(t)
    BY <1>2, StepsAre
  <2>2. PICK u : CallerMoved(t, u) /\ (t \in desired' <=> u \in {"adding", "sending", "in", "failed"})
                 /\ (u = "sending" => msg'[t] = SUB(t)) /\ (u = "retracting" => msg'[t] = UNSUB(t))
                 /\ (u \notin {"sending", "retracting"} => at'[t] = "idle") /\ at'[t] # "drop"
    BY <2>1 DEF Steps
  <2>3. UNCHANGED <<todo, connected, link, srv, authed>> /\ (pc' = pc \/ (pc = "off" /\ pc' = "top"))
    BY <2>1 DEF Steps
  <2> QED
    BY <2>2, <2>3, MovedShapes
<1> QED
  BY <1>1, <1>2

\* No step leaves the shapes.
LEMMA ShapesStep == ASSUME TypeOK, Shapes, [Next]_vars PROVE Shapes'
<1> USE DEF runVars, userVars, linkVars, writerVars
<1>1. CASE RunStep
  BY <1>1, RunShapes
<1>2. CASE \E t \in Topics : Subscribe(t) \/ Unsubscribe(t) \/ CallStep(t)
  BY <1>2, CallerShapes
<1>3. CASE Cancel
  BY <1>3 DEF Cancel, Shapes, LinkShape, FlagUp, DesiredIs, CallerShape, RunShape, DropShape
<1>4. CASE LinkBreaks
  BY <1>4 DEF LinkBreaks, Shapes, LinkShape, FlagUp, DesiredIs, CallerShape, RunShape, DropShape
<1>5. CASE UNCHANGED vars
  BY <1>5 DEF vars, Shapes, LinkShape, FlagUp, DesiredIs, CallerShape, RunShape, DropShape
<1> QED
  BY <1>1, <1>2, <1>3, <1>4, <1>5 DEF Next

-----------------------------------------------------------------------------
(* What the exchange will have.                                            *)

\* Messages sent now will be heeded.
Authorised == ~opt.auth \/ authed \/ AuthQueued

\* A message that is queued takes nothing from the exchange's topics, unless it is the
\* UNSUB of one, and a SUB that will be heeded adds its own.
LEMMA EventualAppend ==
    ASSUME TypeOK, NEW m \in Messages, queue' = Append(queue, m), UNCHANGED <<srv, authed, opt>>
    PROVE  /\ \A t \in Topics : t \in Eventual /\ m # UNSUB(t) => t \in Eventual'
           /\ \A t \in Topics : m = SUB(t) /\ Authorised => t \in Eventual'
           /\ AuthQueued => AuthQueued'
           /\ m = AUTH => AuthQueued'
<1>0. PICK n \in Nat : n = Len(queue)
  BY LenProperties DEF TypeOK
<1>1. /\ n \in Nat /\ Len(queue') = n + 1 /\ queue'[n + 1] = m
      /\ \A i \in 1 .. n : queue'[i] = queue[i]
  BY <1>0, Appended DEF TypeOK
<1>2. ASSUME NEW i \in 1 .. n, Heeded(i) PROVE Heeded(i)'
  BY <1>1, <1>2 DEF Heeded
<1>3. ASSUME NEW t \in Topics, NEW i \in 0 .. n, Stands(t, i), m # UNSUB(t) PROVE Stands(t, i)'
  <2>1. IF i = 0 THEN t \in srv' ELSE queue'[i] = SUB(t) /\ Heeded(i)'
    BY <1>1, <1>2, <1>3 DEF Stands
  <2>2. \A j \in i + 1 .. n + 1 : queue'[j] # UNSUB(t)
    BY <1>0, <1>1, <1>3 DEF Stands
  <2> QED
    BY <1>1, <2>1, <2>2 DEF Stands
<1>4. ASSUME NEW t \in Topics, m = SUB(t), Authorised PROVE Stands(t, n + 1)'
  <2>1. Heeded(n + 1)'
    BY <1>0, <1>1, <1>4 DEF Heeded, Authorised, AuthQueued
  <2> QED
    BY <1>1, <1>4, <2>1 DEF Stands
<1>5. /\ \A t \in Topics : t \in Eventual /\ m # UNSUB(t) => t \in Eventual'
      /\ \A t \in Topics : m = SUB(t) /\ Authorised => t \in Eventual'
  BY <1>0, <1>1, <1>3, <1>4 DEF Eventual
<1>6. (AuthQueued => AuthQueued') /\ (m = AUTH => AuthQueued')
  BY <1>0, <1>1 DEF AuthQueued
<1> QED
  BY <1>5, <1>6

\* Eventual is what it says: the exchange's topics when nothing is queued, and a message
\* that runSession writes to a live connection changes it no more (session.go:268-273).
LEMMA EventualWrite ==
    ASSUME TypeOK, Write, link = "up"
    PROVE  Eventual' = Eventual /\ (Authorised => Authorised')
<1>n. PICK n \in Nat, h \in {Head(queue)} : n = Len(queue)
  BY LenProperties DEF TypeOK
<1>0. queue \in Seq(Messages) /\ queue # <<>> /\ queue' = Tail(queue) /\ opt' = opt /\ srv \subseteq Topics
      /\ authed \in BOOLEAN
  BY DEF Write, TypeOK
<1>1. /\ n \in Nat \ {0} /\ Len(queue') = n - 1 /\ queue[1] = h /\ h \in Messages
      /\ \A i \in 1 .. n - 1 : queue'[i] = queue[i + 1]
  BY <1>n, <1>0, Received1
<1>2. /\ srv' = Received(Exchange, h).subs /\ authed' = Received(Exchange, h).authed
  BY <1>n DEF Write
<1>3. \A t \in Topics : h = SUB(t) => srv' = (IF authed \/ ~opt.auth THEN srv \cup {t} ELSE srv) /\ authed' = authed
  BY <1>2, <1>0 DEF Received, Exchange, SUB
<1>4. \A t \in Topics : h = UNSUB(t) => srv' = srv \ {t} /\ authed' = authed
  BY <1>2, <1>0 DEF Received, Exchange, UNSUB
<1>5. h = AUTH => srv' = srv /\ authed'
  <2>1. h = AUTH => h[1] = "AUTH"
    BY DEF AUTH
  <2>2. h[1] = "AUTH" => Received(Exchange, h).subs = srv
    BY DEF Received, Exchange
  <2>3. h[1] = "AUTH" => (Received(Exchange, h).authed = (authed \/ h[1] = "AUTH"))
    BY DEF Received, Exchange
  <2> QED
    BY <2>1, <2>2, <2>3, <1>2
<1>6. h = PING => srv' = srv /\ authed' = authed
  BY <1>2, <1>0 DEF Received, Exchange, PING
<1>7. h \in {AUTH, PING} \/ \E t \in Topics : h = SUB(t) \/ h = UNSUB(t)
  BY <1>1 DEF Messages
<1>8. authed' <=> authed \/ h = AUTH
  BY <1>3, <1>4, <1>5, <1>6, <1>7, MessagesDiffer
<1>9. ASSUME NEW t \in Topics
      PROVE  t \in srv' <=> (t \in srv /\ h # UNSUB(t)) \/ (h = SUB(t) /\ (authed \/ ~opt.auth))
  <2>1. CASE h \in {AUTH, PING}
    BY <2>1, <1>5, <1>6, MessagesDiffer
  <2>2. CASE \E u \in Topics : h = SUB(u)
    BY <2>2, <1>3, MessagesDiffer
  <2>3. CASE \E u \in Topics : h = UNSUB(u)
    BY <2>3, <1>4, MessagesDiffer
  <2> QED
    BY <2>1, <2>2, <2>3, <1>7
<1>10. ASSUME NEW i \in 1 .. n - 1 PROVE Heeded(i)' <=> Heeded(i + 1)
  <2>1. (\E j \in 1 .. i : queue[j] = AUTH) <=> (h = AUTH \/ \E j \in 1 .. i - 1 : queue'[j] = AUTH)
    <3>1. ASSUME NEW j \in 1 .. i, queue[j] = AUTH PROVE h = AUTH \/ \E k \in 1 .. i - 1 : queue'[k] = AUTH
      <4>1. CASE j = 1
        BY <4>1, <3>1, <1>1
      <4>2. CASE j # 1
        <5>1. j - 1 \in 1 .. i - 1 /\ j - 1 \in 1 .. n - 1 /\ (j - 1) + 1 = j
          BY <4>2, <1>1
        <5> QED
          BY <5>1, <3>1, <1>1
      <4> QED
        BY <4>1, <4>2
    <3>2. ASSUME NEW j \in 1 .. i - 1, queue'[j] = AUTH PROVE \E k \in 1 .. i : queue[k] = AUTH
      BY <3>2, <1>1
    <3> QED
      BY <3>1, <3>2, <1>1
  <2>2. (i + 1) - 1 = i
    OBVIOUS
  <2>3. Heeded(i + 1) <=> ~opt.auth \/ authed \/ \E j \in 1 .. i : queue[j] = AUTH
    BY <2>2 DEF Heeded
  <2>4. Heeded(i)' <=> ~opt.auth \/ authed' \/ \E j \in 1 .. i - 1 : queue'[j] = AUTH
    BY <1>0 DEF Heeded
  <2> QED
    BY <2>1, <2>3, <2>4, <1>8
<1>11. ASSUME NEW t \in Topics, NEW i \in 1 .. n - 1 PROVE Stands(t, i)' <=> Stands(t, i + 1)
  <2>1. (\A j \in i + 1 .. n - 1 : queue'[j] # UNSUB(t)) <=> (\A j \in i + 2 .. n : queue[j] # UNSUB(t))
    <3>1. ASSUME \A j \in i + 1 .. n - 1 : queue'[j] # UNSUB(t), NEW j \in i + 2 .. n PROVE queue[j] # UNSUB(t)
      <4>1. j - 1 \in i + 1 .. n - 1 /\ j - 1 \in 1 .. n - 1 /\ (j - 1) + 1 = j
        BY <1>1
      <4> QED
        BY <4>1, <3>1, <1>1
    <3>2. ASSUME \A j \in i + 2 .. n : queue[j] # UNSUB(t), NEW j \in i + 1 .. n - 1 PROVE queue'[j] # UNSUB(t)
      <4>1. j + 1 \in i + 2 .. n /\ j \in 1 .. n - 1
        BY <1>1
      <4> QED
        BY <4>1, <3>2, <1>1
    <3> QED
      BY <3>1, <3>2
  <2>2. Stands(t, i)' <=> /\ queue'[i] = SUB(t) /\ Heeded(i)'
                          /\ \A j \in i + 1 .. n - 1 : queue'[j] # UNSUB(t)
    BY <1>1 DEF Stands
  <2>a. i + 1 # 0 /\ (i + 1) + 1 = i + 2
    OBVIOUS
  <2>3. Stands(t, i + 1) <=> /\ queue[i + 1] = SUB(t) /\ Heeded(i + 1)
                             /\ \A j \in i + 2 .. n : queue[j] # UNSUB(t)
    BY <2>a, <1>n DEF Stands
  <2> QED
    BY <2>1, <2>2, <2>3, <1>1, <1>10
<1>12. ASSUME NEW t \in Topics PROVE Stands(t, 0)' <=> Stands(t, 0) \/ Stands(t, 1)
  <2>1. (\A j \in 1 .. n - 1 : queue'[j] # UNSUB(t)) <=> (\A j \in 2 .. n : queue[j] # UNSUB(t))
    <3>1. ASSUME \A j \in 1 .. n - 1 : queue'[j] # UNSUB(t), NEW j \in 2 .. n PROVE queue[j] # UNSUB(t)
      <4>1. j - 1 \in 1 .. n - 1 /\ (j - 1) + 1 = j
        BY <1>1
      <4> QED
        BY <4>1, <3>1, <1>1
    <3>2. ASSUME \A j \in 2 .. n : queue[j] # UNSUB(t), NEW j \in 1 .. n - 1 PROVE queue'[j] # UNSUB(t)
      <4>1. j + 1 \in 2 .. n
        BY <1>1
      <4> QED
        BY <4>1, <3>2, <1>1
    <3> QED
      BY <3>1, <3>2
  <2>2. Stands(t, 0)' <=> t \in srv' /\ \A j \in 1 .. n - 1 : queue'[j] # UNSUB(t)
    BY <1>1 DEF Stands
  <2>3. Stands(t, 0) <=> t \in srv /\ h # UNSUB(t) /\ \A j \in 2 .. n : queue[j] # UNSUB(t)
    <3>1. (\A j \in 1 .. n : queue[j] # UNSUB(t)) <=> h # UNSUB(t) /\ \A j \in 2 .. n : queue[j] # UNSUB(t)
      BY <1>1
    <3> QED
      BY <3>1, <1>n, <1>1 DEF Stands
  <2>4. Stands(t, 1) <=> h = SUB(t) /\ (authed \/ ~opt.auth) /\ \A j \in 2 .. n : queue[j] # UNSUB(t)
    BY <1>n, <1>1 DEF Stands, Heeded
  <2> QED
    BY <2>1, <2>2, <2>3, <2>4, <1>9
<1>13. ASSUME NEW t \in Topics
       PROVE  (\E i \in 0 .. n - 1 : Stands(t, i)') <=> (\E i \in 0 .. n : Stands(t, i))
  <2>1. ASSUME NEW i \in 0 .. n - 1, Stands(t, i)' PROVE \E k \in 0 .. n : Stands(t, k)
    <3>1. CASE i = 0
      <4>1. Stands(t, 0) \/ Stands(t, 1)
        BY <3>1, <2>1, <1>12
      <4> QED
        BY <4>1, <1>1
    <3>2. CASE i # 0
      <4>1. i \in 1 .. n - 1 /\ i + 1 \in 0 .. n
        BY <3>2, <1>1
      <4> QED
        BY <4>1, <2>1, <1>11
    <3> QED
      BY <3>1, <3>2
  <2>2. ASSUME NEW i \in 0 .. n, Stands(t, i) PROVE \E k \in 0 .. n - 1 : Stands(t, k)'
    <3>1. CASE i \in {0, 1}
      <4>1. Stands(t, 0)'
        BY <3>1, <2>2, <1>12
      <4> QED
        BY <4>1, <1>1
    <3>2. CASE i \notin {0, 1}
      <4>1. i - 1 \in 1 .. n - 1 /\ (i - 1) + 1 = i /\ i - 1 \in 0 .. n - 1
        BY <3>2, <1>1
      <4>2. Stands(t, i - 1)'
        BY <4>1, <2>2, <1>11
      <4> QED
        BY <4>1, <4>2
    <3> QED
      BY <3>1, <3>2
  <2> QED
    BY <2>1, <2>2
<1>14. Eventual' = Eventual
  BY <1>n, <1>1, <1>13 DEF Eventual
<1>15. Authorised => Authorised'
  <2>1. ASSUME NEW j \in 1 .. n, queue[j] = AUTH PROVE h = AUTH \/ \E k \in 1 .. n - 1 : queue'[k] = AUTH
    <3>1. CASE j = 1
      BY <3>1, <2>1, <1>1
    <3>2. CASE j # 1
      <4>1. j - 1 \in 1 .. n - 1 /\ (j - 1) + 1 = j
        BY <3>2, <1>1
      <4> QED
        BY <4>1, <2>1, <1>1
    <3> QED
      BY <3>1, <3>2
  <2> QED
    BY <2>1, <1>0, <1>1, <1>8, <1>n DEF Authorised, AuthQueued
<1> QED
  BY <1>14, <1>15

-----------------------------------------------------------------------------
(* No subscription is forgotten, unless the policy drops queued frames.    *)

Delivered == AuthFirst /\ Kept

\* Where nothing is queued, written or hung up, Eventual and Authorised stay.
LEMMA SameEventual ==
    ASSUME UNCHANGED <<queue, srv, authed, opt>>
    PROVE  Eventual' = Eventual /\ AuthQueued' = AuthQueued
BY DEF Eventual, Stands, Heeded, AuthQueued

\* Where no copy of the desired topics has been taken, and AUTH not been queued, there is
\* nothing to show.
LEMMA Vacuous == ASSUME pc' \notin {"hello", "snapshot", "resub", "run"} PROVE Delivered'
BY DEF Delivered, AuthFirst, Kept

\* writer.Enqueue: a frame that is queued is the one its thread was asked to send.
LEMMA EnqueueDelivers ==
    ASSUME TypeOK, Shapes, Delivered, opt.policy # "DropOldest", NEW a \in Threads, EnqueueStep(a)
    PROVE  Delivered'
<1> USE DEF runVars, userVars, linkVars
<1>r. Run \in Threads /\ Run \notin Topics /\ \A t \in Topics : t \in Threads /\ t # Run
  BY SessionAssumption DEF Threads
<1>u. UNCHANGED <<pc, todo, ust, link, srv, authed, opt, msg>>
  BY DEF EnqueueStep, CheckConnected, SendOnQueue, QueueFull, DropOldest
<1>1. CASE CheckConnected(a) \/ QueueFull(a)
  <2>1. /\ queue' = queue /\ at'[a] # "ok" /\ \A b \in Threads : b # a => at'[b] = at[b]
        /\ at[a] # "ok"
    BY <1>1 DEF CheckConnected, QueueFull, TypeOK
  <2>2. Eventual' = Eventual /\ AuthQueued' = AuthQueued
    BY <2>1, <1>u, SameEventual
  <2>3. \A t \in Topics : (Promised(t)' => Promised(t)) /\ (ToSend(t) => ToSend(t)')
    BY <2>1, <1>u, <1>r DEF Promised, ToSend
  <2>4. Kept'
    BY <2>2, <2>3, <1>u DEF Delivered, Kept
  <2>5. AuthFirst'
    BY <2>1, <2>2, <1>u, <1>r DEF Delivered, AuthFirst
  <2> QED
    BY <2>4, <2>5 DEF Delivered
<1>2. CASE SendOnQueue(a)
  <2> DEFINE m == msg[a]
  <2>0. m \in Messages
    BY DEF TypeOK
  <2>1. /\ queue' = Append(queue, m) /\ at[a] = "send" /\ at'[a] = "ok" /\ \A b \in Threads : b # a => at'[b] = at[b]
    BY <1>2 DEF SendOnQueue, TypeOK
  <2>2. /\ \A t \in Topics : t \in Eventual /\ m # UNSUB(t) => t \in Eventual'
        /\ \A t \in Topics : m = SUB(t) /\ Authorised => t \in Eventual'
        /\ AuthQueued => AuthQueued'
        /\ m = AUTH => AuthQueued'
    BY <2>0, <2>1, <1>u, EventualAppend
  <2>3. a = Run => /\ pc \in {"hello", "resub", "run"}
                   /\ pc = "hello" => m = AUTH
                   /\ pc = "resub" => \E t \in todo : m = SUB(t)
                   /\ pc = "run" => m = PING
    BY <2>1 DEF Shapes, RunShape
  <2>4. a # Run => a \in Topics /\ ((ust[a] = "sending" /\ m = SUB(a)) \/ (ust[a] = "retracting" /\ m = UNSUB(a)))
    BY <2>1 DEF Shapes, CallerShape, Threads
  <2>5. AuthFirst'
    <3>1. pc' = "hello" /\ at'[Run] = "ok" => AuthQueued'
      <4>1. CASE a = Run
        BY <4>1, <2>2, <2>3, <1>u
      <4>2. CASE a # Run
        BY <4>2, <2>1, <2>2, <1>u, <1>r DEF Delivered, AuthFirst
      <4> QED
        BY <4>1, <4>2
    <3> QED
      BY <3>1, <2>2, <1>u DEF Delivered, AuthFirst
  <2>6. Kept'
    <3> SUFFICES ASSUME NEW t \in Topics, pc' \in {"resub", "run"}, link' = "up", Promised(t)'
                 PROVE  ToSend(t)' \/ t \in Eventual'
      BY DEF Kept
    <3>a. Authorised
      BY <1>u DEF Delivered, AuthFirst, Authorised
    <3>1. CASE m = SUB(t)
      BY <3>1, <3>a, <2>2
    <3>2. CASE m # SUB(t)
      <4>1. m # UNSUB(t)
        <5>1. CASE a = Run
          BY <5>1, <2>3, <1>u, MessagesDiffer
        <5>2. CASE a # Run
          <6>1. a = t => ust[t] = "retracting"
            BY <5>2, <2>4, <3>2
          <6>2. ust[t] # "retracting"
            BY <1>u DEF Promised
          <6> QED
            BY <5>2, <2>4, <6>1, <6>2, MessagesDiffer
        <5> QED
          BY <5>1, <5>2
      <4>2. Promised(t)
        <5>1. CASE a = t
          BY <5>1, <3>2, <2>4, <1>r, <1>u DEF Promised
        <5>2. CASE a # t
          BY <5>2, <2>1, <1>u, <1>r DEF Promised
        <5> QED
          BY <5>1, <5>2
      <4>3. ToSend(t) \/ t \in Eventual
        BY <4>2, <1>u DEF Delivered, Kept
      <4>4. ToSend(t) => ToSend(t)'
        <5>1. CASE a = Run
          BY <5>1, <3>2, <1>u DEF ToSend
        <5>2. CASE a # Run
          BY <5>2, <2>1, <1>u, <1>r DEF ToSend
        <5> QED
          BY <5>1, <5>2
      <4> QED
        BY <4>1, <4>3, <4>4, <2>2
    <3> QED
      BY <3>1, <3>2
  <2> QED
    BY <2>5, <2>6 DEF Delivered
<1>3. CASE DropOldest(a)
  BY <1>3 DEF DropOldest, Shapes, DropShape
<1> QED
  BY <1>1, <1>2, <1>3 DEF EnqueueStep

\* The callers: Subscribe returns nil when the session is not connected, in time for the
\* copy, or when its own SUB has been queued.
LEMMA CallerDelivers ==
    ASSUME TypeOK, Shapes, Delivered, opt.policy # "DropOldest", NEW t \in Topics,
           Subscribe(t) \/ Unsubscribe(t) \/ CallStep(t)
    PROVE  Delivered'
<1>r. Run \in Threads /\ Run # t /\ \A x \in Topics : x \in Threads
  BY SessionAssumption DEF Threads
<1>1. CASE EnqueueStep(t)
  BY <1>1, <1>r, EnqueueDelivers
<1>2. CASE ~EnqueueStep(t)
  <2>1. Steps(t)
    BY <1>2, StepsAre
  <2>2. /\ UNCHANGED <<todo, queue, srv, authed, link, opt>> /\ (pc' = pc \/ (pc = "off" /\ pc' = "top"))
        /\ at'[Run] = at[Run] /\ msg'[Run] = msg[Run]
    BY <2>1, <1>r DEF Steps, CallerMoved
  <2>3. Eventual' = Eventual /\ AuthQueued' = AuthQueued
    BY <2>2, SameEventual
  <2>4. AuthFirst'
    BY <2>2, <2>3 DEF Delivered, AuthFirst
  <2>5. Kept'
    <3> SUFFICES ASSUME NEW x \in Topics, pc' \in {"resub", "run"}, link' = "up", Promised(x)'
                 PROVE  ToSend(x)' \/ x \in Eventual'
      BY DEF Kept
    <3>1. connected
      BY <2>2 DEF Shapes, FlagUp
    <3>2. Promised(x)
      <4>1. CASE x = t
        BY <4>1, <3>1, <2>1 DEF Steps, CallerMoved, Promised
      <4>2. CASE x # t
        BY <4>2, <2>1, <1>r DEF Steps, CallerMoved, Promised
      <4> QED
        BY <4>1, <4>2
    <3> QED
      BY <3>2, <2>2, <2>3 DEF Delivered, Kept, ToSend
  <2> QED
    BY <2>4, <2>5 DEF Delivered
<1> QED
  BY <1>1, <1>2

\* session.run: resubscribe leaves nothing of the copy out, and runSession writes what is
\* queued.
LEMMA RunDelivers ==
    ASSUME TypeOK, Shapes, Delivered, opt.policy # "DropOldest", RunStep
    PROVE  Delivered'
<1> USE DEF runVars, userVars, linkVars, writerVars, Goto
<1>r. Run \in Threads /\ Run \notin Topics /\ \A t \in Topics : t \in Threads /\ t # Run
  BY SessionAssumption DEF Threads
<1>1. CASE Leave \/ DialOK \/ DialFails \/ MarkConnected \/ ReadError \/ Done \/ Abort \/ Unmark \/ Sleep
  <2>1. pc' \notin {"hello", "snapshot", "resub", "run"}
    BY <1>1 DEF Leave, DialOK, DialFails, MarkConnected, ReadError, Done, Abort, Unmark, Sleep
  <2> QED
    BY <2>1, Vacuous
<1>2. CASE MarkWriter
  <2>1. pc' = "hello" /\ at'[Run] = "idle"
    BY <1>2 DEF MarkWriter, Shapes, RunShape
  <2> QED
    BY <2>1 DEF Delivered, AuthFirst, Kept
<1>3. CASE OnConnect
  <2>1. CASE pc' = "abort"
    BY <2>1, Vacuous
  <2>2. CASE ~opt.auth /\ pc' = "snapshot" /\ UNCHANGED writerVars
    BY <2>2 DEF Delivered, AuthFirst, Kept
  <2>3. CASE StartEnqueue(Run, AUTH) /\ UNCHANGED pc
    <3>1. at'[Run] = "check" /\ pc' = "hello"
      BY <2>3, <1>3, <1>r, StartMoves DEF OnConnect
    <3> QED
      BY <3>1 DEF Delivered, AuthFirst, Kept
  <2>4. CASE EndEnqueue(Run, "ok") /\ pc' = "snapshot"
    <3>1. AuthQueued /\ queue' = queue
      BY <2>4, <1>3 DEF OnConnect, EndEnqueue, Delivered, AuthFirst
    <3>2. AuthQueued'
      BY <3>1 DEF AuthQueued
    <3> QED
      BY <3>2, <2>4 DEF Delivered, AuthFirst, Kept
  <2> QED
    BY <2>1, <2>2, <2>3, <2>4, <1>3 DEF OnConnect
<1>4. CASE Snapshot
  <2>1. UNCHANGED <<at, msg, ust, link, queue, srv, authed, opt>> /\ pc = "snapshot" /\ pc' = "resub" /\ todo' = desired
    BY <1>4 DEF Snapshot
  <2>2. at[Run] = "idle"
    BY <2>1 DEF Shapes, RunShape
  <2>3. AuthFirst'
    BY <2>1, SameEventual DEF Delivered, AuthFirst
  <2>4. Kept'
    BY <2>1, <2>2 DEF Kept, Promised, ToSend, Shapes, DesiredIs
  <2> QED
    BY <2>3, <2>4 DEF Delivered
<1>5. CASE Resubscribe
  <2>0. UNCHANGED <<ust, link, srv, authed, queue, opt>> /\ pc = "resub"
    BY <1>5 DEF Resubscribe, StartEnqueue, EndEnqueue
  <2>1. Eventual' = Eventual /\ AuthQueued' = AuthQueued
    BY <2>0, SameEventual
  <2>2. CASE pc' = "abort"
    BY <2>2, Vacuous
  <2>3. CASE todo = {} /\ pc' = "run" /\ UNCHANGED <<todo, writerVars>>
    <3>1. AuthFirst'
      BY <2>0, <2>1, <2>3 DEF Delivered, AuthFirst
    <3>2. Kept'
      BY <2>0, <2>1, <2>3 DEF Delivered, Kept, Promised, ToSend
    <3> QED
      BY <3>1, <3>2 DEF Delivered
  <2>4. CASE /\ \A b \in Threads : b # Run => at'[b] = at[b] /\ msg'[b] = msg[b]
             /\ at'[Run] # "ok" /\ UNCHANGED pc
             /\ \A t \in todo : t \in todo' \/ (at[Run] = "ok" /\ msg[Run] = SUB(t))
    <3>1. AuthFirst'
      BY <2>0, <2>1, <2>4 DEF Delivered, AuthFirst
    <3>2. Kept'
      BY <2>0, <2>1, <2>4, <1>r DEF Delivered, Kept, Promised, ToSend
    <3> QED
      BY <3>1, <3>2 DEF Delivered
  <2>5. ASSUME NEW t \in todo, StartEnqueue(Run, SUB(t)), UNCHANGED <<pc, todo>> PROVE Delivered'
    <3>1. at'[Run] # "ok" /\ \A b \in Threads : b # Run => at'[b] = at[b] /\ msg'[b] = msg[b]
      BY <2>5, <1>r, StartMoves
    <3> QED
      BY <3>1, <2>5, <2>4
  <2>6. ASSUME EndEnqueue(Run, "ok"), todo' = todo \ {msg[Run][2]}, UNCHANGED pc PROVE Delivered'
    <3>1. /\ at[Run] = "ok" /\ at'[Run] # "ok" /\ \A b \in Threads : b # Run => at'[b] = at[b] /\ msg'[b] = msg[b]
      BY <2>6, <1>r DEF EndEnqueue, TypeOK
    <3>2. PICK u \in todo : msg[Run] = SUB(u)
      BY <3>1, <2>0 DEF Shapes, RunShape
    <3>3. todo' = todo \ {u}
      BY <3>2, <2>6 DEF SUB
    <3> QED
      BY <3>1, <3>2, <3>3, <2>6, <2>4
  <2> QED
    BY <2>2, <2>3, <2>5, <2>6, <1>5 DEF Resubscribe
<1>6. CASE Write
  <2>1. UNCHANGED <<todo, opt, at, msg, ust, link>> /\ pc = "run" /\ todo = {}
    BY <1>6 DEF Write, Shapes, RunShape
  <2>2. CASE link = "up"
    <3>1. Eventual' = Eventual /\ (Authorised => Authorised') /\ pc' = "run"
      BY <2>2, <1>6, EventualWrite DEF Write
    <3>2. AuthFirst'
      BY <2>1, <2>2, <3>1 DEF Delivered, AuthFirst, Authorised
    <3>3. Kept'
      BY <2>1, <2>2, <3>1 DEF Delivered, Kept, Promised, ToSend
    <3> QED
      BY <3>2, <3>3 DEF Delivered
  <2>3. CASE link # "up"
    <3>1. link' # "up" /\ pc' # "hello"
      BY <2>1, <2>3, <1>6 DEF Write
    <3> QED
      BY <3>1 DEF Delivered, AuthFirst, Kept
  <2> QED
    BY <2>2, <2>3
<1>7. CASE Ping
  <2>1. UNCHANGED <<pc, todo, ust, link, srv, authed>> /\ pc = "run" /\ todo = {}
    BY <1>7 DEF Ping, Shapes, RunShape
  <2>2. UNCHANGED <<queue, opt>> /\ \A b \in Threads : b # Run => at'[b] = at[b]
    BY <1>7, <1>r, StartMoves DEF Ping
  <2>3. Eventual' = Eventual /\ AuthQueued' = AuthQueued
    BY <2>1, <2>2, SameEventual
  <2>4. AuthFirst'
    BY <2>1, <2>2, <2>3 DEF Delivered, AuthFirst
  <2>5. Kept'
    BY <2>1, <2>2, <2>3, <1>r DEF Delivered, Kept, Promised, ToSend
  <2> QED
    BY <2>4, <2>5 DEF Delivered
<1>8. CASE Drain
  <2>1. pc' \in {"drain", "done", "sleep"}
    BY <1>8 DEF Drain
  <2> QED
    BY <2>1, Vacuous
<1>9. CASE EnqueueStep(Run)
  BY <1>9, <1>r, EnqueueDelivers
<1> QED
  BY <1>1, <1>2, <1>3, <1>4, <1>5, <1>6, <1>7, <1>8, <1>9 DEF RunStep

\* Every step preserves the inductive invariant.
LEMMA IInvStep == ASSUME IInv, [Next]_vars PROVE IInv'
<1> USE DEF runVars, userVars, linkVars, writerVars
<1>1. TypeOK' /\ Shapes'
  BY TypeStep, ShapesStep DEF IInv
<1>2. opt' = opt
  BY DEF Next, vars, RunStep, Leave, DialOK, DialFails, MarkConnected, MarkWriter, OnConnect, Snapshot,
         Resubscribe, Write, Ping, ReadError, Done, Abort, Unmark, Drain, Sleep, EnqueueStep, CheckConnected,
         SendOnQueue, QueueFull, DropOldest, StartEnqueue, EndEnqueue, Subscribe, Unsubscribe, CallStep,
         SessionSubscribe, SubscribeReturns, SessionUnsubscribe, UnsubscribeReturns, Cancel, LinkBreaks
<1>3. ASSUME opt.policy # "DropOldest" PROVE Delivered'
  <2>0. TypeOK /\ Shapes /\ Delivered
    BY <1>3 DEF IInv, Delivered
  <2>1. CASE RunStep
    BY <2>0, <2>1, <1>3, RunDelivers
  <2>2. CASE \E t \in Topics : Subscribe(t) \/ Unsubscribe(t) \/ CallStep(t)
    BY <2>0, <2>2, <1>3, CallerDelivers
  <2>3. CASE Cancel \/ UNCHANGED vars
    <3>1. UNCHANGED <<pc, todo, writerVars, ust, link, srv, authed>>
      BY <2>3 DEF Cancel, vars
    <3>2. Eventual' = Eventual /\ AuthQueued' = AuthQueued
      BY <3>1, SameEventual
    <3> QED
      BY <2>0, <3>1, <3>2 DEF Delivered, AuthFirst, Kept, Promised, ToSend
  <2>4. CASE LinkBreaks
    <3>1. link' = "broken" /\ UNCHANGED <<pc, at, queue>>
      BY <2>4 DEF LinkBreaks
    <3> QED
      BY <2>0, <3>1 DEF Delivered, AuthFirst, Kept, AuthQueued
  <2> QED
    BY <2>1, <2>2, <2>3, <2>4 DEF Next
<1> QED
  BY <1>1, <1>2, <1>3 DEF IInv, Delivered

\* newSession establishes it.
LEMMA IInvInit == Init => IInv
<1> SUFFICES ASSUME Init PROVE IInv
  OBVIOUS
<1>1. Run \in Threads /\ \A t \in Topics : t \in Threads
  BY DEF Threads
<1>2. Shapes
  BY <1>1 DEF Init, Shapes, LinkShape, FlagUp, DesiredIs, CallerShape, RunShape, DropShape
<1>3. AuthFirst /\ Kept
  BY DEF Init, AuthFirst, Kept
<1> QED
  BY <1>2, <1>3, TypeInit DEF IInv

\* So it holds in every reachable state.
LEMMA Invariance == Spec => []IInv
BY IInvInit, IInvStep, PTL DEF Spec

\* With a queue that refuses or waits when it is full, a topic whose Subscribe returned nil
\* is subscribed, or about to be, on every connection that session.run serves, however
\* Subscribe, the two flags, AUTH and resubscribe's copy interleave (session.go:72-87,
\* 122-171; writer.go:98-133).  With OverflowDropOldest the queued SUB may be dropped.
THEOREM NeverForgotten == Spec => [](opt.policy # "DropOldest" => NoMissedSubscription)
<1>1. IInv => (opt.policy # "DropOldest" => NoMissedSubscription)
  <2> SUFFICES ASSUME IInv, opt.policy # "DropOldest", NEW t \in Topics,
                      pc = "run", link = "up", ust[t] = "in"
               PROVE  t \in Eventual
    BY DEF NoMissedSubscription
  <2>1. Promised(t) /\ ~ToSend(t)
    BY DEF IInv, Shapes, RunShape, Promised, ToSend
  <2> QED
    BY <2>1 DEF IInv, Kept
<1> QED
  BY <1>1, Invariance, PTL
=============================================================================
