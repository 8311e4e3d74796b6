-------------------------------- MODULE Ingest --------------------------------
(***************************************************************************)
(* One group of the ingest service: the topics and their reference counts  *)
(* (ingest/usecase.go), the exchange's codec registry (binance/codec.go or *)
(* btcc/codec.go), the manager's topic and session tables (manager.go) and *)
(* the router's consumer table, used by connections the way handleConn     *)
(* (cmd/ingest/main.go) does: subscribe one key after the other, at the    *)
(* end unsubscribe them all.                                               *)
(*                                                                         *)
(* The group, the manager, the codec and the router have a lock each, and  *)
(* Subscribe and Unsubscribe take them one after the other: a critical     *)
(* section is a step, and so is what follows one without a lock; only what *)
(* Manager.Unsubscribe does behind its section is part of the section's    *)
(* step.  A session is coarse here (Session is the detailed one):          *)
(* connecting sends one SUB per desired topic, and fails when one of them  *)
(* cannot be encoded.                                                      *)
(***************************************************************************)
EXTENDS Integers, FiniteSets

CONSTANTS Clients,          \* connections, each with one consumer
          Kinds,            \* enum.Topic: depth, order
          Markets,          \* symbols
          Platforms,        \* exchanges considered: BTCC, Binance
          MaxTopicsPerConn, \* Option.MaxTopicsPerConn
          MaxIds,           \* bound: topic ids handed out
          MaxCalls,         \* bound: Subscribe calls per connection
          MaxFaults         \* bound: broken connections and refused SUBs

ASSUME IngestAssumption == /\ Platforms \subseteq {"BTCC", "Binance"}
                           /\ IsFiniteSet(Clients) /\ "nobody" \notin Clients
                           /\ MaxTopicsPerConn \in Nat \ {0}
                           /\ MaxIds \in Nat /\ MaxCalls \in Nat /\ MaxFaults \in Nat

VARIABLES platform,    \* the group's exchange
          nextId,      \* Usecase.currTopicID, as far as topics take ids
          glock,       \* who keeps group.mu across several steps
          topics,      \* group.topics: key -> topic id, 0 for none
          topicsByID,  \* group.topicsByID: its domain
          refCount,    \* topicState.refCount, per topic id
          streamByID,  \* codec: topic id -> key (btcc: topicsByID)
          lookup,      \* codec: what an update is looked up by -> topic id
          running,     \* Manager.Run has set its context
          msubs,       \* Manager.subscriptions: topic id -> session, 0 for none
          listed,      \* Manager.sessions
          nextSession, \* Manager.nextSessionID
          desired,     \* per session: subscriptions.desired
          snapshot,    \* Run's copy of the sessions, those its loop has still to start
          sess,        \* per session: off, down (started), up (connected), done
          stopped,     \* sessions whose context was cancelled
          closes,      \* per session: how often its done channel has been closed
          srv,         \* per session: the streams the exchange sends on it
          attached,    \* router.topics: topic id -> consumers
          client,      \* per connection: pc, key and id it works on, subs, calls
          contested,   \* keys whose calls overlapped or whose lookup entry was taken
          faults       \* failures so far

groupVars == <<platform, nextId, glock, topics, topicsByID, refCount>>
codecVars == <<streamByID, lookup>>
managerVars == <<running, msubs, listed, nextSession, desired, snapshot>>
sessionVars == <<sess, stopped, closes, srv>>
vars == <<groupVars, codecVars, managerVars, sessionVars, attached, client, contested, faults>>

Keys == Kinds \X Markets
Ids == 1 .. MaxIds
Sessions == 1 .. MaxIds       \* a session is created for a topic
NoKey == <<>>
Nobody == "nobody"

Subscribing == {"ensure", "msubscribe", "start", "send", "check", "attach", "count"}
Unsubscribing == {"rcheck", "detach", "drop", "unregister", "munsubscribe"}
InCall(c, labels, k) == client[c].pc \in labels /\ client[c].key = k

\* What DecodeTopic looks an update of stream k up by.  BTCC has a table for each
\* kind of update; Binance falls back to the symbol, since the event name is
\* never a stream name.
BtccSlot(k) == k
BinanceSlot(k) == <<k[2]>>
Slot(k) == IF platform = "BTCC" THEN BtccSlot(k) ELSE BinanceSlot(k)
Slots == Keys \cup {<<m>> : m \in Markets}
Shares(k) == {j \in Keys : Slot(j) = Slot(k)}

\* History: a call about k begins while calls of the other sort are under way.
Contest(k, others) ==
    IF \E d \in Clients : InCall(d, others, k) THEN contested \cup Shares(k) ELSE contested

\* DecodeTopic and the router: who gets an update of stream k.
Receivers(k) == IF lookup[Slot(k)] = 0 THEN {} ELSE attached[lookup[Slot(k)]]

TypeOK ==
    /\ platform \in Platforms
    /\ nextId \in 0 .. MaxIds
    /\ glock \in Clients \cup {Nobody}
    /\ topics \in [Keys -> 0 .. MaxIds]
    /\ topicsByID \subseteq Ids
    /\ refCount \in [Ids -> Int]
    /\ streamByID \in [Ids -> Keys \cup {NoKey}]
    /\ lookup \in [Slots -> 0 .. MaxIds]
    /\ running \in BOOLEAN
    /\ msubs \in [Ids -> 0 .. MaxIds]
    /\ listed \subseteq Sessions
    /\ nextSession \in 0 .. MaxIds
    /\ desired \in [Sessions -> SUBSET Ids]
    /\ snapshot \subseteq Sessions
    /\ sess \in [Sessions -> {"off", "down", "up", "done"}]
    /\ stopped \subseteq Sessions
    /\ closes \in [Sessions -> 0 .. 2]
    /\ srv \in [Sessions -> SUBSET Keys]
    /\ attached \in [Ids -> SUBSET Clients]
    /\ client \in [Clients -> [pc : {"idle", "cleanup"} \cup Subscribing \cup Unsubscribing,
                               key : Keys \cup {NoKey}, id : 0 .. MaxIds,
                               subs : SUBSET Keys, calls : 0 .. MaxCalls]]
    /\ contested \subseteq Keys
    /\ faults \in 0 .. MaxFaults

\* NewUsecase, newGroup, NewCodec and New: everything is empty.
Init ==
    /\ platform \in Platforms
    /\ nextId = 0 /\ glock = Nobody /\ topics = [k \in Keys |-> 0] /\ topicsByID = {}
    /\ refCount = [i \in Ids |-> 0]
    /\ streamByID = [i \in Ids |-> NoKey] /\ lookup = [x \in Slots |-> 0]
    /\ running = FALSE /\ msubs = [i \in Ids |-> 0] /\ listed = {} /\ nextSession = 0
    /\ desired = [s \in Sessions |-> {}] /\ snapshot = {}
    /\ sess = [s \in Sessions |-> "off"] /\ stopped = {} /\ srv = [s \in Sessions |-> {}]
    /\ closes = [s \in Sessions |-> 0]
    /\ attached = [i \in Ids |-> {}]
    /\ client = [c \in Clients |-> [pc |-> "idle", key |-> NoKey, id |-> 0, subs |-> {}, calls |-> 0]]
    /\ contested = {} /\ faults = 0

\* Connection c goes on at label, or has finished its call.
Goto(c, label) == client' = [client EXCEPT ![c].pc = label]
Finished(r, label) == [r EXCEPT !.pc = label, !.key = NoKey, !.id = 0]
Return(c, label) == client' = [client EXCEPT ![c] = Finished(@, label)]

\* A critical section of group.mu, while nobody keeps the mutex.
Unlocked == glock = Nobody

-----------------------------------------------------------------------------
(* The codec's registry.                                                   *)

Register(i, k) == /\ streamByID' = [streamByID EXCEPT ![i] = k]
                  /\ lookup' = [lookup EXCEPT ![Slot(k)] = i]

\* Mutant: the lookup entry stays behind.
UnregisterIdOnly(i) == /\ streamByID' = [streamByID EXCEPT ![i] = NoKey]
                       /\ UNCHANGED lookup

\* Unregister deletes the lookup entry, whoever owns it by now.
Unregister(i) ==
    /\ streamByID' = [streamByID EXCEPT ![i] = NoKey]
    /\ lookup' = IF streamByID[i] = NoKey THEN lookup
                 ELSE [lookup EXCEPT ![Slot(streamByID[i])] = 0]

\* EncodeSubscribe and EncodeUnsubscribe know registered topics only.
Encodes(i) == streamByID[i] # NoKey

-----------------------------------------------------------------------------
(* Subscribe.                                                              *)

\* handleConn has a request; a key it already has is skipped.  getOrCreateGroup
\* starts the manager, whose Run takes its time (ManagerRun).
Subscribe(c, k) ==
    /\ client[c].pc = "idle"
    /\ k \notin client[c].subs
    /\ client[c].calls < MaxCalls
    /\ client' = [client EXCEPT ![c].pc = "ensure", ![c].key = k, ![c].calls = @ + 1]
    /\ contested' = Contest(k, Unsubscribing)
    /\ UNCHANGED <<groupVars, codecVars, managerVars, sessionVars, attached, faults>>

\* ensureTopic: the topic exists.
FindTopic(c) ==
    /\ client[c].pc = "ensure" /\ Unlocked
    /\ topics[client[c].key] # 0
    /\ client' = [client EXCEPT ![c].pc = "check", ![c].id = topics[client[c].key]]
    /\ UNCHANGED <<groupVars, codecVars, managerVars, sessionVars, attached, contested, faults>>

\* ensureTopic: a new id is registered with the codec.
NewTopic(c) ==
    /\ client[c].pc = "ensure" /\ Unlocked
    /\ topics[client[c].key] = 0
    /\ nextId < MaxIds
    /\ nextId' = nextId + 1
    /\ glock' = c
    /\ Register(nextId + 1, client[c].key)
    /\ contested' = IF lookup[Slot(client[c].key)] = 0 THEN contested
                    ELSE contested \cup Shares(client[c].key)
    /\ client' = [client EXCEPT ![c].pc = "msubscribe", ![c].id = nextId + 1]
    /\ UNCHANGED <<platform, topics, topicsByID, refCount, managerVars, sessionVars, attached, faults>>

HasRoom == {s \in listed : Cardinality(desired[s]) < MaxTopicsPerConn}

\* Mutant: every new session takes two ids.
PicksSkip == IF HasRoom # {} THEN HasRoom ELSE {nextSession + 2}

\* pickSessionLocked: a session with room (in the code the first of the list),
\* else a new one.
Picks == IF HasRoom # {} THEN HasRoom ELSE {nextSession + 1}

\* Manager.Subscribe under m.mu; it will start the session if the manager runs.
ManagerSubscribe(c) ==
    /\ client[c].pc = "msubscribe"
    /\ \E s \in Picks :
         /\ msubs' = [msubs EXCEPT ![client[c].id] = s]
         /\ listed' = listed \cup {s}
         /\ nextSession' = IF s > nextSession THEN s ELSE nextSession
         /\ desired' = [desired EXCEPT ![s] = @ \cup {client[c].id}]
    /\ Goto(c, IF running THEN "start" ELSE "send")
    /\ UNCHANGED <<groupVars, codecVars, running, snapshot, sessionVars, attached, contested, faults>>

\* session.start: a session that is running is left alone, another one gets a new
\* context, also one that has ended.
Idle(s) == sess[s] \in {"off", "done"}
Start(s) == /\ sess' = IF Idle(s) THEN [sess EXCEPT ![s] = "down"] ELSE sess
            /\ stopped' = IF Idle(s) THEN stopped \ {s} ELSE stopped
            /\ UNCHANGED <<closes, srv>>

\* Manager.Subscribe, without m.mu.
StartSession(c) ==
    /\ client[c].pc = "start"
    /\ Start(msubs[client[c].id])
    /\ Goto(c, "send")
    /\ UNCHANGED <<groupVars, codecVars, managerVars, attached, contested, faults>>

\* session.subscribe returns nil and ensureTopic stores the topic.
SendOK(c) ==
    LET i == client[c].id
        k == client[c].key
    IN /\ client[c].pc = "send"
       /\ srv' = IF sess[msubs[i]] = "up" THEN [srv EXCEPT ![msubs[i]] = @ \cup {k}] ELSE srv
       /\ topics' = [topics EXCEPT ![k] = i]
       /\ topicsByID' = topicsByID \cup {i}
       /\ glock' = Nobody
       /\ Goto(c, "check")
       /\ UNCHANGED <<platform, nextId, refCount, codecVars, managerVars, sess, stopped, closes, attached, contested, faults>>

\* session.subscribe fails with ErrQueueFull (the writer's flag is not up yet
\* or not any more, or its queue is full): ensureTopic unregisters the topic,
\* the manager keeps it.
SendFails(c) ==
    /\ client[c].pc = "send"
    /\ sess[msubs[client[c].id]] = "up"
    /\ faults < MaxFaults
    /\ faults' = faults + 1
    /\ Unregister(client[c].id)
    /\ glock' = Nobody
    /\ Return(c, "cleanup")
    /\ UNCHANGED <<platform, nextId, topics, topicsByID, refCount, managerVars, sessionVars, attached, contested>>

\* Manager.AddConsumer under m.mu: an unknown topic is an error.
CheckTopic(c) ==
    /\ client[c].pc = "check"
    /\ IF msubs[client[c].id] = 0 THEN Return(c, "cleanup") ELSE Goto(c, "attach")
    /\ UNCHANGED <<groupVars, codecVars, managerVars, sessionVars, attached, contested, faults>>

\* router.AddConsumer.
Attach(c) ==
    /\ client[c].pc = "attach"
    /\ attached' = [attached EXCEPT ![client[c].id] = @ \cup {c}]
    /\ Goto(c, "count")
    /\ UNCHANGED <<groupVars, codecVars, managerVars, sessionVars, contested, faults>>

\* Mutant: a consumer is counted only if it made the topic.
CountFirst(c) ==
    /\ client[c].pc = "count" /\ Unlocked
    /\ refCount' = [refCount EXCEPT ![client[c].id] = IF @ = 0 THEN 1 ELSE @]
    /\ client' = [client EXCEPT ![c] = [Finished(client[c], "idle") EXCEPT !.subs = client[c].subs \cup {client[c].key}]]
    /\ UNCHANGED <<platform, nextId, glock, topics, topicsByID, codecVars, managerVars, sessionVars,
                   attached, contested, faults>>

\* refCount++; Subscribe returns nil and handleConn notes the subscription.
Count(c) ==
    /\ client[c].pc = "count" /\ Unlocked
    /\ refCount' = [refCount EXCEPT ![client[c].id] = @ + 1]
    /\ client' = [client EXCEPT ![c] = [Finished(client[c], "idle") EXCEPT !.subs = client[c].subs \cup {client[c].key}]]
    /\ UNCHANGED <<platform, nextId, glock, topics, topicsByID, codecVars, managerVars, sessionVars,
                   attached, contested, faults>>

SubscribeStep(c) == \/ FindTopic(c) \/ NewTopic(c) \/ ManagerSubscribe(c) \/ StartSession(c) \/ SendOK(c)
                    \/ SendFails(c) \/ CheckTopic(c) \/ Attach(c) \/ Count(c)

-----------------------------------------------------------------------------
(* Unsubscribe.                                                            *)

\* The connection ends; handleConn's deferred function runs.  When all keys are
\* unsubscribed it closes the consumer, which changes none of these tables.
Disconnect(c) ==
    /\ client[c].pc = "idle"
    /\ Goto(c, "cleanup")
    /\ UNCHANGED <<groupVars, codecVars, managerVars, sessionVars, attached, contested, faults>>

\* Usecase.Unsubscribe of the next key: the topic is read under the lock; none
\* is ErrIngestUnknownTopic, which handleConn ignores.
Unsubscribe(c) ==
    /\ client[c].pc = "cleanup" /\ Unlocked
    /\ \E k \in client[c].subs :
         LET left == [client[c] EXCEPT !.subs = @ \ {k}]
         IN /\ client' = [client EXCEPT ![c] =
                            IF topics[k] = 0 THEN left
                            ELSE [left EXCEPT !.pc = "rcheck", !.key = k, !.id = topics[k]]]
            /\ contested' = Contest(k, Subscribing)
    /\ UNCHANGED <<groupVars, codecVars, managerVars, sessionVars, attached, faults>>

\* Manager.RemoveConsumer under m.mu: an unknown topic is an error.
CheckRemove(c) ==
    /\ client[c].pc = "rcheck"
    /\ IF msubs[client[c].id] = 0 THEN Return(c, "cleanup") ELSE Goto(c, "detach")
    /\ UNCHANGED <<groupVars, codecVars, managerVars, sessionVars, attached, contested, faults>>

\* router.RemoveConsumer.
Detach(c) ==
    /\ client[c].pc = "detach"
    /\ attached' = [attached EXCEPT ![client[c].id] = @ \ {c}]
    /\ Goto(c, "drop")
    /\ UNCHANGED <<groupVars, codecVars, managerVars, sessionVars, contested, faults>>

\* Mutant: the last one leaves the topic in the group's tables.
DropKeeps(c) ==
    /\ client[c].pc = "drop" /\ Unlocked
    /\ refCount' = [refCount EXCEPT ![client[c].id] = @ - 1]
    /\ IF refCount[client[c].id] <= 1 THEN Goto(c, "unregister") ELSE Return(c, "cleanup")
    /\ UNCHANGED <<platform, nextId, glock, topics, topicsByID, codecVars, managerVars, sessionVars,
                   attached, contested, faults>>

\* refCount--; the last one deletes whatever topic the key has by now.
Drop(c) ==
    LET i == client[c].id
        last == refCount[i] <= 1
    IN /\ client[c].pc = "drop" /\ Unlocked
       /\ refCount' = [refCount EXCEPT ![i] = @ - 1]
       /\ topics' = IF last THEN [topics EXCEPT ![client[c].key] = 0] ELSE topics
       /\ topicsByID' = IF last THEN topicsByID \ {i} ELSE topicsByID
       /\ IF last THEN Goto(c, "unregister") ELSE Return(c, "cleanup")
       /\ UNCHANGED <<platform, nextId, glock, codecVars, managerVars, sessionVars, attached, contested, faults>>

\* Mutant: the topic stays registered until the manager is done with it.
UnregisterLater(c) ==
    /\ client[c].pc = "unregister"
    /\ Goto(c, "munsubscribe")
    /\ UNCHANGED <<groupVars, codecVars, managerVars, sessionVars, attached, contested, faults>>

UnregisterTopic(c) ==
    /\ client[c].pc = "unregister"
    /\ Unregister(client[c].id)
    /\ Goto(c, "munsubscribe")
    /\ UNCHANGED <<groupVars, managerVars, sessionVars, attached, contested, faults>>

\* Mutant: an empty session stays in the manager's list.
RemoveNothing(s, i) == listed

\* removeSessionLocked: a session without topics leaves the list.
RemoveIfEmpty(s, i) == IF desired[s] = {i} THEN listed \ {s} ELSE listed

\* Manager.Unsubscribe: the tables under m.mu, then router.RemoveTopic, the UNSUB if
\* connected, session.stop if empty.  These come after the section, when no table knows the
\* topic or an emptied session any more (only a session that connects in between, without
\* topics, is not distinguished from one that was connected before).  The UNSUB
\* of a topic that is registered no more cannot be encoded, and that error skips the
\* stop; a session that was never started has no context to cancel.
ManagerUnsubscribe(c) ==
    LET i == client[c].id
        s == msubs[i]
        refused == sess[s] = "up" /\ ~Encodes(i)
        stops == desired[s] = {i} /\ ~refused /\ sess[s] # "off"
    IN /\ client[c].pc = "munsubscribe"
       /\ IF s = 0 THEN UNCHANGED <<msubs, desired, listed, attached, srv, stopped>>
          ELSE /\ msubs' = [msubs EXCEPT ![i] = 0]
               /\ desired' = [desired EXCEPT ![s] = @ \ {i}]
               /\ listed' = RemoveIfEmpty(s, i)
               /\ attached' = [attached EXCEPT ![i] = {}]
               /\ srv' = IF refused THEN srv ELSE [srv EXCEPT ![s] = @ \ {streamByID[i]}]
               /\ stopped' = IF stops THEN stopped \cup {s} ELSE stopped
       /\ Return(c, "cleanup")
       /\ UNCHANGED <<groupVars, codecVars, running, nextSession, snapshot, sess, closes, contested, faults>>

UnsubscribeStep(c) == \/ Unsubscribe(c) \/ CheckRemove(c) \/ Detach(c) \/ Drop(c) \/ UnregisterTopic(c)
                      \/ ManagerUnsubscribe(c)

-----------------------------------------------------------------------------
(* The manager and its sessions.                                           *)

\* Manager.Run under m.mu: its context is set, the sessions made so far are copied.
ManagerRun ==
    /\ ~running
    /\ \E c \in Clients : client[c].calls > 0
    /\ running' = TRUE
    /\ snapshot' = listed
    /\ UNCHANGED <<groupVars, codecVars, msubs, listed, nextSession, desired, sessionVars, attached,
                   client, contested, faults>>

\* Run's loop, without m.mu: by the time s is started, Subscribe may have started it, and
\* it may have lost its topics and ended.
RunStarts(s) ==
    /\ s \in snapshot
    /\ snapshot' = snapshot \ {s}
    /\ Start(s)
    /\ UNCHANGED <<groupVars, codecVars, running, msubs, listed, nextSession, desired, attached,
                   client, contested, faults>>

\* Mutant: a new connection starts without subscriptions.
ConnectOnly(s) ==
    /\ sess[s] = "down" /\ s \notin stopped
    /\ desired[s] # {}
    /\ sess' = [sess EXCEPT ![s] = "up"]
    /\ UNCHANGED <<groupVars, codecVars, managerVars, stopped, closes, srv, attached, client, contested, faults>>

\* session.run: dial, then resubscribe; one topic without an encoding makes it
\* hang up and try again later.
Connect(s) ==
    /\ sess[s] = "down" /\ s \notin stopped
    /\ desired[s] # {}
    /\ \A i \in desired[s] : Encodes(i)
    /\ sess' = [sess EXCEPT ![s] = "up"]
    /\ srv' = [srv EXCEPT ![s] = {streamByID[i] : i \in desired[s]}]
    /\ UNCHANGED <<groupVars, codecVars, managerVars, stopped, closes, attached, client, contested, faults>>

\* The connection breaks.
Break(s) ==
    /\ sess[s] = "up"
    /\ faults < MaxFaults
    /\ faults' = faults + 1
    /\ sess' = [sess EXCEPT ![s] = "down"]
    /\ srv' = [srv EXCEPT ![s] = {}]
    /\ UNCHANGED <<groupVars, codecVars, managerVars, stopped, closes, attached, client, contested>>

\* session.run returns: its context is done, or no topic is left at the top of
\* the loop.  Closing the done channel of a session that has ended before panics.
End(s) ==
    /\ \/ sess[s] = "down" /\ (s \in stopped \/ desired[s] = {})
       \/ sess[s] = "up" /\ s \in stopped
    /\ sess' = [sess EXCEPT ![s] = "done"]
    /\ closes' = [closes EXCEPT ![s] = @ + 1]
    /\ srv' = [srv EXCEPT ![s] = {}]
    /\ UNCHANGED <<groupVars, codecVars, managerVars, stopped, attached, client, contested, faults>>

\* The process is gone.
Panicked == \E s \in Sessions : closes[s] > 1

Next == /\ ~Panicked
        /\ \/ \E c \in Clients : \/ \E k \in Keys : Subscribe(c, k)
                                 \/ Disconnect(c) \/ SubscribeStep(c) \/ UnsubscribeStep(c)
           \/ ManagerRun
           \/ \E s \in Sessions : RunStarts(s) \/ Connect(s) \/ Break(s) \/ End(s)

Spec == Init /\ [][Next]_vars

-----------------------------------------------------------------------------
(* Properties.                                                             *)

\* A connection that is not in a call about k.
Settled(c, k) == ~InCall(c, Subscribing \cup Unsubscribing, k)

\* Usecase.Subscribe and Unsubscribe, DecodeTopic and the router together: a
\* connection gets the updates of exactly the streams it has subscribed, as long
\* as no Subscribe and Unsubscribe of the stream have overlapped and no other
\* topic took its lookup entry (on Binance: one of the same symbol).
ServedExactly ==
    \A k \in Keys \ contested, c \in Clients :
        /\ Settled(c, k)
        /\ \A j \in Shares(k) \ {k} : Settled(c, j) /\ j \notin client[c].subs
        => (c \in Receivers(k) <=> k \in client[c].subs)

\* What Usecase.Subscribe promises: once it has returned nil the consumer is
\* attached to the topic, whatever other connections do.
SubscribedIsAttached ==
    \A c \in Clients : \A k \in client[c].subs :
        Settled(c, k) => topics[k] # 0 /\ c \in attached[topics[k]]

\* A topic in the group's table is backed everywhere: it resolves, the codec can
\* encode it, its session is listed by the manager and not stopped.  This needs
\* the order of the removals in Unsubscribe, for every interleaving.
TopicBacked ==
    \A k \in Keys : topics[k] # 0 =>
        /\ topics[k] \in topicsByID
        /\ streamByID[topics[k]] = k
        /\ msubs[topics[k]] \in listed \ stopped

\* A lookup entry names a topic that is registered for what the entry stands for:
\* an update is never routed by a leftover of an earlier registration.
LookupHome == \A x \in Slots : lookup[x] # 0 =>
                  streamByID[lookup[x]] # NoKey /\ Slot(streamByID[lookup[x]]) = x

\* pickSessionLocked and removeSessionLocked keep the tables together: a topic is
\* desired by exactly the session it is on, a listed session has between one and
\* MaxTopicsPerConn topics, and the others have none.
SessionsBalanced ==
    /\ \A i \in Ids, s \in Sessions : msubs[i] = s <=> i \in desired[s]
    /\ \A s \in Sessions : IF s \in listed THEN Cardinality(desired[s]) \in 1 .. MaxTopicsPerConn
                                           ELSE desired[s] = {}

\* A session that has ended must not be started again: at its second end the done
\* channel is closed twice (session.go:58).  Only Run's loop does so, for a session of
\* its copy that others have started and emptied meanwhile; Subscribe never
\* does, and a session started again is one that no topic is on.
RestartedByRunOnly ==
    [][\A s \in Sessions : sess[s] = "done" /\ sess'[s] # "done" =>
           s \in snapshot \ listed /\ desired[s] = {} /\ desired'[s] = {}]_vars

\* A topic that is desired but can never be encoded, nor will be removed.
Poisoned(s) == \E i \in desired[s] : /\ ~Encodes(i)
                                     /\ \A c \in Clients : client[c].id # i

\* A step after which a session that holds such a topic still does, and has not got a
\* connection.
PoisonKept == \A s \in Sessions : Poisoned(s) => /\ Poisoned(s)'
                                                 /\ sess[s] # "up" => sess'[s] # "up"

\* What a failed Subscribe leaves behind: a session that holds a topic without
\* encoding stays so, and without a connection it never gets one again.
PoisonedForGood == [][PoisonKept]_vars

\* What comes of unregistering a topic before the manager unsubscribes it: the
\* exchange is never asked to stop a stream, it ends with its connection only.
StreamsNeverRetracted ==
    [][\A s \in Sessions : sess'[s] = "up" => srv[s] \subseteq srv'[s]]_vars
===============================================================================
