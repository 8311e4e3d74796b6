----------------------------- MODULE IngestProofs -----------------------------
(***************************************************************************)
(* Proofs about Ingest, for any finite set of connections, any kinds and   *)
(* markets, any number of ids, calls and faults and any limit of topics    *)
(* per session.                                                            *)
(***************************************************************************)
EXTENDS Ingest, FiniteSetTheorems, TLAPS

-----------------------------------------------------------------------------
(* The inductive invariant of the tables.                                  *)

\* The stages of a call: making a topic (with group.mu kept), joining a topic, holding
\* a reference that is to be given back, leaving a topic that has lost its last one.
Making == {"msubscribe", "start", "send"}
Joining == {"check", "attach", "count"}
Holding == {"rcheck", "detach", "drop"}
Leaving == {"unregister", "munsubscribe"}
InSub == Subscribing \cup Unsubscribing
WithId == InSub \ {"ensure"}
Labels == {"idle", "cleanup"} \cup Subscribing \cup Unsubscribing
ClientRecords == [pc : Labels, key : Keys \cup {NoKey}, id : 0 .. MaxIds,
                  subs : SUBSET Keys, calls : 0 .. MaxCalls]

\* A connection in a call has a key, which is not among its subscriptions, and after
\* ensureTopic an id that has been handed out; the others have neither.
CallShape ==
    \A c \in Clients :
        /\ client[c].pc \in InSub => client[c].key \in Keys /\ client[c].key \notin client[c].subs
        /\ client[c].pc \in WithId => client[c].id \in 1 .. nextId
        /\ client[c].pc \notin InSub => client[c].key = NoKey
        /\ client[c].pc \notin WithId => client[c].id = 0

\* Who makes a topic keeps group.mu.
LockHeld == \A c \in Clients : glock = c <=> client[c].pc \in Making

\* Nothing is known of an id that has not been handed out.
FreshIds == \A i \in Ids : i > nextId =>
                streamByID[i] = NoKey /\ msubs[i] = 0 /\ refCount[i] = 0 /\ attached[i] = {}

\* Nor of a session that has not been made, and there are no more of them than topics.
FreshSessions ==
    /\ \A s \in Sessions : s > nextSession =>
           s \notin listed /\ s \notin snapshot /\ s \notin stopped /\ sess[s] = "off"
    /\ nextSession <= nextId
    /\ \A c \in Clients : client[c].pc = "msubscribe" => nextSession < nextId

\* A topic in the making is known to its maker, the codec and, at last, the manager.
Maker(c) ==
    /\ streamByID[client[c].id] = client[c].key /\ topics[client[c].key] = 0
    /\ \A k \in Keys : topics[k] # client[c].id
    /\ refCount[client[c].id] = 0 /\ attached[client[c].id] = {}
    /\ \A d \in Clients : client[d].id = client[c].id => d = c
    /\ client[c].pc = "msubscribe" <=> msubs[client[c].id] = 0
NewTopics == \A c \in Clients : client[c].pc \in Making => Maker(c)

\* A topic about to be removed is in the group's table no more, then in the codec's.
OldTopics ==
    \A c \in Clients :
        /\ client[c].pc \in Leaving => \A k \in Keys : topics[k] # client[c].id
        /\ client[c].pc = "munsubscribe" => streamByID[client[c].id] = NoKey

\* An id is registered for the key of the calls that use it, or not at all.
OwnKey == \A c \in Clients : client[c].id # 0 /\ streamByID[client[c].id] # NoKey
                             => streamByID[client[c].id] = client[c].key

\* A listed session is alive (one that Run's copy holds need not be), and streams come
\* over a connection only.
SessionStates ==
    /\ \A s \in listed : s \notin stopped /\ sess[s] # "done"
    /\ \A s \in Sessions : sess[s] # "up" => srv[s] = {}

Tables == FreshIds /\ FreshSessions /\ SessionStates /\ SessionsBalanced /\ LookupHome /\ TopicBacked
InCalls == CallShape /\ LockHeld /\ NewTopics /\ OldTopics /\ OwnKey
IInv == TypeOK /\ Tables /\ InCalls

-----------------------------------------------------------------------------
(* Keys, lookup entries and the steps of a connection.                     *)

\* A key is a pair, so it is not NoKey.
LEMMA NoKeyIsNone == NoKey \notin Keys
BY DEF NoKey, Keys

\* A key's lookup entry is one of the two codecs' entries.
LEMMA SlotType == ASSUME NEW k \in Keys PROVE Slot(k) \in Slots
BY DEF Slot, Slots, BtccSlot, BinanceSlot, Keys

\* Connection c is now at p with key k, id i and subscriptions s.
Moved(c, p, k, i, s) ==
    /\ client' \in [Clients -> ClientRecords]
    /\ client'[c].pc = p /\ client'[c].key = k /\ client'[c].id = i /\ client'[c].subs = s
    /\ \A d \in Clients : d # c => client'[d] = client[d]

\* Every connection has a record of the right type.
LEMMA ClientType == TypeOK => client \in [Clients -> ClientRecords]
BY DEF TypeOK, ClientRecords, Labels

\* Goto changes the label of its connection and nothing else of any connection.
LEMMA GotoMoved ==
    ASSUME TypeOK, NEW c \in Clients, NEW p \in Labels, Goto(c, p)
    PROVE  Moved(c, p, client[c].key, client[c].id, client[c].subs)
BY ClientType DEF Goto, Moved, ClientRecords

\* Return forgets the key and the id of its call.
LEMMA ReturnMoved ==
    ASSUME TypeOK, NEW c \in Clients, NEW p \in Labels, Return(c, p)
    PROVE  Moved(c, p, NoKey, 0, client[c].subs)
<1> DEFINE r == Finished(client[c], p)
<1>1. client[c] \in ClientRecords /\ 0 \in 0 .. MaxIds
  BY ClientType, IngestAssumption
<1>2. r \in ClientRecords /\ r.pc = p /\ r.key = NoKey /\ r.id = 0 /\ r.subs = client[c].subs
  BY <1>1 DEF ClientRecords, Finished
<1>3. client' = [client EXCEPT ![c] = r]
  BY DEF Return
<1> HIDE DEF r
<1> QED
  BY <1>2, <1>3, ClientType DEF Moved

\* Subscribe takes up a key.
LEMMA SubscribeMoved ==
    ASSUME TypeOK, NEW c \in Clients, NEW k \in Keys, Subscribe(c, k)
    PROVE  Moved(c, "ensure", k, client[c].id, client[c].subs)
<1>1. client[c].calls + 1 \in 0 .. MaxCalls
  BY ClientType, IngestAssumption DEF Subscribe, ClientRecords
<1>2. "ensure" \in Labels
  BY DEF Labels, Subscribing
<1> QED
  BY <1>1, <1>2, ClientType DEF Subscribe, Moved, ClientRecords

\* ensureTopic ends with an id.
LEMMA WithIdMoved ==
    ASSUME TypeOK, NEW c \in Clients, NEW p \in Labels, NEW i \in 0 .. MaxIds,
           client' = [client EXCEPT ![c].pc = p, ![c].id = i]
    PROVE  Moved(c, p, client[c].key, i, client[c].subs)
BY ClientType DEF Moved, ClientRecords

\* The last step of Subscribe adds its key to the connection's subscriptions.
LEMMA CountMoved ==
    ASSUME TypeOK, NEW c \in Clients, Count(c), client[c].key \in Keys
    PROVE  Moved(c, "idle", NoKey, 0, client[c].subs \cup {client[c].key})
<1> DEFINE r == [Finished(client[c], "idle") EXCEPT !.subs = client[c].subs \cup {client[c].key}]
<1>1. "idle" \in Labels /\ client[c] \in ClientRecords /\ 0 \in 0 .. MaxIds
  BY ClientType, IngestAssumption DEF Labels
<1>2. /\ r \in ClientRecords
      /\ r.pc = "idle" /\ r.key = NoKey /\ r.id = 0 /\ r.subs = client[c].subs \cup {client[c].key}
  BY <1>1 DEF ClientRecords, Finished
<1>3. client' = [client EXCEPT ![c] = r]
  BY ClientType DEF Count, Finished
<1> HIDE DEF r
<1> QED
  BY <1>2, <1>3, ClientType DEF Moved

\* Unsubscribe takes a key from the subscriptions: it ends there when the key has no
\* topic, and goes on with the topic's id when it has one.
LEMMA UnsubscribeMoved ==
    ASSUME TypeOK, NEW c \in Clients, Unsubscribe(c)
    PROVE  \E k \in client[c].subs :
               /\ contested' = Contest(k, Subscribing)
               /\ \/ topics[k] = 0 /\ Moved(c, "cleanup", client[c].key, client[c].id, client[c].subs \ {k})
                  \/ topics[k] # 0 /\ Moved(c, "rcheck", k, topics[k], client[c].subs \ {k})
<1> DEFINE left(k) == [client[c] EXCEPT !.subs = @ \ {k}]
           call(k) == [left(k) EXCEPT !.pc = "rcheck", !.key = k, !.id = topics[k]]
<1>1. PICK k \in client[c].subs :
          /\ contested' = Contest(k, Subscribing)
          /\ client' = [client EXCEPT ![c] = IF topics[k] = 0 THEN left(k) ELSE call(k)]
  BY DEF Unsubscribe
<1>2. client[c] \in ClientRecords /\ client[c].pc = "cleanup" /\ k \in Keys
  BY ClientType DEF ClientRecords, Unsubscribe
<1>3. /\ left(k) \in ClientRecords
      /\ left(k).pc = "cleanup" /\ left(k).key = client[c].key /\ left(k).id = client[c].id
      /\ left(k).subs = client[c].subs \ {k}
  BY <1>2 DEF ClientRecords
<1>4. "rcheck" \in Labels /\ topics[k] \in 0 .. MaxIds
  BY <1>2 DEF Labels, Unsubscribing, TypeOK
<1>5. /\ call(k) \in ClientRecords
      /\ call(k).pc = "rcheck" /\ call(k).key = k /\ call(k).id = topics[k]
      /\ call(k).subs = client[c].subs \ {k}
  BY <1>2, <1>3, <1>4 DEF ClientRecords
<1> HIDE DEF left, call
<1>6. CASE topics[k] = 0
  BY <1>1, <1>3, <1>6, ClientType DEF Moved
<1>7. CASE topics[k] # 0
  BY <1>1, <1>5, <1>7, ClientType DEF Moved
<1> QED
  BY <1>1, <1>6, <1>7

-----------------------------------------------------------------------------
(* Types.                                                                  *)

\* TypeOK but for the connections.
RestOK ==
    /\ platform \in Platforms /\ nextId \in 0 .. MaxIds /\ glock \in Clients \cup {Nobody}
    /\ topics \in [Keys -> 0 .. MaxIds] /\ topicsByID \subseteq Ids /\ refCount \in [Ids -> Int]
    /\ streamByID \in [Ids -> Keys \cup {NoKey}] /\ lookup \in [Slots -> 0 .. MaxIds]
    /\ running \in BOOLEAN /\ msubs \in [Ids -> 0 .. MaxIds]
    /\ listed \subseteq Sessions /\ nextSession \in 0 .. MaxIds /\ desired \in [Sessions -> SUBSET Ids]
    /\ snapshot \subseteq Sessions /\ closes \in [Sessions -> 0 .. 2]
    /\ sess \in [Sessions -> {"off", "down", "up", "done"}] /\ stopped \subseteq Sessions
    /\ srv \in [Sessions -> SUBSET Keys] /\ attached \in [Ids -> SUBSET Clients]
    /\ contested \subseteq Keys /\ faults \in 0 .. MaxFaults

\* The type invariant is the connections' part and the rest.
LEMMA TypeSplit == TypeOK <=> RestOK /\ client \in [Clients -> ClientRecords]
BY DEF TypeOK, RestOK, ClientRecords, Labels

\* The same of the next state.
LEMMA TypeSplitNext == RestOK' /\ client' \in [Clients -> ClientRecords] => TypeOK'
BY DEF TypeOK, RestOK, ClientRecords, Labels

\* A call contests a key that another connection is busy with, and leaves the others.
LEMMA ContestIs ==
    ASSUME NEW k \in Keys, NEW o
    PROVE  /\ contested \subseteq Contest(k, o) /\ Contest(k, o) \subseteq contested \cup Shares(k)
           /\ Shares(k) \subseteq Keys
           /\ (\E d \in Clients : InCall(d, o, k)) => Shares(k) \subseteq Contest(k, o)
BY DEF Contest, Shares

\* Every stage of a call is a label.
LEMMA LabelsAre == Subscribing \subseteq Labels /\ Unsubscribing \subseteq Labels /\ {"idle", "cleanup"} \subseteq Labels
BY DEF Labels

\* What a call works on: in each stage the key, and after ensureTopic the id.
LEMMA AtWork ==
    ASSUME IInv, NEW c \in Clients
    PROVE  /\ client[c].pc \in InSub => client[c].key \in Keys
           /\ client[c].pc \in WithId => client[c].id \in Ids
BY DEF IInv, InCalls, CallShape, TypeOK, Ids

\* pickSessionLocked finds a session that exists or makes the next one.
LEMMA PicksType ==
    ASSUME IInv, NEW c \in Clients, client[c].pc = "msubscribe", NEW s \in Picks
    PROVE  /\ s \in Sessions /\ nextSession < MaxIds
           /\ \/ s \in listed /\ s <= nextSession /\ Cardinality(desired[s]) < MaxTopicsPerConn
              \/ s = nextSession + 1 /\ s \notin listed
<1>1. nextSession \in Nat /\ nextId \in 0 .. MaxIds /\ nextSession < nextId /\ listed \subseteq Sessions
  BY DEF IInv, TypeOK, Tables, FreshSessions
<1>2. MaxIds \in Nat
  BY IngestAssumption
<1>3. \A t \in listed : t \in Sessions /\ t <= nextSession
  BY <1>1 DEF IInv, Tables, FreshSessions, Sessions
<1>4. CASE s \in HasRoom
  BY <1>1, <1>2, <1>3, <1>4 DEF HasRoom
<1>5. CASE s = nextSession + 1
  BY <1>1, <1>2, <1>3, <1>5 DEF Sessions
<1> QED
  BY <1>4, <1>5 DEF Picks

\* Where Subscribe goes.
LEMMA SubscribeMoves ==
    ASSUME IInv, NEW c \in Clients
    PROVE  /\ FindTopic(c) => Moved(c, "check", client[c].key, topics[client[c].key], client[c].subs)
           /\ NewTopic(c) => Moved(c, "msubscribe", client[c].key, nextId + 1, client[c].subs)
           /\ ManagerSubscribe(c) => \/ Moved(c, "start", client[c].key, client[c].id, client[c].subs)
                                     \/ Moved(c, "send", client[c].key, client[c].id, client[c].subs)
           /\ StartSession(c) => Moved(c, "send", client[c].key, client[c].id, client[c].subs)
           /\ SendOK(c) => Moved(c, "check", client[c].key, client[c].id, client[c].subs)
           /\ SendFails(c) => Moved(c, "cleanup", NoKey, 0, client[c].subs)
           /\ CheckTopic(c) => \/ Moved(c, "cleanup", NoKey, 0, client[c].subs)
                               \/ Moved(c, "attach", client[c].key, client[c].id, client[c].subs)
           /\ Attach(c) => Moved(c, "count", client[c].key, client[c].id, client[c].subs)
           /\ Count(c) => Moved(c, "idle", NoKey, 0, client[c].subs \cup {client[c].key})
<1>0. TypeOK /\ {"check", "msubscribe", "start", "send", "cleanup", "attach", "count"} \subseteq Labels
  BY LabelsAre DEF IInv, Subscribing
<1>1. ASSUME FindTopic(c) PROVE Moved(c, "check", client[c].key, topics[client[c].key], client[c].subs)
  <2>1. topics[client[c].key] \in 0 .. MaxIds
    BY <1>0, <1>1, AtWork DEF FindTopic, TypeOK, InSub, Subscribing
  <2> QED
    BY <1>0, <1>1, <2>1, WithIdMoved DEF FindTopic
<1>2. ASSUME NewTopic(c) PROVE Moved(c, "msubscribe", client[c].key, nextId + 1, client[c].subs)
  <2>1. nextId + 1 \in 0 .. MaxIds
    BY <1>0, <1>2, IngestAssumption DEF NewTopic, TypeOK
  <2> QED
    BY <1>0, <1>2, <2>1, WithIdMoved DEF NewTopic
<1>3. ASSUME Count(c) PROVE Moved(c, "idle", NoKey, 0, client[c].subs \cup {client[c].key})
  BY <1>0, <1>3, CountMoved, AtWork DEF Count, InSub, Subscribing
<1>4. ASSUME ManagerSubscribe(c)
      PROVE  \/ Moved(c, "start", client[c].key, client[c].id, client[c].subs)
             \/ Moved(c, "send", client[c].key, client[c].id, client[c].subs)
  BY <1>0, <1>4, GotoMoved DEF ManagerSubscribe
<1> QED
  BY <1>0, <1>1, <1>2, <1>3, <1>4, GotoMoved, ReturnMoved DEF StartSession, SendOK, SendFails, CheckTopic, Attach

\* Where Unsubscribe goes.
LEMMA UnsubscribeMoves ==
    ASSUME IInv, NEW c \in Clients
    PROVE  /\ Disconnect(c) => Moved(c, "cleanup", client[c].key, client[c].id, client[c].subs)
           /\ CheckRemove(c) => \/ Moved(c, "cleanup", NoKey, 0, client[c].subs)
                                \/ Moved(c, "detach", client[c].key, client[c].id, client[c].subs)
           /\ Detach(c) => Moved(c, "drop", client[c].key, client[c].id, client[c].subs)
           /\ Drop(c) => \/ /\ refCount[client[c].id] <= 1
                            /\ Moved(c, "unregister", client[c].key, client[c].id, client[c].subs)
                         \/ /\ ~(refCount[client[c].id] <= 1)
                            /\ Moved(c, "cleanup", NoKey, 0, client[c].subs)
           /\ UnregisterTopic(c) => Moved(c, "munsubscribe", client[c].key, client[c].id, client[c].subs)
           /\ ManagerUnsubscribe(c) => Moved(c, "cleanup", NoKey, 0, client[c].subs)
<1>0. TypeOK /\ {"cleanup", "detach", "drop", "unregister", "munsubscribe"} \subseteq Labels
  BY LabelsAre DEF IInv, Unsubscribing
<1>1. Drop(c) => \/ /\ refCount[client[c].id] <= 1
                    /\ Moved(c, "unregister", client[c].key, client[c].id, client[c].subs)
                 \/ /\ ~(refCount[client[c].id] <= 1)
                    /\ Moved(c, "cleanup", NoKey, 0, client[c].subs)
  BY <1>0, GotoMoved, ReturnMoved DEF Drop
<1> QED
  BY <1>0, <1>1, GotoMoved, ReturnMoved
     DEF Disconnect, CheckRemove, Detach, UnregisterTopic, ManagerUnsubscribe

\* Starting a session keeps the types, and is felt by a session that is idle only.
LEMMA StartType ==
    ASSUME RestOK, NEW s, Start(s)
    PROVE  /\ sess' \in [Sessions -> {"off", "down", "up", "done"}]
           /\ stopped' \subseteq stopped /\ closes' = closes /\ srv' = srv
           /\ \A t \in Sessions : \/ sess'[t] = sess[t]
                                  \/ t = s /\ sess[t] \in {"off", "done"} /\ sess'[t] = "down"
BY DEF RestOK, Start, Idle

\* The steps of Subscribe preserve the type invariant.
LEMMA SubscribeTypes == ASSUME IInv, NEW c \in Clients, SubscribeStep(c) PROVE TypeOK'
<1> USE DEF groupVars, codecVars, managerVars, sessionVars
<1>0. RestOK /\ MaxIds \in Nat /\ MaxFaults \in Nat
  BY TypeSplit, IngestAssumption DEF IInv
<1>1. client' \in [Clients -> ClientRecords]
  BY SubscribeMoves DEF SubscribeStep, Moved
<1>2. /\ client[c].pc \in Subscribing => client[c].key \in Keys
      /\ client[c].pc \in {"msubscribe", "start", "send", "check", "attach", "count"} => client[c].id \in Ids
  BY AtWork DEF InSub, WithId, Subscribing
<1>3. CASE FindTopic(c) \/ CheckTopic(c)
  <2>1. RestOK'
    BY <1>0, <1>3 DEF RestOK, FindTopic, CheckTopic
  <2> QED
    BY <1>1, <2>1, TypeSplitNext
<1>4. CASE NewTopic(c)
  <2>1. client[c].key \in Keys /\ Slot(client[c].key) \in Slots /\ nextId + 1 \in Ids /\ nextId + 1 \in 0 .. MaxIds
    BY <1>0, <1>2, <1>4, SlotType DEF NewTopic, Subscribing, RestOK, Ids
  <2>2. contested' \subseteq Keys
    BY <1>0, <1>4, <2>1 DEF NewTopic, RestOK, Shares
  <2>3. streamByID' \in [Ids -> Keys \cup {NoKey}] /\ lookup' \in [Slots -> 0 .. MaxIds]
    BY <1>0, <1>4, <2>1 DEF NewTopic, Register, RestOK
  <2>4. RestOK'
    BY <1>0, <1>4, <2>1, <2>2, <2>3 DEF NewTopic, RestOK
  <2> QED
    BY <1>1, <2>4, TypeSplitNext
<1>5. CASE ManagerSubscribe(c)
  <2>1. PICK s \in Picks :
            /\ msubs' = [msubs EXCEPT ![client[c].id] = s]
            /\ listed' = listed \cup {s}
            /\ nextSession' = IF s > nextSession THEN s ELSE nextSession
            /\ desired' = [desired EXCEPT ![s] = @ \cup {client[c].id}]
    BY <1>5 DEF ManagerSubscribe
  <2>2. s \in Sessions /\ s \in 0 .. MaxIds /\ client[c].id \in Ids
    BY <1>0, <1>2, <1>5, PicksType DEF ManagerSubscribe, Sessions
  <2>3. desired' \in [Sessions -> SUBSET Ids] /\ msubs' \in [Ids -> 0 .. MaxIds]
    BY <1>0, <2>1, <2>2 DEF RestOK
  <2>4. listed' \subseteq Sessions /\ nextSession' \in 0 .. MaxIds
    BY <1>0, <2>1, <2>2 DEF RestOK
  <2>5. RestOK'
    BY <1>0, <1>5, <2>3, <2>4 DEF ManagerSubscribe, RestOK
  <2> QED
    BY <1>1, <2>5, TypeSplitNext
<1>6. CASE SendOK(c)
  <2>1. client[c].key \in Keys /\ client[c].id \in Ids /\ client[c].id \in 0 .. MaxIds
    BY <1>0, <1>2, <1>6 DEF SendOK, Subscribing, Ids
  <2>2. srv' \in [Sessions -> SUBSET Keys]
    BY <1>0, <1>6, <2>1 DEF SendOK, RestOK
  <2>3. RestOK'
    BY <1>0, <1>6, <2>1, <2>2 DEF SendOK, RestOK
  <2> QED
    BY <1>1, <2>3, TypeSplitNext
<1>7. CASE SendFails(c)
  <2>1. client[c].id \in Ids
    BY <1>2, <1>7 DEF SendFails
  <2>2. streamByID' \in [Ids -> Keys \cup {NoKey}] /\ lookup' \in [Slots -> 0 .. MaxIds]
    BY <1>0, <1>7, <2>1, SlotType DEF SendFails, Unregister, RestOK
  <2>3. faults' \in 0 .. MaxFaults
    BY <1>0, <1>7 DEF SendFails, RestOK
  <2>4. RestOK'
    BY <1>0, <1>7, <2>2, <2>3 DEF SendFails, RestOK
  <2> QED
    BY <1>1, <2>4, TypeSplitNext
<1>8. CASE Attach(c)
  <2>1. RestOK'
    BY <1>0, <1>2, <1>8 DEF Attach, RestOK
  <2> QED
    BY <1>1, <2>1, TypeSplitNext
<1>9. CASE Count(c)
  <2>1. refCount' \in [Ids -> Int]
    BY <1>0, <1>2, <1>9 DEF Count, RestOK
  <2>2. RestOK'
    BY <1>0, <1>9, <2>1 DEF Count, RestOK
  <2> QED
    BY <1>1, <2>2, TypeSplitNext
<1>10. CASE StartSession(c)
  <2>1. Start(msubs[client[c].id])
    BY <1>10 DEF StartSession
  <2>2. UNCHANGED <<groupVars, codecVars, managerVars, attached, contested, faults>>
    BY <1>10 DEF StartSession
  <2>3. RestOK'
    BY <1>0, <2>1, <2>2, StartType DEF RestOK
  <2> QED
    BY <1>1, <2>3, TypeSplitNext
<1> QED
  BY <1>3, <1>4, <1>5, <1>6, <1>7, <1>8, <1>9, <1>10 DEF SubscribeStep

\* So do the steps of Unsubscribe and the end of a connection.
LEMMA UnsubscribeTypes == ASSUME IInv, NEW c \in Clients, UnsubscribeStep(c) \/ Disconnect(c) PROVE TypeOK'
<1> USE DEF groupVars, codecVars, managerVars, sessionVars
<1>0. RestOK /\ MaxIds \in Nat /\ TypeOK
  BY TypeSplit, IngestAssumption DEF IInv
<1>1. client' \in [Clients -> ClientRecords]
  BY <1>0, UnsubscribeMoves, UnsubscribeMoved DEF UnsubscribeStep, Moved
<1>2. client[c].pc \in Unsubscribing => client[c].key \in Keys /\ client[c].id \in Ids
  BY AtWork DEF InSub, WithId, Unsubscribing
<1>3. CASE Disconnect(c) \/ CheckRemove(c)
  <2>1. RestOK'
    BY <1>0, <1>3 DEF RestOK, Disconnect, CheckRemove
  <2> QED
    BY <1>1, <2>1, TypeSplitNext
<1>4. CASE Unsubscribe(c)
  <2>1. PICK k \in client[c].subs : contested' = Contest(k, Subscribing)
    BY <1>0, <1>4, UnsubscribeMoved
  <2>2. k \in Keys
    BY <1>0, <2>1, ClientType DEF ClientRecords
  <2>3. contested' \subseteq Keys
    BY <1>0, <2>1, <2>2, ContestIs DEF RestOK
  <2>4. RestOK'
    BY <1>0, <1>4, <2>3 DEF Unsubscribe, RestOK
  <2> QED
    BY <1>1, <2>4, TypeSplitNext
<1>5. CASE Detach(c)
  <2>1. RestOK'
    BY <1>0, <1>2, <1>5 DEF Detach, RestOK, Unsubscribing
  <2> QED
    BY <1>1, <2>1, TypeSplitNext
<1>6. CASE Drop(c)
  <2>1. client[c].key \in Keys /\ client[c].id \in Ids
    BY <1>2, <1>6 DEF Drop, Unsubscribing
  <2>2. refCount' \in [Ids -> Int] /\ topics' \in [Keys -> 0 .. MaxIds] /\ topicsByID' \subseteq Ids
    BY <1>0, <1>6, <2>1 DEF Drop, RestOK
  <2>3. RestOK'
    BY <1>0, <1>6, <2>2 DEF Drop, RestOK
  <2> QED
    BY <1>1, <2>3, TypeSplitNext
<1>7. CASE UnregisterTopic(c)
  <2>1. client[c].id \in Ids
    BY <1>2, <1>7 DEF UnregisterTopic, Unsubscribing
  <2>2. streamByID' \in [Ids -> Keys \cup {NoKey}] /\ lookup' \in [Slots -> 0 .. MaxIds]
    BY <1>0, <1>7, <2>1, SlotType DEF UnregisterTopic, Unregister, RestOK
  <2>3. RestOK'
    BY <1>0, <1>7, <2>2 DEF UnregisterTopic, RestOK
  <2> QED
    BY <1>1, <2>3, TypeSplitNext
<1>8. CASE ManagerUnsubscribe(c)
  <2>1. client[c].id \in Ids
    BY <1>2, <1>8 DEF ManagerUnsubscribe, Unsubscribing
  <2>2. CASE msubs[client[c].id] = 0
    <3>1. RestOK'
      BY <1>0, <1>8, <2>2 DEF ManagerUnsubscribe, RestOK
    <3> QED
      BY <1>1, <3>1, TypeSplitNext
  <2>3. CASE msubs[client[c].id] # 0
    <3> DEFINE t == msubs[client[c].id]
    <3>1. t \in Sessions
      BY <1>0, <2>1, <2>3 DEF RestOK, Sessions
    <3>2. /\ msubs' = [msubs EXCEPT ![client[c].id] = 0]
          /\ desired' = [desired EXCEPT ![t] = @ \ {client[c].id}]
          /\ listed' \subseteq listed
          /\ attached' = [attached EXCEPT ![client[c].id] = {}]
          /\ srv' = srv \/ srv' = [srv EXCEPT ![t] = @ \ {streamByID[client[c].id]}]
          /\ stopped' \subseteq stopped \cup {t}
      BY <1>8, <2>3 DEF ManagerUnsubscribe, RemoveIfEmpty
    <3>3. UNCHANGED <<groupVars, codecVars, running, nextSession, snapshot, sess, closes, contested, faults>>
      BY <1>8 DEF ManagerUnsubscribe
    <3> HIDE DEF t
    <3>4. desired' \in [Sessions -> SUBSET Ids] /\ srv' \in [Sessions -> SUBSET Keys]
      BY <1>0, <3>1, <3>2 DEF RestOK
    <3>5. msubs' \in [Ids -> 0 .. MaxIds] /\ attached' \in [Ids -> SUBSET Clients]
      BY <1>0, <2>1, <3>2 DEF RestOK
    <3>6. RestOK'
      BY <1>0, <3>1, <3>2, <3>3, <3>4, <3>5 DEF RestOK
    <3> QED
      BY <1>1, <3>6, TypeSplitNext
  <2> QED
    BY <2>2, <2>3
<1> QED
  BY <1>3, <1>4, <1>5, <1>6, <1>7, <1>8 DEF UnsubscribeStep

\* Every step keeps the types.
LEMMA TypeStep == ASSUME IInv, [Next]_vars PROVE TypeOK'
<1> USE DEF groupVars, codecVars, managerVars, sessionVars
<1>0. RestOK /\ TypeOK /\ client \in [Clients -> ClientRecords]
  BY TypeSplit DEF IInv
<1>1. ASSUME NEW c \in Clients, NEW k \in Keys, Subscribe(c, k) PROVE TypeOK'
  <2>1. contested' \subseteq Keys
    BY <1>0, <1>1, ContestIs DEF Subscribe, RestOK
  <2>2. RestOK' /\ client' \in [Clients -> ClientRecords]
    BY <1>0, <1>1, <2>1, SubscribeMoved DEF Subscribe, RestOK, Moved
  <2> QED
    BY <2>2, TypeSplitNext
<1>2. CASE ManagerRun
  <2>1. RestOK' /\ client' \in [Clients -> ClientRecords]
    BY <1>0, <1>2 DEF ManagerRun, RestOK
  <2> QED
    BY <2>1, TypeSplitNext
<1>3. ASSUME NEW s \in Sessions, Connect(s) PROVE TypeOK'
  <2>1. {streamByID[i] : i \in desired[s]} \subseteq Keys
    BY <1>0, <1>3 DEF RestOK, Connect, Encodes
  <2>2. srv' \in [Sessions -> SUBSET Keys]
    BY <1>0, <1>3, <2>1 DEF RestOK, Connect
  <2>3. RestOK' /\ client' \in [Clients -> ClientRecords]
    BY <1>0, <1>3, <2>2 DEF Connect, RestOK
  <2> QED
    BY <2>3, TypeSplitNext
<1>4. ASSUME NEW s \in Sessions, Break(s) \/ (End(s) /\ ~Panicked) PROVE TypeOK'
  <2>1. faults' \in 0 .. MaxFaults
    BY <1>0, <1>4, IngestAssumption DEF RestOK, Break, End
  <2>2. closes' \in [Sessions -> 0 .. 2]
    <3>1. ~Panicked => closes[s] + 1 \in 0 .. 2
      BY <1>0 DEF RestOK, Panicked
    <3> QED
      BY <1>0, <1>4, <3>1 DEF RestOK, Break, End
  <2>3. RestOK' /\ client' \in [Clients -> ClientRecords]
    BY <1>0, <1>4, <2>1, <2>2 DEF Break, End, RestOK
  <2> QED
    BY <2>3, TypeSplitNext
<1>5. CASE UNCHANGED vars
  <2>1. RestOK' /\ client' \in [Clients -> ClientRecords]
    BY <1>0, <1>5 DEF vars, RestOK
  <2> QED
    BY <2>1, TypeSplitNext
<1>6. ASSUME NEW s \in Sessions, RunStarts(s) PROVE TypeOK'
  <2>1. Start(s) /\ snapshot' \subseteq snapshot
    BY <1>6 DEF RunStarts
  <2>2. UNCHANGED <<groupVars, codecVars, running, msubs, listed, nextSession, desired, attached,
                    client, contested, faults>>
    BY <1>6 DEF RunStarts
  <2>3. RestOK' /\ client' \in [Clients -> ClientRecords]
    BY <1>0, <2>1, <2>2, StartType DEF RestOK
  <2> QED
    BY <2>3, TypeSplitNext
<1> QED
  BY <1>1, <1>2, <1>3, <1>4, <1>5, <1>6, SubscribeTypes, UnsubscribeTypes DEF Next

-----------------------------------------------------------------------------
(* The manager's tables and the sessions.                                  *)

SessionInv == FreshSessions /\ SessionStates /\ SessionsBalanced

\* What holds of the sessions' tables by their types.
LEMMA SessionFacts ==
    ASSUME IInv
    PROVE  /\ MaxIds \in Nat /\ nextId \in 0 .. MaxIds /\ nextSession \in 0 .. MaxIds
           /\ listed \subseteq Sessions /\ snapshot \subseteq Sessions /\ stopped \subseteq Sessions
           /\ msubs \in [Ids -> 0 .. MaxIds] /\ desired \in [Sessions -> SUBSET Ids]
           /\ sess \in [Sessions -> {"off", "down", "up", "done"}] /\ srv \in [Sessions -> SUBSET Keys]
           /\ \A s \in Sessions : IsFiniteSet(desired[s]) /\ Cardinality(desired[s]) \in Nat
           /\ MaxTopicsPerConn \in Nat /\ MaxTopicsPerConn >= 1
<1>1. IsFiniteSet(Ids) /\ MaxIds \in Nat /\ MaxTopicsPerConn \in Nat /\ MaxTopicsPerConn >= 1
  BY FS_Interval, IngestAssumption DEF Ids
<1>2. desired \in [Sessions -> SUBSET Ids]
  BY DEF IInv, TypeOK
<1>3. \A s \in Sessions : IsFiniteSet(desired[s]) /\ Cardinality(desired[s]) \in Nat
  BY <1>1, <1>2, FS_Subset, FS_CardinalityType
<1> QED
  BY <1>1, <1>2, <1>3 DEF IInv, TypeOK

\* Only the holder of group.mu makes a topic.
LEMMA OneMaker ==
    ASSUME IInv, NEW c \in Clients, NEW d \in Clients, client[c].pc \in Making, client[d].pc \in Making
    PROVE  c = d
BY DEF IInv, InCalls, LockHeld

\* Steps that leave the manager and the sessions alone.
LEMMA QuietSessions ==
    ASSUME IInv, UNCHANGED <<msubs, listed, nextSession, desired, snapshot, sess, stopped, srv>>,
           nextId' \in Nat, nextId <= nextId',
           \A d \in Clients : client'[d].pc = "msubscribe" => client[d].pc = "msubscribe" \/ nextId < nextId'
    PROVE  SessionInv'
<1>1. nextSession \in Nat /\ nextId \in Nat /\ nextSession <= nextId
  BY SessionFacts DEF IInv, Tables, FreshSessions
<1>2. FreshSessions'
  <2>1. \A d \in Clients : client'[d].pc = "msubscribe" => nextSession' < nextId'
    BY <1>1 DEF IInv, Tables, FreshSessions
  <2> QED
    BY <1>1, <2>1 DEF IInv, Tables, FreshSessions
<1>3. SessionStates' /\ SessionsBalanced'
  BY DEF IInv, Tables, SessionStates, SessionsBalanced
<1> QED
  BY <1>2, <1>3 DEF SessionInv

\* A topic joins a session.
LEMMA ManagerSubscribeSessions == ASSUME IInv, NEW c \in Clients, ManagerSubscribe(c) PROVE SessionInv'
<1> DEFINE i == client[c].id
<1>1. PICK s \in Picks :
          /\ msubs' = [msubs EXCEPT ![i] = s]
          /\ listed' = listed \cup {s}
          /\ nextSession' = IF s > nextSession THEN s ELSE nextSession
          /\ desired' = [desired EXCEPT ![s] = @ \cup {i}]
  BY DEF ManagerSubscribe
<1>2. client[c].pc = "msubscribe" /\ UNCHANGED <<snapshot, sess, stopped, srv, nextId>>
  BY DEF ManagerSubscribe, groupVars, sessionVars
<1>3. i \in Ids /\ msubs[i] = 0
  BY <1>2, AtWork DEF IInv, InCalls, NewTopics, Maker, Making, WithId, InSub, Subscribing
<1>4. /\ s \in Sessions /\ s \in Nat /\ nextSession < nextId /\ nextSession \in Nat
      /\ \/ s \in listed /\ s <= nextSession /\ Cardinality(desired[s]) < MaxTopicsPerConn
         \/ s = nextSession + 1 /\ s \notin listed
  BY <1>2, PicksType, SessionFacts DEF Sessions, IInv, Tables, FreshSessions
<1> HIDE DEF i
<1>5. SessionsBalanced /\ FreshSessions /\ SessionStates
  BY DEF IInv, Tables
<1>6. \A t \in Sessions : t # 0 /\ t \in Nat
  BY SessionFacts DEF Sessions
<1>7. \A t \in Sessions : i \notin desired[t]
  BY <1>3, <1>5, <1>6 DEF SessionsBalanced
<1>8. SessionsBalanced'
  <2>1. \A j \in Ids, t \in Sessions : msubs'[j] = t <=> j \in desired'[t]
    BY <1>1, <1>3, <1>4, <1>5, <1>7, SessionFacts DEF SessionsBalanced
  <2>2. Cardinality(desired'[s]) = Cardinality(desired[s]) + 1
    <3>1. desired'[s] = desired[s] \cup {i}
      BY <1>1, <1>4, SessionFacts
    <3> QED
      BY <1>4, <1>7, <3>1, SessionFacts, FS_AddElement
  <2>3. Cardinality(desired[s]) < MaxTopicsPerConn
    <3>1. CASE s \notin listed
      <4>1. desired[s] = {}
        BY <1>4, <1>5, <3>1 DEF SessionsBalanced
      <4> QED
        BY <4>1, FS_EmptySet, SessionFacts
    <3> QED
      BY <1>4, <3>1
  <2>4. Cardinality(desired'[s]) \in 1 .. MaxTopicsPerConn
    BY <1>4, <2>2, <2>3, SessionFacts
  <2>5. \A t \in Sessions : t # s => desired'[t] = desired[t]
    BY <1>1, SessionFacts
  <2>6. \A t \in Sessions : IF t \in listed' THEN Cardinality(desired'[t]) \in 1 .. MaxTopicsPerConn ELSE desired'[t] = {}
    BY <1>1, <1>5, <2>4, <2>5 DEF SessionsBalanced
  <2> QED
    BY <2>1, <2>6 DEF SessionsBalanced
<1>9. s \notin stopped /\ sess[s] # "done"
  BY <1>4, <1>5 DEF FreshSessions, SessionStates
<1>10. FreshSessions'
  <2>1. nextSession' \in Nat /\ nextSession <= nextSession' /\ s <= nextSession' /\ nextSession' <= nextId
    BY <1>1, <1>4, SessionFacts
  <2>2. \A t \in Sessions : t > nextSession' => t # s /\ t > nextSession
    BY <1>4, <1>6, <2>1
  <2>3. \A t \in Sessions : t > nextSession' =>
            t \notin listed' /\ t \notin snapshot' /\ t \notin stopped' /\ sess'[t] = "off"
    BY <1>1, <1>2, <1>5, <2>2 DEF FreshSessions
  <2>4. \A d \in Clients : client'[d].pc # "msubscribe"
    BY <1>2, OneMaker, SubscribeMoves DEF Moved, Making
  <2> QED
    BY <1>2, <2>1, <2>3, <2>4 DEF FreshSessions
<1>11. SessionStates'
  BY <1>1, <1>2, <1>5, <1>9 DEF SessionStates
<1> QED
  BY <1>8, <1>10, <1>11 DEF SessionInv

\* What ManagerUnsubscribe does to a topic the manager knows.
LEMMA Unsubscribed ==
    ASSUME IInv, NEW c \in Clients, ManagerUnsubscribe(c), NEW i, i = client[c].id, msubs[i] # 0,
           NEW s, s = msubs[i]
    PROVE  /\ i \in Ids /\ s \in Sessions /\ client[c].pc = "munsubscribe" /\ i \in desired[s] /\ s \in listed
           /\ msubs' = [msubs EXCEPT ![i] = 0]
           /\ desired' = [desired EXCEPT ![s] = @ \ {i}]
           /\ attached' = [attached EXCEPT ![i] = {}]
           /\ listed' = IF desired[s] = {i} THEN listed \ {s} ELSE listed
           /\ srv' = srv \/ (sess[s] # "up" /\ srv' = [srv EXCEPT ![s] = @ \ {streamByID[i]}])
           /\ stopped' = stopped \/ (desired[s] = {i} /\ stopped' = stopped \cup {s})
<1>1. client[c].pc = "munsubscribe" /\ i \in Ids
  BY AtWork DEF ManagerUnsubscribe, WithId, InSub, Unsubscribing
<1>2. s \in Sessions
  BY <1>1, SessionFacts DEF Sessions, Ids
<1>3. ~Encodes(i)
  BY <1>1 DEF IInv, InCalls, OldTopics, Encodes
<1>4. i \in desired[s] /\ s \in listed
  BY <1>1, <1>2 DEF IInv, Tables, SessionsBalanced
<1> QED
  BY <1>1, <1>2, <1>3, <1>4 DEF ManagerUnsubscribe, RemoveIfEmpty

\* A topic leaves its session, and with the last one the session goes.
LEMMA ManagerUnsubscribeSessions == ASSUME IInv, NEW c \in Clients, ManagerUnsubscribe(c) PROVE SessionInv'
<1>0. UNCHANGED <<nextSession, nextId, snapshot, sess>>
  BY DEF ManagerUnsubscribe, groupVars
<1>1. \A d \in Clients : client'[d].pc = "msubscribe" => client[d].pc = "msubscribe"
  BY UnsubscribeMoves DEF Moved
<1>2. CASE msubs[client[c].id] = 0
  <2>1. UNCHANGED <<msubs, listed, desired, stopped, srv>>
    BY <1>2 DEF ManagerUnsubscribe
  <2> QED
    BY <1>0, <1>1, <2>1, QuietSessions, SessionFacts
<1>3. CASE msubs[client[c].id] # 0
  <2> DEFINE i == client[c].id
             s == msubs[client[c].id]
  <2>1. /\ i \in Ids /\ s \in Sessions /\ i \in desired[s] /\ s \in listed
        /\ msubs' = [msubs EXCEPT ![i] = 0]
        /\ desired' = [desired EXCEPT ![s] = @ \ {i}]
        /\ listed' = IF desired[s] = {i} THEN listed \ {s} ELSE listed
        /\ srv' = srv \/ (sess[s] # "up" /\ srv' = [srv EXCEPT ![s] = @ \ {streamByID[i]}])
        /\ stopped' = stopped \/ (desired[s] = {i} /\ stopped' = stopped \cup {s})
    BY <1>3, Unsubscribed
  <2>2. msubs[i] = s
    OBVIOUS
  <2> HIDE DEF i, s
  <2>3. SessionsBalanced /\ FreshSessions /\ SessionStates
    BY DEF IInv, Tables
  <2>4. \A t \in Sessions : t # 0 /\ t \in Nat
    BY SessionFacts DEF Sessions
  <2>5. SessionsBalanced'
    <3>1. \A j \in Ids, t \in Sessions : msubs'[j] = t <=> j \in desired'[t]
      BY <2>1, <2>2, <2>3, <2>4, SessionFacts DEF SessionsBalanced
    <3>2. desired'[s] = desired[s] \ {i}
      BY <2>1, SessionFacts
    <3>3. Cardinality(desired'[s]) = Cardinality(desired[s]) - 1 /\ IsFiniteSet(desired'[s])
      BY <2>1, <3>2, SessionFacts, FS_RemoveElement
    <3>4. desired[s] # {i} => Cardinality(desired'[s]) \in 1 .. MaxTopicsPerConn
      <4>1. desired[s] # {i} => desired'[s] # {}
        BY <2>1, <3>2
      <4>2. desired[s] # {i} => Cardinality(desired'[s]) # 0
        BY <3>3, <4>1, FS_EmptySet
      <4>3. Cardinality(desired[s]) \in 1 .. MaxTopicsPerConn
        BY <2>1, <2>3 DEF SessionsBalanced
      <4> QED
        BY <3>3, <4>2, <4>3, SessionFacts
    <3>5. \A t \in Sessions : t # s => desired'[t] = desired[t]
      BY <2>1, SessionFacts
    <3>6. \A t \in Sessions : IF t \in listed' THEN Cardinality(desired'[t]) \in 1 .. MaxTopicsPerConn ELSE desired'[t] = {}
      BY <2>1, <2>3, <3>2, <3>4, <3>5 DEF SessionsBalanced
    <3> QED
      BY <3>1, <3>6 DEF SessionsBalanced
  <2>6. FreshSessions'
    <3>1. \A t \in Sessions : t > nextSession => t # s
      BY <2>1, <2>3 DEF FreshSessions
    <3> QED
      BY <1>0, <1>1, <2>1, <2>3, <3>1 DEF FreshSessions
  <2>7. SessionStates'
    <3>1. \A t \in listed' : t \notin stopped' /\ sess'[t] # "done"
      BY <1>0, <2>1, <2>3 DEF SessionStates
    <3>2. \A t \in Sessions : srv'[t] \subseteq srv[t]
      BY <2>1, SessionFacts
    <3> QED
      BY <1>0, <2>3, <3>1, <3>2 DEF SessionStates
  <2> QED
    BY <2>5, <2>6, <2>7 DEF SessionInv
<1> QED
  BY <1>2, <1>3

\* What RestartedByRunOnly and StreamsNeverRetracted say of a step.
SessionRules ==
    \A s \in Sessions :
        /\ sess[s] = "done" /\ sess'[s] # "done" => s \in snapshot \ listed /\ desired[s] = {} /\ desired'[s] = {}
        /\ sess'[s] = "up" => srv[s] \subseteq srv'[s]

\* A session that is started, by Subscribe or by Run's loop: one that was made, and unless
\* it is of Run's copy, one that has not ended.
LEMMA StartSessions ==
    ASSUME IInv, NEW s \in Sessions, Start(s), UNCHANGED <<nextId, msubs, listed, nextSession, desired>>,
           snapshot' \subseteq snapshot, s <= nextSession, sess[s] = "done" => s \in snapshot,
           \A d \in Clients : client'[d].pc = "msubscribe" => client[d].pc = "msubscribe"
    PROVE  SessionInv' /\ SessionRules
<1>0. SessionsBalanced /\ FreshSessions /\ SessionStates /\ RestOK /\ nextSession \in Nat
  BY TypeSplit, SessionFacts DEF IInv, Tables
<1>1. /\ stopped' \subseteq stopped /\ srv' = srv
      /\ \A t \in Sessions : \/ sess'[t] = sess[t]
                             \/ t = s /\ sess[t] \in {"off", "done"} /\ sess'[t] = "down"
  BY <1>0, StartType
<1>2. SessionsBalanced'
  BY <1>0 DEF SessionsBalanced
<1>3. FreshSessions'
  <2>1. \A t \in Sessions : t > nextSession => t # s
    BY <1>0 DEF Sessions
  <2> QED
    BY <1>0, <1>1, <2>1 DEF FreshSessions
<1>4. SessionStates'
  BY <1>0, <1>1, SessionFacts DEF SessionStates
<1>5. sess[s] = "done" => s \in snapshot \ listed /\ desired[s] = {}
  BY <1>0 DEF SessionStates, SessionsBalanced
<1>6. SessionRules
  BY <1>0, <1>1, <1>5 DEF SessionStates, SessionRules
<1> QED
  BY <1>2, <1>3, <1>4, <1>6 DEF SessionInv

\* Subscribe starts the session its topic is on, which has not ended.
LEMMA StartSessionSessions == ASSUME IInv, NEW c \in Clients, StartSession(c) PROVE SessionInv' /\ SessionRules
<1> DEFINE i == client[c].id
           s == msubs[client[c].id]
<1>1. client[c].pc = "start" /\ Start(s) /\ UNCHANGED <<nextId, msubs, listed, nextSession, desired, snapshot>>
  BY DEF StartSession, groupVars, managerVars
<1>2. i \in Ids /\ s # 0
  BY <1>1, AtWork DEF IInv, InCalls, NewTopics, Maker, Making, WithId, InSub, Subscribing
<1>3. s \in Sessions
  BY <1>2, SessionFacts DEF Sessions
<1>4. i \in desired[s] /\ s \in listed
  BY <1>2, <1>3 DEF IInv, Tables, SessionsBalanced
<1>5. s <= nextSession /\ sess[s] # "done"
  <2>1. ~(s > nextSession)
    BY <1>3, <1>4 DEF IInv, Tables, FreshSessions
  <2> QED
    BY <1>3, <1>4, <2>1, SessionFacts DEF IInv, Tables, SessionStates, Sessions
<1>6. \A d \in Clients : client'[d].pc = "msubscribe" => client[d].pc = "msubscribe"
  BY SubscribeMoves DEF Moved
<1> HIDE DEF i, s
<1> QED
  BY <1>1, <1>3, <1>5, <1>6, StartSessions

\* Run, its loop, connections, failures and ends of sessions.
LEMMA SessionActions ==
    ASSUME IInv, ManagerRun \/ \E s \in Sessions : RunStarts(s) \/ Connect(s) \/ Break(s) \/ End(s)
    PROVE  SessionInv' /\ SessionRules
<1> USE DEF groupVars, codecVars, managerVars, sessionVars
<1>0. SessionsBalanced /\ FreshSessions /\ SessionStates
  BY DEF IInv, Tables
<1>1. UNCHANGED <<nextId, client, msubs, listed, nextSession, desired>>
  BY DEF ManagerRun, RunStarts, Connect, Break, End
<1>2. SessionsBalanced'
  BY <1>0, <1>1 DEF SessionsBalanced
<1>3. CASE ManagerRun
  <2>1. snapshot' = listed /\ UNCHANGED <<sess, stopped, srv>>
    BY <1>3 DEF ManagerRun
  <2>2. FreshSessions' /\ SessionStates'
    BY <1>0, <1>1, <2>1 DEF FreshSessions, SessionStates
  <2>3. SessionRules
    BY <2>1 DEF SessionRules
  <2> QED
    BY <1>2, <2>2, <2>3 DEF SessionInv
<1>4. ASSUME NEW s \in Sessions, RunStarts(s) PROVE SessionInv' /\ SessionRules
  <2>1. s \in snapshot /\ snapshot' \subseteq snapshot /\ Start(s)
    BY <1>4 DEF RunStarts
  <2>2. s <= nextSession
    <3>1. ~(s > nextSession)
      BY <1>0, <2>1 DEF FreshSessions
    <3> QED
      BY <3>1, SessionFacts DEF Sessions
  <2> QED
    BY <1>1, <2>1, <2>2, StartSessions
<1>5. ASSUME NEW s \in Sessions, Connect(s) \/ Break(s) \/ End(s)
      PROVE  FreshSessions' /\ SessionStates' /\ SessionRules
  <2>0. snapshot' = snapshot /\ stopped' = stopped
    BY <1>5 DEF Connect, Break, End
  <2>1. /\ \A t \in Sessions : t # s => sess'[t] = sess[t] /\ srv'[t] = srv[t]
        /\ sess[s] \in {"down", "up"}
        /\ \/ sess'[s] = "up" /\ sess[s] = "down"
           \/ sess'[s] = "down" /\ srv'[s] = {}
           \/ sess'[s] = "done" /\ srv'[s] = {} /\ s \notin listed
    <3>1. CASE Connect(s)
      BY <3>1, SessionFacts DEF Connect
    <3>2. CASE Break(s)
      BY <3>2, SessionFacts DEF Break
    <3>3. CASE End(s)
      <4>1. desired[s] = {} => s \notin listed
        BY <1>0, FS_EmptySet, SessionFacts DEF SessionsBalanced
      <4>2. s \notin listed
        BY <1>0, <3>3, <4>1 DEF End, SessionStates
      <4> QED
        BY <3>3, <4>2, SessionFacts DEF End
    <3> QED
      BY <1>5, <3>1, <3>2, <3>3
  <2>2. \A t \in Sessions : t > nextSession => t # s
    BY <1>0, <2>1 DEF FreshSessions
  <2>3. FreshSessions'
    BY <1>0, <1>1, <2>0, <2>1, <2>2 DEF FreshSessions
  <2>4. \A t \in listed : t \in Sessions /\ t \notin stopped /\ sess[t] # "done"
    BY <1>0, SessionFacts DEF SessionStates
  <2>5. SessionStates'
    BY <1>0, <1>1, <2>0, <2>1, <2>4 DEF SessionStates
  <2>6. SessionRules
    BY <1>0, <2>1 DEF SessionStates, SessionRules
  <2> QED
    BY <2>3, <2>5, <2>6
<1> QED
  BY <1>2, <1>3, <1>4, <1>5 DEF SessionInv

\* ensureTopic's SUB goes out.
LEMMA SendOKSessions == ASSUME IInv, NEW c \in Clients, SendOK(c) PROVE SessionInv' /\ SessionRules
<1>0. SessionsBalanced /\ FreshSessions /\ SessionStates
  BY DEF IInv, Tables
<1>1. UNCHANGED <<nextId, msubs, listed, nextSession, desired, snapshot, sess, stopped>>
  BY DEF SendOK, managerVars
<1>2. \A s \in Sessions : srv'[s] = srv[s] \/ (sess[s] = "up" /\ srv[s] \subseteq srv'[s])
  BY SessionFacts DEF SendOK
<1>3. \A d \in Clients : client'[d].pc = "msubscribe" => client[d].pc = "msubscribe"
  BY SubscribeMoves DEF Moved
<1>4. FreshSessions' /\ SessionsBalanced'
  BY <1>0, <1>1, <1>3 DEF FreshSessions, SessionsBalanced
<1>5. SessionStates' /\ SessionRules
  BY <1>0, <1>1, <1>2 DEF SessionStates, SessionRules
<1> QED
  BY <1>4, <1>5 DEF SessionInv

\* Every step keeps the manager and the sessions in order.
LEMMA SessionsStep == ASSUME IInv, [Next]_vars PROVE SessionInv' /\ SessionRules
<1> USE DEF groupVars, codecVars, managerVars, sessionVars
<1>0. nextId \in Nat
  BY SessionFacts
<1>1. ASSUME UNCHANGED <<msubs, listed, nextSession, desired, snapshot, sess, stopped, srv>>
      PROVE  SessionRules
  BY <1>1 DEF SessionRules
<1>2. ASSUME NEW c \in Clients, NEW k \in Keys, Subscribe(c, k) PROVE SessionInv' /\ SessionRules
  <2>1. UNCHANGED <<msubs, listed, nextSession, desired, snapshot, sess, stopped, srv, nextId>>
    BY <1>2 DEF Subscribe
  <2>2. \A d \in Clients : client'[d].pc = "msubscribe" => client[d].pc = "msubscribe"
    BY <1>2, SubscribeMoved DEF Moved, IInv
  <2> QED
    BY <1>0, <1>1, <2>1, <2>2, QuietSessions
<1>3. ASSUME NEW c \in Clients, NewTopic(c) PROVE SessionInv' /\ SessionRules
  <2>1. UNCHANGED <<msubs, listed, nextSession, desired, snapshot, sess, stopped, srv>> /\ nextId' = nextId + 1
    BY <1>3 DEF NewTopic
  <2> QED
    BY <1>0, <1>1, <2>1, QuietSessions
<1>4. ASSUME NEW c \in Clients, FindTopic(c) \/ SendFails(c) \/ CheckTopic(c) \/ Attach(c) \/ Count(c)
      PROVE  SessionInv' /\ SessionRules
  <2>1. UNCHANGED <<msubs, listed, nextSession, desired, snapshot, sess, stopped, srv, nextId>>
    BY <1>4 DEF FindTopic, SendFails, CheckTopic, Attach, Count
  <2>2. \A d \in Clients : client'[d].pc = "msubscribe" => client[d].pc = "msubscribe"
    BY <1>4, SubscribeMoves DEF Moved
  <2> QED
    BY <1>0, <1>1, <2>1, <2>2, QuietSessions
<1>5. ASSUME NEW c \in Clients,
             Disconnect(c) \/ Unsubscribe(c) \/ CheckRemove(c) \/ Detach(c) \/ Drop(c) \/ UnregisterTopic(c)
      PROVE  SessionInv' /\ SessionRules
  <2>1. UNCHANGED <<msubs, listed, nextSession, desired, snapshot, sess, stopped, srv, nextId>>
    BY <1>5 DEF Disconnect, Unsubscribe, CheckRemove, Detach, Drop, UnregisterTopic
  <2>2. \A d \in Clients : client'[d].pc = "msubscribe" => client[d].pc = "msubscribe"
    BY <1>5, UnsubscribeMoves, UnsubscribeMoved DEF Moved, IInv
  <2> QED
    BY <1>0, <1>1, <2>1, <2>2, QuietSessions
<1>6. ASSUME NEW c \in Clients, ManagerSubscribe(c) PROVE SessionInv' /\ SessionRules
  <2>1. UNCHANGED <<sess, srv>>
    BY <1>6 DEF ManagerSubscribe
  <2>2. SessionRules
    BY <2>1 DEF SessionRules
  <2> QED
    BY <1>6, <2>2, ManagerSubscribeSessions
<1>7. ASSUME NEW c \in Clients, ManagerUnsubscribe(c) PROVE SessionInv' /\ SessionRules
  <2>1. sess' = sess
    BY <1>7 DEF ManagerUnsubscribe
  <2>2. ASSUME msubs[client[c].id] = 0 PROVE SessionRules
    BY <1>7, <2>1, <2>2 DEF ManagerUnsubscribe, SessionRules
  <2>3. ASSUME msubs[client[c].id] # 0 PROVE SessionRules
    <3> DEFINE t == msubs[client[c].id]
    <3>1. srv' = srv \/ (sess[t] # "up" /\ srv' = [srv EXCEPT ![t] = @ \ {streamByID[client[c].id]}])
      BY <1>7, <2>3, Unsubscribed
    <3> HIDE DEF t
    <3> QED
      BY <2>1, <3>1, SessionFacts DEF SessionRules
  <2> QED
    BY <1>7, <2>2, <2>3, ManagerUnsubscribeSessions
<1>8. CASE UNCHANGED vars
  <2>1. UNCHANGED <<msubs, listed, nextSession, desired, snapshot, sess, stopped, srv, nextId, client>>
    BY <1>8 DEF vars
  <2> QED
    BY <1>0, <1>1, <2>1, QuietSessions
<1> QED
  BY <1>2, <1>3, <1>4, <1>5, <1>6, <1>7, <1>8, SessionActions, StartSessionSessions, SendOKSessions
     DEF Next, SubscribeStep, UnsubscribeStep

-----------------------------------------------------------------------------
(* The group's and the codec's tables, and the calls.                      *)

\* TopicBacked without what SessionInv says of every topic of the manager.
Backed == \A k \in Keys : topics[k] # 0 => /\ topics[k] \in topicsByID
                                           /\ streamByID[topics[k]] = k
                                           /\ msubs[topics[k]] # 0

GroupInv == FreshIds /\ LookupHome /\ Backed
CallInv == GroupInv /\ InCalls

\* A topic the manager has is on a listed session that is not stopped.
LEMMA BackedIs == ASSUME TypeOK, SessionInv PROVE Backed <=> TopicBacked
<1>1. \A i \in Ids : msubs[i] # 0 => msubs[i] \in Sessions
  BY IngestAssumption DEF TypeOK, Sessions
<1>2. \A i \in Ids : msubs[i] # 0 => msubs[i] \in listed
  BY <1>1 DEF SessionInv, SessionsBalanced
<1>3. \A s \in listed : s \notin stopped /\ s # 0
  BY IngestAssumption DEF SessionInv, SessionStates, TypeOK, Sessions
<1>4. \A k \in Keys : topics[k] # 0 => topics[k] \in Ids
  BY IngestAssumption DEF TypeOK, Ids
<1> QED
  BY <1>2, <1>3, <1>4 DEF Backed, TopicBacked

\* In the next state too, TopicBacked follows from its parts.
LEMMA BackedIsNext == ASSUME TypeOK', SessionInv', Backed' PROVE TopicBacked'
<1>1. \A i \in Ids : msubs'[i] # 0 => msubs'[i] \in Sessions
  BY IngestAssumption DEF TypeOK, Sessions
<1>2. \A i \in Ids : msubs'[i] # 0 => msubs'[i] \in listed'
  BY <1>1 DEF SessionInv, SessionsBalanced
<1>3. \A s \in listed' : s \notin stopped'
  BY DEF SessionInv, SessionStates
<1>4. \A k \in Keys : topics'[k] # 0 => topics'[k] \in Ids
  BY IngestAssumption DEF TypeOK, Ids
<1> QED
  BY <1>2, <1>3, <1>4 DEF Backed, TopicBacked

\* What the invariant says of the group's tables, the codec's and the manager's, in one
\* place.
LEMMA GroupFacts ==
    ASSUME IInv
    PROVE  /\ MaxIds \in Nat /\ nextId \in Nat /\ nextId <= MaxIds /\ nextId \in 0 .. MaxIds
           /\ topics \in [Keys -> 0 .. MaxIds] /\ refCount \in [Ids -> Int]
           /\ streamByID \in [Ids -> Keys \cup {NoKey}] /\ lookup \in [Slots -> 0 .. MaxIds]
           /\ msubs \in [Ids -> 0 .. MaxIds] /\ attached \in [Ids -> SUBSET Clients]
           /\ \A k \in Keys : topics[k] # 0 => topics[k] \in Ids
           /\ \A x \in Slots : lookup[x] # 0 => lookup[x] \in Ids
           /\ client \in [Clients -> ClientRecords]
           /\ FreshIds /\ LookupHome /\ Backed /\ CallShape /\ LockHeld /\ NewTopics /\ OldTopics /\ OwnKey
<1>1. TypeOK /\ SessionInv /\ TopicBacked
  BY DEF IInv, Tables, SessionInv
<1>2. Backed
  BY <1>1, BackedIs
<1>3. MaxIds \in Nat
  BY IngestAssumption
<1>4. /\ \A k \in Keys : topics[k] # 0 => topics[k] \in Ids
      /\ \A x \in Slots : lookup[x] # 0 => lookup[x] \in Ids
  BY <1>1, <1>3 DEF TypeOK, Ids
<1> QED
  BY <1>1, <1>2, <1>3, <1>4, ClientType DEF IInv, Tables, InCalls, TypeOK

\* While nobody keeps group.mu, no topic is in the making.
LEMMA NobodyMakes == ASSUME IInv, Unlocked, NEW c \in Clients PROVE client[c].pc \notin Making
BY IngestAssumption DEF IInv, InCalls, LockHeld, Unlocked, Nobody

\* A topic in the group's table has been handed out.
LEMMA TopicsHandedOut == ASSUME IInv, NEW k \in Keys, topics[k] # 0 PROVE topics[k] \in 1 .. nextId
<1>1. streamByID[topics[k]] # NoKey /\ topics[k] \in Ids
  BY GroupFacts, NoKeyIsNone DEF Backed
<1> QED
  BY <1>1, GroupFacts DEF FreshIds, Ids

\* A connection that moved is in order when its new place is.
LEMMA MovedShape ==
    ASSUME IInv, NEW c \in Clients, NEW p, NEW k, NEW i, NEW s, Moved(c, p, k, i, s),
           nextId' \in Nat, nextId <= nextId',
           p \in InSub => k \in Keys /\ k \notin s,
           p \in WithId => i \in 1 .. nextId',
           p \notin InSub => k = NoKey,
           p \notin WithId => i = 0
    PROVE  CallShape'
<1>1. CallShape /\ nextId \in Nat
  BY GroupFacts
<1>2. \A d \in Clients : d # c => client'[d] = client[d]
  BY DEF Moved
<1>3. \A j \in 1 .. nextId : j \in 1 .. nextId'
  BY <1>1
<1>4. /\ client'[c].pc = p /\ client'[c].key = k /\ client'[c].id = i /\ client'[c].subs = s
  BY DEF Moved
<1> QED
  BY <1>1, <1>2, <1>3, <1>4 DEF CallShape

\* The mutex stays with whoever makes a topic.
LEMMA MovedLock ==
    ASSUME IInv, NEW c \in Clients, NEW p, NEW k, NEW i, NEW s, Moved(c, p, k, i, s),
           \/ glock' = glock /\ (p \in Making <=> client[c].pc \in Making)
           \/ glock = Nobody /\ glock' = c /\ p \in Making
           \/ glock' = Nobody /\ client[c].pc \in Making /\ p \notin Making
    PROVE  LockHeld'
<1>1. LockHeld /\ Nobody \notin Clients
  BY GroupFacts, IngestAssumption DEF Nobody
<1>2. \A d \in Clients : d # c => client'[d] = client[d]
  BY DEF Moved
<1>3. client'[c].pc = p
  BY DEF Moved
<1>4. CASE glock' = glock /\ (p \in Making <=> client[c].pc \in Making)
  BY <1>1, <1>2, <1>3, <1>4 DEF LockHeld
<1>5. CASE glock = Nobody /\ glock' = c /\ p \in Making
  BY <1>1, <1>2, <1>3, <1>5 DEF LockHeld
<1>6. CASE glock' = Nobody /\ client[c].pc \in Making /\ p \notin Making
  BY <1>1, <1>2, <1>3, <1>6 DEF LockHeld
<1> QED
  BY <1>4, <1>5, <1>6

\* A step of another connection that works on another id does not concern who makes a topic.
LEMMA MakerSpared ==
    ASSUME IInv, NEW c \in Clients, NEW d \in Clients, d # c, client[d].pc \in Making,
           \A e \in Clients : e # c => client'[e] = client[e],
           client'[c].id \in {client[c].id, 0},
           UNCHANGED <<topics, refCount>>,
           \A i \in Ids : i # client[c].id => /\ streamByID'[i] = streamByID[i]
                                              /\ attached'[i] = attached[i]
                                              /\ msubs'[i] = msubs[i]
    PROVE  Maker(d)'
<1>1. Maker(d) /\ client[d].id \in Ids /\ client[d].id # 0 /\ client'[d] = client[d]
  BY GroupFacts, AtWork DEF NewTopics, Making, Ids, WithId, InSub, Subscribing
<1>2. client[d].id # client[c].id
  BY <1>1 DEF Maker
<1>3. /\ streamByID'[client[d].id] = streamByID[client[d].id] /\ attached'[client[d].id] = attached[client[d].id]
      /\ msubs'[client[d].id] = msubs[client[d].id]
  BY <1>1, <1>2
<1>4. \A e \in Clients : client'[e].id = client[d].id => e = d
  BY <1>1, <1>2 DEF Maker
<1> QED
  BY <1>1, <1>3, <1>4 DEF Maker

\* A step that leaves the codec's tables alone keeps LookupHome.
LEMMA SameLookup ==
    ASSUME LookupHome, UNCHANGED <<platform, streamByID, lookup>>
    PROVE  LookupHome'
BY DEF LookupHome, Slot, BtccSlot, BinanceSlot

\* The id a connection works on has been handed out.
LEMMA IdHandedOut == ASSUME IInv, NEW c \in Clients PROVE client[c].id \in 0 .. nextId
BY GroupFacts DEF CallShape

\* Steps that change nothing but the connection, its place in attached and the count of
\* its topic.
LEMMA MoveOnly ==
    ASSUME IInv, NEW c \in Clients, NEW p, NEW k, NEW i, NEW s, Moved(c, p, k, i, s),
           UNCHANGED <<platform, nextId, glock, topics, topicsByID, streamByID, lookup, msubs>>,
           \A j \in Ids : j # client[c].id => attached'[j] = attached[j] /\ refCount'[j] = refCount[j],
           Unlocked \/ (i \in {client[c].id, 0} /\ refCount' = refCount),
           client[c].pc \notin Making, p \notin Making, p \notin Leaving,
           i # 0 /\ streamByID[i] # NoKey => streamByID[i] = k,
           p \in InSub => k \in Keys /\ k \notin s,
           p \in WithId => i \in 1 .. nextId,
           p \notin InSub => k = NoKey,
           p \notin WithId => i = 0
    PROVE  CallInv'
<1>1. client'[c].pc = p /\ client'[c].key = k /\ client'[c].id = i /\ \A d \in Clients : d # c => client'[d] = client[d]
  BY DEF Moved
<1>2. CallShape' /\ LockHeld'
  BY MovedShape, MovedLock, GroupFacts
<1>3. FreshIds'
  <2>1. \A j \in Ids : j > nextId => j # client[c].id
    BY IdHandedOut, GroupFacts DEF Ids
  <2> QED
    BY <2>1, GroupFacts DEF FreshIds
<1>4. LookupHome' /\ Backed'
  BY SameLookup, GroupFacts DEF Backed
<1>5. NewTopics'
  <2> SUFFICES ASSUME NEW d \in Clients, client'[d].pc \in Making PROVE Maker(d)'
    BY DEF NewTopics
  <2>1. d # c /\ client[d].pc \in Making
    BY <1>1
  <2>2. ~Unlocked
    BY <2>1, NobodyMakes
  <2> QED
    BY <1>1, <2>1, <2>2, MakerSpared
<1>6. OldTopics' /\ OwnKey'
  BY <1>1, GroupFacts DEF OldTopics, OwnKey, Leaving
<1> QED
  BY <1>2, <1>3, <1>4, <1>5, <1>6 DEF CallInv, GroupInv, InCalls

\* The steps of a call that are of that sort.
LEMMA PlainSteps ==
    ASSUME IInv, NEW c \in Clients,
           \/ \E k \in Keys : Subscribe(c, k)
           \/ FindTopic(c) \/ CheckTopic(c) \/ Attach(c) \/ Count(c)
           \/ Disconnect(c) \/ Unsubscribe(c) \/ CheckRemove(c) \/ Detach(c)
    PROVE  CallInv'
<1> USE DEF groupVars, codecVars, managerVars
<1> DEFINE me == client[c]
<1>1. UNCHANGED <<platform, nextId, glock, topics, topicsByID, streamByID, lookup, msubs>>
  BY DEF Subscribe, FindTopic, CheckTopic, Attach, Count, Disconnect, Unsubscribe, CheckRemove, Detach
<1>2. \A j \in Ids : j # me.id => attached'[j] = attached[j] /\ refCount'[j] = refCount[j]
  BY GroupFacts DEF Subscribe, FindTopic, CheckTopic, Attach, Count, Disconnect, Unsubscribe, CheckRemove, Detach
<1>3. Count(c) \/ refCount' = refCount
  BY DEF Subscribe, FindTopic, CheckTopic, Attach, Count, Disconnect, Unsubscribe, CheckRemove, Detach
<1>4. me.pc \in {"idle", "ensure", "check", "attach", "count", "cleanup", "rcheck", "detach"}
  BY DEF Subscribe, FindTopic, CheckTopic, Attach, Count, Disconnect, Unsubscribe, CheckRemove, Detach
<1>5. /\ me.pc \in InSub => me.key \in Keys /\ me.key \notin me.subs
      /\ me.pc \in WithId => me.id \in 1 .. nextId
      /\ me.pc \notin InSub => me.key = NoKey
      /\ me.pc \notin WithId => me.id = 0
      /\ me.id # 0 /\ streamByID[me.id] # NoKey => streamByID[me.id] = me.key
  BY GroupFacts DEF CallShape, OwnKey
<1> USE DEF InSub, WithId, Making, Leaving, Subscribing, Unsubscribing
<1>6. ASSUME NEW k \in Keys, Subscribe(c, k) PROVE CallInv'
  <2>1. Moved(c, "ensure", k, me.id, me.subs) /\ me.pc = "idle" /\ k \notin me.subs
    BY <1>6, SubscribeMoved DEF Subscribe, IInv
  <2>2. refCount' = refCount /\ me.id = 0
    BY <1>5, <1>6, <2>1 DEF Subscribe
  <2> HIDE DEF me
  <2> QED
    BY <1>1, <1>2, <2>1, <2>2, MoveOnly DEF me
<1>7. CASE FindTopic(c)
  <2>1. Moved(c, "check", me.key, topics[me.key], me.subs) /\ me.pc = "ensure" /\ topics[me.key] # 0 /\ Unlocked
    BY <1>7, SubscribeMoves DEF FindTopic
  <2>2. topics[me.key] \in 1 .. nextId /\ streamByID[topics[me.key]] = me.key /\ me.key \in Keys /\ me.key \notin me.subs
    BY <1>5, <2>1, TopicsHandedOut, GroupFacts DEF Backed
  <2> QED
    BY <1>1, <1>2, <2>1, <2>2, MoveOnly
<1>8. CASE CheckTopic(c) \/ CheckRemove(c)
  <2>1. \/ Moved(c, "cleanup", NoKey, 0, me.subs)
        \/ Moved(c, "attach", me.key, me.id, me.subs)
        \/ Moved(c, "detach", me.key, me.id, me.subs)
    BY <1>8, SubscribeMoves, UnsubscribeMoves
  <2>2. me.pc \in {"check", "rcheck"} /\ refCount' = refCount
    BY <1>8 DEF CheckTopic, CheckRemove
  <2>3. CASE Moved(c, "cleanup", NoKey, 0, me.subs)
    BY <1>1, <1>2, <2>2, <2>3, MoveOnly
  <2>4. CASE Moved(c, "attach", me.key, me.id, me.subs)
    BY <1>1, <1>2, <1>5, <2>2, <2>4, MoveOnly
  <2>5. CASE Moved(c, "detach", me.key, me.id, me.subs)
    BY <1>1, <1>2, <1>5, <2>2, <2>5, MoveOnly
  <2> QED
    BY <2>1, <2>3, <2>4, <2>5
<1>9. CASE Attach(c)
  <2>1. Moved(c, "count", me.key, me.id, me.subs) /\ me.pc = "attach" /\ refCount' = refCount
    BY <1>9, SubscribeMoves DEF Attach, groupVars
  <2> QED
    BY <1>1, <1>2, <1>5, <2>1, MoveOnly
<1>10. CASE Count(c)
  <2>1. Moved(c, "idle", NoKey, 0, me.subs \cup {me.key}) /\ me.pc = "count" /\ Unlocked
    BY <1>10, SubscribeMoves DEF Count
  <2> QED
    BY <1>1, <1>2, <2>1, MoveOnly
<1>11. CASE Disconnect(c)
  <2>1. Moved(c, "cleanup", me.key, me.id, me.subs) /\ me.pc = "idle" /\ refCount' = refCount
    BY <1>11, UnsubscribeMoves DEF Disconnect
  <2> QED
    BY <1>1, <1>2, <1>5, <2>1, MoveOnly
<1>12. CASE Unsubscribe(c)
  <2>1. PICK k \in me.subs :
            \/ topics[k] = 0 /\ Moved(c, "cleanup", me.key, me.id, me.subs \ {k})
            \/ topics[k] # 0 /\ Moved(c, "rcheck", k, topics[k], me.subs \ {k})
    BY <1>12, UnsubscribeMoved DEF IInv
  <2>2. me.pc = "cleanup" /\ Unlocked /\ k \in Keys
    BY <1>12, GroupFacts DEF Unsubscribe, ClientRecords
  <2>3. CASE topics[k] = 0 /\ Moved(c, "cleanup", me.key, me.id, me.subs \ {k})
    BY <1>1, <1>2, <1>5, <2>2, <2>3, MoveOnly
  <2>4. CASE topics[k] # 0 /\ Moved(c, "rcheck", k, topics[k], me.subs \ {k})
    <3>1. topics[k] \in 1 .. nextId /\ streamByID[topics[k]] = k
      BY <2>2, <2>4, TopicsHandedOut, GroupFacts DEF Backed
    <3> QED
      BY <1>1, <1>2, <2>2, <2>4, <3>1, MoveOnly
  <2> QED
    BY <2>1, <2>3, <2>4
<1>13. CASE Detach(c)
  <2>1. Moved(c, "drop", me.key, me.id, me.subs) /\ me.pc = "detach" /\ refCount' = refCount
    BY <1>13, UnsubscribeMoves DEF Detach
  <2> QED
    BY <1>1, <1>2, <1>5, <2>1, MoveOnly
<1> QED
  BY <1>6, <1>7, <1>8, <1>9, <1>10, <1>11, <1>12, <1>13

\* LookupHome with the codec's tables spelled out, while the exchange stays the same.
LEMMA LookupHomeNext ==
    ASSUME platform' = platform,
           \A x \in Slots : lookup'[x] # 0 => streamByID'[lookup'[x]] # NoKey /\ Slot(streamByID'[lookup'[x]]) = x
    PROVE  LookupHome'
BY DEF LookupHome, Slot, BtccSlot, BinanceSlot

\* ensureTopic registers an id nobody has had.
LEMMA NewTopicStep == ASSUME IInv, NEW c \in Clients, NewTopic(c) PROVE CallInv'
<1> DEFINE n == nextId + 1
           key == client[c].key
<1>1. /\ client[c].pc = "ensure" /\ Unlocked /\ topics[key] = 0
      /\ nextId' = n /\ glock' = c
      /\ streamByID' = [streamByID EXCEPT ![n] = key] /\ lookup' = [lookup EXCEPT ![Slot(key)] = n]
      /\ UNCHANGED <<platform, topics, topicsByID, refCount, msubs, attached>>
  BY DEF NewTopic, Register, managerVars
<1>2. Moved(c, "msubscribe", key, n, client[c].subs)
  BY SubscribeMoves
<1>3. key \in Keys /\ key \notin client[c].subs
  BY <1>1, GroupFacts DEF CallShape, InSub, Subscribing
<1>4. n \in Ids /\ n > nextId /\ n \in Nat
  BY GroupFacts DEF NewTopic, Ids
<1>5. n \in 1 .. nextId'
  BY <1>1, <1>4, GroupFacts
<1>6. streamByID[n] = NoKey /\ msubs[n] = 0 /\ refCount[n] = 0 /\ attached[n] = {}
  BY <1>4, GroupFacts DEF FreshIds
<1>7. \A d \in Clients : client[d].id # n /\ client[d].id \in 0 .. nextId
  BY IdHandedOut, GroupFacts
<1>8. nextId' \in Nat /\ nextId <= nextId'
  BY <1>1, <1>4, GroupFacts
<1> HIDE DEF n, key
<1>9. CallShape'
  BY <1>2, <1>3, <1>5, <1>8, MovedShape DEF InSub, WithId, Subscribing
<1>10. LockHeld'
  BY <1>1, <1>2, MovedLock DEF Unlocked, Making
<1>11. /\ streamByID'[n] = key /\ \A j \in Ids : j # n => streamByID'[j] = streamByID[j]
       /\ client'[c].pc = "msubscribe" /\ client'[c].key = key /\ client'[c].id = n
       /\ \A d \in Clients : d # c => client'[d] = client[d]
  BY <1>1, <1>2, <1>4, GroupFacts DEF Moved
<1>12. FreshIds'
  <2>1. \A j \in Ids : j > nextId' => j > nextId /\ j # n
    BY <1>1, <1>4, GroupFacts DEF n, Ids
  <2> QED
    BY <1>1, <1>11, <2>1, GroupFacts DEF FreshIds
<1>13. LookupHome'
  <2>1. Slot(key) \in Slots
    BY <1>3, SlotType
  <2>2. \A x \in Slots : lookup'[x] = IF x = Slot(key) THEN n ELSE lookup[x]
    BY <1>1, <2>1, GroupFacts
  <2>3. \A x \in Slots : lookup[x] # 0 =>
            lookup[x] \in Ids /\ lookup[x] # n /\ streamByID[lookup[x]] # NoKey /\ Slot(streamByID[lookup[x]]) = x
    BY <1>6, GroupFacts DEF LookupHome
  <2>4. \A x \in Slots : lookup[x] # 0 => streamByID'[lookup[x]] = streamByID[lookup[x]]
    BY <1>11, <2>3
  <2>5. key # NoKey
    BY <1>3, NoKeyIsNone
  <2>6. \A x \in Slots : lookup'[x] # 0 => streamByID'[lookup'[x]] # NoKey /\ Slot(streamByID'[lookup'[x]]) = x
    BY <1>11, <2>2, <2>3, <2>4, <2>5
  <2> QED
    BY <1>1, <2>6, LookupHomeNext
<1>14. \A k \in Keys : topics[k] # n
  BY <1>4, TopicsHandedOut, GroupFacts
<1>15. Backed'
  BY <1>1, <1>11, <1>14, GroupFacts DEF Backed
<1>16. NewTopics'
  <2>1. \A d \in Clients : client'[d].pc \in Making => d = c
    BY <1>1, <1>11, NobodyMakes
  <2>2. Maker(c)'
    BY <1>1, <1>6, <1>7, <1>11, <1>14 DEF Maker
  <2> QED
    BY <2>1, <2>2 DEF NewTopics
<1>17. \A d \in Clients : d # c /\ client[d].id # 0 => streamByID'[client[d].id] = streamByID[client[d].id]
  <2>1. \A d \in Clients : client[d].id # 0 => client[d].id \in Ids /\ client[d].id # n
    BY <1>7, GroupFacts DEF Ids
  <2> QED
    BY <1>11, <2>1
<1>18. OldTopics'
  <2>1. \A d \in Clients : client[d].pc = "munsubscribe" => client[d].id # 0
    BY GroupFacts DEF CallShape, WithId, InSub, Unsubscribing
  <2> QED
    BY <1>1, <1>11, <1>17, <2>1, GroupFacts DEF OldTopics, Leaving
<1>19. OwnKey'
  BY <1>11, <1>17, GroupFacts DEF OwnKey
<1> QED
  BY <1>9, <1>10, <1>12, <1>13, <1>15, <1>16, <1>18, <1>19 DEF CallInv, GroupInv, InCalls

\* The manager takes the topic.
LEMMA ManagerSubscribeStep == ASSUME IInv, NEW c \in Clients, ManagerSubscribe(c) PROVE CallInv'
<1> DEFINE i == client[c].id
<1>1. PICK s \in Picks : msubs' = [msubs EXCEPT ![i] = s]
  BY DEF ManagerSubscribe
<1>2. /\ client[c].pc = "msubscribe"
      /\ UNCHANGED <<platform, nextId, glock, topics, topicsByID, refCount, streamByID, lookup, attached>>
  BY DEF ManagerSubscribe, groupVars, codecVars
<1>3. PICK p \in {"start", "send"} : Moved(c, p, client[c].key, i, client[c].subs)
  BY SubscribeMoves
<1>4. i \in Ids /\ i \in 1 .. nextId /\ Maker(c) /\ client[c].key \in Keys /\ client[c].key \notin client[c].subs
  BY <1>2, GroupFacts, AtWork DEF NewTopics, Making, CallShape, WithId, InSub, Subscribing
<1>5. s # 0
  BY <1>2, PicksType, SessionFacts DEF Sessions
<1> HIDE DEF i
<1>6. msubs'[i] # 0 /\ \A j \in Ids : j # i => msubs'[j] = msubs[j]
  BY <1>1, <1>4, <1>5, GroupFacts
<1>7. CallShape' /\ LockHeld'
  BY <1>2, <1>3, <1>4, MovedShape, MovedLock, GroupFacts DEF InSub, WithId, Subscribing, Making
<1>8. /\ client'[c].pc = p /\ client'[c].key = client[c].key /\ client'[c].id = i
      /\ \A d \in Clients : d # c => client'[d] = client[d]
  BY <1>3 DEF Moved
<1>9. \A d \in Clients : client'[d].id = client[d].id /\ client'[d].key = client[d].key
  BY <1>8 DEF i
<1>10. FreshIds'
  <2>1. \A j \in Ids : j > nextId => j # i
    BY <1>4, GroupFacts DEF Ids
  <2> QED
    BY <1>2, <1>6, <2>1, GroupFacts DEF FreshIds
<1>11. LookupHome'
  BY <1>2, SameLookup, GroupFacts
<1>12. Backed'
  BY <1>2, <1>4, <1>6, GroupFacts DEF Backed, Maker, i
<1>13. NewTopics'
  <2>1. \A d \in Clients : client'[d].pc \in Making => d = c
    BY <1>2, <1>8, OneMaker DEF Making
  <2>2. Maker(c)'
    BY <1>2, <1>4, <1>6, <1>8, <1>9 DEF Maker, i
  <2> QED
    BY <2>1, <2>2 DEF NewTopics
<1>14. OldTopics' /\ OwnKey'
  BY <1>2, <1>8, <1>9, GroupFacts DEF OldTopics, OwnKey, Leaving
<1> QED
  BY <1>7, <1>10, <1>11, <1>12, <1>13, <1>14 DEF CallInv, GroupInv, InCalls

\* The session of the topic is started; the call goes on.
LEMMA StartSessionStep == ASSUME IInv, NEW c \in Clients, StartSession(c) PROVE CallInv'
<1> DEFINE i == client[c].id
<1>1. /\ client[c].pc = "start"
      /\ UNCHANGED <<platform, nextId, glock, topics, topicsByID, refCount, streamByID, lookup, msubs, attached>>
  BY DEF StartSession, groupVars, codecVars, managerVars
<1>2. Moved(c, "send", client[c].key, i, client[c].subs)
  BY SubscribeMoves
<1>3. i \in 1 .. nextId /\ Maker(c) /\ client[c].key \in Keys /\ client[c].key \notin client[c].subs
  BY <1>1, GroupFacts DEF NewTopics, Making, CallShape, WithId, InSub, Subscribing
<1> HIDE DEF i
<1>4. CallShape' /\ LockHeld'
  BY <1>1, <1>2, <1>3, MovedShape, MovedLock, GroupFacts DEF InSub, WithId, Subscribing, Making
<1>5. /\ client'[c].pc = "send" /\ client'[c].key = client[c].key /\ client'[c].id = client[c].id
      /\ \A d \in Clients : d # c => client'[d] = client[d]
  BY <1>2 DEF Moved, i
<1>6. \A d \in Clients : client'[d].id = client[d].id /\ client'[d].key = client[d].key
  BY <1>5
<1>7. FreshIds' /\ LookupHome' /\ Backed'
  BY <1>1, SameLookup, GroupFacts DEF FreshIds, Backed
<1>8. NewTopics'
  <2>1. \A d \in Clients : client'[d].pc \in Making => d = c
    BY <1>1, <1>5, OneMaker DEF Making
  <2>2. Maker(c)'
    BY <1>1, <1>3, <1>5, <1>6 DEF Maker
  <2> QED
    BY <2>1, <2>2 DEF NewTopics
<1>9. OldTopics' /\ OwnKey'
  BY <1>1, <1>5, <1>6, GroupFacts DEF OldTopics, OwnKey, Leaving
<1> QED
  BY <1>4, <1>7, <1>8, <1>9 DEF CallInv, GroupInv, InCalls

\* The group takes the topic.
LEMMA SendOKStep == ASSUME IInv, NEW c \in Clients, SendOK(c) PROVE CallInv'
<1> DEFINE i == client[c].id
           key == client[c].key
<1>1. /\ client[c].pc = "send" /\ glock' = Nobody
      /\ topics' = [topics EXCEPT ![key] = i] /\ topicsByID' = topicsByID \cup {i}
      /\ UNCHANGED <<platform, nextId, refCount, streamByID, lookup, msubs, attached>>
  BY DEF SendOK, codecVars, managerVars
<1>2. Moved(c, "check", key, i, client[c].subs)
  BY SubscribeMoves
<1>3. /\ i \in 1 .. nextId /\ i \in Ids /\ Maker(c) /\ msubs[i] # 0 /\ streamByID[i] = key
      /\ key \in Keys /\ key \notin client[c].subs
  BY <1>1, GroupFacts, AtWork DEF NewTopics, Maker, Making, CallShape, WithId, InSub, Subscribing
<1>4. \A d \in Clients : client[d].id = i => d = c
  BY <1>3 DEF Maker
<1> HIDE DEF i, key
<1>5. CallShape' /\ LockHeld'
  BY <1>1, <1>2, <1>3, MovedShape, MovedLock, GroupFacts DEF InSub, WithId, Subscribing, Making
<1>6. /\ client'[c].pc = "check" /\ client'[c].key = key /\ client'[c].id = i
      /\ \A d \in Clients : d # c => client'[d] = client[d]
  BY <1>2 DEF Moved
<1>7. \A k \in Keys : topics'[k] = IF k = key THEN i ELSE topics[k]
  BY <1>1, <1>3, GroupFacts
<1>8. FreshIds' /\ LookupHome'
  BY <1>1, SameLookup, GroupFacts DEF FreshIds
<1>9. Backed'
  BY <1>1, <1>3, <1>7, GroupFacts DEF Backed
<1>10. NewTopics'
  BY <1>1, <1>6, OneMaker DEF NewTopics, Making
<1>11. OldTopics'
  BY <1>1, <1>4, <1>6, <1>7, GroupFacts DEF OldTopics, Leaving
<1>12. OwnKey'
  BY <1>1, <1>6, GroupFacts DEF OwnKey, i, key
<1> QED
  BY <1>5, <1>8, <1>9, <1>10, <1>11, <1>12 DEF CallInv, GroupInv, InCalls

\* Unregister of an id that no topic of the group has.
LEMMA UnregisterIs ==
    ASSUME IInv, NEW i \in Ids, Unregister(i), platform' = platform
    PROVE  /\ streamByID'[i] = NoKey /\ \A j \in Ids : j # i => streamByID'[j] = streamByID[j]
           /\ LookupHome'
<1>1. streamByID'[i] = NoKey /\ \A j \in Ids : j # i => streamByID'[j] = streamByID[j]
  BY GroupFacts DEF Unregister
<1>2. \A x \in Slots : lookup'[x] # 0 => lookup'[x] = lookup[x] /\ lookup[x] # i /\ lookup[x] \in Ids
  <2>1. CASE streamByID[i] = NoKey
    BY <2>1, GroupFacts DEF Unregister, LookupHome
  <2>2. CASE streamByID[i] # NoKey
    <3>1. streamByID[i] \in Keys
      BY <2>2, GroupFacts
    <3>2. Slot(streamByID[i]) \in Slots
      BY <3>1, SlotType
    <3>3. \A x \in Slots : lookup'[x] = IF x = Slot(streamByID[i]) THEN 0 ELSE lookup[x]
      BY <2>2, <3>2, GroupFacts DEF Unregister
    <3>4. \A x \in Slots : lookup[x] = i => x = Slot(streamByID[i]) \/ i = 0
      BY GroupFacts DEF LookupHome
    <3> QED
      BY <3>3, <3>4, GroupFacts DEF Ids
  <2> QED
    BY <2>1, <2>2
<1>3. \A x \in Slots : lookup'[x] # 0 => streamByID'[lookup'[x]] # NoKey /\ Slot(streamByID'[lookup'[x]]) = x
  BY <1>1, <1>2, GroupFacts DEF LookupHome
<1> QED
  BY <1>1, <1>3, LookupHomeNext

\* The steps that unregister: the failed SUB of ensureTopic, and the end of a topic.
LEMMA UnregisterStep ==
    ASSUME IInv, NEW c \in Clients, SendFails(c) \/ UnregisterTopic(c)
    PROVE  CallInv'
<1> DEFINE i == client[c].id
           key == client[c].key
<1>1. /\ UNCHANGED <<platform, nextId, topics, topicsByID, refCount, msubs, attached>> /\ Unregister(i)
  BY DEF SendFails, UnregisterTopic, groupVars, managerVars
<1>2. /\ client[c].pc \in {"send", "unregister"} /\ i \in Ids /\ i \in 1 .. nextId
      /\ key \in Keys /\ key \notin client[c].subs
  BY GroupFacts, AtWork DEF SendFails, UnregisterTopic, CallShape, WithId, InSub, Subscribing, Unsubscribing
<1>3. \A k \in Keys : topics[k] # i
  BY <1>2, GroupFacts DEF NewTopics, OldTopics, Maker, Making, Leaving
<1>4. \/ /\ client[c].pc = "send" /\ Moved(c, "cleanup", NoKey, 0, client[c].subs) /\ glock' = Nobody
      \/ /\ client[c].pc = "unregister" /\ Moved(c, "munsubscribe", key, i, client[c].subs) /\ glock' = glock
  BY SubscribeMoves, UnsubscribeMoves DEF SendFails, UnregisterTopic, groupVars
<1> HIDE DEF i, key
<1>5. CallShape'
  BY <1>1, <1>2, <1>4, MovedShape, GroupFacts DEF InSub, WithId, Subscribing, Unsubscribing
<1>6. LockHeld'
  BY <1>4, MovedLock DEF Making
<1>7. streamByID'[i] = NoKey /\ (\A j \in Ids : j # i => streamByID'[j] = streamByID[j]) /\ LookupHome'
  BY <1>1, <1>2, UnregisterIs
<1>8. FreshIds' /\ Backed'
  BY <1>1, <1>3, <1>7, GroupFacts DEF FreshIds, Backed
<1>9. /\ \A d \in Clients : d # c => client'[d] = client[d]
      /\ \/ client'[c].id = 0 /\ client'[c].pc = "cleanup"
         \/ client'[c].pc = "munsubscribe" /\ client'[c].id = i /\ client'[c].key = key
  BY <1>4 DEF Moved
<1>10. NewTopics'
  <2> SUFFICES ASSUME NEW d \in Clients, client'[d].pc \in Making PROVE Maker(d)'
    BY DEF NewTopics
  <2>1. d # c /\ client[d].pc \in Making /\ client'[c].id \in {client[c].id, 0}
    BY <1>9 DEF Making, i
  <2> QED
    BY <1>1, <1>7, <1>9, <2>1, MakerSpared DEF i
<1>11. \A j \in Ids : streamByID'[j] # NoKey => streamByID'[j] = streamByID[j]
  BY <1>7
<1>12. \A d \in Clients : client[d].id # 0 => client[d].id \in Ids
  BY IdHandedOut, GroupFacts DEF Ids
<1>13. OldTopics'
  <2>1. \A d \in Clients : d # c /\ client[d].pc = "munsubscribe" => client[d].id \in Ids /\ streamByID[client[d].id] = NoKey
    BY AtWork, GroupFacts DEF OldTopics, WithId, InSub, Unsubscribing
  <2>2. \A d \in Clients : client'[d].pc = "munsubscribe" => streamByID'[client'[d].id] = NoKey
    BY <1>7, <1>9, <1>11, <2>1
  <2>3. \A d \in Clients : client'[d].pc \in Leaving => \A k \in Keys : topics'[k] # client'[d].id
    BY <1>1, <1>3, <1>9, GroupFacts DEF OldTopics, Leaving
  <2> QED
    BY <2>2, <2>3 DEF OldTopics
<1>14. OwnKey'
  BY <1>7, <1>9, <1>11, <1>12, GroupFacts DEF OwnKey
<1> QED
  BY <1>5, <1>6, <1>7, <1>8, <1>10, <1>13, <1>14 DEF CallInv, GroupInv, InCalls

\* A reference is given back; with the last one the key loses its topic.
LEMMA DropStep == ASSUME IInv, NEW c \in Clients, Drop(c) PROVE CallInv'
<1> DEFINE i == client[c].id
           key == client[c].key
           last == refCount[client[c].id] <= 1
<1>1. /\ client[c].pc = "drop" /\ Unlocked
      /\ refCount' = [refCount EXCEPT ![i] = @ - 1]
      /\ topics' = IF last THEN [topics EXCEPT ![key] = 0] ELSE topics
      /\ topicsByID' = IF last THEN topicsByID \ {i} ELSE topicsByID
      /\ UNCHANGED <<platform, nextId, glock, streamByID, lookup, msubs, attached>>
  BY DEF Drop, codecVars, managerVars
<1>2. /\ i \in Ids /\ i \in 1 .. nextId /\ key \in Keys /\ key \notin client[c].subs
      /\ streamByID[i] # NoKey => streamByID[i] = key
  BY <1>1, GroupFacts, AtWork DEF CallShape, OwnKey, WithId, InSub, Unsubscribing, Ids
<1>3. \/ last /\ Moved(c, "unregister", key, i, client[c].subs)
      \/ ~last /\ Moved(c, "cleanup", NoKey, 0, client[c].subs)
  BY UnsubscribeMoves
<1> HIDE DEF i, key, last
<1>4. CallShape'
  BY <1>1, <1>2, <1>3, MovedShape, GroupFacts DEF InSub, WithId, Subscribing, Unsubscribing
<1>5. LockHeld'
  BY <1>1, <1>3, MovedLock DEF Making
<1>6. FreshIds' /\ LookupHome'
  <2>1. \A j \in Ids : j > nextId => refCount'[j] = refCount[j]
    BY <1>1, <1>2, GroupFacts
  <2> QED
    BY <1>1, <2>1, SameLookup, GroupFacts DEF FreshIds
<1>7. \A k \in Keys : topics[k] = i => k = key
  <2>1. i # 0 /\ \A k \in Keys : k # NoKey
    BY <1>2, NoKeyIsNone, GroupFacts
  <2> QED
    BY <1>2, <2>1, GroupFacts DEF Backed
<1>8. /\ \A k \in Keys : topics'[k] # 0 => topics'[k] = topics[k] /\ topics'[k] \in topicsByID'
      /\ last => \A k \in Keys : topics'[k] # i
  BY <1>1, <1>2, <1>7, GroupFacts DEF Backed, Ids
<1>9. Backed'
  BY <1>1, <1>8, GroupFacts DEF Backed
<1>10. /\ \A d \in Clients : d # c => client'[d] = client[d]
       /\ \/ client'[c].id = 0 /\ client'[c].pc = "cleanup"
          \/ last /\ client'[c].pc = "unregister" /\ client'[c].id = i /\ client'[c].key = key
  BY <1>3 DEF Moved
<1>11. NewTopics'
  BY <1>1, <1>10, NobodyMakes DEF NewTopics, Making
<1>12. OldTopics'
  <2>1. \A d \in Clients : client[d].pc \in Leaving => client[d].id # 0 /\ \A k \in Keys : topics[k] # client[d].id
    BY AtWork, GroupFacts DEF OldTopics, Leaving, WithId, InSub, Unsubscribing, Ids
  <2> QED
    BY <1>1, <1>8, <1>10, <2>1, GroupFacts DEF OldTopics, Leaving
<1>13. OwnKey'
  BY <1>1, <1>2, <1>10, GroupFacts DEF OwnKey
<1> QED
  BY <1>4, <1>5, <1>6, <1>9, <1>11, <1>12, <1>13 DEF CallInv, GroupInv, InCalls

\* The manager forgets the topic.
LEMMA ManagerUnsubscribeStep == ASSUME IInv, NEW c \in Clients, ManagerUnsubscribe(c) PROVE CallInv'
<1> DEFINE i == client[c].id
<1>1. /\ client[c].pc = "munsubscribe"
      /\ UNCHANGED <<platform, nextId, glock, topics, topicsByID, refCount, streamByID, lookup>>
      /\ \/ UNCHANGED <<msubs, attached>>
         \/ msubs' = [msubs EXCEPT ![i] = 0] /\ attached' = [attached EXCEPT ![i] = {}]
  BY DEF ManagerUnsubscribe, groupVars, codecVars
<1>2. i \in Ids /\ \A k \in Keys : topics[k] # i
  BY <1>1, GroupFacts, AtWork DEF OldTopics, Leaving, WithId, InSub, Unsubscribing
<1>3. Moved(c, "cleanup", NoKey, 0, client[c].subs)
  BY UnsubscribeMoves
<1>4. \A j \in Ids : j # i => msubs'[j] = msubs[j] /\ attached'[j] = attached[j]
  BY <1>1, GroupFacts
<1>5. CallShape' /\ LockHeld'
  BY <1>1, <1>3, MovedShape, MovedLock, GroupFacts DEF InSub, WithId, Subscribing, Unsubscribing, Making
<1>6. FreshIds'
  <2>1. \A j \in Ids : j > nextId => j # i
    BY IdHandedOut, GroupFacts DEF Ids
  <2> QED
    BY <1>1, <1>4, <2>1, GroupFacts DEF FreshIds
<1>7. LookupHome' /\ Backed'
  BY <1>1, <1>2, <1>4, SameLookup, GroupFacts DEF Backed
<1>8. client'[c].id = 0 /\ client'[c].pc = "cleanup" /\ \A d \in Clients : d # c => client'[d] = client[d]
  BY <1>3 DEF Moved
<1>9. NewTopics'
  <2> SUFFICES ASSUME NEW d \in Clients, client'[d].pc \in Making PROVE Maker(d)'
    BY DEF NewTopics
  <2>1. d # c /\ client[d].pc \in Making
    BY <1>8 DEF Making
  <2> QED
    BY <1>1, <1>4, <1>8, <2>1, MakerSpared
<1>10. OldTopics' /\ OwnKey'
  BY <1>1, <1>8, GroupFacts DEF OldTopics, OwnKey, Leaving
<1> QED
  BY <1>5, <1>6, <1>7, <1>9, <1>10 DEF CallInv, GroupInv, InCalls

-----------------------------------------------------------------------------
(* The tables, always.                                                     *)

\* Every step preserves what holds of the calls under way.
LEMMA CallsStep == ASSUME IInv, [Next]_vars PROVE CallInv'
<1>1. ASSUME UNCHANGED <<groupVars, codecVars, msubs, attached, client>> PROVE CallInv'
  <2>1. UNCHANGED <<platform, nextId, glock, topics, topicsByID, refCount, streamByID, lookup, msubs, attached, client>>
    BY <1>1 DEF groupVars, codecVars
  <2>2. FreshIds' /\ LookupHome' /\ Backed'
    BY <2>1, SameLookup, GroupFacts DEF FreshIds, Backed
  <2>3. CallShape' /\ LockHeld'
    BY <2>1, GroupFacts DEF CallShape, LockHeld
  <2>4. NewTopics'
    BY <2>1, GroupFacts DEF NewTopics, Maker
  <2>5. OldTopics' /\ OwnKey'
    BY <2>1, GroupFacts DEF OldTopics, OwnKey
  <2> QED
    BY <2>2, <2>3, <2>4, <2>5 DEF CallInv, GroupInv, InCalls
<1>2. CASE ManagerRun \/ \E s \in Sessions : RunStarts(s) \/ Connect(s) \/ Break(s) \/ End(s)
  BY <1>1, <1>2 DEF ManagerRun, RunStarts, Connect, Break, End, managerVars
<1>3. CASE UNCHANGED vars
  BY <1>1, <1>3 DEF vars, managerVars
<1>4. ASSUME NEW c \in Clients, SubscribeStep(c) PROVE CallInv'
  BY <1>4, PlainSteps, NewTopicStep, ManagerSubscribeStep, StartSessionStep, SendOKStep, UnregisterStep
     DEF SubscribeStep
<1>5. ASSUME NEW c \in Clients, UnsubscribeStep(c) \/ Disconnect(c) \/ \E k \in Keys : Subscribe(c, k) PROVE CallInv'
  BY <1>5, PlainSteps, DropStep, UnregisterStep, ManagerUnsubscribeStep DEF UnsubscribeStep
<1> QED
  BY <1>2, <1>3, <1>4, <1>5 DEF Next

\* Every step preserves the inductive invariant of the tables.
LEMMA IInvStep == ASSUME IInv, [Next]_vars PROVE IInv'
<1>1. TypeOK' /\ SessionInv' /\ CallInv'
  BY TypeStep, SessionsStep, CallsStep
<1>2. TopicBacked'
  BY <1>1, BackedIsNext DEF CallInv, GroupInv
<1> QED
  BY <1>1, <1>2 DEF IInv, Tables, SessionInv, CallInv, GroupInv

\* The initial state satisfies it.
LEMMA IInvInit == Init => IInv
<1> SUFFICES ASSUME Init PROVE IInv
  OBVIOUS
<1>0. 0 \in 0 .. MaxIds /\ 0 \in 0 .. MaxCalls /\ 0 \in 0 .. MaxFaults /\ MaxIds \in Nat
  BY IngestAssumption
<1>1. TypeOK
  <2>1. /\ nextId \in 0 .. MaxIds /\ topics \in [Keys -> 0 .. MaxIds] /\ refCount \in [Ids -> Int]
        /\ streamByID \in [Ids -> Keys \cup {NoKey}] /\ lookup \in [Slots -> 0 .. MaxIds]
        /\ msubs \in [Ids -> 0 .. MaxIds] /\ nextSession \in 0 .. MaxIds
    BY <1>0 DEF Init
  <2>2. /\ desired \in [Sessions -> SUBSET Ids] /\ srv \in [Sessions -> SUBSET Keys]
        /\ closes \in [Sessions -> 0 .. 2]
        /\ sess \in [Sessions -> {"off", "down", "up", "done"}] /\ attached \in [Ids -> SUBSET Clients]
    BY DEF Init
  <2>3. /\ platform \in Platforms /\ glock \in Clients \cup {Nobody} /\ topicsByID \subseteq Ids
        /\ running \in BOOLEAN /\ listed \subseteq Sessions /\ snapshot \subseteq Sessions
        /\ stopped \subseteq Sessions
        /\ contested \subseteq Keys /\ faults \in 0 .. MaxFaults
    BY <1>0 DEF Init
  <2>4. RestOK
    BY <2>1, <2>2, <2>3 DEF RestOK
  <2>5. client \in [Clients -> ClientRecords]
    BY <1>0 DEF Init, ClientRecords, Labels
  <2> QED
    BY <2>4, <2>5, TypeSplit
<1>2. /\ \A c \in Clients : /\ client[c].pc = "idle" /\ client[c].key = NoKey /\ client[c].id = 0
                            /\ client[c].subs = {}
      /\ \A s \in Sessions : s # 0
  BY <1>0 DEF Init, Sessions
<1>3. FreshIds /\ FreshSessions /\ SessionStates /\ LookupHome /\ TopicBacked
  BY <1>0, <1>2 DEF Init, FreshIds, FreshSessions, SessionStates, LookupHome, TopicBacked
<1>4. SessionsBalanced
  BY <1>0, <1>2 DEF Init, SessionsBalanced
<1>5. CallShape /\ NewTopics /\ OldTopics /\ OwnKey
  BY <1>2 DEF CallShape, NewTopics, OldTopics, OwnKey, InSub, WithId, Subscribing, Unsubscribing, Making, Leaving
<1>6. LockHeld
  BY <1>2, IngestAssumption DEF Init, LockHeld, Making, Nobody
<1> QED
  BY <1>1, <1>3, <1>4, <1>5, <1>6 DEF IInv, Tables, InCalls

\* So it holds in every reachable state.
LEMMA Invariance == Spec => []IInv
<1>1. IInv /\ [Next]_vars => IInv'
  BY IInvStep
<1> QED
  BY IInvInit, <1>1, PTL DEF Spec

\* Every id, table and connection is of its type; in particular the manager never makes
\* more sessions than there are topics.
THEOREM TypeCorrect == Spec => []TypeOK
<1>1. IInv => TypeOK
  BY DEF IInv
<1> QED
  BY <1>1, Invariance, PTL

\* However the calls interleave, a topic is on exactly one session, and a session has
\* between one topic and MaxTopicsPerConn of them, or none and is listed no more.
THEOREM SessionTables == Spec => []SessionsBalanced
<1>1. IInv => SessionsBalanced
  BY DEF IInv, Tables
<1> QED
  BY <1>1, Invariance, PTL

\* A topic in the group's table is known to the codec and is on a live session.
THEOREM TopicsBacked == Spec => []TopicBacked
<1>1. IInv => TopicBacked
  BY DEF IInv, Tables
<1> QED
  BY <1>1, Invariance, PTL

\* No update is routed by a leftover of an earlier registration.
THEOREM LookupsHome == Spec => []LookupHome
<1>1. IInv => LookupHome
  BY DEF IInv, Tables
<1> QED
  BY <1>1, Invariance, PTL

\* A session that has ended is started again by Run's loop only, from its copy, when the
\* manager lists it no more and no topic is on it: in no interleaving does Subscribe
\* put a topic on a session that has ended, or start one.
THEOREM OnlyRunRestarts == Spec => RestartedByRunOnly
<1>1. IInv /\ [Next]_vars =>
          [\A s \in Sessions : sess[s] = "done" /\ sess'[s] # "done" =>
               s \in snapshot \ listed /\ desired[s] = {} /\ desired'[s] = {}]_vars
  BY SessionsStep DEF SessionRules
<1> QED
  BY <1>1, Invariance, PTL DEF Spec, RestartedByRunOnly

\* The exchange is never asked to stop a stream of a connection that goes on.
THEOREM NeverRetracted == Spec => StreamsNeverRetracted
<1>1. IInv /\ [Next]_vars => [\A s \in Sessions : sess'[s] = "up" => srv[s] \subseteq srv'[s]]_vars
  BY SessionsStep DEF SessionRules
<1> QED
  BY <1>1, Invariance, PTL DEF Spec, StreamsNeverRetracted

-----------------------------------------------------------------------------
(* A topic the codec does not know.                                        *)

\* Nobody takes up an id that is not registered, and none is registered twice.
LEMMA StaysUnknown ==
    ASSUME IInv, [Next]_vars, NEW i \in Ids, msubs[i] # 0, streamByID[i] = NoKey, \A c \in Clients : client[c].id # i
    PROVE  streamByID'[i] = NoKey /\ (\A c \in Clients : client'[c].id # i) /\ msubs'[i] = msubs[i]
<1> USE DEF groupVars, codecVars, managerVars, sessionVars
<1>1. i <= nextId /\ i # 0 /\ i \in Nat /\ nextId \in Nat
  BY GroupFacts DEF FreshIds, Ids
<1>2. \A k \in Keys : topics[k] # i
  BY GroupFacts, NoKeyIsNone, <1>1 DEF Backed
<1>3. ASSUME NEW c \in Clients, UNCHANGED <<streamByID, msubs>>,
             NEW p, NEW k, NEW j, NEW s, Moved(c, p, k, j, s), j # i
      PROVE  streamByID'[i] = NoKey /\ (\A d \in Clients : client'[d].id # i) /\ msubs'[i] = msubs[i]
  BY <1>3 DEF Moved
<1>4. ASSUME NEW c \in Clients, NEW k \in Keys, Subscribe(c, k)
      PROVE  streamByID'[i] = NoKey /\ (\A d \in Clients : client'[d].id # i) /\ msubs'[i] = msubs[i]
  BY <1>3, <1>4, SubscribeMoved DEF Subscribe, IInv
<1>5. ASSUME NEW c \in Clients,
             FindTopic(c) \/ StartSession(c) \/ CheckTopic(c) \/ Attach(c) \/ Count(c) \/ SendOK(c)
      PROVE  streamByID'[i] = NoKey /\ (\A d \in Clients : client'[d].id # i) /\ msubs'[i] = msubs[i]
  <2>1. UNCHANGED <<streamByID, msubs>>
    BY <1>5 DEF FindTopic, StartSession, CheckTopic, Attach, Count, SendOK
  <2>2. FindTopic(c) => topics[client[c].key] # i
    BY <1>2, AtWork DEF FindTopic, InSub, Subscribing
  <2>3. CASE FindTopic(c)
    BY <1>3, <2>1, <2>2, <2>3, SubscribeMoves
  <2>4. CASE StartSession(c) \/ CheckTopic(c) \/ Attach(c) \/ SendOK(c)
    BY <1>1, <1>3, <2>1, <2>4, SubscribeMoves
  <2>5. CASE Count(c)
    <3>1. Moved(c, "idle", NoKey, 0, client[c].subs \cup {client[c].key})
      BY <2>5, SubscribeMoves
    <3> QED
      BY <1>1, <2>1, <3>1 DEF Moved
  <2> QED
    BY <1>5, <2>3, <2>4, <2>5
<1>6. ASSUME NEW c \in Clients, NewTopic(c)
      PROVE  streamByID'[i] = NoKey /\ (\A d \in Clients : client'[d].id # i) /\ msubs'[i] = msubs[i]
  <2>1. Moved(c, "msubscribe", client[c].key, nextId + 1, client[c].subs) /\ msubs' = msubs
    BY <1>6, SubscribeMoves DEF NewTopic
  <2>2. streamByID'[i] = NoKey
    BY <1>1, <1>6, GroupFacts DEF NewTopic, Register
  <2> QED
    BY <1>1, <2>1, <2>2 DEF Moved
<1>7. ASSUME NEW c \in Clients, ManagerSubscribe(c)
      PROVE  streamByID'[i] = NoKey /\ (\A d \in Clients : client'[d].id # i) /\ msubs'[i] = msubs[i]
  <2>1. /\ \/ Moved(c, "start", client[c].key, client[c].id, client[c].subs)
           \/ Moved(c, "send", client[c].key, client[c].id, client[c].subs)
        /\ streamByID' = streamByID
    BY <1>7, SubscribeMoves DEF ManagerSubscribe
  <2>2. msubs'[i] = msubs[i]
    BY <1>7, GroupFacts DEF ManagerSubscribe
  <2> QED
    BY <2>1, <2>2 DEF Moved
<1>8. ASSUME NEW c \in Clients, SendFails(c) \/ UnregisterTopic(c)
      PROVE  streamByID'[i] = NoKey /\ (\A d \in Clients : client'[d].id # i) /\ msubs'[i] = msubs[i]
  <2>1. streamByID'[i] = NoKey /\ msubs' = msubs
    BY <1>8, GroupFacts DEF SendFails, UnregisterTopic, Unregister
  <2>2. \/ Moved(c, "cleanup", NoKey, 0, client[c].subs)
        \/ Moved(c, "munsubscribe", client[c].key, client[c].id, client[c].subs)
    BY <1>8, SubscribeMoves, UnsubscribeMoves
  <2> QED
    BY <1>1, <2>1, <2>2 DEF Moved
<1>9. ASSUME NEW c \in Clients, Disconnect(c) \/ CheckRemove(c) \/ Detach(c) \/ Drop(c)
      PROVE  streamByID'[i] = NoKey /\ (\A d \in Clients : client'[d].id # i) /\ msubs'[i] = msubs[i]
  <2>1. UNCHANGED <<streamByID, msubs>>
    BY <1>9 DEF Disconnect, CheckRemove, Detach, Drop
  <2> QED
    BY <1>1, <1>3, <1>9, <2>1, UnsubscribeMoves
<1>10. ASSUME NEW c \in Clients, Unsubscribe(c)
       PROVE  streamByID'[i] = NoKey /\ (\A d \in Clients : client'[d].id # i) /\ msubs'[i] = msubs[i]
  <2>1. UNCHANGED <<streamByID, msubs>>
    BY <1>10 DEF Unsubscribe
  <2>2. PICK k \in client[c].subs :
            \/ topics[k] = 0 /\ Moved(c, "cleanup", client[c].key, client[c].id, client[c].subs \ {k})
            \/ topics[k] # 0 /\ Moved(c, "rcheck", k, topics[k], client[c].subs \ {k})
    BY <1>10, UnsubscribeMoved DEF IInv
  <2>3. topics[k] # i
    BY <1>2, <2>2, GroupFacts DEF ClientRecords
  <2> QED
    BY <1>3, <2>1, <2>2, <2>3
<1>11. ASSUME NEW c \in Clients, ManagerUnsubscribe(c)
       PROVE  streamByID'[i] = NoKey /\ (\A d \in Clients : client'[d].id # i) /\ msubs'[i] = msubs[i]
  <2>1. Moved(c, "cleanup", NoKey, 0, client[c].subs) /\ streamByID' = streamByID
    BY <1>11, UnsubscribeMoves DEF ManagerUnsubscribe
  <2>2. msubs'[i] = msubs[i]
    BY <1>11, GroupFacts DEF ManagerUnsubscribe
  <2> QED
    BY <1>1, <2>1, <2>2 DEF Moved
<1>12. CASE ManagerRun \/ (\E s \in Sessions : RunStarts(s) \/ Connect(s) \/ Break(s) \/ End(s)) \/ UNCHANGED vars
  <2>1. UNCHANGED <<streamByID, msubs, client>>
    BY <1>12 DEF ManagerRun, RunStarts, Connect, Break, End, vars
  <2> QED
    BY <2>1
<1> QED
  BY <1>4, <1>5, <1>6, <1>7, <1>8, <1>9, <1>10, <1>11, <1>12 DEF Next, SubscribeStep, UnsubscribeStep

\* A session connects only when all its topics can be encoded.
LEMMA ConnectEncodes ==
    ASSUME IInv, [Next]_vars, NEW s \in Sessions, sess[s] # "up", sess'[s] = "up"
    PROVE  \A i \in desired[s] : Encodes(i)
<1> USE DEF groupVars, codecVars, managerVars, sessionVars
<1>1. ASSUME NEW t, Start(t) PROVE FALSE
  BY <1>1, StartType, TypeSplit DEF IInv
<1>2. ASSUME NEW t \in Sessions, Connect(t) PROVE \A i \in desired[s] : Encodes(i)
  BY <1>2, SessionFacts DEF Connect
<1>3. ASSUME NEW t \in Sessions, RunStarts(t) \/ Break(t) \/ End(t) PROVE FALSE
  BY <1>1, <1>3, SessionFacts DEF RunStarts, Break, End
<1>4. ASSUME sess' = sess PROVE FALSE
  BY <1>4
<1>5. ASSUME NEW c \in Clients, StartSession(c) PROVE FALSE
  BY <1>1, <1>5 DEF StartSession
<1>6. ASSUME NEW c \in Clients, SubscribeStep(c), ~StartSession(c) PROVE sess' = sess
  BY <1>6 DEF SubscribeStep, FindTopic, NewTopic, ManagerSubscribe, SendOK, SendFails, CheckTopic, Attach, Count
<1>7. ASSUME NEW c \in Clients, UnsubscribeStep(c) \/ Disconnect(c) \/ \E k \in Keys : Subscribe(c, k) PROVE sess' = sess
  BY <1>7 DEF UnsubscribeStep, Unsubscribe, CheckRemove, Detach, Drop, UnregisterTopic, ManagerUnsubscribe,
              Disconnect, Subscribe
<1>8. ManagerRun \/ UNCHANGED vars => sess' = sess
  BY DEF ManagerRun, vars
<1> QED
  BY <1>2, <1>3, <1>4, <1>5, <1>6, <1>7, <1>8 DEF Next

\* A session that holds a topic without encoding, which a failed Subscribe leaves behind,
\* holds it for good, and without a connection it never gets one again.
THEOREM StaysPoisoned == Spec => PoisonedForGood
<1>1. ASSUME IInv, IInv', [Next]_vars, NEW s \in Sessions, Poisoned(s)
      PROVE  Poisoned(s)' /\ (sess[s] # "up" => sess'[s] # "up")
  <2>1. PICK i \in desired[s] : ~Encodes(i) /\ \A c \in Clients : client[c].id # i
    BY <1>1 DEF Poisoned
  <2>2. i \in Ids /\ s # 0 /\ streamByID[i] = NoKey
    BY <1>1, <2>1, SessionFacts DEF Encodes, Sessions
  <2>3. msubs[i] = s
    BY <1>1, <2>1, <2>2 DEF IInv, Tables, SessionsBalanced
  <2>4. streamByID'[i] = NoKey /\ (\A c \in Clients : client'[c].id # i) /\ msubs'[i] = s
    BY <1>1, <2>1, <2>2, <2>3, StaysUnknown
  <2>5. i \in desired'[s]
    BY <1>1, <2>2, <2>4 DEF IInv, Tables, SessionsBalanced
  <2>6. Poisoned(s)'
    BY <2>4, <2>5 DEF Poisoned, Encodes
  <2>7. sess[s] # "up" => sess'[s] # "up"
    BY <1>1, <2>1, ConnectEncodes
  <2> QED
    BY <2>6, <2>7
<1>2. IInv /\ IInv' /\ [Next]_vars => [PoisonKept]_vars
  BY <1>1 DEF PoisonKept
<1> QED
  BY <1>2, Invariance, PTL DEF Spec, PoisonedForGood

-----------------------------------------------------------------------------
(* Who is served: the inductive invariant of the streams whose calls did    *)
(* not overlap.                                                             *)

\* Subscribe and Unsubscribe of the stream are not under way together, and streams that
\* share a lookup entry share this fate.
NoOverlap == \A k \in Keys \ contested, c, d \in Clients : ~(InCall(c, Subscribing, k) /\ InCall(d, Unsubscribing, k))
Closed == \A k \in contested, j \in Keys : Slot(j) = Slot(k) => j \in contested

\* A registered stream owns its lookup entry.
Resolves == \A i \in Ids : streamByID[i] # NoKey /\ streamByID[i] \notin contested => lookup[Slot(streamByID[i])] = i

\* Who has subscribed is attached, and so is who is about to be counted.
SubsAttached ==
    \A k \in Keys \ contested, c \in Clients :
        k \in client[c].subs \/ InCall(c, {"count"}, k) => topics[k] # 0 /\ c \in attached[topics[k]]

\* Who is attached has subscribed, or is about to be counted or detached.
AttachedSubs ==
    \A i \in Ids, c \in Clients :
        c \in attached[i] /\ streamByID[i] # NoKey /\ streamByID[i] \notin contested
        => streamByID[i] \in client[c].subs \/ InCall(c, {"count", "rcheck", "detach"}, streamByID[i])

\* refCount counts the subscriptions and the references being given back.
Holders(k) == {c \in Clients : k \in client[c].subs \/ InCall(c, Holding, k)}
Counted == \A k \in Keys \ contested : topics[k] # 0 => refCount[topics[k]] = Cardinality(Holders(k))

\* A call is about the topic its key has now.
OnTopic == \A k \in Keys \ contested, c \in Clients : InCall(c, Joining \cup Holding, k) => client[c].id = topics[k]

Serving == NoOverlap /\ Closed /\ Resolves /\ SubsAttached /\ AttachedSubs /\ Counted /\ OnTopic

\* What a step can do to the places of connection d in the calls about k.
Steps(d, k) ==
    /\ InCall(d, Subscribing, k)' => InCall(d, Subscribing, k) \/ Subscribe(d, k)
    /\ InCall(d, Unsubscribing, k)' =>
           InCall(d, Unsubscribing, k) \/ (k \in client[d].subs /\ contested' = Contest(k, Subscribing))
    /\ k \in client'[d].subs => k \in client[d].subs \/ (Count(d) /\ client[d].key = k)
    /\ k \in client[d].subs => \/ k \in client'[d].subs
                               \/ contested' = Contest(k, Subscribing) /\ topics' = topics /\ topics[k] = 0
                               \/ InCall(d, {"rcheck"}, k)'
    /\ InCall(d, {"count"}, k)' => InCall(d, {"count"}, k) \/ (Attach(d) /\ client[d].key = k)
    /\ InCall(d, {"count", "rcheck", "detach"}, k) =>
           \/ InCall(d, {"count", "rcheck", "detach"}, k)'
           \/ k \in client'[d].subs
           \/ Detach(d)
           \/ client[d].pc = "rcheck" /\ msubs[client[d].id] = 0
    /\ InCall(d, Holding, k)' => InCall(d, Holding, k) \/ k \in client[d].subs
    /\ InCall(d, Holding, k) => InCall(d, Holding, k)' \/ Drop(d) \/ (client[d].pc = "rcheck" /\ msubs[client[d].id] = 0)
    /\ InCall(d, Joining \cup Holding, k)' =>
           \/ InCall(d, Joining \cup Holding, k) /\ client'[d].id = client[d].id
           \/ topics' = topics /\ client'[d].id = topics[k]
           \/ SendOK(d) /\ client[d].key = k /\ client'[d].id = client[d].id

\* A step of another connection leaves this one's call as it is, which the table of
\* steps allows.
LEMMA OtherSteps ==
    ASSUME NEW c \in Clients, NEW p, NEW k, NEW i, NEW s, Moved(c, p, k, i, s), NEW d \in Clients, d # c, NEW j
    PROVE  Steps(d, j)
<1>1. client'[d] = client[d]
  BY DEF Moved
<1> QED
  BY <1>1 DEF Steps, InCall, Joining, Holding, Subscribing, Unsubscribing

\* Every step of the system is one of those the table lists.
LEMMA StepsAre == ASSUME IInv, [Next]_vars, NEW d \in Clients, NEW j \in Keys PROVE Steps(d, j)
<1> USE DEF Joining, Holding, Subscribing, Unsubscribing
<1>0. /\ client[d].pc \notin Subscribing \cup Unsubscribing => client[d].key = NoKey
      /\ j # NoKey
  BY GroupFacts, NoKeyIsNone DEF CallShape, InSub
<1>1. ASSUME NEW c \in Clients, NEW k \in Keys, Subscribe(c, k) PROVE Steps(d, j)
  <2>1. Moved(c, "ensure", k, client[c].id, client[c].subs) /\ client[c].pc = "idle"
    BY <1>1, SubscribeMoved DEF Subscribe, IInv
  <2>2. CASE d = c
    BY <1>0, <1>1, <2>1, <2>2 DEF Moved, Steps, InCall
  <2> QED
    BY <2>1, <2>2, OtherSteps
<1>2. ASSUME NEW c \in Clients, FindTopic(c) PROVE Steps(d, j)
  <2>1. /\ Moved(c, "check", client[c].key, topics[client[c].key], client[c].subs) /\ client[c].pc = "ensure"
        /\ topics' = topics
    BY <1>2, SubscribeMoves DEF FindTopic, groupVars
  <2>2. CASE d = c
    BY <2>1, <2>2 DEF Moved, Steps, InCall
  <2> QED
    BY <2>1, <2>2, OtherSteps
<1>3. ASSUME NEW c \in Clients, NewTopic(c) PROVE Steps(d, j)
  <2>1. Moved(c, "msubscribe", client[c].key, nextId + 1, client[c].subs) /\ client[c].pc = "ensure"
    BY <1>3, SubscribeMoves DEF NewTopic
  <2>2. CASE d = c
    BY <2>1, <2>2 DEF Moved, Steps, InCall
  <2> QED
    BY <2>1, <2>2, OtherSteps
<1>4. ASSUME NEW c \in Clients, ManagerSubscribe(c) \/ StartSession(c) PROVE Steps(d, j)
  <2>1. \/ Moved(c, "start", client[c].key, client[c].id, client[c].subs)
        \/ Moved(c, "send", client[c].key, client[c].id, client[c].subs)
    BY <1>4, SubscribeMoves
  <2>2. client[c].pc \in {"msubscribe", "start"}
    BY <1>4 DEF ManagerSubscribe, StartSession
  <2>3. CASE d = c
    BY <2>1, <2>2, <2>3 DEF Moved, Steps, InCall
  <2> QED
    BY <2>1, <2>3, OtherSteps
<1>5. ASSUME NEW c \in Clients, SendOK(c) PROVE Steps(d, j)
  <2>1. Moved(c, "check", client[c].key, client[c].id, client[c].subs) /\ client[c].pc = "send"
    BY <1>5, SubscribeMoves DEF SendOK
  <2>2. CASE d = c
    BY <1>5, <2>1, <2>2 DEF Moved, Steps, InCall
  <2> QED
    BY <2>1, <2>2, OtherSteps
<1>6. ASSUME NEW c \in Clients, SendFails(c) \/ ManagerUnsubscribe(c) PROVE Steps(d, j)
  <2>1. Moved(c, "cleanup", NoKey, 0, client[c].subs) /\ client[c].pc \in {"send", "munsubscribe"}
    BY <1>6, SubscribeMoves, UnsubscribeMoves DEF SendFails, ManagerUnsubscribe
  <2>2. CASE d = c
    BY <2>1, <2>2 DEF Moved, Steps, InCall
  <2> QED
    BY <2>1, <2>2, OtherSteps
<1>7. ASSUME NEW c \in Clients, CheckTopic(c) PROVE Steps(d, j)
  <2>1. \/ Moved(c, "cleanup", NoKey, 0, client[c].subs)
        \/ Moved(c, "attach", client[c].key, client[c].id, client[c].subs)
    BY <1>7, SubscribeMoves
  <2>2. client[c].pc = "check"
    BY <1>7 DEF CheckTopic
  <2>3. CASE d = c
    BY <2>1, <2>2, <2>3 DEF Moved, Steps, InCall
  <2> QED
    BY <2>1, <2>3, OtherSteps
<1>8. ASSUME NEW c \in Clients, Attach(c) PROVE Steps(d, j)
  <2>1. Moved(c, "count", client[c].key, client[c].id, client[c].subs) /\ client[c].pc = "attach"
    BY <1>8, SubscribeMoves DEF Attach
  <2>2. CASE d = c
    BY <1>8, <2>1, <2>2 DEF Moved, Steps, InCall
  <2> QED
    BY <2>1, <2>2, OtherSteps
<1>9. ASSUME NEW c \in Clients, Count(c) PROVE Steps(d, j)
  <2>1. Moved(c, "idle", NoKey, 0, client[c].subs \cup {client[c].key}) /\ client[c].pc = "count"
    BY <1>9, SubscribeMoves DEF Count
  <2>2. CASE d = c
    BY <1>9, <2>1, <2>2 DEF Moved, Steps, InCall
  <2> QED
    BY <2>1, <2>2, OtherSteps
<1>10. ASSUME NEW c \in Clients, Disconnect(c) PROVE Steps(d, j)
  <2>1. Moved(c, "cleanup", client[c].key, client[c].id, client[c].subs) /\ client[c].pc = "idle"
    BY <1>10, UnsubscribeMoves DEF Disconnect
  <2>2. CASE d = c
    BY <2>1, <2>2 DEF Moved, Steps, InCall
  <2> QED
    BY <2>1, <2>2, OtherSteps
<1>11. ASSUME NEW c \in Clients, Unsubscribe(c) PROVE Steps(d, j)
  <2>1. PICK k \in client[c].subs :
            /\ contested' = Contest(k, Subscribing)
            /\ \/ topics[k] = 0 /\ Moved(c, "cleanup", client[c].key, client[c].id, client[c].subs \ {k})
               \/ topics[k] # 0 /\ Moved(c, "rcheck", k, topics[k], client[c].subs \ {k})
    BY <1>11, UnsubscribeMoved DEF IInv
  <2>2. client[c].pc = "cleanup" /\ topics' = topics
    BY <1>11 DEF Unsubscribe, groupVars
  <2>3. CASE d = c /\ topics[k] = 0 /\ Moved(c, "cleanup", client[c].key, client[c].id, client[c].subs \ {k})
    BY <1>0, <2>1, <2>2, <2>3 DEF Moved, Steps, InCall
  <2>4. CASE d = c /\ topics[k] # 0 /\ Moved(c, "rcheck", k, topics[k], client[c].subs \ {k})
    BY <1>0, <2>1, <2>2, <2>4 DEF Moved, Steps, InCall
  <2> QED
    BY <2>1, <2>3, <2>4, OtherSteps
<1>12. ASSUME NEW c \in Clients, CheckRemove(c) PROVE Steps(d, j)
  <2>1. \/ Moved(c, "cleanup", NoKey, 0, client[c].subs) /\ msubs[client[c].id] = 0
        \/ Moved(c, "detach", client[c].key, client[c].id, client[c].subs)
    BY <1>12, ReturnMoved, GotoMoved, LabelsAre DEF CheckRemove, IInv
  <2>2. client[c].pc = "rcheck"
    BY <1>12 DEF CheckRemove
  <2>3. CASE d = c
    BY <2>1, <2>2, <2>3 DEF Moved, Steps, InCall
  <2> QED
    BY <2>1, <2>3, OtherSteps
<1>13. ASSUME NEW c \in Clients, Detach(c) PROVE Steps(d, j)
  <2>1. Moved(c, "drop", client[c].key, client[c].id, client[c].subs) /\ client[c].pc = "detach"
    BY <1>13, UnsubscribeMoves DEF Detach
  <2>2. CASE d = c
    BY <1>13, <2>1, <2>2 DEF Moved, Steps, InCall
  <2> QED
    BY <2>1, <2>2, OtherSteps
<1>14. ASSUME NEW c \in Clients, Drop(c) PROVE Steps(d, j)
  <2>1. \/ Moved(c, "unregister", client[c].key, client[c].id, client[c].subs)
        \/ Moved(c, "cleanup", NoKey, 0, client[c].subs)
    BY <1>14, UnsubscribeMoves
  <2>2. client[c].pc = "drop"
    BY <1>14 DEF Drop
  <2>3. CASE d = c
    BY <1>14, <2>1, <2>2, <2>3 DEF Moved, Steps, InCall
  <2> QED
    BY <2>1, <2>3, OtherSteps
<1>15. ASSUME NEW c \in Clients, UnregisterTopic(c) PROVE Steps(d, j)
  <2>1. Moved(c, "munsubscribe", client[c].key, client[c].id, client[c].subs) /\ client[c].pc = "unregister"
    BY <1>15, UnsubscribeMoves DEF UnregisterTopic
  <2>2. CASE d = c
    BY <2>1, <2>2 DEF Moved, Steps, InCall
  <2> QED
    BY <2>1, <2>2, OtherSteps
<1>16. CASE ManagerRun \/ (\E s \in Sessions : RunStarts(s) \/ Connect(s) \/ Break(s) \/ End(s)) \/ UNCHANGED vars
  <2>1. client' = client
    BY <1>16 DEF ManagerRun, RunStarts, Connect, Break, End, vars
  <2> QED
    BY <2>1 DEF Steps, InCall
<1> HIDE DEF Joining, Holding, Subscribing, Unsubscribing
<1> QED
  BY <1>1, <1>2, <1>3, <1>4, <1>5, <1>6, <1>7, <1>8, <1>9, <1>10, <1>11, <1>12, <1>13, <1>14, <1>15, <1>16
     DEF Next, SubscribeStep, UnsubscribeStep

\* Which steps change the tables that serving depends on.
LEMMA Footprints ==
    ASSUME IInv, [Next]_vars
    PROVE  /\ platform' = platform
           /\ \/ topics' = topics
              \/ \E c \in Clients : SendOK(c) \/ Drop(c)
           /\ \/ refCount' = refCount
              \/ \E c \in Clients : Count(c) \/ Drop(c)
           /\ \/ attached' = attached
              \/ \E c \in Clients : Attach(c) \/ Detach(c) \/ ManagerUnsubscribe(c)
           /\ \/ UNCHANGED <<streamByID, lookup>>
              \/ \E c \in Clients : NewTopic(c) \/ SendFails(c) \/ UnregisterTopic(c)
           /\ \/ contested' = contested
              \/ \E k \in Keys : contested' = contested \cup Shares(k)
<1> USE DEF groupVars, codecVars
<1>1. ASSUME NEW c \in Clients, NEW k \in Keys, Subscribe(c, k)
      PROVE  /\ UNCHANGED <<platform, topics, refCount, attached, streamByID, lookup>>
             /\ contested' \in {contested, contested \cup Shares(k)}
  BY <1>1 DEF Subscribe, Contest
<1>2. ASSUME NEW c \in Clients,
             \/ FindTopic(c) \/ ManagerSubscribe(c) \/ StartSession(c) \/ CheckTopic(c)
             \/ Disconnect(c) \/ CheckRemove(c)
      PROVE  UNCHANGED <<platform, topics, refCount, attached, streamByID, lookup, contested>>
  BY <1>2 DEF FindTopic, ManagerSubscribe, StartSession, CheckTopic, Disconnect, CheckRemove
<1>3. ASSUME NEW c \in Clients, NewTopic(c)
      PROVE  /\ UNCHANGED <<platform, topics, refCount, attached>>
             /\ contested' \in {contested, contested \cup Shares(client[c].key)} /\ client[c].key \in Keys
  BY <1>3, AtWork DEF NewTopic, InSub, Subscribing
<1>4. ASSUME NEW c \in Clients, SendOK(c)
      PROVE  UNCHANGED <<platform, refCount, attached, streamByID, lookup, contested>>
  BY <1>4 DEF SendOK
<1>5. ASSUME NEW c \in Clients, SendFails(c) \/ UnregisterTopic(c)
      PROVE  UNCHANGED <<platform, topics, refCount, attached, contested>>
  BY <1>5 DEF SendFails, UnregisterTopic
<1>6. ASSUME NEW c \in Clients, Attach(c) \/ Detach(c) \/ ManagerUnsubscribe(c)
      PROVE  UNCHANGED <<platform, topics, refCount, streamByID, lookup, contested>>
  BY <1>6 DEF Attach, Detach, ManagerUnsubscribe
<1>7. ASSUME NEW c \in Clients, Count(c) \/ Drop(c)
      PROVE  UNCHANGED <<platform, attached, streamByID, lookup, contested>>
  BY <1>7 DEF Count, Drop
<1>8. ASSUME NEW c \in Clients, Count(c)
      PROVE  UNCHANGED topics
  BY <1>8 DEF Count
<1>9. ASSUME NEW c \in Clients, Unsubscribe(c)
      PROVE  /\ UNCHANGED <<platform, topics, refCount, attached, streamByID, lookup>>
             /\ \E k \in Keys : contested' \in {contested, contested \cup Shares(k)}
  <2>1. PICK k \in client[c].subs : contested' = Contest(k, Subscribing)
    BY <1>9, UnsubscribeMoved DEF IInv
  <2>2. k \in Keys
    BY <2>1, GroupFacts DEF ClientRecords
  <2> QED
    BY <1>9, <2>1, <2>2 DEF Unsubscribe, Contest
<1>10. CASE ManagerRun \/ (\E s \in Sessions : RunStarts(s) \/ Connect(s) \/ Break(s) \/ End(s)) \/ UNCHANGED vars
  <2>1. UNCHANGED <<platform, topics, refCount, attached, streamByID, lookup, contested>>
    BY <1>10 DEF ManagerRun, RunStarts, Connect, Break, End, vars
  <2> QED
    BY <2>1
<1> QED
  BY <1>1, <1>2, <1>3, <1>4, <1>5, <1>6, <1>7, <1>8, <1>9, <1>10 DEF Next, SubscribeStep, UnsubscribeStep

\* Streams become contested and stay so.
LEMMA ContestedGrows ==
    ASSUME IInv, Serving, [Next]_vars
    PROVE  contested \subseteq contested' /\ Closed'
<1>1. platform' = platform /\ contested \subseteq Keys /\ Closed
  BY Footprints DEF IInv, TypeOK, Serving
<1>2. CASE contested' = contested
  BY <1>1, <1>2 DEF Closed, Slot, BtccSlot, BinanceSlot
<1>3. ASSUME NEW k \in Keys, contested' = contested \cup Shares(k) PROVE Closed'
  <2>1. \A x \in contested', j \in Keys : Slot(j) = Slot(x) => j \in contested'
    BY <1>1, <1>3 DEF Closed, Shares
  <2> QED
    BY <1>1, <2>1 DEF Closed, Slot, BtccSlot, BinanceSlot
<1> QED
  BY <1>2, <1>3, Footprints

\* A call that begins while one of the other sort is under way makes its stream contested.
LEMMA NoOverlapStep == ASSUME IInv, Serving, [Next]_vars PROVE NoOverlap'
<1> SUFFICES ASSUME NEW k \in Keys \ contested', NEW c \in Clients, NEW d \in Clients,
                    InCall(c, Subscribing, k)', InCall(d, Unsubscribing, k)'
             PROVE  FALSE
  BY DEF NoOverlap
<1>1. k \in Keys /\ k \notin contested /\ k \in Shares(k)
  BY ContestedGrows DEF Shares
<1>2. ~(InCall(c, Subscribing, k) /\ InCall(d, Unsubscribing, k))
  BY <1>1 DEF Serving, NoOverlap
<1>3. InCall(c, Subscribing, k) \/ Subscribe(c, k)
  BY <1>1, StepsAre DEF Steps
<1>4. InCall(d, Unsubscribing, k) \/ (k \in client[d].subs /\ contested' = Contest(k, Subscribing))
  BY <1>1, StepsAre DEF Steps
<1>5. CASE InCall(c, Subscribing, k) /\ contested' = Contest(k, Subscribing)
  BY <1>1, <1>5, ContestIs
<1>6. CASE Subscribe(c, k)
  <2>1. contested' = Contest(k, Unsubscribing) /\ Moved(c, "ensure", k, client[c].id, client[c].subs)
    BY <1>1, <1>6, SubscribeMoved DEF Subscribe, IInv
  <2>2. InCall(d, Unsubscribing, k)
    BY <2>1 DEF Moved, InCall, Unsubscribing
  <2> QED
    BY <1>1, <2>1, <2>2, ContestIs
<1> QED
  BY <1>2, <1>3, <1>4, <1>5, <1>6

\* Resolves in the next state, with the lookup entries spelled out.
LEMMA ResolvesNext ==
    ASSUME platform' = platform,
           \A i \in Ids : streamByID'[i] # NoKey /\ streamByID'[i] \notin contested'
                          => lookup'[Slot(streamByID'[i])] = i
    PROVE  Resolves'
BY DEF Resolves, Slot, BtccSlot, BinanceSlot

\* A stream that finds its lookup entry taken is contested, and so is who had it.
LEMMA ResolvesStep == ASSUME IInv, Serving, [Next]_vars PROVE Resolves'
<1>0. Resolves /\ Closed /\ platform' = platform /\ contested \subseteq contested'
  BY Footprints, ContestedGrows DEF Serving
<1>1. CASE UNCHANGED <<streamByID, lookup>>
  <2>1. \A i \in Ids : streamByID'[i] # NoKey /\ streamByID'[i] \notin contested' => lookup'[Slot(streamByID'[i])] = i
    BY <1>0, <1>1 DEF Resolves
  <2> QED
    BY <1>0, <2>1, ResolvesNext
<1>2. ASSUME NEW c \in Clients, NewTopic(c) PROVE Resolves'
  <2> DEFINE n == nextId + 1
             key == client[c].key
  <2>1. /\ streamByID' = [streamByID EXCEPT ![n] = key] /\ lookup' = [lookup EXCEPT ![Slot(key)] = n]
        /\ lookup[Slot(key)] = 0 \/ Shares(key) \subseteq contested'
    BY <1>2 DEF NewTopic, Register
  <2>2. n \in Ids /\ key \in Keys
    BY <1>2, GroupFacts, AtWork DEF NewTopic, Ids, InSub, Subscribing
  <2> HIDE DEF n, key
  <2>3. Slot(key) \in Slots
    BY <2>2, SlotType
  <2>4. \A x \in Slots : lookup'[x] = IF x = Slot(key) THEN n ELSE lookup[x]
    BY <2>1, <2>3, GroupFacts
  <2>5. streamByID'[n] = key /\ \A i \in Ids : i # n => streamByID'[i] = streamByID[i]
    BY <2>1, <2>2, GroupFacts
  <2>6. ASSUME NEW i \in Ids, streamByID'[i] # NoKey, streamByID'[i] \notin contested'
        PROVE  lookup'[Slot(streamByID'[i])] = i
    <3>1. CASE i = n
      BY <2>3, <2>4, <2>5, <3>1
    <3>2. CASE i # n
      <4>1. streamByID'[i] = streamByID[i] /\ streamByID[i] \in Keys
        BY <2>5, <2>6, <3>2, GroupFacts
      <4>2. Slot(streamByID[i]) \in Slots
        BY <4>1, SlotType
      <4>3. lookup[Slot(streamByID[i])] = i /\ i # 0
        BY <1>0, <2>6, <4>1, GroupFacts DEF Resolves, Ids
      <4>4. Slot(streamByID[i]) # Slot(key)
        BY <2>1, <2>6, <4>1, <4>3 DEF Shares
      <4> QED
        BY <2>4, <4>1, <4>2, <4>3, <4>4
    <3> QED
      BY <3>1, <3>2
  <2> QED
    BY <1>0, <2>6, ResolvesNext
<1>3. ASSUME NEW c \in Clients, SendFails(c) \/ UnregisterTopic(c) PROVE Resolves'
  <2> DEFINE n == client[c].id
  <2>1. Unregister(n) /\ n \in Ids
    BY <1>3, AtWork DEF SendFails, UnregisterTopic, WithId, InSub, Subscribing, Unsubscribing
  <2> HIDE DEF n
  <2>2. streamByID'[n] = NoKey /\ \A i \in Ids : i # n => streamByID'[i] = streamByID[i]
    BY <2>1, GroupFacts DEF Unregister
  <2>3. ASSUME NEW i \in Ids, streamByID'[i] # NoKey, streamByID'[i] \notin contested'
        PROVE  lookup'[Slot(streamByID'[i])] = i
    <3>1. i # n /\ streamByID'[i] = streamByID[i] /\ streamByID[i] \in Keys /\ streamByID[i] \notin contested
      BY <1>0, <2>2, <2>3, GroupFacts
    <3>2. lookup[Slot(streamByID[i])] = i /\ Slot(streamByID[i]) \in Slots
      BY <1>0, <3>1, SlotType, NoKeyIsNone DEF Resolves
    <3>3. CASE streamByID[n] = NoKey
      BY <2>1, <3>1, <3>2, <3>3 DEF Unregister
    <3>4. CASE streamByID[n] # NoKey
      <4>1. streamByID[n] \in Keys
        BY <2>1, <3>4, GroupFacts
      <4>2. Slot(streamByID[n]) # Slot(streamByID[i])
        <5>1. ASSUME Slot(streamByID[n]) = Slot(streamByID[i]) PROVE FALSE
          <6>1. streamByID[n] \notin contested
            BY <1>0, <3>1, <5>1 DEF Closed
          <6>2. lookup[Slot(streamByID[n])] = n
            BY <1>0, <2>1, <3>4, <6>1 DEF Resolves
          <6> QED
            BY <3>1, <3>2, <5>1, <6>2
        <5> QED
          BY <5>1
      <4>3. Slot(streamByID[n]) \in Slots
        BY <4>1, SlotType
      <4>4. lookup'[Slot(streamByID[i])] = lookup[Slot(streamByID[i])]
        BY <2>1, <3>2, <3>4, <4>2, <4>3, GroupFacts DEF Unregister
      <4> QED
        BY <3>1, <3>2, <4>4
    <3> QED
      BY <3>3, <3>4
  <2> QED
    BY <1>0, <2>3, ResolvesNext
<1> QED
  BY <1>1, <1>2, <1>3, Footprints

\* Only finitely many connections hold a reference to a topic.
LEMMA HoldersFinite ==
    ASSUME NEW k
    PROVE  IsFiniteSet(Holders(k)) /\ Cardinality(Holders(k)) \in Nat /\ Holders(k) \subseteq Clients
<1>1. Holders(k) \subseteq Clients
  BY DEF Holders
<1> QED
  BY <1>1, FS_Subset, FS_CardinalityType, IngestAssumption

\* The call is about a topic of the group.
LEMMA OnItsTopic ==
    ASSUME IInv, Serving, NEW c \in Clients, client[c].pc \in Joining \cup Holding, client[c].key \notin contested
    PROVE  /\ client[c].key \in Keys /\ client[c].id \in Ids /\ client[c].id = topics[client[c].key]
           /\ topics[client[c].key] # 0 /\ streamByID[client[c].id] = client[c].key /\ msubs[client[c].id] # 0
<1>1. client[c].key \in Keys /\ client[c].id \in Ids /\ client[c].id # 0
  BY AtWork, GroupFacts DEF Joining, Holding, WithId, InSub, Subscribing, Unsubscribing, Ids
<1>2. client[c].id = topics[client[c].key]
  BY <1>1 DEF Serving, OnTopic, InCall
<1> QED
  BY <1>1, <1>2, GroupFacts DEF Backed

\* Who drops the last reference is the only one who had one.
LEMMA LastReference ==
    ASSUME IInv, Serving, NEW c \in Clients, Drop(c), client[c].key \notin contested, refCount[client[c].id] <= 1,
           NEW d \in Clients, d \in Holders(client[c].key)
    PROVE  d = c
<1> DEFINE S == Holders(client[c].key)
<1>1. client[c].pc = "drop"
  BY DEF Drop
<1>2. client[c].key \in Keys /\ client[c].id = topics[client[c].key] /\ topics[client[c].key] # 0
  BY <1>1, OnItsTopic DEF Holding
<1>3. Cardinality(S) <= 1
  BY <1>2 DEF Serving, Counted
<1>4. c \in S
  BY <1>1 DEF Holders, InCall, Holding
<1>5. IsFiniteSet(S) /\ Cardinality(S) \in Nat
  BY HoldersFinite
<1> HIDE DEF S
<1>6. IsFiniteSet(S \ {c}) /\ Cardinality(S \ {c}) = Cardinality(S) - 1
  BY <1>4, <1>5, FS_RemoveElement
<1>7. Cardinality(S \ {c}) \in Nat
  BY <1>6, FS_CardinalityType
<1>8. Cardinality(S \ {c}) = 0
  BY <1>3, <1>5, <1>6, <1>7
<1>9. S \ {c} = {}
  BY <1>6, <1>8, FS_EmptySet
<1> QED
  BY <1>9 DEF S

\* The topic of a stream somebody holds or joins stays.
LEMMA TopicStays ==
    ASSUME IInv, Serving, [Next]_vars, NEW k \in Keys, k \notin contested, topics[k] # 0,
           topics'[k] # topics[k]
    PROVE  \E e \in Clients : /\ Drop(e) /\ client[e].key = k /\ topics'[k] = 0
                              /\ \A d \in Clients : d \in Holders(k) => d = e
                              /\ \A d \in Clients : ~InCall(d, Joining, k)
<1>1. ASSUME NEW e \in Clients, SendOK(e) PROVE FALSE
  <2>1. client[e].key \in Keys /\ topics[client[e].key] = 0
    BY <1>1, AtWork, GroupFacts DEF SendOK, NewTopics, Maker, Making, InSub, Subscribing
  <2> QED
    BY <1>1, <2>1, GroupFacts DEF SendOK
<1>2. PICK e \in Clients : Drop(e)
  BY <1>1, Footprints
<1>3. refCount[client[e].id] <= 1 /\ client[e].key = k /\ topics'[k] = 0
  BY <1>2, GroupFacts DEF Drop
<1>4. \A d \in Clients : d \in Holders(k) => d = e
  BY <1>2, <1>3, LastReference
<1>5. InCall(e, Unsubscribing, k)
  BY <1>2, <1>3 DEF Drop, InCall, Unsubscribing
<1>6. \A d \in Clients : ~InCall(d, Joining, k)
  BY <1>5 DEF Serving, NoOverlap, InCall, Joining, Subscribing
<1> QED
  BY <1>2, <1>3, <1>4, <1>6

\* A subscription keeps its place in the router.
LEMMA SubsAttachedStep == ASSUME IInv, Serving, [Next]_vars PROVE SubsAttached'
<1> SUFFICES ASSUME NEW k \in Keys \ contested', NEW c \in Clients, k \in client'[c].subs \/ InCall(c, {"count"}, k)'
             PROVE  topics'[k] # 0 /\ c \in attached'[topics'[k]]
  BY DEF SubsAttached
<1>0. k \in Keys /\ k \notin contested
  BY ContestedGrows
<1>1. k \in client[c].subs \/ InCall(c, {"count"}, k) \/ (Attach(c) /\ client[c].key = k)
  <2>1. k \in client'[c].subs => k \in client[c].subs \/ (Count(c) /\ client[c].key = k)
    BY <1>0, StepsAre DEF Steps
  <2>2. InCall(c, {"count"}, k)' => InCall(c, {"count"}, k) \/ (Attach(c) /\ client[c].key = k)
    BY <1>0, StepsAre DEF Steps
  <2>3. Count(c) => client[c].pc = "count"
    BY DEF Count
  <2> QED
    BY <2>1, <2>2, <2>3 DEF InCall
<1>2. CASE k \in client[c].subs \/ InCall(c, {"count"}, k)
  <2> DEFINE t == topics[k]
  <2>1. t # 0 /\ t \in Ids /\ c \in attached[t] /\ streamByID[t] = k
    BY <1>0, <1>2, GroupFacts DEF Serving, SubsAttached, Backed
  <2>2. topics'[k] = t
    <3>1. ASSUME topics'[k] # t PROVE FALSE
      <4>1. PICK e \in Clients : /\ Drop(e) /\ client[e].key = k
                                 /\ \A d \in Clients : d \in Holders(k) => d = e
                                 /\ \A d \in Clients : ~InCall(d, Joining, k)
        BY <1>0, <2>1, <3>1, TopicStays
      <4>2. k \in client[c].subs
        BY <1>2, <4>1 DEF InCall, Joining
      <4>3. c = e
        BY <4>1, <4>2 DEF Holders
      <4>4. client[e].key \notin client[e].subs
        BY <4>1, GroupFacts DEF Drop, CallShape, InSub, Unsubscribing
      <4> QED
        BY <4>1, <4>2, <4>3, <4>4
    <3> QED
      BY <3>1
  <2> HIDE DEF t
  <2>3. c \in attached'[t]
    <3>1. ASSUME NEW e \in Clients, Attach(e) PROVE c \in attached'[t]
      BY <2>1, <3>1, GroupFacts DEF Attach
    <3>2. ASSUME NEW e \in Clients, Detach(e) PROVE c \in attached'[t]
      <4>1. client[e].pc = "detach" /\ attached' = [attached EXCEPT ![client[e].id] = @ \ {e}]
        BY <3>2 DEF Detach
      <4>2. e = c => client[c].id # t
        <5>1. client[c].pc = "detach" => client[c].key \notin client[c].subs
          BY GroupFacts DEF CallShape, InSub, Unsubscribing
        <5>2. client[c].id = t => client[c].key = k
          BY <2>1, <1>0, GroupFacts, NoKeyIsNone DEF OwnKey
        <5> QED
          BY <1>2, <4>1, <5>1, <5>2 DEF InCall
      <4> QED
        BY <2>1, <4>1, <4>2, GroupFacts
    <3>3. ASSUME NEW e \in Clients, ManagerUnsubscribe(e) PROVE c \in attached'[t]
      <4>1. client[e].id # t
        BY <1>0, <3>3, GroupFacts DEF ManagerUnsubscribe, OldTopics, Leaving, t
      <4> QED
        BY <2>1, <3>3, <4>1, GroupFacts DEF ManagerUnsubscribe
    <3> QED
      BY <2>1, <3>1, <3>2, <3>3, Footprints
  <2> QED
    BY <2>1, <2>2, <2>3
<1>3. CASE Attach(c) /\ client[c].key = k
  <2>1. client[c].id = topics[k] /\ topics[k] # 0 /\ client[c].id \in Ids
    BY <1>0, <1>3, OnItsTopic DEF Attach, Joining
  <2>2. topics' = topics /\ c \in attached'[client[c].id]
    BY <1>3, <2>1, GroupFacts DEF Attach, groupVars
  <2> QED
    BY <2>1, <2>2
<1> QED
  BY <1>1, <1>2, <1>3

\* A call stays on the topic of its key.
LEMMA OnTopicStep == ASSUME IInv, Serving, [Next]_vars PROVE OnTopic'
<1> SUFFICES ASSUME NEW k \in Keys \ contested', NEW c \in Clients, InCall(c, Joining \cup Holding, k)'
             PROVE  client'[c].id = topics'[k]
  BY DEF OnTopic
<1>0. k \in Keys /\ k \notin contested
  BY ContestedGrows
<1>1. \/ InCall(c, Joining \cup Holding, k) /\ client'[c].id = client[c].id
      \/ topics' = topics /\ client'[c].id = topics[k]
      \/ SendOK(c) /\ client[c].key = k /\ client'[c].id = client[c].id
  BY <1>0, StepsAre DEF Steps
<1>2. CASE InCall(c, Joining \cup Holding, k) /\ client'[c].id = client[c].id
  <2>1. client[c].id = topics[k] /\ topics[k] # 0
    BY <1>0, <1>2, OnItsTopic DEF InCall
  <2>2. ASSUME topics'[k] # topics[k] PROVE FALSE
    <3>1. PICK e \in Clients : /\ Drop(e)
                               /\ \A d \in Clients : d \in Holders(k) => d = e
                               /\ \A d \in Clients : ~InCall(d, Joining, k)
      BY <1>0, <2>1, <2>2, TopicStays
    <3>2. c = e
      BY <1>2, <3>1 DEF InCall, Holders
    <3>3. client'[c].pc \in {"unregister", "cleanup"}
      BY <3>1, <3>2, UnsubscribeMoves DEF Moved
    <3> QED
      BY <3>3 DEF InCall, Joining, Holding
  <2> QED
    BY <1>2, <2>1, <2>2
<1>3. CASE SendOK(c) /\ client[c].key = k /\ client'[c].id = client[c].id
  BY <1>0, <1>3, GroupFacts DEF SendOK
<1> QED
  BY <1>1, <1>2, <1>3

\* A consumer is attached only as long as it has a part in the stream.
LEMMA AttachedSubsStep == ASSUME IInv, IInv', Serving, [Next]_vars PROVE AttachedSubs'
<1> SUFFICES ASSUME NEW i \in Ids, NEW c \in Clients,
                    c \in attached'[i], streamByID'[i] # NoKey, streamByID'[i] \notin contested'
             PROVE  \/ streamByID'[i] \in client'[c].subs
                    \/ client'[c].pc \in {"count", "rcheck", "detach"} /\ client'[c].key = streamByID'[i]
  BY DEF AttachedSubs, InCall
<1>0. contested \subseteq contested' /\ i # 0
  BY ContestedGrows, GroupFacts DEF Ids
<1>1. c \in attached[i] \/ (Attach(c) /\ client[c].id = i)
  <2>1. ASSUME NEW e \in Clients, Attach(e) PROVE c \in attached[i] \/ (Attach(c) /\ client[c].id = i)
    BY <2>1, GroupFacts DEF Attach
  <2>2. ASSUME NEW e \in Clients, Detach(e) PROVE c \in attached[i]
    BY <2>2, GroupFacts DEF Detach
  <2>3. ASSUME NEW e \in Clients, ManagerUnsubscribe(e) PROVE c \in attached[i]
    BY <2>3, GroupFacts DEF ManagerUnsubscribe
  <2> QED
    BY <2>1, <2>2, <2>3, Footprints
<1>2. CASE Attach(c) /\ client[c].id = i
  <2>1. client'[c].pc = "count" /\ client'[c].id = i
    BY <1>2, SubscribeMoves DEF Moved
  <2>2. streamByID'[client'[c].id] = client'[c].key
    BY <1>0, <2>1 DEF IInv, InCalls, OwnKey
  <2> QED
    BY <2>1, <2>2
<1>3. CASE c \in attached[i]
  <2>1. streamByID[i] = streamByID'[i]
    <3>1. ASSUME NEW e \in Clients, NewTopic(e) PROVE streamByID[i] = streamByID'[i]
      <4>1. streamByID' = [streamByID EXCEPT ![nextId + 1] = client[e].key]
        BY <3>1 DEF NewTopic, Register
      <4>2. nextId + 1 \in Ids => attached[nextId + 1] = {}
        BY GroupFacts DEF FreshIds
      <4> QED
        BY <1>3, <4>1, <4>2, GroupFacts
    <3>2. ASSUME NEW e \in Clients, SendFails(e) \/ UnregisterTopic(e) PROVE streamByID[i] = streamByID'[i]
      BY <3>2, GroupFacts DEF SendFails, UnregisterTopic, Unregister
    <3> QED
      BY <3>1, <3>2, Footprints
  <2>2. PICK k \in Keys : k = streamByID[i] /\ k = streamByID'[i] /\ k \notin contested /\ k # NoKey
    BY <1>0, <2>1, GroupFacts
  <2>3. k \in client[c].subs \/ InCall(c, {"count", "rcheck", "detach"}, k)
    BY <1>3, <2>1, <2>2 DEF Serving, AttachedSubs
  <2>4. CASE k \in client[c].subs
    <3>1. \/ k \in client'[c].subs
          \/ topics[k] = 0
          \/ InCall(c, {"rcheck"}, k)'
      BY <2>2, <2>4, StepsAre DEF Steps
    <3>2. topics[k] # 0
      BY <2>2, <2>4 DEF Serving, SubsAttached
    <3> QED
      BY <2>2, <3>1, <3>2 DEF InCall
  <2>5. CASE InCall(c, {"count", "rcheck", "detach"}, k)
    <3>1. \/ InCall(c, {"count", "rcheck", "detach"}, k)'
          \/ k \in client'[c].subs
          \/ Detach(c)
          \/ client[c].pc = "rcheck" /\ msubs[client[c].id] = 0
      BY <2>2, <2>5, StepsAre DEF Steps
    <3>2. /\ client[c].id = topics[k] /\ client[c].id \in Ids
          /\ streamByID[client[c].id] = k /\ msubs[client[c].id] # 0
      BY <2>2, <2>5, OnItsTopic DEF InCall, Joining, Holding
    <3>3. ASSUME Detach(c) PROVE FALSE
      <4>1. lookup[Slot(k)] = i /\ lookup[Slot(k)] = client[c].id
        BY <2>1, <2>2, <3>2 DEF Serving, Resolves
      <4>2. c \notin attached'[client[c].id]
        BY <3>2, <3>3, GroupFacts DEF Detach
      <4> QED
        BY <4>1, <4>2
    <3> QED
      BY <2>2, <3>1, <3>2, <3>3 DEF InCall
  <2> QED
    BY <2>3, <2>4, <2>5
<1> QED
  BY <1>1, <1>2, <1>3

\* How the references of a stream change.
LEMMA HoldersChange ==
    ASSUME IInv, Serving, [Next]_vars, NEW k \in Keys, k \notin contested, topics[k] # 0, NEW d \in Clients
    PROVE  /\ d \in Holders(k)' => d \in Holders(k) \/ Count(d)
           /\ d \in Holders(k) => d \in Holders(k)' \/ Drop(d)
<1>1. Steps(d, k)
  BY StepsAre
<1>2. d \in Holders(k)' => d \in Holders(k) \/ Count(d)
  BY <1>1 DEF Steps, Holders
<1>3. k \in client[d].subs => d \in Holders(k)'
  <2>1. k \in client[d].subs => k \in client'[d].subs \/ InCall(d, {"rcheck"}, k)'
    BY <1>1 DEF Steps
  <2> QED
    BY <2>1 DEF Holders, InCall, Holding
<1>4. InCall(d, Holding, k) => d \in Holders(k)' \/ Drop(d)
  <2>1. InCall(d, Holding, k) => msubs[client[d].id] # 0
    BY OnItsTopic DEF InCall
  <2>2. InCall(d, Holding, k) => InCall(d, Holding, k)' \/ Drop(d)
    BY <1>1, <2>1 DEF Steps
  <2> QED
    BY <2>2 DEF Holders
<1> QED
  BY <1>2, <1>3, <1>4 DEF Holders

\* The count follows the references.
LEMMA CountedStep == ASSUME IInv, Serving, [Next]_vars PROVE Counted'
<1> SUFFICES ASSUME NEW k \in Keys \ contested', topics'[k] # 0
             PROVE  refCount'[topics'[k]] = Cardinality(Holders(k)')
  BY DEF Counted
<1>0. k \in Keys /\ k \notin contested
  BY ContestedGrows
<1>1. CASE topics[k] = 0
  <2>1. ASSUME NEW e \in Clients, Drop(e) PROVE FALSE
    BY <1>0, <1>1, <2>1, GroupFacts DEF Drop
  <2>2. PICK e \in Clients : SendOK(e)
    BY <1>0, <1>1, <2>1, Footprints
  <2>3. /\ topics'[k] = client[e].id /\ refCount' = refCount
        /\ \A d \in Clients : client'[d].subs = client[d].subs
    BY <1>0, <1>1, <2>2, GroupFacts, SubscribeMoves DEF SendOK, Moved
  <2>4. refCount[client[e].id] = 0
    BY <2>2, GroupFacts DEF SendOK, NewTopics, Maker, Making
  <2>5. \A d \in Clients : k \notin client[d].subs
    BY <1>0, <1>1 DEF Serving, SubsAttached
  <2>6. \A d \in Clients : ~InCall(d, Holding, k)
    BY <1>0, <1>1, OnItsTopic DEF InCall
  <2>7. \A d \in Clients : ~InCall(d, Holding, k)'
    BY <1>0, <2>5, <2>6, StepsAre DEF Steps
  <2>8. Holders(k)' = {}
    BY <2>3, <2>5, <2>7 DEF Holders
  <2>9. Cardinality(Holders(k)') = 0
    BY <2>8, FS_EmptySet
  <2> QED
    BY <2>3, <2>4, <2>9
<1>2. CASE topics[k] # 0
  <2> DEFINE t == topics[k]
  <2>1. topics'[k] = t
    BY <1>0, <1>2, TopicStays
  <2>2. /\ t \in Ids /\ streamByID[t] = k /\ k # NoKey
        /\ refCount[t] = Cardinality(Holders(k)) /\ refCount[t] \in Int
    BY <1>0, <1>2, GroupFacts, NoKeyIsNone DEF Backed, Serving, Counted
  <2>3. \A e \in Clients : client[e].id = t => client[e].key = k
    BY <1>2, <2>2, GroupFacts DEF OwnKey
  <2>4. IsFiniteSet(Holders(k))
    BY HoldersFinite
  <2>5. ASSUME NEW e \in Clients, Count(e) PROVE refCount'[t] = Cardinality(Holders(k)')
    <3>1. /\ client[e].pc = "count" /\ client[e].id \in Ids /\ client[e].key \notin client[e].subs
          /\ refCount' = [refCount EXCEPT ![client[e].id] = @ + 1]
      BY <2>5, AtWork, GroupFacts DEF Count, CallShape, WithId, InSub, Subscribing
    <3>2. /\ client'[e].pc = "idle" /\ client'[e].subs = client[e].subs \cup {client[e].key}
          /\ \A d \in Clients : d # e => client'[d] = client[d]
      BY <2>5, SubscribeMoves DEF Moved
    <3>3. CASE client[e].key = k
      <4>1. client[e].id = t
        BY <1>0, <3>1, <3>3, OnItsTopic DEF Joining
      <4>2. e \notin Holders(k)
        BY <3>1, <3>3 DEF Holders, InCall, Holding
      <4>3. Holders(k)' = Holders(k) \cup {e}
        BY <3>1, <3>2, <3>3 DEF Holders, InCall, Holding
      <4>4. Cardinality(Holders(k)') = Cardinality(Holders(k)) + 1
        BY <2>4, <4>2, <4>3, FS_AddElement
      <4>5. refCount'[t] = refCount[t] + 1
        BY <2>2, <3>1, <4>1, GroupFacts
      <4> QED
        BY <2>2, <4>4, <4>5
    <3>4. CASE client[e].key # k
      <4>1. Holders(k)' = Holders(k)
        BY <3>1, <3>2, <3>4 DEF Holders, InCall, Holding
      <4>2. refCount'[t] = refCount[t]
        BY <2>2, <2>3, <3>1, <3>4, GroupFacts
      <4> QED
        BY <2>2, <4>1, <4>2
    <3> QED
      BY <3>3, <3>4
  <2>6. ASSUME NEW e \in Clients, Drop(e) PROVE refCount'[t] = Cardinality(Holders(k)')
    <3>1. /\ client[e].pc = "drop" /\ client[e].id \in Ids /\ client[e].key \notin client[e].subs
          /\ refCount' = [refCount EXCEPT ![client[e].id] = @ - 1]
      BY <2>6, AtWork, GroupFacts DEF Drop, CallShape, WithId, InSub, Unsubscribing
    <3>2. /\ client'[e].pc \in {"unregister", "cleanup"} /\ client'[e].subs = client[e].subs
          /\ \A d \in Clients : d # e => client'[d] = client[d]
      BY <2>6, UnsubscribeMoves DEF Moved
    <3>3. CASE client[e].key = k
      <4>1. client[e].id = t
        BY <1>0, <3>1, <3>3, OnItsTopic DEF Holding
      <4>2. e \in Holders(k)
        BY <3>1, <3>3 DEF Holders, InCall, Holding
      <4>3. Holders(k)' = Holders(k) \ {e}
        BY <3>1, <3>2, <3>3 DEF Holders, InCall, Holding
      <4>4. Cardinality(Holders(k)') = Cardinality(Holders(k)) - 1
        BY <2>4, <4>2, <4>3, FS_RemoveElement
      <4>5. refCount'[t] = refCount[t] - 1
        BY <2>2, <3>1, <4>1, GroupFacts
      <4> QED
        BY <2>2, <4>4, <4>5
    <3>4. CASE client[e].key # k
      <4>1. Holders(k)' = Holders(k)
        BY <3>1, <3>2, <3>4 DEF Holders, InCall, Holding
      <4>2. refCount'[t] = refCount[t]
        BY <2>2, <2>3, <3>1, <3>4, GroupFacts
      <4> QED
        BY <2>2, <4>1, <4>2
    <3> QED
      BY <3>3, <3>4
  <2>7. ASSUME \A e \in Clients : ~Count(e) /\ ~Drop(e) PROVE refCount'[t] = Cardinality(Holders(k)')
    <3>1. \A d \in Clients : d \in Holders(k)' <=> d \in Holders(k)
      BY <1>0, <1>2, <2>7, HoldersChange
    <3>2. Holders(k)' = Holders(k)
      BY <3>1 DEF Holders
    <3>3. refCount' = refCount
      BY <2>7, Footprints
    <3> QED
      BY <2>2, <3>2, <3>3
  <2> QED
    BY <2>1, <2>5, <2>6, <2>7
<1> QED
  BY <1>1, <1>2

\* The initial state satisfies the invariant of the streams.
LEMMA ServingInit == Init => Serving
<1> SUFFICES ASSUME Init PROVE Serving
  OBVIOUS
<1>1. /\ \A c \in Clients : client[c].pc = "idle" /\ client[c].subs = {}
      /\ contested = {} /\ \A i \in Ids : streamByID[i] = NoKey
      /\ \A k \in Keys : topics[k] = 0
  BY DEF Init
<1>2. NoOverlap /\ Closed /\ Resolves /\ AttachedSubs /\ Counted
  BY <1>1 DEF NoOverlap, Closed, Resolves, AttachedSubs, Counted, InCall, Subscribing
<1>3. SubsAttached /\ OnTopic
  BY <1>1 DEF SubsAttached, OnTopic, InCall, Joining, Holding
<1> QED
  BY <1>2, <1>3 DEF Serving

\* It holds in every reachable state.
LEMMA ServingInvariance == Spec => []Serving
<1>1. ASSUME IInv, IInv', Serving, [Next]_vars PROVE Serving'
  BY <1>1, NoOverlapStep, ContestedGrows, ResolvesStep, SubsAttachedStep, AttachedSubsStep, CountedStep, OnTopicStep
     DEF Serving
<1>2. IInv /\ IInv' /\ Serving /\ [Next]_vars => Serving'
  BY <1>1
<1> QED
  BY <1>2, ServingInit, Invariance, PTL DEF Spec

\* A connection gets the updates of exactly the streams it has subscribed, as long as no
\* Subscribe and Unsubscribe of the stream overlapped and no other topic took its lookup
\* entry: for any number of connections and streams on either exchange.
THEOREM ServedAsSubscribed == Spec => []ServedExactly
<1>1. ASSUME IInv, Serving PROVE ServedExactly
  <2> SUFFICES ASSUME NEW k \in Keys \ contested, NEW c \in Clients, Settled(c, k),
                      \A j \in Shares(k) \ {k} : Settled(c, j) /\ j \notin client[c].subs
               PROVE  c \in Receivers(k) <=> k \in client[c].subs
    BY DEF ServedExactly
  <2>1. k \in Keys /\ k \notin contested /\ Slot(k) \in Slots
    BY SlotType
  <2>2. ASSUME k \in client[c].subs PROVE c \in Receivers(k)
    <3>1. topics[k] # 0 /\ c \in attached[topics[k]]
      BY <1>1, <2>1, <2>2 DEF Serving, SubsAttached
    <3>2. topics[k] \in Ids /\ streamByID[topics[k]] = k /\ k # NoKey
      BY <1>1, <2>1, <3>1, GroupFacts, NoKeyIsNone DEF Backed
    <3>3. lookup[Slot(k)] = topics[k]
      BY <1>1, <2>1, <3>2 DEF Serving, Resolves
    <3> QED
      BY <3>1, <3>3 DEF Receivers
  <2>3. ASSUME c \in Receivers(k) PROVE k \in client[c].subs
    <3> DEFINE i == lookup[Slot(k)]
    <3>1. i # 0 /\ c \in attached[i]
      BY <2>3 DEF Receivers
    <3>2. i \in Ids /\ streamByID[i] # NoKey /\ Slot(streamByID[i]) = Slot(k)
      BY <1>1, <2>1, <3>1, GroupFacts DEF LookupHome
    <3> HIDE DEF i
    <3>3. PICK j \in Keys : j = streamByID[i]
      BY <1>1, <3>2, GroupFacts
    <3>4. j \in Shares(k) /\ j \notin contested
      <4>1. j \in contested => k \in contested
        BY <1>1, <2>1, <3>2, <3>3 DEF Serving, Closed
      <4> QED
        BY <2>1, <3>2, <3>3, <4>1 DEF Shares
    <3>5. j \in client[c].subs \/ InCall(c, {"count", "rcheck", "detach"}, j)
      BY <1>1, <3>1, <3>2, <3>3, <3>4 DEF Serving, AttachedSubs
    <3>6. Settled(c, j) => j \in client[c].subs
      BY <3>5 DEF Settled, InCall, Subscribing, Unsubscribing
    <3> QED
      BY <3>4, <3>6
  <2> QED
    BY <2>2, <2>3
<1>2. IInv /\ Serving => ServedExactly
  BY <1>1
<1> QED
  BY <1>2, Invariance, ServingInvariance, PTL

===============================================================================
