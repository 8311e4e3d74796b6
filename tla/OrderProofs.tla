------------------------------ MODULE OrderProofs ------------------------------
(***************************************************************************)
(* Proofs about Order, for any set of requests and of workers, any         *)
(* capacity of the channel and any number of Handle calls.                 *)
(***************************************************************************)
EXTENDS Order, SequenceTheorems, TLAPS

-----------------------------------------------------------------------------
(* The inductive invariant.                                                *)

Responses == [sent : BOOLEAN, code : {"none", "internal", "exchange"}, id : BOOLEAN,
              err : {"none", "nil", "action", "type", "id", "http", "body", "empty"}]

\* What TypeOK leaves open of calls and resp.
Shapes == /\ calls \in Seq([req : Requests, ok : BOOLEAN]) /\ Len(calls) <= MaxCalls
          /\ resp \in [Calls -> Responses]

\* The worker serves a request.
Busy(w) == wk[w].pc \in {"send", "http", "decode"}

\* Nothing has been done about call c.
Untouched(c) == net[c] = "none" /\ resp[c] = NoResp

\* A call is in one place at most: not made yet, once in the channel, or at one worker.
\* Only there can it still be sent or answered.
InOnePlace ==
    /\ \A c \in Calls : c > Len(calls) => Untouched(c)
    /\ \A i \in 1 .. Len(queue) : queue[i] <= Len(calls) /\ Untouched(queue[i])
    /\ \A i, j \in 1 .. Len(queue) : queue[i] = queue[j] => i = j
    /\ \A i \in 1 .. Len(queue) : \A w \in Workers : Busy(w) => wk[w].c # queue[i]
    /\ \A v, w \in Workers : Busy(v) /\ Busy(w) /\ wk[v].c = wk[w].c => v = w
    /\ \A w \in Workers : Busy(w) => wk[w].c \in Calls /\ wk[w].c <= Len(calls) /\ resp[wk[w].c] = NoResp

\* How far a worker's request has come; workers rest until Run.
Progress ==
    /\ \A w \in Workers : wk[w].pc = "send" => net[wk[w].c] = "none"
    /\ \A w \in Workers : wk[w].pc = "decode" => net[wk[w].c] \in {"done", "refused"}
    /\ ~running => \A w \in Workers : wk[w].pc = "off"

IInv == TypeOK /\ Shapes /\ InOnePlace /\ Progress /\ ReportTrue

\* The empty response is one of the responses and reports no error.
LEMMA NoRespType == NoResp \in Responses /\ NoResp.err = "none"
BY DEF NoResp, Responses

\* A worker that serves no call has a state of the right type.
LEMMA IdleType == /\ Idle \in [pc : {"off", "select", "send", "http", "decode", "gone"}, c : 0 .. MaxCalls]
                  /\ Idle.pc = "select"
BY OrderAssumption DEF Idle

\* newUsecase establishes the inductive invariant.
LEMMA IInvInit == Init => IInv
<1> SUFFICES ASSUME Init PROVE IInv
  OBVIOUS
<1>1. TypeOK
  <2>1. queue \in Seq(Calls) /\ Len(queue) <= QueueCap
    BY OrderAssumption, EmptySeq DEF Init
  <2>2. wk \in [Workers -> [pc : {"off", "select", "send", "http", "decode", "gone"}, c : 0 .. MaxCalls]]
    BY OrderAssumption DEF Init
  <2>3. \A i \in DOMAIN calls : calls[i].req \in Requests /\ calls[i].ok \in BOOLEAN
    BY DEF Init
  <2>4. /\ running \in BOOLEAN /\ stopped \in BOOLEAN /\ panicked \in BOOLEAN
        /\ net \in [Calls -> {"none", "sent", "done", "refused"}]
        /\ waited \subseteq Calls /\ \A c \in Calls : resp[c] = NoResp
    BY DEF Init
  <2> QED
    BY <2>1, <2>2, <2>3, <2>4 DEF TypeOK
<1>2. Shapes
  BY OrderAssumption, NoRespType DEF Init, Shapes
<1>3. InOnePlace /\ Progress
  BY DEF Init, InOnePlace, Progress, Busy, Untouched
<1>4. ReportTrue
  BY NoRespType DEF Init, ReportTrue
<1> QED
  BY <1>1, <1>2, <1>3, <1>4 DEF IInv

-----------------------------------------------------------------------------
(* The worker's last step for a request.                                   *)

\* The parts of the state a step relies on.
LEMMA Facts ==
    ASSUME IInv
    PROVE  /\ wk \in [Workers -> [pc : {"off", "select", "send", "http", "decode", "gone"}, c : 0 .. MaxCalls]]
           /\ net \in [Calls -> {"none", "sent", "done", "refused"}]
           /\ resp \in [Calls -> Responses]
           /\ queue \in Seq(Calls) /\ Len(queue) \in Nat /\ \A i \in 1 .. Len(queue) : queue[i] \in Calls
           /\ calls \in Seq([req : Requests, ok : BOOLEAN]) /\ Len(calls) \in Nat
           /\ MaxCalls \in Nat /\ Calls \subseteq 0 .. MaxCalls
<1>1. /\ queue \in Seq(Calls) /\ calls \in Seq([req : Requests, ok : BOOLEAN])
  BY DEF IInv, TypeOK, Shapes
<1> QED
  BY <1>1, OrderAssumption, ElementOfSeq DEF IInv, TypeOK, Shapes, Calls

\* Response r of worker w says nothing false.
Truthful(w, r) == /\ r.err # "none"
                  /\ Error(r) = "nil" => net[wk[w].c] = "done"
                  /\ r.code = "exchange" => net[wk[w].c] = "refused"
                  /\ Error(r) = "not sent" /\ net[wk[w].c] # "none" => wk[w].c \in waited'

\* A response that is true of its request, given once, keeps the invariant.
LEMMA ReturnsInv ==
    ASSUME IInv, NEW w \in Workers, Busy(w), NEW r \in Responses, Truthful(w, r), Returns(w, r),
           UNCHANGED <<running, stopped, queue, calls, net, panicked>>,
           waited \subseteq waited', waited' \subseteq Calls
    PROVE  IInv'
<1> DEFINE call == wk[w].c
<1>0. /\ call \in Calls /\ resp[call] = NoResp /\ call <= Len(calls) /\ running
      /\ \A v \in Workers : Busy(v) /\ wk[v].c = call => v = w
      /\ \A i \in 1 .. Len(queue) : queue[i] # call
  BY DEF IInv, InOnePlace, Progress, Busy
<1>1. /\ resp' = [resp EXCEPT ![call] = r] /\ wk' = [wk EXCEPT ![w] = Idle]
      /\ running' = running /\ stopped' = stopped /\ queue' = queue /\ calls' = calls
      /\ net' = net /\ panicked' = panicked
  BY DEF Returns
<1> HIDE DEF call
<1>2. wk' \in [Workers -> [pc : {"off", "select", "send", "http", "decode", "gone"}, c : 0 .. MaxCalls]]
  <2>1. Idle \in [pc : {"off", "select", "send", "http", "decode", "gone"}, c : 0 .. MaxCalls]
    BY IdleType
  <2>2. wk \in [Workers -> [pc : {"off", "select", "send", "http", "decode", "gone"}, c : 0 .. MaxCalls]]
    BY Facts
  <2> QED
    BY <1>1, <2>1, <2>2
<1>3. Shapes'
  BY <1>0, <1>1, Facts DEF IInv, Shapes
<1>4. \A d \in Calls : resp'[d] = IF d = call THEN r ELSE resp[d]
  BY <1>0, <1>1, Facts
<1>5. wk'[w].pc = "select" /\ \A v \in Workers : v # w => wk'[v] = wk[v]
  <2>1. wk'[w] = Idle /\ \A v \in Workers : v # w => wk'[v] = wk[v]
    BY <1>1, Facts
  <2> QED
    BY <2>1, IdleType
<1>6. \A v \in Workers : Busy(v)' <=> Busy(v) /\ v # w
  BY <1>5 DEF Busy
<1>7. \A d \in Calls : resp[d].err = "none" => resp[d] = NoResp
  BY NoRespType DEF IInv, TypeOK
<1>8. TypeOK'
  <2>1. \A d \in Calls : resp'[d].err = "none" => resp'[d] = NoResp
    BY <1>4, <1>7 DEF Truthful
  <2>2. queue \in Seq(Calls) /\ Len(queue) <= QueueCap /\ running \in BOOLEAN /\ stopped \in BOOLEAN
        /\ panicked \in BOOLEAN /\ net \in [Calls -> {"none", "sent", "done", "refused"}]
    BY DEF IInv, TypeOK
  <2>3. \A i \in DOMAIN calls : calls[i].req \in Requests /\ calls[i].ok \in BOOLEAN
    BY DEF IInv, TypeOK
  <2>4. \A d \in Calls : resp'[d] = NoResp \/ resp'[d].err \in {"nil", "action", "type", "id", "http", "body", "empty"}
    BY <1>3, <2>1 DEF Shapes, Responses
  <2> QED
    BY <1>1, <1>2, <2>2, <2>3, <2>4 DEF TypeOK
<1>9. InOnePlace'
  <2>1. InOnePlace /\ \A i \in 1 .. Len(queue) : queue[i] \in Calls
    BY Facts DEF IInv
  <2>2. \A d \in Calls : d # call => (Untouched(d)' <=> Untouched(d))
    BY <1>1, <1>4 DEF Untouched
  <2>3. \A d \in Calls : d > Len(calls) => d # call
    BY <1>0, Facts DEF Calls
  <2>4. \A v \in Workers : Busy(v)' => Busy(v) /\ wk'[v] = wk[v] /\ wk[v].c # call
    BY <1>0, <1>5, <1>6
  <2>5. \A v \in Workers : Busy(v)' => resp'[wk'[v].c] = NoResp
    BY <1>4, <2>1, <2>4 DEF InOnePlace
  <2>6. \A d \in Calls : d > Len(calls)' => Untouched(d)'
    BY <1>1, <2>1, <2>2, <2>3 DEF InOnePlace
  <2>7. \A i \in 1 .. Len(queue)' : queue'[i] <= Len(calls)' /\ Untouched(queue[i])'
    <3> SUFFICES ASSUME NEW i \in 1 .. Len(queue)
                 PROVE  queue[i] <= Len(calls) /\ net[queue[i]] = "none" /\ resp'[queue[i]] = NoResp
      BY <1>1 DEF Untouched
    <3>1. Untouched(queue[i]) /\ queue[i] <= Len(calls)
      BY <2>1, Zenon DEF InOnePlace
    <3>2. queue[i] \in Calls
      BY <2>1, Zenon
    <3>3. queue[i] # call
      BY <1>0, Zenon
    <3> QED
      BY <1>4, <3>1, <3>2, <3>3 DEF Untouched
  <2>8. \A i \in 1 .. Len(queue)' : \A v \in Workers : Busy(v)' => wk'[v].c # queue'[i]
    BY <1>1, <2>1, <2>4 DEF InOnePlace
  <2>9. \A u, v \in Workers : Busy(u)' /\ Busy(v)' /\ wk'[u].c = wk'[v].c => u = v
    BY <2>1, <2>4 DEF InOnePlace
  <2>10. \A v \in Workers : Busy(v)' => wk'[v].c \in Calls /\ wk'[v].c <= Len(calls)'
    BY <1>1, <2>1, <2>4 DEF InOnePlace
  <2> QED
    BY <1>1, <2>1, <2>5, <2>6, <2>7, <2>8, <2>9, <2>10 DEF InOnePlace
<1>10. Progress'
  <2>1. Progress
    BY DEF IInv
  <2>2. \A v \in Workers : wk'[v].pc \in {"send", "decode"} => wk'[v] = wk[v]
    BY <1>5
  <2> QED
    BY <1>0, <1>1, <2>1, <2>2 DEF Progress
<1>11. ReportTrue'
  <2>1. \A d \in Calls : resp[d].err # "none" =>
            /\ Error(resp[d]) = "nil" => net[d] = "done"
            /\ resp[d].code = "exchange" => net[d] = "refused"
            /\ Error(resp[d]) = "not sent" /\ net[d] # "none" => d \in waited
    BY DEF IInv, ReportTrue
  <2> QED
    BY <1>1, <1>4, <2>1 DEF ReportTrue, Truthful, call
<1> QED
  BY <1>3, <1>8, <1>9, <1>10, <1>11 DEF IInv

-----------------------------------------------------------------------------
(* The other steps.                                                        *)

\* Handle adds a call nobody has touched, at the end of the channel or nowhere.
LEMMA HandleInv == ASSUME IInv, NEW r \in Requests, Handle(r) PROVE IInv'
<1> DEFINE n == Len(calls) + 1
<1>0. n \in Calls /\ n > Len(calls) /\ Len(calls) \in Nat
  BY Facts DEF Handle, Calls
<1>1. calls' \in Seq([req : Requests, ok : BOOLEAN]) /\ Len(calls') = n
  <2>1. [req |-> r, ok |-> HasRoom] \in [req : Requests, ok : BOOLEAN]
    BY DEF HasRoom
  <2> QED
    BY <2>1, Facts, AppendProperties DEF Handle
<1>2. UNCHANGED <<running, stopped, wk, net, waited, resp, panicked>>
  BY DEF Handle
<1> HIDE DEF n
<1>3. \/ queue' = queue
      \/ Len(queue) < QueueCap /\ queue' = Append(queue, n)
  BY DEF Handle, HasRoom, n
<1>4. queue' \in Seq(Calls) /\ Len(queue') <= QueueCap
  <2>1. queue \in Seq(Calls) /\ Len(queue) <= QueueCap
    BY DEF IInv, TypeOK
  <2>2. CASE Len(queue) < QueueCap /\ queue' = Append(queue, n)
    <3>1. Append(queue, n) \in Seq(Calls) /\ Len(Append(queue, n)) = Len(queue) + 1
      BY <1>0, <2>1, AppendProperties
    <3> QED
      BY <2>2, <3>1, Facts, OrderAssumption
  <2> QED
    BY <1>3, <2>1, <2>2
<1>5. TypeOK' /\ Shapes'
  <2>1. \A i \in DOMAIN calls' : calls'[i].req \in Requests /\ calls'[i].ok \in BOOLEAN
    <3>1. DOMAIN calls' = 1 .. Len(calls') /\ \A i \in 1 .. Len(calls') : calls'[i] \in [req : Requests, ok : BOOLEAN]
      BY <1>1, LenProperties, ElementOfSeq
    <3> QED
      BY <3>1
  <2>2. Len(calls') <= MaxCalls
    BY <1>0, <1>1 DEF Calls
  <2> QED
    BY <1>1, <1>2, <1>4, <2>1, <2>2 DEF IInv, TypeOK, Shapes
<1>6. InOnePlace'
  <2>1. InOnePlace /\ \A i \in 1 .. Len(queue) : queue[i] \in Calls
    BY Facts DEF IInv
  <2>2. /\ \A v \in Workers : Busy(v)' <=> Busy(v)
        /\ \A c \in Calls : Untouched(c)' <=> Untouched(c)
    BY <1>2 DEF Busy, Untouched
  <2>3. \A i \in 1 .. Len(queue') : \/ i \in 1 .. Len(queue) /\ queue'[i] = queue[i]
                                    \/ i = Len(queue) + 1 /\ queue'[i] = n
    <3>1. CASE queue' = queue
      BY <3>1
    <3>2. CASE queue' = Append(queue, n)
      <4>1. /\ Len(queue') = Len(queue) + 1 /\ queue'[Len(queue) + 1] = n /\ Len(queue) \in Nat
            /\ \A i \in 1 .. Len(queue) : queue'[i] = queue[i]
        BY <1>0, <3>2, Facts, AppendProperties
      <4> QED
        BY <4>1
    <3> QED
      BY <1>3, <3>1, <3>2
  <2>4. Untouched(n) /\ \A i \in 1 .. Len(queue) : queue[i] # n
    BY <1>0, <2>1 DEF InOnePlace, Calls
  <2>5. \A v \in Workers : Busy(v) => wk[v].c # n
    BY <1>0, <2>1 DEF InOnePlace, Calls
  <2>6. \A c \in Calls : c > Len(calls)' => Untouched(c)'
    BY <1>0, <1>1, <2>1, <2>2 DEF InOnePlace, Calls, n
  <2>7. \A i \in 1 .. Len(queue') : queue'[i] <= Len(calls') /\ queue'[i] \in Calls /\ Untouched(queue'[i])
    BY <1>0, <1>1, <2>1, <2>3, <2>4 DEF InOnePlace, Calls, n
  <2>8. \A i, j \in 1 .. Len(queue') : queue'[i] = queue'[j] => i = j
    BY <2>1, <2>3, <2>4 DEF InOnePlace
  <2>9. \A i \in 1 .. Len(queue') : \A v \in Workers : Busy(v)' => wk'[v].c # queue'[i]
    BY <1>2, <2>1, <2>2, <2>3, <2>5 DEF InOnePlace
  <2>10. /\ \A u, v \in Workers : Busy(u)' /\ Busy(v)' /\ wk'[u].c = wk'[v].c => u = v
         /\ \A v \in Workers : Busy(v)' => wk'[v].c \in Calls /\ resp'[wk'[v].c] = NoResp
    BY <1>2, <2>1, <2>2 DEF InOnePlace
  <2>11. \A v \in Workers : Busy(v)' => wk'[v].c <= Len(calls')
    BY <1>0, <1>1, <1>2, <2>1, <2>2 DEF InOnePlace, Calls, n
  <2>12. \A i \in 1 .. Len(queue') : Untouched(queue[i])'
    BY <1>2, <2>7 DEF Untouched
  <2> QED
    BY <2>6, <2>7, <2>8, <2>9, <2>10, <2>11, <2>12 DEF InOnePlace
<1>7. Progress' /\ ReportTrue'
  BY <1>2 DEF IInv, Progress, ReportTrue
<1> QED
  BY <1>5, <1>6, <1>7 DEF IInv

\* Run starts workers that rest.
LEMMA RunInv == ASSUME IInv, Run PROVE IInv'
<1>1. /\ running' = TRUE /\ UNCHANGED <<stopped, queue, calls, net, waited, resp, panicked>>
      /\ wk' = IF running THEN wk ELSE [w \in Workers |-> Idle]
  BY DEF Run
<1>2. \/ wk' = wk
      \/ ~running /\ \A w \in Workers : wk'[w] = Idle /\ wk'[w].pc = "select"
  BY <1>1, IdleType
<1>3. \A w \in Workers : \/ wk'[w] = wk[w]
                         \/ wk'[w].pc = "select"
  BY <1>2
<1>4. wk' \in [Workers -> [pc : {"off", "select", "send", "http", "decode", "gone"}, c : 0 .. MaxCalls]]
  BY <1>1, IdleType, Facts
<1>5. \A w \in Workers : Busy(w)' => Busy(w) /\ wk'[w] = wk[w]
  BY <1>3 DEF Busy
<1>6. TypeOK' /\ Shapes'
  BY <1>1, <1>4 DEF IInv, TypeOK, Shapes
<1>7. InOnePlace'
  <2>1. InOnePlace
    BY DEF IInv
  <2>2. /\ \A c \in Calls : c > Len(calls') => net'[c] = "none" /\ resp'[c] = NoResp
        /\ \A i \in 1 .. Len(queue') : queue'[i] <= Len(calls') /\ net'[queue'[i]] = "none" /\ resp'[queue'[i]] = NoResp
        /\ \A i, j \in 1 .. Len(queue') : queue'[i] = queue'[j] => i = j
    BY <1>1, <2>1 DEF InOnePlace, Untouched
  <2>3. /\ \A i \in 1 .. Len(queue') : \A w \in Workers : Busy(w)' => wk'[w].c # queue'[i]
        /\ \A v, w \in Workers : Busy(v)' /\ Busy(w)' /\ wk'[v].c = wk'[w].c => v = w
        /\ \A w \in Workers : Busy(w)' => wk'[w].c \in Calls /\ wk'[w].c <= Len(calls') /\ resp'[wk'[w].c] = NoResp
    BY <1>1, <1>5, <2>1 DEF InOnePlace
  <2> QED
    BY <2>2, <2>3 DEF InOnePlace, Untouched
<1>8. Progress' /\ ReportTrue'
  BY <1>1, <1>3 DEF IInv, Progress, ReportTrue
<1> QED
  BY <1>6, <1>7, <1>8 DEF IInv

\* Only the context, or nothing, changes.
LEMMA StopInv ==
    ASSUME IInv, stopped' \in BOOLEAN, UNCHANGED <<running, queue, calls, wk, net, waited, resp, panicked>>
    PROVE  IInv'
<1>1. TypeOK' /\ Shapes'
  BY DEF IInv, TypeOK, Shapes
<1>2. InOnePlace'
  BY DEF IInv, InOnePlace, Busy, Untouched
<1>3. Progress' /\ ReportTrue'
  BY DEF IInv, Progress, ReportTrue
<1> QED
  BY <1>1, <1>2, <1>3 DEF IInv

\* A worker that goes from one place to another with the same call, of which the
\* exchange may learn on the way, keeps the invariant.
LEMMA MoveInv ==
    ASSUME IInv, NEW w \in Workers,
           NEW p \in {"http", "decode", "gone"}, wk' = [wk EXCEPT ![w].pc = p],
           p # "gone" => Busy(w),
           p = "decode" => net[wk[w].c] \in {"done", "refused"},
           p = "gone" => running,
           \/ net' = net
           \/ p = "http" /\ wk[w].pc = "send" /\ net' = [net EXCEPT ![wk[w].c] = "sent"],
           UNCHANGED <<running, stopped, queue, calls, waited, resp, panicked>>
    PROVE  IInv'
<1>1. wk' \in [Workers -> [pc : {"off", "select", "send", "http", "decode", "gone"}, c : 0 .. MaxCalls]]
  BY Facts
<1>2. /\ wk'[w].pc = p /\ wk'[w].c = wk[w].c
      /\ \A v \in Workers : v # w => wk'[v] = wk[v]
  BY Facts
<1>3. /\ \A v \in Workers : wk'[v].c = wk[v].c
      /\ \A v \in Workers : Busy(v)' => Busy(v)
  BY <1>2 DEF Busy
<1>4. running
  BY DEF IInv, Progress, Busy
<1>5. net' \in [Calls -> {"none", "sent", "done", "refused"}]
  BY Facts
<1>6. \A d \in Calls : net'[d] = net[d] \/ (d = wk[w].c /\ p = "http" /\ Busy(w) /\ resp[d] = NoResp)
  <2>1. Busy(w) => resp[wk[w].c] = NoResp
    BY DEF IInv, InOnePlace
  <2> QED
    BY <2>1, Facts
<1>7. TypeOK' /\ Shapes'
  BY <1>1, <1>5 DEF IInv, TypeOK, Shapes
<1>8. InOnePlace'
  <2>1. InOnePlace /\ \A i \in 1 .. Len(queue) : queue[i] \in Calls
    BY Facts DEF IInv
  <2>2. \A d \in Calls : d > Len(calls) => net'[d] = "none" /\ resp'[d] = NoResp
    BY <1>6, <2>1, Facts DEF InOnePlace, Untouched, Calls
  <2>3. \A i \in 1 .. Len(queue) : queue[i] <= Len(calls) /\ net'[queue[i]] = "none" /\ resp'[queue[i]] = NoResp
    <3> SUFFICES ASSUME NEW i \in 1 .. Len(queue)
                 PROVE  queue[i] <= Len(calls) /\ net'[queue[i]] = "none" /\ resp'[queue[i]] = NoResp
      OBVIOUS
    <3>1. queue[i] \in Calls /\ queue[i] <= Len(calls) /\ Untouched(queue[i])
      BY <2>1, Zenon DEF InOnePlace
    <3>2. Busy(w) => wk[w].c # queue[i]
      BY <2>1, Zenon DEF InOnePlace
    <3> QED
      BY <1>6, <3>1, <3>2 DEF Untouched
  <2>4. /\ \A i \in 1 .. Len(queue) : \A v \in Workers : Busy(v)' => wk'[v].c # queue[i]
        /\ \A u, v \in Workers : Busy(u)' /\ Busy(v)' /\ wk'[u].c = wk'[v].c => u = v
        /\ \A v \in Workers : Busy(v)' => wk'[v].c \in Calls /\ wk'[v].c <= Len(calls) /\ resp[wk'[v].c] = NoResp
    BY <1>3, <2>1 DEF InOnePlace
  <2> QED
    BY <2>1, <2>2, <2>3, <2>4 DEF InOnePlace, Untouched
<1>9. Progress'
  <2>1. Progress /\ InOnePlace
    BY DEF IInv
  <2>2. \A v \in Workers : v # w /\ Busy(v) => net'[wk[v].c] = net[wk[v].c]
    BY <1>6, <2>1 DEF InOnePlace
  <2>3. p = "decode" => net' = net
    OBVIOUS
  <2> QED
    BY <1>2, <1>4, <2>1, <2>2, <2>3 DEF Progress, Busy
<1>10. ReportTrue'
  <2>1. \A d \in Calls : resp[d].err # "none" => net'[d] = net[d]
    BY <1>6, NoRespType
  <2> QED
    BY <2>1 DEF IInv, ReportTrue
<1> QED
  BY <1>7, <1>8, <1>9, <1>10 DEF IInv

\* A worker takes the request at the head of the channel, or its platform ends the service.
LEMMA TakeInv == ASSUME IInv, NEW w \in Workers, Take(w) PROVE IInv'
<1> DEFINE h == Head(queue)
<1>1. /\ wk[w].pc = "select" /\ queue # <<>> /\ queue' = Tail(queue)
      /\ UNCHANGED <<running, stopped, calls, net, waited, resp>>
      /\ \/ wk' = [wk EXCEPT ![w] = [pc |-> "send", c |-> h]] /\ panicked' = panicked
         \/ panicked' = TRUE /\ wk' = wk
  BY DEF Take
<1>2. /\ queue' \in Seq(Calls) /\ Len(queue') = Len(queue) - 1 /\ Len(queue) >= 1
      /\ \A i \in 1 .. Len(queue') : queue'[i] = queue[i + 1]
      /\ h = queue[1]
  <2>1. queue \in Seq(Calls) /\ queue # <<>>
    BY <1>1, Facts
  <2>2. /\ Tail(queue) \in Seq(Calls) /\ Len(Tail(queue)) = Len(queue) - 1
        /\ \A i \in 1 .. Len(Tail(queue)) : Tail(queue)[i] = queue[i + 1]
    BY <2>1, HeadTailProperties
  <2>3. Len(queue) >= 1
    BY <2>1, EmptySeq
  <2> QED
    BY <1>1, <2>1, <2>2, <2>3
<1> HIDE DEF h
<1>3. h \in Calls /\ h <= Len(calls) /\ Untouched(h)
  <2>1. 1 \in 1 .. Len(queue)
    BY <1>2, Facts
  <2> QED
    BY <1>2, <2>1, Facts DEF IInv, InOnePlace
<1>4. [pc |-> "send", c |-> h] \in [pc : {"off", "select", "send", "http", "decode", "gone"}, c : 0 .. MaxCalls]
  BY <1>3, Facts
<1>5. wk' \in [Workers -> [pc : {"off", "select", "send", "http", "decode", "gone"}, c : 0 .. MaxCalls]]
  BY <1>1, <1>4, Facts
<1>6. \/ wk' = wk
      \/ /\ wk'[w].pc = "send" /\ wk'[w].c = h
         /\ \A v \in Workers : v # w => wk'[v] = wk[v]
  <2>1. CASE wk' = [wk EXCEPT ![w] = [pc |-> "send", c |-> h]]
    BY <2>1, Facts
  <2> QED
    BY <1>1, <2>1
<1>7. \A v \in Workers : Busy(v)' => \/ Busy(v) /\ wk'[v] = wk[v]
                                     \/ v = w /\ wk'[v].c = h /\ wk'[v].pc = "send"
  <2>1. \A v \in Workers : \/ wk'[v] = wk[v]
                           \/ v = w /\ wk'[v].c = h /\ wk'[v].pc = "send"
    BY <1>6
  <2>2. \A v \in Workers : wk'[v] = wk[v] => (Busy(v)' <=> Busy(v))
    BY DEF Busy
  <2> QED
    BY <2>1, <2>2, Zenon
<1>8. TypeOK' /\ Shapes'
  <2>1. panicked' \in BOOLEAN
    BY <1>1 DEF IInv, TypeOK
  <2>2. Len(queue') <= QueueCap
    BY <1>2, Facts, OrderAssumption DEF IInv, TypeOK
  <2> QED
    BY <1>1, <1>2, <1>5, <2>1, <2>2 DEF IInv, TypeOK, Shapes
<1>9. InOnePlace'
  <2>1. InOnePlace
    BY DEF IInv
  <2>2. \A i \in 1 .. Len(queue') : i + 1 \in 1 .. Len(queue) /\ i + 1 # 1
    BY <1>2, Facts
  <2>3. \A d \in Calls : d > Len(calls') => net'[d] = "none" /\ resp'[d] = NoResp
    BY <1>1, <2>1 DEF InOnePlace, Untouched
  <2>4. \A i \in 1 .. Len(queue') : queue'[i] <= Len(calls') /\ net'[queue'[i]] = "none" /\ resp'[queue'[i]] = NoResp
    <3>1. \A i \in 1 .. Len(queue') : queue[i + 1] <= Len(calls) /\ net[queue[i + 1]] = "none" /\ resp[queue[i + 1]] = NoResp
      BY <2>1, <2>2 DEF InOnePlace, Untouched
    <3> QED
      BY <1>1, <1>2, <3>1
  <2>5. \A i, j \in 1 .. Len(queue') : queue'[i] = queue'[j] => i = j
    <3>1. \A i, j \in 1 .. Len(queue') : queue[i + 1] = queue[j + 1] => i + 1 = j + 1
      BY <2>1, <2>2 DEF InOnePlace
    <3> QED
      BY <1>2, <3>1
  <2>6. \A i \in 1 .. Len(queue') : queue'[i] # h
    <3>1. 1 \in 1 .. Len(queue)
      BY <1>2, Facts
    <3>2. \A i \in 1 .. Len(queue') : queue[i + 1] # queue[1]
      BY <2>1, <2>2, <3>1 DEF InOnePlace
    <3> QED
      BY <1>2, <3>2
  <2>7. \A i \in 1 .. Len(queue') : \A v \in Workers : Busy(v)' => wk'[v].c # queue'[i]
    <3>1. \A i \in 1 .. Len(queue') : \A v \in Workers : Busy(v) => wk[v].c # queue[i + 1]
      BY <2>1, <2>2 DEF InOnePlace
    <3> QED
      BY <1>2, <1>7, <2>6, <3>1
  <2>8. \A v \in Workers : Busy(v) => wk[v].c # h
    <3>1. 1 \in 1 .. Len(queue)
      BY <1>2, Facts
    <3> QED
      BY <1>2, <2>1, <3>1 DEF InOnePlace
  <2>9. \A u, v \in Workers : Busy(u)' /\ Busy(v)' /\ wk'[u].c = wk'[v].c => u = v
    BY <1>7, <2>1, <2>8 DEF InOnePlace
  <2>10. \A v \in Workers : Busy(v)' => wk'[v].c \in Calls /\ wk'[v].c <= Len(calls') /\ resp'[wk'[v].c] = NoResp
    BY <1>1, <1>3, <1>7, <2>1 DEF InOnePlace, Untouched
  <2> QED
    BY <2>3, <2>4, <2>5, <2>7, <2>9, <2>10 DEF InOnePlace, Untouched
<1>10. Progress'
  <2>1. Progress /\ running
    BY <1>1 DEF IInv, Progress
  <2>2. \A v \in Workers : wk'[v].pc = "send" => net[wk'[v].c] = "none"
    BY <1>3, <1>6, <2>1 DEF Progress, Untouched
  <2>3. \A v \in Workers : wk'[v].pc = "decode" => net[wk'[v].c] \in {"done", "refused"}
    BY <1>6, <2>1 DEF Progress
  <2> QED
    BY <1>1, <2>1, <2>2, <2>3 DEF Progress
<1>11. ReportTrue'
  BY <1>1 DEF IInv, ReportTrue
<1> QED
  BY <1>8, <1>9, <1>10, <1>11 DEF IInv

\* The exchange decides about a request it has; nobody has been told about that one.
LEMMA ExchangeInv == ASSUME IInv, NEW c \in Calls, Exchange(c) PROVE IInv'
<1>1. /\ net[c] = "sent" /\ UNCHANGED <<running, stopped, queue, calls, wk, waited, resp, panicked>>
      /\ net' \in [Calls -> {"none", "sent", "done", "refused"}]
      /\ net'[c] \in {"done", "refused"} /\ \A d \in Calls : d # c => net'[d] = net[d]
  BY Facts DEF Exchange
<1>2. TypeOK' /\ Shapes'
  BY <1>1 DEF IInv, TypeOK, Shapes
<1>3. \A d \in Calls : (net'[d] = "none" <=> net[d] = "none") /\ (net[d] \in {"done", "refused"} => net'[d] = net[d])
  BY <1>1
<1>4. InOnePlace'
  <2>1. InOnePlace /\ \A i \in 1 .. Len(queue) : queue[i] \in Calls
    BY Facts DEF IInv
  <2>2. \A d \in Calls : d > Len(calls') => net'[d] = "none" /\ resp'[d] = NoResp
    BY <1>1, <1>3, <2>1 DEF InOnePlace, Untouched
  <2>3. \A i \in 1 .. Len(queue') : queue'[i] <= Len(calls') /\ net'[queue'[i]] = "none" /\ resp'[queue'[i]] = NoResp
    BY <1>1, <1>3, <2>1 DEF InOnePlace, Untouched
  <2>4. \A v \in Workers : Busy(v)' <=> Busy(v)
    BY <1>1 DEF Busy
  <2> QED
    BY <1>1, <2>1, <2>2, <2>3, <2>4 DEF InOnePlace, Untouched
<1>5. Progress'
  <2>1. \A v \in Workers : wk[v].pc \in {"send", "decode"} => wk[v].c \in Calls
    BY DEF IInv, InOnePlace, Busy
  <2> QED
    BY <1>1, <1>3, <2>1 DEF IInv, Progress
<1>6. ReportTrue'
  BY <1>1, <1>3 DEF IInv, ReportTrue
<1> QED
  BY <1>2, <1>4, <1>5, <1>6 DEF IInv

-----------------------------------------------------------------------------
(* What Send returns.                                                      *)

\* A response that says nothing has been sent.
NotSent(e) == [NoResp EXCEPT !.err = e]

\* The response to a request that was never sent has its error and no code.
LEMMA NotSentType ==
    ASSUME NEW e \in {"action", "type", "id", "http"}
    PROVE  /\ NotSent(e) \in Responses /\ NotSent(e).err = e /\ NotSent(e).code = "none"
           /\ NotSent(e).sent = FALSE
BY DEF NotSent, NoResp, Responses

\* It is true when nothing was sent, or when Do gave up waiting.
LEMMA NotSentTruthful ==
    ASSUME NEW w \in Workers, NEW e \in {"action", "type", "id", "http"},
           net[wk[w].c] = "none" \/ wk[w].c \in waited'
    PROVE  Truthful(w, NotSent(e))
<1>1. Error(NotSent(e)) = "not sent"
  BY NotSentType DEF Error
<1> QED
  BY <1>1, NotSentType DEF Truthful

\* A request's defect is one of the four the validation names.
LEMMA InvalidType == ASSUME NEW r PROVE Invalid(r) \in {"action", "type", "id", "nil"}
BY DEF Invalid

\* The steps that end before anything is written.
LEMMA RefuseInv ==
    ASSUME IInv, NEW w \in Workers, Refuse(w) \/ Unreachable(w)
    PROVE  IInv'
<1>1. /\ Busy(w) /\ net[wk[w].c] = "none" /\ UNCHANGED <<running, stopped, queue, calls, net, panicked>>
      /\ waited' = waited /\ waited \subseteq Calls
  BY DEF Refuse, Unreachable, Busy, IInv, Progress, TypeOK
<1>2. PICK e \in {"action", "type", "id", "http"} : Returns(w, NotSent(e))
  BY InvalidType DEF Refuse, Unreachable, NotSent
<1>3. NotSent(e) \in Responses /\ Truthful(w, NotSent(e))
  BY <1>1, NotSentType, NotSentTruthful
<1> QED
  BY <1>1, <1>2, <1>3, ReturnsInv

\* Do gives up.
LEMMA DoFailsInv == ASSUME IInv, NEW w \in Workers, DoFails(w) PROVE IInv'
<1>1. Busy(w) /\ UNCHANGED <<running, stopped, queue, calls, net, panicked>> /\ Returns(w, NotSent("http"))
  BY DEF DoFails, Busy, NotSent
<1>2. waited' = waited \cup {wk[w].c} /\ waited \subseteq Calls /\ wk[w].c \in Calls
  BY <1>1 DEF DoFails, IInv, TypeOK, InOnePlace
<1>3. NotSent("http") \in Responses
  BY NotSentType
<1>4. Truthful(w, NotSent("http"))
  BY <1>2, NotSentTruthful
<1> QED
  BY <1>1, <1>2, <1>3, <1>4, ReturnsInv

\* The answer is read.
LEMMA DecodeInv == ASSUME IInv, NEW w \in Workers, Decode(w) PROVE IInv'
<1> DEFINE Body == [sent |-> Sent("body"), code |-> "internal", id |-> FALSE, err |-> "body"]
           Empty == [sent |-> Sent("empty"), code |-> "internal", id |-> FALSE, err |-> "empty"]
           Code == [sent |-> Sent("nil"), code |-> "exchange", id |-> FALSE, err |-> "nil"]
           Good == [sent |-> Sent("nil"), code |-> "none", id |-> TRUE, err |-> "nil"]
<1>1. /\ Busy(w) /\ UNCHANGED <<running, stopped, queue, calls, net, panicked>>
      /\ waited' = waited /\ waited \subseteq Calls
  BY DEF Decode, Busy, IInv, TypeOK
<1>2. Body \in Responses /\ Empty \in Responses /\ Code \in Responses /\ Good \in Responses
  BY DEF Responses, Sent
<1>3. \/ Returns(w, Body)
      \/ Returns(w, Empty)
      \/ net[wk[w].c] = "refused" /\ Returns(w, Code)
      \/ net[wk[w].c] = "done" /\ Returns(w, Good)
  BY DEF Decode
<1>4. /\ Truthful(w, Body) /\ Truthful(w, Empty)
      /\ net[wk[w].c] = "refused" => Truthful(w, Code)
      /\ net[wk[w].c] = "done" => Truthful(w, Good)
  BY DEF Truthful, Error, Sent
<1> HIDE DEF Body, Empty, Code, Good
<1> QED
  BY <1>1, <1>2, <1>3, <1>4, ReturnsInv

-----------------------------------------------------------------------------
(* The theorems.                                                           *)

\* Every step of a worker keeps the invariant.
LEMMA WorkerInv == ASSUME IInv, NEW w \in Workers, WorkerStep(w) PROVE IInv'
<1>1. CASE Take(w)
  BY <1>1, TakeInv
<1>2. CASE Shutdown(w)
  <2>1. /\ wk' = [wk EXCEPT ![w].pc = "gone"] /\ running
        /\ UNCHANGED <<running, stopped, queue, calls, net, waited, resp, panicked>>
    BY <1>2 DEF Shutdown, IInv, Progress
  <2> QED
    BY <2>1, MoveInv
<1>3. CASE Refuse(w) \/ Unreachable(w)
  BY <1>3, RefuseInv
<1>4. CASE Do(w)
  <2>1. /\ wk' = [wk EXCEPT ![w].pc = "http"] /\ wk[w].pc = "send" /\ net' = [net EXCEPT ![wk[w].c] = "sent"]
        /\ UNCHANGED <<running, stopped, queue, calls, waited, resp, panicked>> /\ Busy(w)
    BY <1>4 DEF Do, Busy
  <2> QED
    BY <2>1, MoveInv
<1>5. CASE DoFails(w)
  BY <1>5, DoFailsInv
<1>6. CASE Answered(w)
  <2>1. /\ wk' = [wk EXCEPT ![w].pc = "decode"] /\ net[wk[w].c] \in {"done", "refused"} /\ Busy(w)
        /\ UNCHANGED <<running, stopped, queue, calls, net, waited, resp, panicked>>
    BY <1>6 DEF Answered, Busy
  <2> QED
    BY <2>1, MoveInv
<1>7. CASE Decode(w)
  BY <1>7, DecodeInv
<1> QED
  BY <1>1, <1>2, <1>3, <1>4, <1>5, <1>6, <1>7 DEF WorkerStep

\* Every step keeps the invariant.
LEMMA IInvStep == IInv /\ [Next]_vars => IInv'
<1> SUFFICES ASSUME IInv, [Next]_vars PROVE IInv'
  OBVIOUS
<1>1. ASSUME NEW r \in Requests, Handle(r) PROVE IInv'
  BY <1>1, HandleInv
<1>2. CASE Run
  BY <1>2, RunInv
<1>3. CASE Stop
  BY <1>3, StopInv DEF Stop
<1>4. ASSUME NEW w \in Workers, WorkerStep(w) PROVE IInv'
  BY <1>4, WorkerInv
<1>5. ASSUME NEW c \in Calls, Exchange(c) PROVE IInv'
  BY <1>5, ExchangeInv
<1>6. CASE UNCHANGED vars
  <2>1. stopped' \in BOOLEAN
    BY <1>6 DEF vars, IInv, TypeOK
  <2> QED
    BY <1>6, <2>1, StopInv DEF vars
<1> QED
  BY <1>1, <1>2, <1>3, <1>4, <1>5, <1>6 DEF Next

\* The inductive invariant holds in every reachable state.
LEMMA Invariance == Spec => []IInv
BY IInvInit, IInvStep, PTL DEF Spec

\* The channel never holds more than NewUsecase made room for, and every worker, call and
\* response is of its type, whatever the requests and the number of workers.
THEOREM TypeCorrect == Spec => []TypeOK
<1>1. IInv => TypeOK
  BY DEF IInv
<1> QED
  BY <1>1, Invariance, PTL

\* What Send reports is true of the order: "no error" means the exchange executed it, an
\* exchange code means it was refused, and "not sent" of a request that did leave the
\* process comes only of an exchange Do stopped waiting for.
THEOREM ReportsAreTrue == Spec => []ReportTrue
<1>1. IInv => ReportTrue
  BY DEF IInv
<1> QED
  BY <1>1, Invariance, PTL

\* A request is never at two workers, nor at a worker and still in the channel: it is sent
\* once at most.
THEOREM ServedOnce == Spec => []InOnePlace
<1>1. IInv => InOnePlace
  BY DEF IInv
<1> QED
  BY <1>1, Invariance, PTL

================================================================================
