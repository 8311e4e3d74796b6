--------------------------------- MODULE Order ---------------------------------
(***************************************************************************)
(* The order service: Handle puts requests into a bounded channel          *)
(* (order/usecase.go), the workers take them out and let the BTCC          *)
(* delegator send them over HTTP with a timeout (delegator.go).            *)
(*                                                                         *)
(* A request and the exchange's answer travel separately, and the exchange *)
(* may act on a request whose sender no longer waits.  What Send returns   *)
(* is kept in resp, although the worker at this commit drops it.           *)
(***************************************************************************)
EXTENDS Integers, Sequences

CONSTANTS Requests,   \* requests: what of the intent the code looks at
          Workers,    \* NewUsecase: workerCount
          QueueCap,   \* NewUsecase: workerCap
          MaxCalls    \* bound: calls of Handle

RequestSet == [platform : {"BTCC", "Binance", "none"}, action : {"place", "cancel", "none"},
               type : {"limit", "market", "none"}, id : Nat]

ASSUME OrderAssumption == /\ Requests \subseteq RequestSet
                          /\ QueueCap \in Nat /\ MaxCalls \in Nat

VARIABLES running,  \* Usecase.running: the workers have been started
          stopped,  \* the context is done
          queue,    \* Usecase.queue: requests, by the number of their Handle call
          calls,    \* Handle calls: request and result
          wk,       \* per worker: where it is and the call it serves
          net,      \* per call: none, sent, done, refused (the exchange's view)
          waited,   \* calls whose HTTP exchange ended without an answer
          resp,     \* per call: what Send returned
          panicked

vars == <<running, stopped, queue, calls, wk, net, waited, resp, panicked>>

Calls == 1 .. MaxCalls
NoResp == [sent |-> FALSE, code |-> "none", id |-> FALSE, err |-> "none"]
Idle == [pc |-> "select", c |-> 0]
Req(c) == calls[c].req

TypeOK ==
    /\ running \in BOOLEAN /\ stopped \in BOOLEAN /\ panicked \in BOOLEAN
    /\ queue \in Seq(Calls) /\ Len(queue) <= QueueCap
    /\ \A i \in DOMAIN calls : calls[i].req \in Requests /\ calls[i].ok \in BOOLEAN
    /\ wk \in [Workers -> [pc : {"off", "select", "send", "http", "decode", "gone"}, c : 0 .. MaxCalls]]
    /\ net \in [Calls -> {"none", "sent", "done", "refused"}]
    /\ waited \subseteq Calls
    /\ \A c \in Calls : resp[c] = NoResp \/ resp[c].err \in {"nil", "action", "type", "id", "http", "body", "empty"}

\* NewUsecase.
Init ==
    /\ running = FALSE /\ stopped = FALSE /\ queue = <<>> /\ calls = <<>>
    /\ wk = [w \in Workers |-> [pc |-> "off", c |-> 0]]
    /\ net = [c \in Calls |-> "none"] /\ waited = {} /\ resp = [c \in Calls |-> NoResp]
    /\ panicked = FALSE

\* The channel has room.
HasRoom == Len(queue) < QueueCap

\* Handle: the channel takes the request, or ErrOrderQueueFull.
Handle(r) ==
    /\ Len(calls) < MaxCalls
    /\ calls' = Append(calls, [req |-> r, ok |-> HasRoom])
    /\ queue' = IF HasRoom THEN Append(queue, Len(calls) + 1) ELSE queue
    /\ UNCHANGED <<running, stopped, wk, net, waited, resp, panicked>>

\* Run starts the workers, once.
Run == /\ running' = TRUE
       /\ wk' = IF running THEN wk ELSE [w \in Workers |-> Idle]
       /\ UNCHANGED <<stopped, queue, calls, net, waited, resp, panicked>>

\* The service's context is cancelled.
Stop == /\ stopped' = TRUE
        /\ UNCHANGED <<running, queue, calls, wk, net, waited, resp, panicked>>

-----------------------------------------------------------------------------
(* A worker.                                                               *)

\* case req := <-ch: a BTCC request goes to the delegator.  Any other platform
\* panics: Binance by the code's own word, the rest on the nil delegator.
Take(w) ==
    /\ wk[w].pc = "select" /\ queue # <<>>
    /\ queue' = Tail(queue)
    /\ IF Req(Head(queue)).platform = "BTCC"
         THEN wk' = [wk EXCEPT ![w] = [pc |-> "send", c |-> Head(queue)]] /\ UNCHANGED panicked
         ELSE panicked' = TRUE /\ UNCHANGED wk
    /\ UNCHANGED <<running, stopped, calls, net, waited, resp>>

\* case <-ctx.Done()
Shutdown(w) == /\ wk[w].pc = "select" /\ stopped
               /\ wk' = [wk EXCEPT ![w].pc = "gone"]
               /\ UNCHANGED <<running, stopped, queue, calls, net, waited, resp, panicked>>

Returns(w, r) == /\ resp' = [resp EXCEPT ![wk[w].c] = r]
                 /\ wk' = [wk EXCEPT ![w] = Idle]

\* What Send refuses before anything leaves the process.
Invalid(r) == CASE r.action = "none" -> "action"
                [] r.action = "place" /\ r.type = "none" -> "type"
                [] r.action = "cancel" /\ r.id = 0 -> "id"
                [] OTHER -> "nil"

Refuse(w) == /\ wk[w].pc = "send" /\ Invalid(Req(wk[w].c)) # "nil"
             /\ Returns(w, [NoResp EXCEPT !.err = Invalid(Req(wk[w].c))])
             /\ UNCHANGED <<running, stopped, queue, calls, net, waited, panicked>>

\* client.Do: the request is built, signed and written.
Do(w) == /\ wk[w].pc = "send" /\ Invalid(Req(wk[w].c)) = "nil"
         /\ wk' = [wk EXCEPT ![w].pc = "http"]
         /\ net' = [net EXCEPT ![wk[w].c] = "sent"]
         /\ UNCHANGED <<running, stopped, queue, calls, waited, resp, panicked>>

\* client.Do cannot connect: nothing leaves the process.
Unreachable(w) == /\ wk[w].pc = "send" /\ Invalid(Req(wk[w].c)) = "nil"
                  /\ Returns(w, [NoResp EXCEPT !.err = "http"])
                  /\ UNCHANGED <<running, stopped, queue, calls, net, waited, panicked>>

\* The exchange executes or refuses a request it has received.  It is taken to be honest:
\* the order id or the error code it answers with (Decode) is about what it did.
Exchange(c) == /\ net[c] = "sent"
               /\ \E v \in {"done", "refused"} : net' = [net EXCEPT ![c] = v]
               /\ UNCHANGED <<running, stopped, queue, calls, wk, waited, resp, panicked>>

\* Mutant: Do without a deadline returns an error only when the context is done.
DoFailsLate(w) == /\ wk[w].pc = "http" /\ stopped
                  /\ waited' = waited \cup {wk[w].c}
                  /\ Returns(w, [NoResp EXCEPT !.err = "http"])
                  /\ UNCHANGED <<running, stopped, queue, calls, net, panicked>>

\* Do returns an error: the connection broke, the 15 seconds are over, or the context
\* is done.  Whatever became of the request, response.Sent is false.
DoFails(w) == /\ wk[w].pc = "http"
              /\ waited' = waited \cup {wk[w].c}
              /\ Returns(w, [NoResp EXCEPT !.err = "http"])
              /\ UNCHANGED <<running, stopped, queue, calls, net, panicked>>

\* The answer's header arrives.
Answered(w) == /\ wk[w].pc = "http" /\ net[wk[w].c] \in {"done", "refused"}
               /\ wk' = [wk EXCEPT ![w].pc = "decode"]
               /\ UNCHANGED <<running, stopped, queue, calls, net, waited, resp, panicked>>

\* Mutant: Sent is set only when the body could be decoded.
SentLate(err) == err # "body"

\* response.Sent = true comes before the body is decoded.
Sent(err) == TRUE

\* Decode: a body that cannot be read, an error code, no order id, or the id.
Decode(w) ==
    /\ wk[w].pc = "decode"
    /\ \/ Returns(w, [sent |-> Sent("body"), code |-> "internal", id |-> FALSE, err |-> "body"])
       \/ Returns(w, [sent |-> Sent("empty"), code |-> "internal", id |-> FALSE, err |-> "empty"])
       \/ /\ net[wk[w].c] = "refused"
          /\ Returns(w, [sent |-> Sent("nil"), code |-> "exchange", id |-> FALSE, err |-> "nil"])
       \/ /\ net[wk[w].c] = "done"
          /\ Returns(w, [sent |-> Sent("nil"), code |-> "none", id |-> TRUE, err |-> "nil"])
    /\ UNCHANGED <<running, stopped, queue, calls, net, waited, panicked>>

WorkerStep(w) ==
    \/ Take(w) \/ Shutdown(w) \/ Refuse(w) \/ Do(w) \/ Unreachable(w) \/ DoFails(w) \/ Answered(w) \/ Decode(w)

Next ==
    /\ ~panicked
    /\ \/ \E r \in Requests : Handle(r)
       \/ Run \/ Stop
       \/ \E w \in Workers : WorkerStep(w)
       \/ \E c \in Calls : Exchange(c)

\* The workers run, and the timeout bounds every HTTP exchange.
Fairness == \A w \in Workers : WF_vars(~panicked /\ WorkerStep(w))

Spec == Init /\ [][Next]_vars
FairSpec == Spec /\ Fairness

-----------------------------------------------------------------------------
(* Properties.                                                             *)

\* OrderResponse.Error
Error(r) == CASE ~r.sent -> "not sent"
              [] r.sent /\ r.code # "none" -> "code"
              [] OTHER -> "nil"

\* What a response says of the order is true, given an exchange that answers what it did, but
\* for one case: a request reported as not sent was on its way only if Do gave up waiting
\* for the answer.  In particular an answer that cannot be read, or has no order id in it,
\* is never reported as a request that was not sent.
ReportTrue ==
    \A c \in Calls : resp[c].err # "none" =>
        /\ Error(resp[c]) = "nil" => net[c] = "done"
        /\ resp[c].code = "exchange" => net[c] = "refused"
        /\ Error(resp[c]) = "not sent" /\ net[c] # "none" => c \in waited

\* A request Handle has accepted is answered, unless the service stops or panics first.
AcceptedIsAnswered ==
    \A c \in Calls : running /\ c \in DOMAIN calls /\ calls[c].ok
                     ~> resp[c] # NoResp \/ stopped \/ panicked

================================================================================
