------------------------------ MODULE CallActor ------------------------------
(***************************************************************************)
(* td/td/telegram/CallActor.cpp: a call between two users, each with a     *)
(* CallActor, and the server between them.  An actor sends each of its     *)
(* queries at most once; net is what has become of it.  The server's       *)
(* updates reach a user in order, the answers to queries in any order.     *)
(* Every handler is a function of the actor's state; loop() runs at the    *)
(* end of some of them and, after yield(), when the actor's turn comes.    *)
(***************************************************************************)
EXTENDS Naturals, Sequences

CONSTANTS
    Failures,   \* the queries that may fail though the server could serve them, and the faults below
    LateConfig, \* the parties that have to wait for the configuration of calls
    LateDh,     \* the parties that have to wait for the Diffie-Hellman parameters
    Forgets     \* the parties that the server may tell that it knows their call no more

Queries == {"config", "dh", "request", "received", "accept", "confirm", "discard"}

\* The caller's access to the callee is lost; the other side's key fails its checks.
Faults == {"access", "keys"}

ASSUME FailuresAssumption == Failures \subseteq Queries \cup Faults

Parties == {"caller", "callee"}

ASSUME PartiesAssumption ==
    LateConfig \subseteq Parties /\ LateDh \subseteq Parties /\ Forgets \subseteq Parties

Other(p) == IF p = "caller" THEN "callee" ELSE "caller"

VARIABLES
    actor,   \* of each user: the CallActor, or none
    net,     \* of each user and query: what has become of it
    inbox,   \* of each user: updatePhoneCall not handled yet
    server   \* the call on the server

vars == <<actor, net, inbox, server>>

States == {"none", "Empty", "SendRequestQuery", "WaitRequestResult", "SendAcceptQuery",
           "WaitAcceptResult", "SendConfirmQuery", "WaitConfirmResult", "Ready",
           "SendDiscardQuery", "WaitDiscardResult", "Discarded", "stopped"}
Discarding == {"SendDiscardQuery", "WaitDiscardResult", "Discarded"}
Types == {"Empty", "Pending", "ExchangingKey", "Ready", "HangingUp", "Discarded", "Error"}
Ended == {"HangingUp", "Discarded", "Error"}

\* A canceled query is answered with an error at once, whatever the server makes of it.
Answers == {"ok", "waiting", "call", "error", "canceled"}
Pending == {"sent", "canceled", "abandoned"}
Answered(r) == CASE r = "error" -> "failed" [] r = "canceled" -> "abandoned" [] OTHER -> "done"
Updates == {"requested", "waiting", "accepted", "call", "discarded", "rate", "empty"}

\* state_, call_state_.type, call_state_need_flush_, is_call_id_inited_, is_accepted_,
\* call_state_has_config_, call_state_.need_rating, the timer and a pending yield; dh:
\* dh_config_query_sent_ and dh_config_ready_; send: the queries to be sent; shown: the type
\* in the last updateCall; ok: no CHECK has failed.
NoActor == [state |-> "none", type |-> "Empty", flush |-> FALSE, id |-> FALSE, accepted |-> FALSE,
            config |-> FALSE, rating |-> FALSE, timer |-> FALSE, yield |-> FALSE, dh |-> "no",
            send |-> {}, shown |-> "Empty", ok |-> TRUE]

\* start_up asks for the configuration of calls.
NewActor(p) == [NoActor EXCEPT !.state = "Empty", !.send = IF p \in LateConfig THEN {"config"} ELSE {},
                               !.config = p \notin LateConfig, !.dh = IF p \in LateDh THEN "no" ELSE "ready"]
Alive(a) == a.state \notin {"none", "stopped"}

Init ==
    /\ actor = [p \in Parties |-> NoActor]
    /\ net = [p \in Parties |-> [q \in Queries |-> "none"]]
    /\ inbox = [p \in Parties |-> <<>>]
    /\ server = "none"

-----------------------------------------------------------------------------
(* loop and what it calls                                                  *)

\* Mutant: the call is shown as ready before its configuration has come.
FlushCallState_NoConfig(a) == IF a.flush THEN [a EXCEPT !.flush = FALSE, !.shown = a.type] ELSE a

\* A call that is ready is shown when its configuration has come.
FlushCallState(a) ==
    IF a.flush /\ ~(a.type = "Ready" /\ ~a.config)
    THEN [a EXCEPT !.flush = FALSE, !.shown = a.type] ELSE a

LoadDhConfig(a) == IF a.dh = "no" THEN [a EXCEPT !.dh = "sent", !.send = @ \cup {"dh"}] ELSE a

TrySendRequestQuery(a) ==
    IF a.dh # "ready" THEN LoadDhConfig(a)
    ELSE [a EXCEPT !.state = "WaitRequestResult", !.timer = TRUE, !.send = @ \cup {"request"}]

\* get_input_phone_call checks that the id of the call is known.
TrySendAcceptQuery(a) ==
    IF a.dh # "ready" THEN LoadDhConfig(a)
    ELSE IF ~a.accepted THEN a
    ELSE [a EXCEPT !.state = "WaitAcceptResult", !.send = @ \cup {"accept"}, !.ok = @ /\ a.id]

TrySendConfirmQuery(a) ==
    IF a.dh # "ready" THEN LoadDhConfig(a)
    ELSE [a EXCEPT !.state = "WaitConfirmResult", !.send = @ \cup {"confirm"}, !.ok = @ /\ a.id]

\* Mutant: the reason of the end is taken for its type.
OnCallDiscarded_Reason(a, rating) ==
    [a EXCEPT !.state = "Discarded", !.flush = TRUE, !.rating = rating, !.type = "Missed"]

\* on_call_discarded; an error that is shown stays.
OnCallDiscarded(a, rating) ==
    [a EXCEPT !.state = "Discarded",
              !.flush = @ \/ a.state # "Discarded"
                          \/ (a.type # "Error" /\ (a.type # "Discarded" \/ a.rating # rating)),
              !.rating = IF a.type = "Error" THEN @ ELSE rating,
              !.type = IF @ = "Error" THEN @ ELSE "Discarded"]

TrySendDiscardQuery(a) ==
    IF ~a.id THEN [OnCallDiscarded(a, FALSE) EXCEPT !.yield = TRUE]
    ELSE [a EXCEPT !.state = "WaitDiscardResult", !.send = @ \cup {"discard"}]

\* A call that is over is kept while it is to be rated.
Loop(a) ==
    LET b == FlushCallState(a)
    IN  CASE b.state = "SendRequestQuery" -> TrySendRequestQuery(b)
          [] b.state = "SendAcceptQuery" -> TrySendAcceptQuery(b)
          [] b.state = "SendConfirmQuery" -> TrySendConfirmQuery(b)
          [] b.state = "SendDiscardQuery" -> TrySendDiscardQuery(b)
          [] b.state = "Discarded" /\ ~(b.type = "Discarded" /\ b.rating) ->
                 [b EXCEPT !.state = "stopped", !.timer = FALSE]
          [] OTHER -> b

Yield(a) == [a EXCEPT !.yield = TRUE]

\* Mutant: an error after the acceptance or the confirmation is shown, and the actor goes on.
OnError_KeepsState(a) ==
    [a EXCEPT !.state = CASE @ \in {"WaitDiscardResult", "Discarded"} -> "Discarded"
                          [] @ \in {"WaitAcceptResult", "WaitConfirmResult"} -> @
                          [] OTHER -> "SendDiscardQuery",
              !.type = "Error", !.flush = TRUE]

OnError(a) ==
    [a EXCEPT !.state = IF @ \in {"WaitDiscardResult", "Discarded"} THEN "Discarded"
                        ELSE "SendDiscardQuery",
              !.type = "Error", !.flush = TRUE]

-----------------------------------------------------------------------------
(* Updates of the call                                                     *)

OnBeginExchangingKey(a) ==
    [a EXCEPT !.type = "ExchangingKey", !.flush = TRUE, !.timer = TRUE]

\* The other side's device rings, or the server has taken the request or the acceptance.
UpdateWaiting(a, received) ==
    CASE a.state = "WaitAcceptResult" -> [OnBeginExchangingKey(a) EXCEPT !.id = TRUE]
      [] a.state = "WaitRequestResult" ->
             [a EXCEPT !.id = TRUE, !.flush = TRUE, !.timer = @ \/ received]
      [] OTHER -> a

UpdateRequested(a) ==
    IF a.state # "Empty" THEN a
    ELSE [a EXCEPT !.id = TRUE, !.state = "SendAcceptQuery", !.type = "Pending", !.flush = TRUE,
                   !.send = @ \cup {"received"}]

UpdateAccepted(a) ==
    IF a.state # "WaitRequestResult" THEN a
    ELSE OnBeginExchangingKey([a EXCEPT !.id = TRUE, !.state = "SendConfirmQuery"])

\* Mutant: the call is ready in whatever state the actor is.
UpdateCallReady_AnyState(a) ==
    IF ~Alive(a) THEN a
    ELSE [a EXCEPT !.state = "Ready", !.type = "Ready", !.timer = FALSE, !.flush = TRUE]

UpdateCallReady(a) ==
    IF a.state \notin {"WaitAcceptResult", "WaitConfirmResult"} THEN a
    ELSE [a EXCEPT !.state = "Ready", !.type = "Ready", !.timer = FALSE, !.flush = TRUE]

\* update_call
UpdateCall(a, u) ==
    Loop(CASE u = "requested" -> UpdateRequested(a)
           [] u = "waiting" -> UpdateWaiting(a, TRUE)
           [] u = "accepted" -> UpdateAccepted(a)
           [] u = "call" -> UpdateCallReady(a)
           [] u = "empty" -> OnError(a)
           [] OTHER -> OnCallDiscarded(a, u = "rate"))

\* The updates that bring the other side's key, or its fingerprint, in the state that uses it.
\* The checks may fail, and update_call goes on with the error.
KeyChecked(a, u) ==
    \/ u = "accepted" /\ a.state = "WaitRequestResult"
    \/ u = "call" /\ a.state \in {"WaitAcceptResult", "WaitConfirmResult"}
KeyRefused(a, u) ==
    Loop(OnError([a EXCEPT !.id = @ \/ u = "accepted", !.timer = @ /\ u # "call"]))

-----------------------------------------------------------------------------
(* What changes an actor                                                   *)

\* The actor's new state; what it sends is on its way.  The request of a call that is given up
\* is canceled; the answers to an actor that has stopped go nowhere.
Became(p, new, answered) == \E a \in {new} :
    /\ actor' = [actor EXCEPT ![p] = [a EXCEPT !.send = {}]]
    /\ net' = [net EXCEPT ![p] = [q \in Queries |->
                  IF q \in a.send THEN "sent"
                  ELSE IF \/ q \in answered
                          \/ a.state = "stopped" /\ (q \in {"config", "dh"} \/ net[p][q] \in Answers \ {"canceled"})
                  THEN Answered(net[p][q])
                  ELSE IF q = "request" /\ net[p][q] = "sent" /\ a.state \in Discarding THEN "canceled"
                  ELSE net[p][q]]]

CreateCall ==
    /\ actor["caller"] = NoActor
    /\ Became("caller", Loop([NewActor("caller") EXCEPT !.state = "SendRequestQuery", !.type = "Pending",
                                                        !.flush = TRUE]), {})
    /\ UNCHANGED <<inbox, server>>

AcceptCall ==
    LET a == actor["callee"]
    IN  /\ a.state = "SendAcceptQuery" /\ ~a.accepted
        /\ Became("callee", Loop([a EXCEPT !.accepted = TRUE]), {})
        /\ UNCHANGED <<inbox, server>>

\* A call that is not being discarded is pending, exchanging keys or ready.
DiscardCall(p) ==
    LET a == actor[p]
    IN  /\ Alive(a) /\ a.state \notin Discarding
        /\ Became(p, Loop([a EXCEPT !.type = "HangingUp", !.flush = TRUE, !.ok = @ /\ a.type \notin Ended,
                                    !.state = "SendDiscardQuery"]), {})
        /\ UNCHANGED <<inbox, server>>

RateCall(p) ==
    LET a == actor[p]
    IN  /\ Alive(a) /\ a.rating
        /\ Became(p, Loop([a EXCEPT !.rating = FALSE, !.flush = TRUE]), {})
        /\ UNCHANGED <<inbox, server>>

TimeoutExpired(p) ==
    LET a == actor[p]
    IN  /\ Alive(a) /\ a.timer
        /\ Became(p, Yield(OnError([a EXCEPT !.timer = FALSE])), {})
        /\ UNCHANGED <<inbox, server>>

Yielded(p) ==
    LET a == actor[p]
    IN  /\ Alive(a) /\ a.yield
        /\ Became(p, Loop([a EXCEPT !.yield = FALSE]), {})
        /\ UNCHANGED <<inbox, server>>

\* The dh configuration has come, and get_input_user fails in try_send_request_query: on_error
\* inside loop, after which nothing is yielded.
RequestRefused(p) ==
    LET a == actor[p]
    IN  /\ "access" \in Failures
        /\ a.yield /\ a.state = "SendRequestQuery" /\ a.dh = "ready"
        /\ Became(p, OnError(FlushCallState([a EXCEPT !.yield = FALSE])), {})
        /\ UNCHANGED <<inbox, server>>

\* The configurations are the same at any time: the server's step is left out.
Results(p, q) ==
    IF q \in {"config", "dh"} /\ net[p][q] = "sent"
    THEN {"ok"} \cup (IF q \in Failures THEN {"error"} ELSE {})
    ELSE {net[p][q]} \cap Answers

\* What the handler of the query does with its result.
Handled(a, q, r) ==
    IF r \in {"error", "canceled"} THEN OnError(a)
    ELSE CASE q = "config" -> [a EXCEPT !.config = TRUE]
           [] q = "dh" -> [a EXCEPT !.dh = "ready"]
           [] q \in {"request", "accept"} -> Loop(UpdateWaiting(a, FALSE))
           [] q = "confirm" -> Loop(UpdateCallReady(a))
           [] OTHER -> a

\* Mutant: the configuration is kept, and the actor is not woken.
OnResult_NoYield(p, q) ==
    \E r \in Results(p, q) : LET a == actor[p] IN
        /\ Alive(a)
        /\ Became(p, IF r \notin {"error", "canceled"} /\ q = "config" THEN [a EXCEPT !.config = TRUE]
                     ELSE Yield(Handled(a, q, r)), {q})
        /\ UNCHANGED <<inbox, server>>

\* on_result: the answer of a query, then yield.
OnResult(p, q) ==
    \E r \in Results(p, q) : LET a == actor[p] IN
        /\ Alive(a)
        /\ \/ Became(p, Yield(Handled(a, q, r)), {q})
           \/ /\ "keys" \in Failures /\ q = "confirm" /\ r = "call" /\ KeyChecked(a, "call")
              /\ Became(p, Yield(KeyRefused(a, "call")), {q})
        /\ UNCHANGED <<inbox, server>>

\* Mutant: updates of a call of unknown id are dropped instead of kept.
ReceiveUpdate_Drops(p) ==
    /\ inbox[p] # <<>>
    /\ LET u == Head(inbox[p])
           a == IF p = "callee" /\ u = "requested" /\ actor[p] = NoActor THEN NewActor(p) ELSE actor[p]
       IN  IF Alive(a) /\ (a.id \/ u = "requested") THEN Became(p, UpdateCall(a, u), {})
           ELSE UNCHANGED <<actor, net>>
    /\ inbox' = [inbox EXCEPT ![p] = Tail(@)]
    /\ UNCHANGED server

\* CallManager::update_call makes an actor for a call that comes in, and keeps the updates of a
\* call whose actor does not know its id yet.
ReceiveUpdate(p) ==
    /\ inbox[p] # <<>>
    /\ LET u == Head(inbox[p])
           a == IF p = "callee" /\ u = "requested" /\ actor[p] = NoActor THEN NewActor(p) ELSE actor[p]
       IN  \/ Alive(a) /\ (a.id \/ u = "requested") /\ Became(p, UpdateCall(a, u), {})
           \/ "keys" \in Failures /\ a.id /\ KeyChecked(a, u) /\ Became(p, KeyRefused(a, u), {})
           \/ ~Alive(a) /\ UNCHANGED <<actor, net>>
    /\ inbox' = [inbox EXCEPT ![p] = Tail(@)]
    /\ UNCHANGED server

-----------------------------------------------------------------------------
(* The server (external): what the handlers of the answers and of the      *)
(* updates expect of it.                                                   *)

Answer(p, q, r) == net' = [net EXCEPT ![p][q] = r]
Push(us) == inbox' = [p \in Parties |-> IF actor[p].state = "stopped" THEN inbox[p] ELSE inbox[p] \o us[p]]
To(p, u) == [x \in Parties |-> IF x = p THEN <<u>> ELSE <<>>]

\* A request that was canceled may have reached the server.
ServeRequest ==
    /\ net["caller"]["request"] \in Pending /\ server = "none"
    /\ server' = "requested"
    /\ net' = [net EXCEPT !["caller"]["request"] = IF @ = "sent" THEN "waiting" ELSE @]
    /\ Push(To("callee", "requested"))
    /\ UNCHANGED actor

\* The query q of p, taken while the call is in from: the answer, and the update of the other.
Serve(p, q, from, to, r, u) ==
    /\ net[p][q] = "sent"
    /\ IF server \in from
       THEN Answer(p, q, r) /\ server' = to /\ Push(To(Other(p), u))
       ELSE Answer(p, q, "error") /\ UNCHANGED <<inbox, server>>
    /\ UNCHANGED actor

ServeReceived == Serve("callee", "received", {"requested"}, "requested", "ok", "waiting")
ServeAccept == Serve("callee", "accept", {"requested"}, "accepted", "waiting", "accepted")
ServeConfirm == Serve("caller", "confirm", {"accepted"}, "confirmed", "call", "call")

\* The users of a call that took place may be asked to rate it.
PushDiscarded ==
    \E us \in [Parties -> {<<"discarded">>} \cup (IF server = "confirmed" THEN {<<"rate">>} ELSE {})] :
        Push(us)

ServeDiscard(p) ==
    /\ net[p]["discard"] = "sent"
    /\ Answer(p, "discard", "ok")
    /\ server' = "discarded"
    /\ IF server = "discarded" THEN Push(To(p, "discarded")) ELSE PushDiscarded
    /\ UNCHANGED actor

\* The server gives up a call that nobody takes.
ServerTimeout ==
    /\ server \in {"requested", "accepted"}
    /\ server' = "discarded"
    /\ PushDiscarded
    /\ UNCHANGED <<actor, net>>

\* The server tells p that it knows no such call.  Bound: only while p's call goes on and nothing
\* else is on its way to p.
ServerForgets(p) ==
    /\ p \in Forgets /\ server # "none"
    /\ inbox[p] = <<>>
    /\ actor[p].state \notin {"none", "Discarded", "stopped"} /\ actor[p].type # "Error"
    /\ Push(To(p, "empty"))
    /\ UNCHANGED <<actor, net, server>>

\* A query that fails; a request that was served fails when its answer is late
\* (total_timeout_limit_).
QueryFails(p, q) ==
    /\ q \in Failures \ {"config", "dh"}
    /\ net[p][q] = "sent" \/ (q = "request" /\ net[p][q] = "waiting")
    /\ Answer(p, q, "error")
    /\ UNCHANGED <<actor, inbox, server>>

-----------------------------------------------------------------------------
Serves ==
    \/ ServeRequest \/ ServeReceived \/ ServeAccept \/ ServeConfirm
    \/ \E p \in Parties : ServeDiscard(p)

Next ==
    \/ CreateCall \/ AcceptCall
    \/ \E p \in Parties : DiscardCall(p) \/ RateCall(p) \/ TimeoutExpired(p) \/ Yielded(p)
                          \/ RequestRefused(p) \/ ReceiveUpdate(p) \/ ServerForgets(p)
    \/ \E p \in Parties, q \in Queries : OnResult(p, q) \/ QueryFails(p, q)
    \/ Serves \/ ServerTimeout

Spec == Init /\ [][Next]_vars

-----------------------------------------------------------------------------
(* Properties                                                              *)

\* Every variable keeps its type, and an actor sends what it has to send before it rests.
TypeOK ==
    /\ \A p \in Parties :
           /\ actor[p].state \in States /\ actor[p].type \in Types /\ actor[p].shown \in Types
           /\ actor[p].dh \in {"no", "sent", "ready"} /\ actor[p].send = {}
           /\ \A i \in DOMAIN inbox[p] : inbox[p][i] \in Updates
    /\ net \in [Parties -> [Queries -> {"none", "sent", "abandoned", "failed", "done"} \cup Answers]]
    /\ server \in {"none", "requested", "accepted", "confirmed", "discarded"}

\* No CHECK of the actor fails: discardCall never meets an ended call that is not being
\* discarded (UNREACHABLE in discard_call), no query is sent about a call of unknown id
\* (get_input_phone_call), whatever order answers, updates, time-outs and yields come in.
ChecksHold == \A p \in Parties : actor[p].ok

Rank(t) == CASE t = "Empty" -> 0 [] t = "Pending" -> 1 [] t = "ExchangingKey" -> 2 [] t = "Ready" -> 3
             [] OTHER -> 4

\* What the user is shown only moves forward: a call that has ended is never shown as going on
\* again, however late an answer or an update comes.
ShownForward == [][\A p \in Parties : Rank(actor'[p].shown) >= Rank(actor[p].shown)]_vars

\* A user is shown a ready call only when its configuration is there, the callee has accepted
\* and the server has taken the caller's confirmation.
ReadyIsAgreed ==
    \A p \in Parties : actor[p].shown = "Ready" =>
        /\ server \in {"confirmed", "discarded"} /\ actor[p].config
        /\ actor["callee"].accepted

\* loop would do something.
HasWork(a) ==
    \/ FlushCallState(a) # a
    \/ a.state = "SendDiscardQuery"
    \/ a.state \in {"SendRequestQuery", "SendConfirmQuery"} \/ (a.state = "SendAcceptQuery" /\ a.accepted)
    \/ a.state = "Discarded" /\ ~(a.type = "Discarded" /\ a.rating)
WaitsForDh(p) ==
    /\ FlushCallState(actor[p]) = actor[p]
    /\ actor[p].state \in {"SendRequestQuery", "SendAcceptQuery", "SendConfirmQuery"}
    /\ net[p]["dh"] = "sent"

\* No wake-up is lost: an actor that has something to show, to send or to close has a yield
\* pending, or waits for the dh configuration without which it cannot send.  (The configuration
\* of calls may come when the call is ready already, and nothing else wakes the actor then.)
\* The code does not keep it: see RequestRefused.
NoLostWakeup == \A p \in Parties : HasWork(actor[p]) => actor[p].yield \/ WaitsForDh(p)

\* An actor whose request was refused inside loop before it was sent.
RefusedInLoop(p) ==
    /\ "access" \in Failures /\ net[p]["request"] = "none"
    /\ actor[p].state = "SendDiscardQuery" /\ actor[p].type = "Error" /\ actor[p].dh = "ready"

\* No wake-up is lost but that one: an actor that has something to show, to send or to close
\* has a yield pending or waits for the dh configuration, unless the request it never sent
\* was refused inside loop (try_send_request_query).
OnlyRefusalSleeps ==
    \A p \in Parties : HasWork(actor[p]) => actor[p].yield \/ WaitsForDh(p) \/ RefusedInLoop(p)

Over(a) == a.state \in {"none", "Discarded", "stopped"}

\* The end of a call is not lost: when the server has ended it, each side's call is over or the
\* update that ends it is still to be handled, also when it came before the answer that tells
\* the caller the id of the call.
EndReaches ==
    server = "discarded" =>
        \A p \in Parties : Over(actor[p]) \/ (\E i \in DOMAIN inbox[p] : inbox[p][i] \in {"discarded", "rate"})
=============================================================================
