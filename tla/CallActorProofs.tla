--------------------------- MODULE CallActorProofs ---------------------------
(***************************************************************************)
(* Proofs about CallActor.  What a handler may do to an actor (Moved) is   *)
(* shown once for each handler; the invariants of the call then follow     *)
(* from Moved, from what the handler sends, and from what the server does. *)
(***************************************************************************)
EXTENDS CallActor, TLAPS

\* The types of an actor's fields.
Actors ==
    [state : States, type : Types, flush : BOOLEAN, id : BOOLEAN, accepted : BOOLEAN,
     config : BOOLEAN, rating : BOOLEAN, timer : BOOLEAN, yield : BOOLEAN,
     dh : {"no", "sent", "ready"}, send : SUBSET Queries, shown : Types, ok : BOOLEAN]

\* The actor has given the call up.
Dead == Discarding \cup {"stopped"}
Gone == {"Discarded", "stopped"}
\* The states before the request of a call is sent.
Early == {"none", "Empty", "SendRequestQuery"}

\* The type that is to be shown is that of the state.
Fits(a) ==
    /\ a.state \in {"none", "Empty"} => a.type = "Empty"
    /\ a.state \in {"SendRequestQuery", "WaitRequestResult", "SendAcceptQuery"} => a.type = "Pending"
    /\ a.state = "WaitAcceptResult" => a.type \in {"Pending", "ExchangingKey"}
    /\ a.state \in {"SendConfirmQuery", "WaitConfirmResult"} => a.type = "ExchangingKey"
    /\ a.state = "Ready" => a.type = "Ready"
    /\ a.state \in Dead => a.type \in Ended

\* What is shown lags behind; an actor that answers or confirms a call knows its id; what is
\* sent is sent about a call that is known and, if it is its acceptance, accepted.
Sound(a) ==
    /\ a \in Actors
    /\ a.ok
    /\ Fits(a)
    /\ Rank(a.shown) <= Rank(a.type)
    /\ a.shown = "Ready" => a.config
    /\ a.state \in {"SendAcceptQuery", "SendConfirmQuery"} => a.id
    /\ "accept" \in a.send => a.accepted
    /\ "discard" \in a.send => a.id

\* What any handler may make of an actor a.
Moved(a, b) ==
    /\ Sound(b)
    /\ a.accepted => b.accepted
    /\ a.send \subseteq b.send
    /\ Rank(a.shown) <= Rank(b.shown)
    /\ a.state \in Dead => b.state \in Dead
    /\ a.state \in Gone => b.state \in Gone
    /\ a.state # "none" => b.state # "none"
    /\ b.dh = "sent" => a.dh = "sent" \/ "dh" \in b.send
    /\ b.state \in Early => a.state \in Early /\ ("request" \in b.send => "request" \in a.send)

\* What only the handlers of the server's answers and updates do not keep.
IsReady(a) == a.type = "Ready" \/ a.shown = "Ready"
Kept(a, b) == (b.id => a.id) /\ (IsReady(b) => IsReady(a))

-----------------------------------------------------------------------------
(* The handlers                                                            *)

LEMMA RankFacts ==
    /\ \A t \in Types : Rank(t) \in 0 .. 4
    /\ Rank("Empty") = 0 /\ Rank("Pending") = 1 /\ Rank("ExchangingKey") = 2 /\ Rank("Ready") = 3
    /\ \A t \in Ended : Rank(t) = 4
BY DEF Rank, Types, Ended

LEMMA EndedIsDead == ASSUME NEW a, Sound(a), a.type \in Ended PROVE a.state \in Dead
BY DEF Sound, Actors, Fits, Dead, Discarding, States, Ended

LEMMA MovedRefl == ASSUME NEW a, Sound(a) PROVE Moved(a, a) /\ Kept(a, a)
BY RankFacts DEF Sound, Actors, Moved, Kept, Early

LEMMA MovedTrans ==
    ASSUME NEW a, NEW b, NEW c, Sound(a), Moved(a, b), Moved(b, c) PROVE Moved(a, c)
<1>1. Rank(a.shown) \in 0 .. 4 /\ Rank(b.shown) \in 0 .. 4 /\ Rank(c.shown) \in 0 .. 4
  BY RankFacts DEF Moved, Sound, Actors, Early
<1>. QED  BY <1>1 DEF Moved, Early

LEMMA KeptTrans == ASSUME NEW a, NEW b, NEW c, Kept(a, b), Kept(b, c) PROVE Kept(a, c)
BY DEF Kept

LEMMA FlushMoved ==
    ASSUME NEW a, Sound(a)
    PROVE  LET b == FlushCallState(a)
           IN  Moved(a, b) /\ Kept(a, b) /\ FlushCallState(b) = b /\ b.state = a.state
<1> DEFINE b == [a EXCEPT !.flush = FALSE, !.shown = a.type]
<1>1. CASE a.flush /\ ~(a.type = "Ready" /\ ~a.config)
  <2>1. b \in Actors /\ b.ok = a.ok /\ b.state = a.state /\ b.id = a.id /\ b.type = a.type
        /\ b.shown = a.type /\ b.config = a.config /\ b.send = a.send /\ b.accepted = a.accepted
        /\ b.dh = a.dh /\ b.flush = FALSE
    BY DEF Sound, Actors
  <2> HIDE DEF b
  <2>2. Sound(b)
    BY <1>1, <2>1, RankFacts DEF Sound, Actors, Fits
  <2>3. Moved(a, b) /\ Kept(a, b)
    BY <2>1, <2>2 DEF Sound, Moved, Kept, IsReady, Early
  <2>4. FlushCallState(b) = b
    BY <2>1 DEF FlushCallState
  <2>. QED  BY <1>1, <2>1, <2>3, <2>4 DEF FlushCallState, b
<1>2. CASE ~(a.flush /\ ~(a.type = "Ready" /\ ~a.config))
  BY <1>2, MovedRefl DEF FlushCallState
<1>. QED  BY <1>1, <1>2

LEMMA LoadMoved == ASSUME NEW a, Sound(a) PROVE Moved(a, LoadDhConfig(a)) /\ Kept(a, LoadDhConfig(a))
<1> DEFINE b == [a EXCEPT !.dh = "sent", !.send = @ \cup {"dh"}]
<1>1. b \in Actors /\ b.ok = a.ok /\ b.state = a.state /\ b.id = a.id /\ b.type = a.type
      /\ b.shown = a.shown /\ b.config = a.config /\ b.send = a.send \cup {"dh"}
      /\ b.accepted = a.accepted /\ b.dh = "sent"
  BY DEF Sound, Actors, Queries
<1> HIDE DEF b
<1>2. Sound(b)
  BY <1>1 DEF Sound, Fits
<1>3. Moved(a, b) /\ Kept(a, b)
  BY <1>1, <1>2, RankFacts DEF Sound, Actors, Moved, Kept, IsReady, Early
<1>. QED  BY <1>3, MovedRefl DEF LoadDhConfig, b

LEMMA RequestMoved ==
    ASSUME NEW a, Sound(a), a.state = "SendRequestQuery"
    PROVE  Moved(a, TrySendRequestQuery(a)) /\ Kept(a, TrySendRequestQuery(a))
<1> DEFINE b == [a EXCEPT !.state = "WaitRequestResult", !.timer = TRUE, !.send = @ \cup {"request"}]
<1>1. b \in Actors /\ b.ok = a.ok /\ b.state = "WaitRequestResult" /\ b.id = a.id /\ b.type = a.type
      /\ b.shown = a.shown /\ b.config = a.config /\ b.send = a.send \cup {"request"}
      /\ b.accepted = a.accepted /\ b.dh = a.dh
  BY DEF Sound, Actors, Queries, States
<1> HIDE DEF b
<1>2. Sound(b)
  BY <1>1 DEF Sound, Fits, Dead, Discarding
<1>3. Moved(a, b) /\ Kept(a, b)
  BY <1>1, <1>2, RankFacts DEF Sound, Actors, Moved, Kept, IsReady, Dead, Discarding, Gone, Early
<1>. QED  BY <1>3, LoadMoved DEF TrySendRequestQuery, b

LEMMA AcceptMoved ==
    ASSUME NEW a, Sound(a), a.state = "SendAcceptQuery"
    PROVE  Moved(a, TrySendAcceptQuery(a)) /\ Kept(a, TrySendAcceptQuery(a))
<1> DEFINE b == [a EXCEPT !.state = "WaitAcceptResult", !.send = @ \cup {"accept"}, !.ok = @ /\ a.id]
<1>1. CASE a.accepted
  <2>1. b \in Actors /\ b.ok /\ b.state = "WaitAcceptResult" /\ b.id = a.id /\ b.type = a.type
        /\ b.shown = a.shown /\ b.config = a.config /\ b.send = a.send \cup {"accept"}
        /\ b.accepted = a.accepted /\ b.dh = a.dh
    BY DEF Sound, Actors, Queries, States
  <2> HIDE DEF b
  <2>2. Sound(b)
    BY <1>1, <2>1 DEF Sound, Fits, Dead, Discarding
  <2>3. Moved(a, b) /\ Kept(a, b)
    BY <2>1, <2>2, RankFacts DEF Sound, Actors, Moved, Kept, IsReady, Dead, Discarding, Gone, Early
  <2>. QED  BY <1>1, <2>3, LoadMoved DEF TrySendAcceptQuery, b
<1>2. CASE ~a.accepted
  BY <1>2, LoadMoved, MovedRefl DEF TrySendAcceptQuery
<1>. QED  BY <1>1, <1>2

LEMMA ConfirmMoved ==
    ASSUME NEW a, Sound(a), a.state = "SendConfirmQuery"
    PROVE  Moved(a, TrySendConfirmQuery(a)) /\ Kept(a, TrySendConfirmQuery(a))
<1> DEFINE b == [a EXCEPT !.state = "WaitConfirmResult", !.send = @ \cup {"confirm"}, !.ok = @ /\ a.id]
<1>1. b \in Actors /\ b.ok /\ b.state = "WaitConfirmResult" /\ b.id = a.id /\ b.type = a.type
      /\ b.shown = a.shown /\ b.config = a.config /\ b.send = a.send \cup {"confirm"}
      /\ b.accepted = a.accepted /\ b.dh = a.dh
  BY DEF Sound, Actors, Queries, States
<1> HIDE DEF b
<1>2. Sound(b)
  BY <1>1 DEF Sound, Fits, Dead, Discarding
<1>3. Moved(a, b) /\ Kept(a, b)
  BY <1>1, <1>2, RankFacts DEF Sound, Actors, Moved, Kept, IsReady, Dead, Discarding, Gone, Early
<1>. QED  BY <1>3, LoadMoved DEF TrySendConfirmQuery, b

LEMMA DiscardedMoved ==
    ASSUME NEW a, Sound(a), NEW rating \in BOOLEAN
    PROVE  LET b == OnCallDiscarded(a, rating)
           IN  Moved(a, b) /\ Kept(a, b) /\ b.state = "Discarded"
<1> DEFINE f == a.flush \/ a.state # "Discarded"
                        \/ (a.type # "Error" /\ (a.type # "Discarded" \/ a.rating # rating))
           r == IF a.type = "Error" THEN a.rating ELSE rating
           ty == IF a.type = "Error" THEN a.type ELSE "Discarded"
           b == [a EXCEPT !.state = "Discarded", !.flush = f, !.rating = r, !.type = ty]
<1>1. a \in Actors /\ a.flush \in BOOLEAN /\ a.rating \in BOOLEAN /\ a.type \in Types /\ a.ok
  BY DEF Sound, Actors
<1>2. f \in BOOLEAN /\ r \in BOOLEAN /\ ty \in Types /\ ty \in Ended
  BY <1>1 DEF Types, Ended
<1>3. "Discarded" \in States
  BY DEF States
<1>4. OnCallDiscarded(a, rating) = b
  BY DEF OnCallDiscarded
<1> HIDE DEF f, r, ty
<1>5. b \in Actors /\ b.ok = a.ok /\ b.state = "Discarded" /\ b.id = a.id /\ b.type = ty
      /\ b.shown = a.shown /\ b.config = a.config /\ b.send = a.send
      /\ b.accepted = a.accepted /\ b.dh = a.dh
  BY <1>1, <1>2, <1>3 DEF Actors
<1> HIDE DEF b
<1>6. Sound(b)
  BY <1>2, <1>5, RankFacts DEF Sound, Actors, Fits, Dead, Discarding
<1>7. Moved(a, b)
  BY <1>5, <1>6, RankFacts DEF Sound, Actors, Moved, Dead, Discarding, Gone, Early
<1>8. Kept(a, b)
  BY <1>2, <1>5 DEF Kept, IsReady, Ended
<1>. QED  BY <1>4, <1>5, <1>7, <1>8

LEMMA YieldMoved ==
    ASSUME NEW a, Sound(a)
    PROVE  Moved(a, Yield(a)) /\ Kept(a, Yield(a)) /\ Yield(a).yield /\ Yield(a).state = a.state
           /\ Yield(a).dh = a.dh
<1> DEFINE b == [a EXCEPT !.yield = TRUE]
<1>1. b \in Actors /\ b.ok = a.ok /\ b.state = a.state /\ b.id = a.id /\ b.type = a.type
      /\ b.shown = a.shown /\ b.config = a.config /\ b.send = a.send
      /\ b.accepted = a.accepted /\ b.dh = a.dh /\ b.yield
  BY DEF Sound, Actors
<1> HIDE DEF b
<1>2. Sound(b)
  BY <1>1 DEF Sound, Fits
<1>3. Moved(a, b) /\ Kept(a, b)
  BY <1>1, <1>2, RankFacts DEF Sound, Actors, Moved, Kept, IsReady, Early
<1>. QED  BY <1>1, <1>3 DEF Yield, b

LEMMA DiscardMoved ==
    ASSUME NEW a, Sound(a), a.state = "SendDiscardQuery"
    PROVE  LET b == TrySendDiscardQuery(a)
           IN  Moved(a, b) /\ Kept(a, b) /\ (b.yield \/ b.state = "WaitDiscardResult")
<1>1. CASE a.id
  <2> DEFINE b == [a EXCEPT !.state = "WaitDiscardResult", !.send = @ \cup {"discard"}]
  <2>1. b \in Actors /\ b.ok = a.ok /\ b.state = "WaitDiscardResult" /\ b.id = a.id /\ b.type = a.type
        /\ b.shown = a.shown /\ b.config = a.config /\ b.send = a.send \cup {"discard"}
        /\ b.accepted = a.accepted /\ b.dh = a.dh
    BY DEF Sound, Actors, Queries, States
  <2> HIDE DEF b
  <2>2. Sound(b)
    BY <1>1, <2>1 DEF Sound, Fits, Dead, Discarding
  <2>3. Moved(a, b) /\ Kept(a, b)
    BY <2>1, <2>2, RankFacts DEF Sound, Actors, Moved, Kept, IsReady, Dead, Discarding, Gone, Early
  <2>. QED  BY <1>1, <2>1, <2>3 DEF TrySendDiscardQuery, b
<1>2. CASE ~a.id
  <2> DEFINE b == OnCallDiscarded(a, FALSE)
  <2>1. Moved(a, b) /\ Kept(a, b)
    BY DiscardedMoved
  <2>2. Sound(b)
    BY <2>1 DEF Moved, Early
  <2>3. TrySendDiscardQuery(a) = Yield(b)
    BY <1>2 DEF TrySendDiscardQuery, Yield
  <2> HIDE DEF b
  <2>. QED  BY <2>1, <2>2, <2>3, YieldMoved, MovedTrans, KeptTrans
<1>. QED  BY <1>1, <1>2

LEMMA StopMoved ==
    ASSUME NEW a, Sound(a), a.state = "Discarded"
    PROVE  LET b == [a EXCEPT !.state = "stopped", !.timer = FALSE]
           IN  Moved(a, b) /\ Kept(a, b)
<1> DEFINE b == [a EXCEPT !.state = "stopped", !.timer = FALSE]
<1>1. b \in Actors /\ b.ok = a.ok /\ b.state = "stopped" /\ b.id = a.id /\ b.type = a.type
      /\ b.shown = a.shown /\ b.config = a.config /\ b.send = a.send
      /\ b.accepted = a.accepted /\ b.dh = a.dh
  BY DEF Sound, Actors, States
<1> HIDE DEF b
<1>2. Sound(b)
  BY <1>1 DEF Sound, Fits, Dead, Discarding
<1>3. Moved(a, b) /\ Kept(a, b)
  BY <1>1, <1>2, RankFacts DEF Sound, Actors, Moved, Kept, IsReady, Dead, Discarding, Gone, Early
<1>. QED  BY <1>3 DEF b

\* Loop has done what was to be done, but for what waits for the dh configuration.
Waits(a) ==
    /\ FlushCallState(a) = a
    /\ a.state \in {"SendRequestQuery", "SendAcceptQuery", "SendConfirmQuery"}
    /\ a.dh = "sent"
Rested(a) == HasWork(a) => a.yield \/ Waits(a)

LEMMA FlushedBy ==
    ASSUME NEW a, Sound(a), FlushCallState(a) = a
    PROVE  ~a.flush \/ (a.type = "Ready" /\ ~a.config)
<1> SUFFICES ASSUME a.flush, ~(a.type = "Ready" /\ ~a.config) PROVE FALSE
  OBVIOUS
<1> DEFINE b == [a EXCEPT !.flush = FALSE, !.shown = a.type]
<1>1. b.flush = FALSE
  BY DEF Sound, Actors
<1>2. FlushCallState(a) = b
  BY DEF FlushCallState
<1>. QED  BY <1>1, <1>2

LEMMA LoadRests ==
    ASSUME NEW a, Sound(a), FlushCallState(a) = a, a.dh # "ready",
           a.state \in {"SendRequestQuery", "SendAcceptQuery", "SendConfirmQuery"}
    PROVE  Rested(LoadDhConfig(a))
<1> DEFINE b == LoadDhConfig(a)
<1>1. ~a.flush \/ (a.type = "Ready" /\ ~a.config)
  BY FlushedBy
<1>2. b.dh = "sent" /\ b.state = a.state /\ b.flush = a.flush /\ b.type = a.type /\ b.config = a.config
  BY DEF Sound, Actors, LoadDhConfig
<1> HIDE DEF b
<1>3. FlushCallState(b) = b
  BY <1>1, <1>2 DEF FlushCallState
<1>4. Rested(b)
  BY <1>2, <1>3 DEF Rested, Waits
<1>. QED  BY <1>4 DEF b

LEMMA LoopMoved == ASSUME NEW a, Sound(a) PROVE Moved(a, Loop(a)) /\ Kept(a, Loop(a)) /\ Rested(Loop(a))
<1> DEFINE b == FlushCallState(a)
<1>1. Moved(a, b) /\ Kept(a, b) /\ FlushCallState(b) = b
  BY FlushMoved
<1> HIDE DEF b
<1>2. Sound(b)
  BY <1>1 DEF Moved, Early
<1>3. ~b.flush \/ (b.type = "Ready" /\ ~b.config)
  BY <1>1, <1>2, FlushedBy
<1>. DEFINE L == CASE b.state = "SendRequestQuery" -> TrySendRequestQuery(b)
          [] b.state = "SendAcceptQuery" -> TrySendAcceptQuery(b)
          [] b.state = "SendConfirmQuery" -> TrySendConfirmQuery(b)
          [] b.state = "SendDiscardQuery" -> TrySendDiscardQuery(b)
          [] b.state = "Discarded" /\ ~(b.type = "Discarded" /\ b.rating) ->
                 [b EXCEPT !.state = "stopped", !.timer = FALSE]
          [] OTHER -> b
<1>4. SUFFICES Moved(b, L) /\ Kept(b, L) /\ Rested(L)
  <2>1. Loop(a) = L
    BY DEF Loop, b
  <2>. HIDE DEF L
  <2>. QED  BY <1>1, <2>1, MovedTrans, KeptTrans
<1>5. CASE b.state = "SendRequestQuery"
  <2>1. L = TrySendRequestQuery(b)  BY <1>5
  <2>2. CASE b.dh # "ready"
    BY <1>1, <1>2, <1>5, <2>1, <2>2, RequestMoved, LoadRests DEF TrySendRequestQuery
  <2>3. CASE b.dh = "ready"
    <3> DEFINE c == [b EXCEPT !.state = "WaitRequestResult", !.timer = TRUE, !.send = @ \cup {"request"}]
    <3>1. L = c
      BY <2>1, <2>3 DEF TrySendRequestQuery
    <3>2. c.state = "WaitRequestResult" /\ c.flush = b.flush /\ c.type = b.type /\ c.config = b.config
      BY <1>2 DEF Sound, Actors
    <3> HIDE DEF c
    <3>3. Rested(c)
      BY <1>3, <3>2 DEF Rested, HasWork, FlushCallState
    <3>. QED  BY <1>2, <1>5, <2>1, <3>1, <3>3, RequestMoved
  <2>. QED  BY <2>2, <2>3
<1>6. CASE b.state = "SendAcceptQuery"
  <2>1. L = TrySendAcceptQuery(b)  BY <1>6
  <2>2. CASE b.dh # "ready"
    BY <1>1, <1>2, <1>6, <2>1, <2>2, AcceptMoved, LoadRests DEF TrySendAcceptQuery
  <2>3. CASE b.dh = "ready" /\ ~b.accepted
    <3>1. L = b
      BY <2>1, <2>3 DEF TrySendAcceptQuery
    <3>2. Rested(b)
      BY <1>1, <1>6, <2>3 DEF Rested, HasWork
    <3> HIDE DEF L
    <3>. QED  BY <1>2, <3>1, <3>2, MovedRefl
  <2>4. CASE b.dh = "ready" /\ b.accepted
    <3> DEFINE c == [b EXCEPT !.state = "WaitAcceptResult", !.send = @ \cup {"accept"}, !.ok = @ /\ b.id]
    <3>1. L = c
      BY <2>1, <2>4 DEF TrySendAcceptQuery
    <3>2. c.state = "WaitAcceptResult" /\ c.flush = b.flush /\ c.type = b.type /\ c.config = b.config
      BY <1>2 DEF Sound, Actors
    <3> HIDE DEF c
    <3>3. Rested(c)
      BY <1>3, <3>2 DEF Rested, HasWork, FlushCallState
    <3>. QED  BY <1>2, <1>6, <2>1, <3>1, <3>3, AcceptMoved
  <2>. QED  BY <2>2, <2>3, <2>4
<1>7. CASE b.state = "SendConfirmQuery"
  <2>1. L = TrySendConfirmQuery(b)  BY <1>7
  <2>2. CASE b.dh # "ready"
    BY <1>1, <1>2, <1>7, <2>1, <2>2, ConfirmMoved, LoadRests DEF TrySendConfirmQuery
  <2>3. CASE b.dh = "ready"
    <3> DEFINE c == [b EXCEPT !.state = "WaitConfirmResult", !.send = @ \cup {"confirm"}, !.ok = @ /\ b.id]
    <3>1. L = c
      BY <2>1, <2>3 DEF TrySendConfirmQuery
    <3>2. c.state = "WaitConfirmResult" /\ c.flush = b.flush /\ c.type = b.type /\ c.config = b.config
      BY <1>2 DEF Sound, Actors
    <3> HIDE DEF c
    <3>3. Rested(c)
      BY <1>3, <3>2 DEF Rested, HasWork, FlushCallState
    <3>. QED  BY <1>2, <1>7, <2>1, <3>1, <3>3, ConfirmMoved
  <2>. QED  BY <2>2, <2>3
<1>8. CASE b.state = "SendDiscardQuery"
  <2>1. L = TrySendDiscardQuery(b)  BY <1>8
  <2>2. Moved(b, L) /\ Kept(b, L) /\ (L.yield \/ L.state = "WaitDiscardResult")
    BY <1>2, <1>8, <2>1, DiscardMoved
  <2>3. CASE L.yield
    BY <2>2, <2>3 DEF Rested
  <2>4. CASE L.state = "WaitDiscardResult" /\ ~L.yield
    <3>1. b.id
      <4>1. SUFFICES ASSUME ~b.id PROVE FALSE
        OBVIOUS
      <4>2. L = Yield(OnCallDiscarded(b, FALSE))
        BY <2>1, <4>1 DEF TrySendDiscardQuery, Yield
      <4>3. Sound(OnCallDiscarded(b, FALSE))
        BY <1>2, DiscardedMoved DEF Moved, Early
      <4> HIDE DEF L
      <4>. QED  BY <2>4, <4>2, <4>3, YieldMoved
    <3>2. L.flush = b.flush /\ L.type = b.type /\ L.config = b.config
      BY <1>2, <2>1, <3>1 DEF TrySendDiscardQuery, Sound, Actors
    <3> HIDE DEF L
    <3>3. Rested(L)
      BY <1>3, <2>4, <3>2 DEF Rested, HasWork, FlushCallState
    <3>. QED  BY <2>2, <3>3
  <2>. QED  BY <2>2, <2>3, <2>4
<1>9. CASE b.state = "Discarded" /\ ~(b.type = "Discarded" /\ b.rating)
  <2> DEFINE c == [b EXCEPT !.state = "stopped", !.timer = FALSE]
  <2>1. L = c  BY <1>9
  <2>2. c.state = "stopped" /\ c.flush = b.flush /\ c.type = b.type /\ c.config = b.config
    BY <1>2 DEF Sound, Actors
  <2>3. Moved(b, c) /\ Kept(b, c)
    BY <1>2, <1>9, StopMoved
  <2> HIDE DEF c
  <2>4. Rested(c)
    BY <1>3, <2>2 DEF Rested, HasWork, FlushCallState
  <2>. QED  BY <2>1, <2>3, <2>4
<1>10. CASE /\ b.state \notin {"SendRequestQuery", "SendAcceptQuery", "SendConfirmQuery", "SendDiscardQuery"}
            /\ ~(b.state = "Discarded" /\ ~(b.type = "Discarded" /\ b.rating))
  <2>1. L = b  BY <1>10
  <2>2. Rested(b)
    BY <1>1, <1>10 DEF Rested, HasWork
  <2> HIDE DEF L
  <2>. QED  BY <1>2, <2>1, <2>2, MovedRefl
<1>. QED  BY <1>5, <1>6, <1>7, <1>8, <1>9, <1>10

LEMMA ErrorMoved ==
    ASSUME NEW a, Sound(a), a.state # "stopped"
    PROVE  LET b == OnError(a) IN Moved(a, b) /\ Kept(a, b) /\ b.state \in Dead
<1> DEFINE s == IF a.state \in {"WaitDiscardResult", "Discarded"} THEN "Discarded" ELSE "SendDiscardQuery"
           b == [a EXCEPT !.state = s, !.type = "Error", !.flush = TRUE]
<1>1. s \in States /\ s \in Dead /\ s \in Discarding /\ (a.state \in Gone => s \in Gone)
  BY DEF States, Dead, Discarding, Gone
<1>2. OnError(a) = b
  BY DEF OnError
<1> HIDE DEF s
<1>3. b \in Actors /\ b.ok = a.ok /\ b.state = s /\ b.id = a.id /\ b.type = "Error"
      /\ b.shown = a.shown /\ b.config = a.config /\ b.send = a.send
      /\ b.accepted = a.accepted /\ b.dh = a.dh
  BY <1>1 DEF Sound, Actors, Types
<1> HIDE DEF b
<1>4. Rank(b.type) = 4 /\ Rank(a.shown) \in 0 .. 4
  BY <1>3, RankFacts DEF Sound, Actors, Ended
<1>5. Fits(b)
  BY <1>1, <1>3 DEF Fits, Discarding, Ended
<1>6. Sound(b)
  BY <1>1, <1>3, <1>4, <1>5 DEF Sound, Discarding
<1>7. Moved(a, b)
  BY <1>1, <1>3, <1>4, <1>6 DEF Moved, Discarding, Early
<1>8. Kept(a, b)
  BY <1>3 DEF Kept, IsReady
<1>. QED  BY <1>1, <1>2, <1>3, <1>7, <1>8

LEMMA WaitingMoved ==
    ASSUME NEW a, Sound(a), NEW received \in BOOLEAN
    PROVE  LET b == UpdateWaiting(a, received) IN Moved(a, b) /\ (IsReady(b) => IsReady(a))
<1>1. CASE a.state = "WaitAcceptResult"
  <2> DEFINE b == [OnBeginExchangingKey(a) EXCEPT !.id = TRUE]
  <2>1. b \in Actors /\ b.ok = a.ok /\ b.state = a.state /\ b.id /\ b.type = "ExchangingKey"
        /\ b.shown = a.shown /\ b.config = a.config /\ b.send = a.send
        /\ b.accepted = a.accepted /\ b.dh = a.dh
    BY DEF Sound, Actors, OnBeginExchangingKey, Types
  <2> HIDE DEF b
  <2>2. Rank(b.type) = 2 /\ Rank(a.type) \in 1 .. 2 /\ Rank(a.shown) \in 0 .. 4
    BY <1>1, <2>1, RankFacts DEF Sound, Actors, Fits
  <2>3. Sound(b)
    BY <1>1, <2>1, <2>2 DEF Sound, Fits, Dead, Discarding
  <2>4. Moved(a, b) /\ (IsReady(b) => IsReady(a))
    BY <2>1, <2>2, <2>3 DEF Moved, IsReady, Early
  <2>. QED  BY <1>1, <2>4 DEF UpdateWaiting, b
<1>2. CASE a.state = "WaitRequestResult"
  <2> DEFINE tm == a.timer \/ received
             b == [a EXCEPT !.id = TRUE, !.flush = TRUE, !.timer = tm]
  <2>1. tm \in BOOLEAN
    BY DEF Sound, Actors
  <2>2. UpdateWaiting(a, received) = b
    BY <1>2 DEF UpdateWaiting
  <2> HIDE DEF tm
  <2>3. b \in Actors /\ b.ok = a.ok /\ b.state = a.state /\ b.id /\ b.type = a.type
        /\ b.shown = a.shown /\ b.config = a.config /\ b.send = a.send
        /\ b.accepted = a.accepted /\ b.dh = a.dh
    BY <2>1 DEF Sound, Actors
  <2> HIDE DEF b
  <2>4. Sound(b)
    BY <2>3 DEF Sound, Fits
  <2>5. Moved(a, b) /\ (IsReady(b) => IsReady(a))
    BY <2>3, <2>4, RankFacts DEF Sound, Actors, Moved, IsReady, Early
  <2>. QED  BY <2>2, <2>5
<1>3. CASE a.state \notin {"WaitAcceptResult", "WaitRequestResult"}
  BY <1>3, MovedRefl DEF UpdateWaiting
<1>. QED  BY <1>1, <1>2, <1>3

LEMMA RequestedMoved ==
    ASSUME NEW a, Sound(a)
    PROVE  LET b == UpdateRequested(a) IN Moved(a, b) /\ (IsReady(b) => IsReady(a))
<1>1. CASE a.state = "Empty"
  <2> DEFINE b == [a EXCEPT !.id = TRUE, !.state = "SendAcceptQuery", !.type = "Pending", !.flush = TRUE,
                            !.send = @ \cup {"received"}]
  <2>1. b \in Actors /\ b.ok = a.ok /\ b.state = "SendAcceptQuery" /\ b.id /\ b.type = "Pending"
        /\ b.shown = a.shown /\ b.config = a.config /\ b.send = a.send \cup {"received"}
        /\ b.accepted = a.accepted /\ b.dh = a.dh
    BY DEF Sound, Actors, Queries, States, Types
  <2> HIDE DEF b
  <2>2. Rank(b.type) = 1 /\ Rank(a.type) = 0 /\ Rank(a.shown) \in 0 .. 4
    BY <1>1, <2>1, RankFacts DEF Sound, Actors, Fits
  <2>3. Sound(b)
    BY <2>1, <2>2 DEF Sound, Fits, Dead, Discarding
  <2>4. Moved(a, b) /\ (IsReady(b) => IsReady(a))
    BY <1>1, <2>1, <2>2, <2>3 DEF Moved, IsReady, Dead, Discarding, Gone, Early
  <2>. QED  BY <1>1, <2>4 DEF UpdateRequested, b
<1>2. CASE a.state # "Empty"
  BY <1>2, MovedRefl DEF UpdateRequested
<1>. QED  BY <1>1, <1>2

LEMMA AcceptedMoved ==
    ASSUME NEW a, Sound(a)
    PROVE  LET b == UpdateAccepted(a) IN Moved(a, b) /\ (IsReady(b) => IsReady(a))
<1>1. CASE a.state = "WaitRequestResult"
  <2> DEFINE b == OnBeginExchangingKey([a EXCEPT !.id = TRUE, !.state = "SendConfirmQuery"])
  <2>1. b \in Actors /\ b.ok = a.ok /\ b.state = "SendConfirmQuery" /\ b.id /\ b.type = "ExchangingKey"
        /\ b.shown = a.shown /\ b.config = a.config /\ b.send = a.send
        /\ b.accepted = a.accepted /\ b.dh = a.dh
    BY DEF Sound, Actors, OnBeginExchangingKey, States, Types
  <2> HIDE DEF b
  <2>2. Rank(b.type) = 2 /\ Rank(a.type) = 1 /\ Rank(a.shown) \in 0 .. 4
    BY <1>1, <2>1, RankFacts DEF Sound, Actors, Fits
  <2>3. Sound(b)
    BY <2>1, <2>2 DEF Sound, Fits, Dead, Discarding
  <2>4. Moved(a, b) /\ (IsReady(b) => IsReady(a))
    BY <1>1, <2>1, <2>2, <2>3 DEF Moved, IsReady, Dead, Discarding, Gone, Early
  <2>. QED  BY <1>1, <2>4 DEF UpdateAccepted, b
<1>2. CASE a.state # "WaitRequestResult"
  BY <1>2, MovedRefl DEF UpdateAccepted
<1>. QED  BY <1>1, <1>2

LEMMA ReadyMoved ==
    ASSUME NEW a, Sound(a)
    PROVE  LET b == UpdateCallReady(a) IN Moved(a, b) /\ b.id = a.id
<1>1. CASE a.state \in {"WaitAcceptResult", "WaitConfirmResult"}
  <2> DEFINE b == [a EXCEPT !.state = "Ready", !.type = "Ready", !.timer = FALSE, !.flush = TRUE]
  <2>1. b \in Actors /\ b.ok = a.ok /\ b.state = "Ready" /\ b.id = a.id /\ b.type = "Ready"
        /\ b.shown = a.shown /\ b.config = a.config /\ b.send = a.send
        /\ b.accepted = a.accepted /\ b.dh = a.dh
    BY DEF Sound, Actors, States, Types
  <2> HIDE DEF b
  <2>2. Rank(b.type) = 3 /\ Rank(a.type) \in 1 .. 2 /\ Rank(a.shown) \in 0 .. 4
    BY <1>1, <2>1, RankFacts DEF Sound, Actors, Fits
  <2>3. Sound(b)
    BY <2>1, <2>2 DEF Sound, Fits, Dead, Discarding
  <2>4. Moved(a, b)
    BY <1>1, <2>1, <2>2, <2>3 DEF Moved, Dead, Discarding, Gone, Early
  <2>. QED  BY <1>1, <2>1, <2>4 DEF UpdateCallReady, b
<1>2. CASE a.state \notin {"WaitAcceptResult", "WaitConfirmResult"}
  BY <1>2, MovedRefl DEF UpdateCallReady
<1>. QED  BY <1>1, <1>2

\* The end of a call ends the actor's part in it; only "call" makes it ready.
LEMMA UpdateMoved ==
    ASSUME NEW a, Sound(a), a.state # "stopped", NEW u
    PROVE  LET b == UpdateCall(a, u)
           IN  /\ Moved(a, b) /\ Rested(b)
               /\ u # "call" => (IsReady(b) => IsReady(a))
               /\ u \in {"discarded", "rate"} => b.state \in Gone
<1> DEFINE b == CASE u = "requested" -> UpdateRequested(a)
                  [] u = "waiting" -> UpdateWaiting(a, TRUE)
                  [] u = "accepted" -> UpdateAccepted(a)
                  [] u = "call" -> UpdateCallReady(a)
                  [] u = "empty" -> OnError(a)
                  [] OTHER -> OnCallDiscarded(a, u = "rate")
<1>1. /\ Moved(a, b) /\ (u # "call" => (IsReady(b) => IsReady(a)))
      /\ u \in {"discarded", "rate"} => b.state = "Discarded"
  <2>1. CASE u = "requested"  BY <2>1, RequestedMoved
  <2>2. CASE u = "waiting"  BY <2>2, WaitingMoved
  <2>3. CASE u = "accepted"  BY <2>3, AcceptedMoved
  <2>4. CASE u = "call"  BY <2>4, ReadyMoved
  <2>6. CASE u = "empty"
    <3>1. b = OnError(a)  BY <2>6
    <3>2. Moved(a, OnError(a)) /\ Kept(a, OnError(a))  BY ErrorMoved
    <3> HIDE DEF b
    <3>. QED  BY <2>6, <3>1, <3>2 DEF Kept
  <2>5. CASE u \notin {"requested", "waiting", "accepted", "call", "empty"}
    <3> DEFINE c == OnCallDiscarded(a, u = "rate")
    <3>1. (u = "rate") \in BOOLEAN  OBVIOUS
    <3>2. Moved(a, c) /\ Kept(a, c) /\ c.state = "Discarded"  BY <3>1, DiscardedMoved
    <3>3. b = c  BY <2>5
    <3> HIDE DEF b, c
    <3>. QED  BY <3>2, <3>3 DEF Kept
  <2>. QED  BY <2>1, <2>2, <2>3, <2>4, <2>5, <2>6
<1>2. UpdateCall(a, u) = Loop(b)
  BY DEF UpdateCall
<1> HIDE DEF b
<1>3. Moved(b, Loop(b)) /\ Kept(b, Loop(b)) /\ Rested(Loop(b))
  BY <1>1, LoopMoved DEF Moved, Early
<1>4. b.state = "Discarded" => Loop(b).state \in Gone
  BY <1>3 DEF Moved, Gone, Early
<1>5. Moved(a, Loop(b))
  BY <1>1, <1>3, MovedTrans
<1>. QED  BY <1>1, <1>2, <1>3, <1>4, <1>5 DEF Kept

\* A key that fails its checks ends the call.
LEMMA KeyRefusedMoved ==
    ASSUME NEW a, Sound(a), NEW u, KeyChecked(a, u)
    PROVE  LET b == KeyRefused(a, u)
           IN  Moved(a, b) /\ Rested(b) /\ (IsReady(b) => IsReady(a)) /\ (u # "accepted" => Kept(a, b))
<1> DEFINE c == [a EXCEPT !.id = @ \/ u = "accepted", !.timer = @ /\ u # "call"]
           e == OnError(c)
           b == Loop(e)
<1>1. c \in Actors /\ c.ok = a.ok /\ c.state = a.state /\ c.id = (a.id \/ u = "accepted") /\ c.type = a.type
      /\ c.shown = a.shown /\ c.config = a.config /\ c.send = a.send /\ c.accepted = a.accepted /\ c.dh = a.dh
  BY DEF Sound, Actors
<1>2. KeyRefused(a, u) = b
  BY DEF KeyRefused
<1>3. a.state # "stopped"
  BY DEF KeyChecked
<1> HIDE DEF c
<1>4. Sound(c)
  BY <1>1 DEF Sound, Fits
<1>5. Moved(a, c) /\ (IsReady(c) => IsReady(a)) /\ (u # "accepted" => Kept(a, c))
  BY <1>1, <1>4, RankFacts DEF Sound, Actors, Moved, Early, Kept, IsReady
<1>6. Moved(c, e) /\ Kept(c, e)
  BY <1>1, <1>3, <1>4, ErrorMoved
<1> HIDE DEF e
<1>7. Moved(e, b) /\ Kept(e, b) /\ Rested(b)
  BY <1>6, LoopMoved DEF Moved
<1> HIDE DEF b
<1>8. Moved(a, e) /\ Moved(a, b)
  BY <1>5, <1>6, <1>7, MovedTrans
<1>9. Kept(c, b)
  BY <1>6, <1>7, KeptTrans
<1>. QED  BY <1>2, <1>5, <1>7, <1>8, <1>9 DEF Kept

LEMMA HandledMoved ==
    ASSUME NEW a, Sound(a), a.state # "stopped", NEW q, NEW r
    PROVE  LET b == Handled(a, q, r)
               good == r \notin {"error", "canceled"}
           IN  /\ Moved(a, b)
               /\ ~(q = "confirm" /\ good) => (IsReady(b) => IsReady(a))
               /\ ~(q \in {"request", "accept"} /\ good) => (b.id => a.id)
               /\ q = "dh" => b.dh = "ready" \/ b.state \in Dead
<1> DEFINE b == Handled(a, q, r)
           good == r \notin {"error", "canceled"}
<1>1. CASE ~good
  <2>1. b = OnError(a)
    BY <1>1 DEF Handled
  <2> HIDE DEF b
  <2>2. Moved(a, b) /\ Kept(a, b) /\ b.state \in Dead
    BY <2>1, ErrorMoved
  <2>. QED  BY <2>2 DEF Kept, b
<1>2. CASE good /\ q = "config"
  <2> DEFINE c == [a EXCEPT !.config = TRUE]
  <2>1. c \in Actors /\ c.ok = a.ok /\ c.state = a.state /\ c.id = a.id /\ c.type = a.type
        /\ c.shown = a.shown /\ c.config /\ c.send = a.send /\ c.accepted = a.accepted /\ c.dh = a.dh
    BY DEF Sound, Actors
  <2>2. b = c
    BY <1>2 DEF Handled
  <2> HIDE DEF b, c
  <2>3. Sound(c)
    BY <2>1 DEF Sound, Fits
  <2>4. Moved(a, c) /\ Kept(a, c)
    BY <2>1, <2>3, RankFacts DEF Sound, Actors, Moved, Kept, IsReady, Early
  <2>. QED  BY <1>2, <2>2, <2>4 DEF Kept, b
<1>3. CASE good /\ q = "dh"
  <2> DEFINE c == [a EXCEPT !.dh = "ready"]
  <2>1. c \in Actors /\ c.ok = a.ok /\ c.state = a.state /\ c.id = a.id /\ c.type = a.type
        /\ c.shown = a.shown /\ c.config = a.config /\ c.send = a.send /\ c.accepted = a.accepted
        /\ c.dh = "ready"
    BY DEF Sound, Actors
  <2>2. b = c
    BY <1>3 DEF Handled
  <2> HIDE DEF b, c
  <2>3. Sound(c)
    BY <2>1 DEF Sound, Fits
  <2>4. Moved(a, c) /\ Kept(a, c)
    BY <2>1, <2>3, RankFacts DEF Sound, Actors, Moved, Kept, IsReady, Early
  <2>. QED  BY <1>3, <2>1, <2>2, <2>4 DEF Kept, b
<1>4. CASE good /\ q \in {"request", "accept"}
  <2> DEFINE c == UpdateWaiting(a, FALSE)
  <2>1. Moved(a, c) /\ (IsReady(c) => IsReady(a))
    BY WaitingMoved
  <2>2. b = Loop(c)
    BY <1>4 DEF Handled
  <2> HIDE DEF b, c
  <2>3. Moved(c, b) /\ Kept(c, b)
    BY <2>1, <2>2, LoopMoved DEF Moved, Early
  <2>4. Moved(a, b)
    BY <2>1, <2>3, MovedTrans
  <2>. QED  BY <1>4, <2>1, <2>3, <2>4 DEF Kept, b
<1>5. CASE good /\ q = "confirm"
  <2> DEFINE c == UpdateCallReady(a)
  <2>1. Moved(a, c) /\ c.id = a.id
    BY ReadyMoved
  <2>2. b = Loop(c)
    BY <1>5 DEF Handled
  <2> HIDE DEF b, c
  <2>3. Moved(c, b) /\ Kept(c, b)
    BY <2>1, <2>2, LoopMoved DEF Moved, Early
  <2>4. Moved(a, b)
    BY <2>1, <2>3, MovedTrans
  <2>. QED  BY <1>5, <2>1, <2>3, <2>4 DEF Kept, b
<1>6. CASE good /\ q \notin {"config", "dh", "request", "accept", "confirm"}
  <2>1. b = a
    BY <1>6 DEF Handled
  <2>. QED  BY <1>6, <2>1, MovedRefl
<1>. QED  BY <1>1, <1>2, <1>3, <1>4, <1>5, <1>6

-----------------------------------------------------------------------------
(* The invariant of the call: what the actors, the queries on their way    *)
(* and the server know of each other (CallsOK), and what the updates on    *)
(* their way say (InboxOK).                                                *)

Nets == [Parties -> [Queries -> {"none", "sent", "abandoned", "failed", "done"} \cup Answers]]
Servers == {"none", "requested", "accepted", "confirmed", "discarded"}
Oks == {"ok", "waiting", "call"}

\* Both sides and the server have agreed on the call.
Agreed == server \in {"confirmed", "discarded"} /\ actor["callee"].accepted

\* The actor of a request that was refused inside loop.
Refused(b) ==
    "access" \in Failures /\ b.state = "SendDiscardQuery" /\ b.type = "Error" /\ b.dh = "ready"

ActorsOK ==
    /\ actor \in [Parties -> Actors] /\ net \in Nets /\ server \in Servers
    /\ \A p \in Parties :
         /\ Sound(actor[p]) /\ actor[p].send = {} /\ (Rested(actor[p]) \/ RefusedInLoop(p))
         /\ actor[p].state = "none" => actor[p] = NoActor

CallsOK ==
    /\ ActorsOK
    /\ \A p \in Parties :
         /\ actor[p].dh = "sent" /\ actor[p].state \notin Dead => net[p]["dh"] = "sent"
         /\ actor[p].state = "none" => \A q \in Queries : net[p][q] = "none"
         /\ actor[p].state \in Early => net[p]["request"] = "none"
         /\ \A q \in Queries : net[p][q] \in Oks => server # "none"
         /\ net[p]["discard"] # "none" => server # "none"
         /\ net[p]["confirm"] \in Oks => Agreed
         /\ actor[p].id => server # "none"
         /\ IsReady(actor[p]) => Agreed
    /\ net["callee"]["accept"] # "none" => actor["callee"].accepted
    /\ server \in {"accepted", "confirmed"} => actor["callee"].accepted
    /\ server # "none" => actor["caller"].state # "none"

EndMessages == {"discarded", "rate"}
HasEnd(p) == \E i \in 1 .. Len(inbox[p]) : inbox[p][i] \in EndMessages

InboxOK ==
    /\ inbox \in [Parties -> Seq(Updates)]
    /\ \A p \in Parties : \A i \in 1 .. Len(inbox[p]) : inbox[p][i] = "call" => Agreed
    /\ server = "none" => \A p \in Parties : inbox[p] = <<>>
    /\ server # "none" /\ actor["callee"].state = "none" =>
         Len(inbox["callee"]) > 0 /\ inbox["callee"][1] = "requested"
    /\ server = "discarded" => \A p \in Parties : actor[p].state \in Gone \/ HasEnd(p)

LEMMA NewMoved ==
    /\ Sound(NoActor) /\ Rested(NoActor)
    /\ \A p \in Parties : /\ Moved(NoActor, NewActor(p)) /\ Kept(NoActor, NewActor(p))
                          /\ NewActor(p).state = "Empty"
<1>1. Sound(NoActor)
  BY RankFacts DEF Sound, Actors, NoActor, States, Types, Fits, Dead, Discarding
<1>2. Rested(NoActor)
  BY DEF Rested, HasWork, NoActor, FlushCallState
<1>3. ASSUME NEW p \in Parties PROVE LET b == NewActor(p) IN Moved(NoActor, b) /\ Kept(NoActor, b) /\ b.state = "Empty"
  <2> DEFINE b == NewActor(p)
  <2>1. b \in Actors /\ b.ok /\ b.state = "Empty" /\ b.id = FALSE /\ b.type = "Empty" /\ b.shown = "Empty"
        /\ b.send \subseteq {"config"} /\ b.accepted = FALSE /\ b.dh # "sent"
    BY DEF NewActor, NoActor, Actors, States, Types, Queries
  <2>2. NoActor.accepted = FALSE /\ NoActor.send = {} /\ NoActor.shown = "Empty" /\ NoActor.state = "none"
    BY DEF NoActor
  <2> HIDE DEF b
  <2>3. Sound(b)
    BY <2>1, RankFacts DEF Sound, Fits, Dead, Discarding
  <2>4. Moved(NoActor, b) /\ Kept(NoActor, b)
    BY <2>1, <2>2, <2>3, RankFacts DEF Moved, Kept, IsReady, Dead, Discarding, Gone, Early
  <2>. QED  BY <2>1, <2>4 DEF b
<1>. QED  BY <1>1, <1>2, <1>3

\* What is sent is on its way: the actor that rests is the same but for that.
LEMMA SentRests ==
    ASSUME NEW a, Sound(a)
    PROVE  LET b == [a EXCEPT !.send = {}]
           IN  /\ Sound(b) /\ (Rested(a) => Rested(b)) /\ b.send = {} /\ b.state = a.state /\ b.accepted = a.accepted
               /\ b.id = a.id /\ b.dh = a.dh /\ b.type = a.type /\ b.shown = a.shown
<1> DEFINE b == [a EXCEPT !.send = {}]
<1>1. b \in Actors /\ b.ok = a.ok /\ b.state = a.state /\ b.id = a.id /\ b.type = a.type /\ b.flush = a.flush
      /\ b.shown = a.shown /\ b.config = a.config /\ b.send = {} /\ b.accepted = a.accepted /\ b.dh = a.dh
      /\ b.yield = a.yield /\ b.rating = a.rating
  BY DEF Sound, Actors
<1> HIDE DEF b
<1>2. Sound(b)
  BY <1>1 DEF Sound, Fits
<1>3. FlushCallState(a) = a <=> FlushCallState(b) = b
  <2>1. FlushCallState(a) = a <=> ~a.flush \/ (a.type = "Ready" /\ ~a.config)
    BY FlushedBy DEF FlushCallState
  <2>2. FlushCallState(b) = b <=> ~b.flush \/ (b.type = "Ready" /\ ~b.config)
    BY <1>2, FlushedBy DEF FlushCallState
  <2>. QED  BY <1>1, <2>1, <2>2
<1>4. Rested(a) => Rested(b)
  BY <1>1, <1>3 DEF Rested, HasWork, Waits
<1>. QED  BY <1>1, <1>2, <1>4 DEF b

LEMMA BecameNet ==
    ASSUME net \in Nets, NEW p \in Parties, NEW b, NEW qs, Became(p, b, qs)
    PROVE  /\ net' \in Nets
           /\ \A x \in Parties, q \in Queries : x # p => net'[x][q] = net[x][q]
           /\ \A q \in Queries :
                 /\ net'[p][q] = net[p][q] \/ net'[p][q] \notin Oks
                 /\ q \in b.send => net'[p][q] = "sent"
                 /\ q \notin b.send \cup qs \cup {"config", "dh"} => (net'[p][q] = "none" <=> net[p][q] = "none")
                 /\ q \notin b.send \cup qs \cup {"request"} /\ b.state # "stopped" => net'[p][q] = net[p][q]
<1> DEFINE new(q) == IF q \in b.send THEN "sent"
                     ELSE IF \/ q \in qs
                             \/ b.state = "stopped" /\ (q \in {"config", "dh"} \/ net[p][q] \in Answers \ {"canceled"})
                     THEN Answered(net[p][q])
                     ELSE IF q = "request" /\ net[p][q] = "sent" /\ b.state \in Discarding THEN "canceled"
                     ELSE net[p][q]
<1>1. net' = [net EXCEPT ![p] = [q \in Queries |-> new(q)]]
  BY DEF Became
<1>2. \A r : Answered(r) \in {"failed", "abandoned", "done"}
  BY DEF Answered
<1>3. ASSUME NEW q \in Queries
      PROVE  /\ new(q) \in {"none", "sent", "abandoned", "failed", "done"} \cup Answers
             /\ new(q) = net[p][q] \/ new(q) \notin Oks
             /\ q \in b.send => new(q) = "sent"
             /\ q \notin b.send \cup qs \cup {"config", "dh"} => (new(q) = "none" <=> net[p][q] = "none")
             /\ q \notin b.send \cup qs \cup {"request"} /\ b.state # "stopped" => new(q) = net[p][q]
  BY <1>2 DEF Nets, Answers, Oks
<1> HIDE DEF new
<1>4. \A q \in Queries : net'[p][q] = new(q)
  BY <1>1 DEF Nets
<1>5. \A x \in Parties, q \in Queries : x # p => net'[x][q] = net[x][q]
  BY <1>1 DEF Nets
<1>6. net' \in Nets
  BY <1>1, <1>3 DEF Nets
<1>. QED  BY <1>3, <1>4, <1>5, <1>6

LEMMA BecameActor ==
    ASSUME ActorsOK, NEW p \in Parties, NEW b, NEW qs, Became(p, b, qs), Moved(actor[p], b)
    PROVE  /\ actor' \in [Parties -> Actors]
           /\ \A x \in Parties : x # p => actor'[x] = actor[x]
           /\ Sound(actor'[p]) /\ (Rested(b) => Rested(actor'[p])) /\ actor'[p].send = {}
           /\ actor'[p].state = b.state /\ actor'[p].accepted = b.accepted
           /\ actor'[p].id = b.id /\ actor'[p].dh = b.dh /\ actor'[p].type = b.type /\ actor'[p].shown = b.shown
<1> DEFINE c == [b EXCEPT !.send = {}]
<1>1. actor' = [actor EXCEPT ![p] = c]
  BY DEF Became
<1>2. Sound(b)
  BY DEF Moved, Early
<1>3. Sound(c) /\ (Rested(b) => Rested(c)) /\ c.send = {} /\ c.state = b.state /\ c.accepted = b.accepted
      /\ c.id = b.id /\ c.dh = b.dh /\ c.type = b.type /\ c.shown = b.shown
  BY <1>2, SentRests
<1> HIDE DEF c
<1>4. c \in Actors
  BY <1>3 DEF Sound
<1>. QED  BY <1>1, <1>3, <1>4 DEF ActorsOK

\* What an actor's step needs to keep CallsOK, besides Moved: an id and a ready call come from
\* the server.
LEMMA BecameKeeps ==
    ASSUME CallsOK, NEW p \in Parties, NEW b, NEW qs, Became(p, b, qs), server' = server,
           Moved(actor[p], b), b.state # "none",
           Rested(b) \/ (Refused(b) /\ actor[p].state = "SendRequestQuery" /\ b.send = {} /\ qs = {}),
           b.id => actor[p].id \/ server # "none",
           IsReady(b) => IsReady(actor[p]) \/ Agreed,
           \A q \in qs : q \in Queries /\ net[p][q] # "none",
           "dh" \in qs => b.dh # "sent" \/ b.state \in Dead
    PROVE  CallsOK' /\ (Agreed => Agreed') /\ (\A x \in Parties : actor[x].state \in Gone => actor'[x].state \in Gone)
           /\ (actor'["callee"].state = "none" => actor["callee"].state = "none")
           /\ (\A x \in Parties : Rank(actor[x].shown) <= Rank(actor'[x].shown))
<1>1. ActorsOK /\ net \in Nets
  BY DEF CallsOK, ActorsOK
<1>2. /\ net' \in Nets
      /\ \A x \in Parties, q \in Queries : x # p => net'[x][q] = net[x][q]
      /\ \A q \in Queries :
            /\ net'[p][q] = net[p][q] \/ net'[p][q] \notin Oks
            /\ q \in b.send => net'[p][q] = "sent"
            /\ q \notin b.send \cup qs \cup {"config", "dh"} => (net'[p][q] = "none" <=> net[p][q] = "none")
            /\ q \notin b.send \cup qs \cup {"request"} /\ b.state # "stopped" => net'[p][q] = net[p][q]
  BY <1>1, BecameNet
<1>3. /\ actor' \in [Parties -> Actors]
      /\ \A x \in Parties : x # p => actor'[x] = actor[x]
      /\ Sound(actor'[p]) /\ (Rested(b) => Rested(actor'[p])) /\ actor'[p].send = {}
      /\ actor'[p].state = b.state /\ actor'[p].accepted = b.accepted
      /\ actor'[p].id = b.id /\ actor'[p].dh = b.dh /\ actor'[p].type = b.type /\ actor'[p].shown = b.shown
  BY <1>1, BecameActor
<1>4. ActorsOK'
  <2>1. ASSUME NEW x \in Parties PROVE (Rested(actor[x]) \/ RefusedInLoop(x))'
    <3>1. CASE x # p
      <4>1. actor'[x] = actor[x] /\ net'[x]["request"] = net[x]["request"]
        BY <1>2, <1>3, <3>1 DEF Queries
      <4>. QED  BY <1>1, <4>1 DEF ActorsOK, RefusedInLoop
    <3>2. CASE x = p /\ Rested(b)
      BY <1>3, <3>2
    <3>3. CASE x = p /\ Refused(b) /\ actor[p].state = "SendRequestQuery" /\ b.send = {} /\ qs = {}
      <4>1. net[p]["request"] = "none"
        BY <3>3 DEF CallsOK, Early
      <4>2. net'[p]["request"] = "none"
        BY <1>2, <3>3, <4>1 DEF Queries
      <4>. QED  BY <1>3, <3>3, <4>2 DEF Refused, RefusedInLoop
    <3>. QED  BY <3>1, <3>2, <3>3
  <2>2. ASSUME NEW x \in Parties
        PROVE  Sound(actor'[x]) /\ actor'[x].send = {} /\ (actor'[x].state = "none" => actor'[x] = NoActor)
    BY <1>1, <1>3 DEF ActorsOK
  <2>. QED  BY <1>1, <1>2, <1>3, <2>1, <2>2 DEF ActorsOK
<1>5. Agreed => Agreed'
  BY <1>3 DEF Agreed, Moved, Parties, Early
<1>6. ASSUME NEW x \in Parties
      PROVE  /\ actor'[x].dh = "sent" /\ actor'[x].state \notin Dead => net'[x]["dh"] = "sent"
             /\ actor'[x].state = "none" => \A q \in Queries : net'[x][q] = "none"
             /\ actor'[x].state \in Early => net'[x]["request"] = "none"
             /\ \A q \in Queries : net'[x][q] \in Oks => server' # "none"
             /\ net'[x]["discard"] # "none" => server' # "none"
             /\ net'[x]["confirm"] \in Oks => Agreed'
             /\ actor'[x].id => server' # "none"
             /\ IsReady(actor'[x]) => Agreed'
  <2>1. CASE x # p
    BY <1>2, <1>3, <1>5, <2>1 DEF CallsOK, Queries
  <2>2. CASE x = p
    <3>1. actor'[p].dh = "sent" /\ actor'[p].state \notin Dead => net'[p]["dh"] = "sent"
      <4> SUFFICES ASSUME b.dh = "sent", b.state \notin Dead PROVE net'[p]["dh"] = "sent"
        BY <1>3
      <4>1. CASE "dh" \in b.send
        BY <1>2, <4>1 DEF Queries
      <4>2. CASE "dh" \notin b.send
        <5>1. actor[p].dh = "sent" /\ actor[p].state \notin Dead /\ b.state # "stopped" /\ "dh" \notin qs
          BY <4>2 DEF Moved, Dead, Early
        <5>2. net[p]["dh"] = "sent"
          BY <5>1 DEF CallsOK
        <5>. QED  BY <1>2, <4>2, <5>1, <5>2 DEF Queries
      <4>. QED  BY <4>1, <4>2
    <3>2. \A q \in Queries : net'[p][q] \in Oks => server' # "none"
      BY <1>2 DEF CallsOK
    <3>3. net'[p]["discard"] # "none" => server' # "none"
      <4>1. CASE "discard" \in b.send
        BY <4>1 DEF Moved, Sound, CallsOK, Early
      <4>2. CASE "discard" \notin b.send
        BY <1>2, <4>2 DEF CallsOK, Queries
      <4>. QED  BY <4>1, <4>2
    <3>4. net'[p]["confirm"] \in Oks => Agreed'
      BY <1>2, <1>5 DEF CallsOK, Queries
    <3>5. actor'[p].id => server' # "none"
      BY <1>3 DEF CallsOK
    <3>6. IsReady(actor'[p]) => Agreed'
      BY <1>3, <1>5 DEF CallsOK, IsReady
    <3>7. actor'[p].state \in Early => net'[p]["request"] = "none"
      <4> SUFFICES ASSUME b.state \in Early PROVE net'[p]["request"] = "none"
        BY <1>3
      <4>1. actor[p].state \in Early /\ actor[p].send = {} /\ "request" \notin b.send
        BY <1>1 DEF Moved, ActorsOK
      <4>2. net[p]["request"] = "none"
        BY <4>1 DEF CallsOK
      <4>3. "request" \notin qs
        BY <4>2
      <4>. QED  BY <1>2, <4>1, <4>2, <4>3 DEF Queries
    <3>. QED  BY <1>3, <2>2, <3>1, <3>2, <3>3, <3>4, <3>5, <3>6, <3>7
  <2>. QED  BY <2>1, <2>2
<1>7. net'["callee"]["accept"] # "none" => actor'["callee"].accepted
  <2>1. CASE p = "callee" /\ "accept" \in b.send
    BY <1>3, <2>1 DEF Moved, Sound, Early
  <2>2. CASE p = "callee" /\ "accept" \notin b.send
    BY <1>2, <1>3, <2>2 DEF CallsOK, Moved, Queries, Early
  <2>3. CASE p # "callee"
    BY <1>2, <1>3, <2>3 DEF CallsOK, Queries, Parties
  <2>. QED  BY <2>1, <2>2, <2>3
<1>8. server' \in {"accepted", "confirmed"} => actor'["callee"].accepted
  BY <1>3 DEF CallsOK, Moved, Parties, Early
<1>9. server' # "none" => actor'["caller"].state # "none"
  BY <1>3 DEF CallsOK, Parties
<1>10. CallsOK'
  BY <1>4, <1>6, <1>7, <1>8, <1>9 DEF CallsOK
<1>11. \A x \in Parties : actor[x].state \in Gone => actor'[x].state \in Gone
  BY <1>3 DEF Moved, Early
<1>12. actor'["callee"].state = "none" => actor["callee"].state = "none"
  BY <1>3 DEF Parties
<1>13. ASSUME NEW x \in Parties PROVE Rank(actor[x].shown) <= Rank(actor'[x].shown)
  <2>1. CASE x = p
    BY <1>3, <2>1 DEF Moved, Early
  <2>2. CASE x # p
    BY <1>1, <1>3, <2>2, RankFacts DEF ActorsOK, Sound, Actors
  <2>. QED  BY <2>1, <2>2
<1>. QED  BY <1>5, <1>10, <1>11, <1>12, <1>13

CallInv == CallsOK /\ InboxOK
Forward == \A p \in Parties : Rank(actor[p].shown) <= Rank(actor'[p].shown)

LEMMA ActorSound == ASSUME CallInv, NEW p \in Parties PROVE Sound(actor[p])
BY DEF CallInv, CallsOK, ActorsOK

\* A step of an actor that takes no update.
LEMMA ActorStep ==
    ASSUME CallInv, NEW p \in Parties, NEW b, NEW qs, Became(p, b, qs), UNCHANGED <<inbox, server>>,
           Moved(actor[p], b), b.state # "none",
           Rested(b) \/ (Refused(b) /\ actor[p].state = "SendRequestQuery" /\ b.send = {} /\ qs = {}),
           b.id => actor[p].id \/ server # "none",
           IsReady(b) => IsReady(actor[p]) \/ Agreed,
           \A q \in qs : q \in Queries /\ net[p][q] # "none",
           "dh" \in qs => b.dh # "sent" \/ b.state \in Dead
    PROVE  CallInv' /\ Forward
<1>1. CallsOK' /\ (Agreed => Agreed') /\ (\A x \in Parties : actor[x].state \in Gone => actor'[x].state \in Gone)
      /\ (actor'["callee"].state = "none" => actor["callee"].state = "none")
      /\ (\A x \in Parties : Rank(actor[x].shown) <= Rank(actor'[x].shown))
  BY BecameKeeps DEF CallInv
<1>2. InboxOK'
  BY <1>1 DEF CallInv, InboxOK, HasEnd, EndMessages
<1>. QED  BY <1>1, <1>2 DEF CallInv, Forward

\* A step of an actor on its own keeps its id and its readiness.
LEMMA OwnStep ==
    ASSUME CallInv, NEW p \in Parties, NEW c, Moved(actor[p], c), Kept(actor[p], c), c.state # "none",
           Became(p, Loop(c), {}), UNCHANGED <<inbox, server>>
    PROVE  CallInv' /\ Forward
<1> DEFINE b == Loop(c)
<1>1. Sound(actor[p])
  BY ActorSound
<1>2. Moved(c, b) /\ Kept(c, b) /\ Rested(b)
  BY LoopMoved DEF Moved, Early
<1> HIDE DEF b
<1>3. Moved(actor[p], b) /\ Kept(actor[p], b) /\ b.state # "none"
  BY <1>1, <1>2, MovedTrans, KeptTrans DEF Moved, Early
<1>4. Became(p, b, {})
  BY DEF b
<1>. QED  BY <1>2, <1>3, <1>4, ActorStep DEF Kept

LEMMA CreateStep == ASSUME CallInv, CreateCall PROVE CallInv' /\ Forward
<1> DEFINE n == NewActor("caller")
           c == [n EXCEPT !.state = "SendRequestQuery", !.type = "Pending", !.flush = TRUE]
<1>1. "caller" \in Parties /\ actor["caller"] = NoActor
  BY DEF CreateCall, Parties
<1>2. Moved(NoActor, n) /\ Kept(NoActor, n) /\ n.state = "Empty"
  BY <1>1, NewMoved
<1>3. Sound(n)
  BY <1>2 DEF Moved, Early
<1>4. Became("caller", Loop(c), {}) /\ UNCHANGED <<inbox, server>>
  BY DEF CreateCall
<1> HIDE DEF n
<1>5. c \in Actors /\ c.ok = n.ok /\ c.state = "SendRequestQuery" /\ c.id = n.id /\ c.type = "Pending"
      /\ c.shown = n.shown /\ c.config = n.config /\ c.send = n.send /\ c.accepted = n.accepted /\ c.dh = n.dh
  BY <1>3 DEF Sound, Actors, States, Types
<1> HIDE DEF c
<1>6. Rank(c.type) = 1 /\ Rank(n.type) = 0 /\ Rank(n.shown) \in 0 .. 4
  BY <1>2, <1>3, <1>5, RankFacts DEF Sound, Actors, Fits
<1>7. Sound(c)
  BY <1>3, <1>5, <1>6 DEF Sound, Fits, Dead, Discarding
<1>8. Moved(n, c) /\ Kept(n, c)
  BY <1>2, <1>5, <1>6, <1>7 DEF Moved, Kept, IsReady, Dead, Discarding, Gone, Early
<1>9. Moved(NoActor, c) /\ Kept(NoActor, c)
  BY <1>2, <1>8, NewMoved, MovedTrans, KeptTrans
<1>. QED  BY <1>1, <1>4, <1>5, <1>9, OwnStep

LEMMA AcceptStep == ASSUME CallInv, AcceptCall PROVE CallInv' /\ Forward
<1> DEFINE a == actor["callee"]
           c == [a EXCEPT !.accepted = TRUE]
<1>1. "callee" \in Parties /\ Sound(a) /\ a.state = "SendAcceptQuery"
  BY ActorSound DEF AcceptCall, Parties
<1>2. Became("callee", Loop(c), {}) /\ UNCHANGED <<inbox, server>>
  BY DEF AcceptCall
<1> HIDE DEF a
<1>3. c \in Actors /\ c.ok = a.ok /\ c.state = a.state /\ c.id = a.id /\ c.type = a.type
      /\ c.shown = a.shown /\ c.config = a.config /\ c.send = a.send /\ c.accepted /\ c.dh = a.dh
  BY <1>1 DEF Sound, Actors
<1> HIDE DEF c
<1>4. Sound(c)
  BY <1>1, <1>3 DEF Sound, Fits
<1>5. Moved(a, c) /\ Kept(a, c)
  BY <1>1, <1>3, <1>4, RankFacts DEF Sound, Actors, Moved, Kept, IsReady, Early
<1>. QED  BY <1>1, <1>2, <1>3, <1>5, OwnStep DEF a

LEMMA DiscardStep == ASSUME CallInv, NEW p \in Parties, DiscardCall(p) PROVE CallInv' /\ Forward
<1> DEFINE a == actor[p]
           good == a.ok /\ a.type \notin Ended
           c == [a EXCEPT !.type = "HangingUp", !.flush = TRUE, !.ok = good, !.state = "SendDiscardQuery"]
<1>1. Sound(a) /\ a.state \notin Dead
  BY ActorSound DEF DiscardCall, Alive, Dead
<1>2. good = TRUE
  BY <1>1, EndedIsDead DEF Sound, Actors
<1>3. Became(p, Loop(c), {}) /\ UNCHANGED <<inbox, server>>
  BY DEF DiscardCall
<1> HIDE DEF a, good
<1>4. c \in Actors /\ c.ok /\ c.state = "SendDiscardQuery" /\ c.id = a.id /\ c.type = "HangingUp"
      /\ c.shown = a.shown /\ c.config = a.config /\ c.send = a.send /\ c.accepted = a.accepted /\ c.dh = a.dh
  BY <1>1, <1>2 DEF Sound, Actors, States, Types
<1> HIDE DEF c
<1>5. Rank(c.type) = 4 /\ Rank(a.shown) \in 0 .. 4
  BY <1>1, <1>4, RankFacts DEF Sound, Actors, Ended
<1>6. Sound(c)
  BY <1>1, <1>4, <1>5 DEF Sound, Fits, Ended
<1>7. Moved(a, c) /\ Kept(a, c)
  BY <1>1, <1>4, <1>5, <1>6 DEF Moved, Kept, IsReady, Dead, Gone, Discarding, Early
<1>. QED  BY <1>3, <1>4, <1>7, OwnStep DEF a

LEMMA RateStep == ASSUME CallInv, NEW p \in Parties, RateCall(p) PROVE CallInv' /\ Forward
<1> DEFINE a == actor[p]
           c == [a EXCEPT !.rating = FALSE, !.flush = TRUE]
<1>1. Sound(a) /\ a.state # "none"
  BY ActorSound DEF RateCall, Alive
<1>2. Became(p, Loop(c), {}) /\ UNCHANGED <<inbox, server>>
  BY DEF RateCall
<1> HIDE DEF a
<1>3. c \in Actors /\ c.ok = a.ok /\ c.state = a.state /\ c.id = a.id /\ c.type = a.type
      /\ c.shown = a.shown /\ c.config = a.config /\ c.send = a.send /\ c.accepted = a.accepted /\ c.dh = a.dh
  BY <1>1 DEF Sound, Actors
<1> HIDE DEF c
<1>4. Sound(c)
  BY <1>1, <1>3 DEF Sound, Fits
<1>5. Moved(a, c) /\ Kept(a, c)
  BY <1>1, <1>3, <1>4, RankFacts DEF Sound, Actors, Moved, Kept, IsReady, Early
<1>. QED  BY <1>1, <1>2, <1>3, <1>5, OwnStep DEF a

LEMMA YieldedStep == ASSUME CallInv, NEW p \in Parties, Yielded(p) PROVE CallInv' /\ Forward
<1> DEFINE a == actor[p]
           c == [a EXCEPT !.yield = FALSE]
<1>1. Sound(a) /\ a.state # "none"
  BY ActorSound DEF Yielded, Alive
<1>2. Became(p, Loop(c), {}) /\ UNCHANGED <<inbox, server>>
  BY DEF Yielded
<1> HIDE DEF a
<1>3. c \in Actors /\ c.ok = a.ok /\ c.state = a.state /\ c.id = a.id /\ c.type = a.type
      /\ c.shown = a.shown /\ c.config = a.config /\ c.send = a.send /\ c.accepted = a.accepted /\ c.dh = a.dh
  BY <1>1 DEF Sound, Actors
<1> HIDE DEF c
<1>4. Sound(c)
  BY <1>1, <1>3 DEF Sound, Fits
<1>5. Moved(a, c) /\ Kept(a, c)
  BY <1>1, <1>3, <1>4, RankFacts DEF Sound, Actors, Moved, Kept, IsReady, Early
<1>. QED  BY <1>1, <1>2, <1>3, <1>5, OwnStep DEF a

LEMMA TimeoutStep == ASSUME CallInv, NEW p \in Parties, TimeoutExpired(p) PROVE CallInv' /\ Forward
<1> DEFINE a == actor[p]
           c == [a EXCEPT !.timer = FALSE]
           e == OnError(c)
           b == Yield(e)
<1>1. Sound(a) /\ a.state \notin {"none", "stopped"}
  BY ActorSound DEF TimeoutExpired, Alive
<1>2. Became(p, b, {}) /\ UNCHANGED <<inbox, server>>
  BY DEF TimeoutExpired
<1> HIDE DEF a
<1>3. c \in Actors /\ c.ok = a.ok /\ c.state = a.state /\ c.id = a.id /\ c.type = a.type
      /\ c.shown = a.shown /\ c.config = a.config /\ c.send = a.send /\ c.accepted = a.accepted /\ c.dh = a.dh
  BY <1>1 DEF Sound, Actors
<1> HIDE DEF c
<1>4. Sound(c)
  BY <1>1, <1>3 DEF Sound, Fits
<1>5. Moved(a, c) /\ Kept(a, c)
  BY <1>1, <1>3, <1>4, RankFacts DEF Sound, Actors, Moved, Kept, IsReady, Early
<1>6. Moved(c, e) /\ Kept(c, e)
  BY <1>1, <1>3, <1>4, ErrorMoved
<1> HIDE DEF e
<1>7. Moved(e, b) /\ Kept(e, b) /\ b.yield
  BY <1>6, YieldMoved DEF Moved, Early
<1> HIDE DEF b
<1>8. Moved(a, e) /\ Kept(a, e)
  BY <1>1, <1>5, <1>6, MovedTrans, KeptTrans
<1>9. Moved(a, b) /\ Kept(a, b)
  BY <1>1, <1>7, <1>8, MovedTrans, KeptTrans
<1>10. Rested(b) /\ b.state # "none"
  BY <1>1, <1>7, <1>9 DEF Rested, Moved, Early
<1>. QED  BY <1>2, <1>9, <1>10, ActorStep DEF Kept, a

\* get_input_user fails inside loop: the one step that leaves work and wakes nobody.
LEMMA RefusedStep == ASSUME CallInv, NEW p \in Parties, RequestRefused(p) PROVE CallInv' /\ Forward
<1> DEFINE a == actor[p]
           c == [a EXCEPT !.yield = FALSE]
           f == FlushCallState(c)
           b == OnError(f)
<1>1. Sound(a) /\ a.state = "SendRequestQuery" /\ a.dh = "ready" /\ a.send = {} /\ "access" \in Failures
  BY ActorSound DEF RequestRefused, CallInv, CallsOK, ActorsOK
<1>2. Became(p, b, {}) /\ UNCHANGED <<inbox, server>>
  BY DEF RequestRefused
<1> HIDE DEF a
<1>3. c \in Actors /\ c.ok = a.ok /\ c.state = a.state /\ c.id = a.id /\ c.type = a.type
      /\ c.shown = a.shown /\ c.config = a.config /\ c.send = a.send /\ c.accepted = a.accepted /\ c.dh = a.dh
  BY <1>1 DEF Sound, Actors
<1> HIDE DEF c
<1>4. Sound(c)
  BY <1>1, <1>3 DEF Sound, Fits
<1>5. Moved(a, c) /\ Kept(a, c)
  BY <1>1, <1>3, <1>4, RankFacts DEF Sound, Actors, Moved, Kept, IsReady, Early
<1>6. Moved(c, f) /\ Kept(c, f)
  BY <1>4, FlushMoved
<1>7. f.state = "SendRequestQuery" /\ f.send = {} /\ f.dh = "ready"
  BY <1>1, <1>3 DEF FlushCallState, Actors
<1> HIDE DEF f
<1>8. Moved(f, b) /\ Kept(f, b)
  BY <1>6, <1>7, ErrorMoved DEF Moved
<1>9. b.state = "SendDiscardQuery" /\ b.type = "Error" /\ b.send = {} /\ b.dh = "ready"
  BY <1>6, <1>7 DEF OnError, Moved, Sound, Actors
<1> HIDE DEF b
<1>10. Moved(a, f) /\ Kept(a, f)
  BY <1>1, <1>5, <1>6, MovedTrans, KeptTrans
<1>11. Moved(a, b) /\ Kept(a, b)
  BY <1>1, <1>8, <1>10, MovedTrans, KeptTrans
<1>12. Refused(b)
  BY <1>1, <1>9 DEF Refused
<1>. QED  BY <1>1, <1>2, <1>9, <1>11, <1>12, ActorStep DEF Kept, a

\* What the handler of an answer makes of the actor, then yield.
LEMMA YieldStep ==
    ASSUME CallInv, NEW p \in Parties, NEW q \in Queries, NEW c, Moved(actor[p], c),
           actor[p].state # "none", net[p][q] # "none",
           Became(p, Yield(c), {q}), UNCHANGED <<inbox, server>>,
           IsReady(c) => IsReady(actor[p]) \/ Agreed,
           c.id => actor[p].id \/ server # "none",
           q = "dh" => c.dh = "ready" \/ c.state \in Dead
    PROVE  CallInv' /\ Forward
<1> DEFINE b == Yield(c)
<1>1. Moved(c, b) /\ Kept(c, b) /\ b.yield /\ b.state = c.state /\ b.dh = c.dh
  BY YieldMoved DEF Moved
<1>2. Became(p, b, {q})
  OBVIOUS
<1> HIDE DEF b
<1>3. Sound(actor[p])
  BY ActorSound
<1>4. Moved(actor[p], b)
  BY <1>1, <1>3, MovedTrans
<1>5. Rested(b) /\ b.state # "none"
  BY <1>1, <1>4 DEF Rested, Moved
<1>6. b.id => actor[p].id \/ server # "none"
  BY <1>1 DEF Kept
<1>7. IsReady(b) => IsReady(actor[p]) \/ Agreed
  BY <1>1 DEF Kept
<1>8. q = "dh" => b.dh # "sent" \/ b.state \in Dead
  BY <1>1
<1>. QED  BY <1>2, <1>4, <1>5, <1>6, <1>7, <1>8, ActorStep

LEMMA ResultStep ==
    ASSUME CallInv, NEW p \in Parties, NEW q \in Queries, OnResult(p, q) PROVE CallInv' /\ Forward
<1> DEFINE a == actor[p]
<1>1. Sound(a) /\ a.state \notin {"none", "stopped"}
  BY ActorSound DEF OnResult, Alive
<1>2. PICK r \in Results(p, q) :
          /\ \/ Became(p, Yield(Handled(a, q, r)), {q})
             \/ /\ q = "confirm" /\ r = "call" /\ KeyChecked(a, "call")
                /\ Became(p, Yield(KeyRefused(a, "call")), {q})
          /\ UNCHANGED <<inbox, server>>
  BY DEF OnResult
<1>3. net[p][q] # "none" /\ (q \notin {"config", "dh"} => r = net[p][q] /\ r \in Answers)
  BY DEF Results, Answers
<1>4. q \notin {"config", "dh"} /\ r \notin {"error", "canceled"} => net[p][q] \in Oks
  BY <1>3 DEF Answers, Oks
<1> HIDE DEF a
<1>5. CASE Became(p, Yield(Handled(a, q, r)), {q})
  <2> DEFINE c == Handled(a, q, r)
             good == r \notin {"error", "canceled"}
  <2>1. /\ Moved(a, c)
        /\ ~(q = "confirm" /\ good) => (IsReady(c) => IsReady(a))
        /\ ~(q \in {"request", "accept"} /\ good) => (c.id => a.id)
        /\ q = "dh" => c.dh = "ready" \/ c.state \in Dead
    BY <1>1, HandledMoved
  <2>2. Became(p, Yield(c), {q})
    BY <1>5
  <2> HIDE DEF c
  <2>3. c.id => a.id \/ server # "none"
    BY <1>4, <2>1 DEF CallInv, CallsOK
  <2>4. IsReady(c) => IsReady(a) \/ Agreed
    BY <1>4, <2>1 DEF CallInv, CallsOK
  <2>. QED  BY <1>1, <1>2, <1>3, <2>1, <2>2, <2>3, <2>4, YieldStep DEF a
<1>6. CASE q = "confirm" /\ KeyChecked(a, "call") /\ Became(p, Yield(KeyRefused(a, "call")), {q})
  <2> DEFINE c == KeyRefused(a, "call")
  <2>1. Moved(a, c) /\ Kept(a, c)
    BY <1>1, <1>6, KeyRefusedMoved
  <2>2. Became(p, Yield(c), {q})
    BY <1>6
  <2> HIDE DEF c
  <2>. QED  BY <1>1, <1>2, <1>3, <1>6, <2>1, <2>2, YieldStep DEF a, Kept
<1>. QED  BY <1>2, <1>5, <1>6

\* An update that is taken: what it says is true, and after the last of them the actor is gone.
LEMMA UpdateStep ==
    ASSUME CallInv, NEW p \in Parties, ReceiveUpdate(p)
    PROVE  CallInv' /\ Forward
<1> DEFINE s == inbox[p]
           u == Head(s)
           t == Tail(s)
           a == IF p = "callee" /\ u = "requested" /\ actor[p] = NoActor THEN NewActor(p) ELSE actor[p]
           bs == {UpdateCall(a, u)} \cup (IF a.id /\ KeyChecked(a, u) THEN {KeyRefused(a, u)} ELSE {})
<1>1. inbox \in [Parties -> Seq(Updates)] /\ s \in Seq(Updates) /\ s # <<>>
  BY DEF CallInv, InboxOK, ReceiveUpdate
<1>2. /\ inbox' = [inbox EXCEPT ![p] = t] /\ server' = server
      /\ \/ Alive(a) /\ \E b \in bs : Became(p, b, {})
         \/ ~Alive(a) /\ UNCHANGED <<actor, net>>
  BY DEF ReceiveUpdate, KeyChecked, Alive
<1>3. /\ Len(s) \in Nat /\ Len(s) >= 1 /\ u = s[1] /\ t \in Seq(Updates) /\ Len(t) = Len(s) - 1
      /\ \A i \in 1 .. Len(t) : t[i] = s[i + 1]
  BY <1>1
<1> HIDE DEF t, u, bs
<1>4. inbox'[p] = t /\ (\A x \in Parties : x # p => inbox'[x] = inbox[x]) /\ inbox' \in [Parties -> Seq(Updates)]
  BY <1>1, <1>2, <1>3
<1>5. server # "none"
  BY <1>1 DEF CallInv, InboxOK
<1>6. u = "call" => Agreed
  <2>1. 1 \in 1 .. Len(s)
    BY <1>3
  <2>. QED  BY <1>3, <2>1 DEF CallInv, InboxOK
<1>7. Sound(actor[p])
  BY ActorSound
<1>8. Moved(actor[p], a) /\ Kept(actor[p], a)
  <2>1. CASE p = "callee" /\ u = "requested" /\ actor[p] = NoActor
    BY <2>1, NewMoved
  <2>2. CASE ~(p = "callee" /\ u = "requested" /\ actor[p] = NoActor)
    BY <1>7, <2>2, MovedRefl
  <2>. QED  BY <2>1, <2>2
<1>9. \A x \in Parties : HasEnd(x) => HasEnd(x)' \/ (x = p /\ u \in EndMessages)
  <2> SUFFICES ASSUME NEW i \in 1 .. Len(s), s[i] \in EndMessages, i # 1
               PROVE  HasEnd(p)'
    BY <1>3, <1>4 DEF HasEnd
  <2>1. i - 1 \in 1 .. Len(t) /\ t[i - 1] = s[i]
    BY <1>3
  <2>. QED  BY <1>4, <2>1 DEF HasEnd, EndMessages
<1>10. \A x \in Parties : \A i \in 1 .. Len(inbox'[x]) : inbox'[x][i] = "call" => Agreed
  <2> SUFFICES ASSUME NEW x \in Parties, NEW i \in 1 .. Len(inbox'[x]), inbox'[x][i] = "call"
               PROVE  Agreed
    OBVIOUS
  <2>1. CASE x = p
    <3>1. i + 1 \in 1 .. Len(s) /\ s[i + 1] = "call"
      BY <1>3, <1>4, <2>1
    <3>. QED  BY <3>1 DEF CallInv, InboxOK
  <2>2. CASE x # p
    BY <1>4, <2>2 DEF CallInv, InboxOK
  <2>. QED  BY <2>1, <2>2
<1>11. ASSUME Alive(a), NEW b \in bs, Became(p, b, {}) PROVE CallInv' /\ Forward
  <2>1. Sound(a) /\ a.state # "none" /\ a.state # "stopped"
    BY <1>8, <1>11 DEF Moved, Alive, Early
  <2> HIDE DEF a
  <2>2. Moved(a, b) /\ Rested(b) /\ (u # "call" => (IsReady(b) => IsReady(a)))
        /\ (u \in EndMessages => b.state \in Gone)
    <3>1. CASE b = UpdateCall(a, u)
      BY <2>1, <3>1, UpdateMoved DEF EndMessages
    <3>2. CASE KeyChecked(a, u) /\ b = KeyRefused(a, u)
      <4>1. u \notin EndMessages
        BY <3>2 DEF KeyChecked, EndMessages
      <4>. QED  BY <2>1, <3>2, <4>1, KeyRefusedMoved
    <3>. QED  BY <1>11, <3>1, <3>2 DEF bs
  <2>3. Moved(actor[p], b) /\ b.state # "none"
    BY <1>7, <1>8, <2>1, <2>2, MovedTrans DEF Moved, Early
  <2>4. IsReady(b) => IsReady(actor[p]) \/ Agreed
    BY <1>6, <1>8, <2>2 DEF Kept
  <2>5. CallsOK' /\ (Agreed => Agreed') /\ (\A x \in Parties : actor[x].state \in Gone => actor'[x].state \in Gone)
        /\ (actor'["callee"].state = "none" => actor["callee"].state = "none")
        /\ (\A x \in Parties : Rank(actor[x].shown) <= Rank(actor'[x].shown))
    BY <1>2, <1>5, <1>11, <2>2, <2>3, <2>4, BecameKeeps DEF CallInv
  <2>6. actor'[p].state = b.state
    BY <1>11, <2>2, <2>3, BecameActor DEF CallInv, CallsOK
  <2>7. server' # "none" /\ actor'["callee"].state = "none" =>
            Len(inbox'["callee"]) > 0 /\ inbox'["callee"][1] = "requested"
    BY <1>4, <1>5, <2>3, <2>5, <2>6 DEF CallInv, InboxOK, Parties
  <2>8. server' = "discarded" => \A x \in Parties : actor'[x].state \in Gone \/ HasEnd(x)'
    BY <1>2, <1>9, <2>2, <2>5, <2>6 DEF CallInv, InboxOK
  <2>9. InboxOK'
    BY <1>2, <1>4, <1>5, <1>10, <2>5, <2>7, <2>8 DEF InboxOK
  <2>. QED  BY <2>5, <2>9 DEF CallInv, Forward
<1>12. CASE ~Alive(a) /\ UNCHANGED <<actor, net>>
  <2>1. actor[p].state = "stopped"
    <3> SUFFICES ASSUME actor[p].state = "none" PROVE FALSE
      BY <1>12, NewMoved DEF Alive
    <3>1. actor[p] = NoActor
      BY DEF CallInv, CallsOK, ActorsOK
    <3>2. p = "callee"
      BY <1>5 DEF CallInv, CallsOK, Parties
    <3>3. u = "requested"
      BY <1>3, <1>5, <3>2 DEF CallInv, InboxOK
    <3>. QED  BY <1>12, <3>1, <3>2, <3>3, NewMoved DEF Alive
  <2>2. CallsOK'
    BY <1>2, <1>12 DEF CallInv, CallsOK, ActorsOK, Agreed, RefusedInLoop
  <2>3. server' # "none" /\ actor'["callee"].state = "none" =>
            Len(inbox'["callee"]) > 0 /\ inbox'["callee"][1] = "requested"
    BY <1>2, <1>4, <1>12, <2>1 DEF CallInv, InboxOK, Parties
  <2>4. server' = "discarded" => \A x \in Parties : actor'[x].state \in Gone \/ HasEnd(x)'
    BY <1>2, <1>9, <1>12, <2>1 DEF CallInv, InboxOK, Gone
  <2>5. InboxOK'
    BY <1>2, <1>4, <1>5, <1>10, <1>12, <2>3, <2>4 DEF InboxOK, Agreed
  <2>6. Forward
    BY <1>12, RankFacts DEF CallInv, CallsOK, ActorsOK, Sound, Actors, Forward
  <2>. QED  BY <2>2, <2>5, <2>6 DEF CallInv
<1>. QED  BY <1>2, <1>11, <1>12

-----------------------------------------------------------------------------
(* The server                                                              *)

LEMMA StillForward == ASSUME CallInv, actor' = actor PROVE Forward
BY RankFacts DEF CallInv, CallsOK, ActorsOK, Sound, Actors, Forward

\* The server settles a query that is on its way.
LEMMA AnswerKeeps ==
    ASSUME CallsOK, NEW p \in Parties, NEW q \in Queries \ {"config", "dh"}, net[p][q] # "none",
           NEW r \in {"sent", "abandoned"} \cup Answers, net' = [net EXCEPT ![p][q] = r],
           actor' = actor, server' \in Servers, server # "none" => server' # "none",
           Agreed => Agreed',
           r \in Oks => server' # "none",
           q = "confirm" /\ r \in Oks => Agreed',
           server' \in {"accepted", "confirmed"} => actor["callee"].accepted,
           server' # "none" => actor["caller"].state # "none"
    PROVE  CallsOK'
<1>1. net \in Nets
  BY DEF CallsOK, ActorsOK
<1>2. net' \in Nets
  BY <1>1 DEF Nets, Answers
<1>3. \A x \in Parties, y \in Queries : net'[x][y] = net[x][y] \/ (x = p /\ y = q /\ net'[x][y] = r)
  BY <1>1 DEF Nets
<1>4. ActorsOK'
  <2>1. ASSUME NEW x \in Parties PROVE (Rested(actor[x]) \/ RefusedInLoop(x))'
    <3>1. net[x]["request"] = "none" => net'[x]["request"] = "none"
      BY <1>3 DEF Queries
    <3>. QED  BY <3>1 DEF CallsOK, ActorsOK, RefusedInLoop
  <2>. QED  BY <1>2, <2>1 DEF CallsOK, ActorsOK
<1>5. ASSUME NEW x \in Parties
      PROVE  /\ actor[x].dh = "sent" /\ actor[x].state \notin Dead => net'[x]["dh"] = "sent"
             /\ actor[x].state = "none" => \A y \in Queries : net'[x][y] = "none"
             /\ actor[x].state \in Early => net'[x]["request"] = "none"
             /\ \A y \in Queries : net'[x][y] \in Oks => server' # "none"
             /\ net'[x]["discard"] # "none" => server' # "none"
             /\ net'[x]["confirm"] \in Oks => Agreed'
             /\ actor[x].id => server' # "none"
             /\ IsReady(actor[x]) => Agreed'
  <2>1. actor[x].dh = "sent" /\ actor[x].state \notin Dead => net'[x]["dh"] = "sent"
    BY <1>3 DEF CallsOK, Queries
  <2>2. actor[x].state = "none" => \A y \in Queries : net'[x][y] = "none"
    BY <1>3 DEF CallsOK
  <2>6. actor[x].state \in Early => net'[x]["request"] = "none"
    BY <1>3 DEF CallsOK, Queries
  <2>3. \A y \in Queries : net'[x][y] \in Oks => server' # "none"
    BY <1>3 DEF CallsOK
  <2>4. net'[x]["discard"] # "none" => server' # "none"
    BY <1>3 DEF CallsOK, Queries
  <2>5. net'[x]["confirm"] \in Oks => Agreed'
    BY <1>3 DEF CallsOK, Queries
  <2>. QED  BY <2>1, <2>2, <2>3, <2>4, <2>5, <2>6 DEF CallsOK
<1>6. net'["callee"]["accept"] # "none" => actor["callee"].accepted
  BY <1>3 DEF CallsOK, Queries, Parties
<1>. QED  BY <1>4, <1>5, <1>6 DEF CallsOK

LEMMA QuietStep ==
    ASSUME CallInv, CallsOK', UNCHANGED <<actor, inbox, server>>
    PROVE  CallInv' /\ Forward
<1>1. InboxOK'
  BY DEF CallInv, InboxOK, HasEnd, Agreed
<1>. QED  BY <1>1, StillForward DEF CallInv

\* The server pushes updates: they are true, the first tells the callee of the call, and the end
\* of the call goes to both sides.
LEMMA PushStep ==
    ASSUME CallInv, CallsOK', actor' = actor, NEW us \in [Parties -> Seq(Updates)], Push(us),
           server' # "none", Agreed => Agreed',
           server = "none" => us["callee"] = <<"requested">>,
           \A p \in Parties : \A i \in 1 .. Len(us[p]) : us[p][i] = "call" => Agreed',
           server' = "discarded" =>
               server = "discarded" \/ \A p \in Parties : Len(us[p]) = 1 /\ us[p][1] \in EndMessages
    PROVE  CallInv' /\ Forward
<1>1. inbox \in [Parties -> Seq(Updates)]
  BY DEF CallInv, InboxOK
<1>2. ASSUME NEW p \in Parties
      PROVE  /\ inbox'[p] \in Seq(Updates)
             /\ \A i \in 1 .. Len(inbox'[p]) :
                   \/ i \in 1 .. Len(inbox[p]) /\ inbox'[p][i] = inbox[p][i]
                   \/ \E j \in 1 .. Len(us[p]) : inbox'[p][i] = us[p][j]
             /\ \A i \in 1 .. Len(inbox[p]) : i \in 1 .. Len(inbox'[p]) /\ inbox'[p][i] = inbox[p][i]
             /\ actor[p].state # "stopped" /\ Len(us[p]) = 1 =>
                   Len(inbox'[p]) = Len(inbox[p]) + 1 /\ inbox'[p][Len(inbox[p]) + 1] = us[p][1]
  <2> DEFINE s == inbox[p]
             t == us[p]
  <2>1. s \in Seq(Updates) /\ t \in Seq(Updates)
    BY <1>1
  <2>2. CASE actor[p].state = "stopped"
    <3>1. inbox'[p] = s
      BY <2>2 DEF Push
    <3>. QED  BY <2>1, <2>2, <3>1
  <2>3. CASE actor[p].state # "stopped"
    <3>1. inbox'[p] = s \o t
      BY <2>3 DEF Push
    <3> HIDE DEF s, t
    <3>2. s \o t \in Seq(Updates) /\ Len(s \o t) = Len(s) + Len(t) /\ Len(s) \in Nat /\ Len(t) \in Nat
      BY <2>1
    <3>3. \A i \in 1 .. Len(s) : (s \o t)[i] = s[i]
      BY <2>1
    <3>4. \A i \in 1 .. Len(s) + Len(t) : i > Len(s) => (s \o t)[i] = t[i - Len(s)]
      BY <2>1
    <3>5. ASSUME NEW i \in 1 .. Len(s \o t), i \notin 1 .. Len(s)
          PROVE  \E j \in 1 .. Len(t) : (s \o t)[i] = t[j]
      <4>1. i - Len(s) \in 1 .. Len(t) /\ (s \o t)[i] = t[i - Len(s)]
        BY <3>2, <3>4, <3>5
      <4>. QED  BY <4>1
    <3>6. Len(t) = 1 => (s \o t)[Len(s) + 1] = t[1]
      <4> SUFFICES ASSUME Len(t) = 1 PROVE (s \o t)[Len(s) + 1] = t[1]
        OBVIOUS
      <4>1. Len(s) + 1 \in 1 .. Len(s) + Len(t) /\ Len(s) + 1 > Len(s) /\ (Len(s) + 1) - Len(s) = 1
        BY <3>2
      <4>. QED  BY <3>4, <4>1
    <3>7. \A i \in 1 .. Len(s) : i \in 1 .. Len(s \o t)
      BY <3>2
    <3>. QED  BY <3>1, <3>2, <3>3, <3>5, <3>6, <3>7 DEF s, t
  <2>. QED  BY <2>2, <2>3
<1>3. inbox' \in [Parties -> Seq(Updates)]
  BY <1>2 DEF Push
<1>4. \A p \in Parties : \A i \in 1 .. Len(inbox'[p]) : inbox'[p][i] = "call" => Agreed'
  <2> SUFFICES ASSUME NEW p \in Parties, NEW i \in 1 .. Len(inbox'[p]), inbox'[p][i] = "call"
               PROVE  Agreed'
    OBVIOUS
  <2>1. CASE i \in 1 .. Len(inbox[p]) /\ inbox'[p][i] = inbox[p][i]
    BY <2>1 DEF CallInv, InboxOK
  <2>2. CASE \E j \in 1 .. Len(us[p]) : inbox'[p][i] = us[p][j]
    BY <2>2
  <2>. QED  BY <1>2, <2>1, <2>2
<1>5. ASSUME NEW p \in Parties, HasEnd(p) PROVE HasEnd(p)'
  <2>1. PICK i \in 1 .. Len(inbox[p]) : inbox[p][i] \in EndMessages
    BY <1>5 DEF HasEnd
  <2>2. i \in 1 .. Len(inbox'[p]) /\ inbox'[p][i] \in EndMessages
    BY <1>2, <2>1
  <2>. QED  BY <2>2 DEF HasEnd, EndMessages
<1>6. actor["callee"].state = "none" => Len(inbox'["callee"]) > 0 /\ inbox'["callee"][1] = "requested"
  <2> SUFFICES ASSUME actor["callee"].state = "none"
               PROVE  Len(inbox'["callee"]) > 0 /\ inbox'["callee"][1] = "requested"
    OBVIOUS
  <2>1. "callee" \in Parties /\ Len(inbox["callee"]) \in Nat /\ Len(inbox'["callee"]) \in Nat
    BY <1>1, <1>3 DEF Parties
  <2>2. CASE server = "none"
    <3>1. inbox["callee"] = <<>>
      BY <2>1, <2>2 DEF CallInv, InboxOK
    <3>2. inbox'["callee"] = <<>> \o <<"requested">>
      BY <2>1, <2>2, <3>1 DEF Push
    <3>. QED  BY <3>2
  <2>3. CASE server # "none"
    <3>1. Len(inbox["callee"]) > 0 /\ inbox["callee"][1] = "requested"
      BY <2>3 DEF CallInv, InboxOK
    <3>2. 1 \in 1 .. Len(inbox["callee"])
      BY <2>1, <3>1
    <3>3. 1 \in 1 .. Len(inbox'["callee"]) /\ inbox'["callee"][1] = "requested"
      BY <1>2, <2>1, <3>1, <3>2
    <3>. QED  BY <2>1, <3>3
  <2>. QED  BY <2>2, <2>3
<1>7. ASSUME server' = "discarded", NEW p \in Parties PROVE actor[p].state \in Gone \/ HasEnd(p)'
  <2>1. CASE server = "discarded"
    BY <1>5, <2>1 DEF CallInv, InboxOK
  <2>2. CASE server # "discarded" /\ actor[p].state # "stopped"
    <3>1. Len(us[p]) = 1 /\ us[p][1] \in EndMessages
      BY <1>7, <2>2
    <3>2. Len(inbox'[p]) = Len(inbox[p]) + 1 /\ inbox'[p][Len(inbox[p]) + 1] \in EndMessages
      BY <1>2, <2>2, <3>1
    <3>3. Len(inbox[p]) + 1 \in 1 .. Len(inbox'[p])
      BY <1>1, <3>2
    <3>. QED  BY <3>2, <3>3 DEF HasEnd, EndMessages
  <2>3. CASE actor[p].state = "stopped"
    BY <2>3 DEF Gone
  <2>. QED  BY <2>1, <2>2, <2>3
<1>8. InboxOK'
  BY <1>3, <1>4, <1>6, <1>7 DEF InboxOK
<1>. QED  BY <1>8, StillForward DEF CallInv

LEMMA ToUpdates ==
    ASSUME NEW p \in Parties, NEW u \in Updates
    PROVE  /\ To(p, u) \in [Parties -> Seq(Updates)]
           /\ \A x \in Parties : \A i \in 1 .. Len(To(p, u)[x]) : To(p, u)[x][i] = u
<1>1. <<u>> \in Seq(Updates) /\ <<>> \in Seq(Updates) /\ Len(<<u>>) = 1 /\ <<u>>[1] = u
  OBVIOUS
<1>. QED  BY <1>1 DEF To

LEMMA ServeRequestStep == ASSUME CallInv, ServeRequest PROVE CallInv' /\ Forward
<1> DEFINE r == IF net["caller"]["request"] = "sent" THEN "waiting" ELSE net["caller"]["request"]
<1>1. "caller" \in Parties /\ "callee" \in Parties /\ "request" \in Queries \ {"config", "dh"}
      /\ "requested" \in Updates
  BY DEF Parties, Queries, Updates
<1>2. net["caller"]["request"] \in Pending /\ server = "none" /\ server' = "requested" /\ actor' = actor
      /\ Push(To("callee", "requested"))
  BY DEF ServeRequest
<1>3. net \in Nets /\ net["caller"]["request"] # "none" /\ r \in {"sent", "abandoned"} \cup Answers
  BY <1>2 DEF CallInv, CallsOK, ActorsOK, Pending, Answers
<1>4. net' = [net EXCEPT !["caller"]["request"] = r]
  BY <1>1, <1>3 DEF ServeRequest, Nets
<1> HIDE DEF r
<1>5. actor["caller"].state # "none"
  BY <1>1, <1>3 DEF CallInv, CallsOK
<1>6. CallsOK'
  BY <1>1, <1>2, <1>3, <1>4, <1>5, AnswerKeeps DEF CallInv, Servers, Agreed
<1>7. To("callee", "requested")["callee"] = <<"requested">>
  BY <1>1 DEF To
<1>. QED  BY <1>1, <1>2, <1>6, <1>7, ToUpdates, PushStep DEF Agreed

LEMMA ServeStep ==
    ASSUME CallInv, NEW p \in Parties, NEW q \in Queries \ {"config", "dh"}, NEW from \in SUBSET (Servers \ {"none"}),
           NEW to \in Servers \ {"none", "discarded"}, NEW r \in Oks, NEW u \in Updates, Serve(p, q, from, to, r, u),
           from \cap {"confirmed", "discarded"} = {},
           server \in from => (to \in {"accepted", "confirmed"} => actor["callee"].accepted),
           q = "confirm" \/ u = "call" => to = "confirmed"
    PROVE  CallInv' /\ Forward
<1>1. actor' = actor /\ net[p][q] = "sent"
  BY DEF Serve
<1>2. CASE server \in from
  <2>1. net' = [net EXCEPT ![p][q] = r] /\ server' = to /\ Push(To(Other(p), u))
    BY <1>2 DEF Serve, Answer
  <2>2. server # "none" /\ ~Agreed /\ Other(p) \in Parties
    BY <1>2 DEF Agreed, Other, Parties
  <2>3. q = "confirm" \/ u = "call" => Agreed'
    BY <1>1, <1>2, <2>1 DEF Agreed
  <2>4. CallsOK'
    BY <1>1, <1>2, <2>1, <2>2, <2>3, AnswerKeeps DEF CallInv, Answers, Oks, CallsOK
  <2>. QED  BY <1>1, <2>1, <2>2, <2>3, <2>4, ToUpdates, PushStep
<1>3. CASE server \notin from
  <2>1. net' = [net EXCEPT ![p][q] = "error"] /\ UNCHANGED <<inbox, server>>
    BY <1>3 DEF Serve, Answer
  <2>2. CallsOK'
    BY <1>1, <2>1, AnswerKeeps DEF CallInv, CallsOK, ActorsOK, Agreed, Answers, Oks
  <2>. QED  BY <1>1, <2>1, <2>2, QuietStep
<1>. QED  BY <1>2, <1>3

LEMMA ServesStep ==
    ASSUME CallInv, ServeReceived \/ ServeAccept \/ ServeConfirm
    PROVE  CallInv' /\ Forward
<1>1. "caller" \in Parties /\ "callee" \in Parties /\ {"received", "accept", "confirm"} \subseteq Queries \ {"config", "dh"}
      /\ {"ok", "waiting", "call"} \subseteq Oks /\ {"waiting", "accepted", "call"} \subseteq Updates
      /\ {"requested", "accepted", "confirmed"} \subseteq Servers \ {"none", "discarded"}
  BY DEF Parties, Queries, Oks, Updates, Servers
<1>2. CASE ServeReceived
  BY <1>1, <1>2, ServeStep DEF ServeReceived
<1>3. CASE ServeAccept
  <2>1. net["callee"]["accept"] = "sent"
    BY <1>3 DEF ServeAccept, Serve
  <2>2. actor["callee"].accepted
    BY <2>1 DEF CallInv, CallsOK
  <2>. QED  BY <1>1, <1>3, <2>2, ServeStep DEF ServeAccept
<1>4. CASE ServeConfirm
  <2>1. server = "accepted" => actor["callee"].accepted
    BY DEF CallInv, CallsOK
  <2>2. {"accepted"} \in SUBSET (Servers \ {"none"}) /\ {"accepted"} \cap {"confirmed", "discarded"} = {}
    BY <1>1
  <2>3. "confirmed" \in Servers \ {"none", "discarded"} /\ "call" \in Oks /\ "call" \in Updates
        /\ "confirm" \in Queries \ {"config", "dh"}
    BY <1>1
  <2>4. Serve("caller", "confirm", {"accepted"}, "confirmed", "call", "call")
    BY <1>4 DEF ServeConfirm
  <2>. QED  BY <1>1, <2>1, <2>2, <2>3, <2>4, ServeStep
<1>. QED  BY <1>2, <1>3, <1>4

\* The end of the call is pushed to both sides.
LEMMA DiscardedUpdates ==
    ASSUME PushDiscarded
    PROVE  \E us \in [Parties -> Seq(Updates)] :
              /\ Push(us)
              /\ \A p \in Parties : Len(us[p]) = 1 /\ us[p][1] \in EndMessages
<1> DEFINE ends == {<<"discarded">>} \cup (IF server = "confirmed" THEN {<<"rate">>} ELSE {})
<1>1. PICK us \in [Parties -> ends] : Push(us)
  BY DEF PushDiscarded
<1>2. \A e \in ends : e \in Seq(Updates) /\ Len(e) = 1 /\ e[1] \in EndMessages
  <2>1. "discarded" \in Updates /\ "rate" \in Updates /\ "discarded" \in EndMessages /\ "rate" \in EndMessages
    BY DEF Updates, EndMessages
  <2>2. \A u \in Updates : <<u>> \in Seq(Updates) /\ Len(<<u>>) = 1 /\ <<u>>[1] = u
    OBVIOUS
  <2>3. \A e \in ends : e = <<"discarded">> \/ e = <<"rate">>
    OBVIOUS
  <2>. QED  BY <2>1, <2>2, <2>3
<1> HIDE DEF ends
<1>3. us \in [Parties -> Seq(Updates)]
  BY <1>2
<1>. QED  BY <1>1, <1>2, <1>3

LEMMA EndStep ==
    ASSUME CallInv, CallsOK', PushDiscarded, actor' = actor, server # "none", server' = "discarded"
    PROVE  CallInv' /\ Forward
<1>1. PICK us \in [Parties -> Seq(Updates)] :
          /\ Push(us)
          /\ \A p \in Parties : Len(us[p]) = 1 /\ us[p][1] \in EndMessages
  BY DiscardedUpdates
<1>2. ASSUME NEW p \in Parties, NEW i \in 1 .. Len(us[p]) PROVE us[p][i] # "call"
  <2>1. Len(us[p]) = 1
    BY <1>1
  <2>2. i = 1
    BY <1>2, <2>1
  <2>. QED  BY <1>1, <2>2 DEF EndMessages
<1>3. Agreed => Agreed'
  BY DEF Agreed
<1>. QED  BY <1>1, <1>2, <1>3, PushStep

LEMMA ServeDiscardStep == ASSUME CallInv, NEW p \in Parties, ServeDiscard(p) PROVE CallInv' /\ Forward
<1>1. net[p]["discard"] = "sent" /\ net' = [net EXCEPT ![p]["discard"] = "ok"] /\ server' = "discarded"
      /\ actor' = actor /\ "discard" \in Queries \ {"config", "dh"} /\ "ok" \in Answers
  BY DEF ServeDiscard, Answer, Queries, Answers
<1>2. server # "none"
  BY <1>1 DEF CallInv, CallsOK
<1>3. Agreed => Agreed'
  BY <1>1 DEF Agreed
<1>4. CallsOK'
  BY <1>1, <1>2, <1>3, AnswerKeeps DEF CallInv, CallsOK, Servers
<1>5. CASE server = "discarded"
  <2>1. Push(To(p, "discarded")) /\ "discarded" \in Updates
    BY <1>5 DEF ServeDiscard, Updates
  <2>. QED  BY <1>1, <1>2, <1>3, <1>4, <1>5, <2>1, ToUpdates, PushStep
<1>6. CASE server # "discarded"
  <2>1. PushDiscarded
    BY <1>6 DEF ServeDiscard
  <2>. QED  BY <1>1, <1>2, <1>4, <2>1, EndStep
<1>. QED  BY <1>5, <1>6

LEMMA ServerTimeoutStep == ASSUME CallInv, ServerTimeout PROVE CallInv' /\ Forward
<1>1. server # "none" /\ server' = "discarded" /\ UNCHANGED <<actor, net>> /\ PushDiscarded
  BY DEF ServerTimeout
<1>2. CallsOK'
  BY <1>1 DEF CallInv, CallsOK, ActorsOK, Agreed, Servers, RefusedInLoop
<1>. QED  BY <1>1, <1>2, EndStep

LEMMA ForgetStep == ASSUME CallInv, NEW p \in Parties, ServerForgets(p) PROVE CallInv' /\ Forward
<1>1. server # "none" /\ UNCHANGED <<actor, net, server>> /\ Push(To(p, "empty")) /\ "empty" \in Updates
  BY DEF ServerForgets, Updates
<1>2. CallsOK'
  BY <1>1 DEF CallInv, CallsOK, ActorsOK, Agreed, RefusedInLoop
<1>3. Agreed => Agreed'
  BY <1>1 DEF Agreed
<1>. QED  BY <1>1, <1>2, <1>3, ToUpdates, PushStep

LEMMA FailStep ==
    ASSUME CallInv, NEW p \in Parties, NEW q \in Queries, QueryFails(p, q) PROVE CallInv' /\ Forward
<1>1. q \in Queries \ {"config", "dh"} /\ net[p][q] # "none" /\ net' = [net EXCEPT ![p][q] = "error"]
      /\ UNCHANGED <<actor, inbox, server>> /\ "error" \in Answers /\ "error" \notin Oks
  BY DEF QueryFails, Answer, Answers, Oks
<1>2. server' \in Servers /\ (Agreed => Agreed')
      /\ (server \in {"accepted", "confirmed"} => actor["callee"].accepted)
      /\ (server # "none" => actor["caller"].state # "none")
  BY <1>1 DEF CallInv, CallsOK, ActorsOK, Agreed
<1>3. CallsOK'
  BY <1>1, <1>2, AnswerKeeps DEF CallInv
<1>. QED  BY <1>1, <1>3, QuietStep

-----------------------------------------------------------------------------
(* The theorems                                                            *)

LEMMA InitInv == Init => CallInv
<1> SUFFICES ASSUME Init PROVE CallInv
  OBVIOUS
<1>1. /\ \A p \in Parties : actor[p] = NoActor /\ inbox[p] = <<>> /\ \A q \in Queries : net[p][q] = "none"
      /\ server = "none" /\ net \in Nets /\ inbox \in [Parties -> Seq(Updates)]
  BY DEF Init, Nets
<1>2. Sound(NoActor) /\ Rested(NoActor) /\ NoActor.send = {} /\ NoActor.dh = "no" /\ ~NoActor.id
      /\ ~IsReady(NoActor)
  BY NewMoved DEF NoActor, IsReady
<1>3. actor \in [Parties -> Actors]
  BY <1>2 DEF Init, Sound
<1>4. CallsOK
  BY <1>1, <1>2, <1>3 DEF CallsOK, ActorsOK, Servers, Oks, Parties, Queries, Early
<1>5. InboxOK
  BY <1>1 DEF InboxOK
<1>. QED  BY <1>4, <1>5 DEF CallInv

LEMMA Step == ASSUME CallInv, [Next]_vars PROVE CallInv' /\ Forward
<1>1. CASE CreateCall  BY <1>1, CreateStep
<1>2. CASE AcceptCall  BY <1>2, AcceptStep
<1>3. ASSUME NEW p \in Parties, DiscardCall(p) PROVE CallInv' /\ Forward  BY <1>3, DiscardStep
<1>4. ASSUME NEW p \in Parties, RateCall(p) PROVE CallInv' /\ Forward  BY <1>4, RateStep
<1>5. ASSUME NEW p \in Parties, TimeoutExpired(p) PROVE CallInv' /\ Forward  BY <1>5, TimeoutStep
<1>6. ASSUME NEW p \in Parties, Yielded(p) PROVE CallInv' /\ Forward  BY <1>6, YieldedStep
<1>7. ASSUME NEW p \in Parties, ReceiveUpdate(p) PROVE CallInv' /\ Forward  BY <1>7, UpdateStep
<1>8. ASSUME NEW p \in Parties, NEW q \in Queries, OnResult(p, q) PROVE CallInv' /\ Forward
  BY <1>8, ResultStep
<1>9. ASSUME NEW p \in Parties, NEW q \in Queries, QueryFails(p, q) PROVE CallInv' /\ Forward
  BY <1>9, FailStep
<1>10. CASE ServeRequest  BY <1>10, ServeRequestStep
<1>11. CASE ServeReceived \/ ServeAccept \/ ServeConfirm  BY <1>11, ServesStep
<1>12. ASSUME NEW p \in Parties, ServeDiscard(p) PROVE CallInv' /\ Forward  BY <1>12, ServeDiscardStep
<1>13. CASE ServerTimeout  BY <1>13, ServerTimeoutStep
<1>15. ASSUME NEW p \in Parties, RequestRefused(p) PROVE CallInv' /\ Forward  BY <1>15, RefusedStep
<1>16. ASSUME NEW p \in Parties, ServerForgets(p) PROVE CallInv' /\ Forward  BY <1>16, ForgetStep
<1>14. CASE UNCHANGED vars
  <2>1. CallsOK'
    BY <1>14 DEF CallInv, CallsOK, ActorsOK, Agreed, RefusedInLoop, vars
  <2>. QED  BY <1>14, <2>1, QuietStep DEF vars
<1>. QED  BY <1>1, <1>2, <1>3, <1>4, <1>5, <1>6, <1>7, <1>8, <1>9, <1>10, <1>11, <1>12, <1>13, <1>14,
             <1>15, <1>16 DEF Next, Serves

LEMMA Invariance == Spec => []CallInv
<1>1. CallInv /\ [Next]_vars => CallInv'
  BY Step
<1>. QED  BY <1>1, InitInv, PTL DEF Spec

\* Every variable keeps its type and an actor that rests has sent all that it had to send, whatever
\* order answers, updates and time-outs come in.
THEOREM TypeCorrect == Spec => []TypeOK
<1>1. CallInv => TypeOK
  <2> SUFFICES ASSUME CallInv PROVE TypeOK
    OBVIOUS
  <2>1. ASSUME NEW p \in Parties
        PROVE  /\ actor[p].state \in States /\ actor[p].type \in Types /\ actor[p].shown \in Types
               /\ actor[p].dh \in {"no", "sent", "ready"} /\ actor[p].send = {}
    BY DEF CallInv, CallsOK, ActorsOK, Sound, Actors
  <2>2. ASSUME NEW p \in Parties, NEW i \in DOMAIN inbox[p] PROVE inbox[p][i] \in Updates
    BY DEF CallInv, InboxOK
  <2>. QED  BY <2>1, <2>2 DEF TypeOK, CallInv, CallsOK, ActorsOK, Nets, Servers
<1>. QED  BY <1>1, Invariance, PTL

\* No CHECK of an actor fails, whatever order answers, updates, time-outs, yields and the
\* user's requests come in, whichever queries fail (discard_call, get_input_phone_call).
THEOREM ChecksAlwaysHold == Spec => []ChecksHold
<1>1. CallInv => ChecksHold
  BY DEF CallInv, CallsOK, ActorsOK, Sound, ChecksHold
<1>. QED  BY <1>1, Invariance, PTL

\* A user is shown a ready call only when its configuration has come (flush_call_state), the callee
\* has accepted it and the server has taken the confirmation (update_call_inner, on_confirm_query_result).
THEOREM ReadyIsAlwaysAgreed == Spec => []ReadyIsAgreed
<1>1. CallInv => ReadyIsAgreed
  BY DEF CallInv, CallsOK, ActorsOK, Sound, IsReady, Agreed, ReadyIsAgreed
<1>. QED  BY <1>1, Invariance, PTL

\* No wake-up of an actor is lost but one: what loop() would show, send or close waits for a yield
\* that is pending or for the dh configuration that has been asked for, unless the request of the
\* call was refused inside loop() before it was sent (try_send_request_query).
THEOREM OnlyARefusalSleeps == Spec => []OnlyRefusalSleeps
<1>1. CallInv => OnlyRefusalSleeps
  <2> SUFFICES ASSUME CallInv, NEW p \in Parties, HasWork(actor[p]), ~actor[p].yield, ~RefusedInLoop(p)
               PROVE  WaitsForDh(p)
    BY DEF OnlyRefusalSleeps
  <2>1. Sound(actor[p]) /\ Rested(actor[p])
    BY DEF CallInv, CallsOK, ActorsOK
  <2>2. Waits(actor[p])
    BY <2>1 DEF Rested
  <2>3. net[p]["dh"] = "sent"
    BY <2>2 DEF CallInv, CallsOK, Waits, Dead, Discarding
  <2>. QED  BY <2>2, <2>3 DEF Waits, WaitsForDh
<1>. QED  BY <1>1, Invariance, PTL

\* The end of a call is not lost: when the server has ended it each side has closed it, has not
\* heard of it or has the update that ends it before it (update_call of the two users' managers).
THEOREM EndAlwaysReaches == Spec => []EndReaches
<1>1. CallInv => EndReaches
  <2> SUFFICES ASSUME CallInv, server = "discarded", NEW p \in Parties
               PROVE  Over(actor[p]) \/ \E i \in DOMAIN inbox[p] : inbox[p][i] \in {"discarded", "rate"}
    BY DEF EndReaches
  <2>1. CASE actor[p].state \in Gone
    BY <2>1 DEF Over, Gone
  <2>2. CASE HasEnd(p)
    <3>1. inbox[p] \in Seq(Updates)
      BY DEF CallInv, InboxOK
    <3>2. DOMAIN inbox[p] = 1 .. Len(inbox[p])
      BY <3>1
    <3>. QED  BY <2>2, <3>2 DEF HasEnd, EndMessages
  <2>. QED  BY <2>1, <2>2 DEF CallInv, InboxOK
<1>. QED  BY <1>1, Invariance, PTL

\* What a user is shown of a call only moves forward, however late an answer or an update comes
\* (flush_call_state after any handler).
THEOREM ShownMovesForward == Spec => ShownForward
<1>1. CallInv /\ [Next]_vars => [\A p \in Parties : Rank(actor'[p].shown) >= Rank(actor[p].shown)]_vars
  BY Step DEF Forward
<1>. QED  BY <1>1, Invariance, PTL DEF Spec, ShownForward
=============================================================================
