-------------------------- MODULE AuthManagerProofs --------------------------
(***************************************************************************)
(* Proofs about AuthManager: its types, and that no older screen stays     *)
(* when everything TDLib has said has been delivered.                      *)
(***************************************************************************)
EXTENDS AuthManager, TLAPS

Requests == Queries \cup {"getState", "params", "logOut"}

-----------------------------------------------------------------------------
(* Types                                                                   *)

LEMMA MessageTypes ==
    /\ \A s \in States : Update(s) \in Messages /\ [kind |-> "answer", val |-> s] \in Messages
    /\ Error("real") \in Messages /\ Error("benign") \in Messages
    /\ [kind |-> "fatal", val |-> "real"] \in Messages
    /\ \A m \in Messages : /\ m.kind \in {"update", "answer", "error", "fatal"}
                           /\ m.kind \in {"update", "answer"} => m.val \in States
BY DEF Messages, Update, Error

LEMMA QueryTypes ==
    /\ \A q \in Queries : LeadsTo(q) \subseteq States /\ q \in Requests
    /\ Interactive \subseteq States /\ Interactive \subseteq Phases
    /\ \A s : StageOf(s) \in PCs
BY DEF Queries, LeadsTo, States, Interactive, Over, Phases, Requests, StageOf, PCs

\* What handling a message may do: the screen is kept, shows the state in it or an error.
LEMMA HandleFacts ==
    ASSUME TypeOK, NEW m \in Messages, HandleUpdate(m)
    PROVE  /\ phase' \in Phases /\ inProgress' \in BOOLEAN /\ authTimer' \in BOOLEAN /\ lastState' \in States
           /\ m.kind \in {"update", "answer"} /\ m.val \in Interactive => phase' = m.val
           /\ m.kind \notin {"update", "answer"} => phase' \in {phase, "error"}
<1>1. CASE m.kind \in {"update", "answer"} /\ HandleAuthorizationState(m.val)
  BY <1>1, MessageTypes, QueryTypes DEF HandleAuthorizationState, TypeOK, Phases, Interactive
<1>2. CASE m.kind \notin {"update", "answer"} /\ ShowError
  BY <1>2 DEF ShowError, TypeOK, Phases
<1>3. CASE (m.kind = "answer" => m.val \in Unhandled) /\ m.kind # "update" /\ UNCHANGED authVars
  <2>1. m.val \in Unhandled => m.val \notin Interactive
    BY DEF Unhandled, Interactive
  <2>. QED  BY <1>3, <2>1 DEF authVars, TypeOK
<1>. QED  BY <1>1, <1>2, <1>3 DEF HandleUpdate

LEMMA GoOnTypes ==
    ASSUME TypeOK, NEW p \in PCs, GoOn(p)
    PROVE  pc' \in PCs /\ initialized' \in BOOLEAN /\ got' \in States \cup {"timeout"}
BY DEF GoOn, TypeOK, PCs, States

LEMMA ApplyTypes ==
    ASSUME TypeOK, ApplyParameters
    PROVE  pc' \in PCs /\ initialized' \in BOOLEAN /\ got' \in States \cup {"timeout"}
<1>1. (IF phase \in Interactive THEN "await" ELSE StageOf(lastState)) \in PCs
  BY QueryTypes DEF PCs
<1>. QED  BY <1>1, GoOnTypes DEF ApplyParameters

LEMMA FailTypes ==
    ASSUME Fail
    PROVE  pc' \in PCs /\ got' \in States \cup {"timeout"} /\ phase' = "error" /\ phase' \in Phases
BY DEF Fail, PCs, States, Phases

LEMMA QueueTypes ==
    ASSUME NEW S, NEW q \in Seq(S)
    PROVE  /\ \A x \in S : Append(q, x) \in Seq(S)
           /\ q # <<>> => Head(q) \in S /\ Tail(q) \in Seq(S)
OBVIOUS

-----------------------------------------------------------------------------
(* The inductive invariant: as long as TDLib waits for the user, the last  *)
(* message on its way that is not of TDLib's state is followed by the      *)
(* update of that state, or there is none and no other screen is shown.    *)

Says(m, s) == m.kind \in {"update", "answer"} => m.val = s

\* The message i, or the screen if i = 0, is of the state s and so is all that follows.
CurrentFrom(i, s) ==
    /\ i > 0 => inbox[i] = Update(s)
    /\ i = 0 => (phase \in Interactive => phase = s)
    /\ \A j \in i + 1 .. Len(inbox) : Says(inbox[j], s)

ScreenInv == td.state \in Interactive => \E i \in 0 .. Len(inbox) : CurrentFrom(i, td.state)

AuthInv == TypeOK /\ ScreenInv

\* A step that leaves the client's messages and TDLib alone shows the same screen or none.
LEMMA ScreenOnly ==
    ASSUME AuthInv, UNCHANGED <<td, inbox>>, phase' = phase \/ phase' \notin Interactive
    PROVE  ScreenInv'
<1> SUFFICES ASSUME td.state \in Interactive
             PROVE  \E i \in 0 .. Len(inbox) : CurrentFrom(i, td.state)'
  BY DEF ScreenInv
<1>1. PICK i \in 0 .. Len(inbox) : CurrentFrom(i, td.state)
  BY DEF AuthInv, ScreenInv
<1>2. CurrentFrom(i, td.state)'
  BY <1>1 DEF CurrentFrom, Says
<1>. QED  BY <1>2

\* TDLib says something that is not of another state.
LEMMA SaidMore ==
    ASSUME AuthInv, NEW m \in Messages, inbox' = Append(inbox, m), phase' = phase,
           td'.state = td.state, Says(m, td.state)
    PROVE  ScreenInv'
<1> SUFFICES ASSUME td.state \in Interactive
             PROVE  \E i \in 0 .. Len(inbox') : CurrentFrom(i, td.state)'
  BY DEF ScreenInv
<1>1. PICK i \in 0 .. Len(inbox) : CurrentFrom(i, td.state)
  BY DEF AuthInv, ScreenInv
<1>2. inbox \in Seq(Messages) /\ Len(inbox) \in Nat
  BY DEF AuthInv, TypeOK
<1>3. /\ Len(inbox') = Len(inbox) + 1 /\ inbox'[Len(inbox) + 1] = m
      /\ \A j \in 1 .. Len(inbox) : inbox'[j] = inbox[j]
  BY <1>2
<1>4. i > 0 => inbox'[i] = Update(td.state)
  BY <1>1, <1>2, <1>3 DEF CurrentFrom
<1>5. ASSUME NEW j \in i + 1 .. Len(inbox') PROVE Says(inbox'[j], td.state)
  <2>1. CASE j = Len(inbox) + 1
    BY <1>3, <2>1
  <2>2. CASE j # Len(inbox) + 1
    <3>1. j \in i + 1 .. Len(inbox) /\ j \in 1 .. Len(inbox)
      BY <1>2, <1>3, <1>5, <2>2
    <3>. QED  BY <1>1, <1>3, <3>1 DEF CurrentFrom
  <2>. QED  BY <2>1, <2>2
<1>6. CurrentFrom(i, td.state)'
  BY <1>1, <1>4, <1>5 DEF CurrentFrom, Says, Update
<1>7. i \in 0 .. Len(inbox')
  BY <1>2, <1>3
<1>. QED  BY <1>6, <1>7

\* TDLib tells that its state is another.
LEMMA SaidState ==
    ASSUME AuthInv, NEW s \in States, td'.state = s, inbox' = Append(inbox, Update(s))
    PROVE  ScreenInv'
<1>1. inbox \in Seq(Messages) /\ Len(inbox) \in Nat
  BY DEF AuthInv, TypeOK
<1>2. PICK n \in Nat : n = Len(inbox) + 1
  BY <1>1
<1>3. Len(inbox') = n /\ inbox'[n] = Update(s) /\ n \in 0 .. Len(inbox') /\ n > 0 /\ n + 1 .. Len(inbox') = {}
  BY <1>1, <1>2
<1>4. CurrentFrom(n, td.state)'
  BY <1>3 DEF CurrentFrom, Update
<1>. QED  BY <1>3, <1>4 DEF ScreenInv

-----------------------------------------------------------------------------
(* The steps                                                               *)

\* A message is delivered: the screen follows it.
LEMMA DeliverScreen == ASSUME AuthInv, Deliver PROVE ScreenInv'
<1> DEFINE m == Head(inbox)
<1> SUFFICES ASSUME td.state \in Interactive
             PROVE  \E i \in 0 .. Len(inbox') : CurrentFrom(i, td.state)'
  BY DEF ScreenInv, Deliver
<1>1. PICK i \in 0 .. Len(inbox) : CurrentFrom(i, td.state)
  BY DEF AuthInv, ScreenInv
<1>2. /\ inbox \in Seq(Messages) /\ inbox # <<>> /\ inbox' = Tail(inbox)
      /\ HandleUpdate(m) /\ td' = td
  BY DEF Deliver, AuthInv, TypeOK
<1>3. /\ Len(inbox) \in Nat \ {0} /\ Len(inbox') = Len(inbox) - 1 /\ m = inbox[1] /\ m \in Messages
      /\ \A j \in 1 .. Len(inbox') : inbox'[j] = inbox[j + 1]
  BY <1>2
<1> HIDE DEF m
<1>4. /\ m.kind \in {"update", "answer"} /\ m.val \in Interactive => phase' = m.val
      /\ m.kind \notin {"update", "answer"} => phase' \in {phase, "error"}
  BY <1>2, <1>3, HandleFacts DEF AuthInv
<1>5. CASE i > 1
  <2>1. PICK k \in 1 .. Len(inbox') : k = i - 1
    BY <1>3, <1>5
  <2>2. inbox'[k] = Update(td.state)
    BY <1>1, <1>3, <1>5, <2>1 DEF CurrentFrom
  <2>3. ASSUME NEW j \in k + 1 .. Len(inbox') PROVE Says(inbox'[j], td.state)
    <3>1. j \in 1 .. Len(inbox') /\ j + 1 \in i + 1 .. Len(inbox)
      BY <1>3, <1>5, <2>1
    <3>. QED  BY <1>1, <1>3, <3>1 DEF CurrentFrom
  <2>4. CurrentFrom(k, td.state)'
    BY <1>2, <2>1, <2>2, <2>3 DEF CurrentFrom, Says, Update
  <2>. QED  BY <2>1, <2>4
<1>6. CASE i \in {0, 1}
  <2>1. \A j \in 1 .. Len(inbox') : Says(inbox'[j], td.state)
    <3> SUFFICES ASSUME NEW j \in 1 .. Len(inbox') PROVE Says(inbox[j + 1], td.state)
      BY <1>3
    <3>1. j + 1 \in i + 1 .. Len(inbox)
      BY <1>3, <1>6
    <3>. QED  BY <1>1, <3>1 DEF CurrentFrom
  <2>2. phase' \in Interactive => phase' = td.state
    <3>1. CASE i = 0
      <4>1. Says(m, td.state) /\ (phase \in Interactive => phase = td.state)
        BY <1>1, <1>3, <3>1 DEF CurrentFrom
      <4>2. "error" \notin Interactive
        BY DEF Interactive
      <4>. QED  BY <1>4, <4>1, <4>2 DEF Says
    <3>2. CASE i = 1
      <4>1. m = Update(td.state)
        BY <1>1, <1>3, <3>2 DEF CurrentFrom
      <4>. QED  BY <1>4, <4>1 DEF Update
    <3>. QED  BY <1>6, <3>1, <3>2
  <2>3. CurrentFrom(0, td.state)'
    BY <1>2, <2>1, <2>2 DEF CurrentFrom, Says
  <2>4. 0 \in 0 .. Len(inbox')
    BY <1>3
  <2>. QED  BY <2>3, <2>4
<1>. QED  BY <1>5, <1>6

LEMMA DeliverStep == ASSUME AuthInv, Deliver PROVE AuthInv'
<1> DEFINE m == Head(inbox)
<1>1. /\ inbox' = Tail(inbox) /\ HandleUpdate(m) /\ got' = IF Quiet /\ Wakes(m) THEN m.val ELSE got
      /\ UNCHANGED <<pc, initialized, build, client, td, requests>>
  BY DEF Deliver
<1>2. m \in Messages /\ inbox' \in Seq(Messages)
  BY QueueTypes DEF AuthInv, TypeOK, Deliver
<1> HIDE DEF m
<1>3. phase' \in Phases /\ inProgress' \in BOOLEAN /\ authTimer' \in BOOLEAN /\ lastState' \in States
  BY <1>1, <1>2, HandleFacts DEF AuthInv
<1>4. got' \in States \cup {"timeout"}
  BY <1>1, <1>2, MessageTypes DEF AuthInv, TypeOK, Wakes
<1>5. TypeOK'
  BY <1>1, <1>2, <1>3, <1>4 DEF AuthInv, TypeOK
<1>. QED  BY <1>5, DeliverScreen DEF AuthInv

\* initialize(): the screen is kept, or is that of an error or of the start.
LEMMA InitializeStep ==
    ASSUME AuthInv, Initialize \/ ClientFails \/ Events \/ Continue
    PROVE  AuthInv'
<1>1. "initializing" \notin Interactive /\ "error" \notin Interactive /\ "initializing" \in Phases
      /\ {"getState", "params"} \subseteq Requests
      /\ {"client", "setup", "configure", "await"} \subseteq PCs /\ "params" \in States
  BY DEF Interactive, Phases, Requests, PCs, States
<1>2. requests \in Seq(Requests)
  BY DEF AuthInv, TypeOK, Requests
<1>3. CASE Initialize
  <2>1. requests' \in Seq(Requests) /\ pc' \in PCs
    BY <1>1, <1>2, <1>3, QueueTypes DEF Initialize, AuthInv, TypeOK
  <2>2. TypeOK'
    BY <1>1, <1>3, <2>1 DEF Initialize, AuthInv, TypeOK, Requests
  <2>3. ScreenInv'
    BY <1>1, <1>3, ScreenOnly DEF Initialize
  <2>. QED  BY <2>2, <2>3 DEF AuthInv
<1>4. CASE ClientFails
  <2>1. TypeOK'
    BY <1>4, FailTypes DEF ClientFails, AuthInv, TypeOK
  <2>2. ScreenInv'
    BY <1>1, <1>4, FailTypes, ScreenOnly DEF ClientFails
  <2>. QED  BY <2>1, <2>2 DEF AuthInv
<1>5. CASE ClientReady
  <2>1. phase' = phase /\ inProgress' = inProgress /\ authTimer' = authTimer /\ UNCHANGED <<build, requests, inbox>>
        /\ client' = TRUE
    BY <1>5 DEF ClientReady, authVars
  <2>2. pc' \in PCs /\ initialized' \in BOOLEAN /\ got' \in States \cup {"timeout"}
    BY <1>1, <1>5, GoOnTypes, ApplyTypes DEF ClientReady, AuthInv
  <2>3. CASE td' = td /\ lastState' = lastState
    <3>1. TypeOK'
      BY <2>1, <2>2, <2>3 DEF AuthInv, TypeOK
    <3>2. ScreenInv'
      BY <2>1, <2>3, ScreenOnly
    <3>. QED  BY <3>1, <3>2 DEF AuthInv
  <2>4. CASE td' = [td EXCEPT !.state = "params"] /\ lastState' = "params"
    <3>1. TypeOK'
      BY <1>1, <2>1, <2>2, <2>4 DEF AuthInv, TypeOK, TdStates
    <3>2. td'.state = "params"
      BY <2>4 DEF AuthInv, TypeOK, TdStates
    <3>3. ScreenInv'
      BY <3>2 DEF ScreenInv, Interactive
    <3>. QED  BY <3>1, <3>3 DEF AuthInv
  <2>. QED  BY <1>5, <2>3, <2>4 DEF ClientReady, authVars
<1>6. CASE SetupReturned
  <2>1. UNCHANGED <<inProgress, authTimer, lastState, build, client, td, requests, inbox>>
        /\ ((ApplyParameters /\ phase' = phase) \/ (Fail /\ initialized' = initialized))
    BY <1>6 DEF SetupReturned
  <2>2. TypeOK'
    BY <2>1, FailTypes, ApplyTypes DEF AuthInv, TypeOK
  <2>3. ScreenInv'
    BY <1>1, <2>1, FailTypes, ScreenOnly
  <2>. QED  BY <2>2, <2>3 DEF AuthInv
<1>7. CASE Configure
  <2>1. UNCHANGED <<authVars, build, client, td, inbox>> /\ GoOn("await") /\ requests' = Append(requests, "params")
    BY <1>7 DEF Configure
  <2>2. requests' \in Seq(Requests)
    BY <1>1, <1>2, <2>1, QueueTypes
  <2>3. pc' \in PCs /\ initialized' \in BOOLEAN /\ got' \in States \cup {"timeout"}
    BY <1>1, <2>1, GoOnTypes DEF AuthInv
  <2>4. TypeOK'
    BY <2>1, <2>2, <2>3 DEF AuthInv, TypeOK, Requests, authVars
  <2>5. ScreenInv'
    BY <2>1, ScreenOnly DEF authVars
  <2>. QED  BY <2>4, <2>5 DEF AuthInv
<1>8. CASE WaitTimeout
  <2>1. TypeOK'
    BY <1>8 DEF WaitTimeout, AuthInv, TypeOK, authVars
  <2>2. ScreenInv'
    BY <1>8, ScreenOnly DEF WaitTimeout, authVars
  <2>. QED  BY <2>1, <2>2 DEF AuthInv
<1>9. CASE ParamsStage
  <2>1. UNCHANGED <<inProgress, authTimer, lastState, build, client, td, requests, inbox>>
        /\ ((\E p \in PCs : GoOn(p) /\ phase' = phase) \/ (Fail /\ initialized' = initialized))
    BY <1>9, QueryTypes DEF ParamsStage
  <2>2. TypeOK'
    BY <2>1, FailTypes, GoOnTypes DEF AuthInv, TypeOK
  <2>3. ScreenInv'
    BY <1>1, <2>1, FailTypes, ScreenOnly
  <2>. QED  BY <2>2, <2>3 DEF AuthInv
<1>10. CASE Awaited
  <2>1. TypeOK'
    BY <1>10, FailTypes DEF Awaited, AuthInv, TypeOK, PCs, States
  <2>2. ScreenInv'
    BY <1>1, <1>10, FailTypes, ScreenOnly DEF Awaited
  <2>. QED  BY <2>1, <2>2 DEF AuthInv
<1>. QED  BY <1>3, <1>4, <1>5, <1>6, <1>7, <1>8, <1>9, <1>10 DEF Events, Continue

LEMMA UserStep ==
    ASSUME AuthInv, AuthTimeout \/ LogOut \/ (\E q \in Queries : Submit(q))
    PROVE  AuthInv'
<1>1. requests \in Seq(Requests) /\ "logOut" \in Requests /\ "error" \notin Interactive /\ "error" \in Phases
  BY DEF AuthInv, TypeOK, Requests, Interactive, Phases
<1>2. requests' \in Seq(Requests)
  BY <1>1, QueueTypes, QueryTypes DEF AuthTimeout, LogOut, Submit
<1>3. UNCHANGED <<lastState, pc, got, initialized, build, client, td, inbox>> /\ (phase' = phase \/ phase' = "error")
      /\ inProgress' \in BOOLEAN /\ authTimer' \in BOOLEAN
  BY DEF AuthTimeout, LogOut, Submit, AuthInv, TypeOK, authVars, initVars
<1>4. TypeOK'
  BY <1>1, <1>2, <1>3 DEF AuthInv, TypeOK, Requests
<1>5. ScreenInv'
  BY <1>1, <1>3, ScreenOnly
<1>. QED  BY <1>4, <1>5 DEF AuthInv

\* Whatever TDLib does it leaves the client alone.
LEMMA TdTypes ==
    ASSUME AuthInv, UNCHANGED <<authVars, initVars, build, client>>,
           td' \in TdStates,
           requests' \in Seq(Requests), inbox' \in Seq(Messages), ScreenInv'
    PROVE  AuthInv'
BY DEF AuthInv, TypeOK, authVars, initVars, Requests

\* What TDLib may do: say something that is not of a state, change its state and say so, or be
\* no longer in a state in which it waits for the user.
LEMMA TdSays ==
    ASSUME AuthInv, UNCHANGED <<authVars, initVars, build, client>>,
           td' \in TdStates, requests' \in Seq(Requests),
           \/ inbox' = inbox /\ (td'.state = td.state \/ td'.state \notin Interactive)
           \/ \E m \in Messages : inbox' = Append(inbox, m) /\ td'.state = td.state /\ Says(m, td.state)
           \/ \E s \in States : inbox' = Append(inbox, Update(s)) /\ td'.state = s
    PROVE  AuthInv'
<1>1. inbox \in Seq(Messages) /\ phase' = phase
  BY DEF AuthInv, TypeOK, authVars
<1>2. inbox' \in Seq(Messages)
  <2>1. inbox' = inbox \/ \E m \in Messages : inbox' = Append(inbox, m)
    BY MessageTypes
  <2>. QED  BY <1>1, <2>1, QueueTypes
<1>3. CASE inbox' = inbox /\ (td'.state = td.state \/ td'.state \notin Interactive)
  <2>1. ScreenInv'
    BY <1>1, <1>3 DEF AuthInv, ScreenInv, CurrentFrom, Says
  <2>. QED  BY <1>2, <2>1, TdTypes
<1>4. CASE \E m \in Messages : inbox' = Append(inbox, m) /\ td'.state = td.state /\ Says(m, td.state)
  BY <1>1, <1>2, <1>4, SaidMore, TdTypes
<1>5. CASE \E s \in States : inbox' = Append(inbox, Update(s)) /\ td'.state = s
  BY <1>2, <1>5, SaidState, TdTypes
<1>. QED  BY <1>3, <1>4, <1>5

\* TDLib's records keep their type.
LEMMA TdUpdates ==
    ASSUME NEW t \in TdStates
    PROVE  /\ t.state \in States \cup {"dead"} /\ t.query \in Queries \cup {"none"} /\ t.old \subseteq SignIns
           /\ \A s \in States : [t EXCEPT !.state = s] \in TdStates /\ [t EXCEPT !.state = s].state = s
           /\ [t EXCEPT !.query = "none"] \in TdStates /\ [t EXCEPT !.query = "none"].state = t.state
BY DEF TdStates

LEMMA TdMoved ==
    ASSUME NEW t \in TdStates, NEW s \in States
    PROVE  /\ [t EXCEPT !.state = s, !.query = "none"] \in TdStates
           /\ [t EXCEPT !.state = s, !.query = "none"].state = s
BY DEF TdStates

LEMMA TdAsked ==
    ASSUME NEW t \in TdStates, NEW q \in Queries, NEW o \in SUBSET SignIns
    PROVE  /\ [t EXCEPT !.query = q, !.old = o] \in TdStates
           /\ [t EXCEPT !.query = q, !.old = o].state = t.state
BY DEF TdStates

LEMMA TdRecords ==
    ASSUME NEW s \in States \cup {"dead"}, NEW o \in SUBSET SignIns
    PROVE  [state |-> s, query |-> "none", old |-> o] \in TdStates
BY DEF TdStates

LEMMA TdStep ==
    ASSUME AuthInv, TdStarts \/ TdRequests \/ TdResult \/ TdLateResult \/ TdMoves \/ TdCloses \/ TdFatal
    PROVE  AuthInv'
<1>1. td \in TdStates /\ requests \in Seq(Requests)
      /\ {"params", "loggingOut", "closing", "ready", "premium"} \subseteq States
      /\ {"closing"} \cap Interactive = {} /\ "dead" \notin Interactive
  BY DEF AuthInv, TypeOK, Requests, States, Over, Interactive
<1>2. Restored \subseteq States
  BY <1>1, AuthAssumption, QueryTypes
<1>3. /\ td.state \in States \cup {"dead"} /\ td.query \in Queries \cup {"none"}
      /\ td.old \in SUBSET SignIns /\ GivenUp \in SUBSET SignIns
  BY <1>1, TdUpdates DEF GivenUp
<1>4. /\ Error("real") \in Messages /\ Error("benign") \in Messages
      /\ \A s : Says(Error("real"), s) /\ Says(Error("benign"), s)
  <2>1. Error("real").kind = "error" /\ Error("benign").kind = "error"
    BY DEF Error
  <2>. QED  BY <2>1, MessageTypes DEF Says
<1>5. UNCHANGED <<authVars, initVars, build, client>>
  BY DEF TdStarts, TdRequests, TdResult, TdLateResult, TdMoves, TdCloses, TdFatal, TdGone, TdGetState,
         TdParameters, TdLogOut, TdQuery, TdHandles
<1>6. requests' \in Seq(Requests)
  <2>1. requests' = requests \/ (requests # <<>> /\ requests' = Tail(requests))
    BY DEF TdStarts, TdRequests, TdResult, TdLateResult, TdMoves, TdCloses, TdFatal, TdGone, TdGetState,
           TdParameters, TdLogOut, TdQuery, TdHandles
  <2>. QED  BY <1>1, <2>1, QueueTypes
\* The three ways of TdSays.
<1> DEFINE Moved(s) == td' \in TdStates /\ td'.state = s /\ inbox' = Append(inbox, Update(s))
           Refused == td' \in TdStates /\ td'.state = td.state
                      /\ (inbox' = inbox \/ inbox' = Append(inbox, Error("real"))
                                         \/ inbox' = Append(inbox, Error("benign")))
<1>7. ASSUME NEW s \in States, Moved(s) PROVE AuthInv'
  BY <1>5, <1>6, <1>7, TdSays
<1>8. ASSUME Refused PROVE AuthInv'
  BY <1>4, <1>5, <1>6, <1>8, TdSays
<1>9. CASE TdStarts
  <2>1. Moved("params")
    BY <1>1, <1>9, TdUpdates DEF TdStarts
  <2>. QED  BY <1>1, <1>7, <2>1
<1>10. CASE TdGone
  <2>1. Refused
    BY <1>1, <1>10 DEF TdGone
  <2>. QED  BY <1>8, <2>1
<1>11. CASE TdGetState
  <2> DEFINE m == [kind |-> "answer", val |-> td.state]
  <2>1. inbox' = Append(inbox, m) /\ td' = td /\ td.state # "dead"
    BY <1>11 DEF TdGetState, TdHandles
  <2>2. m \in Messages /\ Says(m, td.state)
    BY <1>3, <2>1, MessageTypes DEF Says
  <2> HIDE DEF m
  <2>. QED  BY <1>1, <1>5, <1>6, <2>1, <2>2, TdSays
<1>12. CASE TdParameters
  <2>1. CASE \E s \in Restored : td' = [td EXCEPT !.state = s] /\ inbox' = Append(inbox, Update(s))
    <3>1. PICK s \in Restored : td' = [td EXCEPT !.state = s] /\ inbox' = Append(inbox, Update(s))
      BY <2>1
    <3>2. s \in States
      BY <1>2
    <3>3. Moved(s)
      BY <1>1, <3>1, <3>2, TdUpdates
    <3>. QED  BY <1>7, <3>2, <3>3
  <2>2. CASE inbox' = Append(inbox, Error("real")) /\ td' = td
    BY <1>1, <1>8, <2>2
  <2>. QED  BY <1>12, <2>1, <2>2 DEF TdParameters
<1>13. ASSUME NEW q \in Queries, TdQuery(q) PROVE AuthInv'
  <2>1. CASE td' = [td EXCEPT !.query = q, !.old = GivenUp]
    <3>1. td' \in TdStates /\ td'.state = td.state
      BY <1>1, <1>3, <2>1, TdAsked
    <3>. QED  BY <1>8, <1>13, <3>1 DEF TdQuery
  <2>2. CASE td' = td
    BY <1>1, <1>8, <1>13, <2>2 DEF TdQuery
  <2>. QED  BY <1>13, <2>1, <2>2 DEF TdQuery
<1>14. CASE TdLogOut
  <2>1. CASE inbox' = Append(inbox, Error("real")) /\ td' = td
    BY <1>1, <1>8, <2>1
  <2>2. CASE /\ td' = [state |-> "loggingOut", query |-> "none", old |-> GivenUp]
             /\ inbox' = Append(inbox, Update("loggingOut"))
    <3>1. Moved("loggingOut")
      BY <1>1, <1>3, <2>2, TdRecords
    <3>. QED  BY <1>1, <1>7, <3>1
  <2>. QED  BY <1>14, <2>1, <2>2 DEF TdLogOut
<1>15. CASE TdResult
  <2>1. CASE \E s \in LeadsTo(td.query) : /\ td' = [td EXCEPT !.state = s, !.query = "none"]
                                          /\ inbox' = Append(inbox, Update(s))
    <3>1. LeadsTo(td.query) \subseteq States
      BY <1>3, <1>15, QueryTypes DEF TdResult
    <3>2. PICK s \in LeadsTo(td.query) : /\ td' = [td EXCEPT !.state = s, !.query = "none"]
                                         /\ inbox' = Append(inbox, Update(s))
      BY <2>1
    <3>3. s \in States
      BY <3>1
    <3>4. Moved(s)
      BY <1>1, <3>2, <3>3, TdMoved
    <3>. QED  BY <1>7, <3>3, <3>4
  <2>2. CASE td' = [td EXCEPT !.query = "none"] /\ inbox' = Append(inbox, Error("real"))
    <3>1. Refused
      BY <1>1, <2>2, TdUpdates
    <3>. QED  BY <1>8, <3>1
  <2>. QED  BY <1>15, <2>1, <2>2 DEF TdResult
<1>16. CASE TdLateResult
  <2>1. PICK q \in td.old : td' = [state |-> "ready", query |-> "none", old |-> GivenUp \ {q}]
    BY <1>16 DEF TdLateResult
  <2>2. td' \in TdStates /\ td'.state = "ready"
    BY <1>1, <1>3, <2>1, TdRecords
  <2>3. CASE td.state = "ready" /\ inbox' = inbox
    BY <1>8, <2>2, <2>3
  <2>4. CASE inbox' = Append(inbox, Update("ready"))
    BY <1>1, <1>7, <2>2, <2>4
  <2>. QED  BY <1>16, <2>3, <2>4 DEF TdLateResult
<1>17. CASE TdMoves
  <2>1. PICK s \in States : /\ td' = [td EXCEPT !.state = s, !.query = "none"]
                            /\ inbox' = Append(inbox, Update(s))
    BY <1>17 DEF TdMoves
  <2>2. Moved(s)
    BY <1>1, <2>1, TdMoved
  <2>. QED  BY <1>7, <2>2
<1>18. CASE TdCloses
  <2>1. td' \in TdStates /\ td'.state \notin Interactive /\ inbox' = inbox
    BY <1>1, <1>18, TdUpdates DEF TdCloses
  <2>. QED  BY <1>5, <1>6, <2>1, TdSays
\* The worker's last words are not of a state, and it waits for nobody.
<1>19. CASE TdFatal
  <2>1. td' \in TdStates /\ td'.state = "dead"
    BY <1>19, TdRecords DEF TdFatal
  <2>2. inbox' \in Seq(Messages)
    <3>1. [kind |-> "fatal", val |-> "real"] \in Messages /\ inbox \in Seq(Messages)
      BY MessageTypes DEF AuthInv, TypeOK
    <3>. QED  BY <1>19, <3>1, QueueTypes DEF TdFatal
  <2>3. ScreenInv'
    BY <1>1, <2>1 DEF ScreenInv
  <2>. QED  BY <1>5, <1>6, <2>1, <2>2, <2>3, TdTypes
<1>. QED  BY <1>9, <1>10, <1>11, <1>12, <1>13, <1>14, <1>15, <1>16, <1>17, <1>18, <1>19 DEF TdRequests

-----------------------------------------------------------------------------
(* The theorems                                                            *)

LEMMA Invariance == Spec => []AuthInv
<1>1. Init => AuthInv
  <2> SUFFICES ASSUME Init PROVE AuthInv
    OBVIOUS
  <2>1. TypeOK
    <3>1. requests \in Seq(Queries \cup {"getState", "params", "logOut"}) /\ inbox \in Seq(Messages)
      BY DEF Init
    <3>. QED  BY <3>1 DEF Init, TypeOK, Phases, PCs, States, TdStates
  <2>2. ScreenInv
    BY DEF Init, ScreenInv, Interactive
  <2>. QED  BY <2>1, <2>2 DEF AuthInv
<1>2. AuthInv /\ [Next]_vars => AuthInv'
  <2> SUFFICES ASSUME AuthInv, [Next]_vars PROVE AuthInv'
    OBVIOUS
  <2>1. CASE UNCHANGED vars
    <3>1. TypeOK'
      BY <2>1 DEF vars, authVars, initVars, AuthInv, TypeOK
    <3>2. ScreenInv'
      BY <2>1, ScreenOnly DEF vars, authVars
    <3>. QED  BY <3>1, <3>2 DEF AuthInv
  <2>. QED  BY <2>1, InitializeStep, DeliverStep, UserStep, TdStep DEF Next
<1>. QED  BY <1>1, <1>2, PTL DEF Spec

\* Every variable keeps its type, whatever the build, the faults and the state found in the
\* database: the screen is one of AuthPhase, initialize() is at one of its awaits.
THEOREM TypeCorrect == Spec => []TypeOK
<1>1. AuthInv => TypeOK
  BY DEF AuthInv
<1>. QED  BY <1>1, Invariance, PTL

\* When everything TDLib has said has been delivered to _handleUpdate, a login screen or the chat
\* list is that of the state TDLib is in, however many messages were on their way, whatever was
\* retried and whatever changed on its own.
THEOREM ScreenIsAlwaysCurrent == Spec => []ScreenIsCurrent
<1>1. AuthInv => ScreenIsCurrent
  <2> SUFFICES ASSUME AuthInv, inbox = <<>>, phase \in Interactive, td.state \in Interactive
               PROVE  phase = td.state
    BY DEF ScreenIsCurrent
  <2>1. PICK i \in 0 .. Len(inbox) : CurrentFrom(i, td.state)
    BY DEF AuthInv, ScreenInv
  <2>2. i = 0
    BY <2>1
  <2>. QED  BY <2>1, <2>2 DEF CurrentFrom
<1>. QED  BY <1>1, Invariance, PTL
=============================================================================
