---------------------------- MODULE AuthManager ----------------------------
(***************************************************************************)
(* lib/core/auth/auth_manager.dart: the start of a session and the login.  *)
(*                                                                         *)
(* initialize() is a chain of awaits; pc is the await it has reached.      *)
(* TDLib's messages go through _handleUpdate first and then wake the wait  *)
(* whose predicate accepts them; got is what that wait returned.  The      *)
(* continuation runs before the next timer or tap, but messages polled     *)
(* together may be delivered in between.                                   *)
(*                                                                         *)
(* TDLib is modelled by its authorization state and its current            *)
(* authorization query, as Td.cpp and AuthManager.cpp in td/ treat the     *)
(* requests this code sends.                                               *)
(***************************************************************************)
EXTENDS Naturals, Sequences

CONSTANTS
    Builds,       \* which builds of the application: the native one awaits setupProxies
    Faults,       \* which of the faults below may happen
    Restored,     \* the states TDLib may find in its database
    MaxRequests,  \* bound on requests TDLib has not handled, for another to be sent
    MaxInbox      \* bound on messages the client has not polled, for TDLib to send another

\* TDLib refuses setTdlibParameters; the user logs out, or is logged out from elsewhere;
\* tdweb reports a fatal error; the server wants a payment before it sends the code.
FaultKinds == {"params", "logOut", "fatal", "premium"}

\* The authorization states TDLib waits for the user in, and those in which it is authorized.
Interactive == {"phone", "code", "password", "qr", "registration", "emailAddress", "emailCode",
                "ready"}
Over == {"loggingOut", "closing", "closed"}
States == Interactive \cup Over \cup {"none", "params", "premium"}
\* The answers to getAuthorizationState that _handleUpdate has no case for.
Unhandled == {"params", "premium", "loggingOut"}

ASSUME AuthAssumption ==
    /\ Builds \subseteq {"native", "browser"} /\ Faults \subseteq FaultKinds
    /\ Restored \subseteq Interactive \cup {"premium"} /\ Restored # {}
    /\ MaxRequests \in Nat \ {0} /\ MaxInbox \in Nat \ {0}

\* The user's requests, and the authorization state each is made for.
Queries == {"phone", "qr", "code", "password", "registration", "emailAddress", "emailCode"}
MadeIn(q) == IF q = "qr" THEN "phone" ELSE q

\* The queries whose success is an authorization.
SignIns == {"code", "password", "registration", "emailCode"}

\* Where an authorization query leads when the server accepts it.
LeadsTo(q) ==
    CASE q = "phone" -> {"code", "emailAddress", "emailCode", "password", "ready"} \cup
                        (Faults \cap {"premium"})
      [] q = "qr" -> {"qr", "password", "ready"}
      [] q = "code" -> {"password", "registration", "ready"}
      [] q = "emailAddress" -> {"emailCode", "password"}
      [] q = "emailCode" -> {"code", "password", "registration", "ready"}
      [] OTHER -> {"ready"}

VARIABLES
    build,       \* "native": there is a ProxyManager; "browser": there is none
    phase,       \* _phase, named after the state it shows
    inProgress,  \* _isAuthRequestInProgress
    authTimer,   \* _authTimeoutTimer is armed
    pc,          \* where initialize() awaits; _isInitializing is pc \notin {"boot", "idle"}
    got,         \* what its wait has returned, or "none"
    initialized, \* _initialized
    lastState,   \* _lastAuthorizationState, "none" if null
    client,      \* the TDLib client exists
    td,          \* TDLib: its authorization state, the current query, or "none", and the
                 \* sign-ins it has given up, which are not canceled
    requests,    \* requests TDLib has not handled
    inbox        \* messages the client has not polled

authVars == <<phase, inProgress, authTimer, lastState>>
initVars == <<pc, got, initialized>>
vars == <<build, authVars, initVars, client, td, requests, inbox>>

\* TDLib's state is "dead" when the worker of tdweb has died of an error.
TdStates == [state : States \cup {"dead"}, query : Queries \cup {"none"}, old : SUBSET SignIns]

Phases == Interactive \cup {"initializing", "error"}
PCs == {"boot", "idle", "client", "setup", "configure", "params", "await"}
Messages == [kind : {"update", "answer"}, val : States] \cup
            [kind : {"error"}, val : {"benign", "real"}] \cup [kind : {"fatal"}, val : {"real"}]
Update(s) == [kind |-> "update", val |-> s]
Error(e) == [kind |-> "error", val |-> e]

Quiet == got = "none"

-----------------------------------------------------------------------------
(* The handler of TDLib's messages                                         *)

\* Mutant: a state that answers no request of the user leaves the screen alone.
HandleAuthorizationState_OwnOnly(s) ==
    /\ inProgress' = FALSE /\ authTimer' = FALSE /\ lastState' = s
    /\ phase' = CASE s \in Interactive /\ (inProgress \/ phase = "initializing") -> s
                  [] OTHER -> phase

\* Mutant: every state is taken for a screen.
HandleAuthorizationState_AnyScreen(s) ==
    /\ inProgress' = FALSE /\ authTimer' = FALSE /\ lastState' = s
    /\ phase' = s

\* _handleAuthorizationState.  Closing and Closed show the phone screen; LoggingOut and
\* WaitTdlibParameters leave the screen as it is.
HandleAuthorizationState(s) ==
    /\ inProgress' = FALSE /\ authTimer' = FALSE /\ lastState' = s
    /\ phase' = CASE s \in Interactive -> s
                  [] s \in {"closing", "closed"} -> "phone"
                  [] OTHER -> phase

ShowError ==
    /\ inProgress' = FALSE /\ authTimer' = FALSE /\ phase' = "error"
    /\ UNCHANGED lastState

\* Mutant: the answer to getAuthorizationState is not handled at all.
HandleUpdate_NoAnswer(m) ==
    \/ m.kind = "update" /\ HandleAuthorizationState(m.val)
    \/ m.kind = "fatal" /\ ShowError
    \/ m.kind = "error" /\ phase # "ready" /\ m.val # "benign" /\ ShowError
    \/ /\ m.kind = "answer" \/ (m.kind = "error" /\ (phase = "ready" \/ m.val = "benign"))
       /\ UNCHANGED authVars

\* _handleUpdate; errors are ignored once the user is logged in.
HandleUpdate(m) ==
    \/ m.kind = "update" /\ HandleAuthorizationState(m.val)
    \/ /\ m.kind = "answer" /\ m.val \notin Unhandled
       /\ HandleAuthorizationState(m.val)
    \/ m.kind = "fatal" /\ ShowError
    \/ m.kind = "error" /\ phase # "ready" /\ m.val # "benign" /\ ShowError
    \/ /\ \/ m.kind = "answer" /\ m.val \in Unhandled
          \/ m.kind = "error" /\ (phase = "ready" \/ m.val = "benign")
       /\ UNCHANGED authVars

\* isTdlibParametersStageUpdate and isInteractiveAuthorizationUpdate.
Wakes(m) ==
    \/ pc = "params" /\ m.kind \in {"update", "answer"} /\ m.val \in Interactive \cup {"params"}
    \/ pc = "await" /\ m.kind \in {"update", "answer"} /\ m.val \in Interactive

Deliver ==
    LET m == Head(inbox)
    IN  /\ inbox # <<>> /\ got # "timeout"
        /\ inbox' = Tail(inbox)
        /\ HandleUpdate(m)
        /\ got' = IF Quiet /\ Wakes(m) THEN m.val ELSE got
        /\ UNCHANGED <<pc, initialized, build, client, td, requests>>

-----------------------------------------------------------------------------
(* initialize()                                                            *)

\* The first call is made when the application starts, the others by the button of the
\* error screen.  A session that has been initialized only asks for the state.
Initialize ==
    /\ Quiet
    /\ pc = "boot" \/ (pc = "idle" /\ phase = "error")
    /\ phase' = "initializing"
    /\ IF initialized
       THEN /\ Len(requests) < MaxRequests
            /\ requests' = Append(requests, "getState")
            /\ UNCHANGED pc
       ELSE pc' = "client" /\ UNCHANGED requests
    /\ UNCHANGED <<inProgress, authTimer, lastState, got, initialized, build, client, td, inbox>>

\* Mutant: _isInitializing is not reset (no finally).
Fail_NoFinally == phase' = "error" /\ got' = "none" /\ UNCHANGED pc

\* An exception inside initialize().
Fail == phase' = "error" /\ pc' = "idle" /\ got' = "none"

\* initialize() goes on to await at p; the wait for an interactive state returns at once
\* if the screen shows one, and initialize() with it.
GoOn(p) ==
    LET done == p = "await" /\ phase \in Interactive
    IN  /\ pc' = IF done THEN "idle" ELSE p
        /\ initialized' = (initialized \/ done)
        /\ got' = "none"

\* What _applyTdlibParametersWhenReady does about state s.
StageOf(s) ==
    CASE s = "params" -> "configure"
      [] s \in Interactive -> "await"
      [] OTHER -> "params"

\* _applyTdlibParametersWhenReady up to its first await.
ApplyParameters == GoOn(IF phase \in Interactive THEN "await" ELSE StageOf(lastState))

\* ensureClient throws: no library, no credentials, no tdweb.
ClientFails ==
    /\ Quiet /\ pc = "client" /\ ~client
    /\ Fail
    /\ UNCHANGED <<inProgress, authTimer, lastState, initialized, build, client, td, requests, inbox>>

\* ensureClient returns.  In the browser it has waited for the first update, which is
\* handled at once.
ClientReady ==
    /\ Quiet /\ pc = "client"
    /\ client' = TRUE
    /\ IF build = "native"
       THEN /\ GoOn("setup")
            /\ UNCHANGED <<authVars, td>>
       ELSE \/ /\ ~client
               /\ td' = [td EXCEPT !.state = "params"]
               /\ lastState' = "params"
               /\ GoOn("configure")
               /\ UNCHANGED <<phase, inProgress, authTimer>>
            \/ /\ client
               /\ ApplyParameters
               /\ UNCHANGED <<authVars, td>>
    /\ UNCHANGED <<build, requests, inbox>>

\* TDLib keeps requests about proxies until it has its parameters.
AnswersProxies == td.state \notin {"none", "params", "closed"}

\* setupProxies returns (ProxyManager shows that it does).  Unless it has registered a
\* proxy, which takes TDLib's answer, initialize() throws.
SetupReturned ==
    /\ Quiet /\ pc = "setup"
    /\ \E registered \in (IF AnswersProxies THEN BOOLEAN ELSE {FALSE}) :
          IF registered THEN ApplyParameters /\ UNCHANGED phase
                        ELSE Fail /\ UNCHANGED initialized
    /\ UNCHANGED <<inProgress, authTimer, lastState, build, client, td, requests, inbox>>

\* TdlibClient.configure has the directories: setTdlibParameters.
Configure ==
    /\ Quiet /\ pc = "configure"
    /\ Len(requests) < MaxRequests
    /\ requests' = Append(requests, "params")
    /\ GoOn("await")
    /\ UNCHANGED <<authVars, build, client, td, inbox>>

\* The wait for WaitTdlibParameters or a later state is over.  Every client has sent its
\* state before this wait begins, so the question for it when none is known never is asked.
ParamsStage ==
    LET s == IF got = "timeout" THEN lastState ELSE got
    IN  /\ pc = "params" /\ got # "none"
        /\ IF s \in Interactive \cup {"params"}
           THEN GoOn(StageOf(s)) /\ UNCHANGED phase
           ELSE Fail /\ UNCHANGED initialized
        /\ UNCHANGED <<inProgress, authTimer, lastState, build, client, td, requests, inbox>>

\* The wait for an interactive state is over: it is an error if nothing has happened.
Awaited ==
    /\ pc = "await" /\ got # "none"
    /\ IF got = "timeout" /\ phase = "initializing"
       THEN Fail /\ UNCHANGED initialized
       ELSE pc' = "idle" /\ got' = "none" /\ initialized' = TRUE /\ UNCHANGED phase
    /\ UNCHANGED <<inProgress, authTimer, lastState, build, client, td, requests, inbox>>

\* initTimeout has passed.
WaitTimeout ==
    /\ Quiet /\ pc \in {"params", "await"}
    /\ got' = "timeout"
    /\ UNCHANGED <<authVars, pc, initialized, build, client, td, requests, inbox>>

-----------------------------------------------------------------------------
(* The user                                                                *)

\* Mutant: the request is sent without arming the timer.
Submit_NoTimer(q) ==
    /\ Quiet /\ ~inProgress /\ phase = MadeIn(q)
    /\ Len(requests) < MaxRequests
    /\ inProgress' = TRUE
    /\ requests' = Append(requests, q)
    /\ UNCHANGED <<phase, authTimer, lastState, initVars, build, client, td, inbox>>

\* submitPhoneNumber, requestQrCodeAuthentication, submitCode, submitPassword,
\* submitEmailAddress and registerUser.
Submit(q) ==
    /\ Quiet /\ ~inProgress /\ phase = MadeIn(q)
    /\ Len(requests) < MaxRequests
    /\ inProgress' = TRUE /\ authTimer' = TRUE
    /\ requests' = Append(requests, q)
    /\ UNCHANGED <<phase, lastState, initVars, build, client, td, inbox>>

LogOut ==
    /\ Quiet /\ phase = "ready" /\ "logOut" \in Faults
    /\ Len(requests) < MaxRequests
    /\ requests' = Append(requests, "logOut")
    /\ UNCHANGED <<authVars, initVars, build, client, td, inbox>>

\* The 45 s timer of _beginAuthRequest.
AuthTimeout ==
    /\ Quiet /\ authTimer
    /\ authTimer' = FALSE
    /\ inProgress' = FALSE
    /\ phase' = IF inProgress THEN "error" ELSE phase
    /\ UNCHANGED <<lastState, initVars, build, client, td, requests, inbox>>

-----------------------------------------------------------------------------
(* TDLib                                                                   *)

Room == Len(inbox) < MaxInbox

\* A native client sends its first update when it has started.
TdStarts ==
    /\ client /\ td.state = "none" /\ Room
    /\ td' = [td EXCEPT !.state = "params"]
    /\ inbox' = Append(inbox, Update("params"))
    /\ UNCHANGED <<authVars, initVars, build, client, requests>>

\* In which states TDLib accepts a query: the one it is made for, and for some queries a
\* later one if the server is not being asked.
Accepts(q) ==
    \/ td.state = MadeIn(q)
    \/ /\ q \in {"phone", "qr"} /\ td.query = "none"
       /\ td.state \in {"premium", "code", "password", "registration", "emailAddress", "emailCode"}
    \/ q = "emailAddress" /\ td.state = "emailCode" /\ td.query = "none"
    \/ q = "emailCode" /\ td.state = "emailAddress"

\* TDLib handles the oldest request.
TdHandles(op) ==
    /\ requests # <<>> /\ Head(requests) = op /\ Room
    /\ td.state \notin {"none", "closed", "dead"}
    /\ requests' = Tail(requests)
    /\ UNCHANGED <<authVars, initVars, build, client>>

\* A client that is closed answers with an error; the worker of tdweb, closed or dead, drops
\* every request.
TdGone ==
    /\ requests # <<>> /\ td.state \in {"closed", "dead"} /\ Room
    /\ requests' = Tail(requests)
    /\ inbox' = IF build = "native" THEN Append(inbox, Error("real")) ELSE inbox
    /\ UNCHANGED <<authVars, initVars, build, client, td>>

TdGetState ==
    /\ TdHandles("getState")
    /\ inbox' = Append(inbox, [kind |-> "answer", val |-> td.state])
    /\ UNCHANGED td

TdParameters ==
    /\ TdHandles("params")
    /\ \/ /\ td.state = "params"
          /\ \E s \in Restored :
                td' = [td EXCEPT !.state = s] /\ inbox' = Append(inbox, Update(s))
       \/ /\ td.state # "params" \/ "params" \in Faults
          /\ inbox' = Append(inbox, Error("real"))
          /\ UNCHANGED td

\* The sign-ins that are running and are no longer the current query.
GivenUp == td.old \cup ({td.query} \cap SignIns)

\* on_new_query: a query that is still running is given up with a benign error.
TdQuery(q) ==
    /\ TdHandles(q)
    /\ \/ /\ Accepts(q)
          /\ td' = [td EXCEPT !.query = q, !.old = GivenUp]
          /\ inbox' = IF td.query = "none" THEN inbox ELSE Append(inbox, Error("benign"))
       \/ /\ ~Accepts(q)
          /\ inbox' = Append(inbox, Error("real"))
          /\ UNCHANGED td

TdLogOut ==
    /\ TdHandles("logOut")
    /\ IF td.state \in Over
       THEN inbox' = Append(inbox, Error("real")) /\ UNCHANGED td
       ELSE /\ td' = [state |-> "loggingOut", query |-> "none", old |-> GivenUp]
            /\ inbox' = Append(inbox, Update("loggingOut"))

\* The server answers the current query.
TdResult ==
    /\ td.query # "none" /\ Room
    /\ \/ \E s \in LeadsTo(td.query) :
             /\ td' = [td EXCEPT !.state = s, !.query = "none"]
             /\ inbox' = Append(inbox, Update(s))
       \/ td' = [td EXCEPT !.query = "none"] /\ inbox' = Append(inbox, Error("real"))
    /\ UNCHANGED <<authVars, initVars, build, client, requests>>

\* The server accepts a sign-in that was given up: it is an authorization all the same, and
\* the current query is done.
TdLateResult ==
    /\ Room /\ td.state \notin {"closing", "closed", "dead"}
    /\ \E q \in td.old :
          td' = [state |-> "ready", query |-> "none", old |-> GivenUp \ {q}]
    /\ inbox' = IF td.state = "ready" THEN inbox ELSE Append(inbox, Update("ready"))
    /\ UNCHANGED <<authVars, initVars, build, client, requests>>

\* The state changes without a request: the other device confirms, or the session is
\* terminated from elsewhere; the log-out ends.
TdMoves ==
    /\ Room
    /\ \E s \in States :
          /\ \/ td.state = "qr" /\ s \in {"password", "ready"}
             \/ td.state = "ready" /\ s = "loggingOut" /\ "logOut" \in Faults
             \/ td.state = "closing" /\ s = "closed"
          /\ td' = [td EXCEPT !.state = s, !.query = "none"]
          /\ inbox' = Append(inbox, Update(s))
    /\ UNCHANGED <<authVars, initVars, build, client, requests>>

\* The session is over and TDLib closes, of which it sends no update.
TdCloses ==
    /\ td.state = "loggingOut"
    /\ td' = [td EXCEPT !.state = "closing"]
    /\ UNCHANGED <<authVars, initVars, build, client, requests, inbox>>

\* The worker of tdweb dies of an error and says so; it says nothing more.
TdFatal ==
    /\ "fatal" \in Faults /\ build = "browser" /\ client /\ Room
    /\ td.state \notin {"closed", "dead"}
    /\ td' = [state |-> "dead", query |-> "none", old |-> {}]
    /\ inbox' = Append(inbox, [kind |-> "fatal", val |-> "real"])
    /\ UNCHANGED <<authVars, initVars, build, client, requests>>

-----------------------------------------------------------------------------
Init ==
    /\ build \in Builds
    /\ phase = "initializing" /\ inProgress = FALSE /\ authTimer = FALSE
    /\ pc = "boot" /\ got = "none" /\ initialized = FALSE /\ lastState = "none"
    /\ client = FALSE /\ td = [state |-> "none", query |-> "none", old |-> {}]
    /\ requests = <<>> /\ inbox = <<>>

Continue == ParamsStage \/ Awaited
Events == ClientReady \/ SetupReturned \/ Configure \/ WaitTimeout
TdRequests == TdGone \/ TdGetState \/ TdParameters \/ TdLogOut \/ \E q \in Queries : TdQuery(q)

Next ==
    \/ Initialize \/ ClientFails \/ Events \/ Continue \/ Deliver
    \/ AuthTimeout \/ LogOut \/ \E q \in Queries : Submit(q)
    \/ TdStarts \/ TdRequests \/ TdResult \/ TdLateResult \/ TdMoves \/ TdCloses \/ TdFatal

Spec == Init /\ [][Next]_vars

\* The event loop polls TDLib and runs what is due; TDLib starts and handles requests in
\* order.  Neither the user nor Telegram's servers are assumed to do anything.
Fairness ==
    /\ WF_vars(Deliver) /\ WF_vars(Continue)
    /\ SF_vars(Events) /\ SF_vars(AuthTimeout)
    /\ WF_vars(TdStarts) /\ SF_vars(TdRequests)

FairSpec == Spec /\ Fairness

\* As FairSpec, with a user who presses the button of the error screen.
RetrySpec == FairSpec /\ WF_vars(Initialize)

-----------------------------------------------------------------------------
(* Properties                                                              *)

\* Every variable keeps its type.
TypeOK ==
    /\ build \in Builds /\ phase \in Phases /\ inProgress \in BOOLEAN /\ authTimer \in BOOLEAN
    /\ pc \in PCs /\ got \in States \cup {"timeout"} /\ initialized \in BOOLEAN
    /\ lastState \in States /\ client \in BOOLEAN
    /\ td \in TdStates
    /\ requests \in Seq(Queries \cup {"getState", "params", "logOut"})
    /\ inbox \in Seq(Messages)

\* When everything TDLib has said has been delivered, a login screen or the chat list is
\* the screen of the state TDLib is in: late answers, retries and states that change on
\* their own never leave an older screen.
ScreenIsCurrent ==
    inbox = <<>> /\ phase \in Interactive /\ td.state \in Interactive => phase = td.state

\* A screen that takes input belongs to a client that can use it.
ScreenIsServed == inbox = <<>> /\ phase \in Interactive \ {"ready"} => td.state # "closed"

\* A request of the user ends, by an answer or by its timer: the form is not disabled for
\* ever, whatever the server does.
RequestEnds == inProgress ~> ~inProgress

\* initialize() returns: the button of the error screen is not dead for ever.
InitializeEnds == pc \notin {"boot", "idle"} ~> pc = "idle"

\* TDLib's answer to the question for its state changes no screen, or there is none.
SaysNothing ==
    \/ td.state \in Unhandled \cup {"dead"}
    \/ td.state = "closed" /\ build = "browser"

\* The spinner gives way to a login screen, the chat list or an error with a retry button,
\* unless it is that of a retry which only asks TDLib for its state (initialize() has
\* returned before) and TDLib is where the answer says nothing to _handleUpdate.
SpinnerEnds ==
    <>[](phase = "initializing" /\ pc # "boot") => <>[](initialized /\ SaysNothing)

\* If the user retries as often as it takes, the application reaches a login screen or the
\* chat list.
StartsUp == <>(phase \in Interactive)

=============================================================================
