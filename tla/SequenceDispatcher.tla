------------------------- MODULE SequenceDispatcher -------------------------
(***************************************************************************)
(* td/td/telegram/SequenceDispatcher.cpp, MultiSequenceDispatcherImpl:     *)
(* queries that the server must execute in the order they were made, such  *)
(* as the messages sent to a chat.  They are sent without waiting for each *)
(* other, each naming the attempts of its predecessors that it comes after *)
(* (invokeAfter), and sent again when one of those fails.                  *)
(***************************************************************************)
EXTENDS ChainScheduler

CONSTANTS
    Routes,        \* the sequences of chains a query may be on
    MaxAttempts    \* bound: attempts at a query after which the network has no more faults

ASSUME DispatcherAssumption ==
    /\ MaxAttempts \in Nat \ {0}
    /\ Routes \subseteq Seq(Chains)
    /\ \A r \in Routes : r # <<>> /\ IsInjective(r)   \* NetQuery makes them unique

VARIABLES
    sched,     \* scheduler_
    place,     \* of a query: none, held by its node, sent, with its callback
    attempt,   \* of a query: its message, numbered; it is what others come after
    after,     \* of a query that is sent: the attempts it comes after
    result,    \* of a query: none, or what became of its attempt
    flood,     \* last_timeout_ of a query is not zero
    owed,      \* total_timeout of a node is not zero
    executed   \* the server: the attempt at a query that it executed, or 0

vars == <<sched, place, attempt, after, result, flood, owed, executed>>

Init ==
    /\ sched = NewScheduler
    /\ place = [t \in Tasks |-> "none"]
    /\ attempt = [t \in Tasks |-> 0]
    /\ after = [t \in Tasks |-> {}]
    /\ result = [t \in Tasks |-> "none"]
    /\ flood = [t \in Tasks |-> FALSE]
    /\ owed = [t \in Tasks |-> FALSE]
    /\ executed = [t \in Tasks |-> 0]

-----------------------------------------------------------------------------
(* The dispatcher.  Each handler makes d from its nodes and its scheduler, *)
(* and loop sends what the scheduler has started.                          *)

Dispatcher == [sched |-> sched, place |-> place, result |-> result, owed |-> owed]

Becomes(d) ==
    /\ sched' = d.sched /\ place' = d.place /\ result' = d.result /\ owed' = d.owed
    /\ UNCHANGED <<attempt, after, flood, executed>>

\* Mutant: what is sent names no predecessor.
Loop_NoInvokeAfter(d) ==
    LET out == Range(d.sched.pending)
        n == [t \in Tasks |-> IF t \in out THEN attempt[t] + 1 ELSE attempt[t]]
        hasQueries == IsInjective(d.sched.pending) /\ \A t \in out : d.place[t] = "held"
    IN  /\ sched' = [d.sched EXCEPT !.pending = <<>>, !.ok = @ /\ hasQueries]
        /\ place' = [t \in Tasks |-> IF t \in out THEN "sent" ELSE d.place[t]]
        /\ attempt' = n
        /\ after' = [t \in Tasks |-> IF t \in out THEN {} ELSE after[t]]
        /\ result' = [t \in Tasks |-> IF t \in out THEN "none" ELSE d.result[t]]
        /\ flood' = [t \in Tasks |-> flood[t] /\ t \notin out]
        /\ owed' = d.owed
        /\ UNCHANGED executed

\* flush_pending_queries: a node whose query is sent must have it, and has it no more; the
\* parents' queries have been sent by then.
Loop(d) ==
    LET out == Range(d.sched.pending)
        n == [t \in Tasks |-> IF t \in out THEN attempt[t] + 1 ELSE attempt[t]]
        hasQueries == IsInjective(d.sched.pending) /\ \A t \in out : d.place[t] = "held"
    IN  /\ sched' = [d.sched EXCEPT !.pending = <<>>, !.ok = @ /\ hasQueries]
        /\ place' = [t \in Tasks |-> IF t \in out THEN "sent" ELSE d.place[t]]
        /\ attempt' = n
        /\ after' = [t \in Tasks |-> IF t \in out THEN {<<p, n[p]>> : p \in Parents(d.sched, t)} ELSE after[t]]
        /\ result' = [t \in Tasks |-> IF t \in out THEN "none" ELSE d.result[t]]
        /\ flood' = [t \in Tasks |-> flood[t] /\ t \notin out]
        /\ owed' = d.owed
        /\ UNCHANGED executed

\* try_resend: the callback is given the query.
TryResend(d, t) == [d EXCEPT !.place[t] = "callback"]

\* Mutant: the scheduler is not told.
TimedOut_NoPause(d, t) == TryResend([d EXCEPT !.result[t] = "error", !.owed[t] = FALSE], t)

\* check_timeout says that the query has waited too long: it fails with 429.
TimedOut(d, t) ==
    TryResend([d EXCEPT !.sched = PauseTask(@, t), !.result[t] = "error", !.owed[t] = FALSE], t)

\* Mutant: a query that is sent again keeps its place in the chain's generation.
DoResend_NoReset(d, t, late) == [d EXCEPT !.place[t] = "held", !.owed[t] = FALSE]

DoResend(d, t, late) ==
    IF late /\ d.owed[t] THEN TimedOut(d, t)
    ELSE [d EXCEPT !.sched = ResetTask(@, t), !.place[t] = "held", !.owed[t] = FALSE]

\* The queries after t, whose nodes are told what t had to wait; late are those that have
\* waited too long by now.
Dependents(s, t) == {u \in Tasks : Exists(s, u) /\ u > t /\ ChainsOf(s, u) \cap ChainsOf(s, t) # {}}

PassTimeout(d, t, late) ==
    LET deps == Dependents(d.sched, t)
        check(x, u) ==
            IF u \notin deps \/ x.place[u] # "held" THEN x
            ELSE IF u \in late THEN TimedOut(x, u) ELSE [x EXCEPT !.owed[u] = FALSE]
        checked[n \in 0 .. MaxTasks] ==
            IF n = 0 THEN [d EXCEPT !.owed = [u \in Tasks |-> @[u] \/ u \in deps]]
            ELSE check(checked[n - 1], n)
    IN  checked[MaxTasks]

Send(on) ==
    \E t \in Tasks :
        /\ sched.state[t] = "none" /\ \A u \in 1 .. t - 1 : sched.state[u] # "none"
        /\ Loop([Dispatcher EXCEPT !.sched = CreateTask(@, t, on), !.place[t] = "held"])

\* on_result.  "wait" is ResendInvokeAfter, MSG_WAIT_FAILED or MSG_WAIT_TIMEOUT.  When the
\* callback is asked, loop() does not run.
OnResult(t) ==
    /\ place[t] = "sent" /\ result[t] # "none"
    /\ \E late \in SUBSET (IF flood[t] THEN Dependents(sched, t) \cup {t} ELSE {t}) :
          LET d == IF flood[t] THEN PassTimeout(Dispatcher, t, late) ELSE Dispatcher
          IN  IF result[t] = "wait" THEN Loop(DoResend(d, t, t \in late))
              ELSE Becomes(TryResend(d, t))

\* on_resend: only a query that failed is asked to be sent again.
OnResend(t, again) ==
    /\ place[t] = "callback"
    /\ again => result[t] = "error" /\ attempt[t] < MaxAttempts
    /\ IF again THEN \E late \in BOOLEAN : Loop(DoResend(Dispatcher, t, late))
       ELSE Loop([Dispatcher EXCEPT !.sched = FinishTask(@, t), !.place[t] = "none"])

-----------------------------------------------------------------------------
(* The network and the server (external: Session, NetQueryDelayer).        *)

InFlight(t) == place[t] = "sent" /\ result[t] = "none"

\* An attempt that will not be executed any more.
Failed(p) ==
    executed[p[1]] # p[2] /\ (p[2] < attempt[p[1]] \/ result[p[1]] \in {"error", "wait"})

Answered(t, r) ==
    /\ result' = [result EXCEPT ![t] = r]
    /\ UNCHANGED <<sched, place, attempt, after, owed>>

\* invokeAfter: when all that it comes after have been executed.
Execute(t) ==
    /\ InFlight(t) /\ \A p \in after[t] : executed[p[1]] = p[2]
    /\ executed' = [executed EXCEPT ![t] = attempt[t]]
    /\ Answered(t, "ok") /\ UNCHANGED flood

WaitFails(t) ==
    /\ InFlight(t) /\ \E p \in after[t] : Failed(p)
    /\ Answered(t, "wait") /\ UNCHANGED <<flood, executed>>

\* An error, or the query is cancelled, whatever became of those before it.
Refuse(t) ==
    /\ InFlight(t) /\ attempt[t] <= MaxAttempts
    /\ \E f \in BOOLEAN :
          Answered(t, "error") /\ flood' = [flood EXCEPT ![t] = @ \/ f] /\ UNCHANGED executed

\* The attempt is lost, or is delayed by a flood wait: a query that comes after others is given
\* back to the dispatcher, the first of its chains is sent again under a new number.
Retry(t) ==
    /\ InFlight(t) /\ attempt[t] < MaxAttempts
    /\ \E f \in BOOLEAN : flood' = [flood EXCEPT ![t] = @ \/ f]
    /\ IF after[t] # {}
       THEN result' = [result EXCEPT ![t] = "wait"] /\ UNCHANGED attempt
       ELSE attempt' = [attempt EXCEPT ![t] = @ + 1] /\ UNCHANGED result
    /\ UNCHANGED <<sched, place, after, owed, executed>>

-----------------------------------------------------------------------------
Next ==
    \/ \E on \in Routes : Send(on)
    \/ \E t \in Tasks :
          \/ OnResult(t) \/ OnResend(t, TRUE) \/ OnResend(t, FALSE)
          \/ Execute(t) \/ WaitFails(t) \/ Refuse(t) \/ Retry(t)

Spec == Init /\ [][Next]_vars

-----------------------------------------------------------------------------
(* Properties                                                              *)

\* Every variable keeps its type; no count of active tasks goes below zero.
TypeOK ==
    /\ \A t \in Tasks : sched.state[t] \in {"none", "Pending", "Active", "Paused", "gone"}
    /\ \A c \in Chains : sched.active[c] \in 0 .. MaxTasks /\ sched.limited[c] \in Tasks \cup {NoTask}
    /\ place \in [Tasks -> {"none", "held", "sent", "callback"}]
    /\ result \in [Tasks -> {"none", "ok", "error", "wait"}]
    /\ \A t \in Tasks : \A p \in after[t] : p \in Tasks \X (1 .. attempt[p[1]])

\* No CHECK fails: no task is started that is finished, the list of tasks to start is empty
\* between calls, and a task that is started has its query, also when it is paused while others
\* are being started.
ChecksHold ==
    /\ sched.ok
    /\ \A t \in Tasks : sched.state[t] = "Pending" => place[t] = "held"

\* A chain's count of active tasks is what it says and stays within the limit: it is kept by
\* hand through starts, failures, pauses and the erasure of chains.
ActiveCounted ==
    \A c \in Chains :
        /\ sched.active[c] = Cardinality({t \in Tasks : sched.state[t] = "Active" /\ c \in ChainsOf(sched, t)})
        /\ sched.active[c] <= MaxActive

\* No start is missed: whatever ended or failed, a task that is pending is held back by one of
\* its chains.
NoStartMissed ==
    \A t \in Tasks : sched.state[t] = "Pending" =>
        \E c \in ChainsOf(sched, t) : Behind(sched, t, c) \/ Full(sched, c)

\* The server executes queries of a chain in the order they were made, each at most once,
\* although they are sent without waiting, fail, time out and are sent again: when one is
\* executed, those before it have been executed or given up.
InOrder ==
    [][\A t \in Tasks : executed'[t] # executed[t] =>
          /\ executed[t] = 0
          /\ \A u \in 1 .. t - 1 : ChainsOf(sched, u) \cap ChainsOf(sched, t) # {} =>
                executed[u] # 0 \/ sched.state[u] = "gone"]_vars

\* A failure is not answered by sending in vain: a query that fails because one before it did is
\* held until that one is dealt with, so that beyond the network's faults each query before it
\* costs it at most one attempt.  (This is what the generations of a chain are for.)
NoBusyLoop == \A t \in Tasks : attempt[t] < MaxAttempts + t

\* Not everyone waits for everyone: while there are queries, one is with its callback, has an
\* answer to be handled, or will get one, since those it comes after were executed or failed.
NoStall ==
    (\E t \in Tasks : Exists(sched, t)) =>
        \E t \in Tasks :
            \/ place[t] = "callback"
            \/ place[t] = "sent" /\ (\/ result[t] # "none"
                                     \/ \A p \in after[t] : executed[p[1]] = p[2]
                                     \/ \E p \in after[t] : Failed(p))
=============================================================================
