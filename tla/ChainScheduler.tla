--------------------------- MODULE ChainScheduler ---------------------------
(***************************************************************************)
(* tdutils/td/utils/ChainScheduler.h: tasks, each on one or more chains, a *)
(* chain being the list of its unfinished tasks in the order they came.  A *)
(* task may start when its predecessor on each of its chains was started   *)
(* in the chain's present generation; a failure begins a new generation.   *)
(* Every method is an operator on the scheduler's state, a record.         *)
(***************************************************************************)
EXTENDS Naturals, SequencesExt, FiniteSets

CONSTANTS
    Chains,      \* ids of chains
    MaxTasks,    \* bound: tasks are numbered as they are created
    MaxActive    \* active tasks a chain may have; 10 in the code

ASSUME SchedulerAssumption ==
    IsFiniteSet(Chains) /\ MaxTasks \in Nat /\ MaxActive \in Nat \ {0}

Tasks == 1 .. MaxTasks
NoTask == 0

\* state, on (Task::chains), gen (ChainNode::generation) of a task; chain, active (active_tasks),
\* cgen (generation) of a chain; limited (limited_tasks_), pending (pending_tasks_), later
\* (to_start_); ok: no CHECK has failed.
NewScheduler ==
    [state |-> [t \in Tasks |-> "none"], on |-> [t \in Tasks |-> <<>>],
     gen |-> [t \in Tasks |-> [c \in Chains |-> 0]],
     chain |-> [c \in Chains |-> <<>>], active |-> [c \in Chains |-> 0], cgen |-> [c \in Chains |-> 1],
     limited |-> [c \in Chains |-> NoTask], pending |-> <<>>, later |-> <<>>, ok |-> TRUE]

ChainsOf(s, t) == Range(s.on[t])
Exists(s, t) == s.state[t] \in {"Pending", "Active", "Paused"}

Position(q, t) == CHOOSE i \in DOMAIN q : q[i] = t
GetParent(s, t, c) == LET i == Position(s.chain[c], t) IN IF i > 1 THEN s.chain[c][i - 1] ELSE NoTask
GetChild(s, t, c) == LET i == Position(s.chain[c], t) IN IF i < Len(s.chain[c]) THEN s.chain[c][i + 1] ELSE NoTask
GetFirst(s, c) == IF s.chain[c] = <<>> THEN NoTask ELSE Head(s.chain[c])

\* for_each_child; NoTask where t is the last of a chain.
Children(s, t) == [i \in DOMAIN s.on[t] |-> GetChild(s, t, s.on[t][i])]

-----------------------------------------------------------------------------
(* Starting tasks                                                          *)

\* The predecessor was not started in this generation of the chain.
Behind(s, t, c) ==
    LET p == GetParent(s, t, c) IN p # NoTask /\ s.gen[p][c] # s.cgen[c]

\* Mutant: one task too many.
Full_OffByOne(s, c) == s.active[c] > MaxActive

Full(s, c) == s.active[c] >= MaxActive

\* The places, among its chains, of those that hold it back.
HeldBy(s, t) == {i \in DOMAIN s.on[t] : Behind(s, t, s.on[t][i]) \/ Full(s, s.on[t][i])}

\* do_start_task, but for the calls of try_start_task: it is to be sent.
DoStartTask(s, t) ==
    LET cs == ChainsOf(s, t)
    IN  [s EXCEPT !.state[t] = "Active", !.pending = Append(@, t),
                  !.gen[t] = [c \in Chains |-> IF c \in cs THEN s.cgen[c] ELSE @[c]],
                  !.active = [c \in Chains |-> IF c \in cs THEN @[c] + 1 ELSE @[c]]]

\* Only the first chain that holds it back matters: if it is full, it remembers the task.
HoldTask(s, t) ==
    LET c == s.on[t][Min(HeldBy(s, t))]
    IN  IF Behind(s, t, c) THEN s ELSE [s EXCEPT !.limited[c] = t]

Starts(s, t) == t # NoTask /\ s.state[t] = "Pending" /\ HeldBy(s, t) = {}

TryStartTask(s, t) ==
    CASE t = NoTask -> s
      [] t # NoTask /\ ~Exists(s, t) -> [s EXCEPT !.ok = FALSE]
      [] Starts(s, t) -> DoStartTask(s, t)
      [] t # NoTask /\ s.state[t] = "Pending" /\ HeldBy(s, t) # {} -> HoldTask(s, t)
      [] OTHER -> s

\* One call of try_start_task of those that are due; a task that starts has its successors
\* tried at once, before the rest.
Call(x) ==
    IF x.due = <<>> THEN x
    ELSE LET t == Head(x.due)
         IN  [s |-> TryStartTask(x.s, t),
              due |-> (IF Starts(x.s, t) THEN Children(x.s, t) ELSE <<>>) \o Tail(x.due)]

\* More calls there cannot be, since no task starts twice.
Calls(due) == Len(due) + Cardinality(Chains) * MaxTasks

TryStartTasks(s, due) ==
    LET made[n \in 0 .. Calls(due)] == IF n = 0 THEN [s |-> s, due |-> due] ELSE Call(made[n - 1])
    IN  made[Calls(due)].s

FlushTryStartTask(s) == TryStartTasks([s EXCEPT !.later = <<>>], s.later)

-----------------------------------------------------------------------------
(* inactivate_task: on each chain the task that waited for room, and the   *)
(* first, may start.                                                       *)

Unless(t, u) == IF u = t THEN NoTask ELSE u

ToTry(s, t) ==
    [i \in 1 .. 2 * Len(s.on[t]) |->
        LET c == s.on[t][(i + 1) \div 2] IN Unless(t, IF i % 2 = 1 THEN s.limited[c] ELSE GetFirst(s, c))]

\* Mutant: a task that was paused is counted out once more.
InactivateTask_Counts(s, t, failed) ==
    LET cs == ChainsOf(s, t)
        lost == IF failed /\ s.state[t] = "Active" THEN cs ELSE {}
    IN  [s EXCEPT !.state[t] = "Pending",
                  !.active = [c \in Chains |-> IF c \in cs THEN @[c] - 1 ELSE @[c]],
                  !.cgen = [c \in Chains |-> IF c \in lost THEN Max({@[c], s.gen[t][c] + 1}) ELSE @[c]],
                  !.limited = [c \in Chains |-> IF c \in cs THEN NoTask ELSE @[c]],
                  !.later = @ \o ToTry(s, t)]

\* Mutant: a failure does not begin a generation.
InactivateTask_SameGeneration(s, t, failed) ==
    LET cs == ChainsOf(s, t)
        left == IF s.state[t] = "Active" THEN cs ELSE {}
    IN  [s EXCEPT !.state[t] = "Pending",
                  !.active = [c \in Chains |-> IF c \in left THEN @[c] - 1 ELSE @[c]],
                  !.limited = [c \in Chains |-> IF c \in cs THEN NoTask ELSE @[c]],
                  !.later = @ \o ToTry(s, t)]

\* Mutant: the task that waited for room is forgotten.
InactivateTask_Forgets(s, t, failed) ==
    LET cs == ChainsOf(s, t)
        left == IF s.state[t] = "Active" THEN cs ELSE {}
        lost == IF failed THEN left ELSE {}
    IN  [s EXCEPT !.state[t] = "Pending",
                  !.active = [c \in Chains |-> IF c \in left THEN @[c] - 1 ELSE @[c]],
                  !.cgen = [c \in Chains |-> IF c \in lost THEN Max({@[c], s.gen[t][c] + 1}) ELSE @[c]],
                  !.limited = [c \in Chains |-> IF c \in cs THEN NoTask ELSE @[c]],
                  !.later = @ \o [i \in DOMAIN s.on[t] |-> Unless(t, GetFirst(s, s.on[t][i]))]]

InactivateTask(s, t, failed) ==
    LET cs == ChainsOf(s, t)
        left == IF s.state[t] = "Active" THEN cs ELSE {}
        lost == IF failed THEN left ELSE {}
    IN  [s EXCEPT !.state[t] = "Pending",
                  !.active = [c \in Chains |-> IF c \in left THEN @[c] - 1 ELSE @[c]],
                  !.cgen = [c \in Chains |-> IF c \in lost THEN Max({@[c], s.gen[t][c] + 1}) ELSE @[c]],
                  !.limited = [c \in Chains |-> IF c \in cs THEN NoTask ELSE @[c]],
                  !.later = @ \o ToTry(s, t)]

\* finish_chain_task on every chain: one that is empty is erased, and begins anew.
FinishChainTasks(s, t) ==
    LET cs == ChainsOf(s, t)
        erased == {c \in cs : Len(s.chain[c]) = 1}
    IN  [s EXCEPT !.chain = [c \in Chains |-> IF c \in cs THEN RemoveAt(@[c], Position(@[c], t)) ELSE @[c]],
                  !.cgen = [c \in Chains |-> IF c \in erased THEN 1 ELSE @[c]],
                  !.active = [c \in Chains |-> IF c \in erased THEN 0 ELSE @[c]]]

-----------------------------------------------------------------------------
(* The interface                                                           *)

CreateTask(s, t, on) ==
    TryStartTasks([s EXCEPT !.state[t] = "Pending", !.on[t] = on,
                            !.chain = [c \in Chains |-> IF c \in Range(on) THEN Append(@[c], t) ELSE @[c]]],
                  <<t>>)

\* start_next_task: the rest of the queue; Parents are the tasks it is sent after.
Parents(s, t) == {GetParent(s, t, c) : c \in ChainsOf(s, t)} \ {NoTask}

FinishTask(s, t) ==
    LET inactive == InactivateTask([s EXCEPT !.ok = @ /\ s.later = <<>>], t, FALSE)
    IN  FlushTryStartTask([FinishChainTasks(inactive, t)
                           EXCEPT !.state[t] = "gone", !.later = @ \o Children(s, t)])

ResetTask(s, t) ==
    LET inactive == InactivateTask([s EXCEPT !.ok = @ /\ s.later = <<>>], t, TRUE)
    IN  FlushTryStartTask([inactive EXCEPT !.later = Append(@, t)])

PauseTask(s, t) ==
    FlushTryStartTask([InactivateTask(s, t, TRUE) EXCEPT !.state[t] = "Paused"])
=============================================================================
