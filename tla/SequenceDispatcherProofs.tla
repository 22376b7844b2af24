---------------------- MODULE SequenceDispatcherProofs ----------------------
(***************************************************************************)
(* SequenceDispatcher for every value of its constants.  SchedInv is the   *)
(* scheduler's invariant: its lists, counts and generations, and that      *)
(* whoever waits is held back; it holds of the scheduler in the middle of  *)
(* starting tasks too, but for those that are still to be tried (W).       *)
(* MidInv adds where each query is, what became of it and what it comes    *)
(* after.  One lemma per method shows that it keeps them, one per action   *)
(* that DispInv is inductive; every property follows from it.              *)
(***************************************************************************)
EXTENDS SequenceDispatcher, SequenceTheorems, FiniteSetTheorems, WellFoundedInduction, TLAPS

-----------------------------------------------------------------------------
(* Numbers                                                                 *)

LEMMA LeastNatural == ASSUME NEW T \in SUBSET Nat, T # {} PROVE \E x \in T : \A y \in T : x <= y
<1> DEFINE U == {0 .. n : n \in T}
           R == StrictSubsetOrdering(Nat)
<1>1. U \subseteq FiniteSubsetsOf(Nat)
  <2>1. \A n \in T : IsFiniteSet(0 .. n) /\ 0 .. n \subseteq Nat
    BY FS_Interval
  <2>. QED  BY <2>1 DEF FiniteSubsetsOf
<1>2. IsWellFoundedOn(R, FiniteSubsetsOf(Nat))
  BY FS_StrictSubsetOrderingWellFounded
<1>3. U # {}
  OBVIOUS
<1> HIDE DEF U, R
<1>4. PICK s \in U : \A y \in U : ~(<<y, s>> \in R)
  BY <1>1, <1>2, <1>3, WFMin
<1>5. PICK x \in T : s = 0 .. x
  BY DEF U
<1>6. ASSUME NEW y \in T, y < x PROVE FALSE
  <2>1. 0 .. y \in U
    BY DEF U
  <2>2. 0 .. y \in SUBSET Nat /\ 0 .. x \in SUBSET Nat /\ 0 .. y \subseteq 0 .. x /\ 0 .. y # 0 .. x
    BY <1>6
  <2>3. <<0 .. y, 0 .. x>> \in R
    BY <2>2 DEF R, StrictSubsetOrdering
  <2>. QED  BY <1>4, <1>5, <2>1, <2>3
<1>. QED  BY <1>6

\* Induction, for a set of numbers in the place of a predicate.
LEMMA NatSetInduction ==
    ASSUME NEW N, 0 \in N, \A n \in Nat : n \in N => n + 1 \in N PROVE Nat \subseteq N
<1> SUFFICES ASSUME Nat \ N # {} PROVE FALSE
  OBVIOUS
<1>1. PICK x \in Nat \ N : \A y \in Nat \ N : x <= y
  BY LeastNatural
<1>2. x - 1 \in Nat /\ x - 1 \in N
  BY <1>1
<1>. QED  BY <1>1, <1>2

-----------------------------------------------------------------------------
(* The scheduler's invariant                                               *)

States == {"none", "Pending", "Active", "Paused", "gone"}

Schedulers ==
    [state : [Tasks -> States], on : [Tasks -> Routes \cup {<<>>}], gen : [Tasks -> [Chains -> Nat]],
     chain : [Chains -> Seq(Tasks)], active : [Chains -> Nat], cgen : [Chains -> Nat \ {0}],
     limited : [Chains -> Tasks \cup {NoTask}], pending : Seq(Tasks), later : Seq(Tasks \cup {NoTask}),
     ok : BOOLEAN]

\* The unfinished tasks of a chain.
On(s, c) == {t \in Tasks : Exists(s, t) /\ c \in ChainsOf(s, t)}

Increasing(q) == \A i, j \in DOMAIN q : i < j => q[i] < q[j]

\* A chain lists its unfinished tasks in the order they came.
Listed(s) == \A c \in Chains : Increasing(s.chain[c]) /\ Range(s.chain[c]) = On(s, c)

\* A task that was made is on a route.
Routed(s) == \A t \in Tasks : s.state[t] # "none" => s.on[t] \in Routes

\* No task is ahead of its chain's generation, those that are up to it are active, and a task
\* is never ahead of one before it: those of the present generation are the first of the chain.
Gens(s) ==
    \A c \in Chains :
        /\ \A t \in On(s, c) : /\ s.gen[t][c] <= s.cgen[c]
                               /\ s.gen[t][c] = s.cgen[c] => s.state[t] = "Active"
        /\ \A t, u \in On(s, c) : t < u => s.gen[u][c] <= s.gen[t][c]

\* active_tasks counts.
ActiveOn(s, c) == {t \in Tasks : s.state[t] = "Active" /\ c \in ChainsOf(s, t)}
Counted(s) == \A c \in Chains : s.active[c] = Cardinality(ActiveOn(s, c)) /\ s.active[c] <= MaxActive

\* limited_tasks_ has tasks of the chain.
Limits(s) == \A c \in Chains : s.limited[c] # NoTask => s.limited[c] \in On(s, c)

\* A task that waits, and is not in W, is behind another or is the one that its full chain
\* remembers.
Held(s, t) == \E c \in ChainsOf(s, t) : Behind(s, t, c) \/ (Full(s, c) /\ s.limited[c] = t)
Waits(s, W) == \A t \in Tasks : s.state[t] = "Pending" => t \in W \/ Held(s, t)

\* What is to be sent is active, and is sent once.
Queued(s) == IsInjective(s.pending) /\ \A t \in Range(s.pending) : s.state[t] = "Active"

\* A[t] attempts were made at t, and one more is to be sent: a task is never tried more often
\* than one before it, and less often if it was not started again since.
Att(s, A, t) == A[t] + (IF t \in Range(s.pending) THEN 1 ELSE 0)
Efforts(s, A) ==
    \A c \in Chains : \A t, u \in On(s, c) : t < u =>
        /\ Att(s, A, u) <= Att(s, A, t)
        /\ s.gen[u][c] < s.gen[t][c] => Att(s, A, u) < Att(s, A, t)

SchedInv(s, W, A) ==
    /\ s \in Schedulers /\ s.ok
    /\ Listed(s) /\ Routed(s) /\ Gens(s) /\ Counted(s) /\ Limits(s) /\ Waits(s, W) /\ Queued(s) /\ Efforts(s, A)

-----------------------------------------------------------------------------
(* The dispatcher's invariant                                              *)

Places == {"none", "held", "sent", "callback"}
Results == {"none", "ok", "error", "wait"}
Dispatchers == [sched : Schedulers, place : [Tasks -> Places], result : [Tasks -> Results], owed : [Tasks -> BOOLEAN]]

\* Where the query of a task is.
PlaceOK(d, at) ==
    \A t \in Tasks :
        /\ d.place[t] = "none" <=> d.sched.state[t] \in {"none", "gone"}
        /\ d.place[t] = "held" <=> d.sched.state[t] = "Pending" \/ t \in Range(d.sched.pending)
        /\ d.place[t] = "sent" => d.sched.state[t] = "Active" /\ at[t] >= 1
        /\ d.place[t] = "callback" /\ d.sched.state[t] = "Active" => at[t] >= 1

\* What became of it.
ResultOK(d, at, af, ex) ==
    \A t \in Tasks :
        /\ d.place[t] = "held" /\ at[t] >= 1 => d.result[t] \in {"wait", "error"}
        /\ d.place[t] = "held" /\ at[t] >= MaxAttempts => af[t] # {}
        /\ d.place[t] = "callback" \/ d.sched.state[t] = "gone" => d.result[t] \in {"ok", "error"}
        /\ d.result[t] = "wait" => af[t] # {}
        /\ d.result[t] = "ok" => ex[t] = at[t] /\ at[t] >= 1
        /\ ex[t] # 0 => d.result[t] = "ok"

\* Tasks come in the order of their numbers.
Numbered(s, at, ex) ==
    \A t \in Tasks : s.state[t] = "none" =>
        /\ s.on[t] = <<>> /\ at[t] = 0 /\ ex[t] = 0
        /\ \A u \in Tasks : t < u => s.state[u] = "none"

\* A task that was never sent was started in no generation.
Tried(s, at) ==
    \A t \in Tasks : at[t] = 0 /\ t \notin Range(s.pending) => \A c \in Chains : s.gen[t][c] = 0

\* What it comes after was sent, and at least as often.
AfterOK(at, af) ==
    \A t \in Tasks : \A p \in af[t] :
        p \in Tasks \X Nat /\ p[1] < t /\ p[2] >= 1 /\ p[2] <= at[p[1]] /\ at[t] <= at[p[1]]

\* What is sent comes after all that were before it on its chains.
Covered(s, at, af) ==
    \A t \in Tasks : at[t] >= 1 =>
        \A c \in ChainsOf(s, t) : \A u \in 1 .. t - 1 : c \in ChainsOf(s, u) =>
            \/ s.state[u] = "gone"
            \/ \E p \in af[t] : u <= p[1] /\ c \in ChainsOf(s, p[1])

\* Those before a query that was executed were executed or given up.
Ordered(s, ex) ==
    \A t \in Tasks : ex[t] # 0 =>
        \A u \in 1 .. t - 1 : ChainsOf(s, u) \cap ChainsOf(s, t) # {} => ex[u] # 0 \/ s.state[u] = "gone"

Bounded(at) == \A t \in Tasks : at[t] < MaxAttempts + t

VarsOK(at, af, ex) ==
    at \in [Tasks -> Nat] /\ ex \in [Tasks -> Nat] /\ af \in [Tasks -> SUBSET (Tasks \X Nat)]

\* The invariant, also between the steps of a handler; at, af and ex are attempt, after, executed.
MidInv(d, at, af, ex) ==
    /\ d \in Dispatchers /\ d.sched.later = <<>> /\ SchedInv(d.sched, {}, at)
    /\ VarsOK(at, af, ex) /\ PlaceOK(d, at) /\ ResultOK(d, at, af, ex) /\ Numbered(d.sched, at, ex)
    /\ Tried(d.sched, at) /\ AfterOK(at, af) /\ Covered(d.sched, at, af) /\ Ordered(d.sched, ex) /\ Bounded(at)

DispInv ==
    /\ MidInv(Dispatcher, attempt, after, executed) /\ sched.pending = <<>> /\ flood \in [Tasks -> BOOLEAN]

-----------------------------------------------------------------------------
(* Chains                                                                  *)

LEMMA Bounds ==
    /\ MaxTasks \in Nat /\ MaxActive \in Nat /\ MaxActive >= 1 /\ MaxAttempts \in Nat /\ MaxAttempts >= 1
    /\ IsFiniteSet(Chains) /\ Cardinality(Chains) \in Nat
    /\ Tasks \subseteq Nat /\ NoTask \notin Tasks /\ \A t \in Tasks : t \in 1 .. MaxTasks
    /\ IsFiniteSet(Tasks) /\ Cardinality(Tasks) = MaxTasks
<1>1. MaxTasks \in Nat /\ IsFiniteSet(Chains)
  BY SchedulerAssumption
<1>2. IsFiniteSet(Tasks) /\ Cardinality(Tasks) = MaxTasks
  BY <1>1, FS_Interval DEF Tasks
<1>3. Cardinality(Chains) \in Nat
  BY <1>1, FS_CardinalityType
<1>. QED  BY <1>1, <1>2, <1>3, SchedulerAssumption, DispatcherAssumption DEF Tasks, NoTask

LEMMA SchedShape ==
    ASSUME NEW s \in Schedulers
    PROVE  /\ s.state \in [Tasks -> States] /\ s.on \in [Tasks -> Routes \cup {<<>>}]
           /\ s.gen \in [Tasks -> [Chains -> Nat]] /\ s.chain \in [Chains -> Seq(Tasks)]
           /\ s.active \in [Chains -> Nat] /\ s.cgen \in [Chains -> Nat \ {0}]
           /\ s.limited \in [Chains -> Tasks \cup {NoTask}] /\ s.pending \in Seq(Tasks)
           /\ s.later \in Seq(Tasks \cup {NoTask}) /\ s.ok \in BOOLEAN
BY DEF Schedulers

LEMMA RouteShape ==
    ASSUME NEW r \in Routes \cup {<<>>}
    PROVE  r \in Seq(Chains) /\ DOMAIN r = 1 .. Len(r) /\ Len(r) \in Nat /\ Range(r) \subseteq Chains
           /\ IsInjective(r) /\ \A c \in Range(r) : \E i \in DOMAIN r : r[i] = c
<1>1. r \in Seq(Chains) /\ IsInjective(r)
  <2>1. CASE r \in Routes
    BY <2>1, DispatcherAssumption
  <2>2. CASE r = <<>>
    <3>1. r \in Seq(Chains) /\ DOMAIN r = {}
      BY <2>2
    <3>. QED  BY <3>1 DEF IsInjective
  <2>. QED  BY <2>1, <2>2
<1>2. DOMAIN r = 1 .. Len(r) /\ Len(r) \in Nat /\ \A i \in DOMAIN r : r[i] \in Chains
  BY <1>1
<1>. QED  BY <1>1, <1>2 DEF Range

LEMMA TaskChains ==
    ASSUME NEW s \in Schedulers, NEW t \in Tasks
    PROVE  ChainsOf(s, t) \subseteq Chains /\ \A i \in DOMAIN s.on[t] : s.on[t][i] \in ChainsOf(s, t)
<1>1. s.on[t] \in Routes \cup {<<>>}
  BY SchedShape
<1>. QED  BY <1>1, RouteShape DEF ChainsOf, Range

LEMMA RouteBounded == ASSUME NEW r \in Routes \cup {<<>>} PROVE Len(r) <= Cardinality(Chains)
<1>1. r \in [1 .. Len(r) -> Chains] /\ Len(r) \in Nat /\ \A i, j \in 1 .. Len(r) : r[i] = r[j] => i = j
  BY RouteShape DEF IsInjective
<1>2. r \in Injection(1 .. Len(r), Chains)
  BY <1>1 DEF Injection, IsInjective
<1>3. IsFiniteSet(1 .. Len(r)) /\ Cardinality(1 .. Len(r)) = Len(r)
  BY <1>1, FS_Interval
<1>4. Cardinality(1 .. Len(r)) <= Cardinality(Chains)
  BY <1>2, Bounds, FS_Injection
<1>. QED  BY <1>3, <1>4

LEMMA PositionFact ==
    ASSUME NEW q \in Seq(Tasks), NEW t \in Range(q)
    PROVE  Position(q, t) \in 1 .. Len(q) /\ q[Position(q, t)] = t
<1>1. \E i \in DOMAIN q : q[i] = t
  BY DEF Range
<1>. QED  BY <1>1 DEF Position

LEMMA ChainShape ==
    ASSUME NEW s \in Schedulers, Listed(s), NEW c \in Chains
    PROVE  LET q == s.chain[c]
           IN  /\ q \in Seq(Tasks) /\ DOMAIN q = 1 .. Len(q) /\ Len(q) \in Nat
               /\ On(s, c) \subseteq Tasks
               /\ \A i \in 1 .. Len(q) : q[i] \in On(s, c)
               /\ \A u \in On(s, c) : \E i \in 1 .. Len(q) : q[i] = u
               /\ \A i, j \in 1 .. Len(q) : i < j => q[i] < q[j]
               /\ \A t \in On(s, c) : Position(q, t) \in 1 .. Len(q) /\ q[Position(q, t)] = t
<1> DEFINE q == s.chain[c]
<1>1. q \in Seq(Tasks) /\ Increasing(q) /\ Range(q) = On(s, c)
  BY SchedShape DEF Listed
<1>2. DOMAIN q = 1 .. Len(q) /\ Len(q) \in Nat
  BY <1>1
<1>3. \A t \in On(s, c) : Position(q, t) \in 1 .. Len(q) /\ q[Position(q, t)] = t
  BY <1>1, PositionFact
<1> HIDE DEF q
<1>4. /\ \A i \in 1 .. Len(q) : q[i] \in On(s, c)
      /\ \A u \in On(s, c) : \E i \in 1 .. Len(q) : q[i] = u
      /\ \A i, j \in 1 .. Len(q) : i < j => q[i] < q[j]
  BY <1>1, <1>2 DEF Range, Increasing
<1>5. On(s, c) \subseteq Tasks
  BY DEF On
<1>. QED  BY <1>1, <1>2, <1>3, <1>4, <1>5 DEF q

LEMMA ParentFact ==
    ASSUME NEW s \in Schedulers, Listed(s), NEW c \in Chains, NEW t \in On(s, c)
    PROVE  LET p == GetParent(s, t, c)
           IN  \/ p = NoTask /\ \A u \in On(s, c) : t <= u
               \/ p \in On(s, c) /\ p < t /\ \A u \in On(s, c) : u < t => u <= p
<1> DEFINE q == s.chain[c]
           i == Position(q, t)
<1>0. On(s, c) \subseteq Nat
  BY Bounds DEF On
<1>1. /\ q \in Seq(Tasks) /\ Len(q) \in Nat
      /\ \A j \in 1 .. Len(q) : q[j] \in On(s, c)
      /\ \A u \in On(s, c) : \E j \in 1 .. Len(q) : q[j] = u
      /\ \A j, k \in 1 .. Len(q) : j < k => q[j] < q[k]
      /\ i \in 1 .. Len(q) /\ q[i] = t
  BY ChainShape
<1>2. GetParent(s, t, c) = IF i > 1 THEN q[i - 1] ELSE NoTask
  BY DEF GetParent
<1> HIDE DEF q, i
<1>3. CASE i > 1
  <2>1. i - 1 \in 1 .. Len(q) /\ q[i - 1] \in On(s, c) /\ q[i - 1] < t
    BY <1>1, <1>3
  <2>2. ASSUME NEW u \in On(s, c), u < t PROVE u <= q[i - 1]
    <3>1. PICK j \in 1 .. Len(q) : q[j] = u
      BY <1>1
    <3>2. j < i
      <4>1. ~(i < j) /\ i # j
        BY <1>0, <1>1, <2>2, <3>1
      <4>. QED  BY <1>1, <4>1
    <3>3. j = i - 1 \/ j < i - 1
      BY <1>1, <3>2
    <3>4. u = q[i - 1] \/ u < q[i - 1]
      BY <1>1, <2>1, <3>1, <3>3
    <3>. QED  BY <1>0, <2>1, <3>4
  <2>. QED  BY <1>2, <1>3, <2>1, <2>2
<1>4. CASE ~(i > 1)
  <2>1. ASSUME NEW u \in On(s, c) PROVE t <= u
    <3>1. PICK j \in 1 .. Len(q) : q[j] = u
      BY <1>1
    <3>2. j = i \/ i < j
      BY <1>1, <1>4
    <3>. QED  BY <1>0, <1>1, <3>1, <3>2
  <2>. QED  BY <1>2, <1>4, <2>1
<1>. QED  BY <1>3, <1>4

LEMMA ChildFact ==
    ASSUME NEW s \in Schedulers, Listed(s), NEW c \in Chains, NEW t \in On(s, c)
    PROVE  LET k == GetChild(s, t, c)
           IN  \/ k = NoTask /\ \A u \in On(s, c) : u <= t
               \/ k \in On(s, c) /\ t < k /\ \A u \in On(s, c) : t < u => k <= u
<1> DEFINE q == s.chain[c]
           i == Position(q, t)
<1>0. On(s, c) \subseteq Nat
  BY Bounds DEF On
<1>1. /\ q \in Seq(Tasks) /\ Len(q) \in Nat
      /\ \A j \in 1 .. Len(q) : q[j] \in On(s, c)
      /\ \A u \in On(s, c) : \E j \in 1 .. Len(q) : q[j] = u
      /\ \A j, k \in 1 .. Len(q) : j < k => q[j] < q[k]
      /\ i \in 1 .. Len(q) /\ q[i] = t
  BY ChainShape
<1>2. GetChild(s, t, c) = IF i < Len(q) THEN q[i + 1] ELSE NoTask
  BY DEF GetChild
<1> HIDE DEF q, i
<1>3. CASE i < Len(q)
  <2>1. i + 1 \in 1 .. Len(q) /\ q[i + 1] \in On(s, c) /\ t < q[i + 1]
    BY <1>1, <1>3
  <2>2. ASSUME NEW u \in On(s, c), t < u PROVE q[i + 1] <= u
    <3>1. PICK j \in 1 .. Len(q) : q[j] = u
      BY <1>1
    <3>2. i < j
      <4>1. ~(j < i) /\ i # j
        BY <1>0, <1>1, <2>2, <3>1
      <4>. QED  BY <1>1, <4>1
    <3>3. j = i + 1 \/ i + 1 < j
      BY <1>1, <3>2
    <3>4. u = q[i + 1] \/ q[i + 1] < u
      BY <1>1, <2>1, <3>1, <3>3
    <3>. QED  BY <1>0, <2>1, <3>4
  <2>. QED  BY <1>2, <1>3, <2>1, <2>2
<1>4. CASE ~(i < Len(q))
  <2>1. ASSUME NEW u \in On(s, c) PROVE u <= t
    <3>1. PICK j \in 1 .. Len(q) : q[j] = u
      BY <1>1
    <3>2. j = i \/ j < i
      BY <1>1, <1>4
    <3>. QED  BY <1>0, <1>1, <3>1, <3>2
  <2>. QED  BY <1>2, <1>4, <2>1
<1>. QED  BY <1>3, <1>4

LEMMA FirstFact ==
    ASSUME NEW s \in Schedulers, Listed(s), NEW c \in Chains
    PROVE  GetFirst(s, c) = NoTask \/ GetFirst(s, c) \in On(s, c)
<1> DEFINE q == s.chain[c]
<1>1. q \in Seq(Tasks) /\ Len(q) \in Nat /\ \A j \in 1 .. Len(q) : q[j] \in On(s, c)
  BY ChainShape
<1>2. q # <<>> => Head(q) = q[1] /\ 1 \in 1 .. Len(q)
  BY <1>1
<1>. QED  BY <1>1, <1>2 DEF GetFirst

\* A task is behind on a chain if any task before it was not started in this generation.
LEMMA BehindFact ==
    ASSUME NEW s \in Schedulers, Listed(s), Gens(s), NEW c \in Chains, NEW t \in On(s, c)
    PROVE  Behind(s, t, c) <=> \E u \in On(s, c) : u < t /\ s.gen[u][c] # s.cgen[c]
<1> DEFINE p == GetParent(s, t, c)
<1>1. \/ p = NoTask /\ \A u \in On(s, c) : t <= u
      \/ p \in On(s, c) /\ p < t /\ \A u \in On(s, c) : u < t => u <= p
  BY ParentFact
<1>2. Behind(s, t, c) <=> p # NoTask /\ s.gen[p][c] # s.cgen[c]
  BY DEF Behind
<1>3. On(s, c) \subseteq Tasks /\ On(s, c) \subseteq Nat /\ NoTask \notin On(s, c) /\ t \in Nat
  BY Bounds DEF On
<1>0. s.cgen[c] \in Nat /\ \A u \in Tasks : s.gen[u][c] \in Nat
  BY SchedShape
<1>4. \A u \in On(s, c) : s.gen[u][c] \in Nat /\ s.gen[u][c] <= s.cgen[c] /\ s.cgen[c] \in Nat
  BY <1>0, <1>3 DEF Gens
<1>5. \A u, v \in On(s, c) : u < v => s.gen[v][c] <= s.gen[u][c]
  BY DEF Gens
<1> HIDE DEF p
<1>6. ASSUME NEW u \in On(s, c), u < t, s.gen[u][c] # s.cgen[c] PROVE p # NoTask /\ s.gen[p][c] # s.cgen[c]
  <2>0. u \in Nat /\ ~(t <= u)
    BY <1>3, <1>6
  <2>1. p \in On(s, c) /\ u <= p /\ p \in Nat
    BY <1>1, <1>3, <1>6, <2>0
  <2>2. u = p \/ u < p
    BY <2>0, <2>1
  <2>3. s.gen[p][c] <= s.gen[u][c]
    BY <1>4, <1>5, <2>1, <2>2
  <2>. QED  BY <1>3, <1>4, <1>6, <2>1, <2>3
<1>7. ASSUME p # NoTask, s.gen[p][c] # s.cgen[c] PROVE \E u \in On(s, c) : u < t /\ s.gen[u][c] # s.cgen[c]
  BY <1>1, <1>7
<1>. QED  BY <1>2, <1>6, <1>7
-----------------------------------------------------------------------------
(* Starting a task                                                         *)

LEMMA RangeAppend ==
    ASSUME NEW S, NEW q \in Seq(S), NEW e \in S
    PROVE  Range(Append(q, e)) = Range(q) \cup {e}
<1> DEFINE r == Append(q, e)
<1>1. /\ Len(q) \in Nat /\ DOMAIN q = 1 .. Len(q) /\ DOMAIN r = 1 .. Len(q) + 1
      /\ r[Len(q) + 1] = e /\ \A i \in 1 .. Len(q) : r[i] = q[i]
  OBVIOUS
<1> HIDE DEF r
<1>2. \A i \in DOMAIN r : r[i] \in Range(q) \cup {e}
  BY <1>1 DEF Range
<1>3. \A x \in Range(q) \cup {e} : \E i \in DOMAIN r : r[i] = x
  <2>1. \A i \in DOMAIN q : i \in DOMAIN r /\ r[i] = q[i]
    BY <1>1
  <2>2. Len(q) + 1 \in DOMAIN r
    BY <1>1
  <2>. QED  BY <1>1, <2>1, <2>2 DEF Range
<1>4. Range(r) = Range(q) \cup {e}
  BY <1>2, <1>3 DEF Range
<1>. QED  BY <1>4 DEF r

LEMMA RangeConcat ==
    ASSUME NEW S, NEW q \in Seq(S), NEW r \in Seq(S)
    PROVE  Range(q \o r) = Range(q) \cup Range(r)
<1> DEFINE a == q \o r
<1>1. /\ Len(q) \in Nat /\ Len(r) \in Nat /\ DOMAIN q = 1 .. Len(q) /\ DOMAIN r = 1 .. Len(r)
      /\ DOMAIN a = 1 .. Len(q) + Len(r)
      /\ \A i \in 1 .. Len(q) + Len(r) : a[i] = IF i <= Len(q) THEN q[i] ELSE r[i - Len(q)]
  OBVIOUS
<1> HIDE DEF a
<1>2. ASSUME NEW i \in DOMAIN a PROVE a[i] \in Range(q) \cup Range(r)
  <2>1. CASE i <= Len(q)
    <3>1. i \in DOMAIN q /\ a[i] = q[i]
      BY <1>1, <2>1
    <3>. QED  BY <3>1 DEF Range
  <2>2. CASE ~(i <= Len(q))
    <3>1. i - Len(q) \in DOMAIN r /\ a[i] = r[i - Len(q)]
      BY <1>1, <2>2
    <3>. QED  BY <3>1 DEF Range
  <2>. QED  BY <2>1, <2>2
<1>3. ASSUME NEW i \in DOMAIN q PROVE q[i] \in Range(a)
  <2>1. i \in DOMAIN a /\ a[i] = q[i]
    BY <1>1
  <2>. QED  BY <2>1 DEF Range
<1>4. ASSUME NEW i \in DOMAIN r PROVE r[i] \in Range(a)
  <2>1. Len(q) + i \in DOMAIN a /\ a[Len(q) + i] = r[i]
    BY <1>1
  <2>. QED  BY <2>1 DEF Range
<1>5. Range(a) = Range(q) \cup Range(r)
  BY <1>2, <1>3, <1>4 DEF Range
<1>. QED  BY <1>5 DEF a

LEMMA OnFact ==
    ASSUME NEW s \in Schedulers, NEW c \in Chains
    PROVE  /\ On(s, c) \subseteq Tasks /\ On(s, c) \subseteq Nat /\ NoTask \notin On(s, c)
           /\ \A t \in Tasks : t \in On(s, c) <=> s.state[t] \in {"Pending", "Active", "Paused"} /\ c \in ChainsOf(s, t)
           /\ s.cgen[c] \in Nat /\ s.active[c] \in Nat
           /\ \A t \in Tasks : s.gen[t][c] \in Nat
<1>1. On(s, c) \subseteq Tasks /\ Tasks \subseteq Nat /\ NoTask \notin Tasks
  BY Bounds DEF On
<1>2. s.cgen[c] \in Nat /\ s.active[c] \in Nat /\ \A t \in Tasks : s.gen[t][c] \in Nat
  BY SchedShape
<1>3. \A t \in Tasks : t \in On(s, c) <=> s.state[t] \in {"Pending", "Active", "Paused"} /\ c \in ChainsOf(s, t)
  BY DEF On, Exists
<1>. QED  BY <1>1, <1>2, <1>3

\* What a task that may start is before.
LEMMA FreeFact ==
    ASSUME NEW s \in Schedulers, Listed(s), Gens(s), NEW t \in Tasks, Starts(s, t),
           NEW c \in Chains, c \in ChainsOf(s, t)
    PROVE  /\ t \in On(s, c) /\ ~Full(s, c) /\ s.gen[t][c] < s.cgen[c]
           /\ \A u \in On(s, c) : u < t => s.gen[u][c] = s.cgen[c]
<1>1. s.state[t] = "Pending" /\ HeldBy(s, t) = {}
  BY DEF Starts
<1>2. t \in On(s, c)
  BY <1>1, OnFact
<1>3. PICK i \in DOMAIN s.on[t] : s.on[t][i] = c
  BY DEF ChainsOf, Range
<1>4. ~Behind(s, t, c) /\ ~Full(s, c)
  BY <1>1, <1>3 DEF HeldBy
<1>5. \A u \in On(s, c) : u < t => s.gen[u][c] = s.cgen[c]
  BY <1>2, <1>4, BehindFact
<1>6. s.gen[t][c] <= s.cgen[c] /\ s.gen[t][c] # s.cgen[c]
  BY <1>1, <1>2 DEF Gens
<1>7. s.gen[t][c] < s.cgen[c]
  BY <1>6, OnFact
<1>. QED  BY <1>2, <1>4, <1>5, <1>7

LEMMA StartShape ==
    ASSUME NEW s \in Schedulers, NEW t \in Tasks, s.state[t] = "Pending"
    PROVE  LET z == DoStartTask(s, t)
           IN  /\ z \in Schedulers
               /\ z.state = [s.state EXCEPT ![t] = "Active"] /\ z.on = s.on /\ z.chain = s.chain
               /\ z.cgen = s.cgen /\ z.limited = s.limited /\ z.later = s.later /\ z.ok = s.ok
               /\ z.pending = Append(s.pending, t) /\ Range(z.pending) = Range(s.pending) \cup {t}
               /\ \A u \in Tasks \ {t} : z.gen[u] = s.gen[u]
               /\ \A c \in Chains : z.gen[t][c] = IF c \in ChainsOf(s, t) THEN s.cgen[c] ELSE s.gen[t][c]
               /\ \A c \in Chains : z.active[c] = IF c \in ChainsOf(s, t) THEN s.active[c] + 1 ELSE s.active[c]
               /\ \A u \in Tasks : ChainsOf(z, u) = ChainsOf(s, u)
               /\ \A c \in Chains : On(z, c) = On(s, c)
<1> DEFINE z == DoStartTask(s, t)
           g == [c \in Chains |-> IF c \in ChainsOf(s, t) THEN s.cgen[c] ELSE s.gen[t][c]]
           a == [c \in Chains |-> IF c \in ChainsOf(s, t) THEN s.active[c] + 1 ELSE s.active[c]]
<1>1. z = [s EXCEPT !.state = [@ EXCEPT ![t] = "Active"], !.pending = Append(@, t),
                    !.gen = [@ EXCEPT ![t] = g], !.active = a]
  BY SchedShape DEF DoStartTask
<1>2. g \in [Chains -> Nat] /\ a \in [Chains -> Nat]
  BY SchedShape
<1>3. Append(s.pending, t) \in Seq(Tasks) /\ Range(Append(s.pending, t)) = Range(s.pending) \cup {t}
  BY SchedShape, RangeAppend
<1> HIDE DEF g, a
<1>4. [s.state EXCEPT ![t] = "Active"] \in [Tasks -> States] /\ [s.gen EXCEPT ![t] = g] \in [Tasks -> [Chains -> Nat]]
  BY <1>2, SchedShape DEF States
<1>5. /\ z \in Schedulers
      /\ z.state = [s.state EXCEPT ![t] = "Active"] /\ z.on = s.on /\ z.chain = s.chain
      /\ z.cgen = s.cgen /\ z.limited = s.limited /\ z.later = s.later /\ z.ok = s.ok
      /\ z.pending = Append(s.pending, t) /\ z.gen = [s.gen EXCEPT ![t] = g] /\ z.active = a
  BY <1>1, <1>2, <1>3, <1>4 DEF Schedulers
<1> HIDE DEF z
<1>6. \A u \in Tasks : ChainsOf(z, u) = ChainsOf(s, u)
  BY <1>5 DEF ChainsOf
<1>7. \A u \in Tasks : Exists(z, u) <=> Exists(s, u)
  BY <1>5, SchedShape DEF Exists
<1>8. \A c \in Chains : On(z, c) = On(s, c)
  BY <1>6, <1>7 DEF On
<1>9. /\ \A u \in Tasks \ {t} : z.gen[u] = s.gen[u]
      /\ z.gen[t] = g
  BY <1>5, SchedShape
<1>10. /\ \A c \in Chains : z.gen[t][c] = IF c \in ChainsOf(s, t) THEN s.cgen[c] ELSE s.gen[t][c]
       /\ \A c \in Chains : z.active[c] = IF c \in ChainsOf(s, t) THEN s.active[c] + 1 ELSE s.active[c]
  BY <1>5, <1>9 DEF g, a
<1>. QED  BY <1>3, <1>5, <1>6, <1>8, <1>9, <1>10 DEF z

\* A task that nothing holds back is started; its successors are then to be tried.
LEMMA StartKeeps ==
    ASSUME NEW s, NEW W, NEW A \in [Tasks -> Nat], SchedInv(s, W, A), NEW t \in Tasks, Starts(s, t),
           NEW V, W \subseteq V \cup {t}, \A c \in ChainsOf(s, t) : GetChild(s, t, c) # NoTask => GetChild(s, t, c) \in V
    PROVE  SchedInv(DoStartTask(s, t), V, A)
<1> DEFINE z == DoStartTask(s, t)
<1>0. /\ s \in Schedulers /\ s.ok /\ Listed(s) /\ Routed(s) /\ Gens(s) /\ Counted(s) /\ Limits(s)
      /\ Waits(s, W) /\ Queued(s) /\ Efforts(s, A)
  BY DEF SchedInv
<1>1. s.state[t] = "Pending"
  BY DEF Starts
<1>2. /\ z \in Schedulers
      /\ z.state = [s.state EXCEPT ![t] = "Active"] /\ z.on = s.on /\ z.chain = s.chain
      /\ z.cgen = s.cgen /\ z.limited = s.limited /\ z.later = s.later /\ z.ok = s.ok
      /\ z.pending = Append(s.pending, t) /\ Range(z.pending) = Range(s.pending) \cup {t}
      /\ \A u \in Tasks \ {t} : z.gen[u] = s.gen[u]
      /\ \A c \in Chains : z.gen[t][c] = IF c \in ChainsOf(s, t) THEN s.cgen[c] ELSE s.gen[t][c]
      /\ \A c \in Chains : z.active[c] = IF c \in ChainsOf(s, t) THEN s.active[c] + 1 ELSE s.active[c]
      /\ \A u \in Tasks : ChainsOf(z, u) = ChainsOf(s, u)
      /\ \A c \in Chains : On(z, c) = On(s, c)
  BY <1>0, <1>1, StartShape
<1> HIDE DEF z
<1>3. /\ z.state[t] = "Active" /\ \A u \in Tasks \ {t} : z.state[u] = s.state[u]
      /\ \A u \in Tasks : ChainsOf(s, u) \subseteq Chains
  BY <1>0, <1>2, SchedShape, TaskChains
<1>4. \A c \in Chains : c \in ChainsOf(s, t) =>
          /\ t \in On(s, c) /\ ~Full(s, c) /\ s.gen[t][c] < s.cgen[c]
          /\ \A u \in On(s, c) : u < t => s.gen[u][c] = s.cgen[c]
  BY <1>0, FreeFact
<1>5. Listed(z)
  BY <1>0, <1>2 DEF Listed
<1>6. Routed(z)
  BY <1>0, <1>1, <1>2, <1>3 DEF Routed
<1>7. Gens(z)
  <2> SUFFICES ASSUME NEW c \in Chains
               PROVE  /\ \A u \in On(s, c) : z.gen[u][c] <= z.cgen[c] /\ (z.gen[u][c] = z.cgen[c] => z.state[u] = "Active")
                      /\ \A u, v \in On(s, c) : u < v => z.gen[v][c] <= z.gen[u][c]
    BY <1>2 DEF Gens
  <2>1. /\ \A u \in On(s, c) : s.gen[u][c] <= s.cgen[c] /\ (s.gen[u][c] = s.cgen[c] => s.state[u] = "Active")
        /\ \A u, v \in On(s, c) : u < v => s.gen[v][c] <= s.gen[u][c]
    BY <1>0 DEF Gens
  <2>2. On(s, c) \subseteq Tasks /\ On(s, c) \subseteq Nat /\ s.cgen[c] \in Nat /\ \A u \in Tasks : s.gen[u][c] \in Nat
    BY <1>0, OnFact
  <2>3. t \in On(s, c) => c \in ChainsOf(s, t) /\ z.gen[t][c] = s.cgen[c] /\ \A u \in On(s, c) : u < t => s.gen[u][c] = s.cgen[c]
    BY <1>0, <1>2, <1>4, OnFact
  <2>4. \A u \in On(s, c) : u # t => z.gen[u][c] = s.gen[u][c] /\ z.state[u] = s.state[u]
    BY <1>2, <1>3, <2>2
  <2>5. ASSUME NEW u \in On(s, c) PROVE z.gen[u][c] <= z.cgen[c] /\ (z.gen[u][c] = z.cgen[c] => z.state[u] = "Active")
    <3>1. CASE u = t
      BY <1>2, <1>3, <2>2, <2>3, <3>1
    <3>2. CASE u # t
      BY <1>2, <2>1, <2>4, <3>2
    <3>. QED  BY <3>1, <3>2
  <2>6. ASSUME NEW u \in On(s, c), NEW v \in On(s, c), u < v PROVE z.gen[v][c] <= z.gen[u][c]
    <3>1. CASE u = t
      BY <2>1, <2>2, <2>3, <2>4, <2>6, <3>1
    <3>2. CASE v = t
      BY <2>1, <2>2, <2>3, <2>4, <2>6, <3>2
    <3>3. CASE u # t /\ v # t
      BY <2>1, <2>4, <2>6, <3>3
    <3>. QED  BY <3>1, <3>2, <3>3
  <2>. QED  BY <2>5, <2>6
<1>8. Counted(z)
  <2> SUFFICES ASSUME NEW c \in Chains PROVE z.active[c] = Cardinality(ActiveOn(z, c)) /\ z.active[c] <= MaxActive
    BY DEF Counted
  <2>1. s.active[c] = Cardinality(ActiveOn(s, c)) /\ s.active[c] <= MaxActive /\ s.active[c] \in Nat
    BY <1>0, OnFact DEF Counted
  <2>2. CASE c \in ChainsOf(s, t)
    <3>1. ActiveOn(z, c) = ActiveOn(s, c) \cup {t} /\ t \notin ActiveOn(s, c)
      BY <1>1, <1>2, <1>3, <2>2 DEF ActiveOn
    <3>2. IsFiniteSet(ActiveOn(s, c))
      <4>1. ActiveOn(s, c) \subseteq Tasks /\ IsFiniteSet(Tasks)
        BY Bounds DEF ActiveOn
      <4>. QED  BY <4>1, FS_Subset
    <3>3. Cardinality(ActiveOn(z, c)) = Cardinality(ActiveOn(s, c)) + 1
      BY <3>1, <3>2, FS_AddElement
    <3>4. s.active[c] < MaxActive
      BY <1>4, <2>1, <2>2, Bounds DEF Full
    <3>5. z.active[c] = s.active[c] + 1
      BY <1>2, <2>2
    <3>. QED  BY <2>1, <3>3, <3>4, <3>5, Bounds
  <2>3. CASE c \notin ChainsOf(s, t)
    <3>1. ActiveOn(z, c) = ActiveOn(s, c)
      BY <1>1, <1>2, <1>3, <2>3 DEF ActiveOn
    <3>. QED  BY <1>2, <2>1, <2>3, <3>1
  <2>. QED  BY <2>2, <2>3
<1>9. Limits(z)
  BY <1>0, <1>2 DEF Limits
<1>10. Waits(z, V)
  <2> SUFFICES ASSUME NEW u \in Tasks, z.state[u] = "Pending", u \notin V PROVE Held(z, u)
    BY DEF Waits
  <2>1. u # t /\ s.state[u] = "Pending" /\ u \notin W
    BY <1>3
  <2>2. PICK c \in ChainsOf(s, u) : Behind(s, u, c) \/ (Full(s, c) /\ s.limited[c] = u)
    BY <1>0, <2>1 DEF Waits, Held
  <2>3. c \in Chains /\ u \in On(s, c) /\ c \in ChainsOf(z, u) /\ u \in On(z, c)
    BY <1>0, <1>2, <1>3, <2>1, OnFact
  <2>4. CASE Full(s, c) /\ s.limited[c] = u
    <3>1. s.active[c] \in Nat /\ MaxActive \in Nat /\ z.active[c] \in {s.active[c], s.active[c] + 1}
      BY <1>0, <1>2, <2>3, OnFact, Bounds
    <3>2. Full(z, c)
      BY <2>4, <3>1 DEF Full
    <3>. QED  BY <1>2, <2>3, <2>4, <3>2 DEF Held
  <2>5. CASE Behind(s, u, c)
    <3>1. PICK w \in On(s, c) : w < u /\ s.gen[w][c] # s.cgen[c]
      BY <1>0, <2>3, <2>5, BehindFact
    <3>2. CASE \E v \in On(s, c) : v < u /\ z.gen[v][c] # s.cgen[c]
      <4>1. Behind(z, u, c)
        BY <1>2, <1>5, <1>7, <2>3, <3>2, BehindFact
      <4>. QED  BY <2>3, <4>1 DEF Held
    <3>3. CASE \A v \in On(s, c) : v < u => z.gen[v][c] = s.cgen[c]
      <4> DEFINE k == GetChild(s, t, c)
      <4>0. On(s, c) \subseteq Tasks /\ On(s, c) \subseteq Nat /\ NoTask \notin On(s, c)
            /\ \A v \in Tasks : s.gen[v][c] \in Nat /\ s.cgen[c] \in Nat
        BY <1>0, <2>3, OnFact
      <4>1. w = t
        BY <1>2, <3>1, <3>3, <4>0
      <4>2. t \in On(s, c) /\ t < u /\ c \in ChainsOf(s, t)
        BY <1>0, <2>3, <3>1, <4>0, <4>1, OnFact
      <4>3. \/ k = NoTask /\ \A v \in On(s, c) : v <= t
            \/ k \in On(s, c) /\ t < k /\ \A v \in On(s, c) : t < v => k <= v
        BY <1>0, <2>3, <4>2, ChildFact
      <4> HIDE DEF k
      <4>4. k \in On(s, c) /\ t < k /\ k <= u
        BY <2>3, <4>0, <4>2, <4>3
      <4>5. k # t /\ z.gen[k] = s.gen[k] /\ s.gen[k][c] <= s.gen[t][c]
        BY <1>0, <1>2, <2>3, <4>0, <4>2, <4>4 DEF Gens
      <4>6. s.gen[t][c] < s.cgen[c]
        BY <1>4, <2>3, <4>2
      <4>7. k = u
        BY <2>3, <3>3, <4>0, <4>2, <4>4, <4>5, <4>6
      <4>8. k \in V
        BY <4>0, <4>2, <4>4 DEF k
      <4>. QED  BY <4>7, <4>8
    <3>. QED  BY <3>2, <3>3
  <2>. QED  BY <2>2, <2>4, <2>5
<1>11. Queued(z)
  <2>1. t \notin Range(s.pending) /\ s.pending \in Seq(Tasks) /\ IsInjective(s.pending)
    BY <1>0, <1>1, SchedShape DEF Queued
  <2>2. IsInjective(Append(s.pending, t))
    <3> DEFINE q == s.pending
               r == Append(q, t)
    <3>1. /\ Len(q) \in Nat /\ DOMAIN q = 1 .. Len(q) /\ DOMAIN r = 1 .. Len(q) + 1
          /\ r[Len(q) + 1] = t /\ \A i \in 1 .. Len(q) : r[i] = q[i]
      BY <2>1
    <3>2. \A i \in 1 .. Len(q) : q[i] # t
      BY <2>1, <3>1 DEF Range
    <3> HIDE DEF q, r
    <3>3. \A i, j \in 1 .. Len(q) : q[i] = q[j] => i = j
      BY <2>1, <3>1 DEF IsInjective, q
    <3>4. IsInjective(r)
      BY <3>1, <3>2, <3>3 DEF IsInjective
    <3>. QED  BY <3>4 DEF r, q
  <2>3. \A u \in Range(s.pending) : s.state[u] = "Active" /\ u \in Tasks
    BY <1>0, <2>1 DEF Queued, Range
  <2>. QED  BY <1>2, <1>3, <2>2, <2>3 DEF Queued
<1>12. Efforts(z, A)
  <2> SUFFICES ASSUME NEW c \in Chains, NEW u \in On(s, c), NEW v \in On(s, c), u < v
               PROVE  /\ Att(z, A, v) <= Att(z, A, u)
                      /\ z.gen[v][c] < z.gen[u][c] => Att(z, A, v) < Att(z, A, u)
    BY <1>2 DEF Efforts
  <2>1. \A x, y \in On(s, c) : x < y =>
            Att(s, A, y) <= Att(s, A, x) /\ (s.gen[y][c] < s.gen[x][c] => Att(s, A, y) < Att(s, A, x))
    BY <1>0 DEF Efforts
  <2>2. On(s, c) \subseteq Tasks /\ On(s, c) \subseteq Nat /\ s.cgen[c] \in Nat /\ \A x \in Tasks : s.gen[x][c] \in Nat
    BY <1>0, OnFact
  <2>3. \A x \in Tasks : Att(s, A, x) \in Nat
    BY DEF Att
  <2>4. \A x \in Tasks \ {t} : Att(z, A, x) = Att(s, A, x)
    BY <1>2 DEF Att
  <2>5. Att(z, A, t) = Att(s, A, t) + 1
    <3>1. t \notin Range(s.pending)
      BY <1>0, <1>1 DEF Queued
    <3>. QED  BY <1>2, <3>1 DEF Att
  <2>6. t \in On(s, c) => /\ s.gen[t][c] < s.cgen[c] /\ z.gen[t][c] = s.cgen[c]
                          /\ \A x \in On(s, c) : x < t => s.gen[x][c] = s.cgen[c]
    BY <1>0, <1>2, <1>4, OnFact
  <2>7. \A x \in On(s, c) : x # t => z.gen[x][c] = s.gen[x][c]
    BY <1>2, <2>2
  <2>8. CASE u = t
    BY <2>1, <2>2, <2>3, <2>4, <2>5, <2>8
  <2>9. CASE v = t
    <3>1. s.gen[v][c] < s.gen[u][c] /\ z.gen[v][c] = s.cgen[c] /\ z.gen[u][c] = s.cgen[c] /\ u # t
      BY <2>2, <2>6, <2>7, <2>9
    <3>2. Att(s, A, v) < Att(s, A, u)
      BY <2>1, <3>1
    <3>3. Att(z, A, v) = Att(s, A, v) + 1 /\ Att(z, A, u) = Att(s, A, u)
      BY <2>2, <2>4, <2>5, <2>9, <3>1
    <3>4. Att(z, A, v) <= Att(z, A, u)
      BY <2>2, <2>3, <3>2, <3>3
    <3>. QED  BY <2>2, <3>1, <3>4
  <2>10. CASE u # t /\ v # t
    BY <2>1, <2>2, <2>4, <2>7, <2>10
  <2>. QED  BY <2>8, <2>9, <2>10
<1>. QED  BY <1>0, <1>2, <1>5, <1>6, <1>7, <1>8, <1>9, <1>10, <1>11, <1>12 DEF SchedInv, z

LEMMA LeastIn == ASSUME NEW S \in SUBSET Nat, S # {} PROVE Min(S) \in S
<1>1. PICK x \in S : \A y \in S : x <= y
  BY LeastNatural
<1>2. \E m \in S : \A y \in S : m =< y
  BY <1>1
<1>. QED  BY <1>2 DEF Min

Remember(s, c, t) == [s EXCEPT !.limited[c] = t]

LEMMA HoldShape ==
    ASSUME NEW s \in Schedulers, NEW t \in Tasks, HeldBy(s, t) # {}
    PROVE  \E c \in ChainsOf(s, t) :
               /\ c \in Chains /\ (Behind(s, t, c) \/ Full(s, c))
               /\ IF Behind(s, t, c) THEN HoldTask(s, t) = s
                  ELSE /\ HoldTask(s, t) = Remember(s, c, t)
                       /\ HoldTask(s, t) \in Schedulers
<1> DEFINE c == s.on[t][Min(HeldBy(s, t))]
<1>1. s.on[t] \in Routes \cup {<<>>}
  BY SchedShape
<1>2. HeldBy(s, t) \in SUBSET Nat
  BY <1>1, RouteShape DEF HeldBy
<1>3. Min(HeldBy(s, t)) \in HeldBy(s, t)
  BY <1>2, LeastIn
<1>4. c \in ChainsOf(s, t) /\ c \in Chains /\ (Behind(s, t, c) \/ Full(s, c))
  BY <1>3, TaskChains DEF HeldBy
<1>5. HoldTask(s, t) = IF Behind(s, t, c) THEN s ELSE Remember(s, c, t)
  BY DEF HoldTask, Remember
<1> HIDE DEF c
<1>6. Remember(s, c, t) \in Schedulers
  <2>1. [s.limited EXCEPT ![c] = t] \in [Chains -> Tasks \cup {NoTask}]
    BY SchedShape
  <2>. QED  BY <2>1 DEF Schedulers, Remember
<1>. QED  BY <1>4, <1>5, <1>6

\* A step that changes limited alone.
LEMMA LimitShape ==
    ASSUME NEW s \in Schedulers, NEW c \in Chains, NEW t \in Tasks,
           NEW z, z = Remember(s, c, t)
    PROVE  /\ z.state = s.state /\ z.on = s.on /\ z.gen = s.gen /\ z.chain = s.chain /\ z.active = s.active
           /\ z.cgen = s.cgen /\ z.pending = s.pending /\ z.later = s.later /\ z.ok = s.ok
           /\ z.limited[c] = t /\ \A b \in Chains \ {c} : z.limited[b] = s.limited[b]
           /\ \A u \in Tasks : ChainsOf(z, u) = ChainsOf(s, u)
           /\ \A b \in Chains : On(z, b) = On(s, b) /\ (Full(z, b) <=> Full(s, b))
           /\ \A u \in Tasks : \A b \in Chains : Behind(z, u, b) <=> Behind(s, u, b)
<1>1. /\ z.state = s.state /\ z.on = s.on /\ z.gen = s.gen /\ z.chain = s.chain /\ z.active = s.active
      /\ z.cgen = s.cgen /\ z.pending = s.pending /\ z.later = s.later /\ z.ok = s.ok
      /\ z.limited = [s.limited EXCEPT ![c] = t]
  BY DEF Schedulers, Remember
<1>2. z.limited[c] = t /\ \A b \in Chains \ {c} : z.limited[b] = s.limited[b]
  BY <1>1, SchedShape
<1>3. \A u \in Tasks : ChainsOf(z, u) = ChainsOf(s, u) /\ (Exists(z, u) <=> Exists(s, u))
  BY <1>1 DEF ChainsOf, Exists
<1>4. \A b \in Chains : On(z, b) = On(s, b) /\ (Full(z, b) <=> Full(s, b))
  BY <1>1, <1>3 DEF On, Full
<1>5. \A u \in Tasks : \A b \in Chains : Behind(z, u, b) <=> Behind(s, u, b)
  BY <1>1 DEF Behind, GetParent
<1>. QED  BY <1>1, <1>2, <1>3, <1>4, <1>5

\* A task that is held back is no longer to be tried.
LEMMA HoldKeeps ==
    ASSUME NEW s, NEW W, NEW A \in [Tasks -> Nat], SchedInv(s, W, A), NEW t \in Tasks,
           s.state[t] = "Pending", HeldBy(s, t) # {}, NEW V, W \subseteq V \cup {t}
    PROVE  SchedInv(HoldTask(s, t), V, A)
<1>0. /\ s \in Schedulers /\ s.ok /\ Listed(s) /\ Routed(s) /\ Gens(s) /\ Counted(s) /\ Limits(s)
      /\ Waits(s, W) /\ Queued(s) /\ Efforts(s, A)
  BY DEF SchedInv
<1>1. PICK c \in ChainsOf(s, t) :
          /\ c \in Chains /\ (Behind(s, t, c) \/ Full(s, c))
          /\ IF Behind(s, t, c) THEN HoldTask(s, t) = s
             ELSE /\ HoldTask(s, t) = Remember(s, c, t)
                  /\ HoldTask(s, t) \in Schedulers
  BY <1>0, HoldShape
<1>2. c \in Chains /\ t \in On(s, c)
  BY <1>0, TaskChains, OnFact
<1>3. CASE Behind(s, t, c)
  <2>1. Waits(s, V)
    BY <1>0, <1>3 DEF Waits, Held
  <2>. QED  BY <1>0, <1>1, <1>3, <2>1 DEF SchedInv
<1>4. CASE ~Behind(s, t, c)
  <2> DEFINE z == HoldTask(s, t)
  <2>1. z = Remember(s, c, t) /\ z \in Schedulers /\ Full(s, c)
    BY <1>1, <1>4
  <2>0. s \in Schedulers /\ c \in Chains
    BY <1>0, <1>2
  <2> HIDE DEF z
  <2>2. /\ z.state = s.state /\ z.on = s.on /\ z.gen = s.gen /\ z.chain = s.chain /\ z.active = s.active
        /\ z.cgen = s.cgen /\ z.pending = s.pending /\ z.later = s.later /\ z.ok = s.ok
        /\ z.limited[c] = t /\ \A b \in Chains \ {c} : z.limited[b] = s.limited[b]
        /\ \A u \in Tasks : ChainsOf(z, u) = ChainsOf(s, u)
        /\ \A b \in Chains : On(z, b) = On(s, b) /\ (Full(z, b) <=> Full(s, b))
        /\ \A u \in Tasks : \A b \in Chains : Behind(z, u, b) <=> Behind(s, u, b)
    BY <2>0, <2>1, LimitShape
  <2>3. Listed(z) /\ Routed(z) /\ Gens(z)
    BY <1>0, <2>2 DEF Listed, Routed, Gens
  <2>4. Counted(z)
    <3>1. \A b \in Chains : ActiveOn(z, b) = ActiveOn(s, b)
      BY <2>2 DEF ActiveOn
    <3>. QED  BY <1>0, <2>2, <3>1 DEF Counted
  <2>5. Limits(z)
    BY <1>0, <1>2, <2>2 DEF Limits
  <2>6. Queued(z) /\ Efforts(z, A)
    BY <1>0, <2>2 DEF Queued, Efforts, Att
  <2>7. Waits(z, V)
    <3> SUFFICES ASSUME NEW u \in Tasks, s.state[u] = "Pending", u \notin V PROVE Held(z, u)
      BY <2>2 DEF Waits
    <3>1. CASE u = t
      BY <2>1, <2>2, <3>1, <1>2 DEF Held
    <3>2. CASE u # t
      <4>1. PICK b \in ChainsOf(s, u) : Behind(s, u, b) \/ (Full(s, b) /\ s.limited[b] = u)
        BY <1>0, <3>2 DEF Waits, Held
      <4>2. b \in Chains /\ b \in ChainsOf(z, u) /\ u \in On(s, b)
        BY <1>0, <2>2, TaskChains, OnFact
      <4>3. CASE Behind(s, u, b)
        BY <2>2, <4>2, <4>3 DEF Held
      <4>4. CASE ~Behind(s, u, b) /\ Full(s, b) /\ s.limited[b] = u /\ b # c
        BY <2>2, <4>2, <4>4 DEF Held
      <4>5. CASE ~Behind(s, u, b) /\ b = c
        <5>1. On(s, c) \subseteq Nat /\ On(s, c) \subseteq Tasks
          BY <1>0, <1>2, OnFact
        <5>2. t \in On(s, c) /\ u \in On(s, c) /\ (t < u \/ u < t)
          BY <1>2, <3>2, <4>2, <4>5, <5>1
        <5>3. s.gen[t][c] # s.cgen[c] /\ s.gen[u][c] # s.cgen[c]
          BY <1>0, <1>2, <5>2 DEF Gens
        <5>. QED  BY <1>0, <1>2, <1>4, <4>5, <5>2, <5>3, BehindFact
      <4>. QED  BY <4>1, <4>3, <4>4, <4>5
    <3>. QED  BY <3>1, <3>2
  <2>. QED  BY <1>0, <2>1, <2>2, <2>3, <2>4, <2>5, <2>6, <2>7 DEF SchedInv, z
<1>. QED  BY <1>3, <1>4

-----------------------------------------------------------------------------
(* The calls of try_start_task that one call leads to                      *)

LEMMA RangeHead ==
    ASSUME NEW S, NEW q \in Seq(S), q # <<>>
    PROVE  /\ Head(q) \in S /\ Tail(q) \in Seq(S) /\ Len(q) \in Nat /\ Len(Tail(q)) = Len(q) - 1 /\ Len(q) >= 1
           /\ Range(q) = {Head(q)} \cup Range(Tail(q))
<1> DEFINE r == Tail(q)
<1>1. /\ Len(q) \in Nat /\ Len(q) >= 1 /\ r \in Seq(S) /\ Len(r) = Len(q) - 1 /\ Head(q) = q[1] /\ Head(q) \in S
      /\ DOMAIN q = 1 .. Len(q) /\ DOMAIN r = 1 .. Len(q) - 1 /\ \A i \in 1 .. Len(q) - 1 : r[i] = q[i + 1]
  OBVIOUS
<1> HIDE DEF r
<1>2. ASSUME NEW i \in DOMAIN q PROVE q[i] \in {Head(q)} \cup Range(r)
  <2>1. CASE i = 1
    BY <1>1, <2>1
  <2>2. CASE i # 1
    <3>1. i - 1 \in DOMAIN r /\ r[i - 1] = q[i]
      BY <1>1, <2>2
    <3>. QED  BY <3>1 DEF Range
  <2>. QED  BY <2>1, <2>2
<1>3. ASSUME NEW i \in DOMAIN r PROVE r[i] \in Range(q)
  <2>1. i + 1 \in DOMAIN q /\ r[i] = q[i + 1]
    BY <1>1
  <2>. QED  BY <2>1 DEF Range
<1>4. Head(q) \in Range(q)
  BY <1>1 DEF Range
<1>5. Range(q) = {Head(q)} \cup Range(r)
  BY <1>2, <1>3, <1>4 DEF Range
<1>. QED  BY <1>1, <1>5 DEF r

\* What is due to be tried exists; the rest of those that wait are held back.
DueOK(x) == x.due \in Seq(Tasks \cup {NoTask}) /\ \A t \in Range(x.due) : t # NoTask => Exists(x.s, t)
RunInv(x, A) == SchedInv(x.s, Range(x.due), A) /\ DueOK(x)

\* What the starting of tasks changes, beside chains.
Moves(s, z) ==
    /\ z.on = s.on /\ z.later = s.later
    /\ \A t \in Tasks : z.state[t] # s.state[t] => s.state[t] = "Pending" /\ z.state[t] = "Active"
    /\ \A t \in Tasks : z.state[t] = s.state[t] => z.gen[t] = s.gen[t]
    /\ Range(z.pending) = Range(s.pending) \cup {t \in Tasks : z.state[t] # s.state[t]}

LEMMA MovesTrans == ASSUME NEW s, NEW y, NEW z, Moves(s, y), Moves(y, z) PROVE Moves(s, z)
<1>1. z.on = s.on /\ z.later = s.later
  BY DEF Moves
<1>2. ASSUME NEW t \in Tasks
      PROVE  /\ z.state[t] # s.state[t] => s.state[t] = "Pending" /\ z.state[t] = "Active"
             /\ z.state[t] = s.state[t] => z.gen[t] = s.gen[t]
             /\ z.state[t] # s.state[t] <=> (z.state[t] # y.state[t] \/ y.state[t] # s.state[t])
  BY DEF Moves
<1>3. Range(z.pending) = Range(s.pending) \cup {t \in Tasks : z.state[t] # s.state[t]}
  <2>1. /\ Range(y.pending) = Range(s.pending) \cup {t \in Tasks : y.state[t] # s.state[t]}
        /\ Range(z.pending) = Range(y.pending) \cup {t \in Tasks : z.state[t] # y.state[t]}
    BY DEF Moves
  <2>. QED  BY <1>2, <2>1
<1>. QED  BY <1>1, <1>2, <1>3 DEF Moves

LEMMA ChildrenFact ==
    ASSUME NEW s \in Schedulers, Listed(s), NEW t \in Tasks, Exists(s, t)
    PROVE  /\ Children(s, t) \in Seq(Tasks \cup {NoTask}) /\ Len(Children(s, t)) = Len(s.on[t])
           /\ \A u \in Range(Children(s, t)) : u # NoTask => Exists(s, u) /\ u # t
           /\ \A c \in ChainsOf(s, t) : GetChild(s, t, c) \in Range(Children(s, t))
<1> DEFINE r == s.on[t]
           k == Children(s, t)
<1>1. r \in Routes \cup {<<>>}
  BY SchedShape
<1>2. Len(r) \in Nat /\ DOMAIN r = 1 .. Len(r)
  BY <1>1, RouteShape
<1>3. k = [i \in 1 .. Len(r) |-> GetChild(s, t, r[i])]
  BY <1>2 DEF Children
<1>4. ASSUME NEW c \in ChainsOf(s, t)
      PROVE  GetChild(s, t, c) = NoTask \/ (GetChild(s, t, c) \in Tasks /\ Exists(s, GetChild(s, t, c)) /\ GetChild(s, t, c) # t)
  <2>1. c \in Chains /\ t \in On(s, c)
    BY TaskChains DEF On
  <2>2. GetChild(s, t, c) = NoTask \/ (GetChild(s, t, c) \in On(s, c) /\ t < GetChild(s, t, c))
    BY <2>1, ChildFact
  <2>3. t \in Nat /\ On(s, c) \subseteq Tasks
    BY Bounds DEF On
  <2>. QED  BY <2>2, <2>3 DEF On
<1>5. \A i \in 1 .. Len(r) : r[i] \in ChainsOf(s, t)
  BY <1>2, TaskChains
<1> HIDE DEF r
<1>6. \A i \in 1 .. Len(r) : k[i] = GetChild(s, t, r[i]) /\ k[i] \in Tasks \cup {NoTask} /\ (k[i] # NoTask => Exists(s, k[i]) /\ k[i] # t)
  BY <1>3, <1>4, <1>5
<1>7. k \in Seq(Tasks \cup {NoTask}) /\ Len(k) = Len(r) /\ DOMAIN k = 1 .. Len(r)
  <2>1. k \in [1 .. Len(r) -> Tasks \cup {NoTask}]
    BY <1>3, <1>6
  <2>. QED  BY <1>2, <2>1
<1>8. \A u \in Range(k) : u # NoTask => Exists(s, u) /\ u # t
  BY <1>6, <1>7 DEF Range
<1>9. ASSUME NEW c \in ChainsOf(s, t) PROVE GetChild(s, t, c) \in Range(k)
  <2>1. PICK i \in 1 .. Len(r) : r[i] = c
    BY <1>2 DEF ChainsOf, Range, r
  <2>. QED  BY <1>6, <1>7, <2>1 DEF Range
<1>. QED  BY <1>7, <1>8, <1>9 DEF r

\* How many calls there can still be.
PendingTasks(s) == {t \in Tasks : s.state[t] = "Pending"}
Size(x) == Len(x.due) + Cardinality(Chains) * Cardinality(PendingTasks(x.s))

LEMMA PendingFinite == ASSUME NEW s PROVE IsFiniteSet(PendingTasks(s)) /\ Cardinality(PendingTasks(s)) \in Nat
                                         /\ Cardinality(PendingTasks(s)) <= MaxTasks
<1>1. PendingTasks(s) \subseteq Tasks /\ IsFiniteSet(Tasks) /\ Cardinality(Tasks) = MaxTasks
  BY Bounds DEF PendingTasks
<1>. QED  BY <1>1, FS_Subset, FS_CardinalityType

LEMMA CallStarts ==
    ASSUME NEW x, NEW A \in [Tasks -> Nat], RunInv(x, A), x.due # <<>>, Head(x.due) \in Tasks, Starts(x.s, Head(x.due))
    PROVE  RunInv(Call(x), A) /\ Moves(x.s, Call(x).s) /\ Size(Call(x)) < Size(x)
<1> DEFINE s == x.s
           t == Head(x.due)
           z == DoStartTask(s, t)
           k == Children(s, t)
           due == k \o Tail(x.due)
<1>0. /\ s \in Schedulers /\ Listed(s) /\ SchedInv(s, Range(x.due), A)
      /\ x.due \in Seq(Tasks \cup {NoTask}) /\ \A u \in Range(x.due) : u # NoTask => Exists(s, u)
      /\ t \in Tasks /\ t # NoTask /\ s.state[t] = "Pending" /\ Exists(s, t)
  BY Bounds DEF RunInv, SchedInv, DueOK, Starts, Exists
<1>1. Call(x) = [s |-> z, due |-> due]
  <2>1. TryStartTask(s, t) = z
    BY <1>0 DEF TryStartTask, Starts
  <2>. QED  BY <2>1 DEF Call
<1>2. /\ Tail(x.due) \in Seq(Tasks \cup {NoTask}) /\ Range(x.due) = {t} \cup Range(Tail(x.due))
      /\ Len(Tail(x.due)) = Len(x.due) - 1 /\ Len(x.due) \in Nat /\ Len(x.due) >= 1
  BY <1>0, RangeHead
<1>3. /\ k \in Seq(Tasks \cup {NoTask}) /\ Len(k) = Len(s.on[t])
      /\ \A u \in Range(k) : u # NoTask => Exists(s, u)
      /\ \A c \in ChainsOf(s, t) : GetChild(s, t, c) \in Range(k)
  BY <1>0, ChildrenFact
<1>4. /\ z \in Schedulers /\ z.state = [s.state EXCEPT ![t] = "Active"] /\ z.on = s.on /\ z.later = s.later
      /\ Range(z.pending) = Range(s.pending) \cup {t} /\ \A u \in Tasks \ {t} : z.gen[u] = s.gen[u]
  BY <1>0, StartShape
<1> HIDE DEF s, t, z, k
<1>5. due \in Seq(Tasks \cup {NoTask}) /\ Range(due) = Range(k) \cup Range(Tail(x.due)) /\ Len(due) = Len(k) + (Len(x.due) - 1)
  <2> DEFINE r == Tail(x.due)
  <2>1. r \in Seq(Tasks \cup {NoTask}) /\ Len(r) = Len(x.due) - 1
    BY <1>2
  <2> HIDE DEF r
  <2>2. k \o r \in Seq(Tasks \cup {NoTask}) /\ Range(k \o r) = Range(k) \cup Range(r)
    BY <1>3, <2>1, RangeConcat, ConcatProperties
  <2>3. Len(k \o r) = Len(k) + Len(r)
    BY <1>3, <2>1, ConcatProperties
  <2>. QED  BY <2>1, <2>2, <2>3 DEF r
<1>6. SchedInv(z, Range(due), A)
  <2>1. Range(x.due) \subseteq Range(due) \cup {t}
    BY <1>2, <1>5
  <2>2. \A c \in ChainsOf(s, t) : GetChild(s, t, c) # NoTask => GetChild(s, t, c) \in Range(due)
    BY <1>3, <1>5
  <2>3. Starts(s, t)
    BY DEF s, t
  <2> HIDE DEF due
  <2>. QED  BY <1>0, <2>1, <2>2, <2>3, StartKeeps DEF z
<1>7. /\ s.state \in [Tasks -> States] /\ z.state[t] = "Active" /\ \A u \in Tasks \ {t} : z.state[u] = s.state[u]
  BY <1>0, <1>4, SchedShape
<1>8. \A u \in Range(due) : u # NoTask => Exists(z, u)
  <2>1. Range(due) \subseteq Tasks \cup {NoTask}
    BY <1>5 DEF Range
  <2>2. \A u \in Range(due) : u # NoTask => Exists(s, u)
    BY <1>0, <1>2, <1>3, <1>5
  <2>. QED  BY <1>7, <2>1, <2>2 DEF Exists
<1>9. Moves(s, z)
  <2>1. {u \in Tasks : z.state[u] # s.state[u]} = {t}
    BY <1>0, <1>7
  <2>. QED  BY <1>0, <1>4, <1>7, <2>1 DEF Moves
<1>10. Len(due) + Cardinality(Chains) * Cardinality(PendingTasks(z)) < Size(x)
  <2>1. PendingTasks(z) = PendingTasks(s) \ {t} /\ t \in PendingTasks(s)
    BY <1>0, <1>7 DEF PendingTasks
  <2>2. Cardinality(PendingTasks(z)) = Cardinality(PendingTasks(s)) - 1 /\ Cardinality(PendingTasks(s)) \in Nat
    BY <2>1, PendingFinite, FS_RemoveElement
  <2>3. Len(k) <= Cardinality(Chains) /\ Len(k) \in Nat
    <3>1. s.on[t] \in Routes \cup {<<>>}
      BY <1>0, SchedShape
    <3>. QED  BY <1>3, <3>1, RouteBounded, RouteShape
  <2>4. Size(x) = Len(x.due) + Cardinality(Chains) * Cardinality(PendingTasks(s))
    BY DEF Size, s
  <2> DEFINE n == Cardinality(Chains)
             m == Cardinality(PendingTasks(s))
  <2>5. n \in Nat /\ m \in Nat
    BY <2>2, Bounds
  <2> HIDE DEF n, m
  <2>6. n * (m - 1) = n * m - n
    BY <2>5
  <2>. QED  BY <1>2, <1>5, <2>2, <2>3, <2>4, <2>5, <2>6 DEF n, m
<1>. QED
  <2>1. Call(x).s = z /\ Call(x).due = due
    BY <1>1
  <2> HIDE DEF due
  <2>. QED  BY <1>5, <1>6, <1>8, <1>9, <1>10, <2>1 DEF RunInv, DueOK, Size, s

\* A call that starts nothing.
LEMMA CallHolds ==
    ASSUME NEW x, NEW A \in [Tasks -> Nat], RunInv(x, A), x.due # <<>>, ~Starts(x.s, Head(x.due))
    PROVE  /\ RunInv(Call(x), A) /\ Moves(x.s, Call(x).s) /\ Size(Call(x)) < Size(x)
           /\ Call(x).s.state = x.s.state /\ Call(x).s.pending = x.s.pending
           /\ \A t \in Tasks : ~Starts(x.s, t) => ~Starts(Call(x).s, t)
<1> DEFINE s == x.s
           t == Head(x.due)
           r == Tail(x.due)
           z == TryStartTask(s, t)
<1>0. /\ s \in Schedulers /\ SchedInv(s, Range(x.due), A)
      /\ x.due \in Seq(Tasks \cup {NoTask}) /\ \A u \in Range(x.due) : u # NoTask => Exists(s, u)
      /\ ~Starts(s, t)
  BY DEF RunInv, SchedInv, DueOK
<1>1. /\ r \in Seq(Tasks \cup {NoTask}) /\ Range(x.due) = {t} \cup Range(r) /\ t \in Tasks \cup {NoTask}
      /\ Len(r) = Len(x.due) - 1 /\ Len(x.due) \in Nat /\ Len(x.due) >= 1
  BY <1>0, RangeHead
<1>2. Call(x) = [s |-> z, due |-> r]
  <2>1. Call(x) = [s |-> z, due |-> <<>> \o r]
    BY <1>0 DEF Call
  <2>. QED  BY <1>1, <2>1
<1>3. t # NoTask => t \in Tasks /\ Exists(s, t)
  BY <1>0, <1>1
<1> HIDE DEF s, t, r
<1>4. /\ SchedInv(z, Range(r), A) /\ z \in Schedulers /\ Moves(s, z) /\ z.state = s.state /\ z.pending = s.pending
      /\ \A u \in Tasks : ~Starts(s, u) => ~Starts(z, u)
  <2>1. CASE t = NoTask \/ (t # NoTask /\ s.state[t] # "Pending")
    <3>1. z = s
      BY <1>0, <1>3, <2>1 DEF TryStartTask
    <3>2. SchedInv(s, Range(r), A)
      <4>1. Waits(s, Range(r))
        BY <1>0, <1>1, <2>1, Bounds DEF SchedInv, Waits
      <4>. QED  BY <1>0, <4>1 DEF SchedInv
    <3>3. Moves(s, s)
      BY DEF Moves
    <3>. QED  BY <1>0, <3>1, <3>2, <3>3
  <2>2. CASE t # NoTask /\ s.state[t] = "Pending"
    <3>1. HeldBy(s, t) # {} /\ t \in Tasks
      BY <1>0, <1>3, <2>2 DEF Starts
    <3>2. z = HoldTask(s, t)
      BY <1>0, <1>3, <2>2, <3>1 DEF TryStartTask
    <3>3. SchedInv(z, Range(r), A)
      <4>1. Range(x.due) \subseteq Range(r) \cup {t}
        BY <1>1
      <4>. QED  BY <1>0, <2>2, <3>1, <3>2, <4>1, HoldKeeps
    <3>4. PICK c \in ChainsOf(s, t) :
              /\ c \in Chains /\ (Behind(s, t, c) \/ Full(s, c))
              /\ IF Behind(s, t, c) THEN HoldTask(s, t) = s
                 ELSE /\ HoldTask(s, t) = Remember(s, c, t)
                      /\ HoldTask(s, t) \in Schedulers
      BY <1>0, <3>1, HoldShape
    <3> HIDE DEF z
    <3>5. CASE Behind(s, t, c)
      <4>1. z = s
        BY <3>2, <3>4, <3>5
      <4>2. Moves(s, s)
        BY DEF Moves
      <4>. QED  BY <1>0, <3>3, <4>1, <4>2
    <3>6. CASE ~Behind(s, t, c)
      <4>1. c \in Chains /\ z = Remember(s, c, t) /\ z \in Schedulers
        BY <3>2, <3>4, <3>6
      <4>2. /\ z.state = s.state /\ z.on = s.on /\ z.gen = s.gen
            /\ z.pending = s.pending /\ z.later = s.later
            /\ \A b \in Chains : (Full(z, b) <=> Full(s, b))
            /\ \A u \in Tasks : \A b \in Chains : Behind(z, u, b) <=> Behind(s, u, b)
        BY <1>0, <3>1, <4>1, LimitShape
      <4>3. Moves(s, z)
        BY <4>2 DEF Moves
      <4>4. ASSUME NEW u \in Tasks PROVE HeldBy(z, u) = HeldBy(s, u)
        <5>1. \A i \in DOMAIN s.on[u] : s.on[u][i] \in Chains
          BY <1>0, TaskChains
        <5>. QED  BY <4>2, <5>1 DEF HeldBy
      <4>5. \A u \in Tasks : ~Starts(s, u) => ~Starts(z, u)
        BY <4>2, <4>4 DEF Starts
      <4>. QED  BY <3>3, <4>1, <4>2, <4>3, <4>5
    <3>. QED  BY <3>5, <3>6
  <2>. QED  BY <2>1, <2>2
<1> HIDE DEF z
<1>5. Call(x).s = z /\ Call(x).due = r
  BY <1>2
<1>6. \A u \in Range(r) : u # NoTask => Exists(z, u)
  BY <1>0, <1>1, <1>4 DEF Exists
<1>7. Len(r) + Cardinality(Chains) * Cardinality(PendingTasks(z)) < Size(x)
  <2>1. PendingTasks(z) = PendingTasks(s)
    BY <1>4 DEF PendingTasks
  <2> DEFINE n == Cardinality(Chains) * Cardinality(PendingTasks(s))
  <2>2. n \in Nat
    BY PendingFinite, Bounds
  <2>3. Size(x) = Len(x.due) + n
    BY DEF Size, s
  <2> HIDE DEF n
  <2>4. Len(r) + n < Size(x)
    BY <1>1, <2>2, <2>3
  <2>. QED  BY <2>1, <2>4 DEF n
<1>. QED  BY <1>1, <1>4, <1>5, <1>6, <1>7 DEF RunInv, DueOK, Size, s

LEMMA CallKeeps ==
    ASSUME NEW x, NEW A \in [Tasks -> Nat], RunInv(x, A)
    PROVE  /\ RunInv(Call(x), A) /\ Moves(x.s, Call(x).s)
           /\ IF x.due = <<>> THEN Call(x) = x ELSE Size(Call(x)) < Size(x)
<1>1. CASE x.due = <<>>
  <2>1. Call(x) = x
    BY <1>1 DEF Call
  <2>2. Moves(x.s, x.s)
    BY DEF Moves
  <2>. QED  BY <1>1, <2>1, <2>2
<1>2. CASE x.due # <<>> /\ Starts(x.s, Head(x.due))
  <2>1. Head(x.due) \in Tasks
    BY <1>2, RangeHead DEF RunInv, DueOK, Starts
  <2>. QED  BY <1>2, <2>1, CallStarts
<1>3. CASE x.due # <<>> /\ ~Starts(x.s, Head(x.due))
  BY <1>3, CallHolds
<1>. QED  BY <1>1, <1>2, <1>3

\* The recursive function of TryStartTasks.
IsMade(f, x, k) == f = [n \in 0 .. k |-> IF n = 0 THEN x ELSE Call(f[n - 1])]
Made(s, due) == CHOOSE f : IsMade(f, [s |-> s, due |-> due], Calls(due))

\* There is one, by induction on its domain.
LEMMA MadeExists == ASSUME NEW x, NEW k \in Nat PROVE \E f : IsMade(f, x, k)
<1> DEFINE N == {j \in Nat : \E f : IsMade(f, x, j)}
<1>1. 0 \in N
  <2> DEFINE g == [n \in 0 .. 0 |-> x]
  <2>1. IsMade(g, x, 0)
    BY DEF IsMade
  <2>. QED  BY <2>1
<1>2. ASSUME NEW j \in Nat, j \in N PROVE j + 1 \in N
  <2>1. PICK f : IsMade(f, x, j)
    BY <1>2
  <2> DEFINE g == [n \in 0 .. j + 1 |-> IF n = j + 1 THEN Call(f[j]) ELSE f[n]]
  <2>0. f = [n \in 0 .. j |-> IF n = 0 THEN x ELSE Call(f[n - 1])]
    BY <2>1 DEF IsMade
  <2>2. ASSUME NEW n \in 0 .. j + 1 PROVE g[n] = IF n = 0 THEN x ELSE Call(g[n - 1])
    <3>1. CASE n = j + 1
      <4>1. g[n] = Call(f[j]) /\ g[n - 1] = f[j] /\ n # 0
        BY <3>1
      <4>. QED  BY <3>1, <4>1
    <3>2. CASE n # j + 1 /\ n # 0
      <4>1. n \in 0 .. j /\ n - 1 \in 0 .. j /\ n - 1 # j + 1
        BY <3>2
      <4>2. g[n] = f[n] /\ g[n - 1] = f[n - 1]
        BY <3>2, <4>1
      <4>3. f[n] = Call(f[n - 1])
        BY <2>0, <3>2, <4>1
      <4>. QED  BY <3>2, <4>2, <4>3
    <3>3. CASE n # j + 1 /\ n = 0
      <4>1. g[0] = f[0] /\ f[0] = x
        BY <2>0, <3>3
      <4>. QED  BY <3>3, <4>1
    <3>. QED  BY <3>1, <3>2, <3>3
  <2>3. g = [n \in 0 .. j + 1 |-> g[n]]
    OBVIOUS
  <2> HIDE DEF g
  <2>4. g = [n \in 0 .. j + 1 |-> IF n = 0 THEN x ELSE Call(g[n - 1])]
    BY <2>2, <2>3
  <2>5. IsMade(g, x, j + 1)
    BY <2>4 DEF IsMade
  <2>. QED  BY <2>5
<1> HIDE DEF N
<1>3. Nat \subseteq N
  BY <1>1, <1>2, NatSetInduction
<1>. QED  BY <1>3 DEF N

LEMMA MadeFact ==
    ASSUME NEW s, NEW due, Calls(due) \in Nat
    PROVE  /\ TryStartTasks(s, due) = Made(s, due)[Calls(due)].s
           /\ Made(s, due)[0] = [s |-> s, due |-> due]
           /\ \A n \in Nat : n + 1 <= Calls(due) => Made(s, due)[n + 1] = Call(Made(s, due)[n])
<1> DEFINE x == [s |-> s, due |-> due]
           k == Calls(due)
           f == Made(s, due)
<1>1. IsMade(f, x, k)
  BY MadeExists DEF Made
<1>2. TryStartTasks(s, due) = f[k].s
  BY DEF TryStartTasks, Made, IsMade
<1> HIDE DEF x, k, f
<1>3. \A n \in 0 .. k : f[n] = IF n = 0 THEN x ELSE Call(f[n - 1])
  BY <1>1 DEF IsMade
<1>4. f[0] = x
  BY <1>3 DEF k
<1>5. ASSUME NEW n \in Nat, n + 1 <= k PROVE f[n + 1] = Call(f[n])
  <2>1. n + 1 \in 0 .. k /\ n + 1 # 0 /\ (n + 1) - 1 = n
    BY <1>5 DEF k
  <2>. QED  BY <1>3, <2>1
<1>. QED  BY <1>2, <1>4, <1>5 DEF f, k, x

\* Starting the tasks that are due keeps the invariant, and misses none.
LEMMA RunKeeps ==
    ASSUME NEW s, NEW due, NEW A \in [Tasks -> Nat], due \in Seq(Tasks \cup {NoTask}),
           SchedInv(s, Range(due), A), \A t \in Range(due) : t # NoTask => Exists(s, t)
    PROVE  /\ SchedInv(TryStartTasks(s, due), {}, A) /\ Moves(s, TryStartTasks(s, due))
           /\ (\A t \in Tasks : ~Starts(s, t)) =>
                 TryStartTasks(s, due).state = s.state /\ TryStartTasks(s, due).pending = s.pending
<1> DEFINE k == Calls(due)
           f == Made(s, due)
           Quiet(x) == /\ x.s.state = s.state /\ x.s.pending = s.pending
                       /\ \A t \in Tasks : ~Starts(x.s, t)
           Good(n) == /\ RunInv(f[n], A) /\ Moves(s, f[n].s)
                      /\ f[n].due = <<>> \/ Size(f[n]) + n <= k
                      /\ (\A t \in Tasks : ~Starts(s, t)) => Quiet(f[n])
           N == {n \in Nat : n <= k => Good(n)}
<1>1. k \in Nat /\ Len(due) \in Nat
  <2> DEFINE n == Cardinality(Chains) * MaxTasks
  <2>1. n \in Nat /\ Len(due) \in Nat
    BY Bounds
  <2>2. k = Len(due) + n
    BY DEF Calls
  <2>. QED  BY <2>1, <2>2
<1>2. /\ TryStartTasks(s, due) = f[k].s
      /\ f[0] = [s |-> s, due |-> due]
      /\ \A n \in Nat : n + 1 <= k => f[n + 1] = Call(f[n])
  BY <1>1, MadeFact
<1> HIDE DEF k, f
<1>3. 0 \in N
  <2>1. RunInv(f[0], A)
    BY <1>2 DEF RunInv, DueOK
  <2>2. Moves(s, f[0].s)
    BY <1>2 DEF Moves
  <2>3. Size(f[0]) + 0 <= k
    <3> DEFINE c == Cardinality(Chains)
               m == Cardinality(PendingTasks(s))
    <3>1. c \in Nat /\ m \in Nat /\ m <= MaxTasks /\ MaxTasks \in Nat
      BY PendingFinite, Bounds
    <3>2. k = Len(due) + c * MaxTasks /\ Size(f[0]) = Len(due) + c * m
      BY <1>2 DEF k, Calls, Size
    <3> HIDE DEF c, m
    <3>3. c * m <= c * MaxTasks /\ c * m \in Nat /\ c * MaxTasks \in Nat
      BY <3>1
    <3>. QED  BY <1>1, <3>2, <3>3
  <2>4. (\A t \in Tasks : ~Starts(s, t)) => Quiet(f[0])
    BY <1>2
  <2>. QED  BY <2>1, <2>2, <2>3, <2>4
<1>4. ASSUME NEW n \in Nat, n \in N PROVE n + 1 \in N
  <2> SUFFICES ASSUME n + 1 <= k PROVE Good(n + 1)
    OBVIOUS
  <2>1. Good(n)
    BY <1>1, <1>4
  <2>2. f[n + 1] = Call(f[n])
    BY <1>2
  <2>3. /\ RunInv(f[n + 1], A) /\ Moves(f[n].s, f[n + 1].s)
        /\ IF f[n].due = <<>> THEN f[n + 1] = f[n] ELSE Size(f[n + 1]) < Size(f[n])
    BY <2>1, <2>2, CallKeeps
  <2>4. Moves(s, f[n + 1].s)
    BY <2>1, <2>3, MovesTrans
  <2>5. f[n + 1].due = <<>> \/ Size(f[n + 1]) + (n + 1) <= k
    <3>1. CASE f[n].due = <<>>
      BY <2>3, <3>1
    <3>2. CASE f[n].due # <<>>
      <4>1. Size(f[n + 1]) < Size(f[n]) /\ Size(f[n]) + n <= k
        BY <2>1, <2>3, <3>2
      <4>2. ASSUME NEW x, RunInv(x, A) PROVE Size(x) \in Nat
        <5>1. Len(x.due) \in Nat
          BY <4>2 DEF RunInv, DueOK
        <5> DEFINE m == Cardinality(Chains) * Cardinality(PendingTasks(x.s))
        <5>2. m \in Nat
          BY PendingFinite, Bounds
        <5>3. Size(x) = Len(x.due) + m
          BY DEF Size
        <5>. QED  BY <5>1, <5>2, <5>3
      <4>3. Size(f[n]) \in Nat /\ Size(f[n + 1]) \in Nat
        BY <2>1, <2>3, <4>2
      <4>. QED  BY <1>1, <4>1, <4>3
    <3>. QED  BY <3>1, <3>2
  <2>6. ASSUME \A t \in Tasks : ~Starts(s, t) PROVE Quiet(f[n + 1])
    <3>1. Quiet(f[n])
      BY <2>1, <2>6
    <3>2. CASE f[n].due = <<>>
      BY <2>3, <3>1, <3>2
    <3>3. CASE f[n].due # <<>>
      <4>1. ~Starts(f[n].s, Head(f[n].due))
        <5>1. Head(f[n].due) \in Tasks \cup {NoTask}
          BY <2>1, <3>3, RangeHead DEF RunInv, DueOK
        <5>. QED  BY <3>1, <5>1 DEF Starts
      <4>2. /\ Call(f[n]).s.state = f[n].s.state /\ Call(f[n]).s.pending = f[n].s.pending
            /\ \A t \in Tasks : ~Starts(f[n].s, t) => ~Starts(Call(f[n]).s, t)
        BY <2>1, <3>3, <4>1, CallHolds
      <4>. QED  BY <2>2, <3>1, <4>2
    <3>. QED  BY <3>2, <3>3
  <2>. QED  BY <2>3, <2>4, <2>5, <2>6
<1> HIDE DEF N
<1>5. Nat \subseteq N
  BY <1>3, <1>4, NatSetInduction
<1>6. Good(k)
  BY <1>1, <1>5 DEF N
<1>7. f[k].due = <<>>
  <2>1. SUFFICES ASSUME Size(f[k]) + k <= k PROVE f[k].due = <<>>
    BY <1>6
  <2> DEFINE m == Cardinality(Chains) * Cardinality(PendingTasks(f[k].s))
  <2>2. f[k].due \in Seq(Tasks \cup {NoTask}) /\ m \in Nat
    BY <1>6, PendingFinite, Bounds DEF RunInv, DueOK
  <2>3. Size(f[k]) = Len(f[k].due) + m
    BY DEF Size
  <2> HIDE DEF m
  <2>4. Len(f[k].due) = 0
    BY <1>1, <2>1, <2>2, <2>3
  <2>. QED  BY <2>2, <2>4
<1>8. Range(f[k].due) = {}
  BY <1>7 DEF Range
<1>. QED  BY <1>2, <1>6, <1>8 DEF RunInv

-----------------------------------------------------------------------------
(* Taking a task back                                                      *)

LEMMA MaxTwo == ASSUME NEW a \in Nat, NEW b \in Nat PROVE Max({a, b}) \in Nat /\ Max({a, b}) >= a /\ Max({a, b}) >= b
                                                          /\ Max({a, b}) \in {a, b}
<1>1. \E x \in {a, b} : \A y \in {a, b} : x >= y
  <2>1. CASE a >= b
    BY <2>1
  <2>2. CASE ~(a >= b)
    BY <2>2
  <2>. QED  BY <2>1, <2>2
<1>2. Max({a, b}) \in {a, b} /\ \A y \in {a, b} : Max({a, b}) >= y
  BY <1>1 DEF Max
<1>. QED  BY <1>2

\* What inactivate_task puts on to_start_.
LEMMA ToTryFact ==
    ASSUME NEW s \in Schedulers, Listed(s), Limits(s), NEW t \in Tasks, Exists(s, t)
    PROVE  /\ ToTry(s, t) \in Seq(Tasks \cup {NoTask})
           /\ \A u \in Range(ToTry(s, t)) : u # NoTask => u # t /\ Exists(s, u)
           /\ \A c \in ChainsOf(s, t) : s.limited[c] \notin {NoTask, t} => s.limited[c] \in Range(ToTry(s, t))
<1> DEFINE r == s.on[t]
           q == ToTry(s, t)
           e(i) == Unless(t, IF i % 2 = 1 THEN s.limited[r[(i + 1) \div 2]] ELSE GetFirst(s, r[(i + 1) \div 2]))
<1>1. r \in Routes \cup {<<>>}
  BY SchedShape
<1>2. Len(r) \in Nat /\ DOMAIN r = 1 .. Len(r)
  BY <1>1, RouteShape
<1>3. \A i \in 1 .. Len(r) : r[i] \in ChainsOf(s, t) /\ r[i] \in Chains
  BY <1>2, TaskChains
<1>4. q = [i \in 1 .. 2 * Len(r) |-> e(i)]
  BY DEF ToTry
<1>5. ASSUME NEW c \in Chains, NEW u, u = s.limited[c] \/ u = GetFirst(s, c)
      PROVE  Unless(t, u) \in Tasks \cup {NoTask} /\ (Unless(t, u) # NoTask => Unless(t, u) # t /\ Exists(s, Unless(t, u)))
  <2>1. u = NoTask \/ u \in On(s, c)
    BY <1>5, FirstFact DEF Limits
  <2>2. u = NoTask \/ (u \in Tasks /\ Exists(s, u))
    BY <2>1 DEF On
  <2>. QED  BY <2>2 DEF Unless
<1>6. \A i \in 1 .. 2 * Len(r) : (i + 1) \div 2 \in 1 .. Len(r)
  BY <1>2
<1> HIDE DEF r
<1>7. ASSUME NEW i \in 1 .. 2 * Len(r) PROVE e(i) \in Tasks \cup {NoTask} /\ (e(i) # NoTask => e(i) # t /\ Exists(s, e(i)))
  <2> DEFINE c == r[(i + 1) \div 2]
             u == IF i % 2 = 1 THEN s.limited[c] ELSE GetFirst(s, c)
  <2>1. c \in Chains
    BY <1>3, <1>6
  <2> HIDE DEF c
  <2>2. u = s.limited[c] \/ u = GetFirst(s, c)
    OBVIOUS
  <2>3. e(i) = Unless(t, u)
    BY DEF c
  <2> HIDE DEF u, e
  <2>. QED  BY <1>5, <2>1, <2>2, <2>3
<1> HIDE DEF q
<1>8. DOMAIN q = 1 .. 2 * Len(r) /\ \A i \in 1 .. 2 * Len(r) : q[i] = e(i)
  BY <1>4
<1>9. ASSUME NEW c \in ChainsOf(s, t), s.limited[c] \notin {NoTask, t} PROVE s.limited[c] \in Range(q)
  <2>1. PICK i \in 1 .. Len(r) : r[i] = c
    BY <1>2 DEF ChainsOf, Range, r
  <2> DEFINE j == 2 * i - 1
  <2>2. j \in 1 .. 2 * Len(r) /\ j % 2 = 1 /\ (j + 1) \div 2 = i
    BY <1>2 DEF r
  <2> HIDE DEF j
  <2>3. e(j) = s.limited[c]
    BY <1>9, <2>1, <2>2 DEF Unless
  <2> HIDE DEF e
  <2>. QED  BY <1>8, <2>2, <2>3 DEF Range
<1> HIDE DEF e
<1>10. q \in Seq(Tasks \cup {NoTask})
  <2>1. q \in [1 .. 2 * Len(r) -> Tasks \cup {NoTask}] /\ 2 * Len(r) \in Nat
    <3>1. 2 * Len(r) \in Nat
      BY <1>2 DEF r
    <3>2. q = [i \in 1 .. 2 * Len(r) |-> e(i)]
      BY <1>4
    <3>. QED  BY <1>7, <3>1, <3>2
  <2>. QED  BY <2>1
<1>11. \A u \in Range(q) : u # NoTask => u # t /\ Exists(s, u)
  BY <1>7, <1>8 DEF Range
<1>. QED  BY <1>9, <1>10, <1>11 DEF q

\* A task that was active was counted.
LEMMA ActiveFact ==
    ASSUME NEW s \in Schedulers, Counted(s), NEW c \in Chains
    PROVE  /\ IsFiniteSet(ActiveOn(s, c)) /\ ActiveOn(s, c) \subseteq On(s, c) /\ s.active[c] \in Nat
           /\ \A t \in Tasks : s.state[t] = "Active" /\ c \in ChainsOf(s, t) =>
                 /\ t \in ActiveOn(s, c) /\ s.active[c] - 1 \in Nat
                 /\ Cardinality(ActiveOn(s, c) \ {t}) = s.active[c] - 1
<1>1. ActiveOn(s, c) \subseteq Tasks /\ IsFiniteSet(Tasks)
  BY Bounds DEF ActiveOn
<1>2. IsFiniteSet(ActiveOn(s, c))
  BY <1>1, FS_Subset
<1>3. ActiveOn(s, c) \subseteq On(s, c)
  BY DEF ActiveOn, On, Exists
<1>4. ASSUME NEW t \in Tasks, s.state[t] = "Active", c \in ChainsOf(s, t)
      PROVE  /\ t \in ActiveOn(s, c) /\ s.active[c] - 1 \in Nat
             /\ Cardinality(ActiveOn(s, c) \ {t}) = s.active[c] - 1
  <2>1. t \in ActiveOn(s, c)
    BY <1>4 DEF ActiveOn
  <2>2. s.active[c] = Cardinality(ActiveOn(s, c))
    BY DEF Counted
  <2>3. Cardinality(ActiveOn(s, c) \ {t}) = Cardinality(ActiveOn(s, c)) - 1 /\ IsFiniteSet(ActiveOn(s, c) \ {t})
    BY <1>2, <2>1, FS_RemoveElement
  <2>4. Cardinality(ActiveOn(s, c) \ {t}) \in Nat
    BY <2>3, FS_CardinalityType
  <2>. QED  BY <2>1, <2>2, <2>3, <2>4
<1>. QED  BY <1>2, <1>3, <1>4, OnFact

\* What inactivate_task changes.
LEMMA InactivateShape ==
    ASSUME NEW s, NEW W, NEW A, SchedInv(s, W, A), NEW t \in Tasks, Exists(s, t), NEW failed \in BOOLEAN
    PROVE  LET z == InactivateTask(s, t, failed)
               cs == ChainsOf(s, t)
           IN  /\ z \in Schedulers
               /\ z.state = [s.state EXCEPT ![t] = "Pending"] /\ z.on = s.on /\ z.gen = s.gen
               /\ z.chain = s.chain /\ z.pending = s.pending /\ z.ok = s.ok /\ z.later = s.later \o ToTry(s, t)
               /\ \A c \in Chains : z.limited[c] = IF c \in cs THEN NoTask ELSE s.limited[c]
               /\ \A c \in Chains : z.active[c] = IF s.state[t] = "Active" /\ c \in cs THEN s.active[c] - 1 ELSE s.active[c]
               /\ \A c \in Chains : /\ z.cgen[c] >= s.cgen[c] /\ (~failed => z.cgen[c] = s.cgen[c])
                                    /\ failed /\ s.state[t] = "Active" /\ c \in cs => z.cgen[c] > s.gen[t][c]
<1> DEFINE z == InactivateTask(s, t, failed)
           cs == ChainsOf(s, t)
           left == IF s.state[t] = "Active" THEN cs ELSE {}
           lost == IF failed THEN left ELSE {}
           a == [c \in Chains |-> IF c \in left THEN s.active[c] - 1 ELSE s.active[c]]
           g == [c \in Chains |-> IF c \in lost THEN Max({s.cgen[c], s.gen[t][c] + 1}) ELSE s.cgen[c]]
           l == [c \in Chains |-> IF c \in cs THEN NoTask ELSE s.limited[c]]
<1>0. s \in Schedulers /\ Listed(s) /\ Limits(s) /\ Counted(s)
  BY DEF SchedInv
<1>1. z = [s EXCEPT !.state = [@ EXCEPT ![t] = "Pending"], !.active = a, !.cgen = g, !.limited = l,
                    !.later = @ \o ToTry(s, t)]
  BY <1>0, SchedShape DEF InactivateTask
<1>2. a \in [Chains -> Nat]
  <2>1. \A c \in Chains : s.active[c] \in Nat /\ (c \in left => s.active[c] - 1 \in Nat)
    BY <1>0, ActiveFact
  <2>. QED  BY <2>1
<1>3. ASSUME NEW c \in Chains
      PROVE  /\ s.cgen[c] \in Nat \ {0} /\ s.gen[t][c] \in Nat /\ g[c] \in Nat \ {0} /\ g[c] >= s.cgen[c]
             /\ c \in lost => g[c] > s.gen[t][c]
  <2>1. s.cgen[c] \in Nat \ {0} /\ s.gen[t][c] \in Nat
    BY <1>0, SchedShape
  <2>2. g[c] = IF c \in lost THEN Max({s.cgen[c], s.gen[t][c] + 1}) ELSE s.cgen[c]
    OBVIOUS
  <2> HIDE DEF g, lost
  <2>3. s.gen[t][c] + 1 \in Nat
    BY <2>1
  <2> DEFINE m == Max({s.cgen[c], s.gen[t][c] + 1})
  <2>4. m \in Nat /\ m >= s.cgen[c] /\ m >= s.gen[t][c] + 1
    BY <2>1, <2>3, MaxTwo
  <2> HIDE DEF m
  <2>5. g[c] = IF c \in lost THEN m ELSE s.cgen[c]
    BY <2>2 DEF m
  <2>. QED  BY <2>1, <2>4, <2>5
<1>4. g \in [Chains -> Nat \ {0}]
  <2>1. g = [c \in Chains |-> g[c]]
    OBVIOUS
  <2> HIDE DEF g
  <2>. QED  BY <1>3, <2>1
<1>5. l \in [Chains -> Tasks \cup {NoTask}] /\ [s.state EXCEPT ![t] = "Pending"] \in [Tasks -> States]
  BY <1>0, SchedShape DEF States
<1>6. s.later \o ToTry(s, t) \in Seq(Tasks \cup {NoTask})
  BY <1>0, SchedShape, ToTryFact, ConcatProperties
<1>7. \A c \in Chains : /\ l[c] = IF c \in cs THEN NoTask ELSE s.limited[c]
                        /\ a[c] = IF s.state[t] = "Active" /\ c \in cs THEN s.active[c] - 1 ELSE s.active[c]
                        /\ failed /\ s.state[t] = "Active" /\ c \in cs => c \in lost
                        /\ ~failed => g[c] = s.cgen[c]
  OBVIOUS
<1> HIDE DEF a, g, l, lost, left
<1>8. /\ z \in Schedulers
      /\ z.state = [s.state EXCEPT ![t] = "Pending"] /\ z.on = s.on /\ z.gen = s.gen
      /\ z.chain = s.chain /\ z.pending = s.pending /\ z.ok = s.ok /\ z.later = s.later \o ToTry(s, t)
      /\ z.active = a /\ z.cgen = g /\ z.limited = l
  BY <1>0, <1>1, <1>2, <1>4, <1>5, <1>6 DEF Schedulers
<1> HIDE DEF z, cs
<1>9. /\ \A c \in Chains : z.limited[c] = IF c \in cs THEN NoTask ELSE s.limited[c]
      /\ \A c \in Chains : z.active[c] = IF s.state[t] = "Active" /\ c \in cs THEN s.active[c] - 1 ELSE s.active[c]
      /\ \A c \in Chains : /\ z.cgen[c] >= s.cgen[c] /\ (~failed => z.cgen[c] = s.cgen[c])
                           /\ failed /\ s.state[t] = "Active" /\ c \in cs => z.cgen[c] > s.gen[t][c]
  BY <1>3, <1>7, <1>8
<1>. QED  BY <1>8, <1>9 DEF z, cs

\* The state in which reset_task and pause_task start others.
Back(s, t, st) == [InactivateTask(s, t, TRUE) EXCEPT !.state = [@ EXCEPT ![t] = st], !.later = <<>>]

LEMMA BackShape ==
    ASSUME NEW s, NEW W, NEW A, SchedInv(s, W, A), NEW t \in Tasks, Exists(s, t), NEW st \in {"Pending", "Paused"}
    PROVE  LET z == Back(s, t, st)
               cs == ChainsOf(s, t)
           IN  /\ z \in Schedulers
               /\ z.state = [s.state EXCEPT ![t] = st] /\ z.on = s.on /\ z.gen = s.gen
               /\ z.chain = s.chain /\ z.pending = s.pending /\ z.ok = s.ok /\ z.later = <<>>
               /\ \A c \in Chains : z.limited[c] = IF c \in cs THEN NoTask ELSE s.limited[c]
               /\ \A c \in Chains : z.active[c] = IF s.state[t] = "Active" /\ c \in cs THEN s.active[c] - 1 ELSE s.active[c]
               /\ \A c \in Chains : /\ z.cgen[c] >= s.cgen[c]
                                    /\ s.state[t] = "Active" /\ c \in cs => z.cgen[c] > s.gen[t][c]
               /\ \A u \in Tasks : ChainsOf(z, u) = ChainsOf(s, u)
               /\ \A c \in Chains : On(z, c) = On(s, c)
<1> DEFINE y == InactivateTask(s, t, TRUE)
           z == Back(s, t, st)
           cs == ChainsOf(s, t)
<1>0. s \in Schedulers
  BY DEF SchedInv
<1>1. /\ y \in Schedulers
      /\ y.state = [s.state EXCEPT ![t] = "Pending"] /\ y.on = s.on /\ y.gen = s.gen
      /\ y.chain = s.chain /\ y.pending = s.pending /\ y.ok = s.ok /\ y.later = s.later \o ToTry(s, t)
      /\ \A c \in Chains : y.limited[c] = IF c \in cs THEN NoTask ELSE s.limited[c]
      /\ \A c \in Chains : y.active[c] = IF s.state[t] = "Active" /\ c \in cs THEN s.active[c] - 1 ELSE s.active[c]
      /\ \A c \in Chains : /\ y.cgen[c] >= s.cgen[c]
                           /\ s.state[t] = "Active" /\ c \in cs => y.cgen[c] > s.gen[t][c]
  <2>1. TRUE \in BOOLEAN
    OBVIOUS
  <2>2. /\ y \in Schedulers
        /\ y.state = [s.state EXCEPT ![t] = "Pending"] /\ y.on = s.on /\ y.gen = s.gen
        /\ y.chain = s.chain /\ y.pending = s.pending /\ y.ok = s.ok /\ y.later = s.later \o ToTry(s, t)
        /\ \A c \in Chains : y.limited[c] = IF c \in cs THEN NoTask ELSE s.limited[c]
        /\ \A c \in Chains : y.active[c] = IF s.state[t] = "Active" /\ c \in cs THEN s.active[c] - 1 ELSE s.active[c]
        /\ \A c \in Chains : /\ y.cgen[c] >= s.cgen[c] /\ (~TRUE => y.cgen[c] = s.cgen[c])
                             /\ TRUE /\ s.state[t] = "Active" /\ c \in cs => y.cgen[c] > s.gen[t][c]
    BY <2>1, InactivateShape
  <2> HIDE DEF y, cs
  <2>. QED  BY <2>2
<1>2. z = [y EXCEPT !.state = [@ EXCEPT ![t] = st], !.later = <<>>]
  BY DEF Back
<1> HIDE DEF y, z, cs
<1>3. [y.state EXCEPT ![t] = st] = [s.state EXCEPT ![t] = st] /\ [s.state EXCEPT ![t] = st] \in [Tasks -> States]
  BY <1>0, <1>1, SchedShape DEF States
<1>4. /\ z \in Schedulers
      /\ z.state = [s.state EXCEPT ![t] = st] /\ z.on = y.on /\ z.gen = y.gen /\ z.chain = y.chain
      /\ z.pending = y.pending /\ z.ok = y.ok /\ z.later = <<>> /\ z.limited = y.limited /\ z.active = y.active
      /\ z.cgen = y.cgen
  <2>1. <<>> \in Seq(Tasks \cup {NoTask})
    OBVIOUS
  <2>2. z = [y EXCEPT !.state = [s.state EXCEPT ![t] = st], !.later = <<>>]
    BY <1>2, <1>3
  <2>. QED  BY <1>1, <1>3, <2>1, <2>2 DEF Schedulers
<1>5. \A u \in Tasks : ChainsOf(z, u) = ChainsOf(s, u)
  BY <1>1, <1>4 DEF ChainsOf
<1>6. \A u \in Tasks : Exists(z, u) <=> Exists(s, u)
  BY <1>0, <1>4, SchedShape DEF Exists
<1>7. \A c \in Chains : On(z, c) = On(s, c)
  BY <1>5, <1>6 DEF On
<1>. QED  BY <1>1, <1>4, <1>5, <1>7 DEF z, cs

\* A task that is taken back leaves the chains in order; those that it may have held back are
\* to be tried.
LEMMA BackKeeps ==
    ASSUME NEW s, NEW A \in [Tasks -> Nat], SchedInv(s, {}, A), s.pending = <<>>,
           NEW t \in Tasks, Exists(s, t), NEW st \in {"Pending", "Paused"}
    PROVE  SchedInv(Back(s, t, st), Range(ToTry(s, t)) \cup (IF st = "Pending" THEN {t} ELSE {}), A)
<1> DEFINE z == Back(s, t, st)
           cs == ChainsOf(s, t)
           V == Range(ToTry(s, t)) \cup (IF st = "Pending" THEN {t} ELSE {})
<1>0. /\ s \in Schedulers /\ s.ok /\ Listed(s) /\ Routed(s) /\ Gens(s) /\ Counted(s) /\ Limits(s)
      /\ Waits(s, {}) /\ Queued(s) /\ Efforts(s, A)
  BY DEF SchedInv
<1>1. /\ z \in Schedulers
      /\ z.state = [s.state EXCEPT ![t] = st] /\ z.on = s.on /\ z.gen = s.gen
      /\ z.chain = s.chain /\ z.pending = s.pending /\ z.ok = s.ok /\ z.later = <<>>
      /\ \A c \in Chains : z.limited[c] = IF c \in cs THEN NoTask ELSE s.limited[c]
      /\ \A c \in Chains : z.active[c] = IF s.state[t] = "Active" /\ c \in cs THEN s.active[c] - 1 ELSE s.active[c]
      /\ \A c \in Chains : /\ z.cgen[c] >= s.cgen[c]
                           /\ s.state[t] = "Active" /\ c \in cs => z.cgen[c] > s.gen[t][c]
      /\ \A u \in Tasks : ChainsOf(z, u) = ChainsOf(s, u)
      /\ \A c \in Chains : On(z, c) = On(s, c)
  BY BackShape
<1> HIDE DEF z, cs
<1>2. /\ z.state[t] = st /\ st # "Active" /\ st # "none" /\ \A u \in Tasks \ {t} : z.state[u] = s.state[u]
      /\ \A u \in Tasks : ChainsOf(s, u) \subseteq Chains
      /\ s.state[t] # "none"
  BY <1>0, <1>1, SchedShape, TaskChains DEF Exists
<1>3. Listed(z) /\ Routed(z)
  BY <1>0, <1>1, <1>2 DEF Listed, Routed
<1>4. Gens(z)
  <2> SUFFICES ASSUME NEW c \in Chains
               PROVE  /\ \A u \in On(s, c) : z.gen[u][c] <= z.cgen[c] /\ (z.gen[u][c] = z.cgen[c] => z.state[u] = "Active")
                      /\ \A u, v \in On(s, c) : u < v => z.gen[v][c] <= z.gen[u][c]
    BY <1>1 DEF Gens
  <2>1. /\ \A u \in On(s, c) : s.gen[u][c] <= s.cgen[c] /\ (s.gen[u][c] = s.cgen[c] => s.state[u] = "Active")
        /\ \A u, v \in On(s, c) : u < v => s.gen[v][c] <= s.gen[u][c]
    BY <1>0 DEF Gens
  <2>2. /\ On(s, c) \subseteq Tasks /\ s.cgen[c] \in Nat /\ z.cgen[c] \in Nat /\ \A u \in Tasks : s.gen[u][c] \in Nat
        /\ t \in On(s, c) => c \in cs
    BY <1>0, <1>1, OnFact DEF cs
  <2>3. ASSUME NEW u \in On(s, c) PROVE s.gen[u][c] <= z.cgen[c] /\ (s.gen[u][c] = z.cgen[c] => z.state[u] = "Active")
    <3>1. s.gen[u][c] <= s.cgen[c] /\ s.cgen[c] <= z.cgen[c] /\ s.gen[u][c] \in Nat
      BY <1>1, <2>1, <2>2
    <3>2. CASE u = t
      <4>1. s.gen[t][c] # z.cgen[c]
        <5>1. CASE s.state[t] = "Active"
          BY <1>1, <2>2, <3>2, <5>1
        <5>2. CASE s.state[t] # "Active"
          BY <2>1, <2>2, <3>1, <3>2, <5>2
        <5>. QED  BY <5>1, <5>2
      <4>. QED  BY <2>2, <3>1, <3>2, <4>1
    <3>3. CASE u # t
      BY <1>2, <2>1, <2>2, <3>1, <3>3
    <3>. QED  BY <3>2, <3>3
  <2>. QED  BY <1>1, <2>1, <2>3
<1>5. Counted(z)
  <2> SUFFICES ASSUME NEW c \in Chains PROVE z.active[c] = Cardinality(ActiveOn(z, c)) /\ z.active[c] <= MaxActive
    BY DEF Counted
  <2>1. s.active[c] = Cardinality(ActiveOn(s, c)) /\ s.active[c] <= MaxActive /\ s.active[c] \in Nat
    BY <1>0, OnFact DEF Counted
  <2>2. CASE s.state[t] = "Active" /\ c \in cs
    <3>1. ActiveOn(z, c) = ActiveOn(s, c) \ {t}
      BY <1>1, <1>2 DEF ActiveOn
    <3>2. s.active[c] - 1 \in Nat /\ Cardinality(ActiveOn(s, c) \ {t}) = s.active[c] - 1
      BY <1>0, <2>2, ActiveFact DEF cs
    <3>3. z.active[c] = s.active[c] - 1
      BY <1>1, <2>2
    <3>. QED  BY <2>1, <3>1, <3>2, <3>3, Bounds
  <2>3. CASE ~(s.state[t] = "Active" /\ c \in cs)
    <3>1. ActiveOn(z, c) = ActiveOn(s, c)
      BY <1>1, <1>2, <2>3 DEF ActiveOn, cs
    <3>. QED  BY <1>1, <2>1, <2>3, <3>1
  <2>. QED  BY <2>2, <2>3
<1>6. Limits(z)
  BY <1>0, <1>1 DEF Limits
<1>7. Waits(z, V)
  <2> SUFFICES ASSUME NEW u \in Tasks, z.state[u] = "Pending", u \notin V PROVE Held(z, u)
    BY DEF Waits
  <2>1. u # t /\ s.state[u] = "Pending" /\ u \notin Range(ToTry(s, t))
    BY <1>2
  <2>2. PICK c \in ChainsOf(s, u) : Behind(s, u, c) \/ (Full(s, c) /\ s.limited[c] = u)
    BY <1>0, <2>1 DEF Waits, Held
  <2>3. c \in Chains /\ u \in On(s, c) /\ c \in ChainsOf(z, u) /\ u \in On(z, c)
    BY <1>0, <1>1, <1>2, <2>1, OnFact
  <2>4. CASE Full(s, c) /\ s.limited[c] = u
    <3>1. c \notin cs
      BY <1>0, <2>1, <2>4, ToTryFact, Bounds DEF cs
    <3>2. z.active[c] = s.active[c] /\ z.limited[c] = u
      BY <1>1, <2>3, <2>4, <3>1
    <3>. QED  BY <2>3, <2>4, <3>2 DEF Held, Full
  <2>5. CASE Behind(s, u, c)
    <3>1. PICK w \in On(s, c) : w < u /\ s.gen[w][c] # s.cgen[c]
      BY <1>0, <2>3, <2>5, BehindFact
    <3>2. s.gen[w][c] <= s.cgen[c] /\ s.gen[w][c] \in Nat /\ s.cgen[c] \in Nat /\ z.cgen[c] \in Nat /\ z.cgen[c] >= s.cgen[c]
      BY <1>0, <1>1, <2>3, OnFact DEF Gens
    <3>3. w \in On(z, c) /\ w < u /\ z.gen[w][c] # z.cgen[c]
      BY <1>1, <2>3, <3>1, <3>2
    <3>4. Behind(z, u, c)
      BY <1>1, <1>3, <1>4, <2>3, <3>3, BehindFact
    <3>. QED  BY <2>3, <3>4 DEF Held
  <2>. QED  BY <2>2, <2>4, <2>5
<1>8. Queued(z)
  <2>1. Range(z.pending) = {} /\ z.pending = s.pending
    BY <1>1 DEF Range
  <2>. QED  BY <1>0, <2>1 DEF Queued
<1>9. Efforts(z, A)
  <2>1. \A u \in Tasks : Att(z, A, u) = Att(s, A, u)
    BY <1>1 DEF Att
  <2>2. \A c \in Chains : On(z, c) = On(s, c) /\ On(s, c) \subseteq Tasks
    BY <1>0, <1>1, OnFact
  <2>. QED  BY <1>0, <1>1, <2>1, <2>2 DEF Efforts
<1>. QED  BY <1>0, <1>1, <1>3, <1>4, <1>5, <1>6, <1>7, <1>8, <1>9 DEF SchedInv, z

-----------------------------------------------------------------------------
(* Taking a task out of its chains                                         *)

\* A list without one of its members stays in order.
LEMMA RemoveFact ==
    ASSUME NEW q \in Seq(Tasks), Increasing(q), NEW i \in 1 .. Len(q)
    PROVE  /\ RemoveAt(q, i) \in Seq(Tasks) /\ Increasing(RemoveAt(q, i))
           /\ Range(RemoveAt(q, i)) = Range(q) \ {q[i]}
<1> DEFINE r == RemoveAt(q, i)
           a == SubSeq(q, 1, i - 1)
           b == SubSeq(q, i + 1, Len(q))
<1>1. /\ Len(q) \in Nat /\ DOMAIN q = 1 .. Len(q) /\ i \in Nat /\ i >= 1 /\ i <= Len(q)
      /\ \A j \in 1 .. Len(q) : q[j] \in Nat /\ q[j] \in Tasks
  <2>1. Len(q) \in Nat /\ DOMAIN q = 1 .. Len(q) /\ \A j \in 1 .. Len(q) : q[j] \in Tasks
    OBVIOUS
  <2>2. Tasks \subseteq Nat
    BY Bounds
  <2>3. i \in Nat /\ i >= 1 /\ i <= Len(q)
    BY <2>1
  <2>. QED  BY <2>1, <2>2, <2>3
<1>2. /\ a \in Seq(Tasks) /\ Len(a) = i - 1 /\ \A j \in 1 .. i - 1 : a[j] = q[j]
  BY <1>1
<1>3. /\ b \in Seq(Tasks) /\ Len(b) = Len(q) - i /\ \A j \in 1 .. Len(q) - i : b[j] = q[j + i]
  <2> DEFINE m == i + 1
             n == Len(q)
  <2>1. m \in Int /\ n \in Int /\ \A j \in m .. n : q[j] \in Tasks
    BY <1>1
  <2>2. n - m + 1 = Len(q) - i /\ \A j \in 1 .. Len(q) - i : m + j - 1 = j + i
    BY <1>1
  <2>5. Len(q) - i = IF m <= n THEN n - m + 1 ELSE 0
    <3>1. ASSUME NEW k \in Nat, NEW h \in Nat, h <= k PROVE k - h = IF h + 1 <= k THEN k - (h + 1) + 1 ELSE 0
      BY <3>1
    <3>. QED  BY <1>1, <3>1
  <2> HIDE DEF m, n
  <2>3. /\ SubSeq(q, m, n) \in Seq(Tasks) /\ Len(SubSeq(q, m, n)) = IF m <= n THEN n - m + 1 ELSE 0
        /\ \A j \in 1 .. n - m + 1 : SubSeq(q, m, n)[j] = q[m + j - 1]
    BY <2>1, SubSeqProperties
  <2>4. b = SubSeq(q, m, n)
    BY DEF m, n
  <2> HIDE DEF b
  <2>. QED  BY <2>2, <2>3, <2>4, <2>5
<1>4. r = a \o b
  BY DEF RemoveAt
<1> HIDE DEF a, b
<1>5. /\ r \in Seq(Tasks) /\ Len(r) = Len(q) - 1 /\ DOMAIN r = 1 .. Len(q) - 1
      /\ \A j \in 1 .. Len(q) - 1 : r[j] = IF j < i THEN a[j] ELSE b[j - (i - 1)]
  <2>1. /\ r \in Seq(Tasks) /\ Len(r) = Len(a) + Len(b)
        /\ \A j \in 1 .. Len(a) + Len(b) : r[j] = IF j <= Len(a) THEN a[j] ELSE b[j - Len(a)]
    <3> HIDE DEF r
    <3>. QED  BY <1>2, <1>3, <1>4, ConcatProperties
  <2> HIDE DEF r
  <2>2. Len(a) + Len(b) = Len(q) - 1 /\ \A j \in 1 .. Len(q) - 1 : j <= Len(a) <=> j < i
    BY <1>1, <1>2, <1>3
  <2>3. DOMAIN r = 1 .. Len(r)
    BY <2>1
  <2>. QED  BY <1>2, <2>1, <2>2, <2>3
<1> HIDE DEF r
<1>6. \A j \in 1 .. Len(q) - 1 : r[j] = IF j < i THEN q[j] ELSE q[j + 1]
  <2> SUFFICES ASSUME NEW j \in 1 .. Len(q) - 1 PROVE r[j] = IF j < i THEN q[j] ELSE q[j + 1]
    OBVIOUS
  <2>1. CASE j < i
    <3>1. j \in 1 .. i - 1
      BY <1>1, <2>1
    <3>. QED  BY <1>2, <1>5, <2>1, <3>1
  <2>2. CASE ~(j < i)
    <3>1. j - (i - 1) \in 1 .. Len(q) - i /\ (j - (i - 1)) + i = j + 1
      BY <1>1, <2>2
    <3>. QED  BY <1>3, <1>5, <2>2, <3>1
  <2>. QED  BY <2>1, <2>2
<1>7. \A j, k \in 1 .. Len(q) : j < k => q[j] < q[k]
  BY <1>1 DEF Increasing
<1>8. Increasing(r)
  <2> SUFFICES ASSUME NEW j \in 1 .. Len(q) - 1, NEW k \in 1 .. Len(q) - 1, j < k PROVE r[j] < r[k]
    BY <1>5 DEF Increasing
  <2>1. j \in 1 .. Len(q) /\ k \in 1 .. Len(q) /\ j + 1 \in 1 .. Len(q) /\ k + 1 \in 1 .. Len(q)
    BY <1>1
  <2>2. \E m, n \in 1 .. Len(q) : m < n /\ r[j] = q[m] /\ r[k] = q[n]
    <3>1. CASE k < i
      <4>1. j < i
        BY <1>1, <3>1
      <4>. QED  BY <1>6, <2>1, <3>1, <4>1
    <3>2. CASE ~(k < i) /\ j < i
      <4>1. j < k + 1
        BY <1>1
      <4>. QED  BY <1>6, <2>1, <3>2, <4>1
    <3>3. CASE ~(k < i) /\ ~(j < i)
      <4>1. j + 1 < k + 1
        BY <1>1
      <4>. QED  BY <1>6, <2>1, <3>3, <4>1
    <3>. QED  BY <3>1, <3>2, <3>3
  <2>. QED  BY <1>7, <2>2
<1>9. ASSUME NEW j \in 1 .. Len(q) - 1 PROVE r[j] \in Range(q) \ {q[i]}
  <2>1. j \in 1 .. Len(q) /\ j + 1 \in 1 .. Len(q)
    BY <1>1
  <2>2. CASE j < i
    <3>1. q[j] < q[i]
      BY <1>7, <2>1, <2>2
    <3>2. q[j] # q[i] /\ r[j] = q[j] /\ j \in DOMAIN q
      BY <1>1, <1>6, <2>1, <2>2, <3>1
    <3>. QED  BY <3>2 DEF Range
  <2>3. CASE ~(j < i)
    <3>1. i < j + 1
      BY <1>1, <2>3
    <3>2. q[i] < q[j + 1]
      BY <1>7, <2>1, <3>1
    <3>3. q[j + 1] # q[i] /\ r[j] = q[j + 1] /\ j + 1 \in DOMAIN q
      BY <1>1, <1>6, <2>1, <2>3, <3>2
    <3>. QED  BY <3>3 DEF Range
  <2>. QED  BY <2>2, <2>3
<1>10. ASSUME NEW j \in 1 .. Len(q), q[j] # q[i] PROVE q[j] \in Range(r)
  <2>1. j # i
    BY <1>10
  <2>2. CASE j < i
    <3>1. j \in 1 .. Len(q) - 1
      BY <1>1, <2>2
    <3>. QED  BY <1>5, <1>6, <2>2, <3>1 DEF Range
  <2>3. CASE i < j
    <3>1. j - 1 \in 1 .. Len(q) - 1 /\ ~(j - 1 < i) /\ (j - 1) + 1 = j
      BY <1>1, <2>3
    <3>2. r[j - 1] = q[j]
      BY <1>6, <3>1
    <3>. QED  BY <1>5, <3>1, <3>2 DEF Range
  <2>. QED  BY <1>1, <2>1, <2>2, <2>3
<1>11. Range(r) = Range(q) \ {q[i]}
  BY <1>1, <1>5, <1>9, <1>10 DEF Range
<1>. QED  BY <1>5, <1>8, <1>11 DEF r

\* The state in which finish_task starts others.
Gone(s, t) ==
    [FinishChainTasks(InactivateTask(s, t, FALSE), t) EXCEPT !.state = [@ EXCEPT ![t] = "gone"], !.later = <<>>]

LEMMA GoneShape ==
    ASSUME NEW s, NEW W, NEW A, SchedInv(s, W, A), NEW t \in Tasks, Exists(s, t)
    PROVE  LET z == Gone(s, t)
               cs == ChainsOf(s, t)
           IN  /\ z \in Schedulers
               /\ z.state = [s.state EXCEPT ![t] = "gone"] /\ z.on = s.on /\ z.gen = s.gen
               /\ z.pending = s.pending /\ z.ok = s.ok /\ z.later = <<>>
               /\ \A c \in Chains : z.limited[c] = IF c \in cs THEN NoTask ELSE s.limited[c]
               /\ \A u \in Tasks : ChainsOf(z, u) = ChainsOf(s, u)
               /\ \A c \in Chains : On(z, c) = On(s, c) \ {t}
               /\ Listed(z)
               /\ \A c \in Chains :
                     \/ On(z, c) = {} /\ z.active[c] = 0
                     \/ /\ z.cgen[c] = s.cgen[c]
                        /\ z.active[c] = IF s.state[t] = "Active" /\ c \in cs THEN s.active[c] - 1 ELSE s.active[c]
<1> DEFINE y == InactivateTask(s, t, FALSE)
           z == Gone(s, t)
           cs == ChainsOf(s, t)
           erased == {c \in cs : Len(s.chain[c]) = 1}
           q == [c \in Chains |-> IF c \in cs THEN RemoveAt(s.chain[c], Position(s.chain[c], t)) ELSE s.chain[c]]
           g == [c \in Chains |-> IF c \in erased THEN 1 ELSE y.cgen[c]]
           a == [c \in Chains |-> IF c \in erased THEN 0 ELSE y.active[c]]
<1>0. s \in Schedulers /\ Listed(s)
  BY DEF SchedInv
<1>1. /\ y \in Schedulers
      /\ y.state = [s.state EXCEPT ![t] = "Pending"] /\ y.on = s.on /\ y.gen = s.gen
      /\ y.chain = s.chain /\ y.pending = s.pending /\ y.ok = s.ok /\ y.later = s.later \o ToTry(s, t)
      /\ \A c \in Chains : y.limited[c] = IF c \in cs THEN NoTask ELSE s.limited[c]
      /\ \A c \in Chains : y.active[c] = IF s.state[t] = "Active" /\ c \in cs THEN s.active[c] - 1 ELSE s.active[c]
      /\ \A c \in Chains : y.cgen[c] = s.cgen[c]
  <2>1. FALSE \in BOOLEAN
    OBVIOUS
  <2>2. \A c \in Chains : /\ y.cgen[c] >= s.cgen[c] /\ (~FALSE => y.cgen[c] = s.cgen[c])
                          /\ FALSE /\ s.state[t] = "Active" /\ c \in cs => y.cgen[c] > s.gen[t][c]
    BY <2>1, InactivateShape
  <2>3. \A c \in Chains : y.cgen[c] = s.cgen[c]
    <3> HIDE DEF y, cs
    <3>. QED  BY <2>2
  <2>. QED  BY <2>1, <2>3, InactivateShape
<1>2. z = [[y EXCEPT !.chain = q, !.cgen = g, !.active = a] EXCEPT !.state = [@ EXCEPT ![t] = "gone"], !.later = <<>>]
  <2>1. ChainsOf(y, t) = cs
    BY <1>1 DEF ChainsOf
  <2>2. z = [FinishChainTasks(y, t) EXCEPT !.state = [@ EXCEPT ![t] = "gone"], !.later = <<>>]
    BY DEF Gone
  <2> HIDE DEF y, cs, z
  <2>3. FinishChainTasks(y, t) = [y EXCEPT !.chain = q, !.cgen = g, !.active = a]
    BY <1>1, <2>1 DEF FinishChainTasks
  <2>. QED  BY <2>2, <2>3
<1>3. [y.state EXCEPT ![t] = "gone"] = [s.state EXCEPT ![t] = "gone"] /\ [s.state EXCEPT ![t] = "gone"] \in [Tasks -> States]
  BY <1>0, <1>1, SchedShape DEF States
<1>4. g \in [Chains -> Nat \ {0}] /\ a \in [Chains -> Nat]
  <2>1. y.cgen \in [Chains -> Nat \ {0}] /\ y.active \in [Chains -> Nat]
    BY <1>1, SchedShape
  <2> HIDE DEF y, erased
  <2>. QED  BY <2>1
<1>5. ASSUME NEW c \in Chains PROVE q[c] \in Seq(Tasks) /\ Increasing(q[c]) /\ Range(q[c]) = On(s, c) \ {t}
  <2>1. s.chain[c] \in Seq(Tasks) /\ Increasing(s.chain[c]) /\ Range(s.chain[c]) = On(s, c)
    BY <1>0, SchedShape DEF Listed
  <2>2. CASE c \in cs
    <3>1. t \in On(s, c)
      BY <2>2 DEF On, cs
    <3> DEFINE i == Position(s.chain[c], t)
    <3>2. i \in 1 .. Len(s.chain[c]) /\ s.chain[c][i] = t
      BY <2>1, <3>1, PositionFact
    <3>3. q[c] = RemoveAt(s.chain[c], i)
      BY <2>2
    <3> HIDE DEF i, q
    <3>. QED  BY <2>1, <3>2, <3>3, RemoveFact
  <2>3. CASE c \notin cs
    <3>1. t \notin On(s, c)
      BY <2>3 DEF On, cs
    <3>2. q[c] = s.chain[c]
      BY <2>3
    <3> HIDE DEF q
    <3>. QED  BY <2>1, <3>1, <3>2
  <2>. QED  BY <2>2, <2>3
<1>6. q \in [Chains -> Seq(Tasks)]
  <2>1. q = [c \in Chains |-> q[c]]
    OBVIOUS
  <2> HIDE DEF q
  <2>. QED  BY <1>5, <2>1
<1>7. \A c \in Chains : /\ c \in erased => c \in cs /\ Len(s.chain[c]) = 1 /\ a[c] = 0
                        /\ c \notin erased => a[c] = y.active[c] /\ g[c] = y.cgen[c]
  OBVIOUS
<1> HIDE DEF y, z, cs, q, g, a, erased
<1>8. /\ z \in Schedulers
      /\ z.state = [s.state EXCEPT ![t] = "gone"] /\ z.on = y.on /\ z.gen = y.gen /\ z.chain = q
      /\ z.pending = y.pending /\ z.ok = y.ok /\ z.later = <<>> /\ z.limited = y.limited /\ z.active = a
      /\ z.cgen = g
  <2>1. <<>> \in Seq(Tasks \cup {NoTask})
    OBVIOUS
  <2>2. z = [y EXCEPT !.chain = q, !.cgen = g, !.active = a, !.state = [s.state EXCEPT ![t] = "gone"], !.later = <<>>]
    BY <1>1, <1>2, <1>3 DEF Schedulers
  <2>. QED  BY <1>1, <1>3, <1>4, <1>6, <2>1, <2>2 DEF Schedulers
<1>9. \A u \in Tasks : ChainsOf(z, u) = ChainsOf(s, u)
  BY <1>1, <1>8 DEF ChainsOf
<1>10. \A c \in Chains : On(z, c) = On(s, c) \ {t}
  <2>1. \A u \in Tasks : Exists(z, u) <=> Exists(s, u) /\ u # t
    BY <1>0, <1>8, SchedShape DEF Exists
  <2>. QED  BY <1>9, <2>1 DEF On
<1>11. Listed(z)
  BY <1>5, <1>8, <1>10 DEF Listed
<1>12. ASSUME NEW c \in Chains, c \in erased PROVE On(z, c) = {}
  <2>1. c \in cs /\ Len(s.chain[c]) = 1
    BY <1>7, <1>12
  <2>2. t \in On(s, c)
    BY <2>1 DEF On, cs
  <2>3. \A u \in On(s, c) : \E i \in 1 .. 1 : s.chain[c][i] = u
    BY <1>0, <2>1, ChainShape
  <2>4. \A u \in On(s, c) : s.chain[c][1] = u
    BY <2>3
  <2>. QED  BY <1>10, <2>2, <2>4
<1>13. ASSUME NEW c \in Chains
       PROVE  \/ On(z, c) = {} /\ z.active[c] = 0
              \/ /\ z.cgen[c] = s.cgen[c]
                 /\ z.active[c] = IF s.state[t] = "Active" /\ c \in cs THEN s.active[c] - 1 ELSE s.active[c]
  <2>1. CASE c \in erased
    BY <1>7, <1>8, <1>12, <2>1
  <2>2. CASE c \notin erased
    BY <1>1, <1>7, <1>8, <2>2
  <2>. QED  BY <2>1, <2>2
<1>14. \A c \in Chains : z.limited[c] = IF c \in cs THEN NoTask ELSE s.limited[c]
  BY <1>1, <1>8
<1>. QED  BY <1>1, <1>8, <1>9, <1>10, <1>11, <1>13, <1>14 DEF z, cs

\* A task that is finished leaves the chains in order.
LEMMA GoneKeeps ==
    ASSUME NEW s, NEW A \in [Tasks -> Nat], SchedInv(s, {}, A), s.pending = <<>>, NEW t \in Tasks, Exists(s, t)
    PROVE  SchedInv(Gone(s, t), Range(ToTry(s, t)) \cup Range(Children(s, t)), A)
<1> DEFINE z == Gone(s, t)
           cs == ChainsOf(s, t)
           V == Range(ToTry(s, t)) \cup Range(Children(s, t))
<1>0. /\ s \in Schedulers /\ s.ok /\ Listed(s) /\ Routed(s) /\ Gens(s) /\ Counted(s) /\ Limits(s)
      /\ Waits(s, {}) /\ Queued(s) /\ Efforts(s, A)
  BY DEF SchedInv
<1>1. /\ z \in Schedulers
      /\ z.state = [s.state EXCEPT ![t] = "gone"] /\ z.on = s.on /\ z.gen = s.gen
      /\ z.pending = s.pending /\ z.ok = s.ok /\ z.later = <<>>
      /\ \A c \in Chains : z.limited[c] = IF c \in cs THEN NoTask ELSE s.limited[c]
      /\ \A u \in Tasks : ChainsOf(z, u) = ChainsOf(s, u)
      /\ \A c \in Chains : On(z, c) = On(s, c) \ {t}
      /\ Listed(z)
      /\ \A c \in Chains :
            \/ On(z, c) = {} /\ z.active[c] = 0
            \/ /\ z.cgen[c] = s.cgen[c]
               /\ z.active[c] = IF s.state[t] = "Active" /\ c \in cs THEN s.active[c] - 1 ELSE s.active[c]
  BY GoneShape
<1> HIDE DEF z, cs
<1>2. /\ z.state[t] = "gone" /\ \A u \in Tasks \ {t} : z.state[u] = s.state[u]
      /\ \A u \in Tasks : ChainsOf(s, u) \subseteq Chains
      /\ s.state[t] # "none"
  BY <1>0, <1>1, SchedShape, TaskChains DEF Exists
<1>3. Routed(z)
  BY <1>0, <1>1, <1>2 DEF Routed
<1>4. Gens(z)
  <2> SUFFICES ASSUME NEW c \in Chains, On(z, c) # {}
               PROVE  /\ \A u \in On(z, c) : z.gen[u][c] <= z.cgen[c] /\ (z.gen[u][c] = z.cgen[c] => z.state[u] = "Active")
                      /\ \A u, v \in On(z, c) : u < v => z.gen[v][c] <= z.gen[u][c]
    BY DEF Gens
  <2>1. /\ \A u \in On(s, c) : s.gen[u][c] <= s.cgen[c] /\ (s.gen[u][c] = s.cgen[c] => s.state[u] = "Active")
        /\ \A u, v \in On(s, c) : u < v => s.gen[v][c] <= s.gen[u][c]
    BY <1>0 DEF Gens
  <2>2. z.cgen[c] = s.cgen[c] /\ On(z, c) \subseteq On(s, c) /\ \A u \in On(z, c) : u \in Tasks /\ z.state[u] = s.state[u]
    BY <1>0, <1>1, <1>2, OnFact
  <2>. QED  BY <1>1, <2>1, <2>2
<1>5. Counted(z)
  <2> SUFFICES ASSUME NEW c \in Chains PROVE z.active[c] = Cardinality(ActiveOn(z, c)) /\ z.active[c] <= MaxActive
    BY DEF Counted
  <2>1. s.active[c] = Cardinality(ActiveOn(s, c)) /\ s.active[c] <= MaxActive /\ s.active[c] \in Nat
    BY <1>0, OnFact DEF Counted
  <2>2. ActiveOn(z, c) = ActiveOn(s, c) \ {t} /\ ActiveOn(z, c) \subseteq On(z, c)
    BY <1>1, <1>2 DEF ActiveOn, On, Exists
  <2>3. CASE On(z, c) = {} /\ z.active[c] = 0
    <3>1. ActiveOn(z, c) = {}
      BY <2>2, <2>3
    <3>2. Cardinality(ActiveOn(z, c)) = 0
      BY <3>1, FS_EmptySet
    <3>. QED  BY <2>3, <3>2, Bounds
  <2>4. CASE z.active[c] = IF s.state[t] = "Active" /\ c \in cs THEN s.active[c] - 1 ELSE s.active[c]
    <3>1. CASE s.state[t] = "Active" /\ c \in cs
      <4>1. s.active[c] - 1 \in Nat /\ Cardinality(ActiveOn(s, c) \ {t}) = s.active[c] - 1
        BY <1>0, <3>1, ActiveFact DEF cs
      <4>. QED  BY <2>1, <2>2, <2>4, <3>1, <4>1, Bounds
    <3>2. CASE ~(s.state[t] = "Active" /\ c \in cs)
      <4>1. ActiveOn(z, c) = ActiveOn(s, c)
        BY <2>2, <3>2 DEF ActiveOn, cs
      <4>. QED  BY <2>1, <2>4, <3>2, <4>1
    <3>. QED  BY <3>1, <3>2
  <2>. QED  BY <1>1, <2>3, <2>4
<1>6. Limits(z)
  <2> SUFFICES ASSUME NEW c \in Chains, z.limited[c] # NoTask PROVE z.limited[c] \in On(z, c)
    BY DEF Limits
  <2>1. c \notin cs /\ s.limited[c] \in On(s, c) /\ z.limited[c] = s.limited[c]
    BY <1>0, <1>1 DEF Limits
  <2>2. t \notin On(s, c)
    BY <2>1 DEF On, cs
  <2>. QED  BY <1>1, <2>1, <2>2
<1>7. Waits(z, V)
  <2> SUFFICES ASSUME NEW u \in Tasks, z.state[u] = "Pending", u \notin V PROVE Held(z, u)
    BY DEF Waits
  <2>1. u # t /\ s.state[u] = "Pending" /\ u \notin Range(ToTry(s, t)) /\ u \notin Range(Children(s, t))
    BY <1>2
  <2>2. PICK c \in ChainsOf(s, u) : Behind(s, u, c) \/ (Full(s, c) /\ s.limited[c] = u)
    BY <1>0, <2>1 DEF Waits, Held
  <2>3. c \in Chains /\ u \in On(s, c) /\ c \in ChainsOf(z, u) /\ u \in On(z, c)
    BY <1>0, <1>1, <1>2, <2>1, OnFact
  <2>4. /\ z.cgen[c] = s.cgen[c]
        /\ z.active[c] = IF s.state[t] = "Active" /\ c \in cs THEN s.active[c] - 1 ELSE s.active[c]
    BY <1>1, <2>3
  <2>5. CASE Full(s, c) /\ s.limited[c] = u
    <3>1. c \notin cs
      BY <1>0, <2>1, <2>5, ToTryFact, Bounds DEF cs
    <3>2. z.active[c] = s.active[c] /\ z.limited[c] = u
      BY <1>1, <2>3, <2>4, <2>5, <3>1
    <3>. QED  BY <2>3, <2>5, <3>2 DEF Held, Full
  <2>6. CASE Behind(s, u, c)
    <3>0. On(s, c) \subseteq Tasks /\ On(s, c) \subseteq Nat /\ NoTask \notin On(s, c) /\ s.cgen[c] \in Nat
          /\ \A v \in Tasks : s.gen[v][c] \in Nat
      BY <1>0, <2>3, OnFact
    <3>1. PICK w \in On(s, c) : w < u /\ s.gen[w][c] # s.cgen[c]
      BY <1>0, <2>3, <2>6, BehindFact
    <3>2. \E v \in On(s, c) : v # t /\ v < u /\ s.gen[v][c] # s.cgen[c]
      <4>1. CASE w # t
        BY <3>1, <4>1
      <4>2. CASE w = t
        <5> DEFINE k == GetChild(s, t, c)
        <5>1. t \in On(s, c) /\ t < u /\ c \in cs
          BY <3>1, <4>2 DEF On, cs
        <5>2. \/ k = NoTask /\ \A v \in On(s, c) : v <= t
              \/ k \in On(s, c) /\ t < k /\ \A v \in On(s, c) : t < v => k <= v
          BY <1>0, <2>3, <5>1, ChildFact
        <5>3. k \in Range(Children(s, t))
          BY <1>0, <5>1, ChildrenFact DEF cs
        <5> HIDE DEF k
        <5>4. k \in On(s, c) /\ t < k /\ k <= u /\ k # u
          BY <2>1, <2>3, <3>0, <5>1, <5>2, <5>3
        <5>5. s.gen[k][c] <= s.gen[t][c] /\ s.gen[t][c] <= s.cgen[c]
          BY <1>0, <2>3, <5>1, <5>4 DEF Gens
        <5>6. k # t /\ k < u /\ s.gen[k][c] # s.cgen[c]
          BY <2>3, <3>0, <3>1, <4>2, <5>1, <5>4, <5>5
        <5>. QED  BY <5>4, <5>6
      <4>. QED  BY <4>1, <4>2
    <3>3. Behind(z, u, c)
      <4>1. \E v \in On(z, c) : v < u /\ z.gen[v][c] # z.cgen[c]
        BY <1>1, <2>3, <2>4, <3>2
      <4>. QED  BY <1>1, <1>4, <2>3, <4>1, BehindFact
    <3>. QED  BY <2>3, <3>3 DEF Held
  <2>. QED  BY <2>2, <2>5, <2>6
<1>8. Queued(z)
  <2>1. Range(z.pending) = {} /\ z.pending = s.pending
    BY <1>1 DEF Range
  <2>. QED  BY <1>0, <2>1 DEF Queued
<1>9. Efforts(z, A)
  <2>1. \A u \in Tasks : Att(z, A, u) = Att(s, A, u)
    BY <1>1 DEF Att
  <2>2. \A c \in Chains : On(z, c) \subseteq On(s, c) /\ On(s, c) \subseteq Tasks
    BY <1>0, <1>1, OnFact
  <2>. QED  BY <1>0, <1>1, <2>1, <2>2 DEF Efforts
<1>. QED  BY <1>0, <1>1, <1>3, <1>4, <1>5, <1>6, <1>7, <1>8, <1>9 DEF SchedInv, z

-----------------------------------------------------------------------------
(* The methods of the scheduler: what is sent is what was pending and is   *)
(* active now.                                                             *)

Runs(f, g, z) ==
    /\ z.later = <<>>
    /\ \A t \in Tasks : z.state[t] # f[t] => f[t] = "Pending" /\ z.state[t] = "Active"
    /\ \A t \in Tasks : z.state[t] = f[t] => z.gen[t] = g[t]
    /\ Range(z.pending) = {t \in Tasks : z.state[t] # f[t]}

LEMMA MovesRun ==
    ASSUME NEW y, NEW z, Moves(y, z), y.pending = <<>>, y.later = <<>>
    PROVE  Runs(y.state, y.gen, z) /\ z.on = y.on
<1>1. Range(y.pending) = {}
  BY DEF Range
<1>. QED  BY <1>1 DEF Moves, Runs

LEMMA SameOk == ASSUME NEW s \in Schedulers, s.ok, s.later = <<>> PROVE [s EXCEPT !.ok = @ /\ s.later = <<>>] = s
<1>1. (s.ok /\ s.later = <<>>) = s.ok
  BY SchedShape
<1>2. [s EXCEPT !.ok = @ /\ s.later = <<>>] = [s EXCEPT !.ok = s.ok]
  BY <1>1
<1>. QED  BY <1>2 DEF Schedulers

\* The methods, as the starting of tasks in Back and Gone.
LEMMA ResetForm ==
    ASSUME NEW s, NEW A, SchedInv(s, {}, A), s.later = <<>>, NEW t \in Tasks, Exists(s, t)
    PROVE  ResetTask(s, t) = TryStartTasks(Back(s, t, "Pending"), Append(ToTry(s, t), t))
<1> DEFINE y == InactivateTask(s, t, TRUE)
           x == [y EXCEPT !.later = Append(@, t)]
<1>0. s \in Schedulers /\ s.ok /\ Listed(s) /\ Limits(s)
  BY DEF SchedInv
<1>1. y \in Schedulers /\ y.state = [s.state EXCEPT ![t] = "Pending"] /\ y.later = s.later \o ToTry(s, t)
  <2>1. TRUE \in BOOLEAN
    OBVIOUS
  <2>. QED  BY <2>1, InactivateShape
<1>2. y.later = ToTry(s, t)
  <2>1. ToTry(s, t) \in Seq(Tasks \cup {NoTask})
    BY <1>0, ToTryFact
  <2>2. <<>> \o ToTry(s, t) = ToTry(s, t)
    BY <2>1, ConcatEmptySeq
  <2>. QED  BY <1>1, <2>2
<1>3. ResetTask(s, t) = FlushTryStartTask(x)
  <2>1. [s EXCEPT !.ok = @ /\ s.later = <<>>] = s
    BY <1>0, SameOk
  <2>. QED  BY <2>1 DEF ResetTask
<1>4. Back(s, t, "Pending") = [y EXCEPT !.state = [@ EXCEPT ![t] = "Pending"], !.later = <<>>]
  BY DEF Back
<1> HIDE DEF y
<1>5. [y.state EXCEPT ![t] = "Pending"] = y.state
  BY <1>0, <1>1, SchedShape
<1>6. [y EXCEPT !.state = [@ EXCEPT ![t] = "Pending"], !.later = <<>>] = [y EXCEPT !.later = <<>>]
  BY <1>1, <1>5 DEF Schedulers
<1>7. x.later = Append(ToTry(s, t), t) /\ [x EXCEPT !.later = <<>>] = [y EXCEPT !.later = <<>>]
  BY <1>1, <1>2 DEF Schedulers
<1>. QED  BY <1>3, <1>4, <1>6, <1>7 DEF FlushTryStartTask

LEMMA PauseForm ==
    ASSUME NEW s, NEW A, SchedInv(s, {}, A), s.later = <<>>, NEW t \in Tasks, Exists(s, t)
    PROVE  PauseTask(s, t) = TryStartTasks(Back(s, t, "Paused"), ToTry(s, t))
<1> DEFINE y == InactivateTask(s, t, TRUE)
           x == [y EXCEPT !.state[t] = "Paused"]
<1>0. s \in Schedulers /\ s.ok /\ Listed(s) /\ Limits(s)
  BY DEF SchedInv
<1>1. y \in Schedulers /\ y.later = s.later \o ToTry(s, t)
  <2>1. TRUE \in BOOLEAN
    OBVIOUS
  <2>. QED  BY <2>1, InactivateShape
<1>2. y.later = ToTry(s, t)
  <2>1. ToTry(s, t) \in Seq(Tasks \cup {NoTask})
    BY <1>0, ToTryFact
  <2>2. <<>> \o ToTry(s, t) = ToTry(s, t)
    BY <2>1, ConcatEmptySeq
  <2>. QED  BY <1>1, <2>2
<1>3. PauseTask(s, t) = FlushTryStartTask(x)
  BY DEF PauseTask
<1>4. Back(s, t, "Paused") = [y EXCEPT !.state = [@ EXCEPT ![t] = "Paused"], !.later = <<>>]
  BY DEF Back
<1> HIDE DEF y
<1>5. x.later = ToTry(s, t) /\ [x EXCEPT !.later = <<>>] = [y EXCEPT !.state = [@ EXCEPT ![t] = "Paused"], !.later = <<>>]
  BY <1>1, <1>2 DEF Schedulers
<1>. QED  BY <1>3, <1>4, <1>5 DEF FlushTryStartTask

LEMMA FinishForm ==
    ASSUME NEW s, NEW A, SchedInv(s, {}, A), s.later = <<>>, NEW t \in Tasks, Exists(s, t)
    PROVE  FinishTask(s, t) = TryStartTasks(Gone(s, t), ToTry(s, t) \o Children(s, t))
<1> DEFINE y == InactivateTask(s, t, FALSE)
           w == FinishChainTasks(y, t)
           x == [w EXCEPT !.state[t] = "gone", !.later = @ \o Children(s, t)]
<1>0. s \in Schedulers /\ s.ok /\ Listed(s) /\ Limits(s)
  BY DEF SchedInv
<1>1. y \in Schedulers /\ y.later = s.later \o ToTry(s, t)
  <2>1. FALSE \in BOOLEAN
    OBVIOUS
  <2>. QED  BY <2>1, InactivateShape
<1>2. y.later = ToTry(s, t)
  <2>1. ToTry(s, t) \in Seq(Tasks \cup {NoTask})
    BY <1>0, ToTryFact
  <2>2. <<>> \o ToTry(s, t) = ToTry(s, t)
    BY <2>1, ConcatEmptySeq
  <2>. QED  BY <1>1, <2>2
<1>3. FinishTask(s, t) = FlushTryStartTask(x)
  <2>1. [s EXCEPT !.ok = @ /\ s.later = <<>>] = s
    BY <1>0, SameOk
  <2>. QED  BY <2>1 DEF FinishTask
<1>4. Gone(s, t) = [w EXCEPT !.state = [@ EXCEPT ![t] = "gone"], !.later = <<>>]
  BY DEF Gone
<1>5. w.later = y.later /\ \E q, g, a : w = [y EXCEPT !.chain = q, !.cgen = g, !.active = a]
  <2> HIDE DEF y
  <2>1. \E q, g, a : w = [y EXCEPT !.chain = q, !.cgen = g, !.active = a]
    BY DEF FinishChainTasks
  <2>. QED  BY <1>1, <2>1 DEF Schedulers
<1> HIDE DEF y, w
<1>6. PICK q, g, a : w = [y EXCEPT !.chain = q, !.cgen = g, !.active = a]
  BY <1>5
<1>7. x.later = ToTry(s, t) \o Children(s, t) /\ [x EXCEPT !.later = <<>>] = [w EXCEPT !.state = [@ EXCEPT ![t] = "gone"], !.later = <<>>]
  BY <1>1, <1>2, <1>5, <1>6 DEF Schedulers
<1>. QED  BY <1>3, <1>4, <1>7 DEF FlushTryStartTask

\* reset_task.
LEMMA ResetKeeps ==
    ASSUME NEW s, NEW A \in [Tasks -> Nat], SchedInv(s, {}, A), s.pending = <<>>, s.later = <<>>,
           NEW t \in Tasks, Exists(s, t)
    PROVE  LET z == ResetTask(s, t)
           IN  SchedInv(z, {}, A) /\ Runs([s.state EXCEPT ![t] = "Pending"], s.gen, z) /\ z.on = s.on
<1> DEFINE y == Back(s, t, "Pending")
           due == Append(ToTry(s, t), t)
           z == TryStartTasks(y, due)
<1>0. s \in Schedulers /\ Listed(s) /\ Limits(s)
  BY DEF SchedInv
<1>1. "Pending" \in {"Pending", "Paused"}
  OBVIOUS
<1>2. /\ y \in Schedulers /\ y.state = [s.state EXCEPT ![t] = "Pending"] /\ y.on = s.on /\ y.gen = s.gen
      /\ y.pending = s.pending /\ y.later = <<>>
  BY <1>1, BackShape
<1>3. /\ ToTry(s, t) \in Seq(Tasks \cup {NoTask}) /\ t \in Tasks \cup {NoTask}
      /\ \A u \in Range(ToTry(s, t)) : u # NoTask => u # t /\ Exists(s, u)
  BY <1>0, ToTryFact
<1>4. due \in Seq(Tasks \cup {NoTask}) /\ Range(due) = Range(ToTry(s, t)) \cup {t}
  BY <1>3, RangeAppend
<1>5. Range(ToTry(s, t)) \cup (IF "Pending" = "Pending" THEN {t} ELSE {}) = Range(due)
  BY <1>4
<1>6. SchedInv(y, Range(due), A)
  BY <1>1, <1>5, BackKeeps
<1>7. \A u \in Range(ToTry(s, t)) : u # NoTask => u \in Tasks
  <2>1. \A i \in DOMAIN ToTry(s, t) : ToTry(s, t)[i] \in Tasks \cup {NoTask}
    BY <1>3
  <2>. QED  BY <2>1 DEF Range
<1> HIDE DEF y, due
<1>8. \A u \in Range(due) : u # NoTask => Exists(y, u)
  BY <1>0, <1>2, <1>3, <1>4, <1>7, SchedShape DEF Exists
<1>9. SchedInv(z, {}, A) /\ Moves(y, z)
  BY <1>4, <1>6, <1>8, RunKeeps
<1>10. Runs(y.state, y.gen, z) /\ z.on = y.on
  BY <1>2, <1>9, MovesRun
<1>11. ResetTask(s, t) = z
  BY ResetForm DEF y, due
<1>. QED  BY <1>2, <1>9, <1>10, <1>11

\* pause_task; if the task was only pending, nothing is started.
LEMMA PauseKeeps ==
    ASSUME NEW s, NEW A \in [Tasks -> Nat], SchedInv(s, {}, A), s.pending = <<>>, s.later = <<>>,
           NEW t \in Tasks, Exists(s, t)
    PROVE  LET z == PauseTask(s, t)
           IN  /\ SchedInv(z, {}, A) /\ Runs([s.state EXCEPT ![t] = "Paused"], s.gen, z) /\ z.on = s.on
               /\ s.state[t] = "Pending" => z.pending = <<>>
<1> DEFINE y == Back(s, t, "Paused")
           due == ToTry(s, t)
           z == TryStartTasks(y, due)
<1>0. s \in Schedulers /\ Listed(s) /\ Limits(s) /\ Gens(s) /\ Waits(s, {})
  BY DEF SchedInv
<1>1. "Paused" \in {"Pending", "Paused"}
  OBVIOUS
<1>2. /\ y \in Schedulers /\ y.state = [s.state EXCEPT ![t] = "Paused"] /\ y.on = s.on /\ y.gen = s.gen
      /\ y.pending = s.pending /\ y.later = <<>>
      /\ \A c \in Chains : y.active[c] = IF s.state[t] = "Active" /\ c \in ChainsOf(s, t) THEN s.active[c] - 1 ELSE s.active[c]
      /\ \A c \in Chains : y.cgen[c] >= s.cgen[c]
      /\ \A u \in Tasks : ChainsOf(y, u) = ChainsOf(s, u)
      /\ \A c \in Chains : On(y, c) = On(s, c)
  BY <1>1, BackShape
<1>3. /\ due \in Seq(Tasks \cup {NoTask})
      /\ \A u \in Range(due) : u # NoTask => u # t /\ Exists(s, u)
  BY <1>0, ToTryFact
<1>5. Range(ToTry(s, t)) \cup (IF "Paused" = "Pending" THEN {t} ELSE {}) = Range(due)
  OBVIOUS
<1>6. SchedInv(y, Range(due), A)
  BY <1>1, <1>5, BackKeeps
<1> HIDE DEF y, due
<1>7. \A u \in Range(due) : u # NoTask => u \in Tasks
  <2>1. \A i \in DOMAIN due : due[i] \in Tasks \cup {NoTask}
    BY <1>3
  <2>. QED  BY <2>1 DEF Range
<1>8. \A u \in Range(due) : u # NoTask => Exists(y, u)
  BY <1>0, <1>2, <1>3, <1>7, SchedShape DEF Exists
<1>9. SchedInv(z, {}, A) /\ Moves(y, z) /\ ((\A u \in Tasks : ~Starts(y, u)) => z.pending = y.pending)
  BY <1>3, <1>6, <1>8, RunKeeps
<1>10. Runs(y.state, y.gen, z) /\ z.on = y.on
  BY <1>2, <1>9, MovesRun
<1>11. PauseTask(s, t) = z
  BY PauseForm DEF y, due
<1>12. ASSUME s.state[t] = "Pending" PROVE z.pending = <<>>
  <2> SUFFICES ASSUME NEW u \in Tasks, Starts(y, u) PROVE FALSE
    BY <1>2, <1>9
  <2>1. u # t /\ s.state[u] = "Pending" /\ HeldBy(y, u) = {}
    BY <1>0, <1>2, SchedShape DEF Starts
  <2>2. PICK c \in ChainsOf(s, u) : Behind(s, u, c) \/ (Full(s, c) /\ s.limited[c] = u)
    BY <1>0, <2>1 DEF Waits, Held
  <2>3. c \in Chains /\ u \in On(s, c) /\ u \in On(y, c) /\ c \in ChainsOf(y, u)
    BY <1>0, <1>2, <2>1, OnFact, TaskChains
  <2>4. PICK i \in DOMAIN y.on[u] : y.on[u][i] = c
    BY <2>3 DEF ChainsOf, Range
  <2>5. ~Behind(y, u, c) /\ ~Full(y, c)
    BY <2>1, <2>4 DEF HeldBy
  <2>6. ~Full(s, c)
    BY <1>2, <1>12, <2>3, <2>5 DEF Full
  <2>7. PICK w \in On(s, c) : w < u /\ s.gen[w][c] # s.cgen[c]
    BY <1>0, <2>2, <2>3, <2>6, BehindFact
  <2>8. s.gen[w][c] <= s.cgen[c] /\ s.gen[w][c] \in Nat /\ s.cgen[c] \in Nat /\ y.cgen[c] \in Nat /\ y.cgen[c] >= s.cgen[c]
    BY <1>0, <1>2, <2>3, OnFact DEF Gens
  <2>9. w \in On(y, c) /\ w < u /\ y.gen[w][c] # y.cgen[c]
    BY <1>2, <2>3, <2>7, <2>8
  <2>10. Listed(y) /\ Gens(y)
    BY <1>6 DEF SchedInv
  <2>. QED  BY <1>2, <2>3, <2>5, <2>9, <2>10, BehindFact
<1>. QED  BY <1>2, <1>9, <1>10, <1>11, <1>12

\* finish_task.
LEMMA FinishKeeps ==
    ASSUME NEW s, NEW A \in [Tasks -> Nat], SchedInv(s, {}, A), s.pending = <<>>, s.later = <<>>,
           NEW t \in Tasks, Exists(s, t)
    PROVE  LET z == FinishTask(s, t)
           IN  SchedInv(z, {}, A) /\ Runs([s.state EXCEPT ![t] = "gone"], s.gen, z) /\ z.on = s.on
<1> DEFINE y == Gone(s, t)
           due == ToTry(s, t) \o Children(s, t)
           z == TryStartTasks(y, due)
<1>0. s \in Schedulers /\ Listed(s) /\ Limits(s)
  BY DEF SchedInv
<1>2. /\ y \in Schedulers /\ y.state = [s.state EXCEPT ![t] = "gone"] /\ y.on = s.on /\ y.gen = s.gen
      /\ y.pending = s.pending /\ y.later = <<>>
  BY GoneShape
<1>3. /\ ToTry(s, t) \in Seq(Tasks \cup {NoTask}) /\ Children(s, t) \in Seq(Tasks \cup {NoTask})
      /\ \A u \in Range(ToTry(s, t)) : u # NoTask => u # t /\ Exists(s, u)
      /\ \A u \in Range(Children(s, t)) : u # NoTask => u # t /\ Exists(s, u)
  BY <1>0, ToTryFact, ChildrenFact
<1>4. due \in Seq(Tasks \cup {NoTask}) /\ Range(due) = Range(ToTry(s, t)) \cup Range(Children(s, t))
  BY <1>3, RangeConcat, ConcatProperties
<1>6. SchedInv(y, Range(due), A)
  BY <1>4, GoneKeeps
<1> HIDE DEF y, due
<1>7. \A u \in Range(due) : u # NoTask => u \in Tasks
  <2>1. \A i \in DOMAIN due : due[i] \in Tasks \cup {NoTask}
    BY <1>4
  <2>. QED  BY <2>1 DEF Range
<1>8. \A u \in Range(due) : u # NoTask => Exists(y, u)
  BY <1>0, <1>2, <1>3, <1>4, <1>7, SchedShape DEF Exists
<1>9. SchedInv(z, {}, A) /\ Moves(y, z)
  BY <1>4, <1>6, <1>8, RunKeeps
<1>10. Runs(y.state, y.gen, z) /\ z.on = y.on
  BY <1>2, <1>9, MovesRun
<1>11. FinishTask(s, t) = z
  BY FinishForm DEF y, due
<1>. QED  BY <1>2, <1>9, <1>10, <1>11

\* The state in which create_task starts the task.
Entered(s, t, r) ==
    [s EXCEPT !.state[t] = "Pending", !.on[t] = r,
              !.chain = [c \in Chains |-> IF c \in Range(r) THEN Append(@[c], t) ELSE @[c]]]

LEMMA EnteredShape ==
    ASSUME NEW s, NEW A, SchedInv(s, {}, A), NEW t \in Tasks, s.state[t] = "none",
           \A u \in Tasks : t < u => s.state[u] = "none", NEW r \in Routes
    PROVE  LET z == Entered(s, t, r)
           IN  /\ z \in Schedulers
               /\ z.state = [s.state EXCEPT ![t] = "Pending"] /\ z.on = [s.on EXCEPT ![t] = r] /\ z.gen = s.gen
               /\ z.active = s.active /\ z.cgen = s.cgen /\ z.limited = s.limited
               /\ z.pending = s.pending /\ z.ok = s.ok /\ z.later = s.later
               /\ ChainsOf(z, t) = Range(r) /\ \A u \in Tasks \ {t} : ChainsOf(z, u) = ChainsOf(s, u)
               /\ \A c \in Chains : On(z, c) = On(s, c) \cup (IF c \in Range(r) THEN {t} ELSE {})
               /\ \A c \in Chains : \A u \in On(s, c) : u < t
               /\ Listed(z)
<1> DEFINE z == Entered(s, t, r)
           q == [c \in Chains |-> IF c \in Range(r) THEN Append(s.chain[c], t) ELSE s.chain[c]]
<1>0. s \in Schedulers /\ Listed(s)
  BY DEF SchedInv
<1>1. z = [s EXCEPT !.state = [@ EXCEPT ![t] = "Pending"], !.on = [@ EXCEPT ![t] = r], !.chain = q]
  BY DEF Entered
<1>2. ASSUME NEW c \in Chains PROVE \A u \in On(s, c) : u < t
  <2> SUFFICES ASSUME NEW u \in On(s, c) PROVE u < t
    OBVIOUS
  <2>1. u \in Tasks /\ u \in Nat /\ t \in Nat /\ s.state[u] # "none"
    BY <1>0, Bounds, OnFact
  <2>. QED  BY <2>1
<1>3. ASSUME NEW c \in Chains
      PROVE  q[c] \in Seq(Tasks) /\ Increasing(q[c]) /\ Range(q[c]) = On(s, c) \cup (IF c \in Range(r) THEN {t} ELSE {})
  <2> DEFINE a == s.chain[c]
             b == Append(a, t)
  <2>1. a \in Seq(Tasks) /\ Increasing(a) /\ Range(a) = On(s, c)
    BY <1>0, SchedShape DEF Listed
  <2>2. CASE c \notin Range(r)
    <3>1. q[c] = a
      BY <2>2
    <3>. QED  BY <2>1, <2>2, <3>1
  <2>3. CASE c \in Range(r)
    <3>1. q[c] = b
      BY <2>3
    <3>2. b \in Seq(Tasks) /\ Range(b) = On(s, c) \cup {t}
      BY <2>1, RangeAppend
    <3>3. /\ Len(a) \in Nat /\ DOMAIN a = 1 .. Len(a) /\ DOMAIN b = 1 .. Len(a) + 1
          /\ b[Len(a) + 1] = t /\ \A i \in 1 .. Len(a) : b[i] = a[i]
      BY <2>1
    <3> HIDE DEF a, b, q
    <3>4. \A i \in 1 .. Len(a) : a[i] < t
      BY <1>2, <2>1, <3>3 DEF Range
    <3>5. ASSUME NEW i \in DOMAIN b, NEW j \in DOMAIN b, i < j PROVE b[i] < b[j]
      <4>1. i \in 1 .. Len(a) /\ (j \in 1 .. Len(a) \/ j = Len(a) + 1)
        BY <3>3, <3>5
      <4>2. CASE j = Len(a) + 1
        BY <3>3, <3>4, <4>1, <4>2
      <4>3. CASE j \in 1 .. Len(a)
        BY <2>1, <3>3, <3>5, <4>1, <4>3 DEF Increasing
      <4>. QED  BY <4>1, <4>2, <4>3
    <3>6. Increasing(b)
      BY <3>5 DEF Increasing
    <3>. QED  BY <2>3, <3>1, <3>2, <3>6
  <2>. QED  BY <2>2, <2>3
<1>4. q \in [Chains -> Seq(Tasks)]
  <2>1. q = [c \in Chains |-> q[c]]
    OBVIOUS
  <2> HIDE DEF q
  <2>. QED  BY <1>3, <2>1
<1> HIDE DEF z, q
<1>5. [s.state EXCEPT ![t] = "Pending"] \in [Tasks -> States] /\ [s.on EXCEPT ![t] = r] \in [Tasks -> Routes \cup {<<>>}]
  BY <1>0, SchedShape DEF States
<1>6. /\ z \in Schedulers
      /\ z.state = [s.state EXCEPT ![t] = "Pending"] /\ z.on = [s.on EXCEPT ![t] = r] /\ z.gen = s.gen /\ z.chain = q
      /\ z.active = s.active /\ z.cgen = s.cgen /\ z.limited = s.limited
      /\ z.pending = s.pending /\ z.ok = s.ok /\ z.later = s.later
  BY <1>0, <1>1, <1>4, <1>5 DEF Schedulers
<1>7. ChainsOf(z, t) = Range(r) /\ \A u \in Tasks \ {t} : ChainsOf(z, u) = ChainsOf(s, u)
  BY <1>0, <1>6, SchedShape DEF ChainsOf
<1>8. \A c \in Chains : On(z, c) = On(s, c) \cup (IF c \in Range(r) THEN {t} ELSE {})
  <2>1. Exists(z, t) /\ ~Exists(s, t) /\ \A u \in Tasks \ {t} : Exists(z, u) <=> Exists(s, u)
    BY <1>0, <1>6, SchedShape DEF Exists
  <2>. QED  BY <1>7, <2>1 DEF On
<1>9. Listed(z)
  BY <1>3, <1>6, <1>8 DEF Listed
<1>. QED  BY <1>2, <1>6, <1>7, <1>8, <1>9 DEF z

\* create_task.
LEMMA CreateKeeps ==
    ASSUME NEW s, NEW A \in [Tasks -> Nat], SchedInv(s, {}, A), s.pending = <<>>, s.later = <<>>,
           NEW t \in Tasks, s.state[t] = "none", A[t] = 0, \A c \in Chains : s.gen[t][c] = 0,
           \A u \in Tasks : t < u => s.state[u] = "none",
           \A u \in Tasks, c \in Chains : s.gen[u][c] # 0 => A[u] # 0,
           NEW r \in Routes
    PROVE  LET z == CreateTask(s, t, r)
           IN  /\ SchedInv(z, {}, A) /\ Runs([s.state EXCEPT ![t] = "Pending"], s.gen, z)
               /\ z.on = [s.on EXCEPT ![t] = r]
<1> DEFINE y == Entered(s, t, r)
           z == TryStartTasks(y, <<t>>)
<1>0. /\ s \in Schedulers /\ s.ok /\ Listed(s) /\ Routed(s) /\ Gens(s) /\ Counted(s) /\ Limits(s)
      /\ Waits(s, {}) /\ Queued(s) /\ Efforts(s, A)
  BY DEF SchedInv
<1>1. /\ y \in Schedulers
      /\ y.state = [s.state EXCEPT ![t] = "Pending"] /\ y.on = [s.on EXCEPT ![t] = r] /\ y.gen = s.gen
      /\ y.active = s.active /\ y.cgen = s.cgen /\ y.limited = s.limited
      /\ y.pending = s.pending /\ y.ok = s.ok /\ y.later = s.later
      /\ ChainsOf(y, t) = Range(r) /\ \A u \in Tasks \ {t} : ChainsOf(y, u) = ChainsOf(s, u)
      /\ \A c \in Chains : On(y, c) = On(s, c) \cup (IF c \in Range(r) THEN {t} ELSE {})
      /\ \A c \in Chains : \A u \in On(s, c) : u < t
      /\ Listed(y)
  BY EnteredShape
<1> HIDE DEF y
<1>2. /\ y.state[t] = "Pending" /\ \A u \in Tasks \ {t} : y.state[u] = s.state[u]
      /\ \A u \in Tasks : ChainsOf(s, u) \subseteq Chains
      /\ \A c \in Chains : t \notin On(s, c)
  BY <1>0, <1>1, SchedShape, TaskChains, OnFact
<1>3. Routed(y)
  BY <1>0, <1>1, <1>2, SchedShape DEF Routed
<1>4. Gens(y)
  <2> SUFFICES ASSUME NEW c \in Chains
               PROVE  /\ \A u \in On(y, c) : s.gen[u][c] <= s.cgen[c] /\ (s.gen[u][c] = s.cgen[c] => y.state[u] = "Active")
                      /\ \A u, v \in On(y, c) : u < v => s.gen[v][c] <= s.gen[u][c]
    BY <1>1 DEF Gens
  <2>1. /\ \A u \in On(s, c) : s.gen[u][c] <= s.cgen[c] /\ (s.gen[u][c] = s.cgen[c] => s.state[u] = "Active")
        /\ \A u, v \in On(s, c) : u < v => s.gen[v][c] <= s.gen[u][c]
    BY <1>0 DEF Gens
  <2>2. /\ s.cgen[c] \in Nat \ {0} /\ \A u \in Tasks : s.gen[u][c] \in Nat
        /\ On(s, c) \subseteq Tasks /\ On(s, c) \subseteq Nat /\ t \in Nat
        /\ s.gen[t][c] = 0
    BY <1>0, SchedShape, OnFact, Bounds
  <2>3. \A u \in On(y, c) : u = t \/ (u \in On(s, c) /\ u < t /\ y.state[u] = s.state[u])
    BY <1>1, <1>2, <2>2
  <2>4. ASSUME NEW u \in On(y, c) PROVE s.gen[u][c] <= s.cgen[c] /\ (s.gen[u][c] = s.cgen[c] => y.state[u] = "Active")
    BY <2>1, <2>2, <2>3
  <2>5. ASSUME NEW u \in On(y, c), NEW v \in On(y, c), u < v PROVE s.gen[v][c] <= s.gen[u][c]
    <3>1. u # t
      BY <2>2, <2>3, <2>5
    <3>2. CASE v = t
      <4>1. u \in On(s, c)
        BY <2>3, <3>1
      <4>2. s.gen[u][c] \in Nat /\ s.gen[v][c] = 0
        BY <2>2, <3>2, <4>1
      <4>. QED  BY <4>2
    <3>3. CASE v # t
      <4>1. u \in On(s, c) /\ v \in On(s, c)
        BY <2>3, <3>1, <3>3
      <4>. QED  BY <2>1, <2>5, <4>1
    <3>. QED  BY <3>2, <3>3
  <2>. QED  BY <2>4, <2>5
<1>5. Counted(y)
  <2>1. \A c \in Chains : ActiveOn(y, c) = ActiveOn(s, c)
    BY <1>1, <1>2 DEF ActiveOn
  <2>. QED  BY <1>0, <1>1, <2>1 DEF Counted
<1>6. Limits(y)
  BY <1>0, <1>1 DEF Limits
<1>7. Waits(y, {t})
  <2> SUFFICES ASSUME NEW u \in Tasks, y.state[u] = "Pending", u # t PROVE Held(y, u)
    BY DEF Waits
  <2>1. s.state[u] = "Pending"
    BY <1>2
  <2>2. PICK c \in ChainsOf(s, u) : Behind(s, u, c) \/ (Full(s, c) /\ s.limited[c] = u)
    BY <1>0, <2>1 DEF Waits, Held
  <2>3. c \in Chains /\ u \in On(s, c) /\ c \in ChainsOf(y, u) /\ u \in On(y, c)
    BY <1>0, <1>1, <1>2, <2>1, OnFact
  <2>4. CASE Full(s, c) /\ s.limited[c] = u
    BY <1>1, <2>3, <2>4 DEF Held, Full
  <2>5. CASE Behind(s, u, c)
    <3>1. PICK w \in On(s, c) : w < u /\ s.gen[w][c] # s.cgen[c]
      BY <1>0, <2>3, <2>5, BehindFact
    <3>2. w \in On(y, c) /\ w < u /\ y.gen[w][c] # y.cgen[c]
      BY <1>1, <2>3, <3>1
    <3>3. Behind(y, u, c)
      BY <1>1, <1>4, <2>3, <3>2, BehindFact
    <3>. QED  BY <2>3, <3>3 DEF Held
  <2>. QED  BY <2>2, <2>4, <2>5
<1>8. Queued(y)
  <2>1. Range(y.pending) = {} /\ y.pending = s.pending
    BY <1>1 DEF Range
  <2>. QED  BY <1>0, <2>1 DEF Queued
<1>9. Efforts(y, A)
  <2> SUFFICES ASSUME NEW c \in Chains, NEW u \in On(y, c), NEW v \in On(y, c), u < v
               PROVE  Att(y, A, v) <= Att(y, A, u) /\ (y.gen[v][c] < y.gen[u][c] => Att(y, A, v) < Att(y, A, u))
    BY DEF Efforts
  <2>0. Range(y.pending) = {} /\ Range(s.pending) = {}
    BY <1>1 DEF Range
  <2>1. \A w \in Tasks : Att(y, A, w) = A[w] /\ Att(s, A, w) = A[w] /\ A[w] \in Nat
    BY <2>0 DEF Att
  <2>2. /\ \A w \in Tasks : s.gen[w][c] \in Nat
        /\ On(s, c) \subseteq Tasks /\ On(s, c) \subseteq Nat /\ t \in Nat
    BY <1>0, OnFact, Bounds
  <2>3. \A w \in On(y, c) : w = t \/ (w \in On(s, c) /\ w < t)
    BY <1>1, <2>2
  <2>4. u # t
    BY <2>2, <2>3
  <2>5. CASE v = t
    <3>1. A[t] = 0 /\ y.gen[t][c] = 0 /\ u \in Tasks /\ (s.gen[u][c] # 0 => A[u] # 0)
      BY <1>1, <2>2, <2>3, <2>4
    <3>. QED  BY <1>1, <2>1, <2>2, <2>5, <3>1
  <2>6. CASE v # t
    <3>1. u \in On(s, c) /\ v \in On(s, c) /\ u \in Tasks /\ v \in Tasks
      BY <2>2, <2>3, <2>4, <2>6
    <3>2. Att(s, A, v) <= Att(s, A, u) /\ (s.gen[v][c] < s.gen[u][c] => Att(s, A, v) < Att(s, A, u))
      BY <1>0, <3>1 DEF Efforts
    <3>. QED  BY <1>1, <2>1, <3>1, <3>2
  <2>. QED  BY <2>5, <2>6
<1>10. SchedInv(y, {t}, A)
  BY <1>0, <1>1, <1>3, <1>4, <1>5, <1>6, <1>7, <1>8, <1>9 DEF SchedInv
<1>11. <<t>> \in Seq(Tasks \cup {NoTask}) /\ Range(<<t>>) = {t}
  BY DEF Range
<1>12. \A u \in Range(<<t>>) : u # NoTask => Exists(y, u)
  BY <1>2, <1>11 DEF Exists
<1>13. SchedInv(z, {}, A) /\ Moves(y, z)
  BY <1>10, <1>11, <1>12, RunKeeps
<1>14. Runs(y.state, y.gen, z) /\ z.on = y.on
  BY <1>1, <1>13, MovesRun
<1>15. CreateTask(s, t, r) = z
  BY DEF CreateTask, y, Entered
<1>. QED  BY <1>1, <1>13, <1>14, <1>15

-----------------------------------------------------------------------------
(* The dispatcher                                                          *)

LEMMA DispShape ==
    ASSUME NEW d \in Dispatchers
    PROVE  /\ d.sched \in Schedulers /\ d.place \in [Tasks -> Places] /\ d.result \in [Tasks -> Results]
           /\ d.owed \in [Tasks -> BOOLEAN]
           /\ d = [sched |-> d.sched, place |-> d.place, result |-> d.result, owed |-> d.owed]
BY DEF Dispatchers

LEMMA VarsShape ==
    ASSUME NEW at, NEW af, NEW ex, VarsOK(at, af, ex)
    PROVE  /\ at \in [Tasks -> Nat] /\ ex \in [Tasks -> Nat] /\ af \in [Tasks -> SUBSET (Tasks \X Nat)]
           /\ \A t \in Tasks : at[t] \in Nat /\ ex[t] \in Nat /\ t \in Nat /\ t >= 1
           /\ MaxAttempts \in Nat /\ MaxAttempts >= 1
<1>1. \A t \in Tasks : t \in Nat /\ t >= 1
  BY Bounds
<1>. QED  BY <1>1, Bounds DEF VarsOK

\* A method of the scheduler is called for t, whose query goes to p with the result r.
LEMMA StepKeeps ==
    ASSUME NEW d, NEW at, NEW af, NEW ex, MidInv(d, at, af, ex), d.sched.pending = <<>>,
           NEW t \in Tasks, Exists(d.sched, t), NEW st, NEW p, NEW r, NEW z, NEW o \in [Tasks -> BOOLEAN],
           SchedInv(z, {}, at), Runs([d.sched.state EXCEPT ![t] = st], d.sched.gen, z), z.on = d.sched.on,
           <<st, p>> \in {<<"Pending", "held">>, <<"Paused", "callback">>, <<"gone", "none">>},
           r = d.result[t] \/ (r = "error" /\ d.result[t] # "ok"),
           p = "held" => r \in {"wait", "error"} /\ (at[t] >= MaxAttempts => af[t] # {}),
           p # "held" => r \in {"ok", "error"}
    PROVE  MidInv([sched |-> z, place |-> [d.place EXCEPT ![t] = p], result |-> [d.result EXCEPT ![t] = r], owed |-> o],
                  at, af, ex)
<1> DEFINE e == [sched |-> z, place |-> [d.place EXCEPT ![t] = p], result |-> [d.result EXCEPT ![t] = r], owed |-> o]
           s == d.sched
           f == [s.state EXCEPT ![t] = st]
<1>0. /\ d \in Dispatchers /\ SchedInv(s, {}, at) /\ s.later = <<>>
      /\ VarsOK(at, af, ex) /\ PlaceOK(d, at) /\ ResultOK(d, at, af, ex) /\ Numbered(s, at, ex)
      /\ Tried(s, at) /\ AfterOK(at, af) /\ Covered(s, at, af) /\ Ordered(s, ex) /\ Bounded(at)
  BY DEF MidInv
<1>1. /\ s \in Schedulers /\ d.place \in [Tasks -> Places] /\ d.result \in [Tasks -> Results] /\ z \in Schedulers
  BY <1>0, DispShape DEF SchedInv
<1>2. /\ st \in {"Pending", "Paused", "gone"} /\ p \in Places /\ r \in Results
      /\ (p = "held" <=> st = "Pending") /\ (p = "none" <=> st = "gone") /\ p # "sent"
      /\ (p = "callback" <=> st = "Paused")
  BY <1>1 DEF Places, Results
<1>3. /\ \A u \in Tasks \ {t} : f[u] = s.state[u]
      /\ f[t] = st /\ s.state[t] \in {"Pending", "Active", "Paused"}
      /\ \A u \in Tasks : s.state[u] \in States
  BY <1>1, SchedShape DEF Exists
<1>4. /\ e \in Dispatchers /\ e.sched = z /\ e.owed = o
      /\ e.place[t] = p /\ \A u \in Tasks \ {t} : e.place[u] = d.place[u]
      /\ e.result[t] = r /\ \A u \in Tasks \ {t} : e.result[u] = d.result[u]
  BY <1>1, <1>2 DEF Dispatchers
<1> HIDE DEF e, f
<1>5. /\ z.later = <<>>
      /\ \A u \in Tasks : z.state[u] # f[u] => f[u] = "Pending" /\ z.state[u] = "Active"
      /\ \A u \in Tasks : z.state[u] = f[u] => z.gen[u] = s.gen[u]
      /\ Range(z.pending) = {u \in Tasks : z.state[u] # f[u]}
  BY DEF Runs, f
<1> HIDE DEF s
<1>6. \A u \in Tasks : ChainsOf(z, u) = ChainsOf(s, u)
  BY DEF ChainsOf, s
<1>7. Range(s.pending) = {}
  BY DEF Range, s
<1>8. PlaceOK(e, at)
  <2> SUFFICES ASSUME NEW u \in Tasks
               PROVE  /\ e.place[u] = "none" <=> z.state[u] \in {"none", "gone"}
                      /\ e.place[u] = "held" <=> z.state[u] = "Pending" \/ u \in Range(z.pending)
                      /\ e.place[u] = "sent" => z.state[u] = "Active" /\ at[u] >= 1
                      /\ e.place[u] = "callback" /\ z.state[u] = "Active" => at[u] >= 1
    BY <1>4 DEF PlaceOK
  <2>1. CASE u = t
    BY <1>2, <1>3, <1>4, <1>5, <2>1
  <2>2. CASE u # t
    <3>1. /\ d.place[u] = "none" <=> s.state[u] \in {"none", "gone"}
          /\ d.place[u] = "held" <=> s.state[u] = "Pending"
          /\ d.place[u] = "sent" => s.state[u] = "Active" /\ at[u] >= 1
          /\ d.place[u] = "callback" /\ s.state[u] = "Active" => at[u] >= 1
      BY <1>0, <1>7 DEF PlaceOK, s
    <3>2. f[u] = s.state[u] /\ e.place[u] = d.place[u]
      BY <1>3, <1>4, <2>2
    <3>. QED  BY <1>5, <3>1, <3>2
  <2>. QED  BY <2>1, <2>2
<1>9. ResultOK(e, at, af, ex)
  <2> SUFFICES ASSUME NEW u \in Tasks
               PROVE  /\ e.place[u] = "held" /\ at[u] >= 1 => e.result[u] \in {"wait", "error"}
                      /\ e.place[u] = "held" /\ at[u] >= MaxAttempts => af[u] # {}
                      /\ e.place[u] = "callback" \/ z.state[u] = "gone" => e.result[u] \in {"ok", "error"}
                      /\ e.result[u] = "wait" => af[u] # {}
                      /\ e.result[u] = "ok" => ex[u] = at[u] /\ at[u] >= 1
                      /\ ex[u] # 0 => e.result[u] = "ok"
    BY <1>4 DEF ResultOK
  <2>1. /\ d.place[u] = "held" /\ at[u] >= 1 => d.result[u] \in {"wait", "error"}
        /\ d.place[u] = "held" /\ at[u] >= MaxAttempts => af[u] # {}
        /\ d.place[u] = "callback" \/ s.state[u] = "gone" => d.result[u] \in {"ok", "error"}
        /\ d.result[u] = "wait" => af[u] # {}
        /\ d.result[u] = "ok" => ex[u] = at[u] /\ at[u] >= 1
        /\ ex[u] # 0 => d.result[u] = "ok"
    BY <1>0 DEF ResultOK, s
  <2>2. CASE u = t
    BY <1>2, <1>3, <1>4, <1>5, <2>1, <2>2
  <2>3. CASE u # t
    <3>1. f[u] = s.state[u] /\ e.place[u] = d.place[u] /\ e.result[u] = d.result[u]
      BY <1>3, <1>4, <2>3
    <3>2. z.state[u] = "gone" => s.state[u] = "gone"
      BY <1>5, <3>1
    <3>. QED  BY <2>1, <3>1, <3>2
  <2>. QED  BY <2>2, <2>3
<1>10. \A u \in Tasks : /\ z.state[u] = "none" <=> s.state[u] = "none"
                        /\ s.state[u] = "gone" => z.state[u] = "gone"
  <2> SUFFICES ASSUME NEW u \in Tasks
               PROVE  (z.state[u] = "none" <=> s.state[u] = "none") /\ (s.state[u] = "gone" => z.state[u] = "gone")
    OBVIOUS
  <2>1. CASE u = t
    BY <1>2, <1>3, <1>5, <2>1
  <2>2. CASE u # t
    BY <1>3, <1>5, <2>2
  <2>. QED  BY <2>1, <2>2
<1>11. Numbered(z, at, ex)
  BY <1>0, <1>10 DEF Numbered, s
<1>12. Tried(z, at)
  BY <1>0, <1>5, <1>7 DEF Tried
<1>13. Covered(z, at, af)
  <2> SUFFICES ASSUME NEW u \in Tasks, at[u] >= 1, NEW c \in ChainsOf(s, u), NEW v \in 1 .. u - 1, c \in ChainsOf(z, v)
               PROVE  z.state[v] = "gone" \/ \E q \in af[u] : v <= q[1] /\ c \in ChainsOf(z, q[1])
    BY <1>6 DEF Covered
  <2>1. v \in Tasks
    BY Bounds DEF Tasks
  <2>2. s.state[v] = "gone" \/ \E q \in af[u] : v <= q[1] /\ c \in ChainsOf(s, q[1])
    BY <1>0, <1>6, <2>1 DEF Covered
  <2>3. \A q \in af[u] : q[1] \in Tasks
    BY <1>0 DEF AfterOK
  <2>. QED  BY <1>6, <1>10, <2>1, <2>2, <2>3
<1>14. Ordered(z, ex)
  <2>1. \A u \in Tasks : \A v \in 1 .. u - 1 : v \in Tasks
    BY Bounds DEF Tasks
  <2>. QED  BY <1>0, <1>6, <1>10, <2>1 DEF Ordered
<1>. QED  BY <1>0, <1>4, <1>5, <1>8, <1>9, <1>11, <1>12, <1>13, <1>14 DEF MidInv, e

\* A query is added.
LEMMA EnterKeeps ==
    ASSUME NEW d, NEW at, NEW af, NEW ex, MidInv(d, at, af, ex), d.sched.pending = <<>>,
           NEW t \in Tasks, d.sched.state[t] = "none", \A u \in 1 .. t - 1 : d.sched.state[u] # "none",
           NEW r \in Routes
    PROVE  MidInv([d EXCEPT !.sched = CreateTask(@, t, r), !.place[t] = "held"], at, af, ex)
<1> DEFINE e == [d EXCEPT !.sched = CreateTask(@, t, r), !.place[t] = "held"]
           s == d.sched
           z == CreateTask(s, t, r)
           f == [s.state EXCEPT ![t] = "Pending"]
<1>0. /\ d \in Dispatchers /\ SchedInv(s, {}, at) /\ s.later = <<>>
      /\ VarsOK(at, af, ex) /\ PlaceOK(d, at) /\ ResultOK(d, at, af, ex) /\ Numbered(s, at, ex)
      /\ Tried(s, at) /\ AfterOK(at, af) /\ Covered(s, at, af) /\ Ordered(s, ex) /\ Bounded(at)
  BY DEF MidInv
<1>1. /\ s \in Schedulers /\ d.place \in [Tasks -> Places] /\ d.result \in [Tasks -> Results]
      /\ at \in [Tasks -> Nat] /\ Range(s.pending) = {}
      /\ \A u \in Tasks : at[u] \in Nat /\ u \in Nat /\ u >= 1
  BY <1>0, DispShape, VarsShape DEF Range
<1>2. at[t] = 0 /\ ex[t] = 0 /\ s.on[t] = <<>> /\ \A u \in Tasks : t < u => s.state[u] = "none"
  BY <1>0 DEF Numbered
<1>3. \A u \in Tasks, c \in Chains : s.gen[u][c] # 0 => at[u] # 0
  BY <1>0, <1>1 DEF Tried
<1>4. /\ SchedInv(z, {}, at) /\ Runs(f, s.gen, z) /\ z.on = [s.on EXCEPT ![t] = r]
  <2>1. \A c \in Chains : s.gen[t][c] = 0
    BY <1>2, <1>3
  <2>2. s.pending = <<>> /\ s.state[t] = "none" /\ s.later = <<>> /\ SchedInv(s, {}, at) /\ at \in [Tasks -> Nat]
    BY <1>0, <1>1
  <2> HIDE DEF s
  <2>. QED  BY <1>2, <1>3, <2>1, <2>2, CreateKeeps
<1>5. /\ e \in Dispatchers /\ e.sched = z /\ e.owed = d.owed /\ e.result = d.result
      /\ e.place[t] = "held" /\ \A u \in Tasks \ {t} : e.place[u] = d.place[u]
  <2>1. z \in Schedulers
    BY <1>4 DEF SchedInv
  <2> HIDE DEF z
  <2>2. e = [d EXCEPT !.sched = z, !.place[t] = "held"]
    BY DEF z
  <2>. QED  BY <1>0, <1>1, <2>1, <2>2 DEF Dispatchers, Places
<1>6. \A u \in Tasks \ {t} : f[u] = s.state[u]
  BY <1>1, SchedShape
<1>7. f[t] = "Pending"
  BY <1>1, SchedShape
<1> HIDE DEF e, f, z
<1>8. /\ z.later = <<>>
      /\ \A u \in Tasks : z.state[u] # f[u] => f[u] = "Pending" /\ z.state[u] = "Active"
      /\ \A u \in Tasks : z.state[u] = f[u] => z.gen[u] = s.gen[u]
      /\ Range(z.pending) = {u \in Tasks : z.state[u] # f[u]}
  BY <1>4 DEF Runs
<1>9. \A u \in Tasks \ {t} : ChainsOf(z, u) = ChainsOf(s, u)
  BY <1>1, <1>4, SchedShape DEF ChainsOf
<1> HIDE DEF s
<1>10. PlaceOK(e, at)
  <2> SUFFICES ASSUME NEW u \in Tasks
               PROVE  /\ e.place[u] = "none" <=> z.state[u] \in {"none", "gone"}
                      /\ e.place[u] = "held" <=> z.state[u] = "Pending" \/ u \in Range(z.pending)
                      /\ e.place[u] = "sent" => z.state[u] = "Active" /\ at[u] >= 1
                      /\ e.place[u] = "callback" /\ z.state[u] = "Active" => at[u] >= 1
    BY <1>5 DEF PlaceOK
  <2>1. CASE u = t
    BY <1>5, <1>7, <1>8, <2>1
  <2>2. CASE u # t
    <3>1. /\ d.place[u] = "none" <=> s.state[u] \in {"none", "gone"}
          /\ d.place[u] = "held" <=> s.state[u] = "Pending"
          /\ d.place[u] = "sent" => s.state[u] = "Active" /\ at[u] >= 1
          /\ d.place[u] = "callback" /\ s.state[u] = "Active" => at[u] >= 1
      BY <1>0, <1>1 DEF PlaceOK, s
    <3>2. f[u] = s.state[u] /\ e.place[u] = d.place[u]
      BY <1>5, <1>6, <2>2
    <3>. QED  BY <1>8, <3>1, <3>2
  <2>. QED  BY <2>1, <2>2
<1>11. ResultOK(e, at, af, ex)
  <2> SUFFICES ASSUME NEW u \in Tasks
               PROVE  /\ e.place[u] = "held" /\ at[u] >= 1 => d.result[u] \in {"wait", "error"}
                      /\ e.place[u] = "held" /\ at[u] >= MaxAttempts => af[u] # {}
                      /\ e.place[u] = "callback" \/ z.state[u] = "gone" => d.result[u] \in {"ok", "error"}
                      /\ d.result[u] = "wait" => af[u] # {}
                      /\ d.result[u] = "ok" => ex[u] = at[u] /\ at[u] >= 1
                      /\ ex[u] # 0 => d.result[u] = "ok"
    BY <1>5 DEF ResultOK
  <2>1. /\ d.place[u] = "held" /\ at[u] >= 1 => d.result[u] \in {"wait", "error"}
        /\ d.place[u] = "held" /\ at[u] >= MaxAttempts => af[u] # {}
        /\ d.place[u] = "callback" \/ s.state[u] = "gone" => d.result[u] \in {"ok", "error"}
        /\ d.result[u] = "wait" => af[u] # {}
        /\ d.result[u] = "ok" => ex[u] = at[u] /\ at[u] >= 1
        /\ ex[u] # 0 => d.result[u] = "ok"
    BY <1>0 DEF ResultOK, s
  <2>2. CASE u = t
    <3>1. ~(at[u] >= 1) /\ ~(at[u] >= MaxAttempts) /\ e.place[u] = "held" /\ z.state[u] # "gone"
      BY <1>2, <1>5, <1>7, <1>8, <2>2, Bounds
    <3>. QED  BY <2>1, <3>1
  <2>3. CASE u # t
    <3>1. f[u] = s.state[u] /\ e.place[u] = d.place[u]
      BY <1>5, <1>6, <2>3
    <3>2. z.state[u] = "gone" => s.state[u] = "gone"
      BY <1>8, <3>1
    <3>. QED  BY <2>1, <3>1, <3>2
  <2>. QED  BY <2>2, <2>3
<1>12. /\ z.state[t] # "none" /\ z.state[t] # "gone"
       /\ \A u \in Tasks \ {t} : (z.state[u] = "none" <=> s.state[u] = "none") /\ (z.state[u] = "gone" <=> s.state[u] = "gone")
  BY <1>6, <1>7, <1>8
<1>13. \A u \in Tasks : \A v \in 1 .. u - 1 : v \in Tasks /\ v < u
  BY Bounds DEF Tasks
<1>14. Numbered(z, at, ex)
  <2> SUFFICES ASSUME NEW u \in Tasks, z.state[u] = "none"
               PROVE  z.on[u] = <<>> /\ at[u] = 0 /\ ex[u] = 0 /\ \A v \in Tasks : u < v => z.state[v] = "none"
    BY DEF Numbered
  <2>1. u # t /\ s.state[u] = "none"
    BY <1>12
  <2>2. s.on[u] = <<>> /\ at[u] = 0 /\ ex[u] = 0 /\ \A v \in Tasks : u < v => s.state[v] = "none"
    BY <1>0, <2>1 DEF Numbered, s
  <2>3. z.on[u] = s.on[u]
    BY <1>1, <1>4, <2>1, SchedShape
  <2>4. ~(u < t)
    <3>1. u < t => u \in 1 .. t - 1
      BY <1>1
    <3>. QED  BY <2>1, <3>1 DEF s
  <2>. QED  BY <1>12, <2>2, <2>3, <2>4
<1>15. Tried(z, at)
  BY <1>0, <1>1, <1>8 DEF Tried
<1>16. \A u \in Tasks : at[u] # 0 \/ ex[u] # 0 => u # t /\ u < t
  <2> SUFFICES ASSUME NEW u \in Tasks, at[u] # 0 \/ ex[u] # 0 PROVE u # t /\ u < t
    OBVIOUS
  <2>1. s.state[u] # "none"
    BY <1>0 DEF Numbered, s
  <2>2. u # t /\ ~(t < u)
    BY <1>2, <2>1 DEF s
  <2>. QED  BY <1>1, <2>2
<1>17. Covered(z, at, af)
  <2> SUFFICES ASSUME NEW u \in Tasks, at[u] >= 1, NEW c \in ChainsOf(z, u), NEW v \in 1 .. u - 1, c \in ChainsOf(z, v)
               PROVE  z.state[v] = "gone" \/ \E q \in af[u] : v <= q[1] /\ c \in ChainsOf(z, q[1])
    BY DEF Covered
  <2>1. u # t /\ u < t /\ v \in Tasks /\ v < u
    BY <1>13, <1>16
  <2>2. v # t /\ \A q \in af[u] : q[1] \in Tasks /\ q[1] # t
    BY <1>0, <1>1, <2>1 DEF AfterOK
  <2>3. s.state[v] = "gone" \/ \E q \in af[u] : v <= q[1] /\ c \in ChainsOf(s, q[1])
    BY <1>0, <1>9, <2>1, <2>2 DEF Covered, s
  <2>. QED  BY <1>9, <1>12, <2>1, <2>2, <2>3
<1>18. Ordered(z, ex)
  <2> SUFFICES ASSUME NEW u \in Tasks, ex[u] # 0, NEW v \in 1 .. u - 1, ChainsOf(z, v) \cap ChainsOf(z, u) # {}
               PROVE  ex[v] # 0 \/ z.state[v] = "gone"
    BY DEF Ordered
  <2>1. u # t /\ u < t /\ v \in Tasks /\ v < u
    BY <1>13, <1>16
  <2>2. v # t
    BY <1>1, <2>1
  <2>3. ex[v] # 0 \/ s.state[v] = "gone"
    BY <1>0, <1>9, <2>1, <2>2 DEF Ordered, s
  <2>. QED  BY <1>12, <2>1, <2>2, <2>3
<1>. QED  BY <1>0, <1>4, <1>5, <1>8, <1>10, <1>11, <1>14, <1>15, <1>17, <1>18 DEF MidInv, e

\* What loop makes of the dispatcher, of attempt and of after.
SentBy(d) == Range(d.sched.pending)
NewAttempt(d, at) == [t \in Tasks |-> IF t \in SentBy(d) THEN at[t] + 1 ELSE at[t]]
NewAfter(d, at, af) ==
    [t \in Tasks |-> IF t \in SentBy(d) THEN {<<p, NewAttempt(d, at)[p]>> : p \in Parents(d.sched, t)} ELSE af[t]]
Looped(d) ==
    [sched |-> [d.sched EXCEPT !.pending = <<>>],
     place |-> [t \in Tasks |-> IF t \in SentBy(d) THEN "sent" ELSE d.place[t]],
     result |-> [t \in Tasks |-> IF t \in SentBy(d) THEN "none" ELSE d.result[t]],
     owed |-> d.owed]

\* The tasks before t on a chain of its are those up to its parent.
LEMMA ParentsFact ==
    ASSUME NEW s \in Schedulers, Listed(s), NEW t \in Tasks, Exists(s, t)
    PROVE  /\ \A p \in Parents(s, t) : p \in Tasks /\ \E c \in Chains : t \in On(s, c) /\ p \in On(s, c) /\ p < t
           /\ \A c \in ChainsOf(s, t) : \A u \in On(s, c) : u < t => \E p \in Parents(s, t) : u <= p /\ p \in On(s, c)
<1>1. \A c \in ChainsOf(s, t) : c \in Chains /\ t \in On(s, c)
  BY TaskChains DEF On
<1>2. ASSUME NEW p \in Parents(s, t) PROVE p \in Tasks /\ \E c \in Chains : t \in On(s, c) /\ p \in On(s, c) /\ p < t
  <2>1. PICK c \in ChainsOf(s, t) : p = GetParent(s, t, c) /\ p # NoTask
    BY DEF Parents
  <2>2. p \in On(s, c) /\ p < t
    BY <1>1, <2>1, ParentFact
  <2>. QED  BY <1>1, <2>2 DEF On
<1>3. ASSUME NEW c \in ChainsOf(s, t), NEW u \in On(s, c), u < t PROVE \E p \in Parents(s, t) : u <= p /\ p \in On(s, c)
  <2> DEFINE p == GetParent(s, t, c)
  <2>1. \/ p = NoTask /\ \A v \in On(s, c) : t <= v
        \/ p \in On(s, c) /\ p < t /\ \A v \in On(s, c) : v < t => v <= p
    BY <1>1, ParentFact
  <2>2. u \in Nat /\ t \in Nat /\ On(s, c) \subseteq Tasks /\ NoTask \notin Tasks
    BY <1>1, Bounds, OnFact
  <2> HIDE DEF p
  <2>3. p \in On(s, c) /\ u <= p /\ p # NoTask
    BY <1>3, <2>1, <2>2
  <2>4. p \in Parents(s, t)
    BY <2>3 DEF Parents, p
  <2>. QED  BY <2>3, <2>4
<1>. QED  BY <1>2, <1>3

\* What is sent leaves the list of tasks to send.
LEMMA QuietShape ==
    ASSUME NEW s, NEW A \in [Tasks -> Nat], SchedInv(s, {}, A), NEW B \in [Tasks -> Nat],
           \A t \in Tasks : B[t] = Att(s, A, t)
    PROVE  LET z == [s EXCEPT !.pending = <<>>]
           IN  /\ SchedInv(z, {}, B) /\ z.state = s.state /\ z.on = s.on /\ z.gen = s.gen
               /\ z.later = s.later /\ z.pending = <<>> /\ z \in Schedulers
<1> DEFINE z == [s EXCEPT !.pending = <<>>]
<1>0. /\ s \in Schedulers /\ s.ok /\ Listed(s) /\ Routed(s) /\ Gens(s) /\ Counted(s) /\ Limits(s)
      /\ Waits(s, {}) /\ Queued(s) /\ Efforts(s, A)
  BY DEF SchedInv
<1>1. /\ z \in Schedulers
      /\ z.state = s.state /\ z.on = s.on /\ z.gen = s.gen /\ z.chain = s.chain /\ z.active = s.active
      /\ z.cgen = s.cgen /\ z.limited = s.limited /\ z.pending = <<>> /\ z.later = s.later /\ z.ok = s.ok
  <2>1. <<>> \in Seq(Tasks)
    OBVIOUS
  <2>. QED  BY <1>0, <2>1 DEF Schedulers
<1> HIDE DEF z
<1>2. \A t \in Tasks : ChainsOf(z, t) = ChainsOf(s, t) /\ (Exists(z, t) <=> Exists(s, t))
  BY <1>1 DEF ChainsOf, Exists
<1>3. \A c \in Chains : On(z, c) = On(s, c) /\ ActiveOn(z, c) = ActiveOn(s, c)
  BY <1>1, <1>2 DEF On, ActiveOn
<1>4. Listed(z) /\ Routed(z) /\ Gens(z) /\ Counted(z) /\ Limits(z)
  <2>1. Listed(z) /\ Routed(z)
    BY <1>0, <1>1, <1>3 DEF Listed, Routed
  <2>2. Gens(z)
    BY <1>0, <1>1, <1>3 DEF Gens
  <2>3. Counted(z) /\ Limits(z)
    BY <1>0, <1>1, <1>3 DEF Counted, Limits
  <2>. QED  BY <2>1, <2>2, <2>3
<1>5. Waits(z, {})
  <2>1. \A t \in Tasks, c \in Chains : (Behind(z, t, c) <=> Behind(s, t, c)) /\ (Full(z, c) <=> Full(s, c))
    BY <1>1 DEF Behind, GetParent, Full
  <2>2. \A t \in Tasks : ChainsOf(s, t) \subseteq Chains
    BY <1>0, TaskChains
  <2>3. \A t \in Tasks : Held(s, t) => Held(z, t)
    BY <1>1, <1>2, <2>1, <2>2 DEF Held
  <2>. QED  BY <1>0, <1>1, <2>3 DEF Waits
<1>6. Range(z.pending) = {}
  BY <1>1 DEF Range
<1>7. Queued(z)
  <2>1. IsInjective(<<>>)
    <3>1. DOMAIN <<>> = {}
      OBVIOUS
    <3>. QED  BY <3>1 DEF IsInjective
  <2>. QED  BY <1>1, <1>6, <2>1 DEF Queued
<1>8. Efforts(z, B)
  <2>1. \A t \in Tasks : Att(z, B, t) = Att(s, A, t)
    BY <1>6 DEF Att
  <2>2. \A c \in Chains : On(s, c) \subseteq Tasks
    BY <1>0, OnFact
  <2>. QED  BY <1>0, <1>1, <1>3, <2>1, <2>2 DEF Efforts
<1>. QED  BY <1>0, <1>1, <1>4, <1>5, <1>7, <1>8 DEF SchedInv, z

\* loop: what is sent comes after its parents, which have been sent at least as often; a task that
\* was sent MaxAttempts times or more is sent again only if one before it failed.
LEMMA LoopKeeps ==
    ASSUME NEW d, NEW at, NEW af, NEW ex, MidInv(d, at, af, ex)
    PROVE  MidInv(Looped(d), NewAttempt(d, at), NewAfter(d, at, af), ex) /\ Looped(d).sched.pending = <<>>
<1> DEFINE s == d.sched
           out == SentBy(d)
           n == NewAttempt(d, at)
           g == NewAfter(d, at, af)
           e == Looped(d)
           z == [s EXCEPT !.pending = <<>>]
<1>0. /\ d \in Dispatchers /\ SchedInv(s, {}, at) /\ s.later = <<>>
      /\ VarsOK(at, af, ex) /\ PlaceOK(d, at) /\ ResultOK(d, at, af, ex) /\ Numbered(s, at, ex)
      /\ Tried(s, at) /\ AfterOK(at, af) /\ Covered(s, at, af) /\ Ordered(s, ex) /\ Bounded(at)
  BY DEF MidInv
<1>1. /\ s \in Schedulers /\ d.place \in [Tasks -> Places] /\ d.result \in [Tasks -> Results]
      /\ d.owed \in [Tasks -> BOOLEAN] /\ at \in [Tasks -> Nat] /\ ex \in [Tasks -> Nat]
      /\ af \in [Tasks -> SUBSET (Tasks \X Nat)]
      /\ \A t \in Tasks : at[t] \in Nat /\ ex[t] \in Nat /\ t \in Nat /\ t >= 1
      /\ MaxAttempts \in Nat /\ MaxAttempts >= 1
  BY <1>0, DispShape, VarsShape
<1>2. out \subseteq Tasks /\ out = Range(s.pending)
  <2>1. s.pending \in Seq(Tasks)
    BY <1>1, SchedShape
  <2>2. \A i \in DOMAIN s.pending : s.pending[i] \in Tasks
    BY <2>1
  <2>. QED  BY <2>2 DEF SentBy, Range
<1>3. /\ n \in [Tasks -> Nat] /\ \A t \in Tasks : n[t] = IF t \in out THEN at[t] + 1 ELSE at[t]
  BY <1>1 DEF NewAttempt
<1>4. \A t \in Tasks : n[t] \in Nat /\ n[t] >= at[t] /\ n[t] <= at[t] + 1
  BY <1>1, <1>3
<1>5. \A t \in Tasks : g[t] = IF t \in out THEN {<<p, n[p]>> : p \in Parents(s, t)} ELSE af[t]
  BY DEF NewAfter
<1>6. /\ SchedInv(z, {}, n) /\ z.state = s.state /\ z.on = s.on /\ z.gen = s.gen
      /\ z.later = s.later /\ z.pending = <<>> /\ z \in Schedulers
  <2>1. \A t \in Tasks : n[t] = Att(s, at, t)
    BY <1>1, <1>2, <1>3 DEF Att
  <2> HIDE DEF n, s
  <2>. QED  BY <1>0, <1>1, <1>3, <2>1, QuietShape
<1>7. /\ e \in Dispatchers /\ e.sched = z
      /\ \A t \in Tasks : e.place[t] = IF t \in out THEN "sent" ELSE d.place[t]
      /\ \A t \in Tasks : e.result[t] = IF t \in out THEN "none" ELSE d.result[t]
  <2> HIDE DEF s
  <2>1. /\ [t \in Tasks |-> IF t \in out THEN "sent" ELSE d.place[t]] \in [Tasks -> Places]
        /\ [t \in Tasks |-> IF t \in out THEN "none" ELSE d.result[t]] \in [Tasks -> Results]
    BY <1>1 DEF Places, Results
  <2>2. e = [sched |-> z, place |-> [t \in Tasks |-> IF t \in out THEN "sent" ELSE d.place[t]],
             result |-> [t \in Tasks |-> IF t \in out THEN "none" ELSE d.result[t]], owed |-> d.owed]
    BY DEF Looped, s
  <2> HIDE DEF e, z, out
  <2>. QED  BY <1>1, <1>6, <2>1, <2>2 DEF Dispatchers
<1>8. /\ \A t \in Tasks : ChainsOf(z, t) = ChainsOf(s, t) /\ Range(z.pending) = {}
  BY <1>6 DEF ChainsOf, Range
<1> HIDE DEF out, n, g, e, z
<1>9. \A t \in out : /\ s.state[t] = "Active" /\ Exists(s, t) /\ d.place[t] = "held" /\ ex[t] = 0
                     /\ at[t] >= MaxAttempts => af[t] # {}
  <2> SUFFICES ASSUME NEW t \in out
               PROVE  /\ s.state[t] = "Active" /\ Exists(s, t) /\ d.place[t] = "held" /\ ex[t] = 0
                      /\ at[t] >= MaxAttempts => af[t] # {}
    OBVIOUS
  <2>1. t \in Tasks /\ s.state[t] = "Active"
    BY <1>0, <1>2 DEF SchedInv, Queued
  <2>2. d.place[t] = "held"
    BY <1>0, <1>2, <2>1 DEF PlaceOK
  <2>3. /\ at[t] >= 1 => d.result[t] \in {"wait", "error"}
        /\ at[t] >= MaxAttempts => af[t] # {}
        /\ d.result[t] = "ok" => at[t] >= 1
        /\ ex[t] # 0 => d.result[t] = "ok"
    BY <1>0, <2>1, <2>2 DEF ResultOK
  <2>4. ex[t] = 0
    BY <2>3
  <2>. QED  BY <2>1, <2>2, <2>3, <2>4 DEF Exists
<1> HIDE DEF s
<1>10. PlaceOK(e, n)
  <2> SUFFICES ASSUME NEW t \in Tasks
               PROVE  /\ e.place[t] = "none" <=> s.state[t] \in {"none", "gone"}
                      /\ e.place[t] = "held" <=> s.state[t] = "Pending"
                      /\ e.place[t] = "sent" => s.state[t] = "Active" /\ n[t] >= 1
                      /\ e.place[t] = "callback" /\ s.state[t] = "Active" => n[t] >= 1
    BY <1>6, <1>7, <1>8 DEF PlaceOK
  <2>1. CASE t \in out
    <3>1. e.place[t] = "sent" /\ s.state[t] = "Active" /\ n[t] = at[t] + 1 /\ at[t] \in Nat
      BY <1>1, <1>3, <1>7, <1>9, <2>1
    <3>. QED  BY <3>1
  <2>2. CASE t \notin out
    <3>1. e.place[t] = d.place[t] /\ n[t] = at[t]
      BY <1>3, <1>7, <2>2
    <3>. QED  BY <1>0, <1>2, <2>2, <3>1 DEF PlaceOK, s
  <2>. QED  BY <2>1, <2>2
<1>11. ResultOK(e, n, g, ex)
  <2> SUFFICES ASSUME NEW t \in Tasks
               PROVE  /\ e.place[t] = "held" /\ n[t] >= 1 => e.result[t] \in {"wait", "error"}
                      /\ e.place[t] = "held" /\ n[t] >= MaxAttempts => g[t] # {}
                      /\ e.place[t] = "callback" \/ s.state[t] = "gone" => e.result[t] \in {"ok", "error"}
                      /\ e.result[t] = "wait" => g[t] # {}
                      /\ e.result[t] = "ok" => ex[t] = n[t] /\ n[t] >= 1
                      /\ ex[t] # 0 => e.result[t] = "ok"
    BY <1>6, <1>7 DEF ResultOK
  <2>1. CASE t \in out
    BY <1>7, <1>9, <2>1
  <2>2. CASE t \notin out
    <3>1. e.place[t] = d.place[t] /\ n[t] = at[t] /\ e.result[t] = d.result[t] /\ g[t] = af[t]
      BY <1>3, <1>5, <1>7, <2>2
    <3>. QED  BY <1>0, <3>1 DEF ResultOK, s
  <2>. QED  BY <2>1, <2>2
<1>12. Numbered(z, n, ex)
  <2>1. \A t \in Tasks : s.state[t] = "none" => n[t] = at[t]
    BY <1>3, <1>9
  <2>. QED  BY <1>0, <1>6, <2>1 DEF Numbered, s
<1>13. Tried(z, n)
  <2>1. \A t \in Tasks : n[t] = 0 => at[t] = 0 /\ t \notin out
    BY <1>1, <1>3
  <2>. QED  BY <1>0, <1>2, <1>6, <2>1 DEF Tried, s
<1>14. ASSUME NEW t \in out, NEW q \in Parents(s, t)
       PROVE  q \in Tasks /\ q < t /\ n[q] \in Nat /\ n[q] >= 1 /\ n[t] <= n[q]
  <2>1. t \in Tasks /\ Exists(s, t) /\ Listed(s)
    BY <1>0, <1>2, <1>9 DEF SchedInv, s
  <2>2. q \in Tasks
    BY <1>1, <2>1, ParentsFact
  <2>3. PICK c \in Chains : t \in On(s, c) /\ q \in On(s, c) /\ q < t
    BY <1>1, <2>1, ParentsFact
  <2>4. Att(s, at, t) <= Att(s, at, q)
    BY <1>0, <2>3 DEF SchedInv, Efforts, s
  <2>5. \A u \in Tasks : n[u] = Att(s, at, u)
    BY <1>1, <1>2, <1>3 DEF Att
  <2>6. n[t] = at[t] + 1 /\ at[t] \in Nat
    BY <1>1, <1>3, <2>1
  <2>7. n[q] \in Nat /\ n[t] <= n[q]
    BY <1>4, <2>1, <2>2, <2>4, <2>5
  <2>. QED  BY <2>2, <2>3, <2>6, <2>7
<1>15. VarsOK(n, g, ex) /\ AfterOK(n, g)
  <2>1. ASSUME NEW t \in Tasks
        PROVE  \A p \in g[t] : p \in Tasks \X Nat /\ p[1] < t /\ p[2] >= 1 /\ p[2] <= n[p[1]] /\ n[t] <= n[p[1]]
    <3> SUFFICES ASSUME NEW p \in g[t]
                 PROVE  p \in Tasks \X Nat /\ p[1] < t /\ p[2] >= 1 /\ p[2] <= n[p[1]] /\ n[t] <= n[p[1]]
      OBVIOUS
    <3>1. CASE t \in out
      <4>1. PICK q \in Parents(s, t) : p = <<q, n[q]>>
        BY <1>5, <3>1
      <4>2. q \in Tasks /\ q < t /\ n[q] \in Nat /\ n[q] >= 1 /\ n[t] <= n[q]
        BY <1>14, <3>1
      <4>. QED  BY <4>1, <4>2
    <3>2. CASE t \notin out
      <4>1. /\ p \in Tasks \X Nat /\ p[1] < t /\ p[2] >= 1 /\ p[2] <= at[p[1]] /\ at[t] <= at[p[1]]
            /\ n[t] = at[t]
        BY <1>0, <1>3, <1>5, <3>2 DEF AfterOK
      <4>2. p[1] \in Tasks /\ p[2] \in Nat
        BY <4>1
      <4>3. n[p[1]] >= at[p[1]] /\ n[p[1]] \in Nat /\ at[p[1]] \in Nat /\ at[t] \in Nat
        BY <1>1, <1>4, <4>2
      <4>. QED  BY <4>1, <4>2, <4>3
    <3>. QED  BY <3>1, <3>2
  <2>2. AfterOK(n, g)
    BY <2>1 DEF AfterOK
  <2>3. g \in [Tasks -> SUBSET (Tasks \X Nat)]
    <3>1. \A t \in Tasks : g[t] \in SUBSET (Tasks \X Nat)
      BY <2>1
    <3>2. g = [t \in Tasks |-> g[t]]
      BY DEF g, NewAfter
    <3>. QED  BY <3>1, <3>2
  <2>. QED  BY <1>1, <1>3, <2>2, <2>3 DEF VarsOK
<1>16. Covered(z, n, g)
  <2> SUFFICES ASSUME NEW t \in Tasks, n[t] >= 1, NEW c \in ChainsOf(s, t), NEW u \in 1 .. t - 1, c \in ChainsOf(s, u)
               PROVE  s.state[u] = "gone" \/ \E p \in g[t] : u <= p[1] /\ c \in ChainsOf(z, p[1])
    <3>1. \A t \in Tasks : \A u \in 1 .. t - 1 : u \in Tasks
      BY Bounds DEF Tasks
    <3>. QED  BY <1>6, <1>8, <3>1 DEF Covered
  <2>0. u \in Tasks /\ u < t
    BY Bounds DEF Tasks
  <2>1. CASE t \in out
    <3>1. s.state[u] # "none"
      <4>1. s.on[u] # <<>>
        BY DEF ChainsOf, Range
      <4>. QED  BY <1>0, <2>0, <4>1 DEF Numbered, s
    <3>2. CASE s.state[u] # "gone"
      <4>1. c \in Chains /\ u \in On(s, c)
        <5>1. s.state[u] \in States
          BY <1>1, <2>0, SchedShape
        <5>2. c \in Chains
          BY <1>1, TaskChains
        <5>. QED  BY <2>0, <3>1, <3>2, <5>1, <5>2 DEF On, Exists, States
      <4>2. Exists(s, t) /\ Listed(s)
        BY <1>0, <1>9, <2>1 DEF SchedInv, s
      <4>3. PICK p \in Parents(s, t) : u <= p /\ p \in On(s, c)
        BY <1>1, <2>0, <4>1, <4>2, ParentsFact
      <4>4. <<p, n[p]>> \in g[t]
        BY <1>5, <2>1
      <4>5. c \in ChainsOf(z, p)
        BY <1>8, <4>3 DEF On
      <4>. QED  BY <4>3, <4>4, <4>5
    <3>. QED  BY <3>2
  <2>2. CASE t \notin out
    <3>1. n[t] = at[t] /\ g[t] = af[t]
      BY <1>3, <1>5, <2>2
    <3>2. s.state[u] = "gone" \/ \E p \in af[t] : u <= p[1] /\ c \in ChainsOf(s, p[1])
      BY <1>0, <3>1 DEF Covered, s
    <3>3. \A p \in af[t] : p[1] \in Tasks
      BY <1>0 DEF AfterOK
    <3>. QED  BY <1>8, <3>1, <3>2, <3>3
  <2>. QED  BY <2>1, <2>2
<1>17. Ordered(z, ex)
  <2>1. \A t \in Tasks : \A u \in 1 .. t - 1 : u \in Tasks
    BY Bounds DEF Tasks
  <2>. QED  BY <1>0, <1>6, <1>8, <2>1 DEF Ordered, s
<1>18. Bounded(n)
  <2> SUFFICES ASSUME NEW t \in Tasks PROVE n[t] < MaxAttempts + t
    BY DEF Bounded
  <2>1. at[t] < MaxAttempts + t /\ at[t] \in Nat /\ t \in Nat /\ t >= 1
    BY <1>0, <1>1 DEF Bounded
  <2>2. CASE t \in out /\ at[t] >= MaxAttempts
    <3>1. PICK p \in af[t] : TRUE
      BY <1>9, <2>2
    <3>2. p[1] \in Tasks /\ p[1] < t /\ at[t] <= at[p[1]]
      BY <1>0 DEF AfterOK
    <3>3. at[p[1]] < MaxAttempts + p[1] /\ at[p[1]] \in Nat /\ p[1] \in Nat
      BY <1>0, <1>1, <3>2 DEF Bounded
    <3>. QED  BY <1>1, <1>4, <2>1, <3>2, <3>3
  <2>3. CASE t \in out /\ ~(at[t] >= MaxAttempts)
    BY <1>1, <1>3, <2>1, <2>3
  <2>4. CASE t \notin out
    BY <1>3, <2>1, <2>4
  <2>. QED  BY <2>2, <2>3, <2>4
<1>19. z.later = <<>> /\ e.sched.pending = <<>>
  BY <1>0, <1>6, <1>7 DEF s
<1>20. MidInv(e, n, g, ex)
  BY <1>6, <1>7, <1>10, <1>11, <1>12, <1>13, <1>15, <1>16, <1>17, <1>18, <1>19 DEF MidInv
<1>. QED  BY <1>19, <1>20 DEF e, n, g

LEMMA InvPrime ==
    ASSUME MidInv(Dispatcher', attempt', after', executed'), sched'.pending = <<>>, flood' \in [Tasks -> BOOLEAN]
    PROVE  DispInv'
BY DEF DispInv

\* A handler that ends in loop().
LEMMA LoopStep ==
    ASSUME NEW d, MidInv(d, attempt, after, executed), flood \in [Tasks -> BOOLEAN], Loop(d)
    PROVE  DispInv'
<1>1. MidInv(Looped(d), NewAttempt(d, attempt), NewAfter(d, attempt, after), executed) /\ Looped(d).sched.pending = <<>>
  BY LoopKeeps
<1>2. d \in Dispatchers /\ PlaceOK(d, attempt) /\ SchedInv(d.sched, {}, attempt)
  BY DEF MidInv
<1>3. d.sched \in Schedulers /\ d.sched.ok /\ IsInjective(d.sched.pending) /\ \A t \in Range(d.sched.pending) : t \in Tasks
  <2>1. d.sched.pending \in Seq(Tasks)
    BY <1>2, SchedShape DEF SchedInv
  <2>2. \A i \in DOMAIN d.sched.pending : d.sched.pending[i] \in Tasks
    BY <2>1
  <2>3. \A t \in Range(d.sched.pending) : t \in Tasks
    BY <2>2 DEF Range
  <2>. QED  BY <1>2, <2>3 DEF SchedInv, Queued
<1>4. \A t \in Range(d.sched.pending) : d.place[t] = "held"
  BY <1>2, <1>3 DEF PlaceOK
<1>5. sched' = Looped(d).sched
  <2> DEFINE h == IsInjective(d.sched.pending) /\ \A t \in Range(d.sched.pending) : d.place[t] = "held"
  <2>1. sched' = [d.sched EXCEPT !.pending = <<>>, !.ok = @ /\ h]
    BY DEF Loop
  <2>2. (d.sched.ok /\ h) = d.sched.ok
    BY <1>3, <1>4, SchedShape
  <2> HIDE DEF h
  <2>3. [d.sched EXCEPT !.pending = <<>>, !.ok = @ /\ h] = [d.sched EXCEPT !.pending = <<>>]
    BY <1>3, <2>2 DEF Schedulers
  <2>. QED  BY <2>1, <2>3 DEF Looped
<1>6. /\ place' = Looped(d).place /\ result' = Looped(d).result /\ owed' = Looped(d).owed
      /\ attempt' = NewAttempt(d, attempt) /\ after' = NewAfter(d, attempt, after) /\ executed' = executed
  BY DEF Loop, Looped, NewAttempt, NewAfter, SentBy
<1>7. Dispatcher' = Looped(d)
  BY <1>5, <1>6 DEF Dispatcher, Looped
<1>8. flood' \in [Tasks -> BOOLEAN]
  BY DEF Loop
<1>. QED  BY <1>1, <1>5, <1>6, <1>7, <1>8, InvPrime

\* A handler that does not.
LEMMA BecomesStep ==
    ASSUME NEW d, MidInv(d, attempt, after, executed), d.sched.pending = <<>>, flood \in [Tasks -> BOOLEAN], Becomes(d)
    PROVE  DispInv'
<1>1. d = [sched |-> d.sched, place |-> d.place, result |-> d.result, owed |-> d.owed]
  BY DispShape DEF MidInv
<1>2. sched' = d.sched /\ place' = d.place /\ result' = d.result /\ owed' = d.owed
      /\ attempt' = attempt /\ after' = after /\ executed' = executed /\ flood' = flood
  BY DEF Becomes
<1>3. Dispatcher' = d
  BY <1>1, <1>2 DEF Dispatcher
<1>. QED  BY <1>2, <1>3, InvPrime

LEMMA SameFields ==
    ASSUME NEW d \in Dispatchers, NEW e \in Dispatchers, d.sched = e.sched, d.place = e.place, d.result = e.result,
           d.owed = e.owed
    PROVE  d = e
BY DEF Dispatchers

\* A query that waited too long is given to its callback.
LEMMA TimedOutKeeps ==
    ASSUME NEW d, NEW at, NEW af, NEW ex, MidInv(d, at, af, ex), d.sched.pending = <<>>,
           NEW t \in Tasks, Exists(d.sched, t), d.result[t] # "ok"
    PROVE  LET e == TimedOut(d, t)
           IN  /\ MidInv(e, at, af, ex)
               /\ d.sched.state[t] = "Pending" => e.sched.pending = <<>>
               /\ \A u \in Tasks \ {t} : e.place[u] = d.place[u] /\ e.result[u] = d.result[u]
<1> DEFINE z == PauseTask(d.sched, t)
           o == [d.owed EXCEPT ![t] = FALSE]
           e == [sched |-> z, place |-> [d.place EXCEPT ![t] = "callback"], result |-> [d.result EXCEPT ![t] = "error"],
                 owed |-> o]
<1>0. d \in Dispatchers /\ SchedInv(d.sched, {}, at) /\ d.sched.later = <<>> /\ at \in [Tasks -> Nat]
  BY VarsShape DEF MidInv
<1>1. d.place \in [Tasks -> Places] /\ d.result \in [Tasks -> Results] /\ d.owed \in [Tasks -> BOOLEAN]
  BY <1>0, DispShape
<1>2. /\ SchedInv(z, {}, at) /\ Runs([d.sched.state EXCEPT ![t] = "Paused"], d.sched.gen, z) /\ z.on = d.sched.on
      /\ d.sched.state[t] = "Pending" => z.pending = <<>>
  BY <1>0, PauseKeeps
<1> HIDE DEF z
<1>3. TimedOut(d, t) = e
  <2>0. z \in Schedulers
    BY <1>2 DEF SchedInv
  <2>1. TimedOut(d, t) = [[d EXCEPT !.sched = z, !.result[t] = "error", !.owed[t] = FALSE] EXCEPT !.place[t] = "callback"]
    BY DEF TimedOut, TryResend, z
  <2>2. /\ TimedOut(d, t) \in Dispatchers /\ TimedOut(d, t).sched = z /\ TimedOut(d, t).owed = o
        /\ TimedOut(d, t).place = [d.place EXCEPT ![t] = "callback"] /\ TimedOut(d, t).result = [d.result EXCEPT ![t] = "error"]
    <3> DEFINE x == [d EXCEPT !.sched = z, !.result[t] = "error", !.owed[t] = FALSE]
    <3>1. /\ x \in Dispatchers /\ x.sched = z /\ x.owed = o /\ x.place = d.place
          /\ x.result = [d.result EXCEPT ![t] = "error"]
      BY <1>0, <1>1, <2>0 DEF Dispatchers, Results
    <3>2. TimedOut(d, t) = [x EXCEPT !.place[t] = "callback"]
      BY <2>1
    <3> HIDE DEF x, o
    <3>. QED  BY <1>1, <3>1, <3>2 DEF Dispatchers, Places
  <2>3. e \in Dispatchers /\ e.sched = z /\ e.owed = o
        /\ e.place = [d.place EXCEPT ![t] = "callback"] /\ e.result = [d.result EXCEPT ![t] = "error"]
    BY <1>1, <2>0 DEF Dispatchers, Places, Results
  <2> HIDE DEF e, o
  <2>. QED  BY <2>2, <2>3, SameFields
<1>4. o \in [Tasks -> BOOLEAN]
  BY <1>1
<1> HIDE DEF o
<1>5. MidInv(e, at, af, ex)
  <2>1. <<"Paused", "callback">> \in {<<"Pending", "held">>, <<"Paused", "callback">>, <<"gone", "none">>}
        /\ "callback" # "held" /\ "error" \in {"ok", "error"}
    OBVIOUS
  <2>. QED  BY <1>2, <1>4, <2>1, StepKeeps
<1>6. \A u \in Tasks \ {t} : e.place[u] = d.place[u] /\ e.result[u] = d.result[u]
  BY <1>1
<1>. QED  BY <1>2, <1>3, <1>5, <1>6

\* A query is sent again.
LEMMA ResendKeeps ==
    ASSUME NEW d, NEW at, NEW af, NEW ex, MidInv(d, at, af, ex), d.sched.pending = <<>>,
           NEW t \in Tasks, Exists(d.sched, t), d.result[t] \in {"wait", "error"}, at[t] >= MaxAttempts => af[t] # {},
           NEW late \in BOOLEAN
    PROVE  MidInv(DoResend(d, t, late), at, af, ex)
<1>1. CASE late /\ d.owed[t]
  <2>1. DoResend(d, t, late) = TimedOut(d, t)
    BY <1>1 DEF DoResend
  <2>. QED  BY <2>1, TimedOutKeeps
<1>2. CASE ~(late /\ d.owed[t])
  <2> DEFINE z == ResetTask(d.sched, t)
             o == [d.owed EXCEPT ![t] = FALSE]
             e == [sched |-> z, place |-> [d.place EXCEPT ![t] = "held"], result |-> [d.result EXCEPT ![t] = d.result[t]],
                   owed |-> o]
  <2>0. d \in Dispatchers /\ SchedInv(d.sched, {}, at) /\ d.sched.later = <<>> /\ at \in [Tasks -> Nat]
    BY VarsShape DEF MidInv
  <2>1. d.place \in [Tasks -> Places] /\ d.result \in [Tasks -> Results] /\ d.owed \in [Tasks -> BOOLEAN]
    BY <2>0, DispShape
  <2>2. /\ SchedInv(z, {}, at) /\ Runs([d.sched.state EXCEPT ![t] = "Pending"], d.sched.gen, z) /\ z.on = d.sched.on
    BY <2>0, ResetKeeps
  <2> HIDE DEF z
  <2>3. DoResend(d, t, late) = e
    <3>1. [d.result EXCEPT ![t] = d.result[t]] = d.result
      BY <2>1
    <3>2. DoResend(d, t, late) = [d EXCEPT !.sched = ResetTask(@, t), !.place[t] = "held", !.owed[t] = FALSE]
      BY <1>2 DEF DoResend
    <3>. QED  BY <2>0, <3>1, <3>2 DEF Dispatchers, z
  <2>4. o \in [Tasks -> BOOLEAN]
    BY <2>1
  <2> HIDE DEF o
  <2>5. MidInv(e, at, af, ex)
    <3>1. <<"Pending", "held">> \in {<<"Pending", "held">>, <<"Paused", "callback">>, <<"gone", "none">>}
          /\ "held" = "held"
      OBVIOUS
    <3>. QED  BY <2>2, <2>4, <3>1, StepKeeps
  <2>. QED  BY <2>3, <2>5
<1>. QED  BY <1>1, <1>2

-----------------------------------------------------------------------------
(* The queries after one that had to wait                                  *)

CheckTimeout(deps, late, x, u) ==
    IF u \notin deps \/ x.place[u] # "held" THEN x
    ELSE IF u \in late THEN TimedOut(x, u) ELSE [x EXCEPT !.owed[u] = FALSE]

\* The recursive function of PassTimeout.
IsChecked(f, deps, late, x, k) ==
    f = [n \in 0 .. k |-> IF n = 0 THEN x ELSE CheckTimeout(deps, late, f[n - 1], n)]

LEMMA CheckedExists == ASSUME NEW deps, NEW late, NEW x, NEW k \in Nat PROVE \E f : IsChecked(f, deps, late, x, k)
<1> DEFINE N == {j \in Nat : \E f : IsChecked(f, deps, late, x, j)}
<1>1. 0 \in N
  <2> DEFINE g == [n \in 0 .. 0 |-> x]
  <2>1. IsChecked(g, deps, late, x, 0)
    BY DEF IsChecked
  <2>. QED  BY <2>1
<1>2. ASSUME NEW j \in Nat, j \in N PROVE j + 1 \in N
  <2>1. PICK f : IsChecked(f, deps, late, x, j)
    BY <1>2
  <2> DEFINE g == [n \in 0 .. j + 1 |-> IF n = j + 1 THEN CheckTimeout(deps, late, f[j], n) ELSE f[n]]
  <2>0. f = [n \in 0 .. j |-> IF n = 0 THEN x ELSE CheckTimeout(deps, late, f[n - 1], n)]
    BY <2>1 DEF IsChecked
  <2>2. ASSUME NEW n \in 0 .. j + 1 PROVE g[n] = IF n = 0 THEN x ELSE CheckTimeout(deps, late, g[n - 1], n)
    <3>1. CASE n = j + 1
      <4>1. g[n] = CheckTimeout(deps, late, f[j], n) /\ g[n - 1] = f[j] /\ n # 0
        BY <3>1
      <4>. QED  BY <3>1, <4>1
    <3>2. CASE n # j + 1 /\ n # 0
      <4>1. n \in 0 .. j /\ n - 1 \in 0 .. j /\ n - 1 # j + 1
        BY <3>2
      <4>2. g[n] = f[n] /\ g[n - 1] = f[n - 1]
        BY <3>2, <4>1
      <4>3. f[n] = CheckTimeout(deps, late, f[n - 1], n)
        BY <2>0, <3>2, <4>1
      <4>. QED  BY <3>2, <4>2, <4>3
    <3>3. CASE n # j + 1 /\ n = 0
      <4>1. g[0] = f[0] /\ f[0] = x
        BY <2>0, <3>3
      <4>. QED  BY <3>3, <4>1
    <3>. QED  BY <3>1, <3>2, <3>3
  <2>3. g = [n \in 0 .. j + 1 |-> g[n]]
    OBVIOUS
  <2> HIDE DEF g
  <2>4. g = [n \in 0 .. j + 1 |-> IF n = 0 THEN x ELSE CheckTimeout(deps, late, g[n - 1], n)]
    BY <2>2, <2>3
  <2>5. IsChecked(g, deps, late, x, j + 1)
    BY <2>4 DEF IsChecked
  <2>. QED  BY <2>5
<1> HIDE DEF N
<1>3. Nat \subseteq N
  BY <1>1, <1>2, NatSetInduction
<1>. QED  BY <1>3 DEF N

Owing(d, deps) == [d EXCEPT !.owed = [u \in Tasks |-> @[u] \/ u \in deps]]

LEMMA PassForm ==
    ASSUME NEW d, NEW t, NEW late
    PROVE  LET deps == Dependents(d.sched, t)
           IN  \E f : /\ f[0] = Owing(d, deps) /\ PassTimeout(d, t, late) = f[MaxTasks]
                      /\ \A n \in 1 .. MaxTasks : f[n] = CheckTimeout(deps, late, f[n - 1], n)
<1> DEFINE deps == Dependents(d.sched, t)
           x == Owing(d, deps)
           f == CHOOSE f : IsChecked(f, deps, late, x, MaxTasks)
<1>1. MaxTasks \in Nat
  BY Bounds
<1>2. IsChecked(f, deps, late, x, MaxTasks)
  BY <1>1, CheckedExists
<1>3. PassTimeout(d, t, late) = f[MaxTasks]
  BY DEF PassTimeout, IsChecked, CheckTimeout, Owing
<1> HIDE DEF f, x, deps
<1>4. f = [n \in 0 .. MaxTasks |-> IF n = 0 THEN x ELSE CheckTimeout(deps, late, f[n - 1], n)]
  BY <1>2 DEF IsChecked
<1>5. f[0] = x
  BY <1>1, <1>4
<1>6. ASSUME NEW n \in 1 .. MaxTasks PROVE f[n] = CheckTimeout(deps, late, f[n - 1], n)
  <2>1. n \in 0 .. MaxTasks /\ n # 0
    BY <1>1
  <2>. QED  BY <1>4, <2>1
<1>. QED  BY <1>3, <1>5, <1>6 DEF deps, x

LEMMA OwedKeeps ==
    ASSUME NEW d, NEW at, NEW af, NEW ex, MidInv(d, at, af, ex), NEW o \in [Tasks -> BOOLEAN]
    PROVE  LET e == [d EXCEPT !.owed = o]
           IN  MidInv(e, at, af, ex) /\ e.sched = d.sched /\ e.place = d.place /\ e.result = d.result
<1> DEFINE e == [d EXCEPT !.owed = o]
<1>1. d \in Dispatchers
  BY DEF MidInv
<1>2. e \in Dispatchers /\ e.sched = d.sched /\ e.place = d.place /\ e.result = d.result
  BY <1>1 DEF Dispatchers
<1> HIDE DEF e
<1>3. PlaceOK(d, at) /\ ResultOK(d, at, af, ex)
  BY DEF MidInv
<1>4. PlaceOK(e, at)
  BY <1>2, <1>3 DEF PlaceOK
<1>5. ResultOK(e, at, af, ex)
  BY <1>2, <1>3 DEF ResultOK
<1>6. MidInv(e, at, af, ex)
  BY <1>2, <1>4, <1>5 DEF MidInv
<1>. QED  BY <1>2, <1>6 DEF e

\* A query that is held is pending and was not executed.
LEMMA HeldFact ==
    ASSUME NEW d, NEW at, NEW af, NEW ex, MidInv(d, at, af, ex), d.sched.pending = <<>>, NEW t \in Tasks, d.place[t] = "held"
    PROVE  d.sched.state[t] = "Pending" /\ Exists(d.sched, t) /\ d.result[t] # "ok"
<1>1. Range(d.sched.pending) = {}
  BY DEF Range
<1>2. d.sched.state[t] = "Pending"
  BY <1>1 DEF MidInv, PlaceOK
<1>3. /\ at[t] >= 1 => d.result[t] \in {"wait", "error"}
      /\ d.result[t] = "ok" => at[t] >= 1
  BY DEF MidInv, ResultOK
<1>. QED  BY <1>2, <1>3 DEF Exists

\* on_result tells the queries after t what it had to wait.
LEMMA PassKeeps ==
    ASSUME NEW d, NEW at, NEW af, NEW ex, MidInv(d, at, af, ex), d.sched.pending = <<>>, NEW t \in Tasks, NEW late
    PROVE  LET e == PassTimeout(d, t, late)
           IN  /\ MidInv(e, at, af, ex) /\ e.sched.pending = <<>>
               /\ e.place[t] = d.place[t] /\ e.result[t] = d.result[t]
<1> DEFINE deps == Dependents(d.sched, t)
           Good(x) == /\ MidInv(x, at, af, ex) /\ x.sched.pending = <<>>
                      /\ x.place[t] = d.place[t] /\ x.result[t] = d.result[t]
<1>0. MaxTasks \in Nat /\ \A u \in deps : u \in Tasks /\ u # t
  BY Bounds DEF Dependents
<1> HIDE DEF deps
<1>1. PICK f : /\ f[0] = Owing(d, deps) /\ PassTimeout(d, t, late) = f[MaxTasks]
               /\ \A n \in 1 .. MaxTasks : f[n] = CheckTimeout(deps, late, f[n - 1], n)
  BY PassForm DEF deps
<1>2. Good(f[0])
  <2> DEFINE o == [u \in Tasks |-> d.owed[u] \/ u \in deps]
  <2>1. o \in [Tasks -> BOOLEAN] /\ f[0] = [d EXCEPT !.owed = o]
    BY <1>1 DEF Owing
  <2> HIDE DEF o
  <2>. QED  BY <2>1, OwedKeeps
<1>3. ASSUME NEW x, Good(x), NEW u \in Tasks PROVE Good(CheckTimeout(deps, late, x, u))
  <2>1. CASE u \notin deps \/ x.place[u] # "held"
    BY <1>3, <2>1 DEF CheckTimeout
  <2>2. CASE u \in deps /\ x.place[u] = "held" /\ u \in late
    <3>1. CheckTimeout(deps, late, x, u) = TimedOut(x, u) /\ u # t
      BY <1>0, <2>2 DEF CheckTimeout
    <3>2. x.sched.state[u] = "Pending" /\ Exists(x.sched, u) /\ x.result[u] # "ok"
      BY <1>3, <2>2, HeldFact
    <3>3. /\ MidInv(TimedOut(x, u), at, af, ex) /\ TimedOut(x, u).sched.pending = <<>>
          /\ \A v \in Tasks \ {u} : TimedOut(x, u).place[v] = x.place[v] /\ TimedOut(x, u).result[v] = x.result[v]
      BY <1>3, <3>2, TimedOutKeeps
    <3>. QED  BY <1>3, <3>1, <3>3
  <2>3. CASE u \in deps /\ x.place[u] = "held" /\ u \notin late
    <3> DEFINE o == [x.owed EXCEPT ![u] = FALSE]
    <3>1. x \in Dispatchers
      BY <1>3 DEF MidInv
    <3>2. o \in [Tasks -> BOOLEAN]
      BY <3>1, DispShape
    <3>3. CheckTimeout(deps, late, x, u) = [x EXCEPT !.owed = o]
      BY <2>3 DEF CheckTimeout
    <3> HIDE DEF o
    <3>. QED  BY <1>3, <3>2, <3>3, OwedKeeps
  <2>. QED  BY <2>1, <2>2, <2>3
<1> DEFINE N == {n \in Nat : n <= MaxTasks => Good(f[n])}
<1>4. 0 \in N
  BY <1>2
<1>5. ASSUME NEW n \in Nat, n \in N PROVE n + 1 \in N
  <2> SUFFICES ASSUME n + 1 <= MaxTasks PROVE Good(f[n + 1])
    OBVIOUS
  <2>1. Good(f[n])
    BY <1>0, <1>5
  <2>2. n + 1 \in 1 .. MaxTasks /\ (n + 1) - 1 = n /\ n + 1 \in Tasks
    BY <1>0 DEF Tasks
  <2>3. f[n + 1] = CheckTimeout(deps, late, f[n], n + 1)
    BY <1>1, <2>2
  <2> HIDE DEF Good
  <2>. QED  BY <1>3, <2>1, <2>2, <2>3
<1>6. Good(f[MaxTasks])
  <2> HIDE DEF N
  <2>1. Nat \subseteq N
    BY <1>4, <1>5, NatSetInduction
  <2>. QED  BY <1>0, <2>1 DEF N
<1>. QED  BY <1>1, <1>6

\* A query that has its answer is given to its callback.
LEMMA CallbackKeeps ==
    ASSUME NEW d, NEW at, NEW af, NEW ex, MidInv(d, at, af, ex), d.sched.pending = <<>>, NEW t \in Tasks,
           d.place[t] = "sent", d.result[t] \in {"ok", "error"}
    PROVE  MidInv(TryResend(d, t), at, af, ex) /\ TryResend(d, t).sched.pending = <<>>
<1> DEFINE e == TryResend(d, t)
<1>1. d \in Dispatchers /\ PlaceOK(d, at) /\ ResultOK(d, at, af, ex)
  BY DEF MidInv
<1>2. /\ e \in Dispatchers /\ e.sched = d.sched /\ e.result = d.result
      /\ e.place[t] = "callback" /\ \A u \in Tasks \ {t} : e.place[u] = d.place[u]
  <2>1. e = [d EXCEPT !.place[t] = "callback"]
    BY DEF TryResend
  <2>. QED  BY <1>1, <2>1 DEF Dispatchers, Places
<1> HIDE DEF e
<1>3. Range(d.sched.pending) = {}
  BY DEF Range
<1>4. PlaceOK(e, at)
  <2> SUFFICES ASSUME NEW u \in Tasks
               PROVE  /\ e.place[u] = "none" <=> d.sched.state[u] \in {"none", "gone"}
                      /\ e.place[u] = "held" <=> d.sched.state[u] = "Pending" \/ u \in Range(d.sched.pending)
                      /\ e.place[u] = "sent" => d.sched.state[u] = "Active" /\ at[u] >= 1
                      /\ e.place[u] = "callback" /\ d.sched.state[u] = "Active" => at[u] >= 1
    BY <1>2 DEF PlaceOK
  <2>1. CASE u = t
    <3>1. d.sched.state[t] = "Active" /\ at[t] >= 1
      BY <1>1 DEF PlaceOK
    <3>. QED  BY <1>2, <1>3, <2>1, <3>1
  <2>2. CASE u # t
    BY <1>1, <1>2, <2>2 DEF PlaceOK
  <2>. QED  BY <2>1, <2>2
<1>5. ResultOK(e, at, af, ex)
  <2> SUFFICES ASSUME NEW u \in Tasks
               PROVE  /\ e.place[u] = "held" /\ at[u] >= 1 => d.result[u] \in {"wait", "error"}
                      /\ e.place[u] = "held" /\ at[u] >= MaxAttempts => af[u] # {}
                      /\ e.place[u] = "callback" \/ d.sched.state[u] = "gone" => d.result[u] \in {"ok", "error"}
                      /\ d.result[u] = "wait" => af[u] # {}
                      /\ d.result[u] = "ok" => ex[u] = at[u] /\ at[u] >= 1
                      /\ ex[u] # 0 => d.result[u] = "ok"
    BY <1>2 DEF ResultOK
  <2>1. CASE u = t
    BY <1>1, <1>2, <2>1 DEF ResultOK
  <2>2. CASE u # t
    BY <1>1, <1>2, <2>2 DEF ResultOK
  <2>. QED  BY <2>1, <2>2
<1>6. MidInv(e, at, af, ex)
  BY <1>2, <1>4, <1>5 DEF MidInv
<1>. QED  BY <1>2, <1>6 DEF e

-----------------------------------------------------------------------------
(* The network and the server                                              *)

\* What is executed comes after all that were before it on its chains.
LEMMA OrderFact ==
    ASSUME NEW d, NEW at, NEW af, NEW ex, MidInv(d, at, af, ex), NEW t \in Tasks, at[t] >= 1,
           \A p \in af[t] : ex[p[1]] = p[2],
           NEW u \in 1 .. t - 1, ChainsOf(d.sched, u) \cap ChainsOf(d.sched, t) # {}
    PROVE  ex[u] # 0 \/ d.sched.state[u] = "gone"
<1>0. /\ VarsOK(at, af, ex) /\ AfterOK(at, af) /\ Covered(d.sched, at, af) /\ Ordered(d.sched, ex)
  BY DEF MidInv
<1>1. PICK c : c \in ChainsOf(d.sched, u) /\ c \in ChainsOf(d.sched, t)
  OBVIOUS
<1>2. CASE d.sched.state[u] = "gone"
  BY <1>2
<1>3. CASE \E p \in af[t] : u <= p[1] /\ c \in ChainsOf(d.sched, p[1])
  <2>1. PICK p \in af[t] : u <= p[1] /\ c \in ChainsOf(d.sched, p[1])
    BY <1>3
  <2>2. p[1] \in Tasks /\ p[2] >= 1 /\ p[1] \in Nat /\ u \in Nat /\ p[2] \in Nat /\ u >= 1
    <3>1. p \in Tasks \X Nat /\ p[2] >= 1
      BY <1>0 DEF AfterOK
    <3>2. Tasks \subseteq Nat
      BY Bounds
    <3>3. u \in Nat /\ u >= 1
      BY <3>2
    <3>. QED  BY <3>1, <3>2, <3>3
  <2>3. ex[p[1]] # 0
    BY <2>2
  <2>4. u = p[1] \/ u \in 1 .. p[1] - 1
    BY <2>1, <2>2
  <2>5. CASE u = p[1]
    BY <2>3, <2>5
  <2>6. CASE u \in 1 .. p[1] - 1
    BY <1>0, <1>1, <2>1, <2>2, <2>3, <2>6 DEF Ordered
  <2>. QED  BY <2>4, <2>5, <2>6
<1>. QED  BY <1>0, <1>1, <1>2, <1>3 DEF Covered

\* An attempt is answered.
LEMMA AnswerKeeps ==
    ASSUME NEW d, NEW at, NEW af, NEW ex, MidInv(d, at, af, ex), NEW t \in Tasks, d.place[t] = "sent", d.result[t] = "none",
           NEW r \in {"ok", "error", "wait"}, r = "wait" => af[t] # {},
           NEW x, x = (IF r = "ok" THEN [ex EXCEPT ![t] = at[t]] ELSE ex), Ordered(d.sched, x)
    PROVE  MidInv([d EXCEPT !.result = [@ EXCEPT ![t] = r]], at, af, x)
<1> DEFINE e == [d EXCEPT !.result = [@ EXCEPT ![t] = r]]
<1>1. /\ d \in Dispatchers /\ PlaceOK(d, at) /\ ResultOK(d, at, af, ex) /\ VarsOK(at, af, ex)
      /\ Numbered(d.sched, at, ex)
  BY DEF MidInv
<1>2. /\ e \in Dispatchers /\ e.sched = d.sched /\ e.place = d.place
      /\ e.result[t] = r /\ \A u \in Tasks \ {t} : e.result[u] = d.result[u]
  <2>1. d.result \in [Tasks -> Results]
    BY <1>1, DispShape
  <2>2. [d.result EXCEPT ![t] = r] \in [Tasks -> Results]
    BY <2>1 DEF Results
  <2>3. e \in Dispatchers /\ e.sched = d.sched /\ e.place = d.place /\ e.result = [d.result EXCEPT ![t] = r]
    BY <1>1, <2>2 DEF Dispatchers
  <2>. QED  BY <2>1, <2>3
<1> HIDE DEF e
<1>3. /\ d.sched.state[t] = "Active" /\ at[t] >= 1
  BY <1>1 DEF PlaceOK
<1>4. /\ at \in [Tasks -> Nat] /\ ex \in [Tasks -> Nat]
  BY <1>1, VarsShape
<1>5. /\ x \in [Tasks -> Nat] /\ x[t] = (IF r = "ok" THEN at[t] ELSE ex[t]) /\ \A u \in Tasks \ {t} : x[u] = ex[u]
  BY <1>4
<1>6. PlaceOK(e, at)
  BY <1>1, <1>2 DEF PlaceOK
<1>7. ResultOK(e, at, af, x)
  <2> SUFFICES ASSUME NEW u \in Tasks
               PROVE  /\ d.place[u] = "held" /\ at[u] >= 1 => e.result[u] \in {"wait", "error"}
                      /\ d.place[u] = "held" /\ at[u] >= MaxAttempts => af[u] # {}
                      /\ d.place[u] = "callback" \/ d.sched.state[u] = "gone" => e.result[u] \in {"ok", "error"}
                      /\ e.result[u] = "wait" => af[u] # {}
                      /\ e.result[u] = "ok" => x[u] = at[u] /\ at[u] >= 1
                      /\ x[u] # 0 => e.result[u] = "ok"
    BY <1>2 DEF ResultOK
  <2>1. CASE u = t
    <3>1. ex[t] = 0
      BY <1>1 DEF ResultOK
    <3>. QED  BY <1>2, <1>3, <1>5, <2>1, <3>1
  <2>2. CASE u # t
    BY <1>1, <1>2, <1>5, <2>2 DEF ResultOK
  <2>. QED  BY <2>1, <2>2
<1>8. Numbered(d.sched, at, x)
  BY <1>1, <1>3, <1>5 DEF Numbered
<1>9. VarsOK(at, af, x)
  BY <1>1, <1>5 DEF VarsOK
<1>10. MidInv(e, at, af, x)
  BY <1>2, <1>6, <1>7, <1>8, <1>9 DEF MidInv
<1>. QED  BY <1>10 DEF e

\* An attempt at the first of its chains is repeated: none that is unfinished is before it.
LEMMA RepeatKeeps ==
    ASSUME NEW d, NEW at, NEW af, NEW ex, MidInv(d, at, af, ex), d.sched.pending = <<>>,
           NEW t \in Tasks, d.place[t] = "sent", d.result[t] = "none", af[t] = {}, at[t] < MaxAttempts
    PROVE  MidInv(d, [at EXCEPT ![t] = @ + 1], af, ex)
<1> DEFINE n == [at EXCEPT ![t] = @ + 1]
           s == d.sched
<1>0. /\ d \in Dispatchers /\ SchedInv(s, {}, at) /\ s.later = <<>>
      /\ VarsOK(at, af, ex) /\ PlaceOK(d, at) /\ ResultOK(d, at, af, ex) /\ Numbered(s, at, ex)
      /\ Tried(s, at) /\ AfterOK(at, af) /\ Covered(s, at, af) /\ Ordered(s, ex) /\ Bounded(at)
  BY DEF MidInv
<1>1. /\ at \in [Tasks -> Nat] /\ ex \in [Tasks -> Nat] /\ MaxAttempts \in Nat
      /\ \A u \in Tasks : at[u] \in Nat /\ u \in Nat /\ u >= 1
  BY <1>0, VarsShape
<1>2. n \in [Tasks -> Nat] /\ n[t] = at[t] + 1 /\ \A u \in Tasks \ {t} : n[u] = at[u]
  BY <1>1
<1> HIDE DEF n
<1>3. \A u \in Tasks : n[u] \in Nat /\ n[u] >= at[u]
  <2> SUFFICES ASSUME NEW u \in Tasks PROVE n[u] \in Nat /\ n[u] >= at[u]
    OBVIOUS
  <2>1. at[u] \in Nat /\ at[t] \in Nat
    BY <1>1
  <2>2. CASE u = t
    BY <1>2, <2>1, <2>2
  <2>3. CASE u # t
    BY <1>2, <2>1, <2>3
  <2>. QED  BY <2>2, <2>3
<1>4. s.state[t] = "Active" /\ at[t] >= 1 /\ ex[t] = 0
  BY <1>0 DEF PlaceOK, ResultOK
<1>5. Range(s.pending) = {}
  BY DEF Range
<1>6. ASSUME NEW c \in Chains, NEW u \in On(s, c), t \in On(s, c), u < t PROVE FALSE
  <2>1. u \in Tasks /\ c \in ChainsOf(s, u) /\ c \in ChainsOf(s, t) /\ s.state[u] # "gone"
    BY <1>6 DEF On, Exists
  <2>2. u \in 1 .. t - 1
    BY <1>1, <1>6, <2>1
  <2>. QED  BY <1>0, <1>4, <2>1, <2>2 DEF Covered
<1>7. SchedInv(s, {}, n)
  <2>1. Efforts(s, n)
    <3> SUFFICES ASSUME NEW c \in Chains, NEW u \in On(s, c), NEW v \in On(s, c), u < v
                 PROVE  Att(s, n, v) <= Att(s, n, u) /\ (s.gen[v][c] < s.gen[u][c] => Att(s, n, v) < Att(s, n, u))
      BY DEF Efforts
    <3>1. \A w \in Tasks : Att(s, at, w) = at[w] /\ Att(s, n, w) = n[w]
      BY <1>1, <1>3, <1>5 DEF Att
    <3>2. v # t /\ u \in Tasks /\ v \in Tasks
      BY <1>6 DEF On
    <3>3. Att(s, at, v) <= Att(s, at, u) /\ (s.gen[v][c] < s.gen[u][c] => Att(s, at, v) < Att(s, at, u))
      BY <1>0 DEF SchedInv, Efforts
    <3>4. n[v] = at[v] /\ n[u] >= at[u] /\ n[u] \in Nat /\ at[u] \in Nat /\ at[v] \in Nat
      BY <1>1, <1>2, <1>3, <3>2
    <3>. QED  BY <3>1, <3>2, <3>3, <3>4
  <2>. QED  BY <1>0, <2>1 DEF SchedInv
<1>8. PlaceOK(d, n)
  <2>1. \A u \in Tasks : at[u] >= 1 => n[u] >= 1
    BY <1>1, <1>3
  <2>. QED  BY <1>0, <2>1 DEF PlaceOK
<1>9. ResultOK(d, n, af, ex)
  <2> SUFFICES ASSUME NEW u \in Tasks
               PROVE  /\ d.place[u] = "held" /\ n[u] >= 1 => d.result[u] \in {"wait", "error"}
                      /\ d.place[u] = "held" /\ n[u] >= MaxAttempts => af[u] # {}
                      /\ d.place[u] = "callback" \/ d.sched.state[u] = "gone" => d.result[u] \in {"ok", "error"}
                      /\ d.result[u] = "wait" => af[u] # {}
                      /\ d.result[u] = "ok" => ex[u] = n[u] /\ n[u] >= 1
                      /\ ex[u] # 0 => d.result[u] = "ok"
    BY DEF ResultOK
  <2>1. CASE u = t
    BY <1>4, <2>1
  <2>2. CASE u # t
    BY <1>0, <1>2, <2>2 DEF ResultOK
  <2>. QED  BY <2>1, <2>2
<1>10. Numbered(s, n, ex)
  BY <1>0, <1>2, <1>4 DEF Numbered
<1>11. Tried(s, n)
  <2>1. \A u \in Tasks : n[u] = 0 => at[u] = 0
    BY <1>1, <1>3
  <2>. QED  BY <1>0, <2>1 DEF Tried
<1>12. AfterOK(n, af)
  <2> SUFFICES ASSUME NEW u \in Tasks, NEW p \in af[u]
               PROVE  p \in Tasks \X Nat /\ p[1] < u /\ p[2] >= 1 /\ p[2] <= n[p[1]] /\ n[u] <= n[p[1]]
    BY DEF AfterOK
  <2>1. p \in Tasks \X Nat /\ p[1] < u /\ p[2] >= 1 /\ p[2] <= at[p[1]] /\ at[u] <= at[p[1]]
    BY <1>0 DEF AfterOK
  <2>2. u # t /\ p[1] \in Tasks /\ p[2] \in Nat
    BY <2>1
  <2>3. n[u] = at[u] /\ n[p[1]] >= at[p[1]] /\ n[p[1]] \in Nat /\ at[p[1]] \in Nat /\ at[u] \in Nat
    BY <1>1, <1>2, <1>3, <2>2
  <2>. QED  BY <2>1, <2>2, <2>3
<1>13. Covered(s, n, af)
  <2>1. \A u \in Tasks : n[u] >= 1 => at[u] >= 1
    BY <1>2, <1>4
  <2>. QED  BY <1>0, <2>1 DEF Covered
<1>14. Bounded(n)
  <2> SUFFICES ASSUME NEW u \in Tasks PROVE n[u] < MaxAttempts + u
    BY DEF Bounded
  <2>1. at[u] \in Nat /\ at[t] \in Nat /\ u \in Nat /\ u >= 1 /\ at[u] < MaxAttempts + u
    BY <1>0, <1>1 DEF Bounded
  <2>2. CASE u = t
    BY <1>1, <1>2, <2>1, <2>2
  <2>3. CASE u # t
    BY <1>2, <2>1, <2>3
  <2>. QED  BY <2>2, <2>3
<1>15. VarsOK(n, af, ex)
  BY <1>0, <1>2 DEF VarsOK
<1>. QED  BY <1>0, <1>7, <1>8, <1>9, <1>10, <1>11, <1>12, <1>13, <1>14, <1>15 DEF MidInv, n

-----------------------------------------------------------------------------
(* The actions                                                             *)

LEMMA DispatcherFields ==
    /\ Dispatcher.sched = sched /\ Dispatcher.place = place /\ Dispatcher.result = result /\ Dispatcher.owed = owed
BY DEF Dispatcher

LEMMA InvFacts ==
    ASSUME DispInv
    PROVE  /\ MidInv(Dispatcher, attempt, after, executed) /\ sched.pending = <<>> /\ Dispatcher.sched.pending = <<>>
           /\ flood \in [Tasks -> BOOLEAN] /\ Range(sched.pending) = {}
           /\ sched \in Schedulers /\ place \in [Tasks -> Places] /\ result \in [Tasks -> Results]
           /\ VarsOK(attempt, after, executed) /\ PlaceOK(Dispatcher, attempt)
           /\ ResultOK(Dispatcher, attempt, after, executed)
           /\ \A t \in Tasks : place[t] \in {"sent", "callback"} => Exists(sched, t)
<1>1. MidInv(Dispatcher, attempt, after, executed) /\ sched.pending = <<>> /\ flood \in [Tasks -> BOOLEAN]
  BY DEF DispInv
<1>2. /\ Dispatcher \in Dispatchers /\ VarsOK(attempt, after, executed) /\ PlaceOK(Dispatcher, attempt)
      /\ ResultOK(Dispatcher, attempt, after, executed)
  BY <1>1 DEF MidInv
<1>3. sched \in Schedulers /\ place \in [Tasks -> Places] /\ result \in [Tasks -> Results]
  BY <1>2, DispShape, DispatcherFields
<1>4. \A t \in Tasks : place[t] \in {"sent", "callback"} => Exists(sched, t)
  <2>1. \A t \in Tasks : /\ sched.state[t] \in States
                         /\ place[t] = "none" <=> sched.state[t] \in {"none", "gone"}
    BY <1>2, <1>3, SchedShape, DispatcherFields DEF PlaceOK
  <2>. QED  BY <2>1 DEF States, Exists
<1>5. Range(sched.pending) = {}
  BY <1>1 DEF Range
<1>. QED  BY <1>1, <1>2, <1>3, <1>4, <1>5, DispatcherFields

LEMMA InitInv == ASSUME Init PROVE DispInv
<1>0. /\ sched = NewScheduler /\ place = [t \in Tasks |-> "none"] /\ attempt = [t \in Tasks |-> 0]
      /\ after = [t \in Tasks |-> {}] /\ result = [t \in Tasks |-> "none"] /\ flood = [t \in Tasks |-> FALSE]
      /\ owed = [t \in Tasks |-> FALSE] /\ executed = [t \in Tasks |-> 0]
  BY DEF Init
<1>1. /\ sched.state = [t \in Tasks |-> "none"] /\ sched.on = [t \in Tasks |-> <<>>]
      /\ sched.gen = [t \in Tasks |-> [c \in Chains |-> 0]] /\ sched.chain = [c \in Chains |-> <<>>]
      /\ sched.active = [c \in Chains |-> 0] /\ sched.cgen = [c \in Chains |-> 1]
      /\ sched.limited = [c \in Chains |-> NoTask] /\ sched.pending = <<>> /\ sched.later = <<>> /\ sched.ok = TRUE
  BY <1>0 DEF NewScheduler
<1>2. sched \in Schedulers
  <2>1. <<>> \in Seq(Tasks) /\ <<>> \in Seq(Tasks \cup {NoTask})
    OBVIOUS
  <2>. QED  BY <1>0, <2>1 DEF NewScheduler, Schedulers, States
<1>3. \A t \in Tasks : sched.state[t] = "none" /\ ~Exists(sched, t)
  BY <1>1 DEF Exists
<1>4. \A c \in Chains : On(sched, c) = {} /\ ActiveOn(sched, c) = {}
  BY <1>3 DEF On, ActiveOn
<1>5. Range(<<>>) = {} /\ IsInjective(<<>>) /\ Increasing(<<>>)
  <2>1. DOMAIN <<>> = {}
    OBVIOUS
  <2>. QED  BY <2>1 DEF Range, IsInjective, Increasing
<1>6. SchedInv(sched, {}, attempt)
  <2>1. Listed(sched) /\ Routed(sched)
    BY <1>1, <1>3, <1>4, <1>5 DEF Listed, Routed
  <2>2. Gens(sched) /\ Efforts(sched, attempt)
    BY <1>4 DEF Gens, Efforts
  <2>3. Counted(sched)
    <3>1. Cardinality({}) = 0
      BY FS_EmptySet
    <3>2. 0 <= MaxActive
      BY Bounds
    <3>3. \A c \in Chains : sched.active[c] = 0
      BY <1>1
    <3>. QED  BY <1>4, <3>1, <3>2, <3>3 DEF Counted
  <2>4. Limits(sched) /\ Waits(sched, {}) /\ Queued(sched)
    BY <1>1, <1>3, <1>5 DEF Limits, Waits, Queued
  <2>. QED  BY <1>1, <1>2, <2>1, <2>2, <2>3, <2>4 DEF SchedInv
<1>7. VarsOK(attempt, after, executed)
  BY <1>0 DEF VarsOK
<1>8. PlaceOK(Dispatcher, attempt)
  BY <1>0, <1>1, <1>3, <1>5, DispatcherFields DEF PlaceOK
<1>9. ResultOK(Dispatcher, attempt, after, executed)
  BY <1>0, <1>3, DispatcherFields DEF ResultOK
<1>10. Numbered(sched, attempt, executed) /\ Tried(sched, attempt)
  BY <1>0, <1>1, <1>3 DEF Numbered, Tried
<1>11. AfterOK(attempt, after) /\ Covered(sched, attempt, after) /\ Ordered(sched, executed)
  BY <1>0 DEF AfterOK, Covered, Ordered
<1>12. Bounded(attempt)
  BY <1>0, Bounds DEF Bounded
<1>13. Dispatcher \in Dispatchers
  BY <1>0, <1>2 DEF Dispatcher, Dispatchers, Places, Results
<1>14. MidInv(Dispatcher, attempt, after, executed)
  BY <1>1, <1>6, <1>7, <1>8, <1>9, <1>10, <1>11, <1>12, <1>13, DispatcherFields DEF MidInv
<1>. QED  BY <1>0, <1>1, <1>14 DEF DispInv

LEMMA SendInv == ASSUME DispInv, NEW r \in Routes, Send(r) PROVE DispInv'
<1>1. PICK t \in Tasks :
          /\ sched.state[t] = "none" /\ \A u \in 1 .. t - 1 : sched.state[u] # "none"
          /\ Loop([Dispatcher EXCEPT !.sched = CreateTask(@, t, r), !.place[t] = "held"])
  BY DEF Send
<1>2. MidInv([Dispatcher EXCEPT !.sched = CreateTask(@, t, r), !.place[t] = "held"], attempt, after, executed)
  BY <1>1, InvFacts, DispatcherFields, EnterKeeps
<1>. QED  BY <1>1, <1>2, InvFacts, LoopStep

LEMMA OnResultInv == ASSUME DispInv, NEW t \in Tasks, OnResult(t) PROVE DispInv'
<1>0. place[t] = "sent" /\ result[t] # "none" /\ result[t] \in Results
  BY InvFacts DEF OnResult
<1>1. PICK late :
          LET d == IF flood[t] THEN PassTimeout(Dispatcher, t, late) ELSE Dispatcher
          IN  IF result[t] = "wait" THEN Loop(DoResend(d, t, t \in late)) ELSE Becomes(TryResend(d, t))
  BY DEF OnResult
<1> DEFINE d == IF flood[t] THEN PassTimeout(Dispatcher, t, late) ELSE Dispatcher
<1>2. /\ MidInv(d, attempt, after, executed) /\ d.sched.pending = <<>> /\ d.place[t] = "sent" /\ d.result[t] = result[t]
  <2>1. CASE flood[t]
    <3>1. d = PassTimeout(Dispatcher, t, late)
      BY <2>1
    <3>2. /\ MidInv(PassTimeout(Dispatcher, t, late), attempt, after, executed)
          /\ PassTimeout(Dispatcher, t, late).sched.pending = <<>>
          /\ PassTimeout(Dispatcher, t, late).place[t] = Dispatcher.place[t]
          /\ PassTimeout(Dispatcher, t, late).result[t] = Dispatcher.result[t]
      BY InvFacts, PassKeeps
    <3>. QED  BY <1>0, <3>1, <3>2, DispatcherFields
  <2>2. CASE ~flood[t]
    <3>1. d = Dispatcher
      BY <2>2
    <3>. QED  BY <1>0, <3>1, InvFacts, DispatcherFields
  <2>. QED  BY <2>1, <2>2
<1>3. IF result[t] = "wait" THEN Loop(DoResend(d, t, t \in late)) ELSE Becomes(TryResend(d, t))
  BY <1>1
<1> HIDE DEF d
<1>4. CASE result[t] = "wait"
  <2>1. Exists(d.sched, t) /\ after[t] # {}
    <3>1. d.sched.state[t] = "Active"
      BY <1>2 DEF MidInv, PlaceOK
    <3>2. after[t] # {}
      BY <1>2, <1>4 DEF MidInv, ResultOK
    <3>. QED  BY <3>1, <3>2 DEF Exists
  <2>2. (t \in late) \in BOOLEAN
    OBVIOUS
  <2>3. MidInv(DoResend(d, t, t \in late), attempt, after, executed)
    BY <1>2, <1>4, <2>1, <2>2, ResendKeeps
  <2>. QED  BY <1>3, <1>4, <2>3, InvFacts, LoopStep
<1>5. CASE result[t] # "wait"
  <2>1. d.result[t] \in {"ok", "error"}
    BY <1>0, <1>2, <1>5 DEF Results
  <2>2. MidInv(TryResend(d, t), attempt, after, executed) /\ TryResend(d, t).sched.pending = <<>>
    BY <1>2, <2>1, CallbackKeeps
  <2>. QED  BY <1>3, <1>5, <2>2, InvFacts, BecomesStep
<1>. QED  BY <1>4, <1>5

LEMMA OnResendInv == ASSUME DispInv, NEW t \in Tasks, NEW again \in BOOLEAN, OnResend(t, again) PROVE DispInv'
<1>0. place[t] = "callback" /\ (again => result[t] = "error" /\ attempt[t] < MaxAttempts) /\ Exists(sched, t)
  BY InvFacts DEF OnResend
<1>1. CASE again
  <2>1. PICK late \in BOOLEAN : Loop(DoResend(Dispatcher, t, late))
    BY <1>1 DEF OnResend
  <2>2. attempt[t] \in Nat /\ MaxAttempts \in Nat /\ ~(attempt[t] >= MaxAttempts)
    BY <1>0, <1>1, InvFacts, VarsShape
  <2>3. MidInv(DoResend(Dispatcher, t, late), attempt, after, executed)
    BY <1>0, <1>1, <2>2, InvFacts, DispatcherFields, ResendKeeps
  <2>. QED  BY <2>1, <2>3, InvFacts, LoopStep
<1>2. CASE ~again
  <2> DEFINE e == [Dispatcher EXCEPT !.sched = FinishTask(@, t), !.place[t] = "none"]
             z == FinishTask(sched, t)
             x == [sched |-> z, place |-> [Dispatcher.place EXCEPT ![t] = "none"],
                   result |-> [Dispatcher.result EXCEPT ![t] = Dispatcher.result[t]], owed |-> Dispatcher.owed]
  <2>1. Loop(e)
    BY <1>2 DEF OnResend
  <2>0. /\ Dispatcher \in Dispatchers /\ SchedInv(sched, {}, attempt) /\ sched.later = <<>> /\ attempt \in [Tasks -> Nat]
        /\ Dispatcher.owed \in [Tasks -> BOOLEAN] /\ sched.pending = <<>>
    BY InvFacts, DispatcherFields, VarsShape, DispShape DEF MidInv
  <2>2. /\ SchedInv(z, {}, attempt) /\ Runs([sched.state EXCEPT ![t] = "gone"], sched.gen, z) /\ z.on = sched.on
    BY <1>0, <2>0, FinishKeeps
  <2> HIDE DEF z
  <2>3. e = x
    <3>0. z \in Schedulers
      BY <2>2 DEF SchedInv
    <3>1. e = [Dispatcher EXCEPT !.sched = z, !.place[t] = "none"]
      BY DispatcherFields DEF z
    <3>2. /\ e \in Dispatchers /\ e.sched = z /\ e.place = [Dispatcher.place EXCEPT ![t] = "none"]
          /\ e.result = Dispatcher.result /\ e.owed = Dispatcher.owed
      BY <2>0, <3>0, <3>1 DEF Dispatchers, Places
    <3>3. [Dispatcher.result EXCEPT ![t] = Dispatcher.result[t]] = Dispatcher.result
      BY <2>0, DispShape
    <3>4. x \in Dispatchers /\ x.sched = z /\ x.place = [Dispatcher.place EXCEPT ![t] = "none"]
          /\ x.result = Dispatcher.result /\ x.owed = Dispatcher.owed
      <4>1. [Dispatcher.place EXCEPT ![t] = "none"] \in [Tasks -> Places] /\ Dispatcher.result \in [Tasks -> Results]
        BY <2>0, DispShape DEF Places
      <4>. QED  BY <2>0, <3>0, <3>3, <4>1 DEF Dispatchers
    <3> HIDE DEF e, x
    <3>. QED  BY <3>2, <3>4, SameFields
  <2>4. Dispatcher.result[t] \in {"ok", "error"}
    BY <1>0, InvFacts, DispatcherFields DEF ResultOK
  <2>5. MidInv(x, attempt, after, executed)
    <3>1. <<"gone", "none">> \in {<<"Pending", "held">>, <<"Paused", "callback">>, <<"gone", "none">>} /\ "none" # "held"
      OBVIOUS
    <3>2. /\ MidInv(Dispatcher, attempt, after, executed) /\ Dispatcher.sched.pending = <<>> /\ Exists(Dispatcher.sched, t)
          /\ Runs([Dispatcher.sched.state EXCEPT ![t] = "gone"], Dispatcher.sched.gen, z) /\ z.on = Dispatcher.sched.on
      BY <1>0, <2>2, InvFacts, DispatcherFields
    <3>. QED  BY <2>0, <2>2, <2>4, <3>1, <3>2, StepKeeps
  <2>6. MidInv(e, attempt, after, executed)
    BY <2>3, <2>5
  <2> HIDE DEF e
  <2>. QED  BY <2>1, <2>6, InvFacts, LoopStep
<1>. QED  BY <1>1, <1>2

\* The step in which it is.
LEMMA AnsweredStep ==
    ASSUME DispInv, NEW t \in Tasks, InFlight(t), NEW r \in {"ok", "error", "wait"}, r = "wait" => after[t] # {},
           NEW x, x = (IF r = "ok" THEN [executed EXCEPT ![t] = attempt[t]] ELSE executed), Ordered(sched, x),
           result' = [result EXCEPT ![t] = r], executed' = x, flood' \in [Tasks -> BOOLEAN],
           sched' = sched, place' = place, attempt' = attempt, after' = after, owed' = owed
    PROVE  DispInv'
<1>1. place[t] = "sent" /\ result[t] = "none"
  BY DEF InFlight
<1>2. MidInv([Dispatcher EXCEPT !.result = [@ EXCEPT ![t] = r]], attempt, after, x)
  BY <1>1, InvFacts, DispatcherFields, AnswerKeeps
<1>3. Dispatcher' = [Dispatcher EXCEPT !.result = [@ EXCEPT ![t] = r]]
  BY DEF Dispatcher
<1>4. MidInv(Dispatcher', attempt', after', executed')
  BY <1>2, <1>3
<1>5. sched'.pending = <<>>
  BY InvFacts
<1>. QED  BY <1>4, <1>5, InvPrime

LEMMA OrderedFact == ASSUME DispInv PROVE Ordered(sched, executed)
BY DispatcherFields DEF DispInv, MidInv

\* Those before a query that is executed were executed or given up.
LEMMA ExecuteFact ==
    ASSUME DispInv, NEW t \in Tasks, Execute(t)
    PROVE  /\ executed[t] = 0
           /\ \A u \in 1 .. t - 1 : ChainsOf(sched, u) \cap ChainsOf(sched, t) # {} =>
                executed[u] # 0 \/ sched.state[u] = "gone"
<1>1. place[t] = "sent" /\ result[t] = "none" /\ \A p \in after[t] : executed[p[1]] = p[2]
  BY DEF Execute, InFlight
<1>2. executed[t] = 0 /\ attempt[t] >= 1
  BY <1>1, InvFacts, DispatcherFields DEF PlaceOK, ResultOK
<1>3. ASSUME NEW u \in 1 .. t - 1, ChainsOf(sched, u) \cap ChainsOf(sched, t) # {}
      PROVE  executed[u] # 0 \/ sched.state[u] = "gone"
  <2>1. ChainsOf(Dispatcher.sched, u) \cap ChainsOf(Dispatcher.sched, t) # {}
    BY <1>3, DispatcherFields
  <2>2. MidInv(Dispatcher, attempt, after, executed)
    BY InvFacts
  <2>3. executed[u] # 0 \/ Dispatcher.sched.state[u] = "gone"
    BY <1>1, <1>2, <2>1, <2>2, OrderFact
  <2>. QED  BY <2>3, DispatcherFields
<1>. QED  BY <1>2, <1>3

LEMMA ExecuteInv == ASSUME DispInv, NEW t \in Tasks, Execute(t) PROVE DispInv'
<1> DEFINE x == [executed EXCEPT ![t] = attempt[t]]
<1>1. /\ InFlight(t) /\ executed' = x /\ result' = [result EXCEPT ![t] = "ok"] /\ flood' = flood
      /\ sched' = sched /\ place' = place /\ attempt' = attempt /\ after' = after /\ owed' = owed
  BY DEF Execute, Answered
<1>2. executed \in [Tasks -> Nat] /\ attempt[t] \in Nat /\ attempt[t] >= 1 /\ \A u \in Tasks : u \in Nat
  BY <1>1, InvFacts, VarsShape, DispatcherFields DEF PlaceOK, InFlight
<1>3. x[t] = attempt[t] /\ \A u \in Tasks \ {t} : x[u] = executed[u]
  BY <1>2
<1>4. x = (IF "ok" = "ok" THEN [executed EXCEPT ![t] = attempt[t]] ELSE executed)
  OBVIOUS
<1> HIDE DEF x
<1>5. Ordered(sched, x)
  <2> SUFFICES ASSUME NEW v \in Tasks, x[v] # 0, NEW u \in 1 .. v - 1, ChainsOf(sched, u) \cap ChainsOf(sched, v) # {}
               PROVE  x[u] # 0 \/ sched.state[u] = "gone"
    BY DEF Ordered
  <2>1. u \in Tasks
    BY Bounds DEF Tasks
  <2>2. executed[u] # 0 \/ sched.state[u] = "gone"
    <3>1. CASE v = t
      BY <3>1, ExecuteFact
    <3>2. CASE v # t
      BY <1>3, <3>2, OrderedFact DEF Ordered
    <3>. QED  BY <3>1, <3>2
  <2>3. executed[u] # 0 => x[u] # 0
    BY <1>2, <1>3, <2>1
  <2>. QED  BY <2>2, <2>3
<1>6. flood' \in [Tasks -> BOOLEAN]
  BY <1>1, InvFacts
<1>. QED  BY <1>1, <1>4, <1>5, <1>6, AnsweredStep

LEMMA WaitFailsInv == ASSUME DispInv, NEW t \in Tasks, WaitFails(t) PROVE DispInv'
<1>1. /\ InFlight(t) /\ executed' = executed /\ result' = [result EXCEPT ![t] = "wait"] /\ flood' = flood
      /\ sched' = sched /\ place' = place /\ attempt' = attempt /\ after' = after /\ owed' = owed
      /\ after[t] # {}
  BY DEF WaitFails, Answered
<1>2. executed = (IF "wait" = "ok" THEN [executed EXCEPT ![t] = attempt[t]] ELSE executed)
  OBVIOUS
<1>3. flood' \in [Tasks -> BOOLEAN]
  BY <1>1, InvFacts
<1>. QED  BY <1>1, <1>2, <1>3, OrderedFact, AnsweredStep

LEMMA FloodType ==
    ASSUME DispInv, NEW t \in Tasks, NEW f \in BOOLEAN, flood' = [flood EXCEPT ![t] = @ \/ f]
    PROVE  flood' \in [Tasks -> BOOLEAN]
<1>1. flood \in [Tasks -> BOOLEAN]
  BY InvFacts
<1>2. (flood[t] \/ f) \in BOOLEAN
  OBVIOUS
<1>. QED  BY <1>1, <1>2

LEMMA RefuseInv == ASSUME DispInv, NEW t \in Tasks, Refuse(t) PROVE DispInv'
<1>1. /\ InFlight(t) /\ executed' = executed /\ result' = [result EXCEPT ![t] = "error"]
      /\ sched' = sched /\ place' = place /\ attempt' = attempt /\ after' = after /\ owed' = owed
      /\ \E f \in BOOLEAN : flood' = [flood EXCEPT ![t] = @ \/ f]
  BY DEF Refuse, Answered
<1>2. executed = (IF "error" = "ok" THEN [executed EXCEPT ![t] = attempt[t]] ELSE executed)
  OBVIOUS
<1>3. flood' \in [Tasks -> BOOLEAN]
  BY <1>1, FloodType
<1>. QED  BY <1>1, <1>2, <1>3, OrderedFact, AnsweredStep

LEMMA RetryInv == ASSUME DispInv, NEW t \in Tasks, Retry(t) PROVE DispInv'
<1>1. /\ InFlight(t) /\ attempt[t] < MaxAttempts /\ \E f \in BOOLEAN : flood' = [flood EXCEPT ![t] = @ \/ f]
      /\ sched' = sched /\ place' = place /\ after' = after /\ owed' = owed /\ executed' = executed
  BY DEF Retry
<1>2. flood' \in [Tasks -> BOOLEAN]
  BY <1>1, FloodType
<1>3. CASE after[t] # {}
  <2>1. result' = [result EXCEPT ![t] = "wait"] /\ attempt' = attempt
    BY <1>3 DEF Retry
  <2>2. executed = (IF "wait" = "ok" THEN [executed EXCEPT ![t] = attempt[t]] ELSE executed)
    OBVIOUS
  <2>. QED  BY <1>1, <1>2, <1>3, <2>1, <2>2, OrderedFact, AnsweredStep
<1>4. CASE after[t] = {}
  <2>1. result' = result /\ attempt' = [attempt EXCEPT ![t] = @ + 1]
    BY <1>4 DEF Retry
  <2>2. place[t] = "sent" /\ result[t] = "none"
    BY <1>1 DEF InFlight
  <2>3. MidInv(Dispatcher, [attempt EXCEPT ![t] = @ + 1], after, executed)
    BY <1>1, <1>4, <2>2, InvFacts, DispatcherFields, RepeatKeeps
  <2>4. Dispatcher' = Dispatcher
    BY <1>1, <2>1 DEF Dispatcher
  <2>5. MidInv(Dispatcher', attempt', after', executed') /\ sched'.pending = <<>>
    BY <1>1, <2>1, <2>3, <2>4, InvFacts
  <2>. QED  BY <1>2, <2>5, InvPrime
<1>. QED  BY <1>3, <1>4

LEMMA NextInv == ASSUME DispInv, [Next]_vars PROVE DispInv'
<1>1. CASE UNCHANGED vars
  <2>1. /\ sched' = sched /\ place' = place /\ attempt' = attempt /\ after' = after /\ result' = result
        /\ flood' = flood /\ owed' = owed /\ executed' = executed
    BY <1>1 DEF vars
  <2>2. Dispatcher' = Dispatcher
    BY <2>1 DEF Dispatcher
  <2>3. MidInv(Dispatcher', attempt', after', executed') /\ sched'.pending = <<>> /\ flood' \in [Tasks -> BOOLEAN]
    BY <2>1, <2>2, InvFacts
  <2>. QED  BY <2>3, InvPrime
<1>2. ASSUME NEW r \in Routes, Send(r) PROVE DispInv'
  BY <1>2, SendInv
<1>3. ASSUME NEW t \in Tasks, OnResult(t) PROVE DispInv'
  BY <1>3, OnResultInv
<1>4. ASSUME NEW t \in Tasks, OnResend(t, TRUE) \/ OnResend(t, FALSE) PROVE DispInv'
  <2>1. TRUE \in BOOLEAN /\ FALSE \in BOOLEAN
    OBVIOUS
  <2>2. CASE OnResend(t, TRUE)
    BY <2>1, <2>2, OnResendInv
  <2>3. CASE OnResend(t, FALSE)
    BY <2>1, <2>3, OnResendInv
  <2>. QED  BY <1>4, <2>2, <2>3
<1>5. ASSUME NEW t \in Tasks, Execute(t) PROVE DispInv'
  BY <1>5, ExecuteInv
<1>6. ASSUME NEW t \in Tasks, WaitFails(t) PROVE DispInv'
  BY <1>6, WaitFailsInv
<1>7. ASSUME NEW t \in Tasks, Refuse(t) PROVE DispInv'
  BY <1>7, RefuseInv
<1>8. ASSUME NEW t \in Tasks, Retry(t) PROVE DispInv'
  BY <1>8, RetryInv
<1>. QED  BY <1>1, <1>2, <1>3, <1>4, <1>5, <1>6, <1>7, <1>8 DEF Next

\* The invariant holds: every handler of MultiSequenceDispatcherImpl, with all that it makes
\* ChainScheduler do, and whatever the network does, keeps it.
THEOREM DispatcherInvariant == Spec => []DispInv
<1>1. Init => DispInv
  BY InitInv
<1>2. DispInv /\ [Next]_vars => DispInv'
  BY NextInv
<1>. QED  BY <1>1, <1>2, PTL DEF Spec

-----------------------------------------------------------------------------
(* What the invariant says                                                 *)

LEMMA InvSched ==
    ASSUME DispInv
    PROVE  /\ sched \in Schedulers /\ sched.ok /\ Listed(sched) /\ Counted(sched) /\ Waits(sched, {})
           /\ \A t \in Tasks : sched.state[t] \in States
           /\ \A t \in Tasks : /\ place[t] \in Places
                               /\ place[t] = "none" <=> sched.state[t] \in {"none", "gone"}
                               /\ place[t] = "held" <=> sched.state[t] = "Pending"
                               /\ place[t] = "sent" => sched.state[t] = "Active"
<1>1. SchedInv(sched, {}, attempt) /\ PlaceOK(Dispatcher, attempt) /\ place \in [Tasks -> Places] /\ Range(sched.pending) = {}
  BY InvFacts, DispatcherFields DEF MidInv
<1>2. sched \in Schedulers /\ sched.ok /\ Listed(sched) /\ Counted(sched) /\ Waits(sched, {})
  BY <1>1 DEF SchedInv
<1>3. \A t \in Tasks : sched.state[t] \in States
  BY <1>2, SchedShape
<1>4. \A t \in Tasks : /\ place[t] = "none" <=> sched.state[t] \in {"none", "gone"}
                       /\ place[t] = "held" <=> sched.state[t] = "Pending"
                       /\ place[t] = "sent" => sched.state[t] = "Active"
  BY <1>1, DispatcherFields DEF PlaceOK
<1>. QED  BY <1>1, <1>2, <1>3, <1>4

\* Every variable keeps its type, and the counts of active tasks stay within bounds.
THEOREM TypeCorrect == Spec => []TypeOK
<1>1. DispInv => TypeOK
  <2> SUFFICES ASSUME DispInv PROVE TypeOK
    OBVIOUS
  <2>1. /\ sched \in Schedulers /\ place \in [Tasks -> Places] /\ result \in [Tasks -> Results]
        /\ VarsOK(attempt, after, executed) /\ AfterOK(attempt, after)
    BY InvFacts DEF MidInv
  <2>2. \A c \in Chains : sched.active[c] \in 0 .. MaxTasks /\ sched.limited[c] \in Tasks \cup {NoTask}
    <3> SUFFICES ASSUME NEW c \in Chains PROVE sched.active[c] \in 0 .. MaxTasks /\ sched.limited[c] \in Tasks \cup {NoTask}
      OBVIOUS
    <3>1. sched.active[c] = Cardinality(ActiveOn(sched, c)) /\ sched.active[c] \in Nat /\ sched.limited[c] \in Tasks \cup {NoTask}
      BY <2>1, InvSched, SchedShape DEF Counted
    <3>2. ActiveOn(sched, c) \subseteq Tasks
      BY DEF ActiveOn
    <3>3. Cardinality(ActiveOn(sched, c)) <= Cardinality(Tasks)
      BY <3>2, Bounds, FS_Subset
    <3>. QED  BY <3>1, <3>3, Bounds
  <2>3. \A t \in Tasks : \A p \in after[t] : p \in Tasks \X (1 .. attempt[p[1]])
    <3> SUFFICES ASSUME NEW t \in Tasks, NEW p \in after[t] PROVE p \in Tasks \X (1 .. attempt[p[1]])
      OBVIOUS
    <3>1. p \in Tasks \X Nat /\ p[2] >= 1 /\ p[2] <= attempt[p[1]]
      BY <2>1 DEF AfterOK
    <3>2. p[1] \in Tasks /\ p[2] \in Nat /\ p = <<p[1], p[2]>> /\ attempt[p[1]] \in Nat
      BY <2>1, <3>1, VarsShape
    <3>3. p[2] \in 1 .. attempt[p[1]]
      BY <3>1, <3>2
    <3>. QED  BY <3>2, <3>3
  <2>. QED  BY <2>1, <2>2, <2>3, InvSched DEF TypeOK, States, Places, Results
<1>. QED  BY <1>1, DispatcherInvariant, PTL

\* No CHECK of ChainScheduler.h or of flush_pending_queries fails.
THEOREM ChecksAlwaysHold == Spec => []ChecksHold
<1>1. DispInv => ChecksHold
  BY InvSched DEF ChecksHold
<1>. QED  BY <1>1, DispatcherInvariant, PTL

\* ChainInfo::active_tasks is the number of active tasks of the chain, and at most the limit.
THEOREM ActiveIsCounted == Spec => []ActiveCounted
<1>1. DispInv => ActiveCounted
  BY InvSched DEF ActiveCounted, Counted, ActiveOn
<1>. QED  BY <1>1, DispatcherInvariant, PTL

\* try_start_task is called often enough: a pending task is held back by one of its chains.
THEOREM NoStartIsMissed == Spec => []NoStartMissed
<1>1. DispInv => NoStartMissed
  BY InvSched DEF NoStartMissed, Waits, Held
<1>. QED  BY <1>1, DispatcherInvariant, PTL

\* Beyond the network's faults, each query before it costs a query at most one attempt.
THEOREM NoneIsSentInVain == Spec => []NoBusyLoop
<1>1. DispInv => NoBusyLoop
  BY DEF DispInv, MidInv, Bounded, NoBusyLoop
<1>. QED  BY <1>1, DispatcherInvariant, PTL

\* A query that comes after others has them executed, or one of them fails, if none active is
\* before it and none is with its callback.
LEMMA FirstIsAnswered ==
    ASSUME DispInv, NEW m \in Tasks, \A u \in Tasks : sched.state[u] = "Active" => m <= u,
           \A u \in Tasks : place[u] # "callback", NEW p \in after[m], executed[p[1]] # p[2]
    PROVE  Failed(p)
<1> DEFINE u == p[1]
<1>1. /\ VarsOK(attempt, after, executed) /\ AfterOK(attempt, after)
      /\ ResultOK(Dispatcher, attempt, after, executed) /\ Numbered(sched, attempt, executed)
  BY InvFacts, DispatcherFields DEF MidInv
<1>2. p \in Tasks \X Nat /\ p[1] < m /\ p[2] >= 1 /\ p[2] <= attempt[p[1]]
  BY <1>1 DEF AfterOK
<1>3. u \in Tasks /\ p[2] \in Nat /\ attempt[u] \in Nat /\ u \in Nat /\ m \in Nat /\ attempt[u] >= 1 /\ p[2] <= attempt[u]
  <2>1. u \in Tasks /\ p[2] \in Nat
    BY <1>2
  <2>2. attempt[u] \in Nat /\ u \in Nat /\ m \in Nat
    BY <1>1, <2>1, VarsShape
  <2>. QED  BY <1>2, <2>1, <2>2
<1>4. sched.state[u] # "Active" /\ sched.state[u] # "none"
  BY <1>1, <1>2, <1>3 DEF Numbered
<1>5. sched.state[u] \in {"Pending", "gone"}
  <2>1. place[u] \in {"none", "held"}
    BY <1>3, <1>4, InvSched DEF Places
  <2>. QED  BY <1>3, <1>4, <2>1, InvSched
<1>6. /\ place[u] = "held" => result[u] \in {"wait", "error"}
      /\ sched.state[u] = "gone" => result[u] \in {"ok", "error"}
      /\ result[u] = "ok" => executed[u] = attempt[u]
  BY <1>1, <1>3, DispatcherFields DEF ResultOK
<1>7. result[u] \in {"error", "wait"} \/ p[2] < attempt[u]
  <2>1. CASE sched.state[u] = "Pending"
    BY <1>3, <1>6, <2>1, InvSched
  <2>2. CASE sched.state[u] = "gone" /\ result[u] = "ok"
    BY <1>3, <1>6, <2>2
  <2>. QED  BY <1>5, <1>6, <2>1, <2>2
<1>. QED  BY <1>7 DEF Failed

\* Whenever there are queries, one of them can go on.
THEOREM NothingStalls == Spec => []NoStall
<1>1. DispInv => NoStall
  <2> SUFFICES ASSUME DispInv, NEW q \in Tasks, Exists(sched, q), \A u \in Tasks : place[u] # "callback"
               PROVE  \E t \in Tasks : place[t] = "sent" /\ (\/ result[t] # "none"
                                                             \/ \A p \in after[t] : executed[p[1]] = p[2]
                                                             \/ \E p \in after[t] : Failed(p))
    BY DEF NoStall
  <2> DEFINE A == {t \in Tasks : sched.state[t] = "Active"}
             E == {t \in Tasks : Exists(sched, t)}
  <2>1. CASE A # {}
    <3>1. PICK m \in A : \A y \in A : m <= y
      <4>1. A \in SUBSET Nat
        BY Bounds
      <4>. QED  BY <2>1, <4>1, LeastNatural
    <3>2. m \in Tasks /\ sched.state[m] = "Active" /\ \A u \in Tasks : sched.state[u] = "Active" => m <= u
      BY <3>1
    <3>3. place[m] = "sent"
      BY <3>2, InvSched DEF Places
    <3>4. (\A p \in after[m] : executed[p[1]] = p[2]) \/ \E p \in after[m] : Failed(p)
      BY <3>2, FirstIsAnswered
    <3>. QED  BY <3>2, <3>3, <3>4
  <2>2. CASE A = {}
    <3>1. PICK m \in E : \A y \in E : m <= y
      <4>1. E \in SUBSET Nat /\ E # {}
        BY Bounds
      <4> HIDE DEF E
      <4>. QED  BY <4>1, LeastNatural
    <3>2. m \in Tasks /\ sched.state[m] \in {"Pending", "Paused"} /\ \A u \in Tasks : Exists(sched, u) => m <= u
      BY <2>2, <3>1 DEF Exists
    <3>3. sched.state[m] = "Pending"
      BY <3>2, InvSched DEF Places
    <3>4. PICK c \in ChainsOf(sched, m) : Behind(sched, m, c) \/ Full(sched, c)
      BY <3>2, <3>3, InvSched DEF Waits, Held
    <3>5. c \in Chains /\ m \in On(sched, c)
      BY <3>2, <3>3, InvSched, TaskChains DEF On, Exists
    <3>6. ~Behind(sched, m, c)
      <4>1. \A u \in On(sched, c) : u \in Tasks /\ u \in Nat /\ m \in Nat /\ m <= u
        BY <3>2, Bounds DEF On
      <4>2. GetParent(sched, m, c) = NoTask
        <5>1. \/ GetParent(sched, m, c) = NoTask
              \/ GetParent(sched, m, c) \in On(sched, c) /\ GetParent(sched, m, c) < m
          BY <3>5, InvSched, ParentFact
        <5>. QED  BY <4>1, <5>1
      <4>. QED  BY <4>2 DEF Behind
    <3>7. ~Full(sched, c)
      <4>1. ActiveOn(sched, c) = {}
        BY <2>2 DEF ActiveOn
      <4>2. sched.active[c] = 0
        BY <3>5, <4>1, InvSched, FS_EmptySet DEF Counted
      <4>. QED  BY <4>2, Bounds DEF Full
    <3>. QED  BY <3>4, <3>6, <3>7
  <2>. QED  BY <2>1, <2>2
<1>. QED  BY <1>1, DispatcherInvariant, PTL

\* The server executes the queries of a chain in the order they were made, each at most once.
THEOREM ExecutedInOrder == Spec => InOrder
<1> DEFINE Step == \A t \in Tasks : executed'[t] # executed[t] =>
                      /\ executed[t] = 0
                      /\ \A u \in 1 .. t - 1 : ChainsOf(sched, u) \cap ChainsOf(sched, t) # {} =>
                            executed[u] # 0 \/ sched.state[u] = "gone"
<1>1. DispInv /\ [Next]_vars => [Step]_vars
  <2> SUFFICES ASSUME DispInv, Next, NEW t \in Tasks, executed'[t] # executed[t]
               PROVE  /\ executed[t] = 0
                      /\ \A u \in 1 .. t - 1 : ChainsOf(sched, u) \cap ChainsOf(sched, t) # {} =>
                            executed[u] # 0 \/ sched.state[u] = "gone"
    OBVIOUS
  <2>1. executed' # executed
    OBVIOUS
  <2>2. ASSUME NEW r \in Routes, Send(r) PROVE FALSE
    BY <2>1, <2>2 DEF Send, Loop
  <2>3. ASSUME NEW v \in Tasks, OnResult(v) PROVE FALSE
    BY <2>1, <2>3 DEF OnResult, Loop, Becomes
  <2>4. ASSUME NEW v \in Tasks, OnResend(v, TRUE) \/ OnResend(v, FALSE) PROVE FALSE
    BY <2>1, <2>4 DEF OnResend, Loop
  <2>5. ASSUME NEW v \in Tasks, WaitFails(v) \/ Refuse(v) \/ Retry(v) PROVE FALSE
    BY <2>1, <2>5 DEF WaitFails, Refuse, Retry
  <2>6. PICK v \in Tasks : Execute(v)
    BY <2>2, <2>3, <2>4, <2>5 DEF Next
  <2>7. executed \in [Tasks -> Nat] /\ executed' = [executed EXCEPT ![v] = attempt[v]]
    BY <2>6, InvFacts, VarsShape DEF Execute
  <2>8. v = t
    BY <2>7
  <2>. QED  BY <2>6, <2>8, ExecuteFact
<1>. QED  BY <1>1, DispatcherInvariant, PTL DEF Spec, InOrder

=============================================================================
