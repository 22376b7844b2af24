-------------------------- MODULE ProxyPhaseProofs --------------------------
(***************************************************************************)
(* What the first call of setupProxies leaves behind if no answer is late, *)
(* for every value of the constants: TDLib goes through a proxy, and it is *)
(* the one that the screen shows.                                          *)
(***************************************************************************)
EXTENDS ProxyEntryProofs

-----------------------------------------------------------------------------
(* The phases of setupProxies                                              *)

\* No answer to a control request was late, and setupProxies was not re-entered.
Steady == setups <= 1 /\ ~late

S == tasks[SetupTask]
PurgePCs == {"disable", "list", "remove", "detect"}
ChoicePCs == {"register", "choose", "ping", "settle", "enable"}

\* Nothing but setupProxies runs, and nothing else can start.
Solo == ~initialized /\ ~readyForFailover /\ ~healthTimer /\ \A t \in Workers : tasks[t].pc = "idle"

\* TDLib has a proxy with this id.
KnownId(srv, id) == id \in Ids /\ srv[id] # NoServer

EntriesOK(s, srv) == \A i \in DOMAIN s : KnownId(srv, s[i].id)
QueueOK(q, srv) ==
    \A i \in DOMAIN q : q[i].op = "add" \/ (q[i].op = "enable" /\ KnownId(srv, q[i].id))
TaskOK(rec, srv) ==
    /\ rec.pc \in {"ping", "settle", "enable"} => KnownId(srv, rec.id)
    /\ rec.pc \in {"ping", "settle"} => \A c \in rec.left : KnownId(srv, c.id)
SetupOK(rec, srv) == rec.pc \in {"ping", "settle"} => KnownId(srv, rec.first)

\* Before the configs are registered, the request that is awaited is the only one.
Purging == setups = 0 \/ S.pc \in PurgePCs
PurgeQueue ==
    IF S.pc \in {"disable", "list", "remove"} /\ S.res = "none"
    THEN \E id \in 0 .. MaxId : queue = <<Req(S.pc, id, NoConfig)>>
    ELSE queue = <<>>
PhasePurge == Purging => Solo /\ proxies = <<>> /\ PurgeQueue

\* After it, nothing is disabled or removed any more, and every id in use is one of TDLib's.
PhaseKnown ==
    /\ EntriesOK(proxies, td.server)
    /\ \A t \in Tasks : TaskOK(tasks[t], td.server)
    /\ SetupOK(S, td.server)
    /\ ~Purging => QueueOK(queue, td.server)

\* While the first proxy is chosen there is one to choose, and its enableProxy succeeds.
OnlySystem ==
    MTProto = <<>> =>
        Adds(queue) \subseteq {SystemConfig} /\ \A i \in DOMAIN proxies : IsSystemLike(proxies[i])
PhaseChoice ==
    /\ S.pc \in ChoicePCs => Solo /\ (MTProto # <<>> \/ HasSystem) /\ OnlySystem
    /\ S.pc = "choose" => Len(proxies) >= Expected
    /\ S.pc = "enable" => S.res \in {"none", "ok"} /\ (S.res = "ok" => td.enabled # 0)

\* Then TDLib has it enabled; without a config nothing was started at all.
Bare == Solo /\ proxies = <<>> /\ queue = <<>>
PhaseDone ==
    /\ S.pc = "users" => td.enabled # 0
    /\ S.pc = "idle" /\ setups # 0 => td.enabled # 0 \/ Bare

Phases == PhasePurge /\ PhaseKnown /\ PhaseChoice /\ PhaseDone
PhaseInv == Steady => Phases

-----------------------------------------------------------------------------
(* The queue                                                               *)

LEMMA QueueAppend ==
    ASSUME NEW q \in Seq(Request), NEW srv, QueueOK(q, srv), NEW r,
           r.op = "add" \/ (r.op = "enable" /\ KnownId(srv, r.id))
    PROVE  QueueOK(Append(q, r), srv)
<1> DEFINE a == Append(q, r)
<1>1. /\ DOMAIN q = 1 .. Len(q) /\ Len(q) \in Nat /\ DOMAIN a = 1 .. Len(q) + 1
      /\ \A i \in 1 .. Len(q) : a[i] = q[i]
      /\ a[Len(q) + 1] = r
  OBVIOUS
<1> HIDE DEF a
<1>2. QueueOK(a, srv)
  BY <1>1 DEF QueueOK
<1>. QED  BY <1>2 DEF a

LEMMA QueueTail ==
    ASSUME NEW q \in Seq(Request), q # <<>>, NEW srv, QueueOK(q, srv) PROVE QueueOK(Tail(q), srv)
<1> DEFINE a == Tail(q)
<1>1. /\ DOMAIN q = 1 .. Len(q) /\ Len(q) \in Nat /\ DOMAIN a = 1 .. Len(q) - 1
      /\ \A i \in 1 .. Len(q) - 1 : a[i] = q[i + 1] /\ i + 1 \in 1 .. Len(q)
  OBVIOUS
<1> HIDE DEF a
<1>2. QueueOK(a, srv)
  BY <1>1 DEF QueueOK
<1>. QED  BY <1>2 DEF a

LEMMA QueueAdds ==
    ASSUME NEW q \in Seq(Request), NEW s \in Seq(Config), NEW srv, QueueOK(q, srv)
    PROVE  QueueOK(q \o [i \in DOMAIN s |-> AddReq(s[i])], srv)
<1> DEFINE r == [i \in DOMAIN s |-> AddReq(s[i])]
           a == q \o r
<1>1. r \in Seq(Request) /\ DOMAIN s = 1 .. Len(s) /\ Len(s) \in Nat
  BY AddReqsType, LenProperties
<1>2. \A i \in DOMAIN r : r[i].op = "add"
  BY DEF AddReq, Req
<1>3. DOMAIN r = 1 .. Len(r) /\ Len(r) \in Nat
  BY <1>1, LenProperties
<1> HIDE DEF r
<1>4. /\ DOMAIN q = 1 .. Len(q) /\ Len(q) \in Nat /\ DOMAIN a = 1 .. Len(q) + Len(r)
      /\ \A i \in 1 .. Len(q) : a[i] = q[i]
      /\ \A i \in Len(q) + 1 .. Len(q) + Len(r) : a[i] = r[i - Len(q)]
  BY <1>1
<1> HIDE DEF a
<1>5. ASSUME NEW i \in DOMAIN a PROVE a[i].op = "add" \/ (a[i].op = "enable" /\ KnownId(srv, a[i].id))
  <2>1. CASE i \in 1 .. Len(q)
    BY <1>4, <2>1 DEF QueueOK
  <2>2. CASE i \notin 1 .. Len(q)
    <3>1. i - Len(q) \in DOMAIN r /\ a[i] = r[i - Len(q)]
      BY <1>3, <1>4, <2>2
    <3>. QED  BY <1>2, <3>1
  <2>. QED  BY <2>1, <2>2
<1>. QED  BY <1>5 DEF QueueOK, a, r

-----------------------------------------------------------------------------
(* Frames                                                                  *)

\* No answer becomes timely and setupProxies is not un-called.
LEMMA SteadyBefore ==
    ASSUME TypeOK, [Next]_vars, Steady'
    PROVE  Steady /\ (SetupProxies \/ setups' = setups)
<1>1. setups \in Nat
  BY DEF TypeOK, EnvType
<1>2. CASE SetupProxies
  BY <1>1, <1>2 DEF SetupProxies, Steady
<1>3. CASE RegistrationTimeout \/ \E t \in Tasks : ControlTimeout(t)
  BY <1>3 DEF RegistrationTimeout, ControlTimeout, Steady
<1>4. CASE UNCHANGED <<setups, late>>
  BY <1>4 DEF Steady
<1>5. CASE Setup
  BY <1>2, <1>3, <1>4, <1>5 DEF Setup, PurgeList, PurgeRemove, RegisterConfigs, RegistrationDone,
     EnableFirstAvailable, SetupPinged, SetupEnabled, RegisterSavedUserProxies, envVars
<1>6. ASSUME NEW t \in Tasks, Resume(t) PROVE UNCHANGED <<setups, late>>
  BY <1>6 DEF Resume, PingCanceled, FailoverPinged, ActivatePinged, TestPinged, HealthPinged,
         FailoverEnabled, ActivateEnabled, envVars
<1>7. ASSUME NEW t \in Tasks, Timers(t) PROVE UNCHANGED <<setups, late>> \/ ControlTimeout(t)
  BY <1>7 DEF Timers, PingAgain, PingTimeout, UserProxySaved, envVars
<1>8. ASSUME Answers \/ PingAnswers PROVE UNCHANGED <<setups, late>>
  BY <1>8 DEF Answers, DisableAnswer, ListAnswer, RemoveAnswer, EnableAnswer, AddRefused, AddAnswer,
       PingAnswers, PingReply, LatePingReply, envVars
<1>9. ASSUME NEW t \in Workers, Calls(t) PROVE UNCHANGED <<setups, late>>
  BY <1>9 DEF Calls, HandleConnectionState, HealthTick, NextProxyPressed, ActivateProxy, TestProxy, AddUserProxy,
     envVars
<1>10. CASE SetAutoFailoverEnabled \/ AuthReady \/ UNCHANGED vars
  BY <1>4, <1>10 DEF SetAutoFailoverEnabled, AuthReady, vars, envVars
<1>. QED  BY <1>3, <1>4, <1>5, <1>6, <1>7, <1>8, <1>9, <1>10 DEF Next

LEMMA SoloKept ==
    ASSUME Solo, \A t \in Workers : tasks'[t] = tasks[t], UNCHANGED <<initialized, readyForFailover, healthTimer>>
    PROVE  Solo'
BY DEF Solo

LEMMA WorkersAreTasks == Workers = Tasks \ {SetupTask}
BY BoundAssumption DEF Tasks

\* A step of one task leaves the other ids in use alone.
LEMMA KnownKept ==
    ASSUME TypeOK, PhaseKnown, td'.server = td.server, SameIds(proxies, proxies'), NEW t \in Tasks,
           \A u \in Tasks \ {t} : tasks'[u] = tasks[u],
           TaskOK(tasks'[t], td.server), t = SetupTask => SetupOK(tasks'[t], td.server),
           ~Purging' => QueueOK(queue', td.server)
    PROVE  PhaseKnown'
<1>1. EntriesOK(proxies', td'.server)
  BY DEF PhaseKnown, EntriesOK, SameIds
<1>2. \A u \in Tasks : TaskOK(tasks'[u], td'.server)
  BY DEF PhaseKnown
<1>3. SetupOK(tasks'[SetupTask], td'.server)
  BY SetupIsTask DEF PhaseKnown, S
<1>. QED  BY <1>1, <1>2, <1>3 DEF PhaseKnown, S

\* A ping of the next candidate is about an id of TDLib's.
LEMMA PingNextKnown ==
    ASSUME tasks \in [Tasks -> Task], NEW t \in Tasks, NEW rec \in Task, NEW srv,
           \A c \in rec.left : KnownId(srv, c.id), PingNext(t, rec)
    PROVE  /\ \A u \in Tasks \ {t} : tasks'[u] = tasks[u]
           /\ TaskOK(tasks'[t], srv) /\ tasks'[t].pc = "ping" /\ tasks'[t].first = rec.first
           /\ tasks'[t].kind = rec.kind
<1>1. PICK p \in rec.left :
          tasks' = [tasks EXCEPT ![t] =
                       PingFields([rec EXCEPT !.left = rec.left \ {p}, !.cur = p.rank,
                                              !.retries = Retries], p.id)]
  BY DEF PingNext
<1>2. /\ tasks'[t].pc = "ping" /\ tasks'[t].id = p.id /\ tasks'[t].left = rec.left \ {p}
      /\ tasks'[t].first = rec.first /\ tasks'[t].kind = rec.kind
  BY <1>1 DEF PingFields, Task
<1>. QED  BY <1>1, <1>2 DEF TaskOK

LEMMA CandidatesKnown ==
    ASSUME NEW s \in Seq(Entry), NEW I \in SUBSET (DOMAIN s), NEW srv, EntriesOK(s, srv)
    PROVE  \A c \in Candidates(s, I) : KnownId(srv, c.id)
BY DEF Candidates, EntriesOK

LEMMA SendEnableKnown ==
    ASSUME TypeOK, NEW t \in Tasks, NEW id, NEW srv, KnownId(srv, id), QueueOK(queue, srv), SendEnable(t, id)
    PROVE  /\ \A u \in Tasks \ {t} : tasks'[u] = tasks[u]
           /\ tasks'[t].pc = "enable" /\ tasks'[t].res = "none" /\ tasks'[t].kind = tasks[t].kind
           /\ TaskOK(tasks'[t], srv) /\ SetupOK(tasks'[t], srv)
           /\ QueueOK(queue', srv) /\ Adds(queue') = Adds(queue)
<1>0. tasks \in [Tasks -> Task] /\ tasks[t] \in Task /\ queue \in Seq(Request)
  BY DEF TypeOK, TdType
<1>1. /\ tasks'[t].pc = "enable" /\ tasks'[t].res = "none" /\ tasks'[t].id = id
      /\ tasks'[t].kind = tasks[t].kind /\ \A u \in Tasks \ {t} : tasks'[u] = tasks[u]
  BY <1>0 DEF SendEnable, Task
<1>2. QueueOK(queue', srv)
  <2>1. Req("enable", id, NoConfig).op = "enable" /\ Req("enable", id, NoConfig).id = id
    BY DEF Req
  <2>. QED  BY <1>0, <2>1, QueueAppend DEF SendEnable
<1>3. Adds(queue') = Adds(queue)
  BY <1>0, SendEnableKept
<1>. QED  BY <1>1, <1>2, <1>3 DEF TaskOK, SetupOK

-----------------------------------------------------------------------------
(* The steps of setupProxies                                               *)

LEMMA PurgeSteps ==
    ASSUME TypeOK, TypeOK', LockInv, Phases, Steady, Steady', SetupProxies \/ PurgeList \/ PurgeRemove
    PROVE  Phases'
<1> USE SetupIsTask
<1>0. /\ tasks \in [Tasks -> Task] /\ S \in Task /\ setups \in Nat /\ queue \in Seq(Request) /\ MaxId \in Nat
      /\ proxies \in Seq(Entry)
  BY BoundAssumption DEF TypeOK, EnvType, TdType, RegType, S
<1>1. \A u \in Tasks \ {SetupTask} : tasks'[u] = tasks[u]
  BY SetupOthers DEF Setup
<1>2. /\ td' = td /\ UNCHANGED <<initialized, healthTimer>>
      /\ readyForFailover' => readyForFailover
      /\ proxies' \in {<<>>, proxies}
  BY DEF SetupProxies, PurgeList, PurgeRemove, regVars, ctlVars, envVars
<1>3. Purging
  <2>1. CASE SetupProxies
    BY <1>0, <2>1 DEF SetupProxies, Steady, Purging
  <2>2. CASE ~SetupProxies
    BY <2>2 DEF PurgeList, PurgeRemove, Resuming, Purging, S, PurgePCs
  <2>. QED  BY <2>1, <2>2
<1>4. Solo /\ proxies = <<>>
  BY <1>3 DEF Phases, PhasePurge
<1>5. /\ Solo' /\ proxies' = <<>>
  BY <1>1, <1>2, <1>4, WorkersAreTasks DEF Solo
<1>6. queue = <<>>
  <2>1. CASE SetupProxies
    BY <1>3, <2>1 DEF SetupProxies, Phases, PhasePurge, PurgeQueue, S
  <2>2. CASE ~SetupProxies
    BY <1>3, <2>2 DEF PurgeList, PurgeRemove, Resuming, Phases, PhasePurge, PurgeQueue, S
  <2>. QED  BY <2>1, <2>2
<1>7. /\ tasks'[SetupTask].pc \in PurgePCs /\ tasks'[SetupTask].res = "none"
      /\ tasks'[SetupTask].pc = "detect" => queue' = queue
      /\ tasks'[SetupTask].pc # "detect" => \E id \in 0 .. MaxId : queue' = Append(queue, Req(tasks'[SetupTask].pc, id, NoConfig))
  <2>1. CASE SetupProxies
    <3>1. tasks'[SetupTask].pc = "disable" /\ tasks'[SetupTask].res = "none"
      BY <1>0, <2>1 DEF SetupProxies, Idle
    <3>2. queue' = Append(queue, Req("disable", 0, NoConfig)) /\ 0 \in 0 .. MaxId
      BY <1>0, <2>1 DEF SetupProxies
    <3>. QED  BY <3>1, <3>2 DEF PurgePCs
  <2>2. CASE PurgeList
    <3>1. tasks'[SetupTask].pc = "list" /\ tasks'[SetupTask].res = "none"
      BY <1>0, <2>2 DEF PurgeList, Task, S
    <3>2. queue' = Append(queue, Req("list", 0, NoConfig)) /\ 0 \in 0 .. MaxId
      BY <1>0, <2>2 DEF PurgeList
    <3>. QED  BY <3>1, <3>2 DEF PurgePCs
  <2>3. CASE PurgeRemove
    <3>1. CASE tasks'[SetupTask].pc = "detect" /\ tasks'[SetupTask].res = "none" /\ queue' = queue
      BY <3>1 DEF PurgePCs
    <3>2. CASE /\ tasks'[SetupTask].pc = "remove" /\ tasks'[SetupTask].res = "none"
               /\ \E id \in 0 .. MaxId : queue' = Append(queue, Req("remove", id, NoConfig))
      BY <3>2 DEF PurgePCs
    <3>3. ASSUME NEW p \in S.left, queue' = Append(queue, Req("remove", p.id, NoConfig)),
                 tasks' = [tasks EXCEPT ![SetupTask].pc = "remove", ![SetupTask].res = "none",
                                        ![SetupTask].left = S.left \ {p}]
          PROVE  /\ tasks'[SetupTask].pc = "remove" /\ tasks'[SetupTask].res = "none"
                 /\ \E id \in 0 .. MaxId : queue' = Append(queue, Req("remove", id, NoConfig))
      <4>1. p.id \in 0 .. MaxId
        BY <1>0 DEF Task, Candidate, Ids
      <4>. QED  BY <1>0, <3>3, <4>1 DEF Task, S
    <3>4. ASSUME tasks' = [tasks EXCEPT ![SetupTask].pc = "detect", ![SetupTask].res = "none",
                                        ![SetupTask].left = {}], queue' = queue
          PROVE  tasks'[SetupTask].pc = "detect" /\ tasks'[SetupTask].res = "none" /\ queue' = queue
      BY <1>0, <3>4 DEF Task, S
    <3>. QED  BY <2>3, <3>1, <3>2, <3>3, <3>4 DEF PurgeRemove, S
  <2>. QED  BY <2>1, <2>2, <2>3
<1>8. PurgeQueue'
  <2>1. \A r : Append(queue, r) = <<r>>
    BY <1>6
  <2>2. CASE tasks'[SetupTask].pc = "detect"
    <3>1. queue' = <<>>
      BY <1>0, <1>6, <1>7, <2>2 DEF Req
    <3>. QED  BY <2>2, <3>1 DEF PurgeQueue, S
  <2>3. CASE tasks'[SetupTask].pc # "detect"
    <3>1. PICK id \in 0 .. MaxId : queue' = <<Req(tasks'[SetupTask].pc, id, NoConfig)>>
      BY <1>7, <2>1, <2>3
    <3>. QED  BY <1>7, <2>3, <3>1 DEF PurgeQueue, S, PurgePCs
  <2>. QED  BY <2>2, <2>3
<1>9. PhasePurge'
  BY <1>5, <1>8 DEF PhasePurge
<1>10. Purging' /\ SameIds(proxies, proxies')
  BY <1>4, <1>5, <1>7 DEF Purging, S, SameIds
<1>11. PhaseKnown'
  <2>1. TaskOK(tasks'[SetupTask], td.server) /\ SetupOK(tasks'[SetupTask], td.server)
    BY <1>7 DEF TaskOK, SetupOK, PurgePCs
  <2>. QED  BY <1>1, <1>2, <1>10, <2>1, KnownKept DEF Phases
<1>12. PhaseChoice' /\ PhaseDone'
  BY <1>7 DEF PhaseChoice, PhaseDone, S, PurgePCs, ChoicePCs
<1>. QED  BY <1>9, <1>11, <1>12 DEF Phases

LEMMA RegisterSteps ==
    ASSUME TypeOK, TypeOK', LockInv, Phases, Steady, Steady', RegisterConfigs \/ RegistrationDone
    PROVE  Phases'
<1> USE SetupIsTask
<1>0. /\ tasks \in [Tasks -> Task] /\ S \in Task /\ setups \in Nat /\ queue \in Seq(Request)
      /\ proxies \in Seq(Entry) /\ MTProto \in Seq(Config) /\ HasSystem \in BOOLEAN
  BY ConfigAssumption DEF TypeOK, EnvType, TdType, RegType, S
<1>1. \A u \in Tasks \ {SetupTask} : tasks'[u] = tasks[u]
  BY SetupOthers DEF Setup
<1>2. UNCHANGED <<td, initialized, healthTimer, readyForFailover, proxies, setups>> /\ setups # 0
  BY PlaceInUse DEF RegisterConfigs, RegistrationDone, regVars, ctlVars, envVars, tdVars
<1>3. SameIds(proxies, proxies')
  BY <1>2 DEF SameIds
<1>4. Solo
  BY DEF RegisterConfigs, RegistrationDone, Phases, PhasePurge, PhaseChoice, Purging, S, PurgePCs, ChoicePCs
<1>5. Solo'
  BY <1>1, <1>2, <1>4, SoloKept, WorkersAreTasks
<1>6. CASE RegisterConfigs
  <2> DEFINE sys == IF HasSystem THEN <<AddReq(SystemConfig)>> ELSE <<>>
             own == [i \in DOMAIN MTProto |-> AddReq(MTProto[i])]
             none == MTProto = <<>> /\ ~HasSystem
  <2>0. queue = <<>> /\ proxies = <<>>
    BY <1>6 DEF RegisterConfigs, Phases, PhasePurge, Purging, PurgeQueue, S, PurgePCs
  <2>1. queue' = (queue \o sys) \o own
    BY <1>6 DEF RegisterConfigs
  <2>2. CASE none
    <3>1. tasks'[SetupTask].pc = "idle"
      BY <1>0, <1>6, <2>2 DEF RegisterConfigs, Idle
    <3>2. queue' = <<>>
      <4>1. own = <<>>
        BY <2>2
      <4>. QED  BY <2>0, <2>1, <2>2, <4>1
    <3>3. PhasePurge' /\ PhaseChoice' /\ PhaseDone'
      BY <1>2, <1>5, <2>0, <3>1, <3>2 DEF PhasePurge, PhaseChoice, PhaseDone, Purging, S, PurgePCs, ChoicePCs, Bare
    <3>4. PhaseKnown'
      <4>1. TaskOK(tasks'[SetupTask], td.server) /\ SetupOK(tasks'[SetupTask], td.server) /\ QueueOK(queue', td.server)
        BY <3>1, <3>2 DEF TaskOK, SetupOK, QueueOK
      <4>. QED  BY <1>1, <1>2, <1>3, <4>1, KnownKept DEF Phases
    <3>. QED  BY <3>3, <3>4 DEF Phases
  <2>3. CASE ~none
    <3>1. tasks'[SetupTask].pc = "register"
      BY <1>0, <1>6, <2>3 DEF RegisterConfigs, Task, S
    <3>2. queue \o sys \in Seq(Request) /\ QueueOK(queue \o sys, td.server) /\ Adds(queue \o sys) \subseteq {SystemConfig}
      <4>0. QueueOK(queue, td.server) /\ Adds(queue) = {}
        BY <2>0 DEF QueueOK, Adds
      <4>1. CASE HasSystem
        <5>1. SystemConfig \in Config
          BY LiteralAssumption DEF SystemConfig, Config
        <5>2. AddReq(SystemConfig) \in Request /\ AddReq(SystemConfig).op = "add" /\ AddReq(SystemConfig).cfg = SystemConfig
          BY <5>1, AddReqType DEF AddReq, Req
        <5>3. queue \o sys = Append(queue, AddReq(SystemConfig))
          BY <1>0, <4>1, <5>2
        <5>4. Append(queue, AddReq(SystemConfig)) \in Seq(Request)
          BY <1>0, <5>2, AppendProperties
        <5>5. Adds(Append(queue, AddReq(SystemConfig))) \subseteq {SystemConfig}
          BY <1>0, <4>0, <5>2, AddsAppend
        <5>6. QueueOK(Append(queue, AddReq(SystemConfig)), td.server)
          BY <1>0, <4>0, <5>2, QueueAppend
        <5>. QED  BY <5>3, <5>4, <5>5, <5>6
      <4>2. CASE ~HasSystem
        <5>1. queue \o sys = queue
          BY <1>0, <4>2
        <5>. QED  BY <1>0, <4>0, <5>1
      <4>. QED  BY <4>1, <4>2
    <3>3. QueueOK(queue', td.server)
      BY <1>0, <2>1, <3>2, QueueAdds
    <3>4. OnlySystem'
      <4>1. Adds(queue') = Adds(queue \o sys) \cup {MTProto[i] : i \in DOMAIN MTProto}
        BY <1>0, <2>1, <3>2, AddsConcat
      <4>. QED  BY <1>2, <2>0, <3>2, <4>1 DEF OnlySystem
    <3>5. PhasePurge' /\ PhaseChoice' /\ PhaseDone'
      BY <1>2, <1>5, <2>3, <3>1, <3>4 DEF PhasePurge, PhaseChoice, PhaseDone, Purging, S, PurgePCs, ChoicePCs
    <3>6. PhaseKnown'
      <4>1. TaskOK(tasks'[SetupTask], td.server) /\ SetupOK(tasks'[SetupTask], td.server)
        BY <3>1 DEF TaskOK, SetupOK
      <4>. QED  BY <1>1, <1>2, <1>3, <3>3, <4>1, KnownKept DEF Phases
    <3>. QED  BY <3>5, <3>6 DEF Phases
  <2>. QED  BY <2>2, <2>3
<1>7. CASE RegistrationDone
  <2>1. /\ S.pc = "register" /\ tasks'[SetupTask].pc = "choose" /\ queue' = queue /\ Len(proxies) >= Expected
    BY <1>0, <1>7 DEF RegistrationDone, Task, S, tdVars
  <2>2. ~Purging
    BY <1>2, <2>1 DEF Purging, PurgePCs
  <2>3. PhasePurge' /\ PhaseChoice' /\ PhaseDone'
    <3>1. (MTProto # <<>> \/ HasSystem) /\ OnlySystem
      BY <2>1 DEF Phases, PhaseChoice, ChoicePCs
    <3>2. OnlySystem'
      BY <1>2, <2>1, <3>1 DEF OnlySystem
    <3>. QED  BY <1>2, <1>5, <2>1, <3>1, <3>2 DEF PhasePurge, PhaseChoice, PhaseDone, Purging, S, PurgePCs, ChoicePCs
  <2>4. PhaseKnown'
    <3>1. TaskOK(tasks'[SetupTask], td.server) /\ SetupOK(tasks'[SetupTask], td.server) /\ QueueOK(queue', td.server)
      BY <2>1, <2>2 DEF TaskOK, SetupOK, Phases, PhaseKnown
    <3>. QED  BY <1>1, <1>2, <1>3, <3>1, KnownKept DEF Phases
  <2>. QED  BY <2>3, <2>4 DEF Phases
<1>. QED  BY <1>6, <1>7

\* A step of setupProxies that goes on choosing keeps the phases.
LEMMA ChoosingKept ==
    ASSUME TypeOK, LockInv, Phases, Steady, Setup, ~SetupProxies, S.pc \in {"choose", "ping"},
           UNCHANGED <<td, initialized, healthTimer, readyForFailover, setups>>,
           SameIds(proxies, proxies'), \A i \in DOMAIN proxies : proxies'[i].name = proxies[i].name,
           Adds(queue') = Adds(queue), QueueOK(queue', td.server),
           tasks'[SetupTask].pc \in {"ping", "enable"}, tasks'[SetupTask].pc = "enable" => tasks'[SetupTask].res = "none",
           TaskOK(tasks'[SetupTask], td.server), SetupOK(tasks'[SetupTask], td.server)
    PROVE  Phases'
<1> USE SetupIsTask
<1>1. \A u \in Tasks \ {SetupTask} : tasks'[u] = tasks[u]
  BY SetupOthers
<1>2. setups # 0
  BY PlaceInUse DEF S
<1>3. Solo /\ (MTProto # <<>> \/ HasSystem) /\ OnlySystem
  BY DEF Phases, PhaseChoice, ChoicePCs
<1>4. Solo'
  BY <1>1, <1>3, SoloKept, WorkersAreTasks
<1>5. OnlySystem'
  BY <1>3 DEF OnlySystem, SameIds, IsSystemLike
<1>6. PhasePurge' /\ PhaseChoice' /\ PhaseDone'
  BY <1>2, <1>3, <1>4, <1>5 DEF PhasePurge, PhaseChoice, PhaseDone, Purging, S, PurgePCs, ChoicePCs
<1>7. PhaseKnown'
  BY <1>1, KnownKept DEF Phases
<1>. QED  BY <1>6, <1>7 DEF Phases

\* Settling a health keeps the names.
LEMMA PingHealthNames ==
    ASSUME proxies \in Seq(Entry), NEW rec, proxies' = PingHealth(proxies, rec)
    PROVE  SameIds(proxies, proxies') /\ \A i \in DOMAIN proxies : proxies'[i].name = proxies[i].name
<1>1. \A i \in DOMAIN proxies : proxies[i] \in Entry
  BY ElementOfSeq, LenProperties
<1>. QED  BY <1>1 DEF PingHealth, SetChecking, SameIds, Entry

LEMMA ChooseSteps ==
    ASSUME TypeOK, TypeOK', LockInv, Phases, Steady, Steady', EnableFirstAvailable \/ SetupPinged
    PROVE  Phases'
<1> USE SetupIsTask
<1>0. /\ tasks \in [Tasks -> Task] /\ S \in Task /\ setups \in Nat /\ queue \in Seq(Request)
      /\ proxies \in Seq(Entry) /\ MTProto \in Seq(Config) /\ HasSystem \in BOOLEAN
      /\ DOMAIN proxies = 1 .. Len(proxies) /\ Len(proxies) \in Nat
  BY ConfigAssumption, LenProperties DEF TypeOK, EnvType, TdType, RegType, S
<1>1. Setup /\ ~SetupProxies /\ S.pc \in {"choose", "ping"}
  BY DEF Setup, SetupProxies, EnableFirstAvailable, SetupPinged, PingReturned, Resuming, S
<1>2. UNCHANGED <<td, initialized, setups>> /\ setups # 0
  BY <1>1, PlaceInUse DEF EnableFirstAvailable, SetupPinged, envVars, S
<1>3. EntriesOK(proxies, td.server) /\ QueueOK(queue, td.server) /\ TaskOK(S, td.server) /\ SetupOK(S, td.server)
  BY <1>1, <1>2 DEF Phases, PhaseKnown, Purging, PurgePCs, S
<1>k. \A i \in DOMAIN proxies : KnownId(td.server, proxies[i].id)
  BY <1>3 DEF EntriesOK
<1>4. CASE EnableFirstAvailable
  <2> DEFINE direct == {i \in DOMAIN proxies : ~IsSystemLike(proxies[i])}
             systems == DOMAIN proxies \ direct
  <2>0. /\ S.pc = "choose" /\ proxies' = proxies
    BY <1>4 DEF EnableFirstAvailable, regVars, S
  <2>e. SameIds(proxies, proxies') /\ \A i \in DOMAIN proxies : proxies'[i].name = proxies[i].name
    BY <2>0 DEF SameIds
  <2>1. ~((MTProto = <<>> \/ direct = {}) /\ systems = {})
    <3>1. Len(proxies) >= Expected /\ (MTProto # <<>> \/ HasSystem) /\ OnlySystem
      BY <2>0 DEF Phases, PhaseChoice, ChoicePCs
    <3>2. Expected >= 1
      <4>1. MTProto # <<>> => Len(MTProto) >= 1
        BY <1>0
      <4>2. Len(MTProto) \in Nat
        BY <1>0
      <4>. QED  BY <3>1, <4>1, <4>2 DEF Expected
    <3>3. 1 \in DOMAIN proxies
      <4>1. Expected \in Nat
        BY <1>0 DEF Expected
      <4>. QED  BY <1>0, <3>1, <3>2, <4>1
    <3>4. MTProto = <<>> => 1 \notin direct
      BY <3>1, <3>3 DEF OnlySystem
    <3>. QED  BY <3>3, <3>4
  <2>2. ASSUME NEW i \in DOMAIN proxies, SendEnable(SetupTask, proxies[i].id),
               UNCHANGED <<status, healthTimer, readyForFailover>>
        PROVE  Phases'
    <3>1. /\ tasks'[SetupTask].pc = "enable" /\ tasks'[SetupTask].res = "none"
          /\ TaskOK(tasks'[SetupTask], td.server) /\ SetupOK(tasks'[SetupTask], td.server)
          /\ QueueOK(queue', td.server) /\ Adds(queue') = Adds(queue)
      BY <1>3, <1>k, <2>2, SendEnableKnown
    <3>. QED  BY <1>1, <1>2, <2>2, <2>e, <3>1, ChoosingKept
  <2>3. ASSUME NEW i \in direct,
               PingNext(SetupTask, [Idle EXCEPT !.kind = "setup",
                           !.left = Candidates(proxies, direct), !.first = proxies[i].id]),
               UNCHANGED <<status, healthTimer, readyForFailover, queue>>
        PROVE  Phases'
    <3> DEFINE rec == [Idle EXCEPT !.kind = "setup", !.left = Candidates(proxies, direct), !.first = proxies[i].id]
    <3>0. i \in DOMAIN proxies /\ direct \in SUBSET (DOMAIN proxies)
      OBVIOUS
    <3>1. Candidates(proxies, direct) \subseteq Candidate /\ \A c \in Candidates(proxies, direct) : KnownId(td.server, c.id)
      <4> HIDE DEF direct
      <4>. QED  BY <1>0, <1>3, <3>0, CandidatesType, CandidatesKnown
    <3>2. proxies[i].id \in 0 .. MaxId /\ KnownId(td.server, proxies[i].id)
      BY <1>k, <3>0 DEF KnownId, Ids
    <3>3. rec \in Task /\ rec.left = Candidates(proxies, direct) /\ rec.first = proxies[i].id
      <4> HIDE DEF direct
      <4>. QED  BY <3>1, <3>2, IdleType DEF Task, Kinds, Idle
    <3>p. PingNext(SetupTask, rec) /\ \A c \in rec.left : KnownId(td.server, c.id)
      BY <2>3, <3>1, <3>3
    <3> HIDE DEF direct, rec
    <3>4. TaskOK(tasks'[SetupTask], td.server) /\ tasks'[SetupTask].pc = "ping" /\ tasks'[SetupTask].first = rec.first
      BY <1>0, <3>3, <3>p, PingNextKnown
    <3>5. SetupOK(tasks'[SetupTask], td.server)
      BY <3>2, <3>3, <3>4 DEF SetupOK
    <3>. QED  BY <1>1, <1>2, <1>3, <2>3, <2>e, <3>4, <3>5, ChoosingKept
  <2>. QED  BY <1>4, <2>1, <2>2, <2>3 DEF EnableFirstAvailable
<1>5. CASE SetupPinged
  <2>0. /\ S.pc = "ping" /\ proxies' = PingHealth(proxies, S) /\ UNCHANGED <<healthTimer, readyForFailover>>
    BY <1>5 DEF SetupPinged, PingReturned, Resuming, S, ctlVars
  <2>e. SameIds(proxies, proxies') /\ \A i \in DOMAIN proxies : proxies'[i].name = proxies[i].name
    BY <1>0, <2>0, PingHealthNames
  <2>k. KnownId(td.server, S.id) /\ KnownId(td.server, S.first) /\ \A c \in S.left : KnownId(td.server, c.id)
    BY <1>3, <2>0 DEF TaskOK, SetupOK
  <2>1. ASSUME NEW id, KnownId(td.server, id), SendEnable(SetupTask, id) PROVE Phases'
    <3>1. /\ tasks'[SetupTask].pc = "enable" /\ tasks'[SetupTask].res = "none"
          /\ TaskOK(tasks'[SetupTask], td.server) /\ SetupOK(tasks'[SetupTask], td.server)
          /\ QueueOK(queue', td.server) /\ Adds(queue') = Adds(queue)
      BY <1>3, <2>1, SendEnableKnown
    <3>. QED  BY <1>1, <1>2, <2>0, <2>e, <3>1, ChoosingKept
  <2>2. ASSUME PingNext(SetupTask, S), UNCHANGED queue PROVE Phases'
    <3>1. TaskOK(tasks'[SetupTask], td.server) /\ tasks'[SetupTask].pc = "ping" /\ tasks'[SetupTask].first = S.first
      BY <1>0, <2>2, <2>k, PingNextKnown
    <3>2. SetupOK(tasks'[SetupTask], td.server)
      BY <2>k, <3>1 DEF SetupOK
    <3>. QED  BY <1>1, <1>2, <1>3, <2>0, <2>2, <2>e, <3>1, <3>2, ChoosingKept
  <2>3. ASSUME NEW i \in DOMAIN proxies, UNCHANGED queue,
               tasks' = [tasks EXCEPT ![SetupTask] =
                   PingFields([S EXCEPT !.kind = "setupSystem", !.retries = Retries], proxies[i].id)]
        PROVE  Phases'
    <3>1. /\ tasks'[SetupTask].pc = "ping" /\ tasks'[SetupTask].id = proxies[i].id
          /\ tasks'[SetupTask].left = S.left /\ tasks'[SetupTask].first = S.first
      BY <1>0, <2>3 DEF PingFields, Task
    <3>2. TaskOK(tasks'[SetupTask], td.server) /\ SetupOK(tasks'[SetupTask], td.server)
      BY <1>k, <2>k, <3>1 DEF TaskOK, SetupOK
    <3>. QED  BY <1>1, <1>2, <1>3, <2>0, <2>3, <2>e, <3>1, <3>2, ChoosingKept
  <2>. QED  BY <1>5, <2>1, <2>2, <2>3, <2>k DEF SetupPinged, S
<1>. QED  BY <1>4, <1>5

LEMMA EndSteps ==
    ASSUME TypeOK, TypeOK', LockInv, Phases, Steady, Steady', SetupEnabled \/ RegisterSavedUserProxies
    PROVE  Phases'
<1> USE SetupIsTask
<1>0. /\ tasks \in [Tasks -> Task] /\ S \in Task /\ setups \in Nat /\ queue \in Seq(Request)
      /\ proxies \in Seq(Entry) /\ saved \in Seq(Config)
  BY DEF TypeOK, EnvType, TdType, RegType, S
<1>1. \A u \in Tasks \ {SetupTask} : tasks'[u] = tasks[u]
  BY SetupOthers DEF Setup
<1>2. /\ UNCHANGED <<td, setups>> /\ S.pc \in {"enable", "users"} /\ tasks'[SetupTask].pc \in {"users", "idle"}
  <2>1. CASE SetupEnabled
    BY <1>0, <2>1 DEF SetupEnabled, SetupEpilogue, Resuming, S, envVars, tdVars, Idle
  <2>2. CASE RegisterSavedUserProxies
    BY <1>0, <2>2 DEF RegisterSavedUserProxies, S, envVars, Idle
  <2>. QED  BY <2>1, <2>2
<1>3. setups # 0 /\ ~Purging /\ ~Purging' /\ QueueOK(queue, td.server)
  BY <1>2, PlaceInUse DEF Purging, PurgePCs, S, Phases, PhaseKnown
<1>4. td.enabled # 0
  <2>1. CASE SetupEnabled
    BY <2>1 DEF SetupEnabled, Resuming, Phases, PhaseChoice, S
  <2>2. CASE RegisterSavedUserProxies
    BY <2>2 DEF RegisterSavedUserProxies, Phases, PhaseDone, S
  <2>. QED  BY <2>1, <2>2
<1>5. QueueOK(queue', td.server)
  BY <1>0, <1>3, QueueAdds DEF SetupEnabled, RegisterSavedUserProxies, tdVars
<1>6. SameIds(proxies, proxies')
  BY <1>0, EntriesKept DEF SetupEnabled, RegisterSavedUserProxies
<1>7. PhasePurge' /\ PhaseChoice' /\ PhaseDone'
  BY <1>2, <1>3, <1>4 DEF PhasePurge, PhaseChoice, PhaseDone, Purging, S, PurgePCs, ChoicePCs
<1>8. PhaseKnown'
  <2>1. TaskOK(tasks'[SetupTask], td.server) /\ SetupOK(tasks'[SetupTask], td.server)
    BY <1>2 DEF TaskOK, SetupOK
  <2>. QED  BY <1>1, <1>2, <1>5, <1>6, <2>1, KnownKept DEF Phases
<1>. QED  BY <1>7, <1>8 DEF Phases

-----------------------------------------------------------------------------
(* The other steps                                                         *)

\* Once something else runs, setupProxies has chosen.
LEMMA Chosen ==
    ASSUME TypeOK, LockInv, Phases, Steady,
           initialized \/ readyForFailover \/ healthTimer \/ (\E t \in Workers : tasks[t].pc # "idle")
    PROVE  setups # 0 /\ S.pc \in {"users", "idle"} /\ td.enabled # 0 /\ ~Purging /\ QueueOK(queue, td.server)
<1>1. ~Solo
  BY DEF Solo
<1>2. ~Purging /\ setups # 0 /\ S.pc \notin ChoicePCs /\ S.pc \notin PurgePCs
  BY <1>1 DEF Phases, PhasePurge, PhaseChoice, Purging
<1>3. S.pc \in PCs /\ S.pc # "prefs"
  <2>1. S \in Task
    BY SetupIsTask DEF TypeOK, S
  <2>2. S.pc # "prefs"
    BY SetupIsTask DEF LockInv, KindOK, S
  <2>. QED  BY <2>1, <2>2 DEF Task
<1>4. S.pc \in {"users", "idle"}
  BY <1>2, <1>3 DEF PCs, PurgePCs, ChoicePCs
<1>. QED  BY <1>1, <1>2, <1>4 DEF Phases, PhaseKnown, PhaseDone, Bare

\* A step of a worker.
LEMMA WorkerStep ==
    ASSUME TypeOK, LockInv, Phases, Steady, setups' = setups, td' = td, NEW t \in Workers,
           initialized \/ readyForFailover \/ healthTimer \/ tasks[t].pc # "idle",
           \A u \in Tasks \ {t} : tasks'[u] = tasks[u], TaskOK(tasks'[t], td.server),
           SameIds(proxies, proxies'), QueueOK(queue', td.server)
    PROVE  Phases'
<1>0. t \in Tasks /\ t # SetupTask /\ SetupTask \in Tasks
  BY WorkersAreTasks, SetupIsTask
<1>1. setups # 0 /\ S.pc \in {"users", "idle"} /\ td.enabled # 0 /\ ~Purging
  BY Chosen
<1>2. tasks'[SetupTask] = tasks[SetupTask]
  BY <1>0
<1>3. PhaseKnown'
  BY <1>0, KnownKept DEF Phases
<1>4. PhasePurge' /\ PhaseChoice' /\ PhaseDone'
  BY <1>1, <1>2 DEF PhasePurge, PhaseChoice, PhaseDone, Purging, S, PurgePCs, ChoicePCs
<1>. QED  BY <1>3, <1>4 DEF Phases

LEMMA SwitchKnown ==
    ASSUME TypeOK, NEW t \in Tasks, EntriesOK(proxies, td.server), SwitchToNextProxy(t)
    PROVE  (\A u \in Tasks \ {t} : tasks'[u] = tasks[u]) /\ TaskOK(tasks'[t], td.server)
<1>0. tasks \in [Tasks -> Task] /\ proxies \in Seq(Entry)
  BY DEF TypeOK, RegType
<1>1. CASE tasks' = [tasks EXCEPT ![t] = Idle]
  BY <1>0, <1>1 DEF Idle, TaskOK
<1>2. ASSUME NEW c \in {0} \cup {Rank(proxies, i) : i \in ActiveIndices(proxies)},
             PingNext(t, [Idle EXCEPT !.kind = "failover", !.cur = c,
                 !.left = Candidates(proxies, DOMAIN proxies \ ActiveIndices(proxies))])
      PROVE  (\A u \in Tasks \ {t} : tasks'[u] = tasks[u]) /\ TaskOK(tasks'[t], td.server)
  <2> DEFINE rest == DOMAIN proxies \ ActiveIndices(proxies)
             rec == [Idle EXCEPT !.kind = "failover", !.cur = c, !.left = Candidates(proxies, rest)]
  <2>1. c \in Nat
    <3>1. DOMAIN proxies = 1 .. Len(proxies) /\ Len(proxies) \in Nat
      BY <1>0, LenProperties
    <3>2. \A i \in ActiveIndices(proxies) : Rank(proxies, i) \in Nat
      BY <3>1 DEF ActiveIndices, Rank
    <3>. QED  BY <3>2
  <2>2. rest \in SUBSET (DOMAIN proxies) /\ PingNext(t, rec)
    BY <1>2
  <2> HIDE DEF rest
  <2>3. Candidates(proxies, rest) \subseteq Candidate /\ \A k \in Candidates(proxies, rest) : KnownId(td.server, k.id)
    BY <1>0, <2>2, CandidatesType, CandidatesKnown
  <2>4. rec \in Task /\ rec.left = Candidates(proxies, rest)
    BY <2>1, <2>3, IdleType DEF Task, Kinds, Idle
  <2> HIDE DEF rec
  <2>. QED  BY <1>0, <2>2, <2>3, <2>4, PingNextKnown
<1>. QED  BY <1>1, <1>2 DEF SwitchToNextProxy

\* A ping that is repeated, or given up, or canceled, by whomever.
LEMMA PingMoves ==
    ASSUME TypeOK, LockInv, Phases, Steady, NEW t \in Tasks, PingCanceled(t) \/ PingAgain(t) \/ PingTimeout(t)
    PROVE  Phases'
<1> USE SetupIsTask
<1>0. tasks \in [Tasks -> Task] /\ tasks[t] \in Task
  BY DEF TypeOK
<1>1. UNCHANGED <<proxies, queue, td, setups, initialized, healthTimer, readyForFailover>>
  BY DEF PingCanceled, PingAgain, PingTimeout, regVars, ctlVars, tdVars, envVars
<1>2. /\ \A u \in Tasks \ {t} : tasks'[u] = tasks[u]
      /\ tasks[t].pc \in {"ping", "settle"} /\ tasks'[t].pc \in {"ping", "settle"}
      /\ tasks'[t].id = tasks[t].id /\ tasks'[t].left = tasks[t].left /\ tasks'[t].first = tasks[t].first
  <2>1. CASE PingCanceled(t)
    BY <1>0, <2>1 DEF PingCanceled, Task
  <2>2. CASE PingAgain(t)
    BY <1>0, <2>2 DEF PingAgain, PingFields, Task
  <2>3. CASE PingTimeout(t)
    BY <1>0, <2>3 DEF PingTimeout, Task
  <2>. QED  BY <2>1, <2>2, <2>3
<1>3. TaskOK(tasks[t], td.server) /\ (t = SetupTask => SetupOK(tasks[t], td.server)) /\ (~Purging => QueueOK(queue, td.server))
  BY DEF Phases, PhaseKnown, S
<1>4. TaskOK(tasks'[t], td.server) /\ (t = SetupTask => SetupOK(tasks'[t], td.server)) /\ SameIds(proxies, proxies')
  BY <1>1, <1>2, <1>3 DEF TaskOK, SetupOK, SameIds
<1>5. CASE t # SetupTask
  <2>1. t \in Workers
    BY <1>5, WorkersAreTasks
  <2>2. tasks[t].pc # "idle"
    BY <1>2
  <2>3. QueueOK(queue, td.server)
    BY <2>1, <2>2, Chosen
  <2>. QED  BY <1>1, <1>2, <1>4, <2>1, <2>2, <2>3, WorkerStep
<1>6. CASE t = SetupTask
  <2>1. setups # 0 /\ ~Purging /\ ~Purging'
    BY <1>1, <1>2, <1>6, PlaceInUse DEF Purging, PurgePCs, S
  <2>2. Solo /\ (MTProto # <<>> \/ HasSystem) /\ OnlySystem
    BY <1>2, <1>6 DEF Phases, PhaseChoice, ChoicePCs, S
  <2>3. Solo' /\ OnlySystem'
    BY <1>1, <1>2, <1>6, <2>2, SoloKept, WorkersAreTasks DEF OnlySystem
  <2>4. PhasePurge' /\ PhaseChoice' /\ PhaseDone'
    BY <1>2, <1>6, <2>1, <2>2, <2>3 DEF PhasePurge, PhaseChoice, PhaseDone, S, ChoicePCs
  <2>5. PhaseKnown'
    BY <1>1, <1>2, <1>3, <1>4, <1>6, <2>1, KnownKept DEF Phases
  <2>. QED  BY <2>4, <2>5 DEF Phases
<1>. QED  BY <1>5, <1>6

LEMMA ResumePhases == ASSUME TypeOK, LockInv, Phases, Steady, NEW t \in Tasks, Resume(t) PROVE Phases'
<1>0. tasks \in [Tasks -> Task] /\ tasks[t] \in Task /\ proxies \in Seq(Entry) /\ queue \in Seq(Request)
  BY DEF TypeOK, RegType, TdType
<1>1. CASE PingCanceled(t)
  BY <1>1, PingMoves
<1>2. CASE ~PingCanceled(t)
  <2>0. /\ td' = td /\ setups' = setups /\ tasks[t].pc \in {"ping", "enable"}
        /\ tasks[t].kind \in {"failover", "activate", "test", "health"}
    BY <1>2 DEF Resume, FailoverPinged, ActivatePinged, TestPinged, HealthPinged,
         FailoverEnabled, ActivateEnabled, PingReturned, Resuming, envVars, tdVars
  <2>1. t \in Workers
    BY <2>0, WorkersAreTasks DEF LockInv, KindOK
  <2>2. QueueOK(queue, td.server)
    BY <2>0, <2>1, Chosen
  <2>3. /\ EntriesOK(proxies, td.server) /\ KnownId(td.server, tasks[t].id)
        /\ tasks[t].pc = "ping" => \A c \in tasks[t].left : KnownId(td.server, c.id)
    BY <2>0 DEF Phases, PhaseKnown, TaskOK
  <2>4. SameIds(proxies, proxies')
    BY ResumeQuiet DEF QuietShape
  <2>w. ASSUME \A u \in Tasks \ {t} : tasks'[u] = tasks[u], TaskOK(tasks'[t], td.server), QueueOK(queue', td.server)
        PROVE  Phases'
    BY <2>0, <2>1, <2>4, <2>w, WorkerStep
  <2>i. ASSUME tasks' = [tasks EXCEPT ![t] = Idle], UNCHANGED queue PROVE Phases'
    <3>1. \A u \in Tasks \ {t} : tasks'[u] = tasks[u]
      BY <1>0, <2>i
    <3>2. TaskOK(tasks'[t], td.server)
      BY <1>0, <2>i DEF Idle, TaskOK
    <3>. QED  BY <2>2, <2>i, <2>w, <3>1, <3>2
  <2>s. ASSUME SendEnable(t, tasks[t].id) PROVE Phases'
    BY <2>2, <2>3, <2>s, <2>w, SendEnableKnown
  <2>p. ASSUME PingNext(t, tasks[t]), UNCHANGED queue, tasks[t].pc = "ping" PROVE Phases'
    BY <1>0, <2>2, <2>3, <2>p, <2>w, PingNextKnown
  <2>c. ASSUME SwitchToNextProxy(t), UNCHANGED queue PROVE Phases'
    BY <2>2, <2>3, <2>c, <2>w, SwitchKnown
  <2>5. CASE FailoverPinged(t)
    BY <2>5, <2>i, <2>s, <2>p DEF FailoverPinged, PingReturned, Resuming
  <2>6. CASE ActivatePinged(t)
    BY <2>6, <2>s DEF ActivatePinged
  <2>7. CASE TestPinged(t) \/ FailoverEnabled(t) \/ ActivateEnabled(t)
    BY <2>7, <2>i DEF TestPinged, FailoverEnabled, ActivateEnabled, tdVars
  <2>8. CASE HealthPinged(t)
    BY <2>8, <2>i, <2>c DEF HealthPinged, tdVars
  <2>. QED  BY <1>2, <2>5, <2>6, <2>7, <2>8 DEF Resume
<1>. QED  BY <1>1, <1>2

LEMMA SavedPhases ==
    ASSUME TypeOK, LockInv, Phases, Steady, NEW t \in Tasks, UserProxySaved(t) PROVE Phases'
<1>0. tasks \in [Tasks -> Task] /\ tasks[t] \in Task /\ queue \in Seq(Request)
  BY DEF TypeOK, TdType
<1>1. /\ td' = td /\ setups' = setups /\ proxies' = proxies /\ tasks[t].pc = "prefs"
      /\ queue' = Append(queue, AddReq(tasks[t].cfg)) /\ tasks' = [tasks EXCEPT ![t] = Idle]
  BY DEF UserProxySaved, envVars
<1>2. t \in Workers
  BY <1>1, WorkersAreTasks DEF LockInv, KindOK
<1>3. QueueOK(queue, td.server)
  BY <1>1, <1>2, Chosen
<1>4. QueueOK(queue', td.server)
  BY <1>0, <1>1, <1>3, QueueAppend DEF AddReq, Req
<1>5. (\A u \in Tasks \ {t} : tasks'[u] = tasks[u]) /\ TaskOK(tasks'[t], td.server)
  BY <1>0, <1>1 DEF Idle, TaskOK
<1>6. SameIds(proxies, proxies')
  BY <1>1 DEF SameIds
<1>. QED  BY <1>1, <1>2, <1>4, <1>5, <1>6, WorkerStep

LEMMA CallsPhases == ASSUME TypeOK, LockInv, Phases, Steady, NEW t \in Workers, Calls(t) PROVE Phases'
<1>0. tasks \in [Tasks -> Task] /\ t \in Tasks /\ proxies \in Seq(Entry) /\ queue \in Seq(Request)
  BY DEF TypeOK, TdType, RegType, Tasks
<1>1. /\ td' = td /\ setups' = setups /\ queue' = queue
      /\ initialized \/ readyForFailover \/ healthTimer
  BY DEF Calls, HandleConnectionState, HealthTick, NextProxyPressed, ActivateProxy, TestProxy, AddUserProxy,
     envVars, tdVars
<1>2. QueueOK(queue', td.server) /\ EntriesOK(proxies, td.server)
  BY <1>1, Chosen DEF Phases, PhaseKnown
<1>3. SameIds(proxies, proxies')
  <2>1. CASE AddUserProxy(t)
    BY <2>1 DEF AddUserProxy, SameIds
  <2>. QED  BY <2>1, CallsQuiet DEF QuietShape
<1>4. (\A u \in Tasks \ {t} : tasks'[u] = tasks[u]) /\ TaskOK(tasks'[t], td.server)
  <2>1. CASE HandleConnectionState(t) \/ NextProxyPressed(t)
    BY <1>0, <1>2, <2>1, SwitchKnown DEF HandleConnectionState, NextProxyPressed
  <2>2. ASSUME NEW i \in DOMAIN proxies, NEW kind,
               tasks' = [tasks EXCEPT ![t] =
                   PingFields([Idle EXCEPT !.kind = kind, !.retries = Retries], proxies[i].id)]
        PROVE  (\A u \in Tasks \ {t} : tasks'[u] = tasks[u]) /\ TaskOK(tasks'[t], td.server)
    <3>1. tasks'[t].id = proxies[i].id /\ tasks'[t].left = {} /\ \A u \in Tasks \ {t} : tasks'[u] = tasks[u]
      BY <1>0, <2>2 DEF PingFields, Idle
    <3>. QED  BY <1>2, <3>1 DEF TaskOK, EntriesOK
  <2>3. CASE HealthTick(t) \/ ActivateProxy(t) \/ TestProxy(t)
    BY <2>2, <2>3 DEF HealthTick, ActivateProxy, TestProxy, ActiveIndices
  <2>4. CASE AddUserProxy(t)
    BY <1>0, <2>4 DEF AddUserProxy, Idle, TaskOK
  <2>. QED  BY <2>1, <2>3, <2>4 DEF Calls
<1>. QED  BY <1>1, <1>2, <1>3, <1>4, WorkerStep

-----------------------------------------------------------------------------
(* Answers                                                                 *)

\* An answer wakes tasks and moves none.
Woken(t) ==
    /\ tasks'[t].pc = tasks[t].pc /\ tasks'[t].id = tasks[t].id
    /\ tasks'[t].left = tasks[t].left \/ tasks[t].pc \notin {"ping", "settle"}
    /\ tasks'[t].first = tasks[t].first

LEMMA ResolveWakes ==
    ASSUME tasks \in [Tasks -> Task], NEW W, NEW res, NEW stale, tasks' = Resolve(W, res, stale)
    PROVE  /\ \A t \in Tasks : Woken(t)
           /\ \A t \in Tasks : IF t \in W THEN tasks'[t].res = res ELSE tasks'[t] = tasks[t]
<1>1. ASSUME NEW t \in Tasks
      PROVE  Woken(t) /\ (IF t \in W THEN tasks'[t].res = res ELSE tasks'[t] = tasks[t])
  <2>1. tasks[t] \in Task
    OBVIOUS
  <2>2. CASE t \in W
    <3>1. tasks'[t] = [tasks[t] EXCEPT !.res = res, !.stale = (stale /\ res = "ok")]
      BY <2>2 DEF Resolve
    <3>. QED  BY <2>1, <2>2, <3>1 DEF Woken, Task
  <2>3. CASE t \notin W
    BY <2>3 DEF Resolve, Woken
  <2>. QED  BY <2>2, <2>3
<1>. QED  BY <1>1

LEMMA WokenKnown ==
    ASSUME NEW srv, NEW srv2, \A t \in Tasks : Woken(t), \A id \in Ids : srv[id] # NoServer => srv2[id] # NoServer,
           \A t \in Tasks : TaskOK(tasks[t], srv), SetupOK(S, srv)
    PROVE  (\A t \in Tasks : TaskOK(tasks'[t], srv2)) /\ SetupOK(tasks'[SetupTask], srv2)
<1>1. ASSUME NEW t \in Tasks PROVE TaskOK(tasks'[t], srv2)
  <2>1. Woken(t) /\ TaskOK(tasks[t], srv)
    OBVIOUS
  <2>. QED  BY <2>1 DEF TaskOK, KnownId, Woken
<1>2. SetupOK(tasks'[SetupTask], srv2)
  BY SetupIsTask DEF SetupOK, KnownId, S, Woken
<1>. QED  BY <1>1, <1>2

\* While the stored proxies are purged an answer is the awaited one; later none of these comes.
LEMMA PurgeAnswers ==
    ASSUME TypeOK, LockInv, Phases, Steady, DisableAnswer \/ ListAnswer \/ RemoveAnswer
    PROVE  Phases'
<1> USE SetupIsTask
<1>0. /\ tasks \in [Tasks -> Task] /\ S \in Task /\ queue \in Seq(Request) /\ proxies \in Seq(Entry)
  BY DEF TypeOK, TdType, RegType, S
<1>1. PICK op \in {"disable", "list", "remove"} :
         /\ queue # <<>> /\ Head1.op = op /\ queue' = Tail(queue)
         /\ op = "disable" => DisableAnswer
         /\ op = "list" => ListAnswer
         /\ op = "remove" => RemoveAnswer
  BY DEF DisableAnswer, ListAnswer, RemoveAnswer, Answering
<1>2. UNCHANGED <<proxies, initialized, readyForFailover, healthTimer, setups>>
  BY DEF DisableAnswer, ListAnswer, RemoveAnswer, regVars, ctlVars, envVars
<1>3. Purging
  <2>1. 1 \in DOMAIN queue
    BY <1>0, <1>1
  <2>. QED  BY <1>1, <2>1 DEF Phases, PhaseKnown, QueueOK, Head1
<1>4. Solo /\ proxies = <<>> /\ S.pc \in {"disable", "list", "remove"} /\ S.res = "none"
  BY <1>1, <1>3 DEF Phases, PhasePurge, PurgeQueue
<1>5. PICK id \in 0 .. MaxId : queue = <<Req(S.pc, id, NoConfig)>>
  BY <1>3, <1>4 DEF Phases, PhasePurge, PurgeQueue
<1>6. Head1.op = S.pc /\ Head1.live = TRUE /\ S.pc = op /\ queue' = <<>>
  BY <1>1, <1>5 DEF Head1, Req
<1>7. /\ \A u \in Tasks \ {SetupTask} : tasks'[u] = tasks[u]
      /\ tasks'[SetupTask].pc = S.pc /\ tasks'[SetupTask].res \in {"ok", "error"}
  <2>1. ASSUME NEW res \in {"ok", "error"}, tasks' = Resolve({SetupTask}, res, FALSE)
        PROVE  /\ \A u \in Tasks \ {SetupTask} : tasks'[u] = tasks[u]
               /\ tasks'[SetupTask].pc = S.pc /\ tasks'[SetupTask].res \in {"ok", "error"}
    <3>1. /\ \A t \in Tasks : Woken(t)
          /\ \A t \in Tasks : IF t \in {SetupTask} THEN tasks'[t].res = res ELSE tasks'[t] = tasks[t]
      BY <1>0, <2>1, ResolveWakes
    <3>2. Woken(SetupTask) /\ tasks'[SetupTask].res = res
      BY <3>1
    <3>. QED  BY <2>1, <3>1, <3>2 DEF Woken, S
  <2>2. CASE op = "disable"
    BY <1>1, <1>6, <2>1, <2>2 DEF DisableAnswer, S
  <2>3. CASE op = "list"
    <3>1. ListAnswer /\ tasks[SetupTask].pc = "list"
      BY <1>1, <1>6, <2>3 DEF S
    <3>2. /\ \A u \in Tasks \ {SetupTask} : tasks'[u] = tasks[u]
          /\ tasks'[SetupTask].pc = S.pc /\ tasks'[SetupTask].res = "ok"
      BY <1>0, <3>1 DEF ListAnswer, Task, S
    <3>. QED  BY <3>2
  <2>4. CASE op = "remove"
    <3>1. tasks' = Resolve({SetupTask}, "ok", FALSE) \/ tasks' = Resolve({SetupTask}, "error", FALSE)
      BY <1>1, <1>6, <2>4 DEF RemoveAnswer, S
    <3>2. CASE tasks' = Resolve({SetupTask}, "ok", FALSE)
      BY <2>1, <3>2
    <3>3. CASE tasks' = Resolve({SetupTask}, "error", FALSE)
      BY <2>1, <3>3
    <3>. QED  BY <3>1, <3>2, <3>3
  <2>. QED  BY <2>2, <2>3, <2>4
<1>8. Solo'
  BY <1>2, <1>4, <1>7, SoloKept, WorkersAreTasks
<1>9. PhasePurge' /\ PhaseChoice' /\ PhaseDone'
  BY <1>2, <1>4, <1>6, <1>7, <1>8
  DEF PhasePurge, PhaseChoice, PhaseDone, PurgeQueue, S, PurgePCs, ChoicePCs
<1>10. PhaseKnown'
  <2>1. Purging' /\ EntriesOK(proxies', td'.server)
    BY <1>2, <1>4, <1>7 DEF Purging, S, PurgePCs, EntriesOK
  <2>2. \A t \in Tasks : tasks'[t].pc \notin {"ping", "settle", "enable"}
    BY <1>4, <1>7, WorkersAreTasks DEF Solo
  <2>3. (\A t \in Tasks : TaskOK(tasks'[t], td'.server)) /\ SetupOK(tasks'[SetupTask], td'.server)
    BY <2>2 DEF TaskOK, SetupOK
  <2>. QED  BY <2>1, <2>3 DEF PhaseKnown, S
<1>. QED  BY <1>9, <1>10 DEF Phases

\* After the purge an answer keeps the phases if it keeps the proxies of TDLib.
LEMMA AnswerKept ==
    ASSUME TypeOK, LockInv, Phases, Steady, ~Purging, queue # <<>>,
           UNCHANGED <<setups, initialized, readyForFailover, healthTimer>>,
           \A t \in Tasks : Woken(t),
           \A id \in Ids : td.server[id] # NoServer => td'.server[id] # NoServer,
           EntriesOK(proxies', td'.server), QueueOK(queue', td'.server),
           td.enabled # 0 => td'.enabled # 0,
           S.pc = "enable" => \/ tasks'[SetupTask].res = S.res
                              \/ tasks'[SetupTask].res = "ok" /\ td'.enabled # 0,
           Len(proxies) <= Len(proxies'), Len(proxies') \in Nat,
           S.pc \in ChoicePCs => OnlySystem'
    PROVE  Phases'
<1> USE SetupIsTask
<1>0. Expected \in Nat /\ Len(proxies) \in Nat
  BY ConfigAssumption DEF Expected, TypeOK, RegType
<1>1. tasks'[SetupTask].pc = S.pc /\ (Solo => Solo') /\ ~Purging'
  BY WorkersAreTasks DEF Solo, Woken, S, Purging
<1>2. PhaseKnown'
  BY <1>1, WokenKnown DEF Phases, PhaseKnown, S
<1>3. PhasePurge' /\ PhaseDone'
  BY <1>1 DEF PhasePurge, PhaseDone, Phases, Bare, S
<1>4. PhaseChoice'
  <2>1. S.pc \in ChoicePCs => Solo' /\ (MTProto # <<>> \/ HasSystem) /\ OnlySystem'
    BY <1>1 DEF Phases, PhaseChoice
  <2>2. S.pc = "choose" => Len(proxies') >= Expected
    BY <1>0 DEF Phases, PhaseChoice
  <2>3. S.pc = "enable" => tasks'[SetupTask].res \in {"none", "ok"} /\ (tasks'[SetupTask].res = "ok" => td'.enabled # 0)
    BY DEF Phases, PhaseChoice
  <2>. QED  BY <1>1, <2>1, <2>2, <2>3 DEF PhaseChoice, S
<1>. QED  BY <1>2, <1>3, <1>4 DEF Phases

LEMMA EnablePhases == ASSUME TypeOK, LockInv, Phases, Steady, EnableAnswer PROVE Phases'
<1> USE SetupIsTask
<1> DEFINE id == Head1.id
           W  == {t \in Tasks : tasks[t].pc = "enable" /\ tasks[t].id = id}
<1>0. /\ tasks \in [Tasks -> Task] /\ queue \in Seq(Request) /\ proxies \in Seq(Entry) /\ Len(proxies) \in Nat
      /\ td \in [server : [Ids -> STRING], enabled : 0 .. MaxId, next : 1 .. MaxId + 1] /\ MaxId \in Nat
  BY LenProperties, BoundAssumption DEF TypeOK, TdType, RegType
<1>1. queue # <<>> /\ Head1.op = "enable" /\ queue' = Tail(queue) /\ 1 \in DOMAIN queue
      /\ UNCHANGED <<proxies, setups, initialized, readyForFailover, healthTimer>>
  BY <1>0 DEF EnableAnswer, Answering, regVars, ctlVars, envVars
<1>2. ~Purging
  <2>1. ASSUME Purging PROVE FALSE
    <3>1. PICK k \in 0 .. MaxId : S.pc \in {"disable", "list", "remove"} /\ queue = <<Req(S.pc, k, NoConfig)>>
      BY <1>1, <2>1 DEF Phases, PhasePurge, PurgeQueue
    <3>. QED  BY <1>1, <3>1 DEF Head1, Req
  <2>. QED  BY <2>1
<1>3. QueueOK(queue, td.server) /\ KnownId(td.server, id)
  BY <1>1, <1>2 DEF Phases, PhaseKnown, QueueOK, Head1
<1>4. td' = [td EXCEPT !.enabled = id] /\ tasks' = Resolve(W, "ok", FALSE)
  BY <1>3 DEF EnableAnswer, KnownId
<1>5. td'.server = td.server /\ td'.enabled # 0
  BY <1>0, <1>3, <1>4 DEF KnownId, Ids
<1> HIDE DEF id, W
<1>6. /\ \A t \in Tasks : Woken(t)
      /\ tasks'[SetupTask].res = "ok" \/ tasks'[SetupTask] = tasks[SetupTask]
  <2>1. /\ \A t \in Tasks : Woken(t)
        /\ \A t \in Tasks : IF t \in W THEN tasks'[t].res = "ok" ELSE tasks'[t] = tasks[t]
    BY <1>0, <1>4, ResolveWakes
  <2>. QED  BY <2>1
<1>7. QueueOK(queue', td'.server) /\ EntriesOK(proxies', td'.server) /\ Adds(queue') \subseteq Adds(queue)
  BY <1>0, <1>1, <1>3, <1>5, QueueTail, AddsTail DEF Phases, PhaseKnown
<1>8. S.pc \in ChoicePCs => OnlySystem'
  BY <1>1, <1>7 DEF Phases, PhaseChoice, OnlySystem
<1>. QED  BY <1>0, <1>1, <1>2, <1>5, <1>6, <1>7, <1>8, AnswerKept DEF S

LEMMA AddPhases ==
    ASSUME TypeOK, LockInv, Registry, Phases, Steady, AddAnswer \/ AddRefused PROVE Phases'
<1> USE SetupIsTask
<1> DEFINE cfg == Head1.cfg
<1>0. /\ tasks \in [Tasks -> Task] /\ queue \in Seq(Request) /\ proxies \in Seq(Entry) /\ Len(proxies) \in Nat
      /\ td \in [server : [Ids -> STRING], enabled : 0 .. MaxId, next : 1 .. MaxId + 1] /\ MaxId \in Nat
  BY LenProperties, BoundAssumption DEF TypeOK, TdType, RegType
<1>1. queue # <<>> /\ Head1.op = "add" /\ queue' = Tail(queue) /\ 1 \in DOMAIN queue
      /\ UNCHANGED <<tasks, setups, initialized, readyForFailover, healthTimer>>
  BY <1>0 DEF AddAnswer, AddRefused, Answering, ctlVars, envVars
<1>2. ~Purging
  <2>1. ASSUME Purging PROVE FALSE
    <3>1. PICK k \in 0 .. MaxId : S.pc \in {"disable", "list", "remove"} /\ queue = <<Req(S.pc, k, NoConfig)>>
      BY <1>1, <2>1 DEF Phases, PhasePurge, PurgeQueue
    <3>. QED  BY <1>1, <3>1 DEF Head1, Req
  <2>. QED  BY <2>1
<1>3. /\ QueueOK(queue, td.server) /\ EntriesOK(proxies, td.server) /\ cfg \in Adds(queue)
      /\ \A t \in Tasks : Woken(t)
  BY <1>1, <1>2 DEF Phases, PhaseKnown, Adds, Head1, Woken
<1>4. cfg \in Configs \cup {SystemConfig} /\ cfg.server # NoServer
  <2>1. cfg \in Configs \cup {SystemConfig}
    BY <1>3 DEF Registry, Sources
  <2>. QED  BY <2>1, ConfigAssumption DEF SystemConfig, SystemServer, NoServer
<1>5. QueueOK(queue', td.server) /\ Adds(queue') \subseteq Adds(queue)
  BY <1>0, <1>1, <1>3, QueueTail, AddsTail
<1>6. /\ td'.enabled = td.enabled
      /\ \A k \in Ids : td.server[k] # NoServer => td'.server[k] # NoServer
      /\ \/ proxies' = proxies
         \/ \E id \in Ids : td'.server[id] # NoServer /\ proxies' = Append(proxies, NewEntry(id, cfg))
  <2>1. CASE AddRefused
    BY <2>1 DEF AddRefused
  <2>2. ASSUME NEW id \in Ids, td.server[id] = cfg.server, td' = td, RegisterAddedProxy(id, cfg)
        PROVE  <1>6!:
    BY <1>4, <2>2, AddedShape
  <2>3. ASSUME td.next \in Ids, RegisterAddedProxy(td.next, cfg),
               td' = [td EXCEPT !.server = [@ EXCEPT ![td.next] = cfg.server], !.next = @ + 1]
        PROVE  <1>6!:
    <3>1. td'.enabled = td.enabled /\ td'.server = [td.server EXCEPT ![td.next] = cfg.server]
      BY <1>0, <2>3
    <3>. QED  BY <1>0, <1>4, <2>3, <3>1, AddedShape
  <2>. QED  BY <2>1, <2>2, <2>3 DEF AddAnswer
<1> HIDE DEF cfg
<1>7. QueueOK(queue', td'.server)
  BY <1>5, <1>6 DEF QueueOK, KnownId
<1>8. /\ EntriesOK(proxies', td'.server) /\ Len(proxies) <= Len(proxies') /\ Len(proxies') \in Nat
      /\ S.pc \in ChoicePCs => OnlySystem'
  <2>0. EntriesOK(proxies, td'.server)
    BY <1>3, <1>6 DEF EntriesOK, KnownId
  <2>1. CASE proxies' = proxies
    BY <1>0, <1>5, <2>0, <2>1 DEF Phases, PhaseChoice, OnlySystem
  <2>2. ASSUME NEW id \in Ids, td'.server[id] # NoServer, proxies' = Append(proxies, NewEntry(id, cfg))
        PROVE  <1>8!:
    <3>1. /\ DOMAIN proxies = 1 .. Len(proxies) /\ DOMAIN proxies' = 1 .. Len(proxies) + 1
          /\ proxies'[Len(proxies) + 1] = NewEntry(id, cfg) /\ \A i \in DOMAIN proxies : proxies'[i] = proxies[i]
          /\ Len(proxies') = Len(proxies) + 1
      BY <1>0, <2>2, AppendEntry
    <3>2. \A i \in DOMAIN proxies' : (i \in DOMAIN proxies /\ proxies'[i] = proxies[i]) \/ proxies'[i] = NewEntry(id, cfg)
      BY <1>0, <3>1
    <3>3. EntriesOK(proxies', td'.server)
      BY <2>0, <2>2, <3>2 DEF EntriesOK, KnownId, NewEntry
    <3>4. S.pc \in ChoicePCs => OnlySystem'
      <4>1. SystemConfig.name \in {System, Transport}
        BY DEF SystemConfig
      <4>2. S.pc \in ChoicePCs /\ MTProto = <<>> => cfg = SystemConfig /\ (\A i \in DOMAIN proxies : IsSystemLike(proxies[i])) /\ Adds(queue) \subseteq {SystemConfig}
        BY <1>3 DEF Phases, PhaseChoice, OnlySystem
      <4>. QED  BY <1>5, <3>2, <4>1, <4>2 DEF OnlySystem, IsSystemLike, NewEntry
    <3>. QED  BY <1>0, <3>1, <3>3, <3>4
  <2>. QED  BY <1>6, <2>1, <2>2
<1>. QED  BY <1>1, <1>2, <1>3, <1>6, <1>7, <1>8, AnswerKept DEF S

LEMMA PingPhases == ASSUME TypeOK, LockInv, Phases, Steady, PingAnswers PROVE Phases'
<1> USE SetupIsTask
<1>0. tasks \in [Tasks -> Task]
  BY DEF TypeOK
<1>1. /\ UNCHANGED <<proxies, queue, td, setups, initialized, readyForFailover, healthTimer>>
      /\ \E id, res, stale : tasks' = Resolve(PingWaiters(id), res, stale)
  BY DEF PingAnswers, PingReply, LatePingReply, regVars, ctlVars, envVars
<1>2. /\ \A t \in Tasks : Woken(t)
      /\ \A t \in Tasks : tasks[t].pc # "ping" => tasks'[t] = tasks[t]
  BY <1>0, <1>1, ResolveWakes DEF PingWaiters
<1>3. /\ tasks'[SetupTask].pc = S.pc /\ (S.pc # "ping" => tasks'[SetupTask] = S)
      /\ Solo' = Solo /\ Purging' = Purging
  BY <1>1, <1>2, WorkersAreTasks DEF Woken, S, Solo, Purging
<1>4. PhaseKnown'
  BY <1>1, <1>2, <1>3, WokenKnown DEF Phases, PhaseKnown, S
<1>5. PhasePurge'
  <2>1. CASE S.pc = "ping"
    <3>1. setups # 0
      BY <2>1, PlaceInUse DEF S
    <3>. QED  BY <1>1, <1>3, <2>1, <3>1 DEF PhasePurge, Purging, PurgePCs, S
  <2>2. CASE S.pc # "ping"
    BY <1>1, <1>3, <2>2 DEF Phases, PhasePurge, PurgeQueue, S
  <2>. QED  BY <2>1, <2>2
<1>6. PhaseChoice'
  BY <1>1, <1>3 DEF Phases, PhaseChoice, OnlySystem, S
<1>7. PhaseDone'
  BY <1>1, <1>3 DEF Phases, PhaseDone, Bare, S
<1>. QED  BY <1>4, <1>5, <1>6, <1>7 DEF Phases

-----------------------------------------------------------------------------
(* A proxy is enabled                                                      *)

LEMMA StepPhase ==
    ASSUME TypeOK, TypeOK', LockInv, Registry, PhaseInv, [Next]_vars
    PROVE  PhaseInv'
<1> SUFFICES ASSUME Steady' PROVE Phases'
  BY DEF PhaseInv
<1>1. Steady /\ Phases
  BY SteadyBefore DEF PhaseInv
<1>2. CASE Setup
  <2>1. ~RegistrationTimeout
    BY DEF RegistrationTimeout, Steady
  <2>. QED  BY <1>1, <1>2, <2>1, PurgeSteps, RegisterSteps, ChooseSteps, EndSteps DEF Setup
<1>3. CASE \E t \in Tasks : Resume(t)
  BY <1>1, <1>3, ResumePhases
<1>4. CASE \E t \in Tasks : Timers(t)
  <2>1. \A t \in Tasks : ~ControlTimeout(t)
    BY DEF ControlTimeout, Steady
  <2>. QED  BY <1>1, <1>4, <2>1, PingMoves, SavedPhases DEF Timers
<1>5. CASE Answers
  BY <1>1, <1>5, PurgeAnswers, EnablePhases, AddPhases DEF Answers
<1>6. CASE PingAnswers
  BY <1>1, <1>6, PingPhases
<1>7. CASE \E t \in Workers : Calls(t)
  BY <1>1, <1>7, CallsPhases
<1>8. ASSUME UNCHANGED <<proxies, tasks, td, queue, setups>>,
             UNCHANGED <<initialized, readyForFailover, healthTimer>> \/ AuthReady
      PROVE  Phases'
  <2>1. Purging' = Purging /\ S' = S /\ PurgeQueue' = PurgeQueue /\ OnlySystem' = OnlySystem
    BY <1>8 DEF Purging, S, PurgeQueue, OnlySystem
  <2>2. PhaseKnown'
    BY <1>1, <1>8, <2>1 DEF PhaseKnown, Phases
  <2>3. CASE UNCHANGED <<initialized, readyForFailover, healthTimer>>
    <3>1. Solo' = Solo
      BY <1>8, <2>3 DEF Solo
    <3>. QED  BY <1>1, <1>8, <2>1, <2>2, <3>1 DEF Phases, PhasePurge, PhaseChoice, PhaseDone, Bare
  <2>4. CASE AuthReady
    <3>1. setups # 0 /\ S.pc = "idle" /\ proxies # <<>>
      BY <2>4 DEF AuthReady, S, TypeOK, EnvType
    <3>2. ~Purging /\ S.pc \notin ChoicePCs
      BY <3>1 DEF Purging, PurgePCs, ChoicePCs
    <3>. QED  BY <1>1, <1>8, <2>1, <2>2, <3>1, <3>2 DEF Phases, PhasePurge, PhaseChoice, PhaseDone, Bare, ChoicePCs
  <2>. QED  BY <1>8, <2>3, <2>4
<1>9. CASE SetAutoFailoverEnabled \/ AuthReady \/ UNCHANGED vars
  BY <1>8, <1>9 DEF SetAutoFailoverEnabled, AuthReady, vars, regVars, ctlVars, tdVars, envVars
<1>. QED  BY <1>2, <1>3, <1>4, <1>5, <1>6, <1>7, <1>9 DEF Next

LEMMA InitPhase == ASSUME Init PROVE PhaseInv
<1>1. S = Idle /\ (\A t \in Tasks : tasks[t] = Idle) /\ setups = 0 /\ queue = <<>> /\ proxies = <<>>
  BY SetupIsTask DEF Init, S
<1>2. Purging /\ Solo
  BY <1>1, WorkersAreTasks DEF Init, Purging, Solo, Idle
<1>3. PhasePurge /\ PhaseKnown
  BY <1>1, <1>2 DEF PhasePurge, PurgeQueue, PhaseKnown, EntriesOK, TaskOK, SetupOK, Idle
<1>4. PhaseChoice /\ PhaseDone
  BY <1>1 DEF PhaseChoice, PhaseDone, ChoicePCs, Idle
<1>. QED  BY <1>3, <1>4 DEF PhaseInv, Phases

LEMMA PhaseInvariant == Spec => []PhaseInv
<1>1. Init => PhaseInv
  BY InitPhase
<1>2. TypeOK /\ TypeOK' /\ LockInv /\ Registry /\ PhaseInv /\ [Next]_vars => PhaseInv'
  BY StepPhase
<1>. QED  BY <1>1, <1>2, TypeCorrect, LockInvariant, RegistryInvariant, PTL DEF Spec

\* Once the first setupProxies is over, and whatever failovers, taps and answers follow,
\* TDLib does not connect directly, unless nothing was registered or an answer was late:
\* disableProxy is sent by the purge alone, and an enableProxy that replaces it succeeds
\* because TDLib still has every proxy whose id is in use.
THEOREM AProxyIsEnabled == Spec => [](setups <= 1 => NoDirectConnection)
<1>1. TypeOK /\ PhaseInv => (setups <= 1 => NoDirectConnection)
  BY DEF PhaseInv, Steady, Phases, PhaseDone, Bare, NoDirectConnection, S, TypeOK, EnvType
<1>. QED  BY <1>1, TypeCorrect, PhaseInvariant, PTL

-----------------------------------------------------------------------------
(* The proxy that is shown is the one that is enabled                      *)

Enabling(t) == tasks[t].pc = "enable"
Enabled(t)  == Enabling(t) /\ tasks[t].res = "ok"
Enables(q)  == {i \in DOMAIN q : q[i].op = "enable"}
ShowsEnabled(s, id) == \A i \in ActiveIndices(s) : s[i].id = id
Uncrossed == Steady /\ ~crossed

\* Every enableProxy in the queue is awaited by a task that would show it; the list shows what
\* TDLib has enabled, except between the answer and the continuations it wakes.
Awaited ==
    \A i \in Enables(queue) :
        \E t \in Tasks : Enabling(t) /\ tasks[t].res = "none" /\ tasks[t].id = queue[i].id
Agreed ==
    /\ Awaited
    /\ \A t \in Tasks : Enabled(t) => tasks[t].id = td.enabled
    /\ (\A t \in Tasks : ~Enabled(t)) => ShowsEnabled(proxies, td.enabled)
AgreeInv == Uncrossed => Agreed

\* q2 holds no enableProxy that q does not hold.
NoNewEnables(q, q2) ==
    \A i \in Enables(q2) : \E j \in Enables(q) : q[j] = q2[i]

\* The step makes no proxy active.
NoNewActive ==
    \A i \in ActiveIndices(proxies') : \E j \in ActiveIndices(proxies) : proxies[j].id = proxies'[i].id

LEMMA EnablesAppend ==
    ASSUME NEW q \in Seq(Request), NEW r, r.op # "enable" PROVE NoNewEnables(q, Append(q, r))
<1> DEFINE a == Append(q, r)
<1>1. /\ DOMAIN q = 1 .. Len(q) /\ Len(q) \in Nat /\ DOMAIN a = 1 .. Len(q) + 1
      /\ \A i \in 1 .. Len(q) : a[i] = q[i]
      /\ a[Len(q) + 1] = r
  OBVIOUS
<1> HIDE DEF a
<1>2. \A i \in Enables(a) : i \in Enables(q) /\ q[i] = a[i]
  BY <1>1 DEF Enables
<1>3. NoNewEnables(q, a)
  BY <1>2 DEF NoNewEnables
<1>. QED  BY <1>3 DEF a

LEMMA EnablesTail == ASSUME NEW q \in Seq(Request), q # <<>> PROVE NoNewEnables(q, Tail(q))
<1> DEFINE a == Tail(q)
<1>1. /\ DOMAIN q = 1 .. Len(q) /\ Len(q) \in Nat \ {0} /\ DOMAIN a = 1 .. Len(q) - 1
      /\ \A i \in 1 .. Len(q) - 1 : a[i] = q[i + 1] /\ i + 1 \in 1 .. Len(q)
  OBVIOUS
<1> HIDE DEF a
<1>2. \A i \in Enables(a) : i + 1 \in Enables(q) /\ q[i + 1] = a[i]
  BY <1>1 DEF Enables
<1>. QED  BY <1>2 DEF NoNewEnables, a

LEMMA EnablesAdds ==
    ASSUME NEW q \in Seq(Request), NEW s \in Seq(Config)
    PROVE  NoNewEnables(q, q \o [i \in DOMAIN s |-> AddReq(s[i])])
<1> DEFINE r == [i \in DOMAIN s |-> AddReq(s[i])]
           a == q \o r
<1>1. r \in Seq(Request)
  BY AddReqsType
<1>2. \A i \in DOMAIN r : r[i].op # "enable"
  BY DEF AddReq, Req
<1>3. DOMAIN r = 1 .. Len(r) /\ Len(r) \in Nat
  BY <1>1, LenProperties
<1> HIDE DEF r
<1>4. /\ DOMAIN q = 1 .. Len(q) /\ Len(q) \in Nat /\ DOMAIN a = 1 .. Len(q) + Len(r)
      /\ \A i \in 1 .. Len(q) : a[i] = q[i]
      /\ \A i \in Len(q) + 1 .. Len(q) + Len(r) : a[i] = r[i - Len(q)]
  BY <1>1
<1> HIDE DEF a
<1>5. ASSUME NEW i \in Enables(a) PROVE i \in Enables(q) /\ q[i] = a[i]
  <2>1. CASE i \in 1 .. Len(q)
    BY <1>4, <1>5, <2>1 DEF Enables
  <2>2. CASE i \notin 1 .. Len(q)
    <3>1. i \in DOMAIN a /\ a[i].op = "enable"
      BY <1>5 DEF Enables
    <3>2. i - Len(q) \in DOMAIN r /\ a[i] = r[i - Len(q)]
      BY <1>3, <1>4, <2>2, <3>1
    <3>. QED  BY <1>2, <3>1, <3>2
  <2>. QED  BY <2>1, <2>2
<1>6. NoNewEnables(q, a)
  BY <1>5 DEF NoNewEnables
<1>. QED  BY <1>6 DEF a, r

LEMMA EnablesSame == ASSUME NEW q PROVE NoNewEnables(q, q)
BY DEF NoNewEnables

LEMMA EnablesChain ==
    ASSUME NEW p, NEW q, NEW r, NoNewEnables(p, q), NoNewEnables(q, r) PROVE NoNewEnables(p, r)
<1>1. ASSUME NEW i \in Enables(r) PROVE \E j \in Enables(p) : p[j] = r[i]
  <2>1. PICK k \in Enables(q) : q[k] = r[i]
    BY DEF NoNewEnables
  <2>2. PICK j \in Enables(p) : p[j] = q[k]
    BY DEF NoNewEnables
  <2>. QED  BY <2>1, <2>2
<1>. QED  BY <1>1 DEF NoNewEnables

-----------------------------------------------------------------------------
(* The kinds of steps                                                      *)

\* Nobody begins or ends to enable a proxy.
LEMMA AgreeQuiet ==
    ASSUME Agreed, td'.enabled = td.enabled, NoNewEnables(queue, queue'),
           \A t \in Tasks : Enabling(t) \/ tasks'[t].pc = "enable" => tasks'[t] = tasks[t],
           NoNewActive
    PROVE  Agreed'
<1>1. \A t \in Tasks : Enabled(t)' = Enabled(t) /\ (Enabling(t) => tasks'[t] = tasks[t])
  BY DEF Enabled, Enabling
<1>3. Awaited'
  <2>1. ASSUME NEW i \in Enables(queue')
        PROVE  \E t \in Tasks : tasks'[t].pc = "enable" /\ tasks'[t].res = "none" /\ tasks'[t].id = queue'[i].id
    <3>1. PICK j \in Enables(queue) : queue[j] = queue'[i]
      BY DEF NoNewEnables
    <3>2. PICK t \in Tasks : Enabling(t) /\ tasks[t].res = "none" /\ tasks[t].id = queue[j].id
      BY <3>1 DEF Agreed, Awaited
    <3>3. tasks'[t] = tasks[t]
      BY <3>2
    <3>. QED  BY <3>1, <3>2, <3>3 DEF Enabling
  <2>. QED  BY <2>1 DEF Awaited, Enabling
<1>4. ASSUME NEW t \in Tasks, Enabled(t)' PROVE tasks'[t].id = td'.enabled
  <2>1. Enabled(t) /\ tasks'[t] = tasks[t]
    BY <1>1, <1>4 DEF Enabled
  <2>. QED  BY <2>1 DEF Agreed
<1>5. (\A t \in Tasks : ~Enabled(t)') => ShowsEnabled(proxies', td'.enabled)
  <2> SUFFICES ASSUME \A t \in Tasks : ~Enabled(t)', NEW i \in ActiveIndices(proxies')
               PROVE  proxies'[i].id = td.enabled
    BY DEF ShowsEnabled
  <2>1. PICK j \in ActiveIndices(proxies) : proxies[j].id = proxies'[i].id
    BY DEF NoNewActive
  <2>. QED  BY <1>1, <2>1 DEF Agreed, ShowsEnabled
<1>. QED  BY <1>3, <1>4, <1>5 DEF Agreed

\* t, which awaits no enableProxy, sends one.
LEMMA AgreeSend ==
    ASSUME TypeOK, Agreed, td' = td, NEW t \in Tasks, NEW id, SendEnable(t, id), ~Enabling(t), NoNewActive
    PROVE  Agreed'
<1>0. tasks \in [Tasks -> Task] /\ tasks[t] \in Task /\ queue \in Seq(Request)
  BY DEF TypeOK, TdType
<1> DEFINE r == Req("enable", id, NoConfig)
<1>1. r.id = id /\ queue' = Append(queue, r)
  BY DEF Req, SendEnable
<1> HIDE DEF r
<1>3. /\ DOMAIN queue = 1 .. Len(queue) /\ Len(queue) \in Nat /\ DOMAIN queue' = 1 .. Len(queue) + 1
      /\ \A i \in 1 .. Len(queue) : queue'[i] = queue[i]
      /\ queue'[Len(queue) + 1] = r
  BY <1>0, <1>1
<1>6. /\ \A u \in Tasks \ {t} : tasks'[u] = tasks[u]
      /\ tasks'[t].pc = "enable" /\ tasks'[t].res = "none" /\ tasks'[t].id = id
  BY <1>0 DEF SendEnable, Task
<1>7. ASSUME NEW i \in Enables(queue')
      PROVE  \E u \in Tasks : tasks'[u].pc = "enable" /\ tasks'[u].res = "none" /\ tasks'[u].id = queue'[i].id
  <2>1. CASE i = Len(queue) + 1
    BY <1>1, <1>3, <1>6, <2>1
  <2>2. CASE i # Len(queue) + 1
    <3>1. i \in Enables(queue) /\ queue'[i] = queue[i]
      BY <1>3, <1>7, <2>2 DEF Enables
    <3>2. PICK u \in Tasks : Enabling(u) /\ tasks[u].res = "none" /\ tasks[u].id = queue[i].id
      BY <3>1 DEF Agreed, Awaited
    <3>3. tasks'[u] = tasks[u]
      BY <1>6, <3>2
    <3>. QED  BY <3>1, <3>2, <3>3 DEF Enabling
  <2>. QED  BY <2>1, <2>2
<1>8. \A u \in Tasks : Enabled(u)' = Enabled(u) /\ (Enabled(u) => tasks'[u] = tasks[u])
  BY <1>6 DEF Enabled, Enabling
<1>9. (\A u \in Tasks : ~Enabled(u)') => ShowsEnabled(proxies', td'.enabled)
  BY <1>8 DEF Agreed, ShowsEnabled, NoNewActive
<1>. QED  BY <1>7, <1>8, <1>9 DEF Agreed, Awaited, Enabling

LEMMA ActivesOf ==
    ASSUME NEW s \in Seq(Entry), NEW rec, proxies = s, rec.res = "ok",
           proxies' = EnabledProxies(rec)
    PROVE  ShowsEnabled(proxies', rec.id)
<1> DEFINE a == SetActive(s, rec.id)
<1>1. a \in Seq(Entry) /\ SameIds(s, a) /\ \A i \in DOMAIN s : a[i].active = (s[i].id = rec.id)
  BY SetActiveType, ActiveShape
<1>2. proxies' = SetChecking(a, rec.id, FALSE)
  BY DEF EnabledProxies
<1> HIDE DEF a
<1>3. SameIds(a, proxies') /\ \A i \in DOMAIN a : proxies'[i].active = a[i].active
  <2> DEFINE c == SetChecking(a, rec.id, FALSE)
  <2>1. SameIds(a, c) /\ \A i \in DOMAIN a : c[i].active = a[i].active
    BY <1>1, CheckingShape
  <2> HIDE DEF c
  <2>2. proxies' = c
    BY <1>2 DEF c
  <2>. QED  BY <2>1, <2>2
<1>. QED  BY <1>1, <1>3 DEF ShowsEnabled, ActiveIndices, SameIds

\* The continuation of _enableProxy.
LEMMA AgreeEnabled ==
    ASSUME TypeOK, Agreed, UNCHANGED <<td, queue>>, NEW t \in Tasks, Enabling(t), tasks[t].res # "none",
           proxies' = EnabledProxies(tasks[t]),
           \A u \in Tasks \ {t} : tasks'[u] = tasks[u], tasks'[t].pc # "enable"
    PROVE  Agreed'
<1>0. proxies \in Seq(Entry)
  BY DEF TypeOK, RegType
<1>2. Awaited'
  <2>1. ASSUME NEW i \in Enables(queue)
        PROVE  \E u \in Tasks : tasks'[u].pc = "enable" /\ tasks'[u].res = "none" /\ tasks'[u].id = queue[i].id
    <3>1. PICK u \in Tasks : Enabling(u) /\ tasks[u].res = "none" /\ tasks[u].id = queue[i].id
      BY DEF Agreed, Awaited
    <3>2. u # t
      BY <3>1
    <3>. QED  BY <3>1, <3>2 DEF Enabling
  <2>. QED  BY <2>1 DEF Awaited, Enabling
<1>3. ~Enabled(t)' /\ \A u \in Tasks \ {t} : Enabled(u)' = Enabled(u)
  BY DEF Enabled, Enabling
<1>4. \A u \in Tasks : Enabled(u)' => tasks'[u].id = td'.enabled
  BY <1>3 DEF Agreed
<1>5. (\A u \in Tasks : ~Enabled(u)') => ShowsEnabled(proxies', td'.enabled)
  <2>1. CASE tasks[t].res = "ok"
    <3>1. tasks[t].id = td.enabled
      BY <2>1 DEF Agreed, Enabled
    <3>. QED  BY <1>0, <2>1, <3>1, ActivesOf
  <2>2. CASE tasks[t].res # "ok"
    <3>1. proxies' = proxies /\ ~Enabled(t)
      BY <2>2 DEF EnabledProxies, Enabled
    <3>. QED  BY <1>3, <3>1 DEF Agreed
  <2>. QED  BY <2>1, <2>2
<1>. QED  BY <1>2, <1>4, <1>5 DEF Agreed

LEMMA ActivesKept ==
    ASSUME proxies \in Seq(Entry),
           \/ proxies' = proxies \/ proxies' = <<>>
           \/ \E id, b : b \in BOOLEAN /\ proxies' = SetChecking(proxies, id, b)
           \/ \E rec : proxies' = PingHealth(proxies, rec)
           \/ \E id, cfg : proxies' = Append(proxies, NewEntry(id, cfg))
    PROVE  NoNewActive
<1>1. CASE proxies' = proxies \/ proxies' = <<>>
  BY <1>1 DEF NoNewActive, ActiveIndices
<1>2. ASSUME NEW id, NEW b \in BOOLEAN, proxies' = SetChecking(proxies, id, b) PROVE NoNewActive
  <2>1. SameIds(proxies, proxies') /\ \A i \in DOMAIN proxies : proxies'[i].active = proxies[i].active
    <3> DEFINE c == SetChecking(proxies, id, b)
    <3>1. SameIds(proxies, c) /\ \A i \in DOMAIN proxies : c[i].active = proxies[i].active
      BY CheckingShape
    <3>2. proxies' = c
      BY <1>2
    <3> HIDE DEF c
    <3>. QED  BY <3>1, <3>2
  <2>. QED  BY <2>1 DEF SameIds, NoNewActive, ActiveIndices
<1>3. ASSUME NEW rec, proxies' = PingHealth(proxies, rec) PROVE NoNewActive
  BY <1>1, <1>2, <1>3 DEF PingHealth
<1>4. ASSUME NEW id, NEW cfg, proxies' = Append(proxies, NewEntry(id, cfg)) PROVE NoNewActive
  <2>1. /\ DOMAIN proxies = 1 .. Len(proxies) /\ DOMAIN proxies' = 1 .. Len(proxies) + 1
        /\ proxies'[Len(proxies) + 1] = NewEntry(id, cfg) /\ \A i \in DOMAIN proxies : proxies'[i] = proxies[i]
    BY <1>4, AppendEntry
  <2>2. \A i \in DOMAIN proxies' : (i \in DOMAIN proxies /\ proxies'[i] = proxies[i]) \/ proxies'[i] = NewEntry(id, cfg)
    BY <2>1, LenProperties
  <2>3. NewEntry(id, cfg).active = FALSE
    BY DEF NewEntry
  <2>. QED  BY <2>2, <2>3 DEF NoNewActive, ActiveIndices
<1>. QED  BY <1>1, <1>2, <1>3, <1>4

\* One task moves on and is not enabling before or after the step.
LEMMA AgreeMove ==
    ASSUME Agreed, td'.enabled = td.enabled, NoNewEnables(queue, queue'), NoNewActive, NEW t \in Tasks,
           \A u \in Tasks \ {t} : tasks'[u] = tasks[u], ~Enabling(t), tasks'[t].pc # "enable"
    PROVE  Agreed'
<1>1. \A u \in Tasks : Enabling(u) \/ tasks'[u].pc = "enable" => tasks'[u] = tasks[u]
  OBVIOUS
<1>. QED  BY <1>1, AgreeQuiet

LEMMA AssignPc ==
    ASSUME tasks \in [Tasks -> Task], NEW t \in Tasks, NEW r, tasks' = [tasks EXCEPT ![t] = r], r.pc # "enable"
    PROVE  (\A u \in Tasks \ {t} : tasks'[u] = tasks[u]) /\ tasks'[t].pc # "enable"
OBVIOUS

LEMMA PingNextPc ==
    ASSUME tasks \in [Tasks -> Task], NEW t \in Tasks, NEW rec \in Task, PingNext(t, rec)
    PROVE  (\A u \in Tasks \ {t} : tasks'[u] = tasks[u]) /\ tasks'[t].pc # "enable"
<1>1. PICK p : tasks' = [tasks EXCEPT ![t] =
                   PingFields([rec EXCEPT !.left = rec.left \ {p}, !.cur = p.rank, !.retries = Retries], p.id)]
  BY DEF PingNext
<1>2. PingFields([rec EXCEPT !.left = rec.left \ {p}, !.cur = p.rank, !.retries = Retries], p.id).pc = "ping"
  BY DEF PingFields, Task
<1>. QED  BY <1>1, <1>2, AssignPc

LEMMA SwitchPc ==
    ASSUME TypeOK, NEW t \in Tasks, SwitchToNextProxy(t)
    PROVE  (\A u \in Tasks \ {t} : tasks'[u] = tasks[u]) /\ tasks'[t].pc # "enable"
<1>0. tasks \in [Tasks -> Task] /\ proxies \in Seq(Entry)
  BY DEF TypeOK, RegType
<1>1. CASE tasks' = [tasks EXCEPT ![t] = Idle]
  <2>1. Idle.pc # "enable"
    BY DEF Idle
  <2>. QED  BY <1>0, <1>1, <2>1, AssignPc
<1>2. ASSUME NEW c, NEW left, PingNext(t, [Idle EXCEPT !.kind = "failover", !.cur = c, !.left = left])
      PROVE  (\A u \in Tasks \ {t} : tasks'[u] = tasks[u]) /\ tasks'[t].pc # "enable"
  <2> DEFINE rec == [Idle EXCEPT !.kind = "failover", !.cur = c, !.left = left]
  <2>1. PICK p : tasks' = [tasks EXCEPT ![t] =
                   PingFields([rec EXCEPT !.left = rec.left \ {p}, !.cur = p.rank, !.retries = Retries], p.id)]
    BY <1>2 DEF PingNext
  <2>2. PingFields([rec EXCEPT !.left = rec.left \ {p}, !.cur = p.rank, !.retries = Retries], p.id).pc = "ping"
    BY DEF PingFields, Idle
  <2> HIDE DEF rec
  <2>. QED  BY <1>0, <2>1, <2>2, AssignPc
<1>. QED  BY <1>1, <1>2 DEF SwitchToNextProxy

\* setupProxies up to the choice of the first proxy, and after it.
LEMMA SetupAgrees ==
    ASSUME TypeOK, LockInv, Phases, Steady, Agreed, Setup, ~RegistrationTimeout PROVE Agreed'
<1> USE SetupIsTask
<1>0. /\ tasks \in [Tasks -> Task] /\ S \in Task /\ queue \in Seq(Request) /\ proxies \in Seq(Entry)
      /\ saved \in Seq(Config) /\ MTProto \in Seq(Config)
  BY ConfigAssumption DEF TypeOK, TdType, RegType, S
<1>e. ASSUME UNCHANGED proxies PROVE NoNewActive
  BY <1>0, <1>e, ActivesKept
<1>1. CASE SetupProxies
  <2>1. NoNewActive /\ ~Enabling(SetupTask)
    BY <1>0, <1>1, ActivesKept DEF SetupProxies, Enabling
  <2>2. (\A u \in Tasks \ {SetupTask} : tasks'[u] = tasks[u]) /\ tasks'[SetupTask].pc # "enable"
    BY <1>0, <1>1 DEF SetupProxies, Idle
  <2>3. NoNewEnables(queue, queue')
    BY <1>0, <1>1, EnablesAppend DEF SetupProxies, Req
  <2>. QED  BY <1>1, <2>1, <2>2, <2>3, AgreeMove DEF SetupProxies
<1>2. CASE PurgeList \/ PurgeRemove
  <2>1. NoNewActive /\ ~Enabling(SetupTask) /\ td' = td
    BY <1>2, <1>e DEF PurgeList, PurgeRemove, Resuming, Enabling, regVars
  <2>2. (\A u \in Tasks \ {SetupTask} : tasks'[u] = tasks[u]) /\ tasks'[SetupTask].pc # "enable"
    <3>1. CASE PurgeList
      BY <1>0, <3>1 DEF PurgeList, Task, S
    <3>2. CASE PurgeRemove
      BY <1>0, <3>2 DEF PurgeRemove, Task, S
    <3>. QED  BY <1>2, <3>1, <3>2
  <2>3. NoNewEnables(queue, queue')
    <3>1. ASSUME NEW op \in {"list", "remove"}, NEW id, queue' = Append(queue, Req(op, id, NoConfig))
          PROVE  NoNewEnables(queue, queue')
      <4>1. Req(op, id, NoConfig).op # "enable"
        BY DEF Req
      <4>. QED  BY <1>0, <3>1, <4>1, EnablesAppend
    <3>2. CASE UNCHANGED queue
      BY <3>2, EnablesSame
    <3>. QED  BY <1>2, <3>1, <3>2 DEF PurgeList, PurgeRemove
  <2>. QED  BY <2>1, <2>2, <2>3, AgreeMove
<1>3. CASE RegisterConfigs
  <2> DEFINE sys == IF HasSystem THEN <<AddReq(SystemConfig)>> ELSE <<>>
             own == [i \in DOMAIN MTProto |-> AddReq(MTProto[i])]
  <2>1. NoNewActive /\ ~Enabling(SetupTask) /\ td' = td
    BY <1>3, <1>e DEF RegisterConfigs, Enabling
  <2>2. (\A u \in Tasks \ {SetupTask} : tasks'[u] = tasks[u]) /\ tasks'[SetupTask].pc # "enable"
    BY <1>0, <1>3 DEF RegisterConfigs, Idle, Task, S
  <2>3. NoNewEnables(queue, queue')
    <3>1. queue' = queue \o sys \o own
      BY <1>3 DEF RegisterConfigs
    <3>2. queue \o sys \in Seq(Request) /\ NoNewEnables(queue, queue \o sys)
      <4>1. CASE HasSystem
        <5>1. SystemConfig \in Config
          BY LiteralAssumption DEF SystemConfig, Config
        <5>2. AddReq(SystemConfig) \in Request /\ AddReq(SystemConfig).op = "add"
          BY <5>1, AddReqType DEF AddReq, Req
        <5>3. queue \o sys = Append(queue, AddReq(SystemConfig))
          BY <1>0, <4>1, <5>2
        <5>4. NoNewEnables(queue, Append(queue, AddReq(SystemConfig)))
          BY <1>0, <5>2, EnablesAppend
        <5>5. Append(queue, AddReq(SystemConfig)) \in Seq(Request)
          BY <1>0, <5>2, AppendProperties
        <5> HIDE DEF sys
        <5>. QED  BY <5>3, <5>4, <5>5, Zenon
      <4>2. CASE ~HasSystem
        BY <1>0, <4>2, EnablesSame
      <4>. QED  BY <4>1, <4>2
    <3> HIDE DEF sys
    <3>3. NoNewEnables(queue \o sys, (queue \o sys) \o own)
      BY <1>0, <3>2, EnablesAdds
    <3>. QED  BY <3>1, <3>2, <3>3, EnablesChain
  <2>. QED  BY <2>1, <2>2, <2>3, AgreeMove
<1>4. CASE RegistrationDone
  <2>1. NoNewActive /\ ~Enabling(SetupTask) /\ td' = td /\ queue' = queue
    BY <1>4, <1>e DEF RegistrationDone, Enabling, regVars, tdVars
  <2>2. (\A u \in Tasks \ {SetupTask} : tasks'[u] = tasks[u]) /\ tasks'[SetupTask].pc # "enable"
    BY <1>0, <1>4 DEF RegistrationDone, Task, S
  <2>. QED  BY <2>1, <2>2, EnablesSame, AgreeMove
<1>5. CASE EnableFirstAvailable
  <2>1. NoNewActive /\ S.pc = "choose" /\ td' = td
    BY <1>5, <1>e DEF EnableFirstAvailable, regVars, S
  <2>2. ~Enabling(SetupTask)
    BY <2>1 DEF S, Enabling
  <2>3. ASSUME NEW id, SendEnable(SetupTask, id) PROVE Agreed'
    BY <2>1, <2>2, <2>3, AgreeSend
  <2>4. ASSUME UNCHANGED queue, NEW r, tasks' = [tasks EXCEPT ![SetupTask] = r], r.pc # "enable" PROVE Agreed'
    BY <1>0, <2>1, <2>2, <2>4, AssignPc, EnablesSame, AgreeMove
  <2>5. ASSUME UNCHANGED queue, NEW left, NEW first,
               PingNext(SetupTask, [Idle EXCEPT !.kind = "setup", !.left = left, !.first = first]) PROVE Agreed'
    <3> DEFINE rec == [Idle EXCEPT !.kind = "setup", !.left = left, !.first = first]
    <3>1. PICK p : tasks' = [tasks EXCEPT ![SetupTask] =
                   PingFields([rec EXCEPT !.left = rec.left \ {p}, !.cur = p.rank, !.retries = Retries], p.id)]
      BY <2>5 DEF PingNext
    <3>2. PingFields([rec EXCEPT !.left = rec.left \ {p}, !.cur = p.rank, !.retries = Retries], p.id).pc = "ping"
      BY DEF PingFields, Idle
    <3> HIDE DEF rec
    <3>. QED  BY <2>4, <2>5, <3>1, <3>2
  <2>6. [Idle EXCEPT !.kind = "setup", !.pc = "users"].pc # "enable"
    BY DEF Idle
  <2>. QED  BY <1>5, <2>3, <2>4, <2>5, <2>6 DEF EnableFirstAvailable, SetupEpilogue
<1>6. CASE SetupPinged
  <2>1. S.pc = "ping" /\ td' = td
    BY <1>6 DEF SetupPinged, PingReturned, Resuming, S
  <2>2. NoNewActive
    BY <1>0, <1>6, ActivesKept DEF SetupPinged
  <2>3. ~Enabling(SetupTask)
    BY <2>1 DEF S, Enabling
  <2>4. ASSUME NEW id, SendEnable(SetupTask, id) PROVE Agreed'
    BY <2>1, <2>2, <2>3, <2>4, AgreeSend
  <2>5. CASE PingNext(SetupTask, S) /\ UNCHANGED queue
    BY <1>0, <2>1, <2>2, <2>3, <2>5, PingNextPc, EnablesSame, AgreeMove
  <2>6. ASSUME NEW id, UNCHANGED queue,
               tasks' = [tasks EXCEPT ![SetupTask] =
                            PingFields([S EXCEPT !.kind = "setupSystem", !.retries = Retries], id)]
        PROVE  Agreed'
    <3>1. PingFields([S EXCEPT !.kind = "setupSystem", !.retries = Retries], id).pc = "ping"
      BY <1>0 DEF PingFields, Task
    <3>. QED  BY <1>0, <2>1, <2>2, <2>3, <2>6, <3>1, AssignPc, EnablesSame, AgreeMove
  <2>. QED  BY <1>6, <2>4, <2>5, <2>6 DEF SetupPinged, S
<1>7. CASE SetupEnabled
  <2>1. /\ UNCHANGED <<td, queue>> /\ Enabling(SetupTask) /\ S.res # "none"
        /\ proxies' = EnabledProxies(S)
        /\ tasks' = [tasks EXCEPT ![SetupTask] = [Idle EXCEPT !.kind = "setup", !.pc = "users"]]
    BY <1>7 DEF SetupEnabled, SetupEpilogue, Resuming, Enabling, S, tdVars
  <2>2. [Idle EXCEPT !.kind = "setup", !.pc = "users"].pc # "enable"
    BY DEF Idle
  <2>3. (\A u \in Tasks \ {SetupTask} : tasks'[u] = tasks[u]) /\ tasks'[SetupTask].pc # "enable"
    BY <1>0, <2>1, <2>2, AssignPc
  <2>. QED  BY <2>1, <2>3, AgreeEnabled DEF S
<1>8. CASE RegisterSavedUserProxies
  <2>1. NoNewActive /\ ~Enabling(SetupTask) /\ td' = td
    BY <1>8, <1>e DEF RegisterSavedUserProxies, Enabling
  <2>2. (\A u \in Tasks \ {SetupTask} : tasks'[u] = tasks[u]) /\ tasks'[SetupTask].pc # "enable"
    BY <1>0, <1>8 DEF RegisterSavedUserProxies, Idle
  <2>3. NoNewEnables(queue, queue')
    BY <1>0, <1>8, EnablesAdds DEF RegisterSavedUserProxies
  <2>. QED  BY <2>1, <2>2, <2>3, AgreeMove
<1>. QED  BY <1>1, <1>2, <1>3, <1>4, <1>5, <1>6, <1>7, <1>8 DEF Setup

\* The continuations of the other tasks.
LEMMA ResumeAgrees ==
    ASSUME TypeOK, LockInv, Phases, Steady, Agreed, NEW t \in Tasks, Resume(t) PROVE Agreed'
<1>0. tasks \in [Tasks -> Task] /\ tasks[t] \in Task /\ queue \in Seq(Request) /\ proxies \in Seq(Entry)
  BY DEF TypeOK, TdType, RegType
<1>1. td' = td
  BY DEF Resume, PingCanceled, FailoverPinged, ActivatePinged, TestPinged, HealthPinged, FailoverEnabled,
     ActivateEnabled, tdVars
<1>2. Idle.pc # "enable"
  BY DEF Idle
<1>3. CASE FailoverEnabled(t) \/ ActivateEnabled(t)
  <2>1. /\ UNCHANGED queue /\ Enabling(t) /\ tasks[t].res # "none"
        /\ proxies' = EnabledProxies(tasks[t])
        /\ tasks' = [tasks EXCEPT ![t] = Idle]
    BY <1>3 DEF FailoverEnabled, ActivateEnabled, Resuming, Enabling, tdVars
  <2>2. (\A u \in Tasks \ {t} : tasks'[u] = tasks[u]) /\ tasks'[t].pc # "enable"
    BY <1>0, <1>2, <2>1, AssignPc
  <2>. QED  BY <1>1, <2>1, <2>2, AgreeEnabled
<1>4. CASE ~(FailoverEnabled(t) \/ ActivateEnabled(t))
  <2>1. tasks[t].pc = "ping"
    BY <1>4 DEF Resume, PingCanceled, FailoverPinged, ActivatePinged, TestPinged, HealthPinged, PingReturned, Resuming
  <2>2. NoNewActive
    <3>1. \/ proxies' = proxies
          \/ proxies' = PingHealth(proxies, tasks[t])
          \/ proxies' = SetChecking(proxies, tasks[t].id, FALSE)
      BY <1>4 DEF Resume, PingCanceled, FailoverPinged, ActivatePinged, TestPinged, HealthPinged, regVars
    <3>. QED  BY <1>0, <3>1, ActivesKept
  <2>3. ~Enabling(t)
    BY <2>1 DEF Enabling
  <2>4. ASSUME UNCHANGED queue, \A u \in Tasks \ {t} : tasks'[u] = tasks[u], tasks'[t].pc # "enable" PROVE Agreed'
    BY <1>1, <2>2, <2>3, <2>4, EnablesSame, AgreeMove
  <2>5. ASSUME UNCHANGED queue, tasks' = [tasks EXCEPT ![t] = Idle] PROVE Agreed'
    BY <1>0, <1>2, <2>4, <2>5, AssignPc
  <2>6. CASE SendEnable(t, tasks[t].id)
    BY <1>1, <2>2, <2>3, <2>6, AgreeSend
  <2>7. CASE PingCanceled(t)
    BY <1>0, <2>4, <2>7 DEF PingCanceled, Task, tdVars
  <2>8. CASE FailoverPinged(t)
    <3>1. CASE PingNext(t, tasks[t]) /\ UNCHANGED queue
      BY <1>0, <2>4, <3>1, PingNextPc
    <3>. QED  BY <2>5, <2>6, <2>8, <3>1 DEF FailoverPinged
  <2>9. CASE ActivatePinged(t)
    BY <2>6, <2>9 DEF ActivatePinged
  <2>10. CASE TestPinged(t)
    BY <2>5, <2>10 DEF TestPinged, tdVars
  <2>11. CASE HealthPinged(t)
    <3>1. CASE SwitchToNextProxy(t) /\ UNCHANGED queue
      BY <2>4, <3>1, SwitchPc
    <3>. QED  BY <2>5, <2>11, <3>1 DEF HealthPinged, tdVars
  <2>. QED  BY <1>4, <2>7, <2>8, <2>9, <2>10, <2>11 DEF Resume
<1>. QED  BY <1>3, <1>4

LEMMA TimersAgree ==
    ASSUME TypeOK, Agreed, NEW t \in Tasks, Timers(t), ~ControlTimeout(t) PROVE Agreed'
<1>0. tasks \in [Tasks -> Task] /\ tasks[t] \in Task /\ queue \in Seq(Request) /\ proxies \in Seq(Entry)
  BY DEF TypeOK, TdType, RegType
<1>1. td' = td /\ proxies' = proxies /\ ~Enabling(t)
  BY DEF Timers, PingAgain, PingTimeout, UserProxySaved, Enabling, tdVars, regVars
<1>2. NoNewActive
  BY <1>0, <1>1, ActivesKept
<1>3. (\A u \in Tasks \ {t} : tasks'[u] = tasks[u]) /\ tasks'[t].pc # "enable"
  <2>1. CASE PingAgain(t)
    BY <1>0, <2>1 DEF PingAgain, PingFields, Task
  <2>2. CASE PingTimeout(t)
    BY <1>0, <2>2 DEF PingTimeout, Task
  <2>3. CASE UserProxySaved(t)
    BY <1>0, <2>3 DEF UserProxySaved, Idle
  <2>. QED  BY <2>1, <2>2, <2>3 DEF Timers
<1>4. NoNewEnables(queue, queue')
  <2>1. CASE UNCHANGED queue
    BY <2>1, EnablesSame
  <2>2. CASE UserProxySaved(t)
    <3>1. AddReq(tasks[t].cfg).op # "enable" /\ queue' = Append(queue, AddReq(tasks[t].cfg))
      BY <2>2 DEF UserProxySaved, AddReq, Req
    <3>. QED  BY <1>0, <3>1, EnablesAppend
  <2>. QED  BY <2>1, <2>2 DEF Timers, PingAgain, PingTimeout, tdVars
<1>. QED  BY <1>1, <1>2, <1>3, <1>4, AgreeMove

LEMMA CallsAgree == ASSUME TypeOK, Agreed, NEW t \in Workers, Calls(t) PROVE Agreed'
<1>0. tasks \in [Tasks -> Task] /\ t \in Tasks /\ queue \in Seq(Request) /\ proxies \in Seq(Entry)
  BY DEF TypeOK, TdType, RegType, Tasks
<1>1. td' = td /\ queue' = queue /\ ~Enabling(t)
  BY DEF Calls, HandleConnectionState, HealthTick, NextProxyPressed, ActivateProxy, TestProxy, AddUserProxy,
     Free, Enabling, tdVars
<1>2. NoNewActive
  <2>1. proxies' = proxies \/ \E i \in DOMAIN proxies : proxies' = SetChecking(proxies, proxies[i].id, TRUE)
    BY DEF Calls, HandleConnectionState, HealthTick, NextProxyPressed, ActivateProxy, TestProxy, AddUserProxy, regVars
  <2>. QED  BY <1>0, <2>1, ActivesKept
<1>3. (\A u \in Tasks \ {t} : tasks'[u] = tasks[u]) /\ tasks'[t].pc # "enable"
  <2>1. CASE SwitchToNextProxy(t)
    BY <1>0, <2>1, SwitchPc
  <2>2. ASSUME NEW kind, NEW id,
               tasks' = [tasks EXCEPT ![t] =
                   PingFields([Idle EXCEPT !.kind = kind, !.retries = Retries], id)]
        PROVE  (\A u \in Tasks \ {t} : tasks'[u] = tasks[u]) /\ tasks'[t].pc # "enable"
    <3>1. PingFields([Idle EXCEPT !.kind = kind, !.retries = Retries], id).pc = "ping"
      BY DEF PingFields, Idle
    <3>. QED  BY <1>0, <2>2, <3>1, AssignPc
  <2>3. CASE AddUserProxy(t)
    BY <1>0, <2>3 DEF AddUserProxy, Idle
  <2>. QED  BY <2>1, <2>2, <2>3
       DEF Calls, HandleConnectionState, HealthTick, NextProxyPressed, ActivateProxy, TestProxy
<1>4. NoNewEnables(queue, queue')
  BY <1>1, EnablesSame
<1>. QED  BY <1>0, <1>1, <1>2, <1>3, <1>4, AgreeMove

\* The answers of the purge come while the list is empty and nobody enables a proxy.
LEMMA PurgeAnswersAgree ==
    ASSUME TypeOK, LockInv, Phases, Steady, DisableAnswer \/ ListAnswer \/ RemoveAnswer PROVE Agreed'
<1> USE SetupIsTask
<1>0. /\ tasks \in [Tasks -> Task] /\ S \in Task /\ queue \in Seq(Request)
  BY DEF TypeOK, TdType, S
<1>1. /\ queue # <<>> /\ Head1.op \in {"disable", "list", "remove"} /\ queue' = Tail(queue)
      /\ proxies' = proxies
  BY DEF DisableAnswer, ListAnswer, RemoveAnswer, Answering, regVars
<1>2. Purging
  <2>1. 1 \in DOMAIN queue
    BY <1>0, <1>1
  <2>. QED  BY <1>1, <2>1 DEF Phases, PhaseKnown, QueueOK, Head1
<1>3. Solo /\ proxies = <<>> /\ S.pc \in {"disable", "list", "remove"} /\ S.res = "none"
  BY <1>1, <1>2 DEF Phases, PhasePurge, PurgeQueue
<1>4. queue' = <<>>
  <2>1. PICK id \in 0 .. MaxId : queue = <<Req(S.pc, id, NoConfig)>>
    BY <1>2, <1>3 DEF Phases, PhasePurge, PurgeQueue
  <2>. QED  BY <1>1, <2>1
<1>5. \A t \in Tasks : tasks'[t].pc = tasks[t].pc
  <2>1. ASSUME NEW res, tasks' = Resolve({SetupTask}, res, FALSE) PROVE \A t \in Tasks : Woken(t)
    BY <1>0, <2>1, ResolveWakes
  <2>2. CASE ListAnswer
    BY <1>0, <2>2 DEF ListAnswer, Task, S
  <2>3. CASE DisableAnswer \/ RemoveAnswer
    BY <2>1, <2>3 DEF DisableAnswer, RemoveAnswer, Woken
  <2>. QED  BY <2>2, <2>3
<1>6. \A t \in Tasks : ~Enabling(t)'
  BY <1>3, <1>5, WorkersAreTasks DEF Solo, S, Enabling
<1>7. Enables(queue') = {} /\ ActiveIndices(proxies') = {}
  BY <1>1, <1>3, <1>4 DEF Enables, ActiveIndices
<1>. QED  BY <1>6, <1>7 DEF Agreed, Awaited, ShowsEnabled, Enabled

\* TDLib enables the proxy that its sender awaits; whoever else wants the same proxy resumes
\* too, and no request of theirs is left in the queue.
LEMMA EnableAgrees == ASSUME TypeOK, Phases, Agreed, EnableAnswer, ~crossed' PROVE Agreed'
<1> DEFINE id == Head1.id
           W  == {t \in Tasks : tasks[t].pc = "enable" /\ tasks[t].id = id}
<1>0. /\ tasks \in [Tasks -> Task] /\ queue \in Seq(Request)
      /\ td \in [server : [Ids -> STRING], enabled : 0 .. MaxId, next : 1 .. MaxId + 1]
  BY DEF TypeOK, TdType
<1>1. /\ queue # <<>> /\ Head1.op = "enable" /\ queue' = Tail(queue) /\ 1 \in Enables(queue)
      /\ \A t \in Tasks : tasks[t].res = "none"
  BY <1>0 DEF EnableAnswer, Answering, Enables, Head1, Quiet
<1>2. PICK u \in Tasks : Enabling(u) /\ tasks[u].res = "none" /\ tasks[u].id = id
  BY <1>1 DEF Agreed, Awaited, Head1
<1>3. \A i \in Enables(queue') : queue'[i].id # id
  BY DEF EnableAnswer, EnableQueued, Enables
<1>4. td.server[id] # NoServer
  BY <1>2 DEF Phases, PhaseKnown, TaskOK, KnownId, Enabling
<1>5. td' = [td EXCEPT !.enabled = id] /\ tasks' = Resolve(W, "ok", FALSE)
  BY <1>4 DEF EnableAnswer
<1>6. td'.enabled = id /\ u \in W /\ \A t \in W : tasks[t].pc = "enable" /\ tasks[t].id = id
  BY <1>0, <1>2, <1>5 DEF Enabling
<1>w. \A t \in Tasks : t \in W <=> (tasks[t].pc = "enable" /\ tasks[t].id = id)
  OBVIOUS
<1> HIDE DEF id, W
<1>7. /\ \A t \in Tasks : Woken(t)
      /\ \A t \in Tasks : IF t \in W THEN tasks'[t].res = "ok" ELSE tasks'[t] = tasks[t]
  BY <1>0, <1>5, ResolveWakes
<1>8. Enabled(u)'
  BY <1>2, <1>6, <1>7 DEF Woken, Enabling, Enabled
<1>9. ASSUME NEW t \in Tasks, Enabled(t)' PROVE tasks'[t].id = td'.enabled
  <2>1. t \in W
    BY <1>1, <1>7, <1>9 DEF Enabled, Enabling
  <2>. QED  BY <1>6, <1>7, <2>1 DEF Woken
<1>10. ASSUME NEW i \in Enables(queue')
       PROVE  \E t \in Tasks : tasks'[t].pc = "enable" /\ tasks'[t].res = "none" /\ tasks'[t].id = queue'[i].id
  <2>1. PICK j \in Enables(queue) : queue[j] = queue'[i]
    BY <1>0, <1>1, <1>10, EnablesTail DEF NoNewEnables
  <2>2. PICK t \in Tasks : Enabling(t) /\ tasks[t].res = "none" /\ tasks[t].id = queue[j].id
    BY <2>1 DEF Agreed, Awaited
  <2>3. t \notin W
    BY <1>3, <1>6, <1>10, <2>1, <2>2
  <2>4. tasks'[t] = tasks[t]
    BY <1>7, <2>3
  <2>. QED  BY <2>1, <2>2, <2>4 DEF Enabling
<1>. QED  BY <1>8, <1>9, <1>10 DEF Agreed, Awaited, Enabling

LEMMA AddAgrees ==
    ASSUME TypeOK, LockInv, Registry, Agreed, AddAnswer \/ AddRefused PROVE Agreed'
<1>0. /\ tasks \in [Tasks -> Task] /\ queue \in Seq(Request) /\ proxies \in Seq(Entry)
      /\ td \in [server : [Ids -> STRING], enabled : 0 .. MaxId, next : 1 .. MaxId + 1]
  BY DEF TypeOK, TdType, RegType
<1>1. queue # <<>> /\ queue' = Tail(queue) /\ tasks' = tasks
  BY DEF AddAnswer, AddRefused, Answering
<1>2. td'.enabled = td.enabled
  BY <1>0 DEF AddAnswer, AddRefused
<1>3. proxies' = proxies \/ \E id, cfg : proxies' = Append(proxies, NewEntry(id, cfg))
  <2>1. ASSUME NEW id, NEW cfg, RegisterAddedProxy(id, cfg)
        PROVE  proxies' = proxies \/ proxies' = Append(proxies, NewEntry(id, cfg))
    BY <2>1 DEF RegisterAddedProxy, NewEntry
  <2>. QED  BY <2>1 DEF AddAnswer, AddRefused
<1>4. NoNewActive
  BY <1>0, <1>3, ActivesKept
<1>5. NoNewEnables(queue, queue')
  BY <1>0, <1>1, EnablesTail
<1>. QED  BY <1>1, <1>2, <1>4, <1>5, AgreeQuiet

LEMMA PingAgrees == ASSUME TypeOK, Agreed, PingAnswers PROVE Agreed'
<1>0. tasks \in [Tasks -> Task] /\ proxies \in Seq(Entry)
  BY DEF TypeOK, RegType
<1>1. /\ UNCHANGED <<proxies, queue, td>>
      /\ \E id, res, stale : tasks' = Resolve(PingWaiters(id), res, stale)
  BY DEF PingAnswers, PingReply, LatePingReply, regVars
<1>2. /\ \A t \in Tasks : Woken(t)
      /\ \A t \in Tasks : tasks[t].pc # "ping" => tasks'[t] = tasks[t]
  BY <1>0, <1>1, ResolveWakes DEF PingWaiters
<1>3. \A t \in Tasks : Enabling(t) \/ tasks'[t].pc = "enable" => tasks'[t] = tasks[t]
  BY <1>2 DEF Woken, Enabling
<1>4. NoNewActive /\ NoNewEnables(queue, queue')
  BY <1>0, <1>1, ActivesKept, EnablesSame
<1>. QED  BY <1>1, <1>3, <1>4, AgreeQuiet

\* No request is un-crossed.
LEMMA CrossedBefore == ASSUME [Next]_vars, ~crossed' PROVE ~crossed
<1>1. CASE EnableAnswer
  BY <1>1 DEF EnableAnswer
<1>2. CASE crossed' = crossed
  BY <1>2
<1>3. CASE Setup
  BY <1>2, <1>3 DEF Setup, SetupProxies, PurgeList, PurgeRemove, RegisterConfigs, RegistrationDone,
     RegistrationTimeout, EnableFirstAvailable, SetupPinged, SetupEnabled, RegisterSavedUserProxies, envVars
<1>4. ASSUME NEW t \in Tasks, Resume(t) PROVE crossed' = crossed
  BY <1>4 DEF Resume, PingCanceled, FailoverPinged, ActivatePinged, TestPinged, HealthPinged,
         FailoverEnabled, ActivateEnabled, envVars
<1>5. ASSUME NEW t \in Tasks, Timers(t) PROVE crossed' = crossed
  BY <1>5 DEF Timers, PingAgain, PingTimeout, ControlTimeout, UserProxySaved, envVars
<1>6. CASE Answers \/ PingAnswers
  BY <1>1, <1>2, <1>6 DEF Answers, DisableAnswer, ListAnswer, RemoveAnswer, AddRefused, AddAnswer,
       PingAnswers, PingReply, LatePingReply, envVars
<1>7. ASSUME NEW t \in Workers, Calls(t) PROVE crossed' = crossed
  BY <1>7 DEF Calls, HandleConnectionState, HealthTick, NextProxyPressed, ActivateProxy, TestProxy, AddUserProxy,
     envVars
<1>8. CASE SetAutoFailoverEnabled \/ AuthReady \/ UNCHANGED vars
  BY <1>2, <1>8 DEF SetAutoFailoverEnabled, AuthReady, vars, envVars
<1>. QED  BY <1>2, <1>3, <1>4, <1>5, <1>6, <1>7, <1>8 DEF Next

LEMMA StepAgrees ==
    ASSUME TypeOK, LockInv, Registry, PhaseInv, AgreeInv, [Next]_vars
    PROVE  AgreeInv'
<1> SUFFICES ASSUME Uncrossed' PROVE Agreed'
  BY DEF AgreeInv
<1>0. Steady' /\ ~crossed'
  BY DEF Uncrossed
<1>1. Steady /\ Phases /\ Agreed
  <2>1. Steady /\ ~crossed
    BY <1>0, SteadyBefore, CrossedBefore
  <2>. QED  BY <2>1 DEF PhaseInv, AgreeInv, Uncrossed
<1>2. CASE Setup
  <2>1. ~RegistrationTimeout
    BY <1>0 DEF RegistrationTimeout, Steady
  <2>. QED  BY <1>1, <1>2, <2>1, SetupAgrees
<1>3. CASE \E t \in Tasks : Resume(t)
  BY <1>1, <1>3, ResumeAgrees
<1>4. CASE \E t \in Tasks : Timers(t)
  <2>1. \A t \in Tasks : ~ControlTimeout(t)
    BY <1>0 DEF ControlTimeout, Steady
  <2>. QED  BY <1>1, <1>4, <2>1, TimersAgree
<1>5. CASE Answers
  BY <1>0, <1>1, <1>5, PurgeAnswersAgree, EnableAgrees, AddAgrees DEF Answers
<1>6. CASE PingAnswers
  BY <1>1, <1>6, PingAgrees
<1>7. CASE \E t \in Workers : Calls(t)
  BY <1>1, <1>7, CallsAgree
<1>8. CASE SetAutoFailoverEnabled \/ AuthReady \/ UNCHANGED vars
  <2>1. UNCHANGED <<proxies, tasks, td, queue>>
    BY <1>8 DEF SetAutoFailoverEnabled, AuthReady, vars, regVars, ctlVars, tdVars, envVars
  <2>2. NoNewActive /\ NoNewEnables(queue, queue')
    BY <2>1, EnablesSame DEF NoNewActive
  <2>. QED  BY <1>1, <2>1, <2>2, AgreeQuiet
<1>. QED  BY <1>2, <1>3, <1>4, <1>5, <1>6, <1>7, <1>8 DEF Next

LEMMA InitAgrees == ASSUME Init PROVE AgreeInv
<1>1. (\A t \in Tasks : ~Enabling(t)) /\ Enables(queue) = {} /\ ActiveIndices(proxies) = {}
  BY DEF Init, Enabling, Enables, ActiveIndices, Idle
<1>. QED  BY <1>1 DEF AgreeInv, Agreed, Awaited, Enabled, ShowsEnabled

\* However many failovers, activations and health checks are in flight together: until
\* setupProxies is entered a second time, if no answer is late and none ends the wait of a
\* request that is still queued, the proxy shown as active is the one TDLib sends its traffic
\* through, whenever nothing is pending.  Without the last condition it need not be, since
\* _enableProxy waits for a fixed @extra per proxy.
THEOREM ShownProxyIsEnabled == Spec => []Agreement
<1>1. Init => AgreeInv
  BY InitAgrees
<1>2. TypeOK /\ LockInv /\ Registry /\ PhaseInv /\ AgreeInv /\ [Next]_vars => AgreeInv'
  BY StepAgrees
<1>3. AgreeInv => Agreement
  <2>1. ASSUME Agreed, AtRest PROVE ShownIsEnabled
    BY <2>1 DEF Agreed, AtRest, ShownIsEnabled, ShowsEnabled, Enabled, Enabling
  <2>. QED  BY <2>1 DEF AgreeInv, Uncrossed, Steady, Agreement
<1>. QED  BY <1>1, <1>2, <1>3, TypeCorrect, LockInvariant, RegistryInvariant, PhaseInvariant, PTL DEF Spec
=============================================================================
