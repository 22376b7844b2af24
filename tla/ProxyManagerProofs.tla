------------------------- MODULE ProxyManagerProofs -------------------------
(***************************************************************************)
(* Theorems about ProxyManager, for every value of its constants: its      *)
(* types; the failover lock, which always has a holder; the status         *)
(* "switching", which always has an owner; and, before setupProxies is     *)
(* re-entered, that at most one failover is in flight.                     *)
(***************************************************************************)
EXTENDS ProxyManager, SequenceTheorems, FiniteSetTheorems, TLAPS

(***************************************************************************)
(* Lemmas about the operators                                              *)
(***************************************************************************)

\* The placeholder for "no config" is a config.
LEMMA NoConfigType == NoConfig \in Config
BY LiteralAssumption DEF NoConfig, Config

\* A task that is not running is a task.
LEMMA IdleType == Idle \in Task
<1>1. 0 \in 0 .. MaxId /\ 0 \in 0 .. Retries /\ {} \in SUBSET Candidate
  BY BoundAssumption
<1> QED
  BY <1>1, NoConfigType DEF Idle, Task, Kinds, PCs, Results

\* The requests the code builds are requests.
LEMMA ReqType ==
    ASSUME NEW op \in Ops, NEW id \in 0 .. MaxId, NEW cfg \in Config
    PROVE  Req(op, id, cfg) \in Request
BY DEF Req, Request

\* The addProxy request of a config is a request.
LEMMA AddReqType == ASSUME NEW cfg \in Config PROVE AddReq(cfg) \in Request
BY ReqType, BoundAssumption DEF AddReq, Ops

\* The addProxy requests of a list of configs.
LEMMA AddReqsType ==
    ASSUME NEW s \in Seq(Config)
    PROVE  [i \in DOMAIN s |-> AddReq(s[i])] \in Seq(Request)
<1>1. DOMAIN s = 1 .. Len(s) /\ Len(s) \in Nat
  BY LenProperties
<1>2. \A i \in 1 .. Len(s) : AddReq(s[i]) \in Request
  BY ElementOfSeq, AddReqType
<1>3. [i \in DOMAIN s |-> AddReq(s[i])] \in [1 .. Len(s) -> Request]
  BY <1>1, <1>2
<1> QED
  BY <1>1, <1>3, SeqDef

\* Marking entries keeps a list of entries.
LEMMA SetActiveType ==
    ASSUME NEW s \in Seq(Entry), NEW id
    PROVE  SetActive(s, id) \in Seq(Entry)
<1>1. DOMAIN s = 1 .. Len(s) /\ Len(s) \in Nat
  BY LenProperties
<1>2. ASSUME NEW i \in 1 .. Len(s)
      PROVE  [s[i] EXCEPT !.active = (s[i].id = id)] \in Entry
  <2>1. s[i] \in Entry
    BY ElementOfSeq
  <2>2. (s[i].id = id) \in BOOLEAN
    OBVIOUS
  <2> QED
    BY <2>1, <2>2 DEF Entry
<1>3. SetActive(s, id) \in [1 .. Len(s) -> Entry]
  BY <1>1, <1>2 DEF SetActive
<1> QED
  BY <1>1, <1>3, SeqDef

\* Settling the health of an entry keeps a list of entries.
LEMMA SetCheckingType ==
    ASSUME NEW s \in Seq(Entry), NEW id, NEW b \in BOOLEAN
    PROVE  SetChecking(s, id, b) \in Seq(Entry)
<1>1. DOMAIN s = 1 .. Len(s) /\ Len(s) \in Nat
  BY LenProperties
<1>2. ASSUME NEW i \in 1 .. Len(s)
      PROVE  s[i] \in Entry /\ [s[i] EXCEPT !.checking = b] \in Entry
  <2>1. s[i] \in Entry
    BY ElementOfSeq
  <2> QED
    BY <2>1 DEF Entry
<1>3. SetChecking(s, id, b) \in [1 .. Len(s) -> Entry]
  BY <1>1, <1>2 DEF SetChecking
<1> QED
  BY <1>1, <1>3, SeqDef

\* Taking one element out of a list of pending or saved configs leaves a list of configs.
LEMMA RemoveIndexType ==
    ASSUME NEW S, NEW s \in Seq(S), NEW i \in DOMAIN s
    PROVE  RemoveIndex(s, i) \in Seq(S)
<1>1. DOMAIN s = 1 .. Len(s) /\ Len(s) \in Nat
  BY LenProperties
<1>2. SubSeq(s, 1, i - 1) \in Seq(S)
  BY <1>1, ElementOfSeq, SubSeqProperties
<1>3. SubSeq(s, i + 1, Len(s)) \in Seq(S)
  BY <1>1, ElementOfSeq, SubSeqProperties
<1> QED
  BY <1>2, <1>3, ConcatProperties DEF RemoveIndex

\* Candidates are ranked ids.
LEMMA CandidatesType ==
    ASSUME NEW s \in Seq(Entry), NEW I \in SUBSET (DOMAIN s)
    PROVE  Candidates(s, I) \subseteq Candidate
<1>1. DOMAIN s = 1 .. Len(s) /\ Len(s) \in Nat
  BY LenProperties
<1>2. ASSUME NEW i \in I
      PROVE  s[i].id \in Ids /\ Rank(s, i) \in Nat
  <2>1. i \in 1 .. Len(s)
    BY <1>1
  <2>2. s[i] \in Entry
    BY <2>1, ElementOfSeq
  <2> QED
    BY <1>1, <2>1, <2>2 DEF Entry, Rank
<1> QED
  BY <1>2 DEF Candidates, Candidate

\* A ping keeps a task a task.
LEMMA PingFieldsType ==
    ASSUME NEW rec \in Task, NEW id \in 0 .. MaxId
    PROVE  PingFields(rec, id) \in Task
BY DEF PingFields, Task, PCs, Results

\* Waking tasks keeps them tasks.
LEMMA ResolveType ==
    ASSUME tasks \in [Tasks -> Task], NEW W, NEW res \in Results, NEW stale \in BOOLEAN
    PROVE  Resolve(W, res, stale) \in [Tasks -> Task]
<1>1. ASSUME NEW t \in Tasks
      PROVE  [tasks[t] EXCEPT !.res = res, !.stale = (stale /\ res = "ok")] \in Task
  <2>1. tasks[t] \in Task
    OBVIOUS
  <2>2. (stale /\ res = "ok") \in BOOLEAN
    OBVIOUS
  <2> QED
    BY <2>1, <2>2 DEF Task
<1> QED
  BY <1>1 DEF Resolve

\* The count of outstanding pings is capped within its range.
LEMMA Min2Type ==
    ASSUME NEW a \in Nat PROVE Min2(a, MaxOrphans) \in 0 .. MaxOrphans
BY BoundAssumption DEF Min2

\* There are finitely many tasks.
LEMMA TasksFinite == IsFiniteSet(Tasks)
BY BoundAssumption, FS_AddElement DEF Tasks

\* The number of tasks that one answer wakes is a natural number.
LEMMA TaskSetsFinite == ASSUME NEW W \in SUBSET Tasks PROVE Cardinality(W) \in Nat
BY TasksFinite, FS_Subset, FS_CardinalityType

\* Assigning a task keeps the tasks.
LEMMA AssignType ==
    ASSUME tasks \in [Tasks -> Task], NEW t \in Tasks, NEW r \in Task
    PROVE  [tasks EXCEPT ![t] = r] \in [Tasks -> Task]
OBVIOUS

\* Moving a task to another place keeps the tasks.
LEMMA MoveType ==
    ASSUME tasks \in [Tasks -> Task], NEW t \in Tasks, NEW pc \in PCs
    PROVE  /\ [tasks EXCEPT ![t].pc = pc] \in [Tasks -> Task]
           /\ [tasks EXCEPT ![t].pc = pc, ![t].res = "none"] \in [Tasks -> Task]
           /\ [tasks EXCEPT ![t].res = "timeout"] \in [Tasks -> Task]
<1>1. tasks[t] \in Task
  OBVIOUS
<1>2. /\ [tasks[t] EXCEPT !.pc = pc] \in Task
      /\ [tasks[t] EXCEPT !.pc = pc, !.res = "none"] \in Task
      /\ [tasks[t] EXCEPT !.res = "timeout"] \in Task
  BY <1>1 DEF Task, Results
<1> QED
  BY <1>2

\* Moving a task on in the list it iterates over keeps the tasks.
LEMMA MoveLeftType ==
    ASSUME tasks \in [Tasks -> Task], NEW t \in Tasks, NEW pc \in PCs,
           NEW left \in SUBSET Candidate
    PROVE  [tasks EXCEPT ![t].pc = pc, ![t].res = "none", ![t].left = left] \in [Tasks -> Task]
<1>1. tasks[t] \in Task
  OBVIOUS
<1>2. [tasks[t] EXCEPT !.pc = pc, !.res = "none", !.left = left] \in Task
  BY <1>1 DEF Task, Results
<1> QED
  BY <1>2

\* setupProxies has a slot.
LEMMA SetupIsTask == SetupTask \in Tasks
BY DEF Tasks

\* Going on to the next candidate of a failover keeps the tasks.
LEMMA PingNextType ==
    ASSUME tasks \in [Tasks -> Task], NEW t \in Tasks, NEW rec \in Task, PingNext(t, rec)
    PROVE  tasks' \in [Tasks -> Task]
<1>1. PICK p \in rec.left :
          tasks' = [tasks EXCEPT ![t] =
                       PingFields([rec EXCEPT !.left = rec.left \ {p}, !.cur = p.rank,
                                              !.retries = Retries], p.id)]
  BY DEF PingNext
<1>2. p \in Candidate /\ rec.left \ {p} \in SUBSET Candidate
  BY DEF Task
<1>3. p.rank \in Nat /\ p.id \in 0 .. MaxId /\ Retries \in 0 .. Retries
  BY <1>2, BoundAssumption DEF Candidate, Ids
<1>4. [rec EXCEPT !.left = rec.left \ {p}, !.cur = p.rank, !.retries = Retries] \in Task
  BY <1>2, <1>3 DEF Task
<1>5. PingFields([rec EXCEPT !.left = rec.left \ {p}, !.cur = p.rank, !.retries = Retries], p.id)
          \in Task
  BY <1>3, <1>4, PingFieldsType
<1> QED
  BY <1>1, <1>5

\* Sending enableProxy keeps the tasks and the queue.
LEMMA SendEnableType ==
    ASSUME tasks \in [Tasks -> Task], queue \in Seq(Request),
           NEW t \in Tasks, NEW id \in 0 .. MaxId, SendEnable(t, id)
    PROVE  tasks' \in [Tasks -> Task] /\ queue' \in Seq(Request)
<1>1. Req("enable", id, NoConfig) \in Request
  BY ReqType, NoConfigType DEF Ops
<1>2. queue' \in Seq(Request)
  BY <1>1, AppendProperties DEF SendEnable
<1>3. [tasks[t] EXCEPT !.pc = "enable", !.id = id, !.res = "none"] \in Task
  BY DEF Task, PCs, Results
<1>4. tasks' \in [Tasks -> Task]
  BY <1>3 DEF SendEnable
<1> QED
  BY <1>2, <1>4

\* Entering switchToNextProxy keeps the types of all it assigns.
LEMMA SwitchToNextProxyType ==
    ASSUME proxies \in Seq(Entry), tasks \in [Tasks -> Task], CtlType,
           NEW t \in Tasks, SwitchToNextProxy(t)
    PROVE  tasks' \in [Tasks -> Task] /\ status' \in Status /\ failoverRunning' \in BOOLEAN
<1>1. CASE tasks' = [tasks EXCEPT ![t] = Idle] /\ UNCHANGED <<status, failoverRunning>>
  BY <1>1, IdleType DEF CtlType
<1>2. CASE tasks' = [tasks EXCEPT ![t] = Idle] /\ status' = "active" /\ UNCHANGED failoverRunning
  BY <1>2, IdleType DEF CtlType, Status
<1>3. CASE /\ failoverRunning' = TRUE
           /\ status' = "switching"
           /\ \E c \in {0} \cup {Rank(proxies, i) : i \in ActiveIndices(proxies)} :
                 PingNext(t, [Idle EXCEPT !.kind = "failover", !.cur = c,
                     !.left = Candidates(proxies, DOMAIN proxies \ ActiveIndices(proxies))])
  <2>1. PICK c \in {0} \cup {Rank(proxies, i) : i \in ActiveIndices(proxies)} :
            PingNext(t, [Idle EXCEPT !.kind = "failover", !.cur = c,
                !.left = Candidates(proxies, DOMAIN proxies \ ActiveIndices(proxies))])
    BY <1>3
  <2>2. c \in Nat
    <3>1. DOMAIN proxies = 1 .. Len(proxies) /\ Len(proxies) \in Nat
      BY LenProperties
    <3>2. \A i \in ActiveIndices(proxies) : Rank(proxies, i) \in Nat
      BY <3>1 DEF ActiveIndices, Rank
    <3> QED
      BY <3>2
  <2>3. Candidates(proxies, DOMAIN proxies \ ActiveIndices(proxies)) \subseteq Candidate
    BY CandidatesType
  <2>4. [Idle EXCEPT !.kind = "failover", !.cur = c,
             !.left = Candidates(proxies, DOMAIN proxies \ ActiveIndices(proxies))] \in Task
    BY <2>2, <2>3, IdleType DEF Task, Kinds
  <2>5. tasks' \in [Tasks -> Task]
    BY <2>1, <2>4, PingNextType
  <2> QED
    BY <1>3, <2>5 DEF Status
<1> QED
  BY <1>1, <1>2, <1>3 DEF SwitchToNextProxy

\* What a task that waited for enableProxy does to the entries and the status keeps their types.
LEMMA EnabledType ==
    ASSUME proxies \in Seq(Entry), NEW rec
    PROVE  EnabledProxies(rec) \in Seq(Entry) /\ EnabledStatus(rec) \in Status
BY SetActiveType, SetCheckingType DEF EnabledProxies, EnabledStatus, Status

\* What pingProxy does to the entries when it returns keeps their type.
LEMMA PingHealthType ==
    ASSUME proxies \in Seq(Entry), NEW rec
    PROVE  PingHealth(proxies, rec) \in Seq(Entry)
BY SetCheckingType DEF PingHealth

\* The end of setupProxies keeps the types.
LEMMA SetupEpilogueType ==
    ASSUME CtlType, tasks \in [Tasks -> Task], NEW ps, NEW st, SetupEpilogue(ps, st)
    PROVE  tasks' \in [Tasks -> Task] /\ healthTimer' \in BOOLEAN /\ readyForFailover' \in BOOLEAN
<1>1. [Idle EXCEPT !.kind = "setup", !.pc = "users"] \in Task
  BY IdleType DEF Task, Kinds, PCs
<1>2. tasks' \in [Tasks -> Task]
  BY <1>1, SetupIsTask DEF SetupEpilogue
<1>3. healthTimer' \in BOOLEAN /\ readyForFailover' \in BOOLEAN
  BY DEF SetupEpilogue, CtlType
<1> QED
  BY <1>2, <1>3

(***************************************************************************)
(* Type correctness                                                        *)
(***************************************************************************)

\* The initial state has the types.
LEMMA InitTypeOK == Init => TypeOK
<1> SUFFICES ASSUME Init PROVE TypeOK
  OBVIOUS
<1>1. RegType
  <2>1. SavedConfigs \in Seq(Config)
    BY ConfigAssumption
  <2> QED
    BY <2>1, LiteralAssumption, EmptySeq DEF Init, RegType
<1>2. CtlType
  BY DEF Init, CtlType, Status
<1>3. tasks \in [Tasks -> Task]
  BY IdleType DEF Init
<1>4. TdType
  BY ConfigAssumption, BoundAssumption, LiteralAssumption, EmptySeq DEF Init, TdType, Ids
<1>5. EnvType
  <2>1. setups \in 0 .. MaxSetups
    BY BoundAssumption DEF Init
  <2> QED
    BY <2>1 DEF Init, EnvType
<1> QED
  BY <1>1, <1>2, <1>3, <1>4, <1>5 DEF TypeOK

\* A control request without a config can be appended to the queue.
LEMMA SendType ==
    ASSUME queue \in Seq(Request), NEW op \in Ops, NEW id \in 0 .. MaxId
    PROVE  Append(queue, Req(op, id, NoConfig)) \in Seq(Request)
BY ReqType, NoConfigType, AppendProperties

\* The steps of setupProxies keep the types.
LEMMA SetupTypeOK == TypeOK /\ Setup => TypeOK'
<1> SUFFICES ASSUME TypeOK, Setup PROVE TypeOK'
  OBVIOUS
<1> USE SetupIsTask
<1>1. CASE SetupProxies
  <2>1. 0 \in 0 .. MaxId /\ setups' \in 0 .. MaxSetups
    BY <1>1, BoundAssumption DEF SetupProxies, TypeOK, EnvType
  <2>2. queue' \in Seq(Request)
    BY <1>1, <2>1, SendType DEF SetupProxies, TypeOK, TdType, Ops
  <2>3. [Idle EXCEPT !.kind = "setup", !.pc = "disable"] \in Task
    BY IdleType DEF Task, Kinds, PCs
  <2>4. tasks' \in [Tasks -> Task]
    BY <1>1, <2>3 DEF SetupProxies, TypeOK
  <2>5. RegType'
    BY <1>1, LiteralAssumption, EmptySeq DEF SetupProxies, TypeOK, RegType
  <2>6. CtlType'
    BY <1>1 DEF SetupProxies, TypeOK, CtlType
  <2> QED
    BY <1>1, <2>1, <2>2, <2>4, <2>5, <2>6 DEF SetupProxies, TypeOK, TdType, EnvType
<1>2. CASE PurgeList
  <2>0. 0 \in 0 .. MaxId
    BY BoundAssumption
  <2>1. queue' \in Seq(Request)
    BY <1>2, <2>0, SendType DEF PurgeList, TypeOK, TdType, Ops
  <2>2. tasks' \in [Tasks -> Task]
    BY <1>2, MoveType DEF PurgeList, TypeOK, PCs, Results
  <2> QED
    BY <1>2, <2>1, <2>2
    DEF PurgeList, TypeOK, RegType, CtlType, TdType, EnvType, regVars, ctlVars, envVars
<1>3. CASE PurgeRemove
  <2>1. CASE /\ tasks' = [tasks EXCEPT ![SetupTask].pc = "detect", ![SetupTask].res = "none",
                                       ![SetupTask].left = {}]
             /\ UNCHANGED queue
    <3>1. tasks' \in [Tasks -> Task]
      BY <2>1, MoveLeftType DEF TypeOK, PCs
    <3> QED
      BY <1>3, <2>1, <3>1
      DEF PurgeRemove, TypeOK, RegType, CtlType, TdType, EnvType, regVars, ctlVars, envVars
  <2>2. ASSUME NEW p \in tasks[SetupTask].left,
               queue' = Append(queue, Req("remove", p.id, NoConfig)),
               tasks' = [tasks EXCEPT ![SetupTask].pc = "remove", ![SetupTask].res = "none",
                                      ![SetupTask].left = tasks[SetupTask].left \ {p}]
        PROVE  TypeOK'
    <3>1. p \in Candidate /\ tasks[SetupTask].left \ {p} \in SUBSET Candidate
      BY DEF TypeOK, Task
    <3>2. p.id \in 0 .. MaxId
      BY <3>1 DEF Candidate, Ids
    <3>3. queue' \in Seq(Request)
      BY <2>2, <3>2, SendType DEF TypeOK, TdType, Ops
    <3>4. tasks' \in [Tasks -> Task]
      <4>1. "remove" \in PCs
        BY DEF PCs
      <4>2. [tasks EXCEPT ![SetupTask].pc = "remove", ![SetupTask].res = "none",
                          ![SetupTask].left = tasks[SetupTask].left \ {p}] \in [Tasks -> Task]
        BY <3>1, <4>1, MoveLeftType DEF TypeOK
      <4> QED
        BY <2>2, <4>2
    <3> QED
      BY <1>3, <3>3, <3>4
      DEF PurgeRemove, TypeOK, RegType, CtlType, TdType, EnvType, regVars, ctlVars, envVars
  <2> QED
    BY <1>3, <2>1, <2>2 DEF PurgeRemove
<1>4. CASE RegisterConfigs
  <2>1. SystemConfig \in Config
    BY LiteralAssumption DEF SystemConfig, Config
  <2>2. [i \in DOMAIN MTProto |-> AddReq(MTProto[i])] \in Seq(Request)
    BY ConfigAssumption, AddReqsType
  <2>3. (IF HasSystem THEN <<AddReq(SystemConfig)>> ELSE <<>>) \in Seq(Request)
    BY <2>1, AddReqType
  <2>4. queue' \in Seq(Request)
    BY <1>4, <2>2, <2>3, ConcatProperties DEF RegisterConfigs, TypeOK, TdType
  <2>5. [tasks[SetupTask] EXCEPT !.pc = "register"] \in Task
    BY DEF TypeOK, Task, PCs
  <2>6. tasks' \in [Tasks -> Task]
    BY <1>4, <2>5, IdleType DEF RegisterConfigs, TypeOK
  <2>7. status' \in Status
    BY <1>4 DEF RegisterConfigs, Status
  <2>8. RegType'
    BY <1>4, ConfigAssumption DEF RegisterConfigs, TypeOK, RegType
  <2> QED
    BY <1>4, <2>4, <2>6, <2>7, <2>8
    DEF RegisterConfigs, TypeOK, CtlType, TdType, EnvType, envVars
<1>5. CASE RegistrationDone
  <2>1. tasks' \in [Tasks -> Task]
    BY <1>5, MoveType DEF RegistrationDone, TypeOK, PCs
  <2> QED
    BY <1>5, <2>1 DEF RegistrationDone, TypeOK, RegType, CtlType, TdType, EnvType,
                      regVars, ctlVars, tdVars, envVars
<1>6. CASE RegistrationTimeout
  <2>1. tasks' \in [Tasks -> Task]
    BY <1>6, MoveType DEF RegistrationTimeout, TypeOK, PCs
  <2> QED
    BY <1>6, <2>1 DEF RegistrationTimeout, TypeOK, RegType, CtlType, TdType, EnvType,
                      regVars, ctlVars, tdVars
<1>7. CASE EnableFirstAvailable
  <2>0. \A i \in DOMAIN proxies : proxies[i].id \in Ids /\ proxies[i].id \in 0 .. MaxId
    <3>1. \A i \in DOMAIN proxies : proxies[i] \in Entry
      BY ElementOfSeq, LenProperties DEF TypeOK, RegType
    <3> QED
      BY <3>1 DEF Entry, Ids
  <2>1. CASE status' = "error" /\ SetupEpilogue(proxies, "error") /\ UNCHANGED queue
    BY <1>7, <2>1, SetupEpilogueType
    DEF EnableFirstAvailable, TypeOK, RegType, CtlType, TdType, EnvType, Status, regVars, envVars
  <2>2. ASSUME NEW i \in DOMAIN proxies, SendEnable(SetupTask, proxies[i].id),
               UNCHANGED <<status, healthTimer, readyForFailover>>
        PROVE  TypeOK'
    <3>1. tasks' \in [Tasks -> Task] /\ queue' \in Seq(Request)
      BY <2>0, <2>2, SendEnableType DEF TypeOK, TdType
    <3> QED
      BY <1>7, <2>2, <3>1
      DEF EnableFirstAvailable, TypeOK, RegType, CtlType, TdType, EnvType, regVars, envVars
  <2>3. ASSUME NEW I \in SUBSET (DOMAIN proxies), NEW i \in DOMAIN proxies,
               PingNext(SetupTask, [Idle EXCEPT !.kind = "setup",
                           !.left = Candidates(proxies, I), !.first = proxies[i].id]),
               UNCHANGED <<status, healthTimer, readyForFailover, queue>>
        PROVE  TypeOK'
    <3>1. Candidates(proxies, I) \subseteq Candidate
      BY CandidatesType DEF TypeOK, RegType
    <3>2. [Idle EXCEPT !.kind = "setup", !.left = Candidates(proxies, I),
                       !.first = proxies[i].id] \in Task
      BY <2>0, <3>1, IdleType DEF Task, Kinds
    <3>3. tasks' \in [Tasks -> Task]
      BY <2>3, <3>2, PingNextType DEF TypeOK
    <3> QED
      BY <1>7, <2>3, <3>3
      DEF EnableFirstAvailable, TypeOK, RegType, CtlType, TdType, EnvType, regVars, envVars
  <2> QED
    BY <1>7, <2>1, <2>2, <2>3 DEF EnableFirstAvailable
<1>8. CASE SetupPinged
  <2>0. /\ \A i \in DOMAIN proxies : proxies[i].id \in 0 .. MaxId
        /\ tasks[SetupTask] \in Task
    <3>1. \A i \in DOMAIN proxies : proxies[i] \in Entry
      BY ElementOfSeq, LenProperties DEF TypeOK, RegType
    <3> QED
      BY <3>1 DEF TypeOK, Entry, Ids
  <2>1. proxies' \in Seq(Entry)
    BY <1>8, PingHealthType DEF SetupPinged, TypeOK, RegType
  <2>2. ASSUME NEW id \in 0 .. MaxId, SendEnable(SetupTask, id)
        PROVE  tasks' \in [Tasks -> Task] /\ queue' \in Seq(Request)
    BY <2>2, SendEnableType DEF TypeOK, TdType
  <2>3. ASSUME PingNext(SetupTask, tasks[SetupTask]), UNCHANGED queue
        PROVE  tasks' \in [Tasks -> Task] /\ queue' \in Seq(Request)
    BY <2>0, <2>3, PingNextType DEF TypeOK, TdType
  <2>4. ASSUME NEW i \in DOMAIN proxies,
               tasks' = [tasks EXCEPT ![SetupTask] =
                   PingFields([tasks[SetupTask] EXCEPT !.kind = "setupSystem",
                                                       !.retries = Retries],
                              proxies[i].id)],
               UNCHANGED queue
        PROVE  tasks' \in [Tasks -> Task] /\ queue' \in Seq(Request)
    <3>1. [tasks[SetupTask] EXCEPT !.kind = "setupSystem", !.retries = Retries] \in Task
      <4>1. Retries \in 0 .. Retries
        BY BoundAssumption
      <4> QED
        BY <2>0, <4>1 DEF Task, Kinds
    <3>2. PingFields([tasks[SetupTask] EXCEPT !.kind = "setupSystem", !.retries = Retries],
                     proxies[i].id) \in Task
      BY <2>0, <3>1, PingFieldsType
    <3> QED
      BY <2>4, <3>2 DEF TypeOK, TdType
  <2>5. tasks[SetupTask].id \in 0 .. MaxId /\ tasks[SetupTask].first \in 0 .. MaxId
    BY <2>0 DEF Task
  <2>6. tasks' \in [Tasks -> Task] /\ queue' \in Seq(Request)
    BY <1>8, <2>2, <2>3, <2>4, <2>5 DEF SetupPinged, TypeOK, TdType
  <2> QED
    BY <1>8, <2>1, <2>6
    DEF SetupPinged, TypeOK, RegType, CtlType, TdType, EnvType, ctlVars, envVars
<1>9. CASE SetupEnabled
  <2>1. proxies' \in Seq(Entry) /\ status' \in Status
    BY <1>9, EnabledType DEF SetupEnabled, TypeOK, RegType
  <2>2. tasks' \in [Tasks -> Task] /\ healthTimer' \in BOOLEAN /\ readyForFailover' \in BOOLEAN
    BY <1>9, SetupEpilogueType DEF SetupEnabled, TypeOK
  <2> QED
    BY <1>9, <2>1, <2>2
    DEF SetupEnabled, TypeOK, RegType, CtlType, TdType, EnvType, tdVars, envVars
<1>10. CASE RegisterSavedUserProxies
  <2>1. saved \in Seq(Config)
    BY DEF TypeOK, RegType
  <2>2. queue' \in Seq(Request)
    BY <1>10, <2>1, AddReqsType, ConcatProperties DEF RegisterSavedUserProxies, TypeOK, TdType
  <2>3. pendingUsers' \in Seq(Config)
    BY <1>10, ConcatProperties DEF RegisterSavedUserProxies, TypeOK, RegType
  <2>4. tasks' \in [Tasks -> Task]
    BY <1>10, IdleType DEF RegisterSavedUserProxies, TypeOK
  <2> QED
    BY <1>10, <2>2, <2>3, <2>4
    DEF RegisterSavedUserProxies, TypeOK, RegType, CtlType, TdType, EnvType, ctlVars, envVars
<1> QED
  BY <1>1, <1>2, <1>3, <1>4, <1>5, <1>6, <1>7, <1>8, <1>9, <1>10 DEF Setup

\* The continuations of the other tasks keep the types.
LEMMA ResumeTypeOK == ASSUME TypeOK, NEW t \in Tasks, Resume(t) PROVE TypeOK'
<1>0. /\ proxies \in Seq(Entry) /\ tasks \in [Tasks -> Task] /\ tasks[t] \in Task
      /\ tasks[t].id \in 0 .. MaxId /\ queue \in Seq(Request) /\ CtlType
  BY DEF TypeOK, RegType, TdType, Task
<1>1. CASE PingCanceled(t)
  <2>1. tasks[t].retries - 1 \in 0 .. Retries
    <3>1. tasks[t].retries \in 0 .. Retries /\ tasks[t].retries > 0
      BY <1>0, <1>1 DEF PingCanceled, Task
    <3> QED
      BY <3>1, BoundAssumption
  <2>2. [tasks[t] EXCEPT !.pc = "settle", !.res = "none", !.retries = tasks[t].retries - 1] \in Task
    BY <1>0, <2>1 DEF Task, PCs, Results
  <2>3. tasks' \in [Tasks -> Task]
    BY <1>0, <1>1, <2>2 DEF PingCanceled
  <2> QED
    BY <1>1, <2>3 DEF PingCanceled, TypeOK, RegType, CtlType, TdType, EnvType,
                      regVars, ctlVars, tdVars, envVars
<1>2. CASE FailoverPinged(t)
  <2>1. proxies' \in Seq(Entry)
    BY <1>0, <1>2, PingHealthType, SetCheckingType DEF FailoverPinged
  <2>2. CASE SendEnable(t, tasks[t].id) /\ UNCHANGED <<status, failoverRunning>>
    <3>1. tasks' \in [Tasks -> Task] /\ queue' \in Seq(Request)
      BY <1>0, <2>2, SendEnableType
    <3> QED
      BY <1>2, <2>1, <2>2, <3>1
      DEF FailoverPinged, TypeOK, RegType, CtlType, TdType, EnvType, envVars
  <2>3. CASE PingNext(t, tasks[t]) /\ UNCHANGED <<queue, status, failoverRunning>>
    <3>1. tasks' \in [Tasks -> Task]
      BY <1>0, <2>3, PingNextType
    <3> QED
      BY <1>2, <2>1, <2>3, <3>1
      DEF FailoverPinged, TypeOK, RegType, CtlType, TdType, EnvType, envVars
  <2>4. CASE /\ status' = IF HasActive(proxies) THEN "active" ELSE "error"
             /\ failoverRunning' = FALSE
             /\ tasks' = [tasks EXCEPT ![t] = Idle]
             /\ UNCHANGED queue
    <3>1. tasks' \in [Tasks -> Task] /\ status' \in Status
      BY <1>0, <2>4, IdleType DEF Status
    <3> QED
      BY <1>2, <2>1, <2>4, <3>1
      DEF FailoverPinged, TypeOK, RegType, CtlType, TdType, EnvType, envVars
  <2> QED
    BY <1>2, <2>2, <2>3, <2>4 DEF FailoverPinged
<1>3. CASE ActivatePinged(t)
  <2>1. proxies' \in Seq(Entry)
    BY <1>0, <1>3, PingHealthType DEF ActivatePinged
  <2>2. tasks' \in [Tasks -> Task] /\ queue' \in Seq(Request)
    BY <1>0, <1>3, SendEnableType DEF ActivatePinged
  <2> QED
    BY <1>3, <2>1, <2>2
    DEF ActivatePinged, TypeOK, RegType, CtlType, TdType, EnvType, ctlVars, envVars
<1>4. CASE TestPinged(t)
  <2>1. proxies' \in Seq(Entry) /\ tasks' \in [Tasks -> Task]
    BY <1>0, <1>4, SetCheckingType, IdleType DEF TestPinged
  <2> QED
    BY <1>4, <2>1
    DEF TestPinged, TypeOK, RegType, CtlType, TdType, EnvType, ctlVars, tdVars, envVars
<1>5. CASE HealthPinged(t)
  <2>1. proxies' \in Seq(Entry)
    BY <1>0, <1>5, PingHealthType DEF HealthPinged
  <2>2. tasks' \in [Tasks -> Task] /\ status' \in Status /\ failoverRunning' \in BOOLEAN
    <3>1. CASE tasks' = [tasks EXCEPT ![t] = Idle] /\ UNCHANGED <<status, failoverRunning>>
      BY <1>0, <3>1, IdleType DEF CtlType
    <3>2. CASE SwitchToNextProxy(t)
      BY <1>0, <3>2, SwitchToNextProxyType
    <3> QED
      BY <1>5, <3>1, <3>2 DEF HealthPinged
  <2> QED
    BY <1>5, <2>1, <2>2
    DEF HealthPinged, TypeOK, RegType, CtlType, TdType, EnvType, tdVars, envVars
<1>6. CASE FailoverEnabled(t)
  <2>1. proxies' \in Seq(Entry) /\ status' \in Status /\ tasks' \in [Tasks -> Task]
    BY <1>0, <1>6, EnabledType, IdleType DEF FailoverEnabled
  <2> QED
    BY <1>6, <2>1
    DEF FailoverEnabled, TypeOK, RegType, CtlType, TdType, EnvType, tdVars, envVars
<1>7. CASE ActivateEnabled(t)
  <2>1. proxies' \in Seq(Entry) /\ status' \in Status /\ tasks' \in [Tasks -> Task]
    BY <1>0, <1>7, EnabledType, IdleType DEF ActivateEnabled
  <2> QED
    BY <1>7, <2>1
    DEF ActivateEnabled, TypeOK, RegType, CtlType, TdType, EnvType, tdVars, envVars
<1> QED
  BY <1>1, <1>2, <1>3, <1>4, <1>5, <1>6, <1>7 DEF Resume

\* One more outstanding ping of an id stays within the bound.
LEMMA OrphanType ==
    ASSUME orphans \in [Ids -> 0 .. MaxOrphans], NEW id, NEW n \in Nat
    PROVE  [orphans EXCEPT ![id] = Min2(@ + n, MaxOrphans)] \in [Ids -> 0 .. MaxOrphans]
<1>1. \A i \in Ids : orphans[i] \in Nat
  BY BoundAssumption
<1>2. \A i \in Ids : Min2(orphans[i] + n, MaxOrphans) \in 0 .. MaxOrphans
  BY <1>1, Min2Type
<1> QED
  BY <1>2

\* The timers and the writing of the preferences keep the types.
LEMMA TimersTypeOK == ASSUME TypeOK, NEW t \in Tasks, Timers(t) PROVE TypeOK'
<1>0. /\ tasks \in [Tasks -> Task] /\ tasks[t] \in Task
      /\ tasks[t].id \in 0 .. MaxId /\ queue \in Seq(Request)
  BY DEF TypeOK, TdType, Task
<1>1. CASE PingAgain(t)
  <2>1. tasks' \in [Tasks -> Task]
    BY <1>0, <1>1, PingFieldsType, AssignType DEF PingAgain
  <2> QED
    BY <1>1, <2>1 DEF PingAgain, TypeOK, RegType, CtlType, TdType, EnvType,
                      regVars, ctlVars, tdVars, envVars
<1>2. CASE PingTimeout(t)
  <2>1. tasks' \in [Tasks -> Task]
    BY <1>0, <1>2, MoveType DEF PingTimeout, PCs
  <2>2. orphans' \in [Ids -> 0 .. MaxOrphans]
    BY <1>2, OrphanType DEF PingTimeout, TypeOK, TdType
  <2> QED
    BY <1>2, <2>1, <2>2 DEF PingTimeout, TypeOK, RegType, CtlType, TdType, EnvType,
                            regVars, ctlVars, envVars
<1>3. CASE ControlTimeout(t)
  <2>1. tasks' \in [Tasks -> Task]
    BY <1>0, <1>3, MoveType DEF ControlTimeout, PCs
  <2>2. queue' \in Seq(Request)
    <3>1. DOMAIN queue = 1 .. Len(queue) /\ Len(queue) \in Nat
      BY <1>0, LenProperties
    <3>2. ASSUME NEW i \in 1 .. Len(queue)
          PROVE  queue[i] \in Request /\ [queue[i] EXCEPT !.live = FALSE] \in Request
      <4>1. queue[i] \in Request
        BY <1>0, ElementOfSeq
      <4> QED
        BY <4>1 DEF Request
    <3>3. queue' \in [1 .. Len(queue) -> Request]
      BY <1>3, <3>1, <3>2 DEF ControlTimeout
    <3> QED
      BY <3>1, <3>3, SeqDef
  <2> QED
    BY <1>3, <2>1, <2>2 DEF ControlTimeout, TypeOK, RegType, CtlType, TdType, EnvType,
                            regVars, ctlVars
<1>4. CASE UserProxySaved(t)
  <2>1. tasks[t].cfg \in Config /\ saved \in Seq(Config)
    BY <1>0 DEF TypeOK, RegType, Task
  <2>2. saved' \in Seq(Config)
    <3>1. \A i \in DOMAIN saved : RemoveIndex(saved, i) \in Seq(Config)
      BY <2>1, RemoveIndexType
    <3>2. \A s \in Seq(Config) : Append(s, tasks[t].cfg) \in Seq(Config)
      BY <2>1, AppendProperties
    <3> QED
      BY <1>4, <2>1, <3>1, <3>2 DEF UserProxySaved
  <2>3. queue' \in Seq(Request)
    BY <1>0, <1>4, <2>1, AddReqType, AppendProperties DEF UserProxySaved
  <2>4. tasks' \in [Tasks -> Task]
    BY <1>0, <1>4, IdleType DEF UserProxySaved
  <2> QED
    BY <1>4, <2>2, <2>3, <2>4
    DEF UserProxySaved, TypeOK, RegType, CtlType, TdType, EnvType, ctlVars, envVars
<1> QED
  BY <1>1, <1>2, <1>3, <1>4 DEF Timers

\* The head and the tail of the queue.
LEMMA QueueType ==
    ASSUME queue \in Seq(Request), queue # <<>>
    PROVE  queue[1] \in Request /\ Tail(queue) \in Seq(Request)
BY HeadTailProperties, ElementOfSeq, LenProperties, EmptySeq

\* _registerAddedProxy keeps the types.
LEMMA RegisterAddedProxyType ==
    ASSUME RegType, NEW id \in Ids, NEW cfg \in Config, RegisterAddedProxy(id, cfg),
           UNCHANGED <<saved, systemProxy, pendingSystem>>
    PROVE  RegType'
<1> DEFINE New == [id |-> id, name |-> cfg.name, active |-> FALSE, checking |-> FALSE]
<1>1. New \in Entry
  BY DEF Entry, Config
<1>2. Append(proxies, New) \in Seq(Entry)
  BY <1>1, AppendProperties DEF RegType
<1>3. ASSUME NEW server \in STRING
      PROVE  [payloads EXCEPT ![id] = server] \in [Ids -> STRING]
  BY DEF RegType
<1>4. \A i \in DOMAIN pendingUsers : pendingUsers[i] \in Config /\ RemoveIndex(pendingUsers, i) \in Seq(Config)
  BY ElementOfSeq, LenProperties, RemoveIndexType DEF RegType
<1>5. \A i \in DOMAIN MTProto : MTProto[i] \in Config
  BY ConfigAssumption, ElementOfSeq, LenProperties
<1>6. \A c \in Config : c.server \in STRING
  BY DEF Config
<1>7. proxies' \in Seq(Entry)
  BY <1>2 DEF RegisterAddedProxy, RegType
<1>8. payloads' \in [Ids -> STRING]
  BY <1>3, <1>4, <1>5, <1>6, LiteralAssumption DEF RegisterAddedProxy, RegType
<1>9. pendingUsers' \in Seq(Config)
  BY <1>4 DEF RegisterAddedProxy, RegType
<1>10. pendingConfigs' \subseteq {MTProto[i].name : i \in DOMAIN MTProto}
  BY DEF RegisterAddedProxy, RegType
<1> QED
  BY <1>7, <1>8, <1>9, <1>10 DEF RegType

\* TDLib's answers to control requests keep the types.
LEMMA AnswersTypeOK == TypeOK /\ Answers => TypeOK'
<1> SUFFICES ASSUME TypeOK, Answers PROVE TypeOK'
  OBVIOUS
<1>0. queue # <<>> /\ queue' = Tail(queue)
  BY DEF Answers, DisableAnswer, ListAnswer, RemoveAnswer, EnableAnswer, AddRefused, AddAnswer,
         Answering
<1>1. Head1 \in Request /\ queue' \in Seq(Request)
  BY <1>0, QueueType DEF TypeOK, TdType, Head1
<1>2. Head1.id \in 0 .. MaxId /\ Head1.cfg \in Config
  BY <1>1 DEF Request
<1>3. ASSUME NEW W, NEW res \in {"ok", "error"}
      PROVE  Resolve(W, res, FALSE) \in [Tasks -> Task]
  BY ResolveType DEF TypeOK, Results
<1>4. CASE DisableAnswer
  <2>1. tasks' \in [Tasks -> Task]
    BY <1>3, <1>4 DEF DisableAnswer, TypeOK
  <2>2. 0 \in 0 .. MaxId
    BY BoundAssumption
  <2>3. td' \in [server : [Ids -> STRING], enabled : 0 .. MaxId, next : 1 .. MaxId + 1]
    BY <1>4, <2>2 DEF DisableAnswer, TypeOK, TdType
  <2> QED
    BY <1>1, <1>4, <2>1, <2>3
    DEF DisableAnswer, TypeOK, RegType, CtlType, TdType, EnvType, regVars, ctlVars, envVars
<1>5. CASE ListAnswer
  <2>1. {[rank |-> id, id |-> id] : id \in {i \in Ids : td.server[i] # NoServer}} \in SUBSET Candidate
    BY DEF Candidate, Ids
  <2>2. tasks[SetupTask] \in Task
    BY SetupIsTask DEF TypeOK
  <2>3. [tasks[SetupTask] EXCEPT !.res = "ok",
             !.left = {[rank |-> id, id |-> id] : id \in {i \in Ids : td.server[i] # NoServer}}]
          \in Task
    BY <2>1, <2>2 DEF Task, Results
  <2>4. tasks' \in [Tasks -> Task]
    BY <1>5, <2>3, SetupIsTask DEF ListAnswer, TypeOK
  <2> QED
    BY <1>1, <1>5, <2>4
    DEF ListAnswer, TypeOK, RegType, CtlType, TdType, EnvType, regVars, ctlVars, envVars
<1>6. CASE RemoveAnswer
  <2>1. tasks' \in [Tasks -> Task]
    BY <1>3, <1>6 DEF RemoveAnswer, TypeOK
  <2>2. 0 \in 0 .. MaxId
    BY BoundAssumption
  <2>3. td' \in [server : [Ids -> STRING], enabled : 0 .. MaxId, next : 1 .. MaxId + 1]
    BY <1>6, <2>2, LiteralAssumption DEF RemoveAnswer, TypeOK, TdType
  <2> QED
    BY <1>1, <1>6, <2>1, <2>3
    DEF RemoveAnswer, TypeOK, RegType, CtlType, TdType, EnvType, regVars, ctlVars, envVars
<1>7. CASE EnableAnswer
  <2>1. tasks' \in [Tasks -> Task]
    BY <1>3, <1>7 DEF EnableAnswer
  <2>3. td' \in [server : [Ids -> STRING], enabled : 0 .. MaxId, next : 1 .. MaxId + 1]
    BY <1>2, <1>7 DEF EnableAnswer, TypeOK, TdType
  <2> QED
    BY <1>1, <1>7, <2>1, <2>3
    DEF EnableAnswer, TypeOK, RegType, CtlType, TdType, EnvType, regVars, ctlVars, envVars
<1>8. CASE AddRefused
  BY <1>1, <1>8
  DEF AddRefused, TypeOK, RegType, CtlType, TdType, EnvType, ctlVars, envVars
<1>9. CASE AddAnswer
  <2>1. CASE \E id \in Ids : td' = td /\ RegisterAddedProxy(id, Head1.cfg)
    <3>1. RegType'
      BY <1>2, <1>9, <2>1, RegisterAddedProxyType DEF AddAnswer, TypeOK
    <3> QED
      BY <1>1, <1>9, <2>1, <3>1
      DEF AddAnswer, TypeOK, CtlType, TdType, EnvType, ctlVars, envVars
  <2>2. CASE /\ td.next \in Ids
             /\ td' = [td EXCEPT !.server = [@ EXCEPT ![td.next] = Head1.cfg.server],
                                 !.next = @ + 1]
             /\ RegisterAddedProxy(td.next, Head1.cfg)
    <3>1. RegType'
      BY <1>2, <1>9, <2>2, RegisterAddedProxyType DEF AddAnswer, TypeOK
    <3>2. Head1.cfg.server \in STRING /\ td.next + 1 \in 1 .. MaxId + 1
      BY <1>2, <2>2, BoundAssumption DEF Config, Ids
    <3>3. td' \in [server : [Ids -> STRING], enabled : 0 .. MaxId, next : 1 .. MaxId + 1]
      BY <2>2, <3>2 DEF TypeOK, TdType
    <3> QED
      BY <1>1, <1>9, <3>1, <3>3
      DEF AddAnswer, TypeOK, CtlType, TdType, EnvType, ctlVars, envVars
  <2> QED
    BY <1>9, <2>1, <2>2 DEF AddAnswer
<1> QED
  BY <1>4, <1>5, <1>6, <1>7, <1>8, <1>9 DEF Answers

\* The answers to pings keep the types.
LEMMA PingAnswersTypeOK == TypeOK /\ PingAnswers => TypeOK'
<1> SUFFICES ASSUME TypeOK, PingAnswers PROVE TypeOK'
  OBVIOUS
<1>1. PICK res \in {"ok", "error", "canceled"} :
          (\E t \in Tasks : PingReply(t, res)) \/ (\E id \in Ids : LatePingReply(id, res))
  BY DEF PingAnswers
<1>2. ASSUME NEW W, NEW stale \in BOOLEAN
      PROVE  Resolve(W, res, stale) \in [Tasks -> Task]
  BY ResolveType DEF TypeOK, Results
<1>3. ASSUME NEW id PROVE Cardinality(PingWaiters(id)) \in Nat
  BY TaskSetsFinite DEF PingWaiters
<1>4. ASSUME NEW t \in Tasks, PingReply(t, res) PROVE TypeOK'
  <2>1. Cardinality(PingWaiters(tasks[t].id) \ {t}) \in Nat
    BY TaskSetsFinite DEF PingWaiters
  <2>2. orphans' \in [Ids -> 0 .. MaxOrphans]
    BY <1>4, <2>1, OrphanType DEF PingReply, TypeOK, TdType
  <2>3. tasks' \in [Tasks -> Task]
    BY <1>2, <1>4 DEF PingReply
  <2> QED
    BY <1>4, <2>2, <2>3
    DEF PingReply, TypeOK, RegType, CtlType, TdType, EnvType, regVars, ctlVars, envVars
<1>5. ASSUME NEW id \in Ids, LatePingReply(id, res) PROVE TypeOK'
  <2>1. orphans[id] - 1 + Cardinality(PingWaiters(id)) \in Nat
    <3>1. orphans[id] \in 0 .. MaxOrphans /\ orphans[id] > 0
      BY <1>5 DEF LatePingReply, TypeOK, TdType
    <3> QED
      BY <1>3, <3>1, BoundAssumption
  <2>2. Min2(orphans[id] - 1 + Cardinality(PingWaiters(id)), MaxOrphans) \in 0 .. MaxOrphans
    BY <2>1, Min2Type
  <2>3. orphans' \in [Ids -> 0 .. MaxOrphans]
    BY <1>5, <2>2 DEF LatePingReply, TypeOK, TdType
  <2>4. tasks' \in [Tasks -> Task]
    BY <1>2, <1>5 DEF LatePingReply
  <2> QED
    BY <1>5, <2>3, <2>4
    DEF LatePingReply, TypeOK, RegType, CtlType, TdType, EnvType, regVars, ctlVars, envVars
<1> QED
  BY <1>1, <1>4, <1>5

\* Calls from the connection state, the health timer and the settings screen keep the types.
LEMMA CallsTypeOK == ASSUME TypeOK, NEW t \in Workers, Calls(t) PROVE TypeOK'
<1>0. /\ t \in Tasks /\ proxies \in Seq(Entry) /\ tasks \in [Tasks -> Task] /\ CtlType
      /\ Retries \in 0 .. Retries
  BY BoundAssumption DEF Tasks, TypeOK, RegType
<1>1. \A i \in DOMAIN proxies : proxies[i].id \in 0 .. MaxId
  <2>1. \A i \in DOMAIN proxies : proxies[i] \in Entry
    BY <1>0, ElementOfSeq, LenProperties
  <2> QED
    BY <2>1 DEF Entry, Ids
<1>2. ASSUME NEW kind \in Kinds, NEW i \in DOMAIN proxies
      PROVE  PingFields([Idle EXCEPT !.kind = kind, !.retries = Retries], proxies[i].id) \in Task
  <2>1. [Idle EXCEPT !.kind = kind, !.retries = Retries] \in Task
    BY <1>0, IdleType DEF Task
  <2> QED
    BY <1>1, <2>1, PingFieldsType
<1>3. CASE HandleConnectionState(t)
  <2>1. tasks' \in [Tasks -> Task] /\ status' \in Status /\ failoverRunning' \in BOOLEAN
    BY <1>0, <1>3, SwitchToNextProxyType DEF HandleConnectionState
  <2> QED
    BY <1>3, <2>1 DEF HandleConnectionState, TypeOK, RegType, CtlType, TdType, EnvType,
                      regVars, tdVars, envVars
<1>4. CASE HealthTick(t)
  <2>1. PICK i \in DOMAIN proxies :
            tasks' = [tasks EXCEPT ![t] =
                PingFields([Idle EXCEPT !.kind = "health", !.retries = Retries], proxies[i].id)]
    BY <1>4 DEF HealthTick, ActiveIndices
  <2>2. tasks' \in [Tasks -> Task]
    BY <1>0, <1>2, <2>1, AssignType DEF Kinds
  <2> QED
    BY <1>4, <2>2 DEF HealthTick, TypeOK, RegType, CtlType, TdType, EnvType,
                      regVars, ctlVars, tdVars, envVars
<1>5. CASE NextProxyPressed(t)
  <2>1. tasks' \in [Tasks -> Task] /\ status' \in Status /\ failoverRunning' \in BOOLEAN
    BY <1>0, <1>5, SwitchToNextProxyType DEF NextProxyPressed
  <2> QED
    BY <1>5, <2>1 DEF NextProxyPressed, TypeOK, RegType, CtlType, TdType, EnvType,
                      regVars, tdVars, envVars
<1>6. CASE ActivateProxy(t)
  <2>1. PICK i \in DOMAIN proxies :
            /\ proxies' = SetChecking(proxies, proxies[i].id, TRUE)
            /\ tasks' = [tasks EXCEPT ![t] =
                 PingFields([Idle EXCEPT !.kind = "activate", !.retries = Retries], proxies[i].id)]
    BY <1>6 DEF ActivateProxy
  <2>2. tasks' \in [Tasks -> Task]
    BY <1>0, <1>2, <2>1, AssignType DEF Kinds
  <2>3. proxies' \in Seq(Entry)
    BY <1>0, <2>1, SetCheckingType
  <2> QED
    BY <1>6, <2>2, <2>3
    DEF ActivateProxy, TypeOK, RegType, CtlType, TdType, EnvType, Status, tdVars, envVars
<1>7. CASE TestProxy(t)
  <2>1. PICK i \in DOMAIN proxies :
            /\ proxies' = SetChecking(proxies, proxies[i].id, TRUE)
            /\ tasks' = [tasks EXCEPT ![t] =
                 PingFields([Idle EXCEPT !.kind = "test", !.retries = Retries], proxies[i].id)]
    BY <1>7 DEF TestProxy
  <2>2. tasks' \in [Tasks -> Task]
    BY <1>0, <1>2, <2>1, AssignType DEF Kinds
  <2>3. proxies' \in Seq(Entry)
    BY <1>0, <2>1, SetCheckingType
  <2> QED
    BY <1>7, <2>2, <2>3
    DEF TestProxy, TypeOK, RegType, CtlType, TdType, EnvType, ctlVars, tdVars, envVars
<1>8. CASE AddUserProxy(t)
  <2>1. PICK u \in UserConfigs :
            /\ pendingUsers' = Append(pendingUsers, u)
            /\ tasks' = [tasks EXCEPT ![t] =
                            [Idle EXCEPT !.kind = "addUser", !.pc = "prefs", !.cfg = u]]
    BY <1>8 DEF AddUserProxy
  <2>2. u \in Config
    BY ConfigAssumption
  <2>3. [Idle EXCEPT !.kind = "addUser", !.pc = "prefs", !.cfg = u] \in Task
    BY <2>2, IdleType DEF Task, Kinds, PCs
  <2>4. tasks' \in [Tasks -> Task]
    BY <1>0, <2>1, <2>3, AssignType
  <2>5. pendingUsers' \in Seq(Config)
    BY <2>1, <2>2, AppendProperties DEF TypeOK, RegType
  <2> QED
    BY <1>8, <2>4, <2>5
    DEF AddUserProxy, TypeOK, RegType, CtlType, TdType, EnvType, ctlVars, tdVars, envVars
<1> QED
  BY <1>3, <1>4, <1>5, <1>6, <1>7, <1>8 DEF Calls

\* Every step keeps the types.
LEMMA NextTypeOK == TypeOK /\ [Next]_vars => TypeOK'
<1> SUFFICES ASSUME TypeOK, [Next]_vars PROVE TypeOK'
  OBVIOUS
<1>1. CASE SetAutoFailoverEnabled
  BY <1>1 DEF SetAutoFailoverEnabled, TypeOK, RegType, CtlType, TdType, EnvType,
              regVars, tdVars, envVars
<1>2. CASE AuthReady
  BY <1>2 DEF AuthReady, TypeOK, RegType, CtlType, TdType, EnvType, regVars, ctlVars, tdVars
<1>3. CASE UNCHANGED vars
  BY <1>3 DEF TypeOK, RegType, CtlType, TdType, EnvType, vars, regVars, ctlVars, tdVars, envVars
<1> QED
  BY <1>1, <1>2, <1>3, SetupTypeOK, ResumeTypeOK, TimersTypeOK, AnswersTypeOK, PingAnswersTypeOK,
     CallsTypeOK
  DEF Next

\* Every variable of the proxy manager keeps its type in every behaviour, for any
\* configuration, any number of tasks and any bounds.
THEOREM TypeCorrect == Spec => []TypeOK
BY InitTypeOK, NextTypeOK, PTL DEF Spec

-----------------------------------------------------------------------------
(* The failover lock and the status                                        *)


\* What a task is doing is told by its kind: a slot without a kind is idle, the slot of
\* setupProxies runs nothing else, and the preferences are awaited by addUserProxy only.
KindOK ==
    /\ tasks[SetupTask].kind \in {"none", "setup", "setupSystem"}
    /\ \A t \in Tasks :
          /\ tasks[t].kind = "none" <=> tasks[t].pc = "idle"
          /\ tasks[t].pc = "prefs" => tasks[t].kind = "addUser"

\* Before the first call of setupProxies nothing runs and nothing can start.
Untouched ==
    setups = 0 => /\ ~readyForFailover /\ ~healthTimer /\ ~initialized
                  /\ \A t \in Tasks : tasks[t].kind = "none"

\* Until setupProxies is re-entered, a failover in flight holds the lock.
HolderHasLock == setups <= 1 => (InFlight("failover") # {} => failoverRunning)

\* The inductive invariant.
LockInv ==
    /\ KindOK /\ Untouched /\ HolderHasLock
    /\ LockHasHolder /\ SwitchingHasOwner /\ FailoverExclusive

-----------------------------------------------------------------------------
(* What a step may do to the tasks without touching the lock               *)

\* Before anything has been called no slot is taken and the timer is not armed.
LEMMA InUse ==
    ASSUME LockInv, NEW t \in Tasks,
           tasks[t].kind # "none" \/ readyForFailover \/ healthTimer \/ initialized
    PROVE  setups # 0
BY DEF LockInv, Untouched

\* A slot whose place is not idle has a kind, and has been used.
LEMMA PlaceInUse ==
    ASSUME LockInv, NEW t \in Tasks, tasks[t].pc # "idle"
    PROVE  tasks[t].kind # "none" /\ setups # 0
<1>1. tasks[t].kind # "none"
  BY DEF LockInv, KindOK
<1> QED
  BY <1>1, InUse

\* A step that leaves the kinds, the lock and the switching status alone keeps the
\* invariant: an answer, a timer, a continuation that sends the next request.
LEMMA KeepKinds ==
    ASSUME LockInv,
           \A t \in Tasks :
              /\ tasks'[t].kind = tasks[t].kind
              /\ tasks'[t].pc = "idle" <=> tasks[t].pc = "idle"
              /\ tasks'[t].pc = "prefs" <=> tasks[t].pc = "prefs",
           UNCHANGED <<failoverRunning, readyForFailover, healthTimer, setups>>,
           initialized' = initialized \/ setups # 0,
           status' = "switching" => status = "switching"
    PROVE  LockInv'
<1>1. InFlight("failover")' = InFlight("failover") /\ InFlight("activate")' = InFlight("activate")
  BY DEF InFlight
<1>2. KindOK'
  BY SetupIsTask DEF LockInv, KindOK
<1>3. Untouched'
  BY DEF LockInv, Untouched
<1>4. HolderHasLock' /\ LockHasHolder' /\ SwitchingHasOwner' /\ FailoverExclusive'
  BY <1>1 DEF LockInv, HolderHasLock, LockHasHolder, SwitchingHasOwner, FailoverExclusive
<1> QED
  BY <1>2, <1>3, <1>4 DEF LockInv

\* A step of one task keeps the bookkeeping if it leaves its own slot in order, and
\* moves no other task in or out of a kind.
LEMMA OneTask ==
    ASSUME LockInv, setups' # 0, NEW t \in Tasks,
           \A u \in Tasks \ {t} : tasks'[u] = tasks[u],
           tasks'[t].kind = "none" <=> tasks'[t].pc = "idle",
           tasks'[t].pc = "prefs" => tasks'[t].kind = "addUser",
           t = SetupTask => tasks'[t].kind \in {"none", "setup", "setupSystem"}
    PROVE  /\ KindOK' /\ Untouched'
           /\ tasks'[t].kind = "failover" => InFlight("failover")' = InFlight("failover") \cup {t}
           /\ tasks'[t].kind # "failover" => InFlight("failover")' = InFlight("failover") \ {t}
           /\ tasks'[t].kind = "activate" => InFlight("activate")' = InFlight("activate") \cup {t}
<1>1. KindOK'
  <2>1. tasks'[SetupTask].kind \in {"none", "setup", "setupSystem"}
    BY SetupIsTask DEF LockInv, KindOK
  <2>2. \A u \in Tasks : /\ tasks'[u].kind = "none" <=> tasks'[u].pc = "idle"
                         /\ tasks'[u].pc = "prefs" => tasks'[u].kind = "addUser"
    BY DEF LockInv, KindOK
  <2> QED
    BY <2>1, <2>2 DEF KindOK
<1>2. Untouched'
  BY DEF Untouched
<1>3. /\ tasks'[t].kind = "failover" => InFlight("failover")' = InFlight("failover") \cup {t}
      /\ tasks'[t].kind # "failover" => InFlight("failover")' = InFlight("failover") \ {t}
      /\ tasks'[t].kind = "activate" => InFlight("activate")' = InFlight("activate") \cup {t}
  BY DEF InFlight
<1> QED
  BY <1>1, <1>2, <1>3

\* A step of one task that neither starts nor ends a switch keeps the invariant.
LEMMA NeutralTask ==
    ASSUME LockInv, setups # 0, setups' = setups, NEW t \in Tasks,
           \A u \in Tasks \ {t} : tasks'[u] = tasks[u],
           tasks'[t].kind = "none" <=> tasks'[t].pc = "idle",
           tasks'[t].pc = "prefs" => tasks'[t].kind = "addUser",
           t = SetupTask => tasks'[t].kind \in {"none", "setup", "setupSystem"},
           \/ tasks'[t].kind = tasks[t].kind
           \/ {tasks[t].kind, tasks'[t].kind} \cap {"failover", "activate"} = {},
           failoverRunning' = failoverRunning,
           status' = "switching" => status = "switching"
    PROVE  LockInv'
<1>1. KindOK' /\ Untouched'
  BY OneTask
<1>2. InFlight("failover")' = InFlight("failover") /\ InFlight("activate")' = InFlight("activate")
  BY DEF InFlight
<1>3. HolderHasLock' /\ LockHasHolder' /\ SwitchingHasOwner' /\ FailoverExclusive'
  BY <1>2 DEF LockInv, HolderHasLock, LockHasHolder, SwitchingHasOwner, FailoverExclusive
<1> QED
  BY <1>1, <1>3 DEF LockInv

\* A failover that ends gives the lock back, and the status.
LEMMA FailoverEnds ==
    ASSUME LockInv, NEW t \in Tasks, tasks[t].kind = "failover",
           tasks \in [Tasks -> Task], tasks' = [tasks EXCEPT ![t] = Idle],
           setups' = setups, failoverRunning' = FALSE, status' # "switching"
    PROVE  LockInv'
<1>0. setups # 0 /\ t # SetupTask
  BY InUse DEF LockInv, KindOK
<1>1. tasks'[t].kind = "none" /\ tasks'[t].pc = "idle" /\ \A u \in Tasks \ {t} : tasks'[u] = tasks[u]
  BY DEF Idle
<1>2. KindOK' /\ Untouched' /\ InFlight("failover")' = InFlight("failover") \ {t}
  BY <1>0, <1>1, OneTask
<1>3. FailoverExclusive' /\ HolderHasLock'
  <2>1. setups <= 1 => InFlight("failover") = {t}
    BY DEF LockInv, FailoverExclusive, InFlight
  <2> QED
    BY <1>2, <2>1 DEF FailoverExclusive, HolderHasLock
<1>4. LockHasHolder' /\ SwitchingHasOwner'
  BY DEF LockHasHolder, SwitchingHasOwner
<1> QED
  BY <1>2, <1>3, <1>4 DEF LockInv

-----------------------------------------------------------------------------
\* switchToNextProxy, whoever calls it, takes the lock if it is free and becomes its
\* holder, or ends.
LEMMA SwitchKeepsLock ==
    ASSUME LockInv, tasks \in [Tasks -> Task], NEW t \in Workers,
           tasks[t].kind \notin {"failover", "activate"},
           setups # 0, setups' = setups, SwitchToNextProxy(t)
    PROVE  LockInv'
<1>0. t \in Tasks /\ t # SetupTask
  BY BoundAssumption DEF Tasks
<1>1. ASSUME tasks' = [tasks EXCEPT ![t] = Idle], failoverRunning' = failoverRunning,
             status' = "switching" => status = "switching"
      PROVE  LockInv'
  <2>1. tasks'[t].kind = "none" /\ tasks'[t].pc = "idle"
        /\ \A u \in Tasks \ {t} : tasks'[u] = tasks[u]
    BY <1>0, <1>1 DEF Idle
  <2> QED
    BY <1>0, <1>1, <2>1, NeutralTask
<1>2. ASSUME ~failoverRunning, failoverRunning' = TRUE, status' = "switching",
             NEW rec, rec.kind = "failover", PingNext(t, rec)
      PROVE  LockInv'
  <2>1. tasks'[t].kind = "failover" /\ tasks'[t].pc = "ping"
        /\ \A u \in Tasks \ {t} : tasks'[u] = tasks[u]
    BY <1>0, <1>2 DEF PingNext, PingFields
  <2>2. KindOK' /\ Untouched' /\ InFlight("failover")' = InFlight("failover") \cup {t}
    BY <1>0, <2>1, OneTask
  <2>3. setups <= 1 => InFlight("failover") = {}
    BY <1>2 DEF LockInv, HolderHasLock
  <2> QED
    BY <1>2, <2>2, <2>3
    DEF LockInv, HolderHasLock, LockHasHolder, SwitchingHasOwner, FailoverExclusive
<1>3. ASSUME ~failoverRunning, failoverRunning' = TRUE, status' = "switching", NEW c,
             PingNext(t, [Idle EXCEPT !.kind = "failover", !.cur = c,
                 !.left = Candidates(proxies, DOMAIN proxies \ ActiveIndices(proxies))])
      PROVE  LockInv'
  <2>1. [Idle EXCEPT !.kind = "failover", !.cur = c,
            !.left = Candidates(proxies, DOMAIN proxies \ ActiveIndices(proxies))].kind
            = "failover"
    BY DEF Idle
  <2> QED
    BY <1>2, <1>3, <2>1
<1> QED
  BY <1>1, <1>3 DEF SwitchToNextProxy

\* Every step of setupProxies keeps the invariant.  The first clears the lock: if a
\* failover is in flight then, this is not the first call.
LEMMA SetupKeepsLock == TypeOK /\ LockInv /\ Setup => LockInv'
<1> SUFFICES ASSUME TypeOK, LockInv, Setup PROVE LockInv'
  OBVIOUS
<1> USE SetupIsTask
<1>0. tasks \in [Tasks -> Task] /\ tasks[SetupTask] \in Task /\ setups \in Nat
  BY DEF TypeOK, EnvType
<1>k. tasks[SetupTask].kind \in {"none", "setup", "setupSystem"}
  BY DEF LockInv, KindOK
<1>n. ASSUME tasks[SetupTask].pc # "idle", tasks'[SetupTask].kind # "none",
             tasks'[SetupTask].kind \in {"setup", "setupSystem"},
             tasks'[SetupTask].pc \notin {"idle", "prefs"},
             \A u \in Tasks \ {SetupTask} : tasks'[u] = tasks[u],
             UNCHANGED <<failoverRunning, setups>>,
             status' = "switching" => status = "switching"
      PROVE  LockInv'
  <2>1. setups # 0
    BY <1>n, PlaceInUse
  <2> QED
    BY <1>n, <1>k, <2>1, NeutralTask
<1>e. ASSUME tasks[SetupTask].pc # "idle", tasks' = [tasks EXCEPT ![SetupTask] = Idle],
             UNCHANGED <<failoverRunning, setups>>,
             status' = "switching" => status = "switching"
      PROVE  LockInv'
  <2>1. setups # 0
    BY <1>e, PlaceInUse
  <2>2. tasks'[SetupTask].kind = "none" /\ tasks'[SetupTask].pc = "idle"
        /\ \A u \in Tasks \ {SetupTask} : tasks'[u] = tasks[u]
    BY <1>0, <1>e DEF Idle
  <2> QED
    BY <1>e, <1>k, <2>1, <2>2, NeutralTask
<1>1. CASE SetupProxies
  <2>1. /\ tasks'[SetupTask].kind = "setup" /\ tasks'[SetupTask].pc = "disable"
        /\ \A u \in Tasks \ {SetupTask} : tasks'[u] = tasks[u]
        /\ tasks[SetupTask].kind = "none"
    BY <1>0, <1>1 DEF SetupProxies, Idle, LockInv, KindOK
  <2>2. setups' # 0 /\ (setups' <= 1 => setups = 0)
    BY <1>0, <1>1 DEF SetupProxies
  <2>3. KindOK' /\ Untouched'
    BY <2>1, <2>2, OneTask
  <2>4. InFlight("failover")' = InFlight("failover") /\ InFlight("activate")' = InFlight("activate")
    BY <2>1 DEF InFlight
  <2>5. setups = 0 => InFlight("failover") = {}
    BY DEF LockInv, Untouched, InFlight
  <2>6. failoverRunning' = FALSE /\ status' = status
    BY <1>1 DEF SetupProxies
  <2>7. HolderHasLock' /\ FailoverExclusive'
    BY <2>2, <2>4, <2>5 DEF HolderHasLock, FailoverExclusive
  <2>8. LockHasHolder' /\ SwitchingHasOwner'
    BY <2>4, <2>6 DEF LockInv, LockHasHolder, SwitchingHasOwner
  <2> QED
    BY <2>3, <2>7, <2>8 DEF LockInv
<1>2. CASE PurgeList
  <2>1. tasks'[SetupTask].pc = "list" /\ tasks'[SetupTask].kind = "setup"
        /\ tasks[SetupTask].pc = "disable" /\ \A u \in Tasks \ {SetupTask} : tasks'[u] = tasks[u]
    BY <1>0, <1>2 DEF PurgeList, Resuming, Task
  <2> QED
    BY <1>2, <1>n, <2>1 DEF PurgeList, ctlVars, envVars
<1>3. CASE PurgeRemove
  <2>1. tasks'[SetupTask].pc \in {"remove", "detect"} /\ tasks'[SetupTask].kind = "setup"
        /\ tasks[SetupTask].pc \in {"list", "remove"}
        /\ \A u \in Tasks \ {SetupTask} : tasks'[u] = tasks[u]
    BY <1>0, <1>3 DEF PurgeRemove, Resuming, Task
  <2> QED
    BY <1>3, <1>n, <2>1 DEF PurgeRemove, ctlVars, envVars
<1>4. CASE RegisterConfigs
  <2>0. /\ tasks[SetupTask].pc = "detect" /\ status' # "switching"
        /\ UNCHANGED <<failoverRunning, setups>>
    BY <1>4 DEF RegisterConfigs, envVars
  <2>1. CASE tasks' = [tasks EXCEPT ![SetupTask] = Idle]
    BY <2>0, <2>1, <1>e
  <2>2. CASE tasks' = [tasks EXCEPT ![SetupTask] = [@ EXCEPT !.pc = "register"]]
    <3>1. tasks'[SetupTask].pc = "register" /\ tasks'[SetupTask].kind = tasks[SetupTask].kind
          /\ \A u \in Tasks \ {SetupTask} : tasks'[u] = tasks[u]
      BY <1>0, <2>2 DEF Task
    <3>2. tasks[SetupTask].kind # "none"
      BY <2>0, PlaceInUse
    <3> QED
      BY <1>k, <1>n, <2>0, <3>1, <3>2
  <2> QED
    BY <1>4, <2>1, <2>2 DEF RegisterConfigs
<1>5. CASE RegistrationDone \/ RegistrationTimeout
  <2>0. /\ tasks[SetupTask].pc = "register" /\ tasks' = [tasks EXCEPT ![SetupTask].pc = "choose"]
        /\ UNCHANGED <<failoverRunning, setups, status>>
    BY <1>5 DEF RegistrationDone, RegistrationTimeout, ctlVars, envVars
  <2>1. tasks'[SetupTask].pc = "choose" /\ tasks'[SetupTask].kind = tasks[SetupTask].kind
        /\ \A u \in Tasks \ {SetupTask} : tasks'[u] = tasks[u]
    BY <1>0, <2>0 DEF Task
  <2>2. tasks[SetupTask].kind # "none"
    BY <2>0, PlaceInUse
  <2> QED
    BY <1>k, <1>n, <2>0, <2>1, <2>2
<1>6. ASSUME NEW ps, NEW st, SetupEpilogue(ps, st)
      PROVE  tasks'[SetupTask].pc = "users" /\ tasks'[SetupTask].kind = "setup"
             /\ \A u \in Tasks \ {SetupTask} : tasks'[u] = tasks[u]
  BY <1>0, <1>6 DEF SetupEpilogue, Idle
<1>7. CASE EnableFirstAvailable
  <2>0. /\ tasks[SetupTask].pc = "choose" /\ UNCHANGED <<failoverRunning, setups>>
        /\ status' \in {"error", status} /\ tasks[SetupTask].kind # "none"
    BY <1>7, PlaceInUse DEF EnableFirstAvailable, envVars
  <2>1. CASE SetupEpilogue(proxies, "error")
    BY <1>6, <1>n, <2>0, <2>1
  <2>2. ASSUME NEW id, SendEnable(SetupTask, id) PROVE LockInv'
    <3>1. tasks'[SetupTask].pc = "enable" /\ tasks'[SetupTask].kind = tasks[SetupTask].kind
          /\ \A u \in Tasks \ {SetupTask} : tasks'[u] = tasks[u]
      BY <1>0, <2>2 DEF SendEnable, Task
    <3> QED
      BY <1>k, <1>n, <2>0, <3>1
  <2>3. ASSUME NEW left, NEW first,
               PingNext(SetupTask, [Idle EXCEPT !.kind = "setup", !.left = left, !.first = first])
        PROVE  LockInv'
    <3>1. tasks'[SetupTask].pc = "ping" /\ tasks'[SetupTask].kind = "setup"
          /\ \A u \in Tasks \ {SetupTask} : tasks'[u] = tasks[u]
      BY <1>0, <2>3 DEF PingNext, PingFields, Idle
    <3> QED
      BY <1>n, <2>0, <3>1
  <2> QED
    BY <1>7, <2>1, <2>2, <2>3 DEF EnableFirstAvailable
<1>8. CASE SetupPinged
  <2>0. /\ tasks[SetupTask].pc = "ping" /\ tasks[SetupTask].kind \in {"setup", "setupSystem"}
        /\ UNCHANGED <<failoverRunning, setups, status>>
    BY <1>8 DEF SetupPinged, PingReturned, Resuming, ctlVars, envVars
  <2>1. ASSUME NEW id, SendEnable(SetupTask, id) PROVE LockInv'
    <3>1. tasks'[SetupTask].pc = "enable" /\ tasks'[SetupTask].kind = tasks[SetupTask].kind
          /\ \A u \in Tasks \ {SetupTask} : tasks'[u] = tasks[u]
      BY <1>0, <2>1 DEF SendEnable, Task
    <3> QED
      BY <1>n, <2>0, <3>1
  <2>2. CASE PingNext(SetupTask, tasks[SetupTask])
    <3>1. tasks'[SetupTask].pc = "ping" /\ tasks'[SetupTask].kind = tasks[SetupTask].kind
          /\ \A u \in Tasks \ {SetupTask} : tasks'[u] = tasks[u]
      BY <1>0, <2>2 DEF PingNext, PingFields, Task
    <3> QED
      BY <1>n, <2>0, <3>1
  <2>3. ASSUME NEW id,
               tasks' = [tasks EXCEPT ![SetupTask] =
                   PingFields([tasks[SetupTask] EXCEPT !.kind = "setupSystem",
                                                       !.retries = Retries], id)]
        PROVE  LockInv'
    <3>1. tasks'[SetupTask].pc = "ping" /\ tasks'[SetupTask].kind = "setupSystem"
          /\ \A u \in Tasks \ {SetupTask} : tasks'[u] = tasks[u]
      BY <1>0, <2>3 DEF PingFields, Task
    <3> QED
      BY <1>n, <2>0, <3>1
  <2> QED
    BY <1>8, <2>1, <2>2, <2>3 DEF SetupPinged
<1>9. CASE SetupEnabled
  <2>1. /\ tasks[SetupTask].pc = "enable" /\ UNCHANGED <<failoverRunning, setups>>
        /\ status' # "switching"
    BY <1>9 DEF SetupEnabled, Resuming, EnabledStatus, envVars
  <2> QED
    BY <1>6, <1>9, <1>n, <2>1 DEF SetupEnabled
<1>10. CASE RegisterSavedUserProxies
  BY <1>10, <1>e DEF RegisterSavedUserProxies, ctlVars, envVars
<1> QED
  BY <1>1, <1>2, <1>3, <1>4, <1>5, <1>7, <1>8, <1>9, <1>10 DEF Setup

\* Every continuation of a task keeps the invariant.
LEMMA ResumeKeepsLock == ASSUME TypeOK, LockInv, NEW t \in Tasks, Resume(t) PROVE LockInv'
<1>0. tasks \in [Tasks -> Task] /\ tasks[t] \in Task
  BY DEF TypeOK
<1>r. tasks[t].pc # "idle" /\ tasks[t].pc # "prefs"
  BY DEF Resume, PingCanceled, FailoverPinged, ActivatePinged, TestPinged, HealthPinged,
         FailoverEnabled, ActivateEnabled, PingReturned, Resuming
<1>u. tasks[t].kind # "none" /\ setups # 0
  BY <1>r, PlaceInUse
<1>k. t = SetupTask => tasks[t].kind \in {"none", "setup", "setupSystem"}
  BY DEF LockInv, KindOK
<1>n. ASSUME tasks'[t].kind = tasks[t].kind, tasks'[t].pc \notin {"idle", "prefs"},
             \A u \in Tasks \ {t} : tasks'[u] = tasks[u],
             UNCHANGED <<failoverRunning, setups, status>>
      PROVE  LockInv'
  BY <1>n, <1>k, <1>u, NeutralTask
<1>e. ASSUME tasks' = [tasks EXCEPT ![t] = Idle], tasks[t].kind \notin {"failover", "activate"},
             UNCHANGED <<failoverRunning, setups, status>>
      PROVE  LockInv'
  <2>1. tasks'[t].kind = "none" /\ tasks'[t].pc = "idle"
        /\ \A u \in Tasks \ {t} : tasks'[u] = tasks[u]
    BY <1>0, <1>e DEF Idle
  <2> QED
    BY <1>e, <1>u, <2>1, NeutralTask
<1>s. ASSUME NEW id, SendEnable(t, id), UNCHANGED <<failoverRunning, setups, status>>
      PROVE  LockInv'
  <2>1. tasks'[t].pc = "enable" /\ tasks'[t].kind = tasks[t].kind
        /\ \A u \in Tasks \ {t} : tasks'[u] = tasks[u]
    BY <1>0, <1>s DEF SendEnable, Task
  <2> QED
    BY <1>n, <1>s, <2>1
<1>1. CASE PingCanceled(t)
  <2>1. tasks'[t].pc = "settle" /\ tasks'[t].kind = tasks[t].kind
        /\ \A u \in Tasks \ {t} : tasks'[u] = tasks[u]
    BY <1>0, <1>1 DEF PingCanceled, Task
  <2> QED
    BY <1>1, <1>n, <2>1 DEF PingCanceled, ctlVars, envVars
<1>2. CASE FailoverPinged(t)
  <2>0. setups' = setups /\ tasks[t].kind = "failover"
    BY <1>2 DEF FailoverPinged, PingReturned, Resuming, envVars
  <2>1. CASE SendEnable(t, tasks[t].id) /\ UNCHANGED <<status, failoverRunning>>
    BY <1>s, <2>0, <2>1
  <2>2. CASE PingNext(t, tasks[t]) /\ UNCHANGED <<status, failoverRunning>>
    <3>1. tasks'[t].pc = "ping" /\ tasks'[t].kind = tasks[t].kind
          /\ \A u \in Tasks \ {t} : tasks'[u] = tasks[u]
      BY <1>0, <2>2 DEF PingNext, PingFields, Task
    <3> QED
      BY <1>n, <2>0, <2>2, <3>1
  <2>3. CASE /\ status' = IF HasActive(proxies) THEN "active" ELSE "error"
             /\ failoverRunning' = FALSE
             /\ tasks' = [tasks EXCEPT ![t] = Idle]
    <3>1. status' # "switching"
      BY <2>3
    <3> QED
      BY <1>0, <2>0, <2>3, <3>1, FailoverEnds
  <2> QED
    BY <1>2, <2>1, <2>2, <2>3 DEF FailoverPinged
<1>3. CASE ActivatePinged(t)
  BY <1>3, <1>s DEF ActivatePinged, ctlVars, envVars
<1>4. CASE TestPinged(t)
  BY <1>4, <1>e DEF TestPinged, PingReturned, Resuming, ctlVars, envVars
<1>5. CASE HealthPinged(t)
  <2>0. setups' = setups /\ tasks[t].kind = "health"
    BY <1>5 DEF HealthPinged, PingReturned, Resuming, envVars
  <2>1. t \in Workers
    BY <1>k, <2>0 DEF Tasks
  <2>2. CASE tasks' = [tasks EXCEPT ![t] = Idle] /\ UNCHANGED <<status, failoverRunning>>
    BY <1>e, <2>0, <2>2
  <2>3. CASE SwitchToNextProxy(t)
    BY <1>0, <1>u, <2>0, <2>1, <2>3, SwitchKeepsLock
  <2> QED
    BY <1>5, <2>2, <2>3 DEF HealthPinged
<1>6. CASE FailoverEnabled(t)
  <2>1. /\ setups' = setups /\ tasks[t].kind = "failover" /\ status' # "switching"
        /\ failoverRunning' = FALSE /\ tasks' = [tasks EXCEPT ![t] = Idle]
    BY <1>6 DEF FailoverEnabled, Resuming, EnabledStatus, envVars
  <2> QED
    BY <1>0, <2>1, FailoverEnds
<1>7. CASE ActivateEnabled(t)
  <2>0. /\ setups' = setups /\ tasks[t].kind = "activate" /\ status' # "switching"
        /\ failoverRunning' = failoverRunning /\ tasks' = [tasks EXCEPT ![t] = Idle]
    BY <1>7 DEF ActivateEnabled, Resuming, EnabledStatus, envVars
  <2>1. tasks'[t].kind = "none" /\ tasks'[t].pc = "idle"
        /\ \A u \in Tasks \ {t} : tasks'[u] = tasks[u]
    BY <1>0, <2>0 DEF Idle
  <2>2. KindOK' /\ Untouched'
    BY <1>u, <2>0, <2>1, OneTask
  <2>3. InFlight("failover")' = InFlight("failover")
    BY <2>0, <2>1 DEF InFlight
  <2> QED
    BY <2>0, <2>2, <2>3
    DEF LockInv, HolderHasLock, LockHasHolder, SwitchingHasOwner, FailoverExclusive
<1> QED
  BY <1>1, <1>2, <1>3, <1>4, <1>5, <1>6, <1>7 DEF Resume

\* Every timer keeps the invariant: a wait that gives up only wakes its task.
LEMMA TimersKeepLock == ASSUME TypeOK, LockInv, NEW t \in Tasks, Timers(t) PROVE LockInv'
<1>0. tasks \in [Tasks -> Task] /\ tasks[t] \in Task
  BY DEF TypeOK
<1>1. CASE PingAgain(t) \/ PingTimeout(t) \/ ControlTimeout(t)
  <2>1. /\ tasks'[t].kind = tasks[t].kind
        /\ tasks'[t].pc \notin {"idle", "prefs"} /\ tasks[t].pc \notin {"idle", "prefs"}
        /\ \A u \in Tasks \ {t} : tasks'[u] = tasks[u]
    <3>1. CASE PingAgain(t)
      BY <1>0, <3>1 DEF PingAgain, PingFields, Task
    <3>2. CASE PingTimeout(t)
      BY <1>0, <3>2 DEF PingTimeout, Task
    <3>3. CASE ControlTimeout(t)
      BY <1>0, <3>3 DEF ControlTimeout, Task
    <3> QED
      BY <1>1, <3>1, <3>2, <3>3
  <2> QED
    BY <1>1, <2>1, KeepKinds DEF PingAgain, PingTimeout, ControlTimeout, ctlVars, envVars
<1>2. CASE UserProxySaved(t)
  <2>0. /\ tasks[t].pc = "prefs" /\ tasks' = [tasks EXCEPT ![t] = Idle]
        /\ UNCHANGED <<failoverRunning, setups, status>>
    BY <1>2 DEF UserProxySaved, ctlVars, envVars
  <2>1. tasks'[t].kind = "none" /\ tasks'[t].pc = "idle"
        /\ \A u \in Tasks \ {t} : tasks'[u] = tasks[u]
    BY <1>0, <2>0 DEF Idle
  <2>2. setups # 0 /\ tasks[t].kind = "addUser"
    BY <2>0, PlaceInUse DEF LockInv, KindOK
  <2> QED
    BY <2>0, <2>1, <2>2, NeutralTask
<1> QED
  BY <1>1, <1>2 DEF Timers

\* Every answer of TDLib keeps the invariant: it only wakes tasks.
LEMMA AnswersKeepLock == TypeOK /\ LockInv /\ (Answers \/ PingAnswers) => LockInv'
<1> SUFFICES ASSUME TypeOK, LockInv, Answers \/ PingAnswers PROVE LockInv'
  OBVIOUS
<1>0. tasks \in [Tasks -> Task]
  BY DEF TypeOK
<1>1. UNCHANGED <<ctlVars, initialized, setups, late>>
  BY DEF Answers, DisableAnswer, ListAnswer, RemoveAnswer, EnableAnswer, AddRefused, AddAnswer,
         PingAnswers, PingReply, LatePingReply, envVars
<1>2. ASSUME NEW W, NEW res, NEW stale, tasks' = Resolve(W, res, stale)
      PROVE  \A t \in Tasks : tasks'[t].kind = tasks[t].kind /\ tasks'[t].pc = tasks[t].pc
  <2>1. ASSUME NEW t \in Tasks
        PROVE  tasks'[t].kind = tasks[t].kind /\ tasks'[t].pc = tasks[t].pc
    <3>1. tasks[t] \in Task
      BY <1>0
    <3> QED
      BY <1>2, <3>1 DEF Resolve, Task
  <2> QED
    BY <2>1
<1>3. \A t \in Tasks : tasks'[t].kind = tasks[t].kind /\ tasks'[t].pc = tasks[t].pc
  <2>1. CASE DisableAnswer
    BY <1>2, <2>1 DEF DisableAnswer
  <2>2. CASE ListAnswer
    <3>1. tasks[SetupTask] \in Task
      BY <1>0, SetupIsTask
    <3> QED
      BY <1>0, <2>2, <3>1 DEF ListAnswer, Task
  <2>3. CASE RemoveAnswer
    BY <1>2, <2>3 DEF RemoveAnswer
  <2>4. CASE EnableAnswer
    BY <1>2, <2>4 DEF EnableAnswer
  <2>5. CASE AddRefused \/ AddAnswer
    BY <2>5 DEF AddRefused, AddAnswer
  <2>6. CASE PingAnswers
    BY <1>2, <2>6 DEF PingAnswers, PingReply, LatePingReply
  <2> QED
    BY <2>1, <2>2, <2>3, <2>4, <2>5, <2>6 DEF Answers
<1> QED
  BY <1>1, <1>3, KeepKinds DEF ctlVars

\* Every call from the rest of the application keeps the invariant.
LEMMA CallsKeepLock == ASSUME TypeOK, LockInv, NEW t \in Workers, Calls(t) PROVE LockInv'
<1>0. /\ t \in Tasks /\ t # SetupTask /\ tasks \in [Tasks -> Task]
      /\ tasks[t].kind = "none" /\ setups' = setups
  BY BoundAssumption
  DEF TypeOK, Tasks, LockInv, KindOK, Calls, HandleConnectionState, HealthTick, NextProxyPressed,
      ActivateProxy, TestProxy, AddUserProxy, Free, envVars
<1>1. setups # 0
  BY <1>0, InUse
  DEF Calls, HandleConnectionState, HealthTick, NextProxyPressed, ActivateProxy, TestProxy,
      AddUserProxy
<1>2. CASE HandleConnectionState(t) \/ NextProxyPressed(t)
  BY <1>0, <1>1, <1>2, SwitchKeepsLock DEF HandleConnectionState, NextProxyPressed
<1>3. CASE HealthTick(t) \/ TestProxy(t) \/ AddUserProxy(t)
  <2>1. /\ tasks'[t].kind \in {"health", "test", "addUser"} /\ tasks'[t].pc # "idle"
        /\ tasks'[t].pc = "prefs" => tasks'[t].kind = "addUser"
        /\ \A u \in Tasks \ {t} : tasks'[u] = tasks[u]
    <3>1. CASE HealthTick(t)
      BY <1>0, <3>1 DEF HealthTick, PingFields, Idle
    <3>2. CASE TestProxy(t)
      BY <1>0, <3>2 DEF TestProxy, PingFields, Idle
    <3>3. CASE AddUserProxy(t)
      BY <1>0, <3>3 DEF AddUserProxy, Idle
    <3> QED
      BY <1>3, <3>1, <3>2, <3>3
  <2>2. UNCHANGED <<status, failoverRunning>>
    BY <1>3 DEF HealthTick, TestProxy, AddUserProxy, ctlVars
  <2> QED
    BY <1>0, <1>1, <2>1, <2>2, NeutralTask
<1>4. CASE ActivateProxy(t)
  <2>1. /\ tasks'[t].kind = "activate" /\ tasks'[t].pc = "ping"
        /\ \A u \in Tasks \ {t} : tasks'[u] = tasks[u]
    BY <1>0, <1>4 DEF ActivateProxy, PingFields, Idle
  <2>2. /\ KindOK' /\ Untouched' /\ InFlight("activate")' = InFlight("activate") \cup {t}
    BY <1>0, <1>1, <2>1, OneTask
  <2>3. InFlight("failover")' = InFlight("failover") /\ failoverRunning' = failoverRunning
    BY <1>0, <1>4, <2>1 DEF InFlight, ActivateProxy
  <2> QED
    BY <1>0, <2>2, <2>3
    DEF LockInv, HolderHasLock, LockHasHolder, SwitchingHasOwner, FailoverExclusive
<1> QED
  BY <1>2, <1>3, <1>4 DEF Calls

\* LockInv is inductive, given the types.
LEMMA NextKeepsLock == TypeOK /\ LockInv /\ [Next]_vars => LockInv'
<1> SUFFICES ASSUME TypeOK, LockInv, [Next]_vars PROVE LockInv'
  OBVIOUS
<1>1. CASE SetAutoFailoverEnabled
  BY <1>1, KeepKinds DEF SetAutoFailoverEnabled, envVars
<1>2. CASE AuthReady
  <2>1. setups # 0
    BY <1>2 DEF AuthReady, TypeOK, EnvType
  <2> QED
    BY <1>2, <2>1, KeepKinds DEF AuthReady, ctlVars
<1>3. CASE UNCHANGED vars
  BY <1>3, KeepKinds DEF vars, ctlVars, envVars
<1> QED
  BY <1>1, <1>2, <1>3, SetupKeepsLock, ResumeKeepsLock, TimersKeepLock, AnswersKeepLock,
     CallsKeepLock DEF Next

\* Initially nothing runs and the lock is free.
LEMMA InitLock == Init => LockInv
<1> SUFFICES ASSUME Init PROVE LockInv
  OBVIOUS
<1>1. \A t \in Tasks : tasks[t].kind = "none" /\ tasks[t].pc = "idle"
  BY DEF Init, Idle
<1>2. KindOK /\ Untouched
  BY <1>1, SetupIsTask DEF Init, KindOK, Untouched
<1>3. InFlight("failover") = {}
  BY <1>1 DEF InFlight
<1> QED
  BY <1>2, <1>3
  DEF Init, LockInv, HolderHasLock, LockHasHolder, SwitchingHasOwner, FailoverExclusive

\* LockInv is an invariant.
LEMMA LockInvariant == Spec => []LockInv
<1>1. Init => LockInv
  BY InitLock
<1>2. TypeOK /\ LockInv /\ [Next]_vars => LockInv'
  BY NextKeepsLock
<1> QED
  BY <1>1, <1>2, TypeCorrect, PTL DEF Spec

-----------------------------------------------------------------------------
\* The lock that makes switchToNextProxy return at once is never left set: on every path
\* out of a failover, also when setupProxies was re-entered meanwhile, it is released.
THEOREM LockIsHeld == Spec => []LockHasHolder
<1>1. LockInv => LockHasHolder
  BY DEF LockInv
<1> QED
  BY <1>1, LockInvariant, PTL

\* The status that makes the connection-state handler ignore network losses always has a
\* failover or an activation in flight that will replace it.
THEOREM SwitchingIsOwned == Spec => []SwitchingHasOwner
<1>1. LockInv => SwitchingHasOwner
  BY DEF LockInv
<1> QED
  BY <1>1, LockInvariant, PTL

\* However many network losses, health ticks and taps interleave, at most one call of
\* switchToNextProxy is past its guard until setupProxies is entered a second time.
THEOREM FailoversExclude == Spec => []FailoverExclusive
<1>1. LockInv => FailoverExclusive
  BY DEF LockInv
<1> QED
  BY <1>1, LockInvariant, PTL
=============================================================================
