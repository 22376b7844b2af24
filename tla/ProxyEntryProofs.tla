-------------------------- MODULE ProxyEntryProofs --------------------------
(***************************************************************************)
(* The entries of ProxyManager and what is known of their servers, for     *)
(* every value of the constants.                                           *)
(***************************************************************************)
EXTENDS ProxyManagerProofs

-----------------------------------------------------------------------------
(* What most steps leave alone                                             *)

\* The configs of the addProxy requests in q.
Adds(q) == {q[i].cfg : i \in {j \in DOMAIN q : q[j].op = "add"}}

\* The same proxies are listed in the same order.
SameIds(s, r) == DOMAIN r = DOMAIN s /\ \A i \in DOMAIN s : r[i].id = s[i].id

\* No call of addUserProxy has begun.
PrefsKept ==
    \A t \in Tasks : tasks'[t].pc = "prefs" => tasks[t].pc = "prefs" /\ tasks'[t].cfg = tasks[t].cfg

\* The step registers nothing and forgets nothing.
Registers == <<payloads, pendingUsers, saved, systemProxy, setups, td.server, td.next>>
QuietShape ==
    /\ UNCHANGED Registers
    /\ SameIds(proxies, proxies')
    /\ Adds(queue') \subseteq Adds(queue)
    /\ PrefsKept

\* The steps that do.
Registering ==
    \/ SetupProxies \/ RegisterConfigs \/ RegisterSavedUserProxies
    \/ \E t \in Tasks : UserProxySaved(t)
    \/ \E t \in Workers : AddUserProxy(t)
    \/ RemoveAnswer \/ AddAnswer

LEMMA AddsAppend ==
    ASSUME NEW q \in Seq(Request), NEW r
    PROVE  /\ r.op = "add" => Adds(Append(q, r)) = Adds(q) \cup {r.cfg}
           /\ r.op # "add" => Adds(Append(q, r)) = Adds(q)
<1> DEFINE a == Append(q, r)
<1>1. /\ DOMAIN q = 1 .. Len(q) /\ Len(q) \in Nat /\ DOMAIN a = 1 .. Len(q) + 1
      /\ \A i \in 1 .. Len(q) : a[i] = q[i]
      /\ a[Len(q) + 1] = r
  OBVIOUS
<1> HIDE DEF a
<1>2. ASSUME NEW c \in Adds(a) PROVE c \in Adds(q) \/ (r.op = "add" /\ c = r.cfg)
  <2>1. PICK i \in DOMAIN a : a[i].op = "add" /\ c = a[i].cfg
    BY <1>2 DEF Adds
  <2>2. CASE i = Len(q) + 1
    BY <1>1, <2>1, <2>2
  <2>3. CASE i # Len(q) + 1
    <3>1. i \in DOMAIN q /\ a[i] = q[i]
      BY <1>1, <2>3
    <3>. QED  BY <2>1, <3>1 DEF Adds
  <2>. QED  BY <2>2, <2>3
<1>3. ASSUME NEW c \in Adds(q) PROVE c \in Adds(a)
  <2>1. PICK i \in DOMAIN q : q[i].op = "add" /\ c = q[i].cfg
    BY <1>3 DEF Adds
  <2>2. i \in DOMAIN a /\ a[i] = q[i]
    BY <1>1
  <2>. QED  BY <2>1, <2>2 DEF Adds
<1>4. r.op = "add" => r.cfg \in Adds(a)
  <2>1. Len(q) + 1 \in DOMAIN a
    BY <1>1
  <2>. QED  BY <1>1, <2>1 DEF Adds
<1>. QED  BY <1>2, <1>3, <1>4 DEF a

LEMMA AddsTail == ASSUME NEW q \in Seq(Request), q # <<>> PROVE Adds(Tail(q)) \subseteq Adds(q)
<1> DEFINE a == Tail(q)
<1>1. /\ DOMAIN q = 1 .. Len(q) /\ Len(q) \in Nat /\ DOMAIN a = 1 .. Len(q) - 1
      /\ \A i \in 1 .. Len(q) - 1 : a[i] = q[i + 1]
  OBVIOUS
<1> HIDE DEF a
<1>2. ASSUME NEW c \in Adds(a) PROVE c \in Adds(q)
  <2>1. PICK i \in DOMAIN a : a[i].op = "add" /\ c = a[i].cfg
    BY <1>2 DEF Adds
  <2>2. i + 1 \in DOMAIN q /\ a[i] = q[i + 1]
    BY <1>1
  <2>. QED  BY <2>1, <2>2 DEF Adds
<1>. QED  BY <1>2 DEF a

\* The addProxy requests of a list of configs are sent.
LEMMA AddsConcat ==
    ASSUME NEW q \in Seq(Request), NEW s \in Seq(Config)
    PROVE  LET r == [i \in DOMAIN s |-> AddReq(s[i])]
           IN  Adds(q \o r) = Adds(q) \cup {s[i] : i \in DOMAIN s}
<1> DEFINE r == [i \in DOMAIN s |-> AddReq(s[i])]
           a == q \o r
<1>1. r \in Seq(Request) /\ DOMAIN s = 1 .. Len(s) /\ Len(s) \in Nat
  BY AddReqsType, LenProperties
<1>2. DOMAIN r = 1 .. Len(s) /\ Len(r) = Len(s) /\ \A i \in 1 .. Len(s) : r[i].op = "add" /\ r[i].cfg = s[i]
  <2>1. DOMAIN r = 1 .. Len(s) /\ \A i \in 1 .. Len(s) : r[i].op = "add" /\ r[i].cfg = s[i]
    BY <1>1 DEF AddReq, Req
  <2>2. DOMAIN r = 1 .. Len(r) /\ Len(r) \in Nat
    BY <1>1, LenProperties
  <2>. QED  BY <1>1, <2>1, <2>2
<1> HIDE DEF r
<1>3. /\ DOMAIN q = 1 .. Len(q) /\ Len(q) \in Nat /\ DOMAIN a = 1 .. Len(q) + Len(r)
      /\ \A i \in 1 .. Len(q) : a[i] = q[i]
      /\ \A i \in 1 .. Len(r) : a[Len(q) + i] = r[i]
      /\ \A i \in Len(q) + 1 .. Len(q) + Len(r) : a[i] = r[i - Len(q)]
  BY <1>1
<1> HIDE DEF a
<1>4. ASSUME NEW c \in Adds(a) PROVE c \in Adds(q) \cup {s[i] : i \in DOMAIN s}
  <2>1. PICK i \in DOMAIN a : a[i].op = "add" /\ c = a[i].cfg
    BY <1>4 DEF Adds
  <2>2. CASE i \in 1 .. Len(q)
    BY <1>3, <2>1, <2>2 DEF Adds
  <2>3. CASE i \notin 1 .. Len(q)
    <3>1. i - Len(q) \in 1 .. Len(s) /\ a[i] = r[i - Len(q)]
      BY <1>1, <1>2, <1>3, <2>3
    <3>. QED  BY <1>1, <1>2, <2>1, <3>1
  <2>. QED  BY <2>2, <2>3
<1>5. ASSUME NEW c \in Adds(q) PROVE c \in Adds(a)
  <2>1. PICK i \in DOMAIN q : q[i].op = "add" /\ c = q[i].cfg
    BY <1>5 DEF Adds
  <2>2. i \in DOMAIN a /\ a[i] = q[i]
    BY <1>1, <1>2, <1>3
  <2>. QED  BY <2>1, <2>2 DEF Adds
<1>6. ASSUME NEW i \in DOMAIN s PROVE s[i] \in Adds(a)
  <2>1. Len(q) + i \in DOMAIN a /\ a[Len(q) + i] = r[i] /\ r[i].op = "add" /\ r[i].cfg = s[i]
    BY <1>1, <1>2, <1>3
  <2>. QED  BY <2>1 DEF Adds
<1>. QED  BY <1>4, <1>5, <1>6 DEF a, r

LEMMA CheckingShape ==
    ASSUME NEW s \in Seq(Entry), NEW id, NEW b \in BOOLEAN
    PROVE  LET r == SetChecking(s, id, b)
           IN  SameIds(s, r) /\ \A i \in DOMAIN s : r[i].active = s[i].active
<1>1. \A i \in DOMAIN s : s[i] \in Entry
  BY ElementOfSeq, LenProperties
<1>. QED  BY <1>1 DEF SetChecking, SameIds, Entry

LEMMA ActiveShape ==
    ASSUME NEW s \in Seq(Entry), NEW id
    PROVE  LET r == SetActive(s, id)
           IN  SameIds(s, r) /\ \A i \in DOMAIN s : r[i].active = (s[i].id = id)
<1>1. \A i \in DOMAIN s : s[i] \in Entry
  BY ElementOfSeq, LenProperties
<1> DEFINE r == SetActive(s, id)
<1>2. DOMAIN r = DOMAIN s /\ \A i \in DOMAIN s : r[i].id = s[i].id /\ r[i].active = (s[i].id = id)
  BY <1>1 DEF SetActive, Entry
<1> HIDE DEF r
<1>. QED  BY <1>2 DEF SameIds, r

\* Settling a health or an activation keeps the list.
LEMMA EntriesKept ==
    ASSUME proxies \in Seq(Entry),
           \/ proxies' = proxies
           \/ \E id, b : b \in BOOLEAN /\ proxies' = SetChecking(proxies, id, b)
           \/ \E rec : proxies' = PingHealth(proxies, rec) \/ proxies' = EnabledProxies(rec)
    PROVE  SameIds(proxies, proxies')
<1>2. CASE proxies' = proxies
  BY <1>2 DEF SameIds
<1>3. ASSUME NEW id, NEW b \in BOOLEAN, proxies' = SetChecking(proxies, id, b)
      PROVE  SameIds(proxies, proxies')
  BY <1>3, CheckingShape
<1>4. ASSUME NEW rec, proxies' = PingHealth(proxies, rec)
      PROVE  SameIds(proxies, proxies')
  BY <1>2, <1>3, <1>4 DEF PingHealth
<1>5. ASSUME NEW rec, proxies' = EnabledProxies(rec)
      PROVE  SameIds(proxies, proxies')
  <2>1. CASE rec.res = "ok"
    <3> DEFINE s == SetActive(proxies, rec.id)
    <3>1. s \in Seq(Entry) /\ SameIds(proxies, s)
      BY SetActiveType, ActiveShape
    <3>2. proxies' = SetChecking(s, rec.id, FALSE)
      BY <1>5, <2>1 DEF EnabledProxies
    <3> HIDE DEF s
    <3>3. SameIds(s, proxies')
      BY <3>1, <3>2, CheckingShape
    <3>. QED  BY <3>1, <3>3 DEF SameIds
  <2>2. CASE rec.res # "ok"
    BY <1>2, <1>5, <2>2 DEF EnabledProxies
  <2>. QED  BY <2>1, <2>2
<1>. QED  BY <1>2, <1>3, <1>4, <1>5

LEMMA SendKept ==
    ASSUME queue \in Seq(Request), NEW op \in {"disable", "list", "remove", "enable"}, NEW id,
           queue' = Append(queue, Req(op, id, NoConfig))
    PROVE  Adds(queue') = Adds(queue)
BY AddsAppend DEF Req

LEMMA AssignKept ==
    ASSUME tasks \in [Tasks -> Task], NEW t \in Tasks, NEW r, r.pc # "prefs",
           tasks' = [tasks EXCEPT ![t] = r]
    PROVE  PrefsKept
BY DEF PrefsKept

LEMMA PingNextKept ==
    ASSUME tasks \in [Tasks -> Task], NEW t \in Tasks, NEW rec, PingNext(t, rec)
    PROVE  PrefsKept
BY DEF PrefsKept, PingNext, PingFields

LEMMA SendEnableKept ==
    ASSUME tasks \in [Tasks -> Task], queue \in Seq(Request), NEW t \in Tasks, NEW id, SendEnable(t, id)
    PROVE  PrefsKept /\ Adds(queue') = Adds(queue)
<1>1. PrefsKept
  BY DEF PrefsKept, SendEnable, Task
<1>2. Adds(queue') = Adds(queue)
  BY SendKept DEF SendEnable
<1>. QED  BY <1>1, <1>2

LEMMA SwitchKept ==
    ASSUME tasks \in [Tasks -> Task], NEW t \in Tasks, SwitchToNextProxy(t)
    PROVE  PrefsKept
<1>1. Idle.pc # "prefs"
  BY DEF Idle
<1>. QED  BY <1>1, AssignKept, PingNextKept DEF SwitchToNextProxy

LEMMA ResolveKept ==
    ASSUME tasks \in [Tasks -> Task], NEW W, NEW res, NEW stale, tasks' = Resolve(W, res, stale)
    PROVE  PrefsKept
BY DEF Resolve, PrefsKept, Task

\* The steps of setupProxies that register nothing.
LEMMA SetupQuiet ==
    ASSUME TypeOK, Setup, ~Registering
    PROVE  QuietShape
<1> USE SetupIsTask
<1>0. proxies \in Seq(Entry) /\ tasks \in [Tasks -> Task] /\ queue \in Seq(Request)
  BY DEF TypeOK, RegType, TdType
<1>e. ASSUME UNCHANGED proxies PROVE SameIds(proxies, proxies')
  BY <1>0, <1>e, EntriesKept
<1>1. CASE PurgeList
  <2>1. PrefsKept
    BY <1>0, <1>1 DEF PurgeList, PrefsKept, Task
  <2>2. Adds(queue') = Adds(queue)
    BY <1>0, <1>1, SendKept DEF PurgeList
  <2>. QED  BY <1>1, <1>e, <2>1, <2>2 DEF PurgeList, QuietShape, Registers, regVars, envVars
<1>2. CASE PurgeRemove
  <2>1. PrefsKept
    <3>a. PICK pc \in {"detect", "remove"} : \E L :
             tasks' = [tasks EXCEPT ![SetupTask].pc = pc, ![SetupTask].res = "none", ![SetupTask].left = L]
      BY <1>2 DEF PurgeRemove
    <3>1. PICK L :
             tasks' = [tasks EXCEPT ![SetupTask].pc = pc, ![SetupTask].res = "none", ![SetupTask].left = L]
      BY <3>a
    <3>2. tasks' = [tasks EXCEPT ![SetupTask] =
                       [tasks[SetupTask] EXCEPT !.pc = pc, !.res = "none", !.left = L]]
      BY <1>0, <3>1
    <3>3. [tasks[SetupTask] EXCEPT !.pc = pc, !.res = "none", !.left = L].pc # "prefs"
      BY <1>0 DEF Task
    <3>. QED  BY <1>0, <3>2, <3>3, AssignKept
  <2>2. Adds(queue') = Adds(queue)
    BY <1>0, <1>2, SendKept DEF PurgeRemove
  <2>. QED  BY <1>2, <1>e, <2>1, <2>2 DEF PurgeRemove, QuietShape, Registers, regVars, envVars
<1>3. CASE RegistrationDone
  <2>1. PrefsKept
    BY <1>0, <1>3 DEF RegistrationDone, PrefsKept, Task
  <2>. QED  BY <1>3, <1>e, <2>1 DEF RegistrationDone, QuietShape, Registers, regVars, envVars, tdVars
<1>4. CASE RegistrationTimeout
  <2>1. PrefsKept
    BY <1>0, <1>4 DEF RegistrationTimeout, PrefsKept, Task
  <2>. QED  BY <1>4, <1>e, <2>1 DEF RegistrationTimeout, QuietShape, Registers, regVars, envVars, tdVars
<1>s. ASSUME NEW ps, NEW st, SetupEpilogue(ps, st) PROVE PrefsKept
  BY <1>0, <1>s DEF SetupEpilogue, PrefsKept, Idle
<1>5. CASE EnableFirstAvailable
  <2>1. PrefsKept /\ Adds(queue') = Adds(queue)
    <3>1. CASE SetupEpilogue(proxies, "error") /\ UNCHANGED queue
      BY <1>s, <3>1
    <3>2. ASSUME NEW id, SendEnable(SetupTask, id) PROVE PrefsKept /\ Adds(queue') = Adds(queue)
      BY <1>0, <3>2, SendEnableKept
    <3>3. ASSUME NEW rec, PingNext(SetupTask, rec), UNCHANGED queue PROVE PrefsKept /\ Adds(queue') = Adds(queue)
      BY <1>0, <3>3, PingNextKept
    <3>. QED  BY <1>5, <3>1, <3>2, <3>3 DEF EnableFirstAvailable
  <2>. QED  BY <1>5, <1>e, <2>1 DEF EnableFirstAvailable, QuietShape, Registers, regVars, envVars
<1>6. CASE SetupPinged
  <2>1. PrefsKept /\ Adds(queue') = Adds(queue)
    <3>1. ASSUME NEW id, SendEnable(SetupTask, id) PROVE PrefsKept /\ Adds(queue') = Adds(queue)
      BY <1>0, <3>1, SendEnableKept
    <3>2. CASE PingNext(SetupTask, tasks[SetupTask]) /\ UNCHANGED queue
      BY <1>0, <3>2, PingNextKept
    <3>3. ASSUME NEW rec, NEW id, tasks' = [tasks EXCEPT ![SetupTask] = PingFields(rec, id)], UNCHANGED queue
          PROVE  PrefsKept /\ Adds(queue') = Adds(queue)
      BY <1>0, <3>3 DEF PrefsKept, PingFields
    <3>. QED  BY <1>6, <3>1, <3>2, <3>3 DEF SetupPinged
  <2>2. SameIds(proxies, proxies')
    BY <1>0, <1>6, EntriesKept DEF SetupPinged
  <2>. QED  BY <1>6, <2>1, <2>2 DEF SetupPinged, QuietShape, Registers, envVars
<1>7. CASE SetupEnabled
  <2>1. PrefsKept
    BY <1>7, <1>s DEF SetupEnabled
  <2>2. SameIds(proxies, proxies')
    BY <1>0, <1>7, EntriesKept DEF SetupEnabled
  <2>. QED  BY <1>7, <2>1, <2>2 DEF SetupEnabled, QuietShape, Registers, envVars, tdVars
<1>. QED  BY <1>1, <1>2, <1>3, <1>4, <1>5, <1>6, <1>7 DEF Setup, Registering

\* The continuations of the other tasks register nothing.
LEMMA ResumeQuiet == ASSUME TypeOK, NEW t \in Tasks, Resume(t) PROVE QuietShape
<1>0. proxies \in Seq(Entry) /\ tasks \in [Tasks -> Task] /\ queue \in Seq(Request)
  BY DEF TypeOK, RegType, TdType
<1>i. ASSUME tasks' = [tasks EXCEPT ![t] = Idle] PROVE PrefsKept
  BY <1>0, <1>i DEF PrefsKept, Idle
<1>1. CASE PingCanceled(t)
  <2>1. PrefsKept
    BY <1>0, <1>1 DEF PingCanceled, PrefsKept, Task
  <2>2. SameIds(proxies, proxies')
    BY <1>0, <1>1, EntriesKept DEF PingCanceled, regVars
  <2>. QED  BY <1>1, <2>1, <2>2 DEF PingCanceled, QuietShape, Registers, regVars, envVars, tdVars
<1>2. CASE FailoverPinged(t)
  <2>1. PrefsKept /\ Adds(queue') = Adds(queue)
    <3>1. CASE SendEnable(t, tasks[t].id)
      BY <1>0, <3>1, SendEnableKept
    <3>2. CASE PingNext(t, tasks[t]) /\ UNCHANGED queue
      BY <1>0, <3>2, PingNextKept
    <3>3. CASE tasks' = [tasks EXCEPT ![t] = Idle] /\ UNCHANGED queue
      BY <1>i, <3>3
    <3>. QED  BY <1>2, <3>1, <3>2, <3>3 DEF FailoverPinged
  <2>2. SameIds(proxies, proxies')
    <3>1. \/ proxies' = PingHealth(proxies, tasks[t]) \/ proxies' = SetChecking(proxies, tasks[t].id, FALSE)
      BY <1>2 DEF FailoverPinged
    <3>. QED  BY <1>0, <3>1, EntriesKept
  <2>. QED  BY <1>2, <2>1, <2>2 DEF FailoverPinged, QuietShape, Registers, envVars
<1>3. CASE ActivatePinged(t)
  <2>1. PrefsKept /\ Adds(queue') = Adds(queue)
    BY <1>0, <1>3, SendEnableKept DEF ActivatePinged
  <2>2. SameIds(proxies, proxies')
    BY <1>0, <1>3, EntriesKept DEF ActivatePinged
  <2>. QED  BY <1>3, <2>1, <2>2 DEF ActivatePinged, QuietShape, Registers, envVars
<1>4. CASE TestPinged(t)
  <2>2. SameIds(proxies, proxies')
    BY <1>0, <1>4, EntriesKept DEF TestPinged
  <2>. QED  BY <1>4, <1>i, <2>2 DEF TestPinged, QuietShape, Registers, envVars, tdVars
<1>5. CASE HealthPinged(t)
  <2>1. PrefsKept
    BY <1>0, <1>5, <1>i, SwitchKept DEF HealthPinged
  <2>2. SameIds(proxies, proxies')
    BY <1>0, <1>5, EntriesKept DEF HealthPinged
  <2>. QED  BY <1>5, <2>1, <2>2 DEF HealthPinged, QuietShape, Registers, envVars, tdVars
<1>6. CASE FailoverEnabled(t)
  <2>2. SameIds(proxies, proxies')
    BY <1>0, <1>6, EntriesKept DEF FailoverEnabled
  <2>. QED  BY <1>6, <1>i, <2>2 DEF FailoverEnabled, QuietShape, Registers, envVars, tdVars
<1>7. CASE ActivateEnabled(t)
  <2>2. SameIds(proxies, proxies')
    BY <1>0, <1>7, EntriesKept DEF ActivateEnabled
  <2>. QED  BY <1>7, <1>i, <2>2 DEF ActivateEnabled, QuietShape, Registers, envVars, tdVars
<1>. QED  BY <1>1, <1>2, <1>3, <1>4, <1>5, <1>6, <1>7 DEF Resume

\* The timers, the answers and the calls that register nothing.
LEMMA TimersQuiet ==
    ASSUME TypeOK, NEW t \in Tasks, PingAgain(t) \/ PingTimeout(t) \/ ControlTimeout(t)
    PROVE  QuietShape
<1>0. proxies \in Seq(Entry) /\ tasks \in [Tasks -> Task] /\ queue \in Seq(Request)
  BY DEF TypeOK, RegType, TdType
<1>1. PrefsKept
  <2>1. CASE PingAgain(t)
    BY <1>0, <2>1 DEF PingAgain, PrefsKept, PingFields
  <2>2. CASE PingTimeout(t)
    BY <1>0, <2>2 DEF PingTimeout, PrefsKept, Task
  <2>3. CASE ControlTimeout(t)
    BY <1>0, <2>3 DEF ControlTimeout, PrefsKept, Task
  <2>. QED  BY <2>1, <2>2, <2>3
<1>2. Adds(queue') = Adds(queue)
  <2>1. CASE UNCHANGED queue
    BY <2>1
  <2>2. CASE ControlTimeout(t)
    <3>1. \A i \in DOMAIN queue : queue[i] \in Request
      BY <1>0, ElementOfSeq, LenProperties
    <3>2. DOMAIN queue' = DOMAIN queue /\ \A i \in DOMAIN queue : queue'[i].op = queue[i].op /\ queue'[i].cfg = queue[i].cfg
      BY <2>2, <3>1 DEF ControlTimeout, Request
    <3>. QED  BY <3>2 DEF Adds
  <2>. QED  BY <2>1, <2>2 DEF PingAgain, PingTimeout, tdVars
<1>3. SameIds(proxies, proxies')
  BY <1>0, EntriesKept DEF PingAgain, PingTimeout, ControlTimeout, regVars
<1>. QED  BY <1>1, <1>2, <1>3
   DEF QuietShape, Registers, PingAgain, PingTimeout, ControlTimeout, regVars, envVars, tdVars

LEMMA AnswersQuiet ==
    ASSUME TypeOK, Answers \/ PingAnswers, ~RemoveAnswer, ~AddAnswer
    PROVE  QuietShape
<1>0. /\ proxies \in Seq(Entry) /\ tasks \in [Tasks -> Task] /\ queue \in Seq(Request)
      /\ td \in [server : [Ids -> STRING], enabled : 0 .. MaxId, next : 1 .. MaxId + 1]
  BY DEF TypeOK, RegType, TdType
<1>1. PrefsKept
  <2>1. CASE DisableAnswer \/ EnableAnswer \/ PingAnswers
    <3>1. tasks' = tasks \/ \E W, res, stale : tasks' = Resolve(W, res, stale)
      BY <2>1 DEF DisableAnswer, EnableAnswer, PingAnswers, PingReply, LatePingReply
    <3>. QED  BY <1>0, <3>1, ResolveKept DEF PrefsKept
  <2>2. CASE ListAnswer
    BY <1>0, <2>2 DEF ListAnswer, PrefsKept, Task
  <2>3. CASE AddRefused
    BY <2>3 DEF AddRefused, PrefsKept
  <2>. QED  BY <2>1, <2>2, <2>3 DEF Answers
<1>2. Adds(queue') \subseteq Adds(queue)
  BY <1>0, AddsTail DEF Answers, DisableAnswer, ListAnswer, EnableAnswer, AddRefused, Answering,
     PingAnswers, PingReply, LatePingReply
<1>3. proxies' = proxies
  BY DEF Answers, DisableAnswer, ListAnswer, EnableAnswer, AddRefused,
     PingAnswers, PingReply, LatePingReply, regVars
<1>4. SameIds(proxies, proxies')
  BY <1>0, <1>3, EntriesKept
<1>5. UNCHANGED <<td.server, td.next>>
  BY <1>0 DEF Answers, DisableAnswer, ListAnswer, EnableAnswer, AddRefused,
     PingAnswers, PingReply, LatePingReply
<1>6. UNCHANGED <<payloads, pendingUsers, saved, systemProxy, setups>>
  BY DEF Answers, DisableAnswer, ListAnswer, EnableAnswer, AddRefused,
     PingAnswers, PingReply, LatePingReply, regVars, envVars
<1>. QED  BY <1>1, <1>2, <1>4, <1>5, <1>6 DEF QuietShape, Registers

LEMMA CallsQuiet ==
    ASSUME TypeOK, NEW t \in Workers, Calls(t), ~AddUserProxy(t)
    PROVE  QuietShape
<1>0. proxies \in Seq(Entry) /\ tasks \in [Tasks -> Task] /\ queue \in Seq(Request) /\ t \in Tasks
  BY DEF TypeOK, RegType, TdType, Tasks
<1>1. CASE HandleConnectionState(t) \/ NextProxyPressed(t)
  <2>1. SwitchToNextProxy(t) /\ UNCHANGED <<regVars, tdVars, envVars>>
    BY <1>1 DEF HandleConnectionState, NextProxyPressed
  <2>2. SameIds(proxies, proxies')
    BY <1>0, <2>1, EntriesKept DEF regVars
  <2>3. PrefsKept
    BY <1>0, <2>1, SwitchKept
  <2>. QED  BY <2>1, <2>2, <2>3 DEF QuietShape, Registers, regVars, tdVars, envVars
<1>2. CASE HealthTick(t) \/ ActivateProxy(t) \/ TestProxy(t)
  <2>1. PICK rec, id : tasks' = [tasks EXCEPT ![t] = PingFields(rec, id)]
    BY <1>2 DEF HealthTick, ActivateProxy, TestProxy
  <2>2. PrefsKept
    BY <1>0, <2>1 DEF PrefsKept, PingFields
  <2>3. SameIds(proxies, proxies')
    BY <1>0, <1>2, EntriesKept DEF HealthTick, ActivateProxy, TestProxy, regVars
  <2>. QED  BY <1>2, <2>2, <2>3
    DEF HealthTick, ActivateProxy, TestProxy, QuietShape, Registers, regVars, tdVars, envVars
<1>. QED  BY <1>1, <1>2 DEF Calls

\* A step that is not one of the registering ones registers nothing.
LEMMA StepQuiet == ASSUME TypeOK, [Next]_vars, ~Registering PROVE QuietShape
<1>0. proxies \in Seq(Entry)
  BY DEF TypeOK, RegType
<1>1. CASE SetAutoFailoverEnabled \/ AuthReady \/ UNCHANGED vars
  <2>1. UNCHANGED <<regVars, tasks, tdVars, setups>>
    BY <1>1 DEF SetAutoFailoverEnabled, AuthReady, vars, envVars
  <2>2. SameIds(proxies, proxies')
    BY <1>0, <2>1, EntriesKept DEF regVars
  <2>. QED  BY <2>1, <2>2 DEF QuietShape, Registers, PrefsKept, regVars, tdVars
<1>. QED  BY <1>1, SetupQuiet, ResumeQuiet, TimersQuiet, AnswersQuiet, CallsQuiet
   DEF Next, Timers, Registering

\* The entry of a proxy that TDLib has just answered with.
NewEntry(id, cfg) == [id |-> id, name |-> cfg.name, active |-> FALSE, checking |-> FALSE]

LEMMA AddedShape ==
    ASSUME NEW id, NEW cfg, RegisterAddedProxy(id, cfg)
    PROVE  UNCHANGED <<proxies, payloads, pendingUsers>> \/ proxies' = Append(proxies, NewEntry(id, cfg))
BY DEF RegisterAddedProxy, NewEntry

LEMMA AppendEntry ==
    ASSUME NEW s \in Seq(Entry), NEW e, NEW r, r = Append(s, e)
    PROVE  /\ Len(s) \in Nat /\ DOMAIN s = 1 .. Len(s) /\ DOMAIN r = 1 .. Len(s) + 1
           /\ r[Len(s) + 1] = e /\ \A i \in DOMAIN s : r[i] = s[i]
OBVIOUS

-----------------------------------------------------------------------------
(* What is known of the servers                                            *)

\* No config has the name of the OS proxy, which the code relies on and does not check: the
\* answer to its addProxy would be taken for the OS proxy's.
ProperNames == \A c \in Configs : c.name \notin {System, Transport}

\* Only configs are pending, saved and sent.
Sources ==
    /\ Adds(queue) \subseteq Configs \cup {SystemConfig}
    /\ Elems(pendingUsers) \subseteq Configs
    /\ Elems(saved) \subseteq Configs
    /\ \A t \in Tasks : tasks[t].pc = "prefs" => tasks[t].cfg \in Configs

\* TDLib has not given out the ids from td.next on.
Unused == \A id \in Ids : id >= td.next => td.server[id] = NoServer /\ payloads[id] = NoServer

\* In the first setup, the snapshot of the OS proxy is there when its answer comes.
SystemKnown ==
    /\ setups = 0 => Adds(queue) = {}
    /\ ProperNames /\ setups <= 1 => (SystemConfig \in Adds(queue) => systemProxy)
    /\ systemProxy => HasSystem

Registry ==
    /\ Sources /\ Unused /\ PingsNamesake /\ SystemKnown
    /\ ProperNames /\ setups <= 1 => EntriesPingable

LEMMA ElemsAppend == ASSUME NEW S, NEW s \in Seq(S), NEW e PROVE Elems(Append(s, e)) \subseteq Elems(s) \cup {e}
<1> DEFINE r == Append(s, e)
<1>1. /\ Len(s) \in Nat /\ DOMAIN s = 1 .. Len(s) /\ DOMAIN r = 1 .. Len(s) + 1
      /\ r[Len(s) + 1] = e /\ \A i \in 1 .. Len(s) : r[i] = s[i]
  OBVIOUS
<1> HIDE DEF r
<1>2. ASSUME NEW i \in DOMAIN r PROVE r[i] \in Elems(s) \cup {e}
  BY <1>1 DEF Elems
<1>3. Elems(r) \subseteq Elems(s) \cup {e}
  BY <1>2 DEF Elems
<1>. QED  BY <1>3 DEF r

LEMMA ElemsConcat ==
    ASSUME NEW S, NEW s \in Seq(S), NEW r \in Seq(S) PROVE Elems(s \o r) \subseteq Elems(s) \cup Elems(r)
<1> DEFINE a == s \o r
<1>1. /\ Len(s) \in Nat /\ Len(r) \in Nat /\ DOMAIN s = 1 .. Len(s) /\ DOMAIN r = 1 .. Len(r)
      /\ DOMAIN a = 1 .. Len(s) + Len(r)
      /\ \A i \in 1 .. Len(s) + Len(r) : a[i] = IF i <= Len(s) THEN s[i] ELSE r[i - Len(s)]
  OBVIOUS
<1> HIDE DEF a
<1>2. ASSUME NEW i \in DOMAIN a PROVE a[i] \in Elems(s) \cup Elems(r)
  <2>1. CASE i <= Len(s)
    BY <1>1, <2>1 DEF Elems
  <2>2. CASE ~(i <= Len(s))
    <3>1. i - Len(s) \in DOMAIN r /\ a[i] = r[i - Len(s)]
      BY <1>1, <2>2
    <3>. QED  BY <3>1 DEF Elems
  <2>. QED  BY <2>1, <2>2
<1>3. Elems(a) \subseteq Elems(s) \cup Elems(r)
  BY <1>2 DEF Elems
<1>. QED  BY <1>3 DEF a

LEMMA ElemsRemove ==
    ASSUME NEW S, NEW s \in Seq(S), NEW i \in DOMAIN s PROVE Elems(RemoveIndex(s, i)) \subseteq Elems(s)
<1>1. DOMAIN s = 1 .. Len(s) /\ Len(s) \in Nat
  BY LenProperties
<1> DEFINE a == SubSeq(s, 1, i - 1)
           b == SubSeq(s, i + 1, Len(s))
<1>2. a \in Seq(S) /\ b \in Seq(S)
  BY <1>1, ElementOfSeq, SubSeqProperties
<1>3. Elems(a) \subseteq Elems(s)
  <2>1. DOMAIN a = 1 .. i - 1 /\ \A k \in 1 .. i - 1 : a[k] = s[k]
    BY <1>1
  <2>. QED  BY <1>1, <2>1 DEF Elems
<1>4. Elems(b) \subseteq Elems(s)
  <2>1. DOMAIN b = 1 .. Len(s) - i /\ \A k \in 1 .. Len(s) - i : b[k] = s[i + k]
    BY <1>1
  <2>2. \A k \in DOMAIN b : b[k] \in Elems(s)
    BY <1>1, <2>1 DEF Elems
  <2>. QED  BY <2>2 DEF Elems
<1>5. RemoveIndex(s, i) = a \o b
  BY DEF RemoveIndex
<1> HIDE DEF a, b
<1>6. Elems(a \o b) \subseteq Elems(a) \cup Elems(b)
  BY <1>2, ElemsConcat
<1>. QED  BY <1>3, <1>4, <1>5, <1>6

\* A step that registers nothing keeps the registry.
LEMMA QuietRegistry == ASSUME TypeOK, Registry, QuietShape PROVE Registry'
<1>1. Sources'
  BY DEF Registry, Sources, QuietShape, Registers, PrefsKept
<1>2. Unused' /\ PingsNamesake'
  BY DEF Registry, Unused, PingsNamesake, QuietShape, Registers
<1>3. SystemKnown'
  BY DEF Registry, SystemKnown, QuietShape, Registers
<1>4. EntriesPingable => EntriesPingable'
  BY DEF EntriesPingable, QuietShape, Registers, SameIds
<1>5. setups' = setups
  BY DEF QuietShape, Registers
<1>. QED  BY <1>1, <1>2, <1>3, <1>4, <1>5 DEF Registry

\* What a config is answered with.
LEMMA AddedRegistry ==
    ASSUME TypeOK, Registry, NEW id \in Ids, NEW cfg \in Configs \cup {SystemConfig},
           RegisterAddedProxy(id, cfg)
    PROVE  /\ Elems(pendingUsers') \subseteq Configs
           /\ \A k \in Ids \ {id} : payloads'[k] = payloads[k]
           /\ \/ payloads'[id] = payloads[id]
              \/ \E c \in Configs \cup {SystemConfig} : SameName(c, cfg) /\ payloads'[id] = c.server
           /\ \/ UNCHANGED <<proxies, payloads>>
              \/ /\ proxies' = Append(proxies, NewEntry(id, cfg))
                 /\ ProperNames /\ (cfg # SystemConfig \/ systemProxy) => payloads'[id] # NoServer
<1>0. /\ payloads \in [Ids -> STRING] /\ pendingUsers \in Seq(Config)
      /\ Elems(pendingUsers) \subseteq Configs /\ Elems(MTProto) \subseteq Configs
  BY DEF TypeOK, RegType, Registry, Sources, Configs
<1>1. SystemConfig.name \in {System, Transport} /\ SystemConfig.server = SystemServer /\ SystemServer # NoServer
  BY DEF SystemConfig, SystemServer, NoServer
<1>2. \A c \in Configs : c.server # NoServer
  BY ConfigAssumption
<1>4. ASSUME NEW c \in Configs \cup {SystemConfig}, SameName(c, cfg),
             payloads' = IF c.server = NoServer THEN payloads ELSE [payloads EXCEPT ![id] = c.server]
      PROVE  /\ payloads'[id] # NoServer /\ \A k \in Ids \ {id} : payloads'[k] = payloads[k]
             /\ \E d \in Configs \cup {SystemConfig} : SameName(d, cfg) /\ payloads'[id] = d.server
  <2>1. c.server # NoServer
    BY <1>1, <1>2
  <2>. QED  BY <1>0, <1>4, <2>1
<1>5. CASE /\ cfg.name \in {System, Transport} /\ UNCHANGED pendingUsers
           /\ proxies' = Append(proxies, NewEntry(id, cfg))
           /\ LET server == IF pendingSystem \/ systemProxy THEN SystemServer ELSE NoServer
              IN  payloads' = IF server = NoServer THEN payloads ELSE [payloads EXCEPT ![id] = server]
  <2>1. CASE pendingSystem \/ systemProxy
    <3>1. SameName(SystemConfig, cfg)
      BY <1>1, <1>5 DEF SameName
    <3>. QED  BY <1>0, <1>1, <1>4, <1>5, <2>1, <3>1
  <2>2. CASE ~(pendingSystem \/ systemProxy)
    <3>1. ProperNames => cfg = SystemConfig
      BY <1>5 DEF ProperNames
    <3>. QED  BY <1>0, <1>5, <2>2, <3>1
  <2>. QED  BY <2>1, <2>2
<1>6. ASSUME NEW i \in DOMAIN pendingUsers, pendingUsers[i].name = cfg.name,
             pendingUsers' = RemoveIndex(pendingUsers, i),
             payloads' = IF pendingUsers[i].server = NoServer THEN payloads
                         ELSE [payloads EXCEPT ![id] = pendingUsers[i].server]
      PROVE  /\ Elems(pendingUsers') \subseteq Configs
             /\ payloads'[id] # NoServer /\ \A k \in Ids \ {id} : payloads'[k] = payloads[k]
             /\ \E d \in Configs \cup {SystemConfig} : SameName(d, cfg) /\ payloads'[id] = d.server
  <2>1. Elems(pendingUsers') \subseteq Elems(pendingUsers)
    BY <1>0, <1>6, ElemsRemove
  <2>2. pendingUsers[i] \in Configs /\ SameName(pendingUsers[i], cfg)
    BY <1>0, <1>6 DEF Elems, SameName
  <2>. QED  BY <1>0, <1>4, <1>6, <2>1, <2>2
<1>7. ASSUME NEW i \in DOMAIN MTProto, MTProto[i].name = cfg.name, UNCHANGED pendingUsers,
             payloads' = IF MTProto[i].server = NoServer THEN payloads
                         ELSE [payloads EXCEPT ![id] = MTProto[i].server]
      PROVE  /\ Elems(pendingUsers') \subseteq Configs
             /\ payloads'[id] # NoServer /\ \A k \in Ids \ {id} : payloads'[k] = payloads[k]
             /\ \E d \in Configs \cup {SystemConfig} : SameName(d, cfg) /\ payloads'[id] = d.server
  <2>1. MTProto[i] \in Configs /\ SameName(MTProto[i], cfg)
    BY <1>0, <1>7 DEF Elems, SameName
  <2>. QED  BY <1>0, <1>4, <1>7, <2>1
<1>8. CASE UNCHANGED <<proxies, payloads, pendingUsers>>
  BY <1>0, <1>8
<1>. QED  BY <1>5, <1>6, <1>7, <1>8 DEF RegisterAddedProxy, NewEntry

LEMMA AddAnswerRegistry == ASSUME TypeOK, LockInv, Registry, AddAnswer PROVE Registry'
<1> DEFINE cfg == Head1.cfg
<1>0. /\ td \in [server : [Ids -> STRING], enabled : 0 .. MaxId, next : 1 .. MaxId + 1]
      /\ queue \in Seq(Request) /\ proxies \in Seq(Entry) /\ MaxId \in Nat
      /\ payloads \in [Ids -> STRING] /\ setups \in Nat
  BY BoundAssumption DEF TypeOK, RegType, TdType, EnvType
<1>1. /\ cfg \in Adds(queue) /\ Adds(queue') \subseteq Adds(queue)
      /\ UNCHANGED <<saved, systemProxy, tasks, setups>>
  <2>1. queue # <<>> /\ Head1.op = "add" /\ queue' = Tail(queue) /\ UNCHANGED <<saved, systemProxy, tasks, setups>>
    BY DEF AddAnswer, Answering, envVars
  <2>2. 1 \in DOMAIN queue
    BY <1>0, <2>1
  <2>. QED  BY <1>0, <2>1, <2>2, AddsTail DEF Adds, Head1
<1>2. cfg \in Configs \cup {SystemConfig}
  BY <1>1 DEF Registry, Sources
<1>3. cfg.server # NoServer
  BY <1>2, ConfigAssumption DEF SystemConfig, SystemServer, NoServer
<1>4. PICK id \in Ids :
         /\ RegisterAddedProxy(id, cfg) /\ td'.server[id] = cfg.server
         /\ td.server[id] = cfg.server \/ payloads[id] = NoServer
         /\ \A k \in Ids \ {id} : td'.server[k] = td.server[k]
         /\ \A k \in Ids : k >= td'.next => k >= td.next /\ k # id
  <2>1. ASSUME NEW id \in Ids, td.server[id] = cfg.server, td' = td, RegisterAddedProxy(id, cfg)
        PROVE  /\ \A k \in Ids : k >= td'.next => k >= td.next /\ k # id
    BY <1>3, <2>1 DEF Registry, Unused
  <2>2. ASSUME td.next \in Ids, RegisterAddedProxy(td.next, cfg),
               td' = [td EXCEPT !.server = [@ EXCEPT ![td.next] = cfg.server], !.next = @ + 1]
        PROVE  /\ td'.server[td.next] = cfg.server /\ payloads[td.next] = NoServer
               /\ \A k \in Ids \ {td.next} : td'.server[k] = td.server[k]
               /\ \A k \in Ids : k >= td'.next => k >= td.next /\ k # td.next
    <3>1. td'.next = td.next + 1 /\ td'.server = [td.server EXCEPT ![td.next] = cfg.server]
      BY <1>0, <2>2
    <3>2. payloads[td.next] = NoServer
      BY <1>0, <2>2 DEF Registry, Unused
    <3>. QED  BY <1>0, <2>2, <3>1, <3>2 DEF Ids
  <2>. QED  BY <2>1, <2>2 DEF AddAnswer
<1>5. /\ Elems(pendingUsers') \subseteq Configs
      /\ \A k \in Ids \ {id} : payloads'[k] = payloads[k]
      /\ \/ payloads'[id] = payloads[id]
         \/ \E c \in Configs \cup {SystemConfig} : SameName(c, cfg) /\ payloads'[id] = c.server
      /\ \/ UNCHANGED <<proxies, payloads>>
         \/ /\ proxies' = Append(proxies, NewEntry(id, cfg))
            /\ ProperNames /\ (cfg # SystemConfig \/ systemProxy) => payloads'[id] # NoServer
  BY <1>2, <1>4, AddedRegistry
<1> HIDE DEF cfg
<1>6. Sources'
  BY <1>1, <1>5 DEF Registry, Sources
<1>7. Unused'
  BY <1>4, <1>5 DEF Registry, Unused
<1>8. PingsNamesake'
  <2> SUFFICES ASSUME NEW k \in Ids, payloads'[k] # NoServer, td'.server[k] # NoServer
               PROVE  \E c, d \in Configs \cup {SystemConfig} :
                          SameName(c, d) /\ c.server = payloads'[k] /\ d.server = td'.server[k]
    BY DEF PingsNamesake
  <2>1. CASE k # id
    BY <1>4, <1>5, <2>1 DEF Registry, PingsNamesake
  <2>2. CASE k = id /\ payloads'[id] = payloads[id]
    BY <1>3, <1>4, <2>2 DEF Registry, PingsNamesake
  <2>3. CASE k = id /\ \E c \in Configs \cup {SystemConfig} : SameName(c, cfg) /\ payloads'[id] = c.server
    BY <1>2, <1>4, <2>3
  <2>. QED  BY <1>5, <2>1, <2>2, <2>3
<1>9. SystemKnown'
  BY <1>1 DEF Registry, SystemKnown
<1>10. ProperNames /\ setups' <= 1 => EntriesPingable'
  <2> SUFFICES ASSUME ProperNames, setups <= 1 PROVE EntriesPingable'
    BY <1>1
  <2>0. EntriesPingable /\ (cfg = SystemConfig => systemProxy)
    BY <1>1 DEF Registry, SystemKnown
  <2>1. CASE UNCHANGED <<proxies, payloads>>
    BY <2>0, <2>1 DEF EntriesPingable
  <2>2. CASE proxies' = Append(proxies, NewEntry(id, cfg)) /\ payloads'[id] # NoServer
    <3>1. \A i \in DOMAIN proxies' : (i \in DOMAIN proxies /\ proxies'[i] = proxies[i]) \/ proxies'[i] = NewEntry(id, cfg)
      BY <1>0, <2>2, AppendEntry
    <3>2. \A i \in DOMAIN proxies : proxies[i].id \in Ids
      <4>1. \A i \in DOMAIN proxies : proxies[i] \in Entry
        BY <1>0, ElementOfSeq, LenProperties
      <4>. QED  BY <4>1 DEF Entry
    <3>. QED  BY <1>5, <2>0, <2>2, <3>1, <3>2 DEF EntriesPingable, NewEntry
  <2>. QED  BY <1>5, <2>0, <2>1, <2>2
<1>. QED  BY <1>6, <1>7, <1>8, <1>9, <1>10 DEF Registry

LEMMA SetupRegistry ==
    ASSUME TypeOK, LockInv, Registry,
           SetupProxies \/ RegisterConfigs \/ RegisterSavedUserProxies
    PROVE  Registry'
<1> USE SetupIsTask
<1>0. /\ proxies \in Seq(Entry) /\ tasks \in [Tasks -> Task] /\ queue \in Seq(Request)
      /\ pendingUsers \in Seq(Config) /\ saved \in Seq(Config) /\ MTProto \in Seq(Config) /\ setups \in Nat
  BY ConfigAssumption DEF TypeOK, RegType, TdType, EnvType
<1>1. CASE SetupProxies
  <2>1. Adds(queue') = Adds(queue) /\ setups' = setups + 1
    BY <1>0, <1>1, SendKept DEF SetupProxies
  <2>2. PrefsKept
    BY <1>0, <1>1 DEF SetupProxies, PrefsKept, Idle
  <2>3. Sources'
    BY <1>1, <2>1, <2>2 DEF Registry, Sources, SetupProxies, PrefsKept
  <2>4. Unused' /\ PingsNamesake' /\ EntriesPingable'
    BY <1>1 DEF Registry, Unused, PingsNamesake, EntriesPingable, SetupProxies
  <2>5. SystemKnown'
    BY <1>0, <1>1, <2>1 DEF Registry, SystemKnown, SetupProxies
  <2>. QED  BY <2>3, <2>4, <2>5 DEF Registry
<1>2. CASE RegisterConfigs
  <2> DEFINE sys == IF HasSystem THEN <<AddReq(SystemConfig)>> ELSE <<>>
             own == [i \in DOMAIN MTProto |-> AddReq(MTProto[i])]
  <2>1. SystemConfig \in Config
    BY LiteralAssumption DEF SystemConfig, Config
  <2>2. queue \o sys \in Seq(Request) /\ Adds(queue \o sys) = Adds(queue) \cup (IF HasSystem THEN {SystemConfig} ELSE {})
    <3>1. CASE HasSystem
      <4>1. queue \o sys = Append(queue, AddReq(SystemConfig)) /\ AddReq(SystemConfig) \in Request
        BY <1>0, <2>1, <3>1, AddReqType
      <4>2. AddReq(SystemConfig).op = "add" /\ AddReq(SystemConfig).cfg = SystemConfig
        BY DEF AddReq, Req
      <4>3. Append(queue, AddReq(SystemConfig)) \in Seq(Request)
        BY <1>0, <4>1, AppendProperties
      <4>4. Adds(Append(queue, AddReq(SystemConfig))) = Adds(queue) \cup {SystemConfig}
        BY <1>0, <4>2, AddsAppend
      <4>. QED  BY <3>1, <4>1, <4>3, <4>4
    <3>2. CASE ~HasSystem
      <4>1. queue \o sys = queue
        BY <1>0, <3>2
      <4>. QED  BY <1>0, <3>2, <4>1
    <3>. QED  BY <3>1, <3>2
  <2>3. queue' = (queue \o sys) \o own /\ systemProxy' = HasSystem
    BY <1>2 DEF RegisterConfigs
  <2>4. Adds(queue') = Adds(queue \o sys) \cup {MTProto[i] : i \in DOMAIN MTProto}
    BY <1>0, <2>2, <2>3, AddsConcat
  <2>5. Adds(queue') = Adds(queue) \cup (IF HasSystem THEN {SystemConfig} ELSE {}) \cup Elems(MTProto)
    BY <2>2, <2>4 DEF Elems
  <2>6. PrefsKept
    BY <1>0, <1>2 DEF RegisterConfigs, PrefsKept, Task, Idle
  <2>7. UNCHANGED <<proxies, payloads, pendingUsers, saved, td, setups>> /\ setups # 0
    BY <1>2, PlaceInUse DEF RegisterConfigs, envVars
  <2>8. Sources'
    BY <2>5, <2>6, <2>7 DEF Registry, Sources, Configs, PrefsKept
  <2>9. Unused' /\ PingsNamesake' /\ (EntriesPingable => EntriesPingable')
    BY <2>7 DEF Registry, Unused, PingsNamesake, EntriesPingable
  <2>10. SystemKnown'
    <3>1. ProperNames => SystemConfig \notin Elems(MTProto)
      BY DEF ProperNames, Configs, SystemConfig
    <3>2. ProperNames /\ setups <= 1 /\ SystemConfig \in Adds(queue') => systemProxy'
      <4>1. ProperNames /\ setups <= 1 /\ SystemConfig \in Adds(queue) => HasSystem
        BY DEF Registry, SystemKnown
      <4>. QED  BY <2>3, <2>5, <3>1, <4>1
    <3>. QED  BY <2>3, <2>7, <3>2 DEF SystemKnown
  <2>. QED  BY <2>7, <2>8, <2>9, <2>10 DEF Registry
<1>3. CASE RegisterSavedUserProxies
  <2>1. Adds(queue') = Adds(queue) \cup Elems(saved)
    BY <1>0, <1>3, AddsConcat DEF RegisterSavedUserProxies, Elems
  <2>2. Elems(pendingUsers') \subseteq Elems(pendingUsers) \cup Elems(saved)
    BY <1>0, <1>3, ElemsConcat DEF RegisterSavedUserProxies
  <2>3. PrefsKept
    BY <1>0, <1>3 DEF RegisterSavedUserProxies, PrefsKept, Idle
  <2>4. UNCHANGED <<proxies, payloads, saved, systemProxy, td, setups>> /\ setups # 0
    BY <1>3, PlaceInUse DEF RegisterSavedUserProxies, envVars
  <2>5. Sources'
    BY <2>1, <2>2, <2>3, <2>4 DEF Registry, Sources, PrefsKept
  <2>6. Unused' /\ PingsNamesake' /\ (EntriesPingable => EntriesPingable')
    BY <2>4 DEF Registry, Unused, PingsNamesake, EntriesPingable
  <2>7. SystemKnown'
    <3>1. ProperNames => SystemConfig \notin Elems(saved)
      BY DEF Registry, Sources, ProperNames, SystemConfig
    <3>. QED  BY <2>1, <2>4, <3>1 DEF Registry, SystemKnown
  <2>. QED  BY <2>4, <2>5, <2>6, <2>7 DEF Registry
<1>. QED  BY <1>1, <1>2, <1>3

LEMMA UserRegistry ==
    ASSUME TypeOK, LockInv, Registry,
           (\E t \in Tasks : UserProxySaved(t)) \/ (\E t \in Workers : AddUserProxy(t))
    PROVE  Registry'
<1>0. /\ tasks \in [Tasks -> Task] /\ queue \in Seq(Request)
      /\ pendingUsers \in Seq(Config) /\ saved \in Seq(Config) /\ setups \in Nat
  BY DEF TypeOK, RegType, TdType, EnvType
<1>1. ASSUME NEW t \in Tasks, UserProxySaved(t) PROVE Registry'
  <2> DEFINE u == tasks[t].cfg
  <2>1. u \in Configs /\ setups # 0
    BY <1>1, PlaceInUse DEF UserProxySaved, Registry, Sources
  <2>2. Adds(queue') = Adds(queue) \cup {u}
    <3>1. queue' = Append(queue, AddReq(u)) /\ AddReq(u).op = "add" /\ AddReq(u).cfg = u
      BY <1>1 DEF UserProxySaved, AddReq, Req
    <3> HIDE DEF u
    <3>. QED  BY <1>0, <3>1, AddsAppend
  <2>3. Elems(saved') \subseteq Elems(saved) \cup {u}
    <3>1. CASE saved' = Append(saved, u)
      <4> HIDE DEF u
      <4>. QED  BY <1>0, <3>1, ElemsAppend
    <3>2. ASSUME NEW i \in DOMAIN saved, saved' = Append(RemoveIndex(saved, i), u)
          PROVE  Elems(saved') \subseteq Elems(saved) \cup {u}
      <4>1. RemoveIndex(saved, i) \in Seq(Config) /\ Elems(RemoveIndex(saved, i)) \subseteq Elems(saved)
        BY <1>0, RemoveIndexType, ElemsRemove
      <4>2. Elems(saved') \subseteq Elems(RemoveIndex(saved, i)) \cup {u}
        BY <3>2, <4>1, ElemsAppend
      <4>. QED  BY <4>1, <4>2
    <3>. QED  BY <1>1, <3>1, <3>2 DEF UserProxySaved
  <2>4. PrefsKept
    BY <1>0, <1>1 DEF UserProxySaved, PrefsKept, Idle
  <2>5. UNCHANGED <<proxies, payloads, pendingUsers, systemProxy, td, setups>>
    BY <1>1 DEF UserProxySaved, envVars
  <2> HIDE DEF u
  <2>6. Sources'
    BY <2>1, <2>2, <2>3, <2>4, <2>5 DEF Registry, Sources, PrefsKept
  <2>7. Unused' /\ PingsNamesake' /\ (EntriesPingable => EntriesPingable')
    BY <2>5 DEF Registry, Unused, PingsNamesake, EntriesPingable
  <2>8. SystemKnown'
    <3>1. ProperNames => SystemConfig # u
      BY <2>1 DEF ProperNames, SystemConfig
    <3>. QED  BY <2>1, <2>2, <2>5, <3>1 DEF Registry, SystemKnown
  <2>. QED  BY <2>5, <2>6, <2>7, <2>8 DEF Registry
<1>2. ASSUME NEW t \in Workers, AddUserProxy(t) PROVE Registry'
  <2>0. t \in Tasks
    BY DEF Tasks
  <2>1. PICK u \in UserConfigs :
           /\ pendingUsers' = Append(pendingUsers, u)
           /\ tasks' = [tasks EXCEPT ![t] = [Idle EXCEPT !.kind = "addUser", !.pc = "prefs", !.cfg = u]]
    BY <1>2 DEF AddUserProxy
  <2>2. Elems(pendingUsers') \subseteq Elems(pendingUsers) \cup {u} /\ u \in Configs
    BY <1>0, <2>1, ElemsAppend DEF Configs
  <2>3. \A k \in Tasks : tasks'[k].pc = "prefs" => tasks'[k].cfg = u \/ (tasks[k].pc = "prefs" /\ tasks'[k].cfg = tasks[k].cfg)
    BY <1>0, <2>0, <2>1 DEF Idle
  <2>4. UNCHANGED <<proxies, payloads, saved, systemProxy, td, setups, queue>>
    BY <1>2 DEF AddUserProxy, envVars, tdVars
  <2>5. Sources'
    BY <2>2, <2>3, <2>4 DEF Registry, Sources
  <2>6. Unused' /\ PingsNamesake' /\ (EntriesPingable => EntriesPingable') /\ SystemKnown'
    BY <2>4 DEF Registry, Unused, PingsNamesake, EntriesPingable, SystemKnown
  <2>. QED  BY <2>4, <2>5, <2>6 DEF Registry
<1>. QED  BY <1>1, <1>2

LEMMA RemoveRegistry == ASSUME TypeOK, Registry, RemoveAnswer PROVE Registry'
<1>0. /\ td \in [server : [Ids -> STRING], enabled : 0 .. MaxId, next : 1 .. MaxId + 1]
      /\ queue \in Seq(Request) /\ tasks \in [Tasks -> Task]
  BY DEF TypeOK, TdType
<1>1. /\ td'.next = td.next
      /\ \A k \in Ids : td'.server[k] \in {td.server[k], NoServer}
  BY <1>0 DEF RemoveAnswer
<1>2. PrefsKept
  <2>1. tasks' = tasks \/ \E W, res, stale : tasks' = Resolve(W, res, stale)
    BY DEF RemoveAnswer
  <2>. QED  BY <1>0, <2>1, ResolveKept DEF PrefsKept
<1>3. Adds(queue') \subseteq Adds(queue)
  BY <1>0, AddsTail DEF RemoveAnswer, Answering
<1>4. UNCHANGED <<proxies, payloads, pendingUsers, saved, systemProxy, setups>>
  BY DEF RemoveAnswer, regVars, envVars
<1>5. Sources'
  BY <1>2, <1>3, <1>4 DEF Registry, Sources, PrefsKept
<1>6. Unused' /\ PingsNamesake' /\ (EntriesPingable => EntriesPingable')
  BY <1>1, <1>4 DEF Registry, Unused, PingsNamesake, EntriesPingable
<1>7. SystemKnown'
  BY <1>3, <1>4 DEF Registry, SystemKnown
<1>. QED  BY <1>4, <1>5, <1>6, <1>7 DEF Registry

LEMMA StepRegistry == ASSUME TypeOK, LockInv, Registry, [Next]_vars PROVE Registry'
BY StepQuiet, QuietRegistry, SetupRegistry, UserRegistry, RemoveRegistry, AddAnswerRegistry DEF Registering

LEMMA InitRegistry == ASSUME Init PROVE Registry
<1>1. Adds(queue) = {} /\ Elems(pendingUsers) = {}
  BY DEF Init, Adds, Elems
<1>2. Sources
  BY <1>1 DEF Init, Sources, Configs, Idle
<1>3. Unused /\ PingsNamesake /\ EntriesPingable
  BY DEF Init, Unused, PingsNamesake, EntriesPingable, Ids
<1>. QED  BY <1>1, <1>2, <1>3 DEF Init, Registry, SystemKnown

LEMMA RegistryInvariant == Spec => []Registry
<1>1. Init => Registry
  BY InitRegistry
<1>2. TypeOK /\ LockInv /\ Registry /\ [Next]_vars => Registry'
  BY StepRegistry
<1>. QED  BY <1>1, <1>2, TypeCorrect, LockInvariant, PTL DEF Spec

\* For every configuration, clashing names included, and however many set-ups, refusals and
\* user proxies are mixed: the payload that the answer to addProxy finds is that of a config
\* with the name that was sent, so a ping measures a namesake of the server that enableProxy
\* of the same id would switch to, and that server itself where names are distinct.
THEOREM PingsMeasureANamesake == Spec => []PingsNamesake
<1>1. Registry => PingsNamesake
  BY DEF Registry
<1>. QED  BY <1>1, RegistryInvariant, PTL

-----------------------------------------------------------------------------
(* Entries shown as being checked                                          *)

\* A test or an activation that waits for the answer to its ping, or to repeat it.
Awaits(rec) == rec.kind \in {"test", "activate"} /\ rec.pc \in {"ping", "settle"}

\* Only the first entry with an id is ever marked, and a call is there that will settle it; an
\* activation pings a proxy whose payload is known, so pingProxy does settle it.
CheckInv ==
    setups <= 1 =>
        /\ \A i \in DOMAIN proxies :
              proxies[i].checking =>
                  /\ FirstWithId(proxies, i, proxies[i].id)
                  /\ \E t \in Tasks : Awaits(tasks[t]) /\ tasks[t].id = proxies[i].id
        /\ \A t \in Tasks :
              Awaits(tasks[t]) /\ tasks[t].kind = "activate" =>
                  tasks[t].id \in Ids /\ payloads[tasks[t].id] # NoServer /\ tasks[t].res # "nopayload"

\* The step marks no entry.
NoneMarked == SameIds(proxies, proxies') /\ \A i \in DOMAIN proxies : proxies'[i].checking => proxies[i].checking

\* The call of t goes on waiting about the same proxy.
StaysAwaiting(t) == Awaits(tasks'[t]) /\ tasks'[t].id = tasks[t].id /\ tasks'[t].kind = tasks[t].kind
                    /\ (tasks'[t].res = "nopayload" => tasks[t].res = "nopayload" \/ payloads[tasks[t].id] = NoServer)

LEMMA SettleShape ==
    ASSUME NEW s \in Seq(Entry), NEW id
    PROVE  LET r == SetChecking(s, id, FALSE)
           IN  /\ SameIds(s, r)
               /\ \A i \in DOMAIN s : r[i].checking => s[i].checking /\ ~FirstWithId(s, i, id)
<1>1. \A i \in DOMAIN s : s[i] \in Entry
  BY ElementOfSeq, LenProperties
<1>. QED  BY <1>1 DEF SetChecking, SameIds, Entry

LEMMA EntriesNoneMarked ==
    ASSUME proxies \in Seq(Entry),
           \/ proxies' = proxies
           \/ \E id : proxies' = SetChecking(proxies, id, FALSE)
           \/ \E rec : proxies' = PingHealth(proxies, rec) \/ proxies' = EnabledProxies(rec)
    PROVE  NoneMarked
<1>2. CASE proxies' = proxies
  BY <1>2 DEF NoneMarked, SameIds
<1>3. ASSUME NEW id, proxies' = SetChecking(proxies, id, FALSE) PROVE NoneMarked
  BY <1>3, SettleShape DEF NoneMarked
<1>4. ASSUME NEW rec, proxies' = PingHealth(proxies, rec) PROVE NoneMarked
  BY <1>2, <1>3, <1>4 DEF PingHealth
<1>5. ASSUME NEW rec, proxies' = EnabledProxies(rec) PROVE NoneMarked
  <2>1. CASE rec.res = "ok"
    <3> DEFINE s == SetActive(proxies, rec.id)
    <3>1. s \in Seq(Entry) /\ SameIds(proxies, s)
      BY SetActiveType, ActiveShape
    <3>2. proxies' = SetChecking(s, rec.id, FALSE)
      BY <1>5, <2>1 DEF EnabledProxies
    <3>3. \A i \in DOMAIN proxies : s[i].checking = proxies[i].checking
      <4>1. \A i \in DOMAIN proxies : proxies[i] \in Entry
        BY ElementOfSeq, LenProperties
      <4>. QED  BY <4>1 DEF SetActive, Entry
    <3> HIDE DEF s
    <3>4. SameIds(s, proxies') /\ \A i \in DOMAIN s : proxies'[i].checking => s[i].checking
      BY <3>1, <3>2, SettleShape
    <3>. QED  BY <3>1, <3>3, <3>4 DEF SameIds, NoneMarked
  <2>2. CASE rec.res # "ok"
    BY <1>2, <1>5, <2>2 DEF EnabledProxies
  <2>. QED  BY <2>1, <2>2
<1>. QED  BY <1>2, <1>3, <1>4, <1>5

\* A step keeps the invariant if it marks no entry, starts no call of its kind, and settles the
\* proxy of each call that it ends.
LEMMA CheckingKept ==
    ASSUME TypeOK, CheckInv, UNCHANGED <<setups, payloads>>, NoneMarked,
           setups <= 1 =>
               /\ \A t \in Tasks : Awaits(tasks'[t]) => Awaits(tasks[t])
               /\ \A t \in Tasks : Awaits(tasks[t]) =>
                     \/ StaysAwaiting(t)
                     \/ /\ ~Awaits(tasks'[t])
                        /\ \A i \in DOMAIN proxies : FirstWithId(proxies, i, tasks[t].id) => ~proxies'[i].checking
    PROVE  CheckInv'
<1> SUFFICES ASSUME setups <= 1 PROVE CheckInv'
  BY DEF CheckInv
<1>0. proxies \in Seq(Entry) /\ DOMAIN proxies = 1 .. Len(proxies) /\ Len(proxies) \in Nat
  BY LenProperties DEF TypeOK, RegType
<1>1. ASSUME NEW i \in DOMAIN proxies', proxies'[i].checking
      PROVE  FirstWithId(proxies', i, proxies'[i].id) /\ \E t \in Tasks : Awaits(tasks'[t]) /\ tasks'[t].id = proxies'[i].id
  <2>1. i \in DOMAIN proxies /\ proxies[i].checking /\ proxies'[i].id = proxies[i].id
    BY <1>1 DEF NoneMarked, SameIds
  <2>2. FirstWithId(proxies, i, proxies[i].id)
    BY <2>1 DEF CheckInv
  <2>3. FirstWithId(proxies', i, proxies'[i].id)
    BY <1>0, <2>1, <2>2 DEF FirstWithId, NoneMarked, SameIds
  <2>4. PICK t \in Tasks : Awaits(tasks[t]) /\ tasks[t].id = proxies[i].id
    BY <2>1 DEF CheckInv
  <2>5. StaysAwaiting(t)
    BY <1>1, <2>1, <2>2, <2>4
  <2>. QED  BY <2>1, <2>3, <2>4, <2>5 DEF StaysAwaiting
<1>2. ASSUME NEW t \in Tasks, Awaits(tasks'[t]), tasks'[t].kind = "activate"
      PROVE  tasks'[t].id \in Ids /\ payloads'[tasks'[t].id] # NoServer /\ tasks'[t].res # "nopayload"
  <2>1. Awaits(tasks[t]) /\ StaysAwaiting(t)
    BY <1>2
  <2>. QED  BY <1>2, <2>1 DEF StaysAwaiting, CheckInv
<1>. QED  BY <1>1, <1>2 DEF CheckInv

\* One call moves, and is not one that waits about a marked entry.
LEMMA OtherTask ==
    ASSUME TypeOK, CheckInv, UNCHANGED <<setups, payloads>>, NoneMarked, NEW t \in Tasks,
           \A u \in Tasks \ {t} : tasks'[u] = tasks[u], ~Awaits(tasks[t]), ~Awaits(tasks'[t])
    PROVE  CheckInv'
<1>1. \A u \in Tasks \ {t} : Awaits(tasks[u]) => StaysAwaiting(u)
  BY DEF StaysAwaiting
<1>. QED  BY <1>1, CheckingKept

\* setupProxies moves its own slot only.
LEMMA SetupOthers ==
    ASSUME TypeOK, Setup PROVE \A u \in Tasks \ {SetupTask} : tasks'[u] = tasks[u]
<1>0. tasks \in [Tasks -> Task]
  BY DEF TypeOK
<1>1. \A r : tasks' = [tasks EXCEPT ![SetupTask] = r] => \A u \in Tasks \ {SetupTask} : tasks'[u] = tasks[u]
  BY <1>0
<1>2. ASSUME NEW id, SendEnable(SetupTask, id) PROVE \A u \in Tasks \ {SetupTask} : tasks'[u] = tasks[u]
  BY <1>0, <1>2 DEF SendEnable
<1>3. ASSUME NEW rec, PingNext(SetupTask, rec) PROVE \A u \in Tasks \ {SetupTask} : tasks'[u] = tasks[u]
  BY <1>0, <1>3 DEF PingNext
<1>4. ASSUME NEW ps, NEW st, SetupEpilogue(ps, st) PROVE \A u \in Tasks \ {SetupTask} : tasks'[u] = tasks[u]
  BY <1>0, <1>4 DEF SetupEpilogue
<1>5. CASE SetupProxies \/ PurgeList \/ PurgeRemove \/ RegisterConfigs \/ RegistrationDone
           \/ RegistrationTimeout \/ RegisterSavedUserProxies
  BY <1>0, <1>5 DEF SetupProxies, PurgeList, PurgeRemove, RegisterConfigs, RegistrationDone,
     RegistrationTimeout, RegisterSavedUserProxies
<1>6. CASE EnableFirstAvailable
  BY <1>2, <1>3, <1>4, <1>6 DEF EnableFirstAvailable
<1>7. CASE SetupPinged
  BY <1>1, <1>2, <1>3, <1>7 DEF SetupPinged
<1>8. CASE SetupEnabled
  BY <1>4, <1>8 DEF SetupEnabled
<1>. QED  BY <1>5, <1>6, <1>7, <1>8 DEF Setup

LEMMA SetupChecking == ASSUME TypeOK, LockInv, LockInv', CheckInv, Setup PROVE CheckInv'
<1>0. proxies \in Seq(Entry) /\ setups \in Nat
  BY DEF TypeOK, RegType, EnvType
<1>1. CASE SetupProxies
  <2>1. DOMAIN proxies' = {} /\ setups' = setups + 1
    BY <1>1 DEF SetupProxies
  <2>2. setups = 0 => \A t \in Tasks \ {SetupTask} : ~Awaits(tasks'[t])
    BY SetupOthers DEF LockInv, Untouched, Awaits, Setup
  <2>3. ~Awaits(tasks'[SetupTask])
    BY DEF LockInv, KindOK, Awaits
  <2>. QED  BY <1>0, <2>1, <2>2, <2>3 DEF CheckInv
<1>2. CASE ~SetupProxies
  <2>1. ~Awaits(tasks[SetupTask]) /\ ~Awaits(tasks'[SetupTask])
    BY DEF LockInv, KindOK, Awaits
  <2>2. UNCHANGED <<setups, payloads>>
    BY <1>2 DEF Setup, PurgeList, PurgeRemove, RegisterConfigs, RegistrationDone,
     RegistrationTimeout, RegisterSavedUserProxies, EnableFirstAvailable, SetupPinged, SetupEnabled,
     regVars, envVars
  <2>3. NoneMarked
    BY <1>0, <1>2, EntriesNoneMarked DEF Setup, PurgeList, PurgeRemove, RegisterConfigs, RegistrationDone,
     RegistrationTimeout, RegisterSavedUserProxies, EnableFirstAvailable, SetupPinged, SetupEnabled,
     regVars
  <2>. QED  BY <2>1, <2>2, <2>3, SetupOthers, SetupIsTask, OtherTask
<1>. QED  BY <1>1, <1>2

LEMMA SwitchMoves ==
    ASSUME tasks \in [Tasks -> Task], NEW t \in Tasks, SwitchToNextProxy(t)
    PROVE  (\A u \in Tasks \ {t} : tasks'[u] = tasks[u]) /\ ~Awaits(tasks'[t])
<1>1. ASSUME NEW rec, rec.kind = "failover", PingNext(t, rec)
      PROVE  (\A u \in Tasks \ {t} : tasks'[u] = tasks[u]) /\ ~Awaits(tasks'[t])
  BY <1>1 DEF PingNext, PingFields, Awaits
<1>2. CASE tasks' = [tasks EXCEPT ![t] = Idle]
  BY <1>2 DEF Idle, Awaits
<1>3. ASSUME NEW c, PingNext(t, [Idle EXCEPT !.kind = "failover", !.cur = c,
                 !.left = Candidates(proxies, DOMAIN proxies \ ActiveIndices(proxies))])
      PROVE  (\A u \in Tasks \ {t} : tasks'[u] = tasks[u]) /\ ~Awaits(tasks'[t])
  <2>1. [Idle EXCEPT !.kind = "failover", !.cur = c,
            !.left = Candidates(proxies, DOMAIN proxies \ ActiveIndices(proxies))].kind = "failover"
    BY DEF Idle
  <2>. QED  BY <1>1, <1>3, <2>1
<1>. QED  BY <1>2, <1>3 DEF SwitchToNextProxy

LEMMA ResumeChecking == ASSUME TypeOK, LockInv, CheckInv, NEW t \in Tasks, Resume(t) PROVE CheckInv'
<1>0. proxies \in Seq(Entry) /\ tasks \in [Tasks -> Task] /\ tasks[t] \in Task
  BY DEF TypeOK, RegType
<1>u. UNCHANGED <<setups, payloads>>
  BY DEF Resume, PingCanceled, FailoverPinged, ActivatePinged, TestPinged, HealthPinged,
         FailoverEnabled, ActivateEnabled, regVars, envVars
<1>i. ASSUME tasks' = [tasks EXCEPT ![t] = Idle]
      PROVE  ~Awaits(tasks'[t]) /\ \A u \in Tasks \ {t} : tasks'[u] = tasks[u]
  BY <1>0, <1>i DEF Idle, Awaits
<1>s. ASSUME NEW id, SendEnable(t, id)
      PROVE  ~Awaits(tasks'[t]) /\ \A u \in Tasks \ {t} : tasks'[u] = tasks[u]
  BY <1>0, <1>s DEF SendEnable, Awaits, Task
<1>l. ASSUME Awaits(tasks[t]), NoneMarked, ~Awaits(tasks'[t]), \A u \in Tasks \ {t} : tasks'[u] = tasks[u],
             setups <= 1 => \A i \in DOMAIN proxies : FirstWithId(proxies, i, tasks[t].id) => ~proxies'[i].checking
      PROVE  CheckInv'
  <2>1. \A u \in Tasks \ {t} : Awaits(tasks[u]) => StaysAwaiting(u)
    BY <1>l DEF StaysAwaiting
  <2>. QED  BY <1>u, <1>l, <2>1, CheckingKept
<1>1. CASE PingCanceled(t)
  <2>1. NoneMarked
    BY <1>0, <1>1, EntriesNoneMarked DEF PingCanceled, regVars
  <2>2. \A u \in Tasks \ {t} : tasks'[u] = tasks[u]
    BY <1>0, <1>1 DEF PingCanceled
  <2>3. /\ tasks'[t].kind = tasks[t].kind /\ tasks'[t].id = tasks[t].id
        /\ tasks[t].pc = "ping" /\ tasks'[t].pc = "settle" /\ tasks'[t].res = "none"
    BY <1>0, <1>1 DEF PingCanceled, Task
  <2>4. \A u \in Tasks : (Awaits(tasks'[u]) => Awaits(tasks[u])) /\ (Awaits(tasks[u]) => StaysAwaiting(u))
    BY <2>2, <2>3 DEF Awaits, StaysAwaiting
  <2>. QED  BY <1>u, <2>1, <2>4, CheckingKept
<1>2. CASE FailoverPinged(t)
  <2>1. NoneMarked
    <3>1. \/ proxies' = PingHealth(proxies, tasks[t]) \/ proxies' = SetChecking(proxies, tasks[t].id, FALSE)
      BY <1>2 DEF FailoverPinged
    <3>. QED  BY <1>0, <3>1, EntriesNoneMarked
  <2>2. ~Awaits(tasks[t])
    BY <1>2 DEF FailoverPinged, PingReturned, Resuming, Awaits
  <2>3. ~Awaits(tasks'[t]) /\ \A u \in Tasks \ {t} : tasks'[u] = tasks[u]
    <3>1. ASSUME PingNext(t, tasks[t])
          PROVE  ~Awaits(tasks'[t]) /\ \A u \in Tasks \ {t} : tasks'[u] = tasks[u]
      <4>1. tasks[t].kind = "failover"
        BY <1>2 DEF FailoverPinged, PingReturned, Resuming
      <4>2. tasks'[t].kind = tasks[t].kind /\ \A u \in Tasks \ {t} : tasks'[u] = tasks[u]
        BY <1>0, <3>1 DEF PingNext, PingFields, Task
      <4>. QED  BY <4>1, <4>2 DEF Awaits
    <3>. QED  BY <1>2, <1>i, <1>s, <3>1 DEF FailoverPinged
  <2>. QED  BY <1>u, <2>1, <2>2, <2>3, OtherTask
<1>3. CASE ActivatePinged(t)
  <2>1. Awaits(tasks[t]) /\ tasks[t].kind = "activate" /\ proxies' = PingHealth(proxies, tasks[t])
    BY <1>3 DEF ActivatePinged, PingReturned, Resuming, Awaits
  <2>2. NoneMarked
    BY <1>0, <2>1, EntriesNoneMarked
  <2>3. setups <= 1 => proxies' = SetChecking(proxies, tasks[t].id, FALSE)
    BY <2>1 DEF CheckInv, PingHealth
  <2>4. setups <= 1 => \A i \in DOMAIN proxies : FirstWithId(proxies, i, tasks[t].id) => ~proxies'[i].checking
    BY <1>0, <2>3, SettleShape
  <2>. QED  BY <1>3, <1>l, <1>s, <2>1, <2>2, <2>4 DEF ActivatePinged
<1>4. CASE TestPinged(t)
  <2>1. Awaits(tasks[t]) /\ proxies' = SetChecking(proxies, tasks[t].id, FALSE)
    BY <1>4 DEF TestPinged, PingReturned, Resuming, Awaits
  <2>2. NoneMarked
    BY <1>0, <2>1, EntriesNoneMarked
  <2>4. \A i \in DOMAIN proxies : FirstWithId(proxies, i, tasks[t].id) => ~proxies'[i].checking
    BY <1>0, <2>1, SettleShape
  <2>. QED  BY <1>4, <1>l, <1>i, <2>1, <2>2, <2>4 DEF TestPinged
<1>5. CASE HealthPinged(t)
  <2>1. ~Awaits(tasks[t]) /\ NoneMarked
    BY <1>0, <1>5, EntriesNoneMarked DEF HealthPinged, PingReturned, Resuming, Awaits
  <2>2. ~Awaits(tasks'[t]) /\ \A u \in Tasks \ {t} : tasks'[u] = tasks[u]
    BY <1>0, <1>5, <1>i, SwitchMoves DEF HealthPinged
  <2>. QED  BY <1>u, <2>1, <2>2, OtherTask
<1>6. CASE FailoverEnabled(t) \/ ActivateEnabled(t)
  <2>1. ~Awaits(tasks[t]) /\ NoneMarked
    BY <1>0, <1>6, EntriesNoneMarked DEF FailoverEnabled, ActivateEnabled, Resuming, Awaits
  <2>2. ~Awaits(tasks'[t]) /\ \A u \in Tasks \ {t} : tasks'[u] = tasks[u]
    BY <1>6, <1>i DEF FailoverEnabled, ActivateEnabled
  <2>. QED  BY <1>u, <2>1, <2>2, OtherTask
<1>. QED  BY <1>1, <1>2, <1>3, <1>4, <1>5, <1>6 DEF Resume

LEMMA TimersChecking == ASSUME TypeOK, LockInv, CheckInv, NEW t \in Tasks, Timers(t) PROVE CheckInv'
<1>0. proxies \in Seq(Entry) /\ tasks \in [Tasks -> Task] /\ tasks[t] \in Task
  BY DEF TypeOK, RegType
<1>u. UNCHANGED <<setups, payloads>> /\ NoneMarked
  BY <1>0, EntriesNoneMarked DEF Timers, PingAgain, PingTimeout, ControlTimeout, UserProxySaved, regVars, envVars
<1>1. CASE PingAgain(t) \/ PingTimeout(t)
  <2>1. \A u \in Tasks \ {t} : tasks'[u] = tasks[u]
    BY <1>0, <1>1 DEF PingAgain, PingTimeout
  <2>2. /\ tasks'[t].kind = tasks[t].kind /\ tasks'[t].id = tasks[t].id /\ tasks'[t].pc = "ping"
        /\ tasks[t].pc \in {"ping", "settle"}
        /\ tasks'[t].res = "nopayload" => payloads[tasks[t].id] = NoServer
    <3>1. CASE PingAgain(t)
      BY <1>0, <3>1 DEF PingAgain, PingFields, Task
    <3>2. CASE PingTimeout(t)
      BY <1>0, <3>2 DEF PingTimeout, Task
    <3>. QED  BY <1>1, <3>1, <3>2
  <2>3. \A u \in Tasks : (Awaits(tasks'[u]) => Awaits(tasks[u])) /\ (Awaits(tasks[u]) => StaysAwaiting(u))
    BY <2>1, <2>2 DEF Awaits, StaysAwaiting
  <2>. QED  BY <1>u, <2>3, CheckingKept
<1>2. CASE ControlTimeout(t)
  <2>1. /\ \A u \in Tasks \ {t} : tasks'[u] = tasks[u]
        /\ tasks'[t].pc = tasks[t].pc /\ tasks[t].pc \notin {"ping", "settle"}
    BY <1>0, <1>2 DEF ControlTimeout, Task
  <2>. QED  BY <1>u, <2>1, OtherTask DEF Awaits
<1>3. CASE UserProxySaved(t)
  <2>1. /\ \A u \in Tasks \ {t} : tasks'[u] = tasks[u]
        /\ tasks'[t].pc = "idle" /\ tasks[t].pc = "prefs"
    BY <1>0, <1>3 DEF UserProxySaved, Idle
  <2>. QED  BY <1>u, <2>1, OtherTask DEF Awaits
<1>. QED  BY <1>1, <1>2, <1>3 DEF Timers

LEMMA AnswersChecking == ASSUME TypeOK, LockInv, CheckInv, Answers \/ PingAnswers PROVE CheckInv'
<1>0. proxies \in Seq(Entry) /\ tasks \in [Tasks -> Task] /\ payloads \in [Ids -> STRING]
  BY DEF TypeOK, RegType
<1>1. ASSUME NEW W, NEW res \in {"ok", "error", "canceled"}, NEW stale, tasks' = Resolve(W, res, stale)
      PROVE  \A t \in Tasks : (Awaits(tasks'[t]) => Awaits(tasks[t])) /\ (Awaits(tasks[t]) => StaysAwaiting(t))
  <2>1. ASSUME NEW t \in Tasks
        PROVE  /\ tasks'[t].kind = tasks[t].kind /\ tasks'[t].pc = tasks[t].pc /\ tasks'[t].id = tasks[t].id
               /\ tasks'[t].res = "nopayload" => tasks[t].res = "nopayload"
    <3>1. tasks[t] \in Task
      BY <1>0
    <3>. QED  BY <1>1, <3>1 DEF Resolve, Task
  <2>. QED  BY <2>1 DEF Awaits, StaysAwaiting
<1>2. CASE AddAnswer
  <2>1. UNCHANGED <<tasks, setups>>
    BY <1>2 DEF AddAnswer, envVars
  <2>2. PICK id, cfg : RegisterAddedProxy(id, cfg)
    BY <1>2 DEF AddAnswer
  <2>3. \A k \in Ids : payloads[k] # NoServer => payloads'[k] # NoServer
    BY <1>0, <2>2 DEF RegisterAddedProxy
  <2>4. CASE UNCHANGED proxies
    BY <2>1, <2>3, <2>4 DEF CheckInv
  <2>5. CASE proxies' = Append(proxies, NewEntry(id, cfg))
    <3>1. /\ DOMAIN proxies = 1 .. Len(proxies) /\ Len(proxies) \in Nat
          /\ DOMAIN proxies' = 1 .. Len(proxies) + 1
          /\ ~proxies'[Len(proxies) + 1].checking /\ \A i \in DOMAIN proxies : proxies'[i] = proxies[i]
      BY <1>0, <2>5, AppendEntry DEF NewEntry
    <3>2. ASSUME NEW i \in DOMAIN proxies', proxies'[i].checking
          PROVE  i \in DOMAIN proxies /\ proxies'[i] = proxies[i]
      BY <3>1, <3>2
    <3>3. ASSUME NEW i \in DOMAIN proxies, FirstWithId(proxies, i, proxies[i].id)
          PROVE  FirstWithId(proxies', i, proxies[i].id)
      BY <3>1, <3>3 DEF FirstWithId
    <3>. QED  BY <2>1, <2>3, <3>2, <3>3 DEF CheckInv
  <2>. QED  BY <2>2, <2>4, <2>5, AddedShape
<1>3. CASE ~AddAnswer
  <2>1. UNCHANGED <<setups, payloads>> /\ NoneMarked
    BY <1>0, <1>3, EntriesNoneMarked DEF Answers, DisableAnswer, ListAnswer, RemoveAnswer, EnableAnswer, AddRefused,
       PingAnswers, PingReply, LatePingReply, regVars, envVars
  <2>2. \A t \in Tasks : (Awaits(tasks'[t]) => Awaits(tasks[t])) /\ (Awaits(tasks[t]) => StaysAwaiting(t))
    <3>1. CASE tasks' = tasks
      BY <3>1 DEF StaysAwaiting
    <3>2. CASE ListAnswer
      <4>1. ASSUME NEW t \in Tasks
            PROVE  /\ tasks'[t].kind = tasks[t].kind /\ tasks'[t].pc = tasks[t].pc
                   /\ tasks'[t].id = tasks[t].id
                   /\ tasks'[t].res = "nopayload" => tasks[t].res = "nopayload"
        BY <1>0, <3>2, SetupIsTask DEF ListAnswer, Task
      <4>2. ASSUME NEW t \in Tasks
            PROVE  (Awaits(tasks'[t]) => Awaits(tasks[t])) /\ (Awaits(tasks[t]) => StaysAwaiting(t))
        BY <4>1 DEF Awaits, StaysAwaiting
      <4>. QED  BY <4>2
    <3>3. CASE DisableAnswer
      BY <1>1, <3>1, <3>3 DEF DisableAnswer
    <3>4. CASE RemoveAnswer
      <4>1. tasks' = tasks \/ tasks' = Resolve({SetupTask}, "ok", FALSE) \/ tasks' = Resolve({SetupTask}, "error", FALSE)
        BY <3>4 DEF RemoveAnswer
      <4>2. CASE tasks' = Resolve({SetupTask}, "ok", FALSE)
        BY <1>1, <4>2
      <4>3. CASE tasks' = Resolve({SetupTask}, "error", FALSE)
        BY <1>1, <4>3
      <4>. QED  BY <3>1, <4>1, <4>2, <4>3
    <3>5. CASE EnableAnswer
      BY <1>1, <3>5 DEF EnableAnswer
    <3>6. CASE AddRefused
      BY <3>1, <3>6 DEF AddRefused
    <3>7. CASE PingAnswers
      BY <1>1, <3>7 DEF PingAnswers, PingReply, LatePingReply
    <3>. QED  BY <1>3, <3>2, <3>3, <3>4, <3>5, <3>6, <3>7 DEF Answers
  <2>. QED  BY <2>1, <2>2, CheckingKept
<1>. QED  BY <1>2, <1>3

\* A test or an activation marks the entry it waits about.
LEMMA MarkChecking ==
    ASSUME TypeOK, LockInv, CheckInv, setups <= 1 => EntriesPingable, NEW t \in Tasks, tasks[t].pc = "idle",
           UNCHANGED <<setups, payloads>>, NEW i \in DOMAIN proxies, NEW kind \in {"test", "activate"},
           proxies' = SetChecking(proxies, proxies[i].id, TRUE),
           tasks' = [tasks EXCEPT ![t] =
               PingFields([Idle EXCEPT !.kind = kind, !.retries = Retries], proxies[i].id)]
    PROVE  CheckInv'
<1> SUFFICES ASSUME setups <= 1 PROVE CheckInv'
  BY DEF CheckInv
<1> DEFINE id == proxies[i].id
<1>0. /\ proxies \in Seq(Entry) /\ DOMAIN proxies = 1 .. Len(proxies) /\ Len(proxies) \in Nat
      /\ tasks \in [Tasks -> Task] /\ \A k \in DOMAIN proxies : proxies[k] \in Entry
  BY ElementOfSeq, LenProperties DEF TypeOK, RegType
<1>1. id \in Ids /\ payloads[id] # NoServer
  BY <1>0 DEF EntriesPingable, Entry
<1>2. /\ \A u \in Tasks \ {t} : tasks'[u] = tasks[u]
      /\ tasks'[t].kind = kind /\ tasks'[t].pc = "ping" /\ tasks'[t].id = id /\ tasks'[t].res = "none"
  BY <1>0, <1>1 DEF PingFields, Idle
<1>3. /\ SameIds(proxies, proxies')
      /\ \A k \in DOMAIN proxies : proxies'[k].checking => proxies[k].checking \/ FirstWithId(proxies, k, id)
  BY <1>0 DEF SameIds, SetChecking, Entry
<1> HIDE DEF id
<1>4. ASSUME NEW k \in DOMAIN proxies', proxies'[k].checking
      PROVE  FirstWithId(proxies', k, proxies'[k].id) /\ \E u \in Tasks : Awaits(tasks'[u]) /\ tasks'[u].id = proxies'[k].id
  <2>1. k \in DOMAIN proxies /\ proxies'[k].id = proxies[k].id
    BY <1>3 DEF SameIds
  <2>2. ASSUME FirstWithId(proxies, k, proxies[k].id) PROVE FirstWithId(proxies', k, proxies'[k].id)
    <3>1. \A j \in 1 .. k - 1 : proxies'[j].id = proxies[j].id /\ proxies[j].id # proxies[k].id
      <4>1. k \in 1 .. Len(proxies)
        BY <1>0, <2>1
      <4>2. \A j \in 1 .. k - 1 : j \in 1 .. Len(proxies)
        BY <1>0, <4>1
      <4>3. \A j \in DOMAIN proxies : proxies'[j].id = proxies[j].id
        BY <1>3 DEF SameIds
      <4>. QED  BY <1>0, <2>2, <4>2, <4>3 DEF FirstWithId
    <3>. QED  BY <2>1, <3>1 DEF FirstWithId
  <2>3. CASE FirstWithId(proxies, k, id)
    <3>1. proxies[k].id = id
      BY <2>3 DEF FirstWithId
    <3>2. Awaits(tasks'[t]) /\ tasks'[t].id = proxies'[k].id
      BY <1>2, <2>1, <3>1 DEF Awaits
    <3>. QED  BY <2>2, <2>3, <3>1, <3>2
  <2>4. CASE proxies[k].checking
    <3>1. FirstWithId(proxies, k, proxies[k].id)
      BY <2>1, <2>4 DEF CheckInv
    <3>2. PICK u \in Tasks : Awaits(tasks[u]) /\ tasks[u].id = proxies[k].id
      BY <2>1, <2>4 DEF CheckInv
    <3>3. u # t
      BY <3>2 DEF Awaits
    <3>. QED  BY <1>2, <2>1, <2>2, <3>1, <3>2, <3>3
  <2>. QED  BY <1>3, <1>4, <2>1, <2>3, <2>4
<1>5. ASSUME NEW u \in Tasks, Awaits(tasks'[u]), tasks'[u].kind = "activate"
      PROVE  tasks'[u].id \in Ids /\ payloads'[tasks'[u].id] # NoServer /\ tasks'[u].res # "nopayload"
  BY <1>1, <1>2, <1>5 DEF CheckInv
<1>. QED  BY <1>4, <1>5 DEF CheckInv

LEMMA CallsChecking ==
    ASSUME TypeOK, LockInv, CheckInv, setups <= 1 => EntriesPingable, NEW t \in Workers, Calls(t)
    PROVE  CheckInv'
<1>0. proxies \in Seq(Entry) /\ tasks \in [Tasks -> Task] /\ t \in Tasks /\ tasks[t].pc = "idle"
  BY DEF TypeOK, RegType, Tasks, Calls, HandleConnectionState, HealthTick, NextProxyPressed, ActivateProxy,
     TestProxy, AddUserProxy, Free
<1>u. UNCHANGED <<setups, payloads>> /\ ~Awaits(tasks[t])
  BY <1>0 DEF Calls, HandleConnectionState, HealthTick, NextProxyPressed, ActivateProxy, TestProxy, AddUserProxy,
     regVars, envVars, Awaits
<1>1. CASE HandleConnectionState(t) \/ NextProxyPressed(t)
  BY <1>0, <1>u, <1>1, EntriesNoneMarked, SwitchMoves, OtherTask DEF HandleConnectionState, NextProxyPressed, regVars
<1>2. CASE HealthTick(t) \/ AddUserProxy(t)
  <2>1. NoneMarked
    BY <1>0, <1>2, EntriesNoneMarked DEF HealthTick, AddUserProxy, regVars
  <2>2. \A u \in Tasks \ {t} : tasks'[u] = tasks[u]
    BY <1>0, <1>2 DEF HealthTick, AddUserProxy
  <2>3. tasks'[t].kind \in {"health", "addUser"}
    <3>1. CASE HealthTick(t)
      BY <1>0, <3>1 DEF HealthTick, PingFields, Idle
    <3>2. CASE AddUserProxy(t)
      BY <1>0, <3>2 DEF AddUserProxy, Idle
    <3>. QED  BY <1>2, <3>1, <3>2
  <2>. QED  BY <1>0, <1>u, <2>1, <2>2, <2>3, OtherTask DEF Awaits
<1>3. CASE ActivateProxy(t) \/ TestProxy(t)
  BY <1>0, <1>u, <1>3, MarkChecking DEF ActivateProxy, TestProxy
<1>. QED  BY <1>1, <1>2, <1>3 DEF Calls

LEMMA StepChecking == ASSUME ProperNames, TypeOK, LockInv, LockInv', Registry, CheckInv, [Next]_vars PROVE CheckInv'
<1>0. proxies \in Seq(Entry)
  BY DEF TypeOK, RegType
<1>1. CASE SetAutoFailoverEnabled \/ AuthReady \/ UNCHANGED vars
  <2>1. UNCHANGED <<proxies, payloads, tasks, setups>>
    BY <1>1 DEF SetAutoFailoverEnabled, AuthReady, vars, regVars, envVars
  <2>. QED  BY <2>1 DEF CheckInv
<1>. QED  BY <1>1, SetupChecking, ResumeChecking, TimersChecking, AnswersChecking, CallsChecking DEF Next, Registry

\* Until setupProxies is entered a second time, a proxy that the settings screen shows as being
\* checked has a test or an activation in flight that waits about it: the spinner never stays,
\* whoever else pings, enables or adds the same proxy meanwhile.
THEOREM CheckingIsOwned == ProperNames => (Spec => [](setups <= 1 => CheckingHasOwner))
<1> SUFFICES ASSUME ProperNames PROVE Spec => [](setups <= 1 => CheckingHasOwner)
  OBVIOUS
<1>1. Init => CheckInv
  BY DEF Init, CheckInv, Awaits, Idle
<1>2. TypeOK /\ LockInv /\ LockInv' /\ Registry /\ CheckInv /\ [Next]_vars => CheckInv'
  BY StepChecking
<1>3. CheckInv => (setups <= 1 => CheckingHasOwner)
  BY DEF CheckInv, CheckingHasOwner, InFlight, Awaits
<1>. QED  BY <1>1, <1>2, <1>3, TypeCorrect, LockInvariant, RegistryInvariant, PTL DEF Spec

-----------------------------------------------------------------------------
(* Saved user proxies are in the list                                      *)

\* The positions of s that hold a member of M.
Hits(s, M) == {i \in DOMAIN s : s[i] \in M}
Count(s, M) == Cardinality(Hits(s, M))

LEMMA HitsFinite == ASSUME NEW S, NEW s \in Seq(S), NEW M PROVE IsFiniteSet(Hits(s, M)) /\ Count(s, M) \in Nat
<1>1. IsFiniteSet(DOMAIN s)
  <2>1. DOMAIN s = 1 .. Len(s) /\ Len(s) \in Nat
    BY LenProperties
  <2>. QED  BY <2>1, FS_Interval
<1>2. Hits(s, M) \subseteq DOMAIN s
  BY DEF Hits
<1>. QED  BY <1>1, <1>2, FS_Subset, FS_CardinalityType DEF Count

LEMMA HitsConcat ==
    ASSUME NEW S, NEW s \in Seq(S), NEW r \in Seq(S), NEW M PROVE Count(s \o r, M) = Count(s, M) + Count(r, M)
<1> DEFINE a == s \o r
           B == {Len(s) + i : i \in Hits(r, M)}
           f == [i \in Hits(r, M) |-> Len(s) + i]
<1>1. /\ Len(s) \in Nat /\ Len(r) \in Nat /\ DOMAIN s = 1 .. Len(s) /\ DOMAIN r = 1 .. Len(r)
      /\ DOMAIN a = 1 .. Len(s) + Len(r)
      /\ \A i \in 1 .. Len(s) : a[i] = s[i]
      /\ \A i \in 1 .. Len(r) : a[Len(s) + i] = r[i]
  OBVIOUS
<1> HIDE DEF a
<1>2. Hits(a, M) = Hits(s, M) \cup B
  <2>1. ASSUME NEW i \in Hits(a, M) PROVE i \in Hits(s, M) \cup B
    <3>1. i \in 1 .. Len(s) + Len(r) /\ a[i] \in M
      BY <1>1, <2>1 DEF Hits
    <3>2. CASE i \in 1 .. Len(s)
      BY <1>1, <3>1, <3>2 DEF Hits
    <3>3. CASE i \notin 1 .. Len(s)
      <4>1. i - Len(s) \in 1 .. Len(r) /\ Len(s) + (i - Len(s)) = i
        BY <1>1, <3>1, <3>3
      <4>2. i - Len(s) \in Hits(r, M)
        BY <1>1, <3>1, <4>1 DEF Hits
      <4>. QED  BY <4>1, <4>2
    <3>. QED  BY <3>2, <3>3
  <2>2. ASSUME NEW i \in Hits(s, M) PROVE i \in Hits(a, M)
    BY <1>1 DEF Hits
  <2>3. ASSUME NEW i \in Hits(r, M) PROVE Len(s) + i \in Hits(a, M)
    <3>1. i \in 1 .. Len(r) /\ r[i] \in M
      BY <1>1 DEF Hits
    <3>2. Len(s) + i \in 1 .. Len(s) + Len(r)
      BY <1>1, <3>1
    <3>. QED  BY <1>1, <3>1, <3>2 DEF Hits
  <2>. QED  BY <2>1, <2>2, <2>3
<1>3. Hits(s, M) \cap B = {}
  BY <1>1 DEF Hits
<1>4. IsFiniteSet(B) /\ Cardinality(B) = Count(r, M)
  <2>1. \A i \in Hits(r, M) : i \in Nat
    BY <1>1 DEF Hits
  <2>2. f \in Bijection(Hits(r, M), B)
    <3>1. f \in [Hits(r, M) -> B]
      OBVIOUS
    <3>2. \A i, j \in Hits(r, M) : f[i] = f[j] => i = j
      BY <1>1, <2>1
    <3>3. \A k \in B : \E i \in Hits(r, M) : f[i] = k
      OBVIOUS
    <3> HIDE DEF f, B
    <3>. QED  BY <3>1, <3>2, <3>3 DEF Bijection, Injection, IsInjective, Surjection
  <2>3. ExistsBijection(Hits(r, M), B)
    BY <2>2 DEF ExistsBijection
  <2>. QED  BY <2>3, HitsFinite, FS_Bijection DEF Count
<1>5. IsFiniteSet(Hits(s, M)) /\ Count(s, M) \in Nat /\ Count(r, M) \in Nat
  BY HitsFinite
<1> HIDE DEF B
<1>6. Cardinality(Hits(s, M) \cup B) = Count(s, M) + Count(r, M) - Cardinality({})
  BY <1>3, <1>4, <1>5, FS_Union DEF Count
<1>7. Cardinality({}) = 0
  BY FS_EmptySet
<1>8. Count(a, M) = Count(s, M) + Count(r, M)
  BY <1>2, <1>5, <1>6, <1>7 DEF Count
<1>. QED  BY <1>8 DEF a

LEMMA HitsOne ==
    ASSUME NEW e, NEW M PROVE Count(<<e>>, M) = IF e \in M THEN 1 ELSE 0
<1>1. DOMAIN <<e>> = {1} /\ <<e>>[1] = e
  OBVIOUS
<1>2. CASE e \in M
  <2>1. Hits(<<e>>, M) = {1}
    BY <1>1, <1>2 DEF Hits
  <2>. QED  BY <1>2, <2>1, FS_Singleton DEF Count
<1>3. CASE e \notin M
  <2>1. Hits(<<e>>, M) = {}
    BY <1>1, <1>3 DEF Hits
  <2>. QED  BY <1>3, <2>1, FS_EmptySet DEF Count
<1>. QED  BY <1>2, <1>3

LEMMA HitsAppend ==
    ASSUME NEW S, NEW s \in Seq(S), NEW e \in S, NEW M
    PROVE  Count(Append(s, e), M) = Count(s, M) + (IF e \in M THEN 1 ELSE 0)
<1>1. Append(s, e) = s \o <<e>> /\ <<e>> \in Seq(S)
  OBVIOUS
<1>2. Count(s \o <<e>>, M) = Count(s, M) + Count(<<e>>, M)
  BY <1>1, HitsConcat
<1>. QED  BY <1>1, <1>2, HitsOne

LEMMA HitsTail ==
    ASSUME NEW S, NEW s \in Seq(S), s # <<>>, NEW M
    PROVE  Count(s, M) = Count(Tail(s), M) + (IF s[1] \in M THEN 1 ELSE 0)
<1> DEFINE h == <<s[1]>>
           r == Tail(s)
<1>1. s = h \o r /\ s[1] \in S /\ h \in Seq(S) /\ r \in Seq(S)
  OBVIOUS
<1>2. Count(h, M) = IF s[1] \in M THEN 1 ELSE 0
  BY HitsOne
<1> HIDE DEF h, r
<1>3. Count(h \o r, M) = Count(h, M) + Count(r, M) /\ Count(r, M) \in Nat
  BY <1>1, HitsConcat, HitsFinite
<1>4. Count(s, M) = Count(r, M) + (IF s[1] \in M THEN 1 ELSE 0)
  BY <1>1, <1>2, <1>3
<1>. QED  BY <1>4 DEF r

LEMMA HitsRemove ==
    ASSUME NEW S, NEW s \in Seq(S), NEW i \in DOMAIN s, NEW M
    PROVE  Count(s, M) = Count(RemoveIndex(s, i), M) + (IF s[i] \in M THEN 1 ELSE 0)
<1>1. DOMAIN s = 1 .. Len(s) /\ Len(s) \in Nat
  BY LenProperties
<1> DEFINE a == SubSeq(s, 1, i - 1)
           b == SubSeq(s, i + 1, Len(s))
           o == <<s[i]>>
<1>2. a \in Seq(S) /\ b \in Seq(S) /\ s[i] \in S
  BY <1>1, ElementOfSeq, SubSeqProperties
<1>3. o \in Seq(S) /\ a \o o \in Seq(S)
  BY <1>2
<1>4. s = (a \o o) \o b
  <2>1. Len(a) = i - 1 /\ Len(b) = Len(s) - i /\ \A k \in 1 .. i - 1 : a[k] = s[k]
    BY <1>1
  <2>2. \A k \in 1 .. Len(s) - i : b[k] = s[i + k]
    BY <1>1
  <2>3. Len((a \o o) \o b) = Len(s)
    BY <1>1, <1>2, <1>3, <2>1
  <2>4. ASSUME NEW k \in 1 .. Len(s) PROVE ((a \o o) \o b)[k] = s[k]
    <3>1. Len(a \o o) = i /\ (a \o o)[i] = s[i] /\ \A j \in 1 .. i - 1 : (a \o o)[j] = s[j]
      <4>1. Len(o) = 1 /\ o[1] = s[i] /\ i \in Nat \ {0}
        BY <1>1
      <4> HIDE DEF a, b, o
      <4>2. Len(a \o o) = i
        <5>1. Len(a \o o) = Len(a) + Len(o)
          BY <1>2, <1>3
        <5>. QED  BY <2>1, <4>1, <5>1
      <4>3. (a \o o)[i] = s[i]
        <5>1. i \in 1 .. Len(a) + Len(o) /\ ~(i <= Len(a)) /\ i - Len(a) = 1
          BY <2>1, <4>1
        <5>2. (a \o o)[i] = o[i - Len(a)]
          BY <1>2, <1>3, <5>1, ConcatProperties
        <5>. QED  BY <4>1, <5>1, <5>2
      <4>4. \A j \in 1 .. i - 1 : (a \o o)[j] = s[j]
        BY <1>2, <1>3, <2>1, <4>1
      <4>. QED  BY <4>2, <4>3, <4>4
    <3> DEFINE c == a \o o
    <3> HIDE DEF a, b, o, c
    <3>2. c \in Seq(S) /\ Len(c) = i /\ \A j \in 1 .. i : c[j] = s[j]
      BY <1>1, <1>3, <3>1 DEF c
    <3>3. CASE k <= i
      <4>1. (c \o b)[k] = c[k]
        BY <1>1, <1>2, <2>1, <3>2, <3>3
      <4>. QED  BY <1>1, <3>2, <3>3, <4>1 DEF c
    <3>4. CASE ~(k <= i)
      <4>1. (c \o b)[k] = b[k - i] /\ k - i \in 1 .. Len(s) - i /\ i + (k - i) = k
        BY <1>1, <1>2, <2>1, <3>2, <3>4
      <4>. QED  BY <2>2, <4>1 DEF c
    <3>. QED  BY <3>3, <3>4
  <2> DEFINE w == (a \o o) \o b
  <2>5. w \in Seq(S)
    BY <1>2, <1>3
  <2>6. Len(w) = Len(s) /\ \A k \in 1 .. Len(s) : w[k] = s[k]
    BY <2>3, <2>4
  <2> HIDE DEF w
  <2>7. s = w
    BY <2>5, <2>6, SeqEqual
  <2>. QED  BY <2>7 DEF w
<1>5. RemoveIndex(s, i) = a \o b
  BY DEF RemoveIndex
<1>6. Count(o, M) = IF s[i] \in M THEN 1 ELSE 0
  BY HitsOne
<1> HIDE DEF a, b, o
<1>7. Count((a \o o) \o b, M) = Count(a \o o, M) + Count(b, M)
  BY <1>2, <1>3, HitsConcat
<1>8. Count(a \o o, M) = Count(a, M) + Count(o, M) /\ Count(a \o b, M) = Count(a, M) + Count(b, M)
  BY <1>2, <1>3, HitsConcat
<1>9. Count(a, M) \in Nat /\ Count(b, M) \in Nat
  BY <1>2, HitsFinite
<1>10. Count(s, M) = Count(RemoveIndex(s, i), M) + Count(o, M)
  <2>1. Count(o, M) \in Nat
    BY <1>6
  <2>. QED  BY <1>4, <1>5, <1>7, <1>8, <1>9, <2>1
<1>. QED  BY <1>6, <1>10

\* The names of the proxies that the user entered, now or in an earlier run, and the hypotheses
\* on them and on the configuration under which saved proxies are registered.
UserNames == {c.name : c \in UserConfigs \cup Elems(SavedConfigs)}
OwnNames == \A i \in DOMAIN MTProto : MTProto[i].name \notin UserNames
SomeProxy == MTProto # <<>> \/ HasSystem

\* What awaits an answer by the name n: requests, calls of addUserProxy that have not sent
\* theirs, and configs that an answer can find.
AddsOf(n) == {r \in Request : r.op = "add" /\ r.cfg.name = n}
NamedBy(n) == {c \in Config : c.name = n}
Entering(n) == {t \in Tasks : tasks[t].pc = "prefs" /\ tasks[t].cfg.name = n}

\* Each answer will find a pending config of its name.
Enough ==
    \A n \in UserNames :
        Count(queue, AddsOf(n)) + Cardinality(Entering(n)) <= Count(pendingUsers, NamedBy(n))

\* No removal is pending; the addProxy of c is, and no removal after it.
NoRemove(q) == \A j \in DOMAIN q : q[j].op # "remove"
Sent(q, c) ==
    \E k \in DOMAIN q : /\ q[k].op = "add" /\ q[k].cfg = c
                        /\ \A j \in DOMAIN q : j > k => q[j].op # "remove"
Listed(c) == \E j \in DOMAIN proxies : td.server[proxies[j].id] = c.server

Settled == setups > 0 /\ tasks[SetupTask].pc = "idle"

\* Once setupProxies has returned, a saved proxy is on its way to the list or in it.
Kept ==
    Settled =>
        \A c \in Elems(saved) : c.server \notin Rejected => Sent(queue, c) \/ (NoRemove(queue) /\ Listed(c))

UserSources ==
    /\ \A c \in Elems(saved) : c.name \in UserNames
    /\ \A t \in Tasks : tasks[t].pc = "prefs" => tasks[t].cfg.name \in UserNames

SavedInv == Enough /\ Kept /\ UserSources

LEMMA EnteringFinite == ASSUME NEW n PROVE IsFiniteSet(Entering(n)) /\ Cardinality(Entering(n)) \in Nat
<1>1. Entering(n) \subseteq Tasks
  BY DEF Entering
<1>. QED  BY <1>1, TasksFinite, FS_Subset, FS_CardinalityType

\* What a step that registers nothing does to the requests: it sends another one, or takes one
\* that registers nothing, or none.
SameRequests(q, r) == DOMAIN r = DOMAIN q /\ \A i \in DOMAIN q : r[i].op = q[i].op /\ r[i].cfg = q[i].cfg
Sends ==
    \E r : /\ r.op # "add" /\ queue' = Append(queue, r)
           /\ r.op = "remove" => tasks'[SetupTask].pc # "idle"
Takes ==
    /\ queue # <<>> /\ queue' = Tail(queue) /\ Head1.op # "remove"
    /\ Head1.op = "add" => Head1.cfg.server \in Rejected
QueueStep == SameRequests(queue, queue') \/ Sends \/ Takes
SetupStays == tasks'[SetupTask].pc = "idle" => tasks[SetupTask].pc = "idle"

LEMMA UnchangedRequests == ASSUME queue' = queue PROVE QueueStep
BY DEF QueueStep, SameRequests

LEMMA SendStep ==
    ASSUME NEW op \in {"disable", "list", "enable"}, NEW id, queue' = Append(queue, Req(op, id, NoConfig))
    PROVE  QueueStep
<1>1. Req(op, id, NoConfig).op = op
  BY DEF Req
<1>. QED  BY <1>1 DEF QueueStep, Sends

\* A step that does not move the slot of setupProxies.
LEMMA OtherSlot ==
    ASSUME tasks \in [Tasks -> Task], NEW t \in Tasks \ {SetupTask},
           \A u \in Tasks \ {t} : tasks'[u] = tasks[u]
    PROVE  SetupStays
BY SetupIsTask DEF SetupStays

LEMMA SetupSteps == ASSUME TypeOK, Setup, ~Registering PROVE QueueStep /\ SetupStays
<1> USE SetupIsTask
<1>0. tasks \in [Tasks -> Task] /\ queue \in Seq(Request)
  BY DEF TypeOK, TdType
<1>e. ASSUME NEW id, SendEnable(SetupTask, id) PROVE QueueStep /\ SetupStays
  <2>1. QueueStep
    BY <1>e, SendStep DEF SendEnable
  <2>2. SetupStays
    BY <1>0, <1>e DEF SendEnable, SetupStays, Task
  <2>. QED  BY <2>1, <2>2
<1>p. ASSUME NEW rec, PingNext(SetupTask, rec) PROVE SetupStays
  BY <1>0, <1>p DEF PingNext, PingFields, SetupStays
<1>s. ASSUME NEW ps, NEW st, SetupEpilogue(ps, st) PROVE SetupStays
  BY <1>0, <1>s DEF SetupEpilogue, SetupStays, Idle
<1>1. CASE PurgeList
  <2>1. QueueStep
    BY <1>1, SendStep DEF PurgeList
  <2>2. SetupStays
    BY <1>0, <1>1 DEF PurgeList, SetupStays, Task
  <2>. QED  BY <2>1, <2>2
<1>2. CASE PurgeRemove
  <2>1. tasks'[SetupTask].pc \in {"detect", "remove"}
    <3>a. PICK pc \in {"detect", "remove"} : \E L :
             tasks' = [tasks EXCEPT ![SetupTask].pc = pc, ![SetupTask].res = "none", ![SetupTask].left = L]
      BY <1>2 DEF PurgeRemove
    <3>1. PICK L :
             tasks' = [tasks EXCEPT ![SetupTask].pc = pc, ![SetupTask].res = "none", ![SetupTask].left = L]
      BY <3>a
    <3>. QED  BY <1>0, <3>1 DEF Task
  <2>2. ASSUME NEW id, queue' = Append(queue, Req("remove", id, NoConfig)) PROVE QueueStep
    <3>1. Req("remove", id, NoConfig).op = "remove"
      BY DEF Req
    <3>. QED  BY <2>1, <2>2, <3>1 DEF QueueStep, Sends
  <2>3. QueueStep
    BY <1>2, <2>2, UnchangedRequests DEF PurgeRemove
  <2>. QED  BY <2>1, <2>3 DEF SetupStays
<1>3. CASE RegistrationDone \/ RegistrationTimeout
  <2>1. tasks'[SetupTask].pc = "choose"
    BY <1>0, <1>3 DEF RegistrationDone, RegistrationTimeout, Task
  <2>. QED  BY <1>3, <2>1, UnchangedRequests DEF RegistrationDone, RegistrationTimeout, SetupStays, tdVars
<1>4. CASE EnableFirstAvailable
  BY <1>4, <1>e, <1>p, <1>s, UnchangedRequests DEF EnableFirstAvailable
<1>5. CASE SetupPinged
  <2>1. ASSUME NEW rec, NEW id, tasks' = [tasks EXCEPT ![SetupTask] = PingFields(rec, id)]
        PROVE  SetupStays
    BY <1>0, <2>1 DEF PingFields, SetupStays
  <2>. QED  BY <1>5, <1>e, <1>p, <2>1, UnchangedRequests DEF SetupPinged
<1>6. CASE SetupEnabled
  BY <1>6, <1>s, UnchangedRequests DEF SetupEnabled, tdVars
<1>. QED  BY <1>1, <1>2, <1>3, <1>4, <1>5, <1>6 DEF Setup, Registering

LEMMA ResumeSteps == ASSUME TypeOK, LockInv, NEW t \in Tasks, Resume(t) PROVE QueueStep /\ SetupStays
<1>0. tasks \in [Tasks -> Task] /\ queue \in Seq(Request) /\ tasks[SetupTask].kind \in {"none", "setup", "setupSystem"}
  BY DEF TypeOK, TdType, LockInv, KindOK
<1>1. CASE PingCanceled(t)
  <2>1. SetupStays
    BY <1>0, <1>1, SetupIsTask DEF PingCanceled, SetupStays, Task
  <2>. QED  BY <1>1, <2>1, UnchangedRequests DEF PingCanceled, tdVars
<1>2. CASE ~PingCanceled(t)
  <2>1. t # SetupTask
    BY <1>0, <1>2 DEF Resume, FailoverPinged, ActivatePinged, TestPinged, HealthPinged, FailoverEnabled,
       ActivateEnabled, PingReturned, Resuming
  <2>2. \A u \in Tasks \ {t} : tasks'[u] = tasks[u]
    BY <1>0, <1>2, SwitchMoves DEF Resume, FailoverPinged, ActivatePinged, TestPinged, HealthPinged, FailoverEnabled,
       ActivateEnabled, SendEnable, PingNext
  <2>3. QueueStep
    <3>1. queue' = queue \/ \E id : SendEnable(t, id)
      BY <1>2 DEF Resume, FailoverPinged, ActivatePinged, TestPinged, HealthPinged, FailoverEnabled,
         ActivateEnabled, tdVars
    <3>. QED  BY <3>1, SendStep, UnchangedRequests DEF SendEnable
  <2>. QED  BY <1>0, <2>1, <2>2, <2>3, OtherSlot
<1>. QED  BY <1>1, <1>2

LEMMA TimerSteps ==
    ASSUME TypeOK, LockInv, NEW t \in Tasks, PingAgain(t) \/ PingTimeout(t) \/ ControlTimeout(t)
    PROVE  QueueStep /\ SetupStays
<1>0. tasks \in [Tasks -> Task] /\ queue \in Seq(Request)
  BY DEF TypeOK, TdType
<1>1. SetupStays
  <2>1. CASE PingAgain(t)
    BY <1>0, <2>1, SetupIsTask DEF PingAgain, SetupStays, PingFields
  <2>2. CASE PingTimeout(t)
    BY <1>0, <2>2, SetupIsTask DEF PingTimeout, SetupStays, Task
  <2>3. CASE ControlTimeout(t)
    BY <1>0, <2>3, SetupIsTask DEF ControlTimeout, SetupStays, Task
  <2>. QED  BY <2>1, <2>2, <2>3
<1>2. CASE UNCHANGED queue
  BY <1>1, <1>2, UnchangedRequests
<1>3. CASE ControlTimeout(t)
  <2>1. \A i \in DOMAIN queue : queue[i] \in Request
    BY <1>0, ElementOfSeq, LenProperties
  <2>2. SameRequests(queue, queue')
    BY <1>3, <2>1 DEF ControlTimeout, Request, SameRequests
  <2>. QED  BY <1>1, <2>2 DEF QueueStep
<1>. QED  BY <1>2, <1>3 DEF PingAgain, PingTimeout, tdVars

LEMMA AnswerSteps ==
    ASSUME TypeOK, Answers \/ PingAnswers, ~RemoveAnswer, ~AddAnswer
    PROVE  QueueStep /\ SetupStays
<1>0. tasks \in [Tasks -> Task]
  BY DEF TypeOK
<1>r. ASSUME NEW W, NEW res, NEW stale, tasks' = Resolve(W, res, stale) PROVE SetupStays
  BY <1>0, <1>r, SetupIsTask DEF Resolve, SetupStays, Task
<1>1. SetupStays
  <2>1. CASE DisableAnswer \/ EnableAnswer \/ PingAnswers
    <3>1. tasks' = tasks \/ \E W, res, stale : tasks' = Resolve(W, res, stale)
      BY <2>1 DEF DisableAnswer, EnableAnswer, PingAnswers, PingReply, LatePingReply
    <3>. QED  BY <1>r, <3>1 DEF SetupStays
  <2>2. CASE ListAnswer
    BY <1>0, <2>2, SetupIsTask DEF ListAnswer, SetupStays, Task
  <2>3. CASE AddRefused
    BY <2>3 DEF AddRefused, SetupStays
  <2>. QED  BY <2>1, <2>2, <2>3 DEF Answers
<1>2. CASE DisableAnswer \/ EnableAnswer \/ ListAnswer \/ AddRefused
  BY <1>1, <1>2 DEF DisableAnswer, EnableAnswer, ListAnswer, AddRefused, Answering, QueueStep, Takes
<1>3. CASE PingAnswers
  BY <1>1, <1>3, UnchangedRequests DEF PingAnswers, PingReply, LatePingReply
<1>. QED  BY <1>2, <1>3 DEF Answers

LEMMA CallSteps ==
    ASSUME TypeOK, NEW t \in Workers, Calls(t), ~AddUserProxy(t)
    PROVE  QueueStep /\ SetupStays
<1>0. tasks \in [Tasks -> Task] /\ t \in Tasks \ {SetupTask}
  BY BoundAssumption DEF TypeOK, Tasks
<1>1. \A u \in Tasks \ {t} : tasks'[u] = tasks[u]
  BY <1>0, SwitchMoves DEF Calls, HandleConnectionState, HealthTick, NextProxyPressed, ActivateProxy, TestProxy
<1>2. queue' = queue
  BY DEF Calls, HandleConnectionState, HealthTick, NextProxyPressed, ActivateProxy, TestProxy, tdVars
<1>. QED  BY <1>0, <1>1, <1>2, OtherSlot, UnchangedRequests

LEMMA StepSteps == ASSUME TypeOK, LockInv, [Next]_vars, ~Registering PROVE QueueStep /\ SetupStays
<1>1. CASE SetAutoFailoverEnabled \/ AuthReady \/ UNCHANGED vars
  <2>1. UNCHANGED <<tasks, queue>>
    BY <1>1 DEF SetAutoFailoverEnabled, AuthReady, vars, tdVars
  <2>. QED  BY <2>1, UnchangedRequests DEF SetupStays
<1>. QED  BY <1>1, SetupSteps, ResumeSteps, TimerSteps, AnswerSteps, CallSteps DEF Next, Timers, Registering

\* What becomes of a request on its way, and of the removals.
LEMMA SentAppend ==
    ASSUME NEW q \in Seq(Request), NEW r, r.op # "remove", NEW c
    PROVE  /\ Sent(q, c) => Sent(Append(q, r), c)
           /\ NoRemove(q) => NoRemove(Append(q, r))
           /\ r.op = "add" /\ r.cfg = c => Sent(Append(q, r), c)
<1> DEFINE a == Append(q, r)
<1>1. /\ DOMAIN q = 1 .. Len(q) /\ Len(q) \in Nat /\ DOMAIN a = 1 .. Len(q) + 1
      /\ \A i \in 1 .. Len(q) : a[i] = q[i]
      /\ a[Len(q) + 1] = r
  OBVIOUS
<1> HIDE DEF a
<1>2. ASSUME Sent(q, c) PROVE Sent(a, c)
  <2>1. PICK k \in DOMAIN q : q[k].op = "add" /\ q[k].cfg = c /\ \A j \in DOMAIN q : j > k => q[j].op # "remove"
    BY <1>2 DEF Sent
  <2>2. k \in DOMAIN a /\ a[k] = q[k]
    BY <1>1
  <2>3. \A j \in DOMAIN a : j > k => a[j].op # "remove"
    BY <1>1, <2>1
  <2>. QED  BY <2>1, <2>2, <2>3 DEF Sent
<1>3. ASSUME NoRemove(q) PROVE NoRemove(a)
  BY <1>1, <1>3 DEF NoRemove
<1>4. ASSUME r.op = "add", r.cfg = c PROVE Sent(a, c)
  <2>1. Len(q) + 1 \in DOMAIN a /\ \A j \in DOMAIN a : ~(j > Len(q) + 1)
    BY <1>1
  <2>. QED  BY <1>1, <1>4, <2>1 DEF Sent
<1>. QED  BY <1>2, <1>3, <1>4 DEF a

LEMMA SentTail ==
    ASSUME NEW q \in Seq(Request), q # <<>>, NEW c
    PROVE  /\ Sent(q, c) => Sent(Tail(q), c) \/ (q[1].op = "add" /\ q[1].cfg = c /\ NoRemove(Tail(q)))
           /\ NoRemove(q) => NoRemove(Tail(q))
<1> DEFINE a == Tail(q)
<1>1. /\ DOMAIN q = 1 .. Len(q) /\ Len(q) \in Nat /\ DOMAIN a = 1 .. Len(q) - 1
      /\ \A i \in 1 .. Len(q) - 1 : a[i] = q[i + 1]
  OBVIOUS
<1> HIDE DEF a
<1>2. ASSUME Sent(q, c) PROVE Sent(a, c) \/ (q[1].op = "add" /\ q[1].cfg = c /\ NoRemove(a))
  <2>1. PICK k \in DOMAIN q : q[k].op = "add" /\ q[k].cfg = c /\ \A j \in DOMAIN q : j > k => q[j].op # "remove"
    BY <1>2 DEF Sent
  <2>2. CASE k = 1
    <3>1. \A j \in DOMAIN a : j + 1 \in DOMAIN q /\ j + 1 > k /\ a[j] = q[j + 1]
      BY <1>1, <2>2
    <3>. QED  BY <2>1, <2>2, <3>1 DEF NoRemove
  <2>3. CASE k # 1
    <3>1. k - 1 \in DOMAIN a /\ a[k - 1] = q[k]
      BY <1>1, <2>3
    <3>2. \A j \in DOMAIN a : j > k - 1 => j + 1 \in DOMAIN q /\ j + 1 > k /\ a[j] = q[j + 1]
      BY <1>1, <2>3
    <3>. QED  BY <2>1, <3>1, <3>2 DEF Sent
  <2>. QED  BY <2>2, <2>3
<1>3. ASSUME NoRemove(q) PROVE NoRemove(a)
  <2>1. \A j \in DOMAIN a : j + 1 \in DOMAIN q /\ a[j] = q[j + 1]
    BY <1>1
  <2>. QED  BY <1>3, <2>1 DEF NoRemove
<1>. QED  BY <1>2, <1>3 DEF a

\* The addProxy requests of a list of configs, sent after the others.
LEMMA SentConcat ==
    ASSUME NEW q \in Seq(Request), NEW s \in Seq(Config), NEW i \in DOMAIN s
    PROVE  Sent(q \o [k \in DOMAIN s |-> AddReq(s[k])], s[i])
<1> DEFINE r == [k \in DOMAIN s |-> AddReq(s[k])]
           a == q \o r
<1>1. r \in Seq(Request) /\ DOMAIN s = 1 .. Len(s) /\ Len(s) \in Nat
  BY AddReqsType, LenProperties
<1>2. DOMAIN r = 1 .. Len(s) /\ \A k \in 1 .. Len(s) : r[k].op = "add" /\ r[k].cfg = s[k]
  BY <1>1 DEF AddReq, Req
<1> HIDE DEF r
<1>3. Len(r) = Len(s) /\ Len(q) \in Nat
  BY <1>1, <1>2, LenProperties
<1>4. /\ DOMAIN a = 1 .. Len(q) + Len(r)
      /\ \A k \in 1 .. Len(r) : a[Len(q) + k] = r[k]
  BY <1>1
<1> HIDE DEF a
<1>5. Len(q) + i \in DOMAIN a /\ a[Len(q) + i].op = "add" /\ a[Len(q) + i].cfg = s[i]
  BY <1>1, <1>2, <1>3, <1>4
<1>6. ASSUME NEW j \in DOMAIN a, j > Len(q) + i PROVE a[j].op # "remove"
  <2>1. j - Len(q) \in 1 .. Len(r) /\ Len(q) + (j - Len(q)) = j
    BY <1>1, <1>3, <1>4, <1>6
  <2>2. a[j] = r[j - Len(q)]
    BY <1>4, <2>1
  <2>. QED  BY <1>2, <1>3, <2>1, <2>2
<1>7. Sent(a, s[i])
  BY <1>5, <1>6 DEF Sent
<1>. QED  BY <1>7 DEF a, r

\* A step that registers nothing has no more answers awaited than before.
LEMMA QueueCounts ==
    ASSUME queue \in Seq(Request), queue' \in Seq(Request), QueueStep, NEW n
    PROVE  Count(queue', AddsOf(n)) <= Count(queue, AddsOf(n))
<1>0. Count(queue, AddsOf(n)) \in Nat /\ Count(queue', AddsOf(n)) \in Nat
  BY HitsFinite
<1>1. CASE SameRequests(queue, queue')
  <2>1. (\A i \in DOMAIN queue : queue[i] \in Request) /\ \A i \in DOMAIN queue' : queue'[i] \in Request
    BY ElementOfSeq, LenProperties
  <2>2. Hits(queue', AddsOf(n)) = Hits(queue, AddsOf(n))
    BY <1>1, <2>1 DEF Hits, AddsOf, SameRequests
  <2>. QED  BY <1>0, <2>2 DEF Count
<1>2. CASE Sends
  <2>1. PICK r : r.op # "add" /\ queue' = Append(queue, r) /\ (r.op = "remove" => tasks'[SetupTask].pc # "idle")
    BY <1>2 DEF Sends
  <2>2. Len(queue) + 1 \in DOMAIN queue' /\ queue'[Len(queue) + 1] = r
    BY <2>1
  <2>3. r \in Request /\ r \notin AddsOf(n)
    BY <2>1, <2>2, ElementOfSeq, LenProperties DEF AddsOf
  <2>. QED  BY <1>0, <2>1, <2>3, HitsAppend
<1>3. CASE Takes
  <2>1. queue # <<>> /\ queue' = Tail(queue)
    BY <1>3 DEF Takes
  <2>. QED  BY <1>0, <2>1, HitsTail
<1>. QED  BY <1>1, <1>2, <1>3 DEF QueueStep

LEMMA QueueSent ==
    ASSUME queue \in Seq(Request), QueueStep, tasks'[SetupTask].pc = "idle", NEW c, c.server \notin Rejected
    PROVE  (Sent(queue, c) => Sent(queue', c)) /\ (NoRemove(queue) => NoRemove(queue'))
<1>1. CASE SameRequests(queue, queue')
  BY <1>1 DEF SameRequests, Sent, NoRemove
<1>2. CASE Sends
  <2>1. PICK r : r.op # "add" /\ queue' = Append(queue, r) /\ (r.op = "remove" => tasks'[SetupTask].pc # "idle")
    BY <1>2 DEF Sends
  <2>2. r.op # "remove"
    BY <2>1
  <2>. QED  BY <2>1, <2>2, SentAppend
<1>3. CASE Takes
  <2>1. queue # <<>> /\ queue' = Tail(queue) /\ (queue[1].op = "add" => queue[1].cfg.server \in Rejected)
    BY <1>3 DEF Takes, Head1
  <2>2. /\ Sent(queue, c) => Sent(queue', c) \/ (queue[1].op = "add" /\ queue[1].cfg = c /\ NoRemove(queue'))
        /\ NoRemove(queue) => NoRemove(queue')
    BY <2>1, SentTail
  <2>. QED  BY <2>1, <2>2
<1>. QED  BY <1>1, <1>2, <1>3 DEF QueueStep

LEMMA EnteringKept ==
    ASSUME PrefsKept, NEW n PROVE Cardinality(Entering(n)') \in Nat /\ Cardinality(Entering(n)') <= Cardinality(Entering(n))
<1>1. Entering(n)' \subseteq Entering(n)
  BY DEF Entering, PrefsKept
<1>. QED  BY <1>1, EnteringFinite, FS_Subset, FS_CardinalityType

\* The counts, where no config becomes pending.
LEMMA EnoughKept ==
    ASSUME TypeOK, TypeOK', Enough, PrefsKept, UNCHANGED pendingUsers,
           \A n \in UserNames : Count(queue', AddsOf(n)) <= Count(queue, AddsOf(n))
    PROVE  Enough'
<1>0. queue \in Seq(Request) /\ queue' \in Seq(Request) /\ pendingUsers \in Seq(Config)
  BY DEF TypeOK, TdType, RegType
<1> SUFFICES ASSUME NEW n \in UserNames
             PROVE  Count(queue', AddsOf(n)) + Cardinality(Entering(n)') <= Count(pendingUsers', NamedBy(n))
  BY DEF Enough, Count, Hits
<1>1. Count(queue, AddsOf(n)) + Cardinality(Entering(n)) <= Count(pendingUsers, NamedBy(n))
  BY DEF Enough
<1>2. Count(queue', AddsOf(n)) <= Count(queue, AddsOf(n))
  OBVIOUS
<1>3. Cardinality(Entering(n)') \in Nat /\ Cardinality(Entering(n)') <= Cardinality(Entering(n))
  BY EnteringKept
<1>4. /\ Count(queue, AddsOf(n)) \in Nat /\ Count(queue', AddsOf(n)) \in Nat
      /\ Count(pendingUsers, NamedBy(n)) \in Nat /\ Cardinality(Entering(n)) \in Nat
  BY <1>0, HitsFinite, EnteringFinite
<1>. QED  BY <1>1, <1>2, <1>3, <1>4

LEMMA QuietSaved ==
    ASSUME TypeOK, TypeOK', SavedInv, QuietShape, QueueStep, SetupStays
    PROVE  SavedInv'
<1>0. queue \in Seq(Request) /\ queue' \in Seq(Request)
  BY DEF TypeOK, TdType
<1>1. PrefsKept /\ UNCHANGED <<pendingUsers, saved, setups, td.server>> /\ SameIds(proxies, proxies')
  BY DEF QuietShape, Registers
<1>2. Enough'
  BY <1>0, <1>1, QueueCounts, EnoughKept DEF SavedInv
<1>3. Kept'
  <2> SUFFICES ASSUME Settled', NEW c \in Elems(saved), c.server \notin Rejected
               PROVE  Sent(queue', c) \/ (NoRemove(queue') /\ Listed(c)')
    BY <1>1 DEF Kept
  <2>1. tasks'[SetupTask].pc = "idle" /\ Settled
    BY <1>1 DEF Settled, SetupStays
  <2>2. Sent(queue, c) \/ (NoRemove(queue) /\ Listed(c))
    BY <2>1 DEF SavedInv, Kept
  <2>3. Listed(c) => Listed(c)'
    BY <1>1 DEF Listed, SameIds
  <2>. QED  BY <1>0, <2>1, <2>2, <2>3, QueueSent
<1>4. UserSources'
  BY <1>1 DEF SavedInv, UserSources, PrefsKept
<1>. QED  BY <1>2, <1>3, <1>4 DEF SavedInv

\* None of the requests of setupProxies itself has the name of a user proxy.
LEMMA ConfigCounts ==
    ASSUME OwnNames, NEW n \in UserNames, NEW own, own = [i \in DOMAIN MTProto |-> AddReq(MTProto[i])]
    PROVE  Count(own, AddsOf(n)) = 0
<1>1. \A i \in DOMAIN own : own[i] \notin AddsOf(n)
  BY DEF AddReq, Req, AddsOf, OwnNames
<1>2. Hits(own, AddsOf(n)) = {}
  BY <1>1 DEF Hits
<1>. QED  BY <1>2, FS_EmptySet DEF Count

LEMMA UserNameProper == ASSUME ProperNames, NEW n \in UserNames PROVE n \notin {System, Transport}
BY DEF ProperNames, UserNames, Configs

LEMMA SetupSaved ==
    ASSUME ProperNames, OwnNames, SomeProxy, TypeOK, TypeOK', LockInv, SavedInv,
           SetupProxies \/ RegisterConfigs \/ RegisterSavedUserProxies
    PROVE  SavedInv'
<1> USE SetupIsTask
<1>0. /\ tasks \in [Tasks -> Task] /\ queue \in Seq(Request) /\ queue' \in Seq(Request)
      /\ pendingUsers \in Seq(Config) /\ saved \in Seq(Config) /\ MTProto \in Seq(Config)
  BY ConfigAssumption DEF TypeOK, RegType, TdType
<1>k. ASSUME PrefsKept, UNCHANGED saved PROVE UserSources'
  BY <1>k DEF SavedInv, UserSources, PrefsKept
<1>1. CASE SetupProxies
  <2>1. QueueStep
    BY <1>1, SendStep DEF SetupProxies
  <2>2. PrefsKept
    BY <1>0, <1>1 DEF SetupProxies, PrefsKept, Idle
  <2>3. UNCHANGED <<pendingUsers, saved>> /\ ~Settled'
    BY <1>0, <1>1 DEF SetupProxies, Settled, Idle
  <2>4. Enough'
    BY <1>0, <2>1, <2>2, <2>3, QueueCounts, EnoughKept DEF SavedInv
  <2>. QED  BY <1>k, <2>2, <2>3, <2>4 DEF SavedInv, Kept
<1>2. CASE RegisterConfigs
  <2> DEFINE sys == IF HasSystem THEN <<AddReq(SystemConfig)>> ELSE <<>>
             own == [i \in DOMAIN MTProto |-> AddReq(MTProto[i])]
  <2>1. queue' = (queue \o sys) \o own
    BY <1>2 DEF RegisterConfigs
  <2>2. PrefsKept
    BY <1>0, <1>2 DEF RegisterConfigs, PrefsKept, Task, Idle
  <2>3. UNCHANGED <<pendingUsers, saved>> /\ ~Settled'
    BY <1>0, <1>2 DEF RegisterConfigs, Settled, SomeProxy, Task
  <2>4. own \in Seq(Request) /\ sys \in Seq(Request) /\ AddReq(SystemConfig) \in Request
    <3>1. SystemConfig \in Config
      BY LiteralAssumption DEF SystemConfig, Config
    <3>2. AddReq(SystemConfig) \in Request /\ own \in Seq(Request)
      BY <1>0, <3>1, AddReqType, AddReqsType
    <3>. QED  BY <3>2
  <2>5. ASSUME NEW n \in UserNames PROVE Count(queue', AddsOf(n)) <= Count(queue, AddsOf(n))
    <3>1. Count(sys, AddsOf(n)) = 0
      <4>1. AddReq(SystemConfig) \notin AddsOf(n)
        BY UserNameProper DEF AddReq, Req, AddsOf, SystemConfig
      <4>2. CASE HasSystem
        BY <4>1, <4>2, HitsOne
      <4>3. CASE ~HasSystem
        <5>1. Hits(<<>>, AddsOf(n)) = {}
          BY DEF Hits
        <5>. QED  BY <4>3, <5>1, FS_EmptySet DEF Count
      <4>. QED  BY <4>2, <4>3
    <3>2. Count(own, AddsOf(n)) = 0
      BY ConfigCounts
    <3> HIDE DEF sys, own
    <3>3. queue \o sys \in Seq(Request) /\ Count(queue \o sys, AddsOf(n)) = Count(queue, AddsOf(n)) + Count(sys, AddsOf(n))
      BY <1>0, <2>4, HitsConcat, ConcatProperties
    <3>4. Count(queue', AddsOf(n)) = Count(queue \o sys, AddsOf(n)) + Count(own, AddsOf(n))
      BY <2>1, <2>4, <3>3, HitsConcat
    <3>5. Count(queue, AddsOf(n)) \in Nat
      BY <1>0, HitsFinite
    <3>. QED  BY <3>1, <3>2, <3>3, <3>4, <3>5
  <2> HIDE DEF sys, own
  <2>6. Enough'
    BY <2>2, <2>3, <2>5, EnoughKept DEF SavedInv
  <2>. QED  BY <1>k, <2>2, <2>3, <2>6 DEF SavedInv, Kept
<1>3. CASE RegisterSavedUserProxies
  <2> DEFINE r == [i \in DOMAIN saved |-> AddReq(saved[i])]
  <2>1. queue' = queue \o r /\ pendingUsers' = pendingUsers \o saved /\ UNCHANGED saved /\ r \in Seq(Request)
    BY <1>0, <1>3, AddReqsType DEF RegisterSavedUserProxies
  <2>2. PrefsKept
    BY <1>0, <1>3 DEF RegisterSavedUserProxies, PrefsKept, Idle
  <2>3. ASSUME NEW n \in UserNames
        PROVE  Count(queue', AddsOf(n)) + Cardinality(Entering(n)') <= Count(pendingUsers', NamedBy(n))
    <3>1. Hits(r, AddsOf(n)) = Hits(saved, NamedBy(n))
      <4>1. \A i \in DOMAIN saved : saved[i] \in Config
        BY <1>0, ElementOfSeq, LenProperties
      <4>2. DOMAIN r = DOMAIN saved /\ \A i \in DOMAIN saved : r[i] = AddReq(saved[i]) /\ r[i] \in Request
        BY <4>1, AddReqType
      <4> HIDE DEF r
      <4>3. \A i \in DOMAIN saved : r[i].op = "add" /\ r[i].cfg = saved[i]
        BY <4>2 DEF AddReq, Req
      <4>. QED  BY <4>1, <4>2, <4>3 DEF Hits, AddsOf, NamedBy
    <3> HIDE DEF r
    <3>2. Count(queue', AddsOf(n)) = Count(queue, AddsOf(n)) + Count(r, AddsOf(n))
      BY <1>0, <2>1, HitsConcat
    <3>3. Count(pendingUsers', NamedBy(n)) = Count(pendingUsers, NamedBy(n)) + Count(saved, NamedBy(n))
      BY <1>0, <2>1, HitsConcat
    <3>4. Count(queue, AddsOf(n)) + Cardinality(Entering(n)) <= Count(pendingUsers, NamedBy(n))
      BY DEF SavedInv, Enough
    <3>5. Cardinality(Entering(n)') \in Nat /\ Cardinality(Entering(n)') <= Cardinality(Entering(n))
      BY <2>2, EnteringKept
    <3>6. /\ Count(queue, AddsOf(n)) \in Nat /\ Count(saved, NamedBy(n)) \in Nat
          /\ Count(pendingUsers, NamedBy(n)) \in Nat /\ Cardinality(Entering(n)) \in Nat
      BY <1>0, HitsFinite, EnteringFinite
    <3>7. Count(r, AddsOf(n)) = Count(saved, NamedBy(n))
      BY <3>1 DEF Count
    <3>. QED  BY <3>2, <3>3, <3>4, <3>5, <3>6, <3>7
  <2>4. Enough'
    BY <2>3 DEF Enough, Count, Hits
  <2>5. \A c \in Elems(saved) : Sent(queue', c)
    BY <1>0, <2>1, SentConcat DEF Elems
  <2> HIDE DEF r
  <2>6. Kept'
    BY <2>1, <2>5 DEF Kept
  <2>. QED  BY <1>k, <2>1, <2>2, <2>4, <2>6 DEF SavedInv
<1>. QED  BY <1>1, <1>2, <1>3

\* A call of addUserProxy begins: its config is pending before it is sent.
LEMMA EnterSaved ==
    ASSUME TypeOK, TypeOK', SavedInv, NEW t \in Workers, AddUserProxy(t)
    PROVE  SavedInv'
<1>0. /\ tasks \in [Tasks -> Task] /\ queue \in Seq(Request) /\ pendingUsers \in Seq(Config)
      /\ t \in Tasks /\ t # SetupTask /\ tasks[t].pc = "idle"
  BY BoundAssumption DEF TypeOK, RegType, TdType, Tasks, AddUserProxy, Free
<1>1. PICK u \in UserConfigs :
         /\ pendingUsers' = Append(pendingUsers, u)
         /\ tasks' = [tasks EXCEPT ![t] = [Idle EXCEPT !.kind = "addUser", !.pc = "prefs", !.cfg = u]]
  BY DEF AddUserProxy
<1>2. u \in Config /\ u.name \in UserNames
  BY ConfigAssumption DEF UserNames
<1>3. UNCHANGED <<proxies, saved, td, setups, queue>>
  BY DEF AddUserProxy, envVars, tdVars
<1>4. /\ tasks'[t].pc = "prefs" /\ tasks'[t].cfg = u
      /\ \A k \in Tasks \ {t} : tasks'[k] = tasks[k]
  BY <1>0, <1>1 DEF Idle
<1>5. Enough'
  <2> SUFFICES ASSUME NEW n \in UserNames
               PROVE  Count(queue', AddsOf(n)) + Cardinality(Entering(n)') <= Count(pendingUsers', NamedBy(n))
    BY DEF Enough, Count, Hits
  <2>1. Count(pendingUsers', NamedBy(n)) = Count(pendingUsers, NamedBy(n)) + (IF u.name = n THEN 1 ELSE 0)
    <3>1. u \in NamedBy(n) <=> u.name = n
      BY <1>2 DEF NamedBy
    <3>. QED  BY <1>0, <1>1, <1>2, <3>1, HitsAppend
  <2>2. Cardinality(Entering(n)') = Cardinality(Entering(n)) + (IF u.name = n THEN 1 ELSE 0)
    <3>1. t \notin Entering(n)
      BY <1>0 DEF Entering
    <3>2. CASE u.name = n
      <4>1. Entering(n)' = Entering(n) \cup {t}
        BY <1>0, <1>4, <3>2 DEF Entering
      <4>. QED  BY <3>1, <3>2, <4>1, EnteringFinite, FS_AddElement
    <3>3. CASE u.name # n
      <4>1. Entering(n)' = Entering(n)
        BY <1>0, <1>4, <3>3 DEF Entering
      <4>. QED  BY <3>3, <4>1, EnteringFinite
    <3>. QED  BY <3>2, <3>3
  <2>3. Count(queue, AddsOf(n)) + Cardinality(Entering(n)) <= Count(pendingUsers, NamedBy(n))
    BY DEF SavedInv, Enough
  <2>4. /\ Count(queue, AddsOf(n)) \in Nat
        /\ Count(pendingUsers, NamedBy(n)) \in Nat /\ Cardinality(Entering(n)) \in Nat
    BY <1>0, HitsFinite, EnteringFinite
  <2>5. Count(queue', AddsOf(n)) = Count(queue, AddsOf(n))
    BY <1>3
  <2>. QED  BY <2>1, <2>2, <2>3, <2>4, <2>5
<1>6. tasks'[SetupTask] = tasks[SetupTask]
  BY <1>0, <1>4, SetupIsTask
<1>7. Kept'
  BY <1>3, <1>6 DEF SavedInv, Kept, Settled, Listed
<1>8. UserSources'
  BY <1>2, <1>3, <1>4 DEF SavedInv, UserSources
<1>. QED  BY <1>5, <1>7, <1>8 DEF SavedInv

\* The preferences are written: the config is sent.
LEMMA WriteSaved ==
    ASSUME TypeOK, TypeOK', LockInv, SavedInv, NEW t \in Tasks, UserProxySaved(t)
    PROVE  SavedInv'
<1> DEFINE u == tasks[t].cfg
<1>0. /\ tasks \in [Tasks -> Task] /\ queue \in Seq(Request) /\ pendingUsers \in Seq(Config)
      /\ saved \in Seq(Config) /\ tasks[t].pc = "prefs" /\ t # SetupTask /\ u \in Config
  BY DEF TypeOK, RegType, TdType, UserProxySaved, LockInv, KindOK, Task
<1>1. /\ queue' = Append(queue, AddReq(u)) /\ AddReq(u) \in Request /\ AddReq(u).op = "add" /\ AddReq(u).cfg = u
      /\ UNCHANGED <<proxies, pendingUsers, td, setups>>
  BY <1>0, AddReqType DEF UserProxySaved, AddReq, Req, envVars
<1>2. tasks'[t].pc = "idle" /\ \A k \in Tasks \ {t} : tasks'[k] = tasks[k]
  BY <1>0 DEF UserProxySaved, Idle
<1>3. u.name \in UserNames
  BY <1>0 DEF SavedInv, UserSources
<1>4. Elems(saved') \subseteq Elems(saved) \cup {u}
  <2>1. CASE saved' = Append(saved, u)
    <3> HIDE DEF u
    <3>. QED  BY <1>0, <2>1, ElemsAppend
  <2>2. ASSUME NEW i \in DOMAIN saved, saved' = Append(RemoveIndex(saved, i), u)
        PROVE  Elems(saved') \subseteq Elems(saved) \cup {u}
    <3>1. RemoveIndex(saved, i) \in Seq(Config) /\ Elems(RemoveIndex(saved, i)) \subseteq Elems(saved)
      BY <1>0, RemoveIndexType, ElemsRemove
    <3>2. Elems(saved') \subseteq Elems(RemoveIndex(saved, i)) \cup {u}
      BY <2>2, <3>1, ElemsAppend
    <3>. QED  BY <3>1, <3>2
  <2>. QED  BY <2>1, <2>2 DEF UserProxySaved
<1> HIDE DEF u
<1>5. Enough'
  <2> SUFFICES ASSUME NEW n \in UserNames
               PROVE  Count(queue', AddsOf(n)) + Cardinality(Entering(n)') <= Count(pendingUsers', NamedBy(n))
    BY DEF Enough, Count, Hits
  <2>1. Count(queue', AddsOf(n)) = Count(queue, AddsOf(n)) + (IF u.name = n THEN 1 ELSE 0)
    <3>1. AddReq(u) \in AddsOf(n) <=> u.name = n
      BY <1>1 DEF AddsOf
    <3>. QED  BY <1>0, <1>1, <3>1, HitsAppend
  <2>2. Cardinality(Entering(n)') = Cardinality(Entering(n)) - (IF u.name = n THEN 1 ELSE 0)
    <3>1. t \in Entering(n) <=> u.name = n
      BY <1>0 DEF Entering, u
    <3>2. Entering(n)' = Entering(n) \ {t}
      BY <1>2 DEF Entering
    <3>3. IsFiniteSet(Entering(n)) /\ Cardinality(Entering(n)) \in Nat
      BY EnteringFinite
    <3>4. Cardinality(Entering(n) \ {t}) = IF t \in Entering(n) THEN Cardinality(Entering(n)) - 1 ELSE Cardinality(Entering(n))
      BY <3>3, FS_RemoveElement
    <3>. QED  BY <3>1, <3>2, <3>3, <3>4
  <2>3. Count(queue, AddsOf(n)) + Cardinality(Entering(n)) <= Count(pendingUsers, NamedBy(n))
    BY DEF SavedInv, Enough
  <2>4. /\ Count(queue, AddsOf(n)) \in Nat
        /\ Count(pendingUsers, NamedBy(n)) \in Nat /\ Cardinality(Entering(n)) \in Nat
    BY <1>0, HitsFinite, EnteringFinite
  <2>. QED  BY <1>1, <2>1, <2>2, <2>3, <2>4
<1>6. Kept'
  <2> SUFFICES ASSUME Settled', NEW c \in Elems(saved'), c.server \notin Rejected
               PROVE  Sent(queue', c) \/ (NoRemove(queue') /\ Listed(c)')
    BY DEF Kept
  <2>1. Settled
    BY <1>0, <1>1, <1>2, SetupIsTask DEF Settled
  <2>2. CASE c = u
    BY <1>0, <1>1, <2>2, SentAppend
  <2>3. CASE c \in Elems(saved)
    <3>1. Sent(queue, c) \/ (NoRemove(queue) /\ Listed(c))
      BY <2>1, <2>3 DEF SavedInv, Kept
    <3>2. Listed(c) => Listed(c)'
      BY <1>1 DEF Listed
    <3>3. AddReq(u).op # "remove"
      BY <1>1
    <3>. QED  BY <1>0, <1>1, <3>1, <3>2, <3>3, SentAppend
  <2>. QED  BY <1>4, <2>2, <2>3
<1>7. UserSources'
  BY <1>2, <1>3, <1>4 DEF SavedInv, UserSources
<1>. QED  BY <1>5, <1>6, <1>7 DEF SavedInv

\* A stored proxy is gone: every saved one is sent after that.
LEMMA RemoveSaved == ASSUME TypeOK, TypeOK', SavedInv, RemoveAnswer PROVE SavedInv'
<1>0. queue \in Seq(Request) /\ tasks \in [Tasks -> Task]
  BY DEF TypeOK, TdType
<1>1. /\ queue # <<>> /\ queue[1].op = "remove" /\ queue' = Tail(queue)
      /\ UNCHANGED <<pendingUsers, saved, setups>>
  BY DEF RemoveAnswer, Answering, Head1, regVars, envVars
<1>2. PrefsKept /\ SetupStays
  <2>1. tasks' = tasks \/ \E W, res, stale : tasks' = Resolve(W, res, stale)
    BY DEF RemoveAnswer
  <2>2. ASSUME NEW W, NEW res, NEW stale, tasks' = Resolve(W, res, stale) PROVE SetupStays
    BY <1>0, <2>2, SetupIsTask DEF Resolve, SetupStays, Task
  <2>. QED  BY <1>0, <2>1, <2>2, ResolveKept DEF PrefsKept, SetupStays
<1>3. Enough'
  <2>1. ASSUME NEW n \in UserNames PROVE Count(queue', AddsOf(n)) <= Count(queue, AddsOf(n))
    <3>1. queue[1] \notin AddsOf(n)
      BY <1>1 DEF AddsOf
    <3>2. Count(queue, AddsOf(n)) \in Nat /\ Tail(queue) \in Seq(Request)
      BY <1>0, <1>1, HitsFinite
    <3>3. Count(Tail(queue), AddsOf(n)) \in Nat
      BY <3>2, HitsFinite
    <3>. QED  BY <1>0, <1>1, <3>1, <3>2, <3>3, HitsTail
  <2>. QED  BY <1>1, <1>2, <2>1, EnoughKept DEF SavedInv
<1>4. Kept'
  <2> SUFFICES ASSUME Settled', NEW c \in Elems(saved), c.server \notin Rejected PROVE Sent(queue', c)
    BY <1>1 DEF Kept
  <2>1. Settled
    BY <1>1, <1>2 DEF Settled, SetupStays
  <2>2. 1 \in DOMAIN queue
    BY <1>0, <1>1
  <2>3. ~NoRemove(queue)
    BY <1>1, <2>2 DEF NoRemove
  <2>4. Sent(queue, c)
    BY <2>1, <2>3 DEF SavedInv, Kept
  <2>. QED  BY <1>0, <1>1, <2>4, SentTail
<1>5. UserSources'
  BY <1>1, <1>2 DEF SavedInv, UserSources, PrefsKept
<1>. QED  BY <1>3, <1>4, <1>5 DEF SavedInv

\* The pending configs after an answer by the name of cfg.
LEMMA AddedPending ==
    ASSUME NEW id, NEW cfg, RegisterAddedProxy(id, cfg), pendingUsers \in Seq(Config)
    PROVE  \/ UNCHANGED pendingUsers
           \/ \E i \in DOMAIN pendingUsers :
                 pendingUsers[i].name = cfg.name /\ pendingUsers' = RemoveIndex(pendingUsers, i)
BY DEF RegisterAddedProxy

\* An answer that finds a pending user config uses it.
LEMMA AddedUser ==
    ASSUME NEW id, NEW cfg, RegisterAddedProxy(id, cfg), cfg.name \notin {System, Transport},
           NEW k \in DOMAIN pendingUsers, pendingUsers[k].name = cfg.name
    PROVE  /\ proxies' = Append(proxies, NewEntry(id, cfg))
           /\ \E i \in DOMAIN pendingUsers :
                 pendingUsers[i].name = cfg.name /\ pendingUsers' = RemoveIndex(pendingUsers, i)
BY DEF RegisterAddedProxy, NewEntry

\* addProxy is answered with an id: the config is found, and the proxy is in the list.
LEMMA AddSaved ==
    ASSUME ProperNames, TypeOK, TypeOK', Registry, SavedInv, AddAnswer
    PROVE  SavedInv'
<1> DEFINE cfg == Head1.cfg
<1>0. /\ queue \in Seq(Request) /\ tasks \in [Tasks -> Task] /\ proxies \in Seq(Entry) /\ pendingUsers \in Seq(Config)
      /\ td \in [server : [Ids -> STRING], enabled : 0 .. MaxId, next : 1 .. MaxId + 1]
  BY DEF TypeOK, TdType, RegType
<1>1. /\ queue # <<>> /\ queue[1].op = "add" /\ queue[1].cfg = cfg /\ queue' = Tail(queue)
      /\ UNCHANGED <<saved, setups, tasks>>
  BY DEF AddAnswer, Answering, Head1, envVars
<1>2. queue[1] \in Request /\ 1 \in DOMAIN queue
  BY <1>0, <1>1
<1>3. PICK id \in Ids :
         /\ RegisterAddedProxy(id, cfg) /\ td'.server[id] = cfg.server
         /\ \A k \in Ids : td.server[k] # NoServer => td'.server[k] = td.server[k]
  <2>1. CASE \E id \in Ids : td.server[id] = cfg.server /\ td' = td /\ RegisterAddedProxy(id, cfg)
    BY <2>1
  <2>2. ASSUME td.next \in Ids, RegisterAddedProxy(td.next, cfg),
               td' = [td EXCEPT !.server = [@ EXCEPT ![td.next] = cfg.server], !.next = @ + 1]
        PROVE  /\ td'.server[td.next] = cfg.server
               /\ \A k \in Ids : td.server[k] # NoServer => td'.server[k] = td.server[k]
    <3>1. td'.server = [td.server EXCEPT ![td.next] = cfg.server]
      BY <1>0, <2>2
    <3>2. td.server[td.next] = NoServer
      BY <1>0, <2>2 DEF Registry, Unused, Ids
    <3>. QED  BY <1>0, <2>2, <3>1, <3>2
  <2>. QED  BY <2>1, <2>2 DEF AddAnswer
<1> HIDE DEF cfg
<1>4. ASSUME cfg.name \in UserNames
      PROVE  /\ proxies' = Append(proxies, NewEntry(id, cfg))
             /\ \E i \in DOMAIN pendingUsers :
                   pendingUsers[i].name = cfg.name /\ pendingUsers' = RemoveIndex(pendingUsers, i)
  <2> DEFINE n == cfg.name
  <2>1. queue[1] \in AddsOf(n)
    BY <1>1, <1>2 DEF AddsOf
  <2>2. Tail(queue) \in Seq(Request)
    BY <1>0, <1>1
  <2> HIDE DEF n
  <2>3. Count(queue, AddsOf(n)) = Count(Tail(queue), AddsOf(n)) + 1 /\ Count(Tail(queue), AddsOf(n)) \in Nat
    BY <1>0, <1>1, <2>1, <2>2, HitsTail, HitsFinite
  <2>4. Count(queue, AddsOf(n)) + Cardinality(Entering(n)) <= Count(pendingUsers, NamedBy(n))
    BY <1>4 DEF SavedInv, Enough, n
  <2>5. Cardinality(Entering(n)) \in Nat /\ Count(pendingUsers, NamedBy(n)) \in Nat
    BY <1>0, EnteringFinite, HitsFinite
  <2>6. Count(pendingUsers, NamedBy(n)) # 0
    BY <2>3, <2>4, <2>5
  <2>7. Hits(pendingUsers, NamedBy(n)) # {}
    BY <2>6, FS_EmptySet DEF Count
  <2>8. PICK k \in DOMAIN pendingUsers : pendingUsers[k].name = n
    BY <2>7 DEF Hits, NamedBy
  <2>9. n \notin {System, Transport}
    BY <1>4, UserNameProper DEF n
  <2>. QED  BY <1>3, <2>8, <2>9, AddedUser DEF n
<1>5. Enough'
  <2> SUFFICES ASSUME NEW n \in UserNames
               PROVE  Count(queue', AddsOf(n)) + Cardinality(Entering(n)') <= Count(pendingUsers', NamedBy(n))
    BY DEF Enough, Count, Hits
  <2>1. queue[1] \in AddsOf(n) <=> cfg.name = n
    BY <1>1, <1>2 DEF AddsOf
  <2>2. Tail(queue) \in Seq(Request)
    BY <1>0, <1>1
  <2>3. /\ Count(queue, AddsOf(n)) = Count(queue', AddsOf(n)) + (IF cfg.name = n THEN 1 ELSE 0)
        /\ Count(queue', AddsOf(n)) \in Nat
    BY <1>0, <1>1, <2>1, <2>2, HitsTail, HitsFinite
  <2>4. Count(queue, AddsOf(n)) + Cardinality(Entering(n)) <= Count(pendingUsers, NamedBy(n))
    BY DEF SavedInv, Enough
  <2>5. Cardinality(Entering(n)) \in Nat /\ Count(pendingUsers, NamedBy(n)) \in Nat /\ Entering(n)' = Entering(n)
    BY <1>0, <1>1, EnteringFinite, HitsFinite DEF Entering
  <2>6. ASSUME NEW i \in DOMAIN pendingUsers, pendingUsers[i].name = cfg.name,
               pendingUsers' = RemoveIndex(pendingUsers, i)
        PROVE  /\ Count(pendingUsers, NamedBy(n)) = Count(pendingUsers', NamedBy(n)) + (IF cfg.name = n THEN 1 ELSE 0)
               /\ Count(pendingUsers', NamedBy(n)) \in Nat
    <3>1. pendingUsers[i] \in NamedBy(n) <=> cfg.name = n
      <4>1. pendingUsers[i] \in Config
        BY <1>0, ElementOfSeq, LenProperties
      <4>. QED  BY <2>6, <4>1 DEF NamedBy
    <3>2. RemoveIndex(pendingUsers, i) \in Seq(Config)
      BY <1>0, RemoveIndexType
    <3>. QED  BY <1>0, <2>6, <3>1, <3>2, HitsRemove, HitsFinite
  <2>7. CASE cfg.name = n
    BY <1>4, <2>3, <2>4, <2>5, <2>6, <2>7
  <2>8. CASE cfg.name # n
    <3>1. CASE UNCHANGED pendingUsers
      BY <2>3, <2>4, <2>5, <2>8, <3>1
    <3>2. CASE ~UNCHANGED pendingUsers
      <4>1. PICK i \in DOMAIN pendingUsers : pendingUsers[i].name = cfg.name /\ pendingUsers' = RemoveIndex(pendingUsers, i)
        BY <1>0, <1>3, <3>2, AddedPending
      <4>. QED  BY <2>3, <2>4, <2>5, <2>6, <2>8, <4>1
    <3>. QED  BY <3>1, <3>2
  <2>. QED  BY <2>7, <2>8
<1>6. Kept'
  <2> SUFFICES ASSUME Settled', NEW c \in Elems(saved), c.server \notin Rejected
               PROVE  Sent(queue', c) \/ (NoRemove(queue') /\ Listed(c)')
    BY <1>1 DEF Kept
  <2>0. c.server # NoServer /\ c.name \in UserNames
    BY ConfigAssumption DEF Registry, Sources, SavedInv, UserSources
  <2>1. Sent(queue, c) \/ (NoRemove(queue) /\ Listed(c))
    BY <1>1 DEF SavedInv, Kept, Settled
  <2>2. ASSUME Listed(c) PROVE Listed(c)'
    <3>1. PICK j \in DOMAIN proxies : td.server[proxies[j].id] = c.server
      BY <2>2 DEF Listed
    <3>2. proxies[j].id \in Ids
      <4>1. proxies[j] \in Entry
        BY <1>0, ElementOfSeq, LenProperties
      <4>. QED  BY <4>1 DEF Entry
    <3>3. td'.server[proxies[j].id] = c.server
      BY <1>3, <2>0, <3>1, <3>2
    <3>4. j \in DOMAIN proxies' /\ proxies'[j] = proxies[j]
      <4>1. CASE proxies' = proxies
        BY <4>1
      <4>2. CASE proxies' = Append(proxies, NewEntry(id, cfg))
        BY <1>0, <4>2, AppendEntry
      <4>. QED  BY <1>3, <4>1, <4>2, AddedShape
    <3>. QED  BY <3>3, <3>4 DEF Listed
  <2>3. ASSUME cfg = c PROVE Listed(c)'
    <3>1. proxies' = Append(proxies, NewEntry(id, cfg))
      BY <1>4, <2>0, <2>3
    <3>2. Len(proxies) + 1 \in DOMAIN proxies' /\ proxies'[Len(proxies) + 1] = NewEntry(id, cfg)
      BY <1>0, <3>1, AppendEntry
    <3>3. NewEntry(id, cfg).id = id
      BY DEF NewEntry
    <3>. QED  BY <1>3, <2>3, <3>2, <3>3 DEF Listed
  <2>4. /\ Sent(queue, c) => Sent(queue', c) \/ (queue[1].cfg = c /\ NoRemove(queue'))
        /\ NoRemove(queue) => NoRemove(queue')
    BY <1>0, <1>1, SentTail
  <2>. QED  BY <1>1, <2>1, <2>2, <2>3, <2>4
<1>7. UserSources'
  BY <1>1 DEF SavedInv, UserSources
<1>. QED  BY <1>5, <1>6, <1>7 DEF SavedInv

LEMMA StepSaved ==
    ASSUME ProperNames, OwnNames, SomeProxy, TypeOK, TypeOK', LockInv, Registry, SavedInv, [Next]_vars
    PROVE  SavedInv'
<1>1. CASE Registering
  BY <1>1, SetupSaved, EnterSaved, WriteSaved, RemoveSaved, AddSaved DEF Registering
<1>2. CASE ~Registering
  BY <1>2, StepQuiet, StepSteps, QuietSaved
<1>. QED  BY <1>1, <1>2

LEMMA InitSaved == ASSUME Init PROVE SavedInv
<1>1. queue = <<>> /\ pendingUsers = <<>> /\ setups = 0 /\ saved = SavedConfigs /\ \A t \in Tasks : tasks[t].pc = "idle"
  BY DEF Init, Idle
<1>2. Enough
  <2> SUFFICES ASSUME NEW n \in UserNames
               PROVE  Count(queue, AddsOf(n)) + Cardinality(Entering(n)) <= Count(pendingUsers, NamedBy(n))
    BY DEF Enough
  <2>1. Hits(queue, AddsOf(n)) = {} /\ Entering(n) = {} /\ Hits(pendingUsers, NamedBy(n)) = {}
    BY <1>1 DEF Hits, Entering
  <2>. QED  BY <2>1, FS_EmptySet DEF Count
<1>3. Kept
  BY <1>1 DEF Kept, Settled
<1>4. UserSources
  BY <1>1 DEF UserSources, UserNames
<1>. QED  BY <1>2, <1>3, <1>4 DEF SavedInv

\* If the names of the configs tell them apart, those of .env from those of the user too, and
\* there is a proxy to set up, every saved user proxy that TDLib accepts is in the list once
\* nothing is pending: however many setups, timed-out waits, refusals and calls of addUserProxy
\* are mixed, each answer by name finds a pending config, and no removal of an earlier
\* _purgeStoredProxies comes after it.
THEOREM SavedAreRegistered == ProperNames /\ OwnNames /\ SomeProxy => (Spec => []SavedRegistered)
<1> SUFFICES ASSUME ProperNames, OwnNames, SomeProxy PROVE Spec => []SavedRegistered
  OBVIOUS
<1>1. Init => SavedInv
  BY InitSaved
<1>2. TypeOK /\ TypeOK' /\ LockInv /\ Registry /\ SavedInv /\ [Next]_vars => SavedInv'
  BY StepSaved
<1>3. SavedInv => SavedRegistered
  <2> SUFFICES ASSUME SavedInv, AtRest, setups > 0, NEW i \in DOMAIN saved, saved[i].server \notin Rejected
               PROVE  \E j \in DOMAIN proxies : td.server[proxies[j].id] = saved[i].server
    BY DEF SavedRegistered
  <2>1. Settled /\ queue = <<>> /\ saved[i] \in Elems(saved)
    BY SetupIsTask DEF AtRest, Settled, Elems
  <2>2. ~Sent(queue, saved[i])
    BY <2>1 DEF Sent
  <2>3. Listed(saved[i])
    BY <2>1, <2>2 DEF SavedInv, Kept
  <2>. QED  BY <2>3 DEF Listed
<1>. QED  BY <1>1, <1>2, <1>3, TypeCorrect, LockInvariant, RegistryInvariant, PTL DEF Spec
=============================================================================
