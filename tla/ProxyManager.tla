---------------------------- MODULE ProxyManager ----------------------------
(***************************************************************************)
(* lib/core/proxy/proxy_manager.dart: registration of the configured       *)
(* proxies with TDLib, the choice of the first proxy, health checks and    *)
(* failover.                                                               *)
(*                                                                         *)
(* The Dart code runs on one event loop.  An action is the code between    *)
(* two awaits; the awaits are where tasks interleave.  A task is one       *)
(* pending call of a public method, of the connection-state handler or of  *)
(* the health timer's callback, so tasks of different kinds are in flight  *)
(* together.  When an awaited answer arrives, the continuation runs before *)
(* the next timer, click or awaited answer: Quiet guards these.  TDLib's   *)
(* messages are polled in batches, and the later messages of a batch reach *)
(* their handlers before the continuation that an earlier one woke, so the *)
(* messages that wake no task (addedProxy, the errors of addProxy, the     *)
(* connection state) are not guarded.  Continuations run in the order of   *)
(* the answers that woke them.                                             *)
(*                                                                         *)
(* Requests are correlated by the @extra the code chooses.  disableProxy   *)
(* and removeProxy use a fresh @extra per call, so a late answer is        *)
(* ignored; getProxies, pingProxy and enableProxy use a fixed one, so an   *)
(* answer resolves every task that waits for it, whichever request it      *)
(* answers.                                                                *)
(***************************************************************************)
EXTENDS Naturals, Sequences, FiniteSets

CONSTANTS
    MTProto,      \* sequence of configs of .env with a valid secret, in order
    HasSystem,    \* SystemProxyDetector finds a configured OS proxy
    UserConfigs,  \* configs the user may enter in the settings screen
    SavedConfigs, \* user proxies saved by an earlier run, a sequence
    Leftover,     \* the server TDLib still has enabled from an earlier run, or NoServer
    Rejected,     \* servers that TDLib refuses in addProxy (bad secret, bad port)
    Workers,      \* slots for tasks other than setupProxies
    MaxId,        \* bound on TDLib proxy identifiers
    MaxSetups,    \* bound on calls of setupProxies
    MaxQueue,     \* bound on how far TDLib may lag behind when a task starts
    MaxOrphans,   \* bound on outstanding pings per proxy that nobody waits for
    MaxEntries,   \* bound on entries the user may reach by adding proxies
    Retries,      \* retriesOnCanceled
    UI            \* the controls of the settings screen that are used; without any, the
                  \* session stays before the login

System == "System"        \* systemProxyName
Transport == "Transport"  \* transportProxyName
SystemServer == "os-proxy"
NoServer == "none"
SetupTask == "setup"

Config == [name : STRING, server : STRING]
NoConfig == [name |-> NoServer, server |-> NoServer]
SystemConfig ==
    [name |-> IF MTProto = <<>> THEN System ELSE Transport,
     server |-> SystemServer]

\* What .env, the preferences and the user may register.
Elems(s) == {s[i] : i \in DOMAIN s}
Configs == Elems(MTProto) \cup UserConfigs \cup Elems(SavedConfigs)

Controls == {"next", "activate", "test", "add", "auto"}

ASSUME ConfigAssumption ==
    /\ MTProto \in Seq(Config)
    /\ UserConfigs \subseteq Config
    /\ SavedConfigs \in Seq(Config)
    /\ HasSystem \in BOOLEAN
    /\ Leftover \in STRING
    /\ \A c \in Configs : c.server # NoServer

\* True of any literals; the provers have to be told.
ASSUME LiteralAssumption == {System, Transport, SystemServer, NoServer} \subseteq STRING

ASSUME BoundAssumption ==
    /\ MaxId \in Nat \ {0} /\ MaxSetups \in Nat /\ MaxQueue \in Nat /\ MaxEntries \in Nat
    /\ MaxOrphans \in Nat \ {0} /\ Retries \in Nat /\ UI \subseteq Controls
    /\ IsFiniteSet(Workers) /\ SetupTask \notin Workers

VARIABLES
    proxies,          \* _proxies
    payloads,         \* _proxyPayloadsById, NoServer where there is no payload
    pendingConfigs,   \* _pendingConfigs, by name
    pendingUsers,     \* _pendingUserConfigs
    saved,            \* the user proxies in the preferences
    systemProxy,      \* _systemProxy # null
    pendingSystem,    \* _pendingSystemProxy # null
    status,           \* _status
    autoFailover,     \* _autoFailoverEnabled
    readyForFailover, \* _readyForFailover
    failoverRunning,  \* _failoverRunning
    healthTimer,      \* _healthTimer is armed
    tasks,            \* the pending calls
    td,               \* TDLib: the server of each proxy id, the enabled id, the next id
    queue,            \* control requests TDLib has not answered
    orphans,          \* per id, outstanding pings whose caller no longer waits
    initialized,      \* AuthManager has finished: settings can be opened, no more setups
    setups,           \* number of calls of setupProxies so far
    late,             \* history: some wait for a control request has timed out
    crossed           \* history: some enableProxy was overtaken, its sender resumed by the
                      \* answer to an earlier one with the same @extra

regVars == <<proxies, payloads, pendingConfigs, pendingUsers, saved, systemProxy, pendingSystem>>
ctlVars == <<status, autoFailover, readyForFailover, failoverRunning, healthTimer>>
tdVars  == <<td, queue, orphans>>
envVars == <<initialized, setups, late, crossed>>
vars == <<regVars, ctlVars, tasks, tdVars, envVars>>

Tasks == Workers \cup {SetupTask}
Ids == 1 .. MaxId
\* ProxyEntry; of ProxyHealth only "checking" is told apart from its results.
Entry == [id : Ids, name : STRING, active : BOOLEAN, checking : BOOLEAN]
Status == {"unknown", "active", "switching", "error"}
Kinds == {"none", "setup", "setupSystem", "failover", "health", "activate", "test", "addUser"}
PCs == {"idle", "disable", "list", "remove", "detect", "register", "choose",
        "ping", "settle", "enable", "users", "prefs"}
Results == {"none", "ok", "error", "canceled", "timeout", "nopayload"}
Ops == {"disable", "list", "remove", "add", "enable"}

Request == [op : Ops, id : 0 .. MaxId, cfg : Config, live : BOOLEAN]
Req(op, id, cfg) == [op |-> op, id |-> id, cfg |-> cfg, live |-> TRUE]
AddReq(cfg) == Req("add", 0, cfg)

\* A task: what it is doing, the proxy it awaits an answer about, what is left of the
\* snapshot of _proxies it iterates over (each id with its place in the order) and the
\* place it has reached, the proxy enabled as a last resort, the remaining retries of its
\* ping, the answer it resumes with, and whether that answer is to an older ping.
Candidate == [rank : Nat, id : Ids]
Task == [kind : Kinds, pc : PCs, id : 0 .. MaxId, left : SUBSET Candidate, cur : Nat,
         first : 0 .. MaxId, retries : 0 .. Retries, res : Results, stale : BOOLEAN,
         cfg : Config]

Idle == [kind |-> "none", pc |-> "idle", id |-> 0, left |-> {}, cur |-> 0, first |-> 0,
         retries |-> 0, res |-> "none", stale |-> FALSE, cfg |-> NoConfig]

Quiet == \A t \in Tasks : tasks[t].res = "none"
Free(t) == t \in Workers /\ tasks[t].pc = "idle" /\ Len(queue) <= MaxQueue
Resuming(t, kind, pc) ==
    tasks[t].kind = kind /\ tasks[t].pc = pc /\ tasks[t].res # "none"

-----------------------------------------------------------------------------
(* The list of entries                                                     *)

IsSystemLike(p) == p.name \in {System, Transport}

\* The place of the i-th entry of s in _failoverCandidates: system entries last.
Rank(s, i) == IF IsSystemLike(s[i]) THEN Len(s) + i ELSE i

ActiveIndices(s) == {i \in DOMAIN s : s[i].active}
HasActive(s) == ActiveIndices(s) # {}
hasActiveProxy == HasActive(proxies) /\ status = "active"

FirstWithId(s, i, id) == s[i].id = id /\ \A j \in 1 .. i - 1 : s[j].id # id

\* Mutant: the proxy that was active stays marked.
SetActive_KeepOld(s, id) ==
    [i \in DOMAIN s |-> [s[i] EXCEPT !.active = @ \/ s[i].id = id]]

SetActive(s, id) == [i \in DOMAIN s |-> [s[i] EXCEPT !.active = (s[i].id = id)]]
SetChecking(s, id, b) ==
    [i \in DOMAIN s |-> IF FirstWithId(s, i, id) THEN [s[i] EXCEPT !.checking = b] ELSE s[i]]

RemoveIndex(s, i) == SubSeq(s, 1, i - 1) \o SubSeq(s, i + 1, Len(s))

\* The candidates among the entries I of s.
Candidates(s, I) == {[rank |-> Rank(s, i), id |-> s[i].id] : i \in I}

\* p is the candidate that follows place c among those left, cyclically.
IsNext(left, c, p) ==
    LET after == {q \in left : q.rank > c}
        from  == IF after # {} THEN after ELSE left
    IN  p \in from /\ \A q \in from : p.rank <= q.rank

-----------------------------------------------------------------------------
(* Fragments of continuations                                              *)

\* pingProxy(id): without a payload it fails at once, otherwise it sends and awaits.
PingFields(rec, id) ==
    [rec EXCEPT !.pc = "ping", !.id = id, !.stale = FALSE,
                !.res = IF payloads[id] = NoServer THEN "nopayload" ELSE "none"]

\* Ping the candidate that comes next in the snapshot of rec.
PingNext(t, rec) ==
    \E p \in rec.left :
        /\ IsNext(rec.left, rec.cur, p)
        /\ tasks' = [tasks EXCEPT ![t] =
               PingFields([rec EXCEPT !.left = rec.left \ {p}, !.cur = p.rank,
                                      !.retries = Retries], p.id)]

\* _enableProxy(id): send and await.
SendEnable(t, id) ==
    /\ queue' = Append(queue, Req("enable", id, NoConfig))
    /\ tasks' = [tasks EXCEPT ![t].pc = "enable", ![t].id = id, ![t].res = "none"]

\* Mutant: switchToNextProxy without the test of _failoverRunning.
SwitchToNextProxy_NoLock(t) ==
    LET rest == DOMAIN proxies \ ActiveIndices(proxies)
    IN \/ /\ rest = {}
          /\ tasks' = [tasks EXCEPT ![t] = Idle]
          /\ UNCHANGED <<status, failoverRunning>>
       \/ /\ rest # {}
          /\ failoverRunning' = TRUE
          /\ status' = "switching"
          /\ PingNext(t, [Idle EXCEPT !.kind = "failover", !.left = Candidates(proxies, rest)])

\* switchToNextProxy, up to its first await.
SwitchToNextProxy(t) ==
    LET act == {i \in ActiveIndices(proxies) :
                    \A k \in ActiveIndices(proxies) : Rank(proxies, i) <= Rank(proxies, k)}
    IN \/ /\ proxies = <<>> \/ failoverRunning
          /\ tasks' = [tasks EXCEPT ![t] = Idle]
          /\ UNCHANGED <<status, failoverRunning>>
       \/ /\ proxies # <<>> /\ ~failoverRunning
          /\ ActiveIndices(proxies) = DOMAIN proxies
          /\ tasks' = [tasks EXCEPT ![t] = Idle]
          /\ status' = "active"
          /\ UNCHANGED failoverRunning
       \/ /\ proxies # <<>> /\ ~failoverRunning
          /\ ActiveIndices(proxies) # DOMAIN proxies
          /\ failoverRunning' = TRUE
          /\ status' = "switching"
          /\ \E c \in {0} \cup {Rank(proxies, i) : i \in act} :
                /\ (act # {}) => (c # 0)
                /\ PingNext(t, [Idle EXCEPT !.kind = "failover", !.cur = c,
                       !.left = Candidates(proxies, DOMAIN proxies \ ActiveIndices(proxies))])

-----------------------------------------------------------------------------
(* setupProxies                                                            *)

\* The clearing part and the first request of _purgeStoredProxies.  The pending user
\* configs, the health timer and the tasks in flight are left alone.
SetupProxies ==
    /\ Quiet /\ ~initialized
    /\ tasks[SetupTask].pc = "idle"
    /\ setups < MaxSetups
    /\ setups' = setups + 1
    /\ readyForFailover' = FALSE /\ failoverRunning' = FALSE
    /\ proxies' = <<>>
    /\ payloads' = [id \in Ids |-> NoServer]
    /\ pendingConfigs' = {}
    /\ systemProxy' = FALSE /\ pendingSystem' = FALSE
    /\ queue' = Append(queue, Req("disable", 0, NoConfig))
    /\ tasks' = [tasks EXCEPT ![SetupTask] = [Idle EXCEPT !.kind = "setup", !.pc = "disable"]]
    /\ UNCHANGED <<pendingUsers, saved, status, autoFailover, healthTimer, td, orphans,
                   initialized, late, crossed>>

\* disableProxy was answered or timed out: ask for the stored proxies.
PurgeList ==
    /\ Resuming(SetupTask, "setup", "disable")
    /\ queue' = Append(queue, Req("list", 0, NoConfig))
    /\ tasks' = [tasks EXCEPT ![SetupTask].pc = "list", ![SetupTask].res = "none"]
    /\ UNCHANGED <<regVars, ctlVars, td, orphans, envVars>>

\* Remove the listed proxies one by one; give the purge up if the list did not come.
PurgeRemove ==
    LET me == tasks[SetupTask]
        noList == me.pc = "list" /\ me.res # "ok"
    IN  /\ Resuming(SetupTask, "setup", "list") \/ Resuming(SetupTask, "setup", "remove")
        /\ \/ /\ me.left = {} \/ noList
              /\ tasks' = [tasks EXCEPT ![SetupTask].pc = "detect", ![SetupTask].res = "none",
                                        ![SetupTask].left = {}]
              /\ UNCHANGED queue
           \/ /\ ~noList
              /\ \E p \in me.left :
                    /\ IsNext(me.left, 0, p)
                    /\ queue' = Append(queue, Req("remove", p.id, NoConfig))
                    /\ tasks' = [tasks EXCEPT ![SetupTask].pc = "remove",
                                              ![SetupTask].res = "none",
                                              ![SetupTask].left = me.left \ {p}]
        /\ UNCHANGED <<regVars, ctlVars, td, orphans, envVars>>

\* The OS proxy is known: send every addProxy, then wait for the answers.
RegisterConfigs ==
    LET sys == IF HasSystem THEN <<AddReq(SystemConfig)>> ELSE <<>>
        own == [i \in DOMAIN MTProto |-> AddReq(MTProto[i])]
        none == MTProto = <<>> /\ ~HasSystem
    IN  /\ Quiet /\ tasks[SetupTask].pc = "detect"
        /\ systemProxy' = HasSystem /\ pendingSystem' = HasSystem
        /\ pendingConfigs' = {MTProto[i].name : i \in DOMAIN MTProto}
        /\ queue' = queue \o sys \o own
        /\ status' = IF none THEN "error" ELSE "unknown"
        /\ tasks' = [tasks EXCEPT ![SetupTask] =
                        IF none THEN Idle ELSE [@ EXCEPT !.pc = "register"]]
        /\ UNCHANGED <<proxies, payloads, pendingUsers, saved, autoFailover, readyForFailover,
                       failoverRunning, healthTimer, td, orphans, envVars>>

\* _waitForProxyRegistration ends: enough entries, or 8 seconds have passed.
Expected == Len(MTProto) + (IF HasSystem THEN 1 ELSE 0)

RegistrationDone ==
    /\ Quiet /\ tasks[SetupTask].pc = "register"
    /\ Len(proxies) >= Expected
    /\ tasks' = [tasks EXCEPT ![SetupTask].pc = "choose"]
    /\ UNCHANGED <<regVars, ctlVars, tdVars, envVars>>

RegistrationTimeout ==
    /\ Quiet /\ tasks[SetupTask].pc = "register"
    /\ Len(proxies) < Expected
    /\ tasks' = [tasks EXCEPT ![SetupTask].pc = "choose"]
    /\ late' = TRUE
    /\ UNCHANGED <<regVars, ctlVars, tdVars, initialized, setups, crossed>>

\* The rest of setupProxies once the choice is made: health checks if a proxy is
\* active, then the saved user proxies are loaded.
SetupEpilogue(ps, st) ==
    LET up == HasActive(ps) /\ st = "active"
    IN  /\ healthTimer' = (healthTimer \/ up)
        /\ readyForFailover' = (readyForFailover \/ up)
        /\ tasks' = [tasks EXCEPT ![SetupTask] = [Idle EXCEPT !.kind = "setup", !.pc = "users"]]

\* _enableFirstAvailable, or _enableSystemProxyOnly when .env has no usable proxy.
EnableFirstAvailable ==
    LET direct  == {i \in DOMAIN proxies : ~IsSystemLike(proxies[i])}
        systems == DOMAIN proxies \ direct
        onlySystem == MTProto = <<>> \/ direct = {}
    IN  /\ Quiet /\ tasks[SetupTask].pc = "choose"
        /\ \/ /\ onlySystem /\ systems = {}
              /\ status' = "error"
              /\ SetupEpilogue(proxies, "error")
              /\ UNCHANGED queue
           \/ /\ onlySystem
              /\ \E i \in systems :
                    /\ \A k \in systems : i <= k
                    /\ SendEnable(SetupTask, proxies[i].id)
              /\ UNCHANGED <<status, healthTimer, readyForFailover>>
           \/ /\ ~onlySystem
              /\ \E i \in direct :
                    /\ \A k \in direct : i <= k
                    /\ PingNext(SetupTask, [Idle EXCEPT !.kind = "setup",
                           !.left = Candidates(proxies, direct), !.first = proxies[i].id])
              /\ UNCHANGED <<status, healthTimer, readyForFailover, queue>>
        /\ UNCHANGED <<regVars, autoFailover, failoverRunning, td, orphans, envVars>>

\* loadUserProxies returned: register every saved user proxy; setupProxies returns.
RegisterSavedUserProxies ==
    /\ Quiet /\ tasks[SetupTask].pc = "users"
    /\ pendingUsers' = pendingUsers \o saved
    /\ queue' = queue \o [i \in DOMAIN saved |-> AddReq(saved[i])]
    /\ tasks' = [tasks EXCEPT ![SetupTask] = Idle]
    /\ UNCHANGED <<proxies, payloads, pendingConfigs, saved, systemProxy, pendingSystem,
                   ctlVars, td, orphans, envVars>>

-----------------------------------------------------------------------------
(* pingProxy and its callers                                               *)

\* Mutant: pingProxy leaves the health of a proxy that failed to its caller.
PingHealth_OkOnly(s, rec) == IF rec.res = "ok" THEN SetChecking(s, rec.id, FALSE) ELSE s

\* pingProxy itself settles the entry's health when it returns, unless it had no payload.
PingHealth(s, rec) == IF rec.res = "nopayload" THEN s ELSE SetChecking(s, rec.id, FALSE)

PingReturned(t, kind) ==
    /\ Resuming(t, kind, "ping")
    /\ ~(tasks[t].res = "canceled" /\ tasks[t].retries > 0)

\* Mutant: "Canceled" is retried without the test of retriesOnCanceled.
PingCanceled_Always(t) ==
    /\ tasks[t].pc = "ping" /\ tasks[t].res = "canceled"
    /\ tasks' = [tasks EXCEPT ![t].pc = "settle", ![t].res = "none",
                              ![t].retries = tasks[t].retries - 1]
    /\ UNCHANGED <<regVars, ctlVars, tdVars, envVars>>

\* "Canceled" is retried after pingSettleDelay, twice at most.
PingCanceled(t) ==
    /\ tasks[t].pc = "ping" /\ tasks[t].res = "canceled" /\ tasks[t].retries > 0
    /\ tasks' = [tasks EXCEPT ![t].pc = "settle", ![t].res = "none",
                              ![t].retries = tasks[t].retries - 1]
    /\ UNCHANGED <<regVars, ctlVars, tdVars, envVars>>

PingAgain(t) ==
    /\ Quiet /\ tasks[t].pc = "settle"
    /\ tasks' = [tasks EXCEPT ![t] = PingFields(tasks[t], tasks[t].id)]
    /\ UNCHANGED <<regVars, ctlVars, tdVars, envVars>>

\* Mutant: status is not restored when every candidate is dead.
FailoverPinged_StatusKept(t) ==
    LET me == tasks[t]
    IN  /\ PingReturned(t, "failover")
        /\ proxies' = SetChecking(proxies, me.id, FALSE)
        /\ \/ /\ me.res = "ok"
              /\ SendEnable(t, me.id)
              /\ UNCHANGED failoverRunning
           \/ /\ me.res # "ok" /\ me.left # {}
              /\ PingNext(t, me)
              /\ UNCHANGED <<queue, failoverRunning>>
           \/ /\ me.res # "ok" /\ me.left = {}
              /\ failoverRunning' = FALSE
              /\ tasks' = [tasks EXCEPT ![t] = Idle]
              /\ UNCHANGED queue
        /\ UNCHANGED <<payloads, pendingConfigs, pendingUsers, saved, systemProxy, pendingSystem,
                       status, autoFailover, readyForFailover, healthTimer, td, orphans, envVars>>

\* switchToNextProxy after a ping: switch if it answered, else try the next candidate.
FailoverPinged(t) ==
    LET me == tasks[t]
    IN  /\ PingReturned(t, "failover")
        /\ \/ /\ me.res = "ok"
              /\ proxies' = PingHealth(proxies, me)
              /\ SendEnable(t, me.id)
              /\ UNCHANGED <<status, failoverRunning>>
           \/ /\ me.res # "ok"
              /\ proxies' = SetChecking(proxies, me.id, FALSE)
              /\ UNCHANGED queue
              /\ \/ /\ me.left # {}
                    /\ PingNext(t, me)
                    /\ UNCHANGED <<status, failoverRunning>>
                 \/ /\ me.left = {}
                    /\ status' = IF HasActive(proxies) THEN "active" ELSE "error"
                    /\ failoverRunning' = FALSE
                    /\ tasks' = [tasks EXCEPT ![t] = Idle]
        /\ UNCHANGED <<payloads, pendingConfigs, pendingUsers, saved, systemProxy, pendingSystem,
                       autoFailover, readyForFailover, healthTimer, td, orphans, envVars>>

\* activateProxy enables the proxy whether or not it answered.
ActivatePinged(t) ==
    /\ PingReturned(t, "activate")
    /\ proxies' = PingHealth(proxies, tasks[t])
    /\ SendEnable(t, tasks[t].id)
    /\ UNCHANGED <<payloads, pendingConfigs, pendingUsers, saved, systemProxy, pendingSystem,
                   ctlVars, td, orphans, envVars>>

TestPinged(t) ==
    /\ PingReturned(t, "test")
    /\ proxies' = SetChecking(proxies, tasks[t].id, FALSE)
    /\ tasks' = [tasks EXCEPT ![t] = Idle]
    /\ UNCHANGED <<payloads, pendingConfigs, pendingUsers, saved, systemProxy, pendingSystem,
                   ctlVars, tdVars, envVars>>

\* The health timer's callback: a proxy that does not answer starts a failover,
\* unless the ping was canceled.
HealthPinged(t) ==
    /\ PingReturned(t, "health")
    /\ proxies' = PingHealth(proxies, tasks[t])
    /\ \/ /\ tasks[t].res \in {"ok", "canceled"}
          /\ tasks' = [tasks EXCEPT ![t] = Idle]
          /\ UNCHANGED <<status, failoverRunning>>
       \/ /\ tasks[t].res \notin {"ok", "canceled"}
          /\ SwitchToNextProxy(t)
    /\ UNCHANGED <<payloads, pendingConfigs, pendingUsers, saved, systemProxy, pendingSystem,
                   autoFailover, readyForFailover, healthTimer, tdVars, envVars>>

\* Mutant: nothing is enabled when every ping failed.
SetupPinged_NoLastResort ==
    LET me == tasks[SetupTask]
    IN  /\ PingReturned(SetupTask, "setup")
        /\ proxies' = PingHealth(proxies, me)
        /\ \/ /\ me.res = "ok" /\ SendEnable(SetupTask, me.id)
              /\ UNCHANGED status
           \/ /\ me.res # "ok" /\ me.left # {}
              /\ PingNext(SetupTask, me)
              /\ UNCHANGED <<status, queue>>
           \/ /\ me.res # "ok" /\ me.left = {}
              /\ status' = "error"
              /\ tasks' = [tasks EXCEPT ![SetupTask] =
                               [Idle EXCEPT !.kind = "setup", !.pc = "users"]]
              /\ UNCHANGED queue
        /\ UNCHANGED <<payloads, pendingConfigs, pendingUsers, saved, systemProxy, pendingSystem,
                       autoFailover, readyForFailover, failoverRunning, healthTimer, td,
                       orphans, envVars>>

\* _enableFirstAvailable after a ping: enable the first that answers; when no direct
\* proxy does, try the system proxy, and enable the first direct one as a last resort.
SetupPinged ==
    LET me == tasks[SetupTask]
        systems == {i \in DOMAIN proxies : IsSystemLike(proxies[i])}
    IN  /\ PingReturned(SetupTask, "setup") \/ PingReturned(SetupTask, "setupSystem")
        /\ proxies' = PingHealth(proxies, me)
        /\ \/ me.res = "ok" /\ SendEnable(SetupTask, me.id)
           \/ /\ me.res # "ok" /\ me.left # {}
              /\ PingNext(SetupTask, me)
              /\ UNCHANGED queue
           \/ /\ me.res # "ok" /\ me.left = {} /\ me.kind = "setup" /\ systems # {}
              /\ \E i \in systems :
                    /\ \A k \in systems : i <= k
                    /\ tasks' = [tasks EXCEPT ![SetupTask] =
                           PingFields([me EXCEPT !.kind = "setupSystem", !.retries = Retries],
                                      proxies[i].id)]
              /\ UNCHANGED queue
           \/ /\ me.res # "ok" /\ me.left = {} /\ (me.kind = "setupSystem" \/ systems = {})
              /\ SendEnable(SetupTask, me.first)
        /\ UNCHANGED <<payloads, pendingConfigs, pendingUsers, saved, systemProxy, pendingSystem,
                       ctlVars, td, orphans, envVars>>

-----------------------------------------------------------------------------
(* _enableProxy returns                                                    *)

EnabledProxies(rec) ==
    IF rec.res = "ok" THEN SetChecking(SetActive(proxies, rec.id), rec.id, FALSE) ELSE proxies

EnabledStatus(rec) == IF rec.res = "ok" THEN "active" ELSE "error"

\* Mutant: the lock is released only when the switch succeeded (no finally).
FailoverEnabled_NoFinally(t) ==
    /\ Resuming(t, "failover", "enable")
    /\ proxies' = EnabledProxies(tasks[t])
    /\ status' = EnabledStatus(tasks[t])
    /\ failoverRunning' = (tasks[t].res # "ok")
    /\ tasks' = [tasks EXCEPT ![t] = Idle]
    /\ UNCHANGED <<payloads, pendingConfigs, pendingUsers, saved, systemProxy, pendingSystem,
                   autoFailover, readyForFailover, healthTimer, tdVars, envVars>>

FailoverEnabled(t) ==
    /\ Resuming(t, "failover", "enable")
    /\ proxies' = EnabledProxies(tasks[t])
    /\ status' = EnabledStatus(tasks[t])
    /\ failoverRunning' = FALSE
    /\ tasks' = [tasks EXCEPT ![t] = Idle]
    /\ UNCHANGED <<payloads, pendingConfigs, pendingUsers, saved, systemProxy, pendingSystem,
                   autoFailover, readyForFailover, healthTimer, tdVars, envVars>>

ActivateEnabled(t) ==
    /\ Resuming(t, "activate", "enable")
    /\ proxies' = EnabledProxies(tasks[t])
    /\ status' = EnabledStatus(tasks[t])
    /\ tasks' = [tasks EXCEPT ![t] = Idle]
    /\ UNCHANGED <<payloads, pendingConfigs, pendingUsers, saved, systemProxy, pendingSystem,
                   autoFailover, readyForFailover, failoverRunning, healthTimer, tdVars, envVars>>

SetupEnabled ==
    /\ Resuming(SetupTask, "setup", "enable") \/ Resuming(SetupTask, "setupSystem", "enable")
    /\ proxies' = EnabledProxies(tasks[SetupTask])
    /\ status' = EnabledStatus(tasks[SetupTask])
    /\ SetupEpilogue(EnabledProxies(tasks[SetupTask]), EnabledStatus(tasks[SetupTask]))
    /\ UNCHANGED <<payloads, pendingConfigs, pendingUsers, saved, systemProxy, pendingSystem,
                   autoFailover, failoverRunning, tdVars, envVars>>

-----------------------------------------------------------------------------
(* Timers of the waits                                                     *)

Min2(a, b) == IF a < b THEN a ELSE b

\* Mutant: the wait of pingProxy has no timeout while a failover holds the lock.
PingTimeout_NotInFailover(t) ==
    /\ Quiet /\ tasks[t].pc = "ping" /\ tasks[t].kind # "failover"
    /\ tasks' = [tasks EXCEPT ![t].res = "timeout"]
    /\ orphans' = [orphans EXCEPT ![tasks[t].id] = Min2(@ + 1, MaxOrphans)]
    /\ UNCHANGED <<regVars, ctlVars, td, queue, envVars>>

\* The ping that t gives up on stays outstanding.
PingTimeout(t) ==
    /\ Quiet /\ tasks[t].pc = "ping"
    /\ tasks' = [tasks EXCEPT ![t].res = "timeout"]
    /\ orphans' = [orphans EXCEPT ![tasks[t].id] = Min2(@ + 1, MaxOrphans)]
    /\ UNCHANGED <<regVars, ctlVars, td, queue, envVars>>

\* Mutant: the wait for the list of stored proxies has no timeout.
ControlTimeout_NotList(t) ==
    /\ Quiet /\ tasks[t].pc \in {"enable", "disable", "remove"}
    /\ tasks' = [tasks EXCEPT ![t].res = "timeout"]
    /\ late' = TRUE
    /\ UNCHANGED <<regVars, ctlVars, tdVars, initialized, setups, crossed>>

\* Mutant: the wait of _enableProxy has no timeout.
ControlTimeout_NotEnable(t) ==
    /\ Quiet /\ tasks[t].pc \in {"disable", "list", "remove"}
    /\ tasks' = [tasks EXCEPT ![t].res = "timeout"]
    /\ late' = TRUE
    /\ UNCHANGED <<regVars, ctlVars, tdVars, initialized, setups, crossed>>

\* The fresh @extra of disableProxy and removeProxy is forgotten with the wait.
ControlTimeout(t) ==
    /\ Quiet /\ tasks[t].pc \in {"enable", "disable", "list", "remove"}
    /\ tasks' = [tasks EXCEPT ![t].res = "timeout"]
    /\ queue' = [i \in DOMAIN queue |->
                    IF queue[i].op \in {"disable", "remove"} /\ tasks[t].pc # "enable"
                    THEN [queue[i] EXCEPT !.live = FALSE] ELSE queue[i]]
    /\ late' = TRUE
    /\ UNCHANGED <<regVars, ctlVars, td, orphans, initialized, setups, crossed>>

-----------------------------------------------------------------------------
(* TDLib answers (external)                                                *)

\* Every task that waits for this @extra resumes with res.
Resolve(W, res, stale) ==
    [t \in Tasks |->
        IF t \in W THEN [tasks[t] EXCEPT !.res = res, !.stale = (stale /\ res = "ok")]
        ELSE tasks[t]]

PingWaiters(id) == {t \in Tasks : tasks[t].pc = "ping" /\ tasks[t].id = id}

\* The answer to the ping that t waits for; others that ping the same id take it too.
PingReply(t, res) ==
    LET W == PingWaiters(tasks[t].id)
    IN  /\ Quiet /\ tasks[t].pc = "ping"
        /\ tasks' = Resolve(W, res, FALSE)
        /\ orphans' = [orphans EXCEPT ![tasks[t].id] =
                          Min2(@ + Cardinality(W \ {t}), MaxOrphans)]
        /\ UNCHANGED <<regVars, ctlVars, td, queue, envVars>>

\* The answer to an older ping, whose caller has given up or has been served already.
LatePingReply(id, res) ==
    LET W == PingWaiters(id)
    IN  /\ Quiet /\ orphans[id] > 0
        /\ tasks' = Resolve(W, res, TRUE)
        /\ orphans' = [orphans EXCEPT ![id] = Min2(@ - 1 + Cardinality(W), MaxOrphans)]
        /\ UNCHANGED <<regVars, ctlVars, td, queue, envVars>>

Head1 == queue[1]
Answering(op) == queue # <<>> /\ Head1.op = op /\ queue' = Tail(queue)

DisableAnswer ==
    /\ Quiet /\ Answering("disable")
    /\ td' = [td EXCEPT !.enabled = 0]
    /\ tasks' = IF Head1.live /\ tasks[SetupTask].pc = "disable"
                THEN Resolve({SetupTask}, "ok", FALSE) ELSE tasks
    /\ UNCHANGED <<regVars, ctlVars, orphans, envVars>>

ListAnswer ==
    /\ Quiet /\ Answering("list")
    /\ tasks' = IF tasks[SetupTask].pc = "list"
                THEN [tasks EXCEPT ![SetupTask].res = "ok",
                                   ![SetupTask].left =
                                       {[rank |-> id, id |-> id] :
                                           id \in {i \in Ids : td.server[i] # NoServer}}]
                ELSE tasks
    /\ UNCHANGED <<regVars, ctlVars, td, orphans, envVars>>

RemoveAnswer ==
    LET id == Head1.id
    IN  /\ Quiet /\ Answering("remove")
        /\ td' = [td EXCEPT !.server = [@ EXCEPT ![id] = NoServer],
                            !.enabled = IF @ = id THEN 0 ELSE @]
        /\ tasks' = IF Head1.live /\ tasks[SetupTask].pc = "remove"
                    THEN Resolve({SetupTask},
                                 IF td.server[id] = NoServer THEN "error" ELSE "ok", FALSE)
                    ELSE tasks
        /\ UNCHANGED <<regVars, ctlVars, orphans, envVars>>

\* q still holds an enableProxy of id.
EnableQueued(q, id) == \E i \in DOMAIN q : q[i].op = "enable" /\ q[i].id = id

EnableAnswer ==
    LET id == Head1.id
        W  == {t \in Tasks : tasks[t].pc = "enable" /\ tasks[t].id = id}
        known == td.server[id] # NoServer
    IN  /\ Quiet /\ Answering("enable")
        /\ td' = IF known THEN [td EXCEPT !.enabled = id] ELSE td
        /\ tasks' = Resolve(W, IF known THEN "ok" ELSE "error", FALSE)
        /\ crossed' = (crossed \/ EnableQueued(queue', id))
        /\ UNCHANGED <<regVars, ctlVars, orphans, initialized, setups, late>>

\* addProxy is refused: _handleProxyError forgets a pending config, not a user config.
AddRefused ==
    /\ Answering("add")
    /\ Head1.cfg.server \in Rejected
    /\ pendingConfigs' = pendingConfigs \ {Head1.cfg.name}
    /\ UNCHANGED <<proxies, payloads, pendingUsers, saved, systemProxy, pendingSystem,
                   ctlVars, tasks, td, orphans, envVars>>

\* Mutant: an answer takes the oldest pending user config whatever its name.
RegisterAddedProxy_AnyName(id, cfg) ==
    LET server == IF pendingUsers # <<>> THEN pendingUsers[1].server ELSE cfg.server
    IN  /\ payloads' = [payloads EXCEPT ![id] = server]
        /\ proxies' = Append(proxies, [id |-> id, name |-> cfg.name, active |-> FALSE,
                                       checking |-> FALSE])
        /\ pendingUsers' = IF pendingUsers # <<>> THEN Tail(pendingUsers) ELSE pendingUsers
        /\ UNCHANGED pendingConfigs

\* _registerAddedProxy for the id TDLib answered with.
RegisterAddedProxy(id, cfg) ==
    LET isUser == {i \in DOMAIN pendingUsers : pendingUsers[i].name = cfg.name}
        Entered(server) ==
            /\ payloads' = IF server = NoServer THEN payloads ELSE [payloads EXCEPT ![id] = server]
            /\ proxies' = Append(proxies, [id |-> id, name |-> cfg.name, active |-> FALSE,
                                           checking |-> FALSE])
    IN  \/ /\ cfg.name \in {System, Transport}
           /\ Entered(IF pendingSystem \/ systemProxy THEN SystemServer ELSE NoServer)
           /\ UNCHANGED <<pendingUsers, pendingConfigs>>
        \/ /\ cfg.name \notin {System, Transport}
           /\ \E i \in isUser :
                 /\ \A k \in isUser : i <= k
                 /\ Entered(pendingUsers[i].server)
                 /\ pendingUsers' = RemoveIndex(pendingUsers, i)
           /\ UNCHANGED pendingConfigs
        \/ /\ cfg.name \notin {System, Transport} /\ isUser = {}
           /\ \E i \in DOMAIN MTProto :
                 /\ MTProto[i].name = cfg.name
                 /\ cfg.name \in pendingConfigs
                 /\ Entered(MTProto[i].server)
           /\ pendingConfigs' = pendingConfigs \ {cfg.name}
           /\ UNCHANGED pendingUsers
        \/ /\ cfg.name \notin {System, Transport} /\ isUser = {}
           /\ cfg.name \notin pendingConfigs
           /\ UNCHANGED <<proxies, payloads, pendingUsers, pendingConfigs>>

\* A server that TDLib already has keeps its id.
AddAnswer ==
    LET server == Head1.cfg.server
    IN  /\ Answering("add")
        /\ server \notin Rejected
        /\ \/ \E id \in Ids :
                 /\ td.server[id] = server
                 /\ td' = td
                 /\ RegisterAddedProxy(id, Head1.cfg)
           \/ /\ \A id \in Ids : td.server[id] # server
              /\ td.next \in Ids
              /\ td' = [td EXCEPT !.server = [@ EXCEPT ![td.next] = server], !.next = @ + 1]
              /\ RegisterAddedProxy(td.next, Head1.cfg)
        /\ UNCHANGED <<saved, systemProxy, pendingSystem, ctlVars, tasks, orphans, envVars>>

-----------------------------------------------------------------------------
(* Calls from the rest of the application                                  *)

\* updateConnectionState with connectionStateWaitingForNetwork.
HandleConnectionState(t) ==
    /\ Free(t)
    /\ autoFailover /\ readyForFailover /\ ~failoverRunning /\ status # "switching"
    /\ SwitchToNextProxy(t)
    /\ UNCHANGED <<regVars, autoFailover, readyForFailover, healthTimer, tdVars, envVars>>

\* A tick of the health timer.
HealthTick(t) ==
    /\ Quiet /\ Free(t)
    /\ healthTimer /\ autoFailover /\ ~failoverRunning
    /\ \E i \in ActiveIndices(proxies) :
          /\ \A k \in ActiveIndices(proxies) : i <= k
          /\ tasks' = [tasks EXCEPT ![t] =
                 PingFields([Idle EXCEPT !.kind = "health", !.retries = Retries],
                            proxies[i].id)]
    /\ UNCHANGED <<regVars, ctlVars, tdVars, envVars>>

\* The settings screen: "next proxy".
NextProxyPressed(t) ==
    /\ Quiet /\ Free(t) /\ initialized /\ "next" \in UI
    /\ SwitchToNextProxy(t)
    /\ UNCHANGED <<regVars, autoFailover, readyForFailover, healthTimer, tdVars, envVars>>

ActivateProxy(t) ==
    /\ Quiet /\ Free(t) /\ initialized /\ "activate" \in UI
    /\ \E i \in DOMAIN proxies :
          /\ proxies' = SetChecking(proxies, proxies[i].id, TRUE)
          /\ tasks' = [tasks EXCEPT ![t] =
                 PingFields([Idle EXCEPT !.kind = "activate", !.retries = Retries],
                            proxies[i].id)]
    /\ status' = "switching"
    /\ UNCHANGED <<payloads, pendingConfigs, pendingUsers, saved, systemProxy, pendingSystem,
                   autoFailover, readyForFailover, failoverRunning, healthTimer, tdVars, envVars>>

TestProxy(t) ==
    /\ Quiet /\ Free(t) /\ initialized /\ "test" \in UI
    /\ \E i \in DOMAIN proxies :
          /\ proxies' = SetChecking(proxies, proxies[i].id, TRUE)
          /\ tasks' = [tasks EXCEPT ![t] =
                 PingFields([Idle EXCEPT !.kind = "test", !.retries = Retries],
                            proxies[i].id)]
    /\ UNCHANGED <<payloads, pendingConfigs, pendingUsers, saved, systemProxy, pendingSystem,
                   ctlVars, tdVars, envVars>>

\* Mutant: the config becomes pending only when the preferences have been read.
AddUserProxy_NotPending(t) ==
    /\ Quiet /\ Free(t) /\ initialized /\ "add" \in UI
    /\ Len(queue) < MaxQueue /\ Len(pendingUsers) + Len(proxies) < MaxEntries
    /\ \E u \in UserConfigs :
          tasks' = [tasks EXCEPT ![t] =
              [Idle EXCEPT !.kind = "addUser", !.pc = "prefs", !.cfg = u]]
    /\ UNCHANGED <<regVars, ctlVars, tdVars, envVars>>

\* addUserProxy: pending first, sent when the preferences have been written.
AddUserProxy(t) ==
    /\ Quiet /\ Free(t) /\ initialized /\ "add" \in UI
    /\ Len(queue) < MaxQueue /\ Len(pendingUsers) + Len(proxies) < MaxEntries
    /\ \E u \in UserConfigs :
          /\ pendingUsers' = Append(pendingUsers, u)
          /\ tasks' = [tasks EXCEPT ![t] =
                 [Idle EXCEPT !.kind = "addUser", !.pc = "prefs", !.cfg = u]]
    /\ UNCHANGED <<proxies, payloads, pendingConfigs, saved, systemProxy, pendingSystem,
                   ctlVars, tdVars, envVars>>

\* The preferences hold each server once.
UserProxySaved(t) ==
    LET u == tasks[t].cfg
        same == {i \in DOMAIN saved : saved[i].server = u.server}
    IN  /\ Quiet /\ tasks[t].pc = "prefs"
        /\ \/ same = {} /\ saved' = Append(saved, u)
           \/ \E i \in same : saved' = Append(RemoveIndex(saved, i), u)
        /\ queue' = Append(queue, AddReq(u))
        /\ tasks' = [tasks EXCEPT ![t] = Idle]
        /\ UNCHANGED <<proxies, payloads, pendingConfigs, pendingUsers, systemProxy,
                       pendingSystem, ctlVars, td, orphans, envVars>>

SetAutoFailoverEnabled ==
    /\ Quiet /\ initialized /\ "auto" \in UI
    /\ autoFailover' = ~autoFailover
    /\ UNCHANGED <<regVars, status, readyForFailover, failoverRunning, healthTimer, tasks,
                   tdVars, envVars>>

\* AuthManager.initialize goes on to a logged-in session (external to this module):
\* it accepts a setup that left a proxy registered, and never repeats it afterwards.
AuthReady ==
    /\ UI # {} /\ Quiet /\ ~initialized /\ setups > 0
    /\ tasks[SetupTask].pc = "idle" /\ proxies # <<>>
    /\ initialized' = TRUE
    /\ UNCHANGED <<regVars, ctlVars, tasks, tdVars, setups, late, crossed>>

-----------------------------------------------------------------------------
Init ==
    /\ proxies = <<>> /\ payloads = [id \in Ids |-> NoServer]
    /\ pendingConfigs = {} /\ pendingUsers = <<>> /\ saved = SavedConfigs
    /\ systemProxy = FALSE /\ pendingSystem = FALSE
    /\ status = "unknown" /\ autoFailover \in BOOLEAN  \* what isAutoFailoverEnabled will return
    /\ readyForFailover = FALSE /\ failoverRunning = FALSE /\ healthTimer = FALSE
    /\ tasks = [t \in Tasks |-> Idle]
    /\ td = [server |-> [id \in Ids |-> IF id = 1 THEN Leftover ELSE NoServer],
             enabled |-> IF Leftover = NoServer THEN 0 ELSE 1,
             next |-> IF Leftover = NoServer THEN 1 ELSE 2]
    /\ queue = <<>> /\ orphans = [id \in Ids |-> 0]
    /\ initialized = FALSE /\ setups = 0 /\ late = FALSE /\ crossed = FALSE

Setup ==
    \/ SetupProxies \/ PurgeList \/ PurgeRemove \/ RegisterConfigs
    \/ RegistrationDone \/ RegistrationTimeout \/ EnableFirstAvailable
    \/ SetupPinged \/ SetupEnabled \/ RegisterSavedUserProxies

Resume(t) ==
    \/ PingCanceled(t) \/ FailoverPinged(t) \/ ActivatePinged(t) \/ TestPinged(t)
    \/ HealthPinged(t) \/ FailoverEnabled(t) \/ ActivateEnabled(t)

Timers(t) == PingAgain(t) \/ PingTimeout(t) \/ ControlTimeout(t) \/ UserProxySaved(t)

Answers ==
    \/ DisableAnswer \/ ListAnswer \/ RemoveAnswer \/ EnableAnswer
    \/ AddRefused \/ AddAnswer

PingAnswers ==
    \E res \in {"ok", "error", "canceled"} :
        \/ \E t \in Tasks : PingReply(t, res)
        \/ \E id \in Ids : LatePingReply(id, res)

Calls(t) ==
    \/ HandleConnectionState(t) \/ HealthTick(t) \/ NextProxyPressed(t)
    \/ ActivateProxy(t) \/ TestProxy(t) \/ AddUserProxy(t)

Next ==
    \/ Setup
    \/ \E t \in Tasks : Resume(t) \/ Timers(t)
    \/ Answers \/ PingAnswers
    \/ \E t \in Workers : Calls(t)
    \/ SetAutoFailoverEnabled \/ AuthReady

Spec == Init /\ [][Next]_vars

\* A continuation runs as soon as the event loop is free; a timer that is due fires even
\* if other events keep the loop busy.  TDLib is not assumed to answer anything.
SetupResumes == PurgeList \/ PurgeRemove \/ SetupPinged \/ SetupEnabled

SetupWakes ==
    \/ RegisterConfigs \/ RegistrationDone \/ RegistrationTimeout
    \/ EnableFirstAvailable \/ RegisterSavedUserProxies

Fairness ==
    /\ WF_vars(SetupResumes) /\ SF_vars(SetupWakes)
    /\ \A t \in Tasks :
          /\ WF_vars(Resume(t))
          /\ SF_vars(PingAgain(t) \/ PingTimeout(t) \/ ControlTimeout(t))

FairSpec == Spec /\ Fairness

-----------------------------------------------------------------------------
(* Properties                                                              *)

RegType ==
    /\ proxies \in Seq(Entry)
    /\ payloads \in [Ids -> STRING]
    /\ pendingConfigs \subseteq {MTProto[i].name : i \in DOMAIN MTProto}
    /\ pendingUsers \in Seq(Config) /\ saved \in Seq(Config)
    /\ systemProxy \in BOOLEAN /\ pendingSystem \in BOOLEAN

CtlType ==
    /\ status \in Status /\ autoFailover \in BOOLEAN
    /\ readyForFailover \in BOOLEAN /\ failoverRunning \in BOOLEAN /\ healthTimer \in BOOLEAN

TdType ==
    /\ td \in [server : [Ids -> STRING], enabled : 0 .. MaxId, next : 1 .. MaxId + 1]
    /\ queue \in Seq(Request)
    /\ orphans \in [Ids -> 0 .. MaxOrphans]

EnvType ==
    /\ initialized \in BOOLEAN /\ setups \in 0 .. MaxSetups
    /\ late \in BOOLEAN /\ crossed \in BOOLEAN

\* Every variable keeps its type: the retry counters, the outstanding pings and the ids
\* stay within their ranges whatever the order of the steps.
TypeOK == RegType /\ CtlType /\ tasks \in [Tasks -> Task] /\ TdType /\ EnvType

InFlight(kind) == {t \in Tasks : tasks[t].kind = kind}

\* status "switching" is always owned by a failover or an activation that is still in
\* flight and will replace it: the guard of _handleConnectionState that ignores network
\* losses while switching cannot stay shut for ever.
SwitchingHasOwner ==
    status = "switching" => InFlight("failover") \cup InFlight("activate") # {}

\* _failoverRunning is held by a failover in flight, so it cannot be left set.
LockHasHolder == failoverRunning => InFlight("failover") # {}

\* Until setupProxies is entered a second time, _failoverRunning keeps failovers apart:
\* the network-loss handler, the health timer and the user never run two at once.
FailoverExclusive ==
    setups <= 1 => \A s, t \in InFlight("failover") : s = t

AtRest == queue = <<>> /\ \A t \in Tasks : tasks[t].pc = "idle"

ShownIsEnabled == \A i \in ActiveIndices(proxies) : proxies[i].id = td.enabled

\* The proxy shown as active is the one TDLib sends its traffic through, whatever number of
\* switches, activations and health checks were in flight together: when nothing is pending,
\* until setupProxies is entered a second time, if no wait of _enableProxy or of the set-up
\* timed out and none was ended by the answer to another request with its @extra.
Agreement ==
    AtRest /\ hasActiveProxy /\ setups <= 1 /\ ~late /\ ~crossed => ShownIsEnabled

\* docs/PROXY.md: the proxy that the health checks watch, the active one, is the proxy that
\* enableProxy activated, when nothing is pending and every answer came in time.
ActiveIsEnabled == AtRest /\ hasActiveProxy /\ ~late => ShownIsEnabled

\* An entry shown as being checked is awaited by a test or an activation.
CheckingHasOwner ==
    \A i \in DOMAIN proxies :
        proxies[i].checking =>
            \E t \in InFlight("test") \cup InFlight("activate") : tasks[t].id = proxies[i].id

SameName(c, d) == c.name = d.name \/ {c.name, d.name} \subseteq {System, Transport}

\* The config that an answer to addProxy is matched with has the name of the config that was
\* sent, whatever refusals, repeated set-ups and clashes of names came before: a ping of an
\* id goes to a namesake of the server that enableProxy of that id would use, so to that
\* server where names are distinct.
PingsNamesake ==
    \A id \in Ids :
        payloads[id] # NoServer /\ td.server[id] # NoServer =>
            \E c, d \in Configs \cup {SystemConfig} :
                SameName(c, d) /\ c.server = payloads[id] /\ d.server = td.server[id]

\* The comment on _proxyPayloadsById: the payload kept for an id is the TDLib proxy of that
\* id, so a ping of it goes to the server that enableProxy would use.
PingsWhatItEnables ==
    \A id \in Ids :
        payloads[id] # NoServer /\ td.server[id] # NoServer => payloads[id] = td.server[id]

\* The comments on _pendingSystemProxy: the answer to addProxy finds the snapshot of the OS
\* proxy although setupProxies was entered again, so every entry can be pinged.
EntriesPingable == \A i \in DOMAIN proxies : payloads[proxies[i].id] # NoServer

\* A user proxy that is in the preferences, and that TDLib accepts, is in the list when
\* nothing is pending: the answer to its addProxy has found its config, whatever other
\* answers of that name came before it.
SavedRegistered ==
    AtRest /\ setups > 0 =>
        \A i \in DOMAIN saved :
            saved[i].server \notin Rejected =>
                \E j \in DOMAIN proxies : td.server[proxies[j].id] = saved[i].server

\* Once setupProxies is over TDLib does not connect directly, unless nothing was
\* registered or an answer was late.
NoDirectConnection ==
    setups > 0 /\ tasks[SetupTask].pc = "idle" /\ ~late /\ proxies # <<>> => td.enabled # 0

\* The comment on switchToNextProxy: it switches only if the ping of the next proxy succeeds,
\* so not on the answer to an older ping.
FailoverPingIsFresh ==
    \A t \in InFlight("failover") : tasks[t].pc = "enable" => ~tasks[t].stale

\* setupProxies returns, even if TDLib answers nothing: AuthManager awaits it.
SetupFinishes == tasks[SetupTask].pc # "idle" ~> tasks[SetupTask].pc = "idle"

\* A switch ends, by success or by giving up: status does not stay "switching", where
\* network losses are ignored, and the failover lock is released.
SwitchingEnds == status = "switching" ~> status # "switching"
LockReleased == failoverRunning ~> ~failoverRunning

=============================================================================
