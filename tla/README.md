# RioGram in TLA+

RioGram is a Flutter client of Telegram. It talks to TDLib, which is vendored under
`td/`, over JSON: `send` puts a request with an `@extra` of the client's choosing into
TDLib, and a polling loop delivers answers and updates to the handlers of every manager.
The client's own code is Dart, under `lib/`; a small Go relay (`server/wss-proxy`) and
two JavaScript hooks (`web/js`) carry the browser build's WebSockets.

This directory holds TLA+ models of the parts of the program where the order of events
decides whether it works. In the Dart code: which proxy carries the traffic, and how the
start-up and the login advance. In the TDLib that the repository carries and builds: the
key-value store that everything else is saved in, the calls between two users, and the
dispatcher that keeps the requests of a chat in order. Each model is translated from the
source; `PROJECT.json` maps every definition to its lines.

## The system's parts

| Part | State | Operations | Interacts with |
|---|---|---|---|
| `ProxyManager` (`lib/core/proxy/proxy_manager.dart`) | registered entries, ping payloads, pending configs, status, failover lock, health timer | `setupProxies`, `switchToNextProxy`, `activateProxy`, `testProxy`, `addUserProxy`, health tick, connection-state handler | TDLib (`addProxy`, `enableProxy`, `pingProxy`, ...), `AuthManager` awaits `setupProxies`, settings screen |
| `AuthManager` (`lib/core/auth/auth_manager.dart`) | phase, request in progress, its 45 s timer, initialized | `initialize`, `submitPhoneNumber`, `submitCode`, `submitPassword`, ..., `logOut`, update handler | TDLib authorization states, `ProxyManager`, `WebProxyManager`, the application's router |
| `TdlibClient` (`lib/core/tdlib/tdlib_client_native.dart`, `_web.dart`) | broadcast stream, client id, poll timer, the first authorization update | `ensureClient`, `send`, `waitFor`, poll | every manager |
| `WebProxyManager` (`lib/core/proxy/web_proxy_manager.dart`), `web/js/*hook.js` | chosen WSS relay, reconnect attempts | `setup`, `applyConfig`, `disable`, reconnect | service worker, `tdlib_bridge.js` |
| WSS relay (`server/wss-proxy/*.go`) | open tunnels | upgrade, two copying loops, ping loop | browsers, Telegram data centres |
| `AccountManager`, `SessionManager`, `PhoneChangeManager` (`lib/core/auth`) | stored accounts, active sessions, code of a phone change | add, switch, remove; terminate; send and check code | preferences, TDLib |
| `AppLockManager` (`lib/core/security`) | PIN hash, locked, failed attempts | lock, unlock, set and clear PIN, resume | preferences, biometrics |
| `CallManager`, `GroupCallManager`, media engine (`lib/core/call`) | active call, its state, timers | create, accept, discard, signaling | TDLib `updateCall`, WebRTC |
| `ChatManager` (`lib/core/chat/chat_manager.dart`) and the other list managers (search, stories, contacts, profile, stickers, bots, notifications) | chat lists, messages, drafts, files | open, load, send, edit, delete, update handlers | TDLib, the screens |
| Preferences stores, theme, locale, plugins, parsers | small values | load, save, parse | the managers |
| Screens and widgets (`lib/screens`, `lib/widgets`) | view state | build, taps | the managers |
| TDLib's key-value store: `BinlogKeyValue`, `ConcurrentBinlog`, `BinlogActor`, `Binlog` (`td/tddb`) | map, sequence numbers, events in flight, buffer, file, sync promises and timer | `set`, `erase`, `lazy_sync`, `force_sync`, `change_key`, `close_and_destroy`, `do_reindex`, `init` | every part of TDLib that saves something, from several threads; the file system |
| TDLib's calls: `CallActor`, `CallManager` (`td/td/telegram`) | state of the actor, what is shown, configurations, timer, postponed updates | create, accept, discard, rate; results, updates, time-outs, yields | server, `updateCall` to RioGram's `CallManager` |
| TDLib's `MultiSequenceDispatcher` and `ChainScheduler` | tasks on chains, generations, active counts | `send`, `on_result`, `on_resend`; create, start, pause, reset, finish a task | sessions and delayer of network queries, the managers' callbacks |
| The rest of TDLib (`td/`) | the Telegram client library, vendored | | |

### What is hard

* **One event loop, many pending calls.** Dart code is interrupted only at `await`, but
  a network-loss update, a health tick and a tap each start a call of the same method,
  and their continuations interleave. What keeps them apart is a Boolean field.
* **Correlation by `@extra`.** `waitFor` resolves every waiter whose predicate accepts
  an answer. Where the code's `@extra` is fixed (`ping_<id>`, `enableProxy_<id>`), a late
  answer to an older request is taken for the new one's.
* **Timeouts race answers.** Every wait of `ProxyManager` gives up after a while; the
  request it gave up on is still going to be applied.
* **Re-entry.** `AuthManager.initialize` can be run again after it failed, and runs
  `setupProxies` again while continuations of the first are in flight.
* **Restart.** TDLib keeps its proxies, and which one is enabled, over a restart of
  the application.
* **Crashes between two system calls.** The store appends, flushes, syncs, writes a
  second file, unlinks and renames; a crash may come between any two of them, and a power
  loss also takes what was flushed and not synced.
* **Threads before an actor.** The store's map is changed under a lock, the events are
  sent after it has been released, and arrive in another order.
* **Late answers in a protocol of two.** Answer and update of one event come in either
  order, after a time-out, after hanging up, before the id of the call is known.
* **Bookkeeping by hand.** The chain scheduler counts active tasks, remembers who found a
  chain full and numbers generations; one omission and a chat stops sending, or sends in
  vain.

`PROJECT.json` lists the hazards, each at its line, with the properties that would catch
it.

## Modules

* **`ProxyManager.tla`** is the state machine of `proxy_manager.dart`, together with the
  TDLib side of its requests.
* **`MCProxyManager.tla`** instantiates it for TLC; the `MCProxy*.cfg` files are its runs.
* **`ProxyManagerProofs.tla`** holds the proofs of type correctness and of the failover lock,
  **`ProxyEntryProofs.tla`** those about the entries and their servers,
  **`ProxyPhaseProofs.tla`** those about what `setupProxies` leaves behind.
* **`AuthManager.tla`** is the state machine of `auth_manager.dart`, with the part of
  TDLib it talks to; the `MCAuth*.cfg` files are its runs. **`AuthManagerProofs.tla`** has
  its proofs.
* **`DurableMap.tla`** says what the key-value store promises: a map whose recent versions
  may be lost by a restart, never one that was acknowledged, and never a mixture.
* **`Binlog.tla`** is the store: the clients' side (`BinlogKeyValue`, `BinlogInterface`),
  the `BinlogActor` and `Binlog` with its two files. `MCBinlog.tla` gives its constants
  values. It implements `DurableMap` (`DurableSpec`). **`BinlogProofs.tla`** proves what the
  events of a file mean and the store's invariants, **`BinlogDurableProofs.tla`** the
  refinement.
* **`CallActor.tla`** composes the two `CallActor`s of a call with a server;
  **`CallActorProofs.tla`** proves its invariants.
* **`ChainScheduler.tla`** has the scheduler's methods as operators on its state;
  **`SequenceDispatcher.tla`** extends it with the dispatcher, the network and the server.
  `MCSequenceDispatcher.tla` gives the constants values, **`SequenceDispatcherProofs.tla`**
  proves every property.

### How ProxyManager corresponds to the code

An action is the code between two awaits. The public methods, the handler of connection
states and the callback of the health timer are *tasks*: a slot of `tasks` records what
the call is doing (`kind`), where it stopped (`pc`), the proxy it asked about and what is
left of the list it iterates over. `setupProxies` has a slot of its own, since
`AuthManager` runs one at a time; the others take a slot of `Workers`.

A wait ends by an answer (`...Answer`, `PingReply`, `LatePingReply`) or by its timer
(`PingTimeout`, `ControlTimeout`), either of which puts the result into the task; the
continuation (`...Pinged`, `...Enabled`, `Purge...`) runs afterwards. Dart runs
continuations before the next event, so timers, taps and awaited answers are guarded by
`Quiet`. TDLib's messages arrive in batches, and the rest of a batch reaches its handlers
before a continuation that an earlier message woke, so the messages that wake no task are
not guarded.

TDLib handles `addProxy`, `enableProxy`, `disableProxy`, `removeProxy` and `getProxies` in
the order it was sent them (`queue`), and applies a request when it answers it: the
effects are those of `ConnectionCreator.cpp` (an address that is known keeps its id, a
removed proxy that was enabled is disabled). Pings are answered in any order, with
success, an error or "Canceled", or never. `Leftover` is the proxy that an earlier run
left enabled in TDLib's database.

Names, addresses and secrets are abstracted to a name and a server; latency, log output
and the wording of errors are left out. Of `ProxyHealth` only "checking" is told apart.
`handleConnectionIssue` has no caller and is not an action. TDLib is taken to answer at
any time after a request. The TDLib in `td/` holds these requests back until it has its
parameters, and `AuthManager.initialize` calls `setupProxies` before it sends them (the
finding of `auth_starts_up`): the results about `ProxyManager` are results about the
manager with a TDLib that has its parameters.

### How AuthManager corresponds to the code

`initialize()` is one call at a time (`_isInitializing`), so its place is a variable, `pc`:
waiting for the client, for `setupProxies`, for the directories, for the parameters stage
or for an interactive state. `got` is what the wait has returned; the continuation
(`ParamsStage`, `Awaited`) runs before the next timer or tap. `Deliver` is one message of
the polling loop: `_handleUpdate` first, since it subscribed first, then the wait.
`Submit(q)` stands for the seven requests of the login forms, which share their guard
(the phase, no request in progress) and `_beginAuthRequest`. `phase` is `_phase`, named
after TDLib's state that it shows.

TDLib is its authorization state, the query it is executing and the sign-ins it has given
up, whose success is an authorization all the same (`TdLateResult`; of two given up of one
kind it knows one): it handles requests in order, refuses those that its state does not allow, gives up a running query when a new
one starts (with the error the code calls benign) and moves on its own when another
device confirms a QR code or terminates the session. `Restored` are the states it may
find in its database. `Faults` chooses which unpleasant events a run contains: refused
parameters, log-outs, fatal errors of the browser worker, after which it neither handles
nor says anything (`TdFatal`, `TdGone`; a closed native client still answers with an error),
and the server's demand for a payment, a state the client does not know. In the browser there is no `ProxyManager`,
and the client is handed over with its first update. The question for the state that
`_applyTdlibParametersWhenReady` asks when it knows none is left out, since both clients
have sent a state by then. Error texts, the phone number, the QR link and the terms of
service are abstracted away; `resendAuthenticationCode` has no caller;
`resetWebStorageAndInitialize` is in the plan.

### How Binlog corresponds to the code

A client's action is what one call does under the lock of the map, and the messages it
sends; `mail` is what the actor has not handled. The actor handles one message at a time;
`pc` is where it is, since a crash may come between its system calls. `AddRawEvent` puts
an event with the `OrderedEventsProcessor`, `Drain` processes the next one that is due,
`Settle` is the end of `add_raw_event`. `OpenNew`, `WriteNew`, `UnlinkPath` and `RenameNew`
are `do_reindex`; `Open` is `init` with `load_binlog`. A promise is the sequence number up
to which it covers the events. `timer` has the three flags and whether the timer is armed;
the times (1 ms, 3 ms, 30 s) are not told apart, so that it may expire at any time.

A file is the sequence of its events and the number of them that are safe from a power
loss. A crash leaves a prefix of what was written, at least what is safe (`"power"`) or at
least what was flushed (`"kill"`), and may leave a part of the next event. Operations on
the directory are durable and in order, and `sync_barrier` is taken to sync. Sizes are
counted in events: `ReindexRules`, `FlushLimit` and `CompactMin` are the thresholds of the
code, scaled down. A file has the key of its first event; the cipher, salts and checksums
are left out. The events buffer is switched off in the source, and no event of the store
is `Partial`. `versions` and `acked` are history: the maps since the last start, and the
newest that a kept promise covers. They are what `DurableMap` sees.

When the second file cannot be opened (`OpenNewFails`), `change_key` keeps the old file
with the old key and its promise is set all the same; `KeyInForce` is checked without that
fault.

### How CallActor corresponds to the code

An actor is a record of the fields that decide what it does; every handler is an operator
from actor to actor (`OnError`, `UpdateAccepted`, `TrySendConfirmQuery`, `Loop`, ...), and
an action applies one. `send` collects the queries a handler sends, which `Became` puts on
the net. `yield()` is a message to itself: `Yielded` is the `loop` that follows. `ok` is
cleared where the code would meet `UNREACHABLE` or a failed `CHECK`. `shown` is the type in
the last `updateCall`. `ReceiveUpdate` is `CallManager::update_call`: it makes the callee's
actor and keeps the updates of a call whose id is not known yet.

The server (external) serves queries in any order, answers and pushes updates, ends calls
that nobody takes, and refuses what does not fit the state of the call. `Failures` are the
queries that may fail all the same; `LateConfig` and `LateDh` are the parties that have to
wait for the configuration of calls and for the Diffie-Hellman parameters, `Forgets` those
that the server may tell that it knows no such call (`ServerForgets`, modelled while the
party's call goes on and nothing else is on its way to it). A request that is canceled is answered with an error at once and may still reach the
server. Key exchange, protocols and reasons are abstracted; signaling, debug data, logs and
the upgrade to a group call, which RioGram does not use, are left out. When `discardCall`
of a call in progress fails, this side is over and the other is not told. `Failures` also
has two faults: `"access"`, the user cannot be reached any more when the request is made
(`RequestRefused`), and `"keys"`, the other side's key or fingerprint fails its checks
(`KeyRefused`). Queries fail by themselves when they
have been delayed for too long (`QueryFails`).

### How ChainScheduler and SequenceDispatcher correspond to the code

The scheduler's state is a record; its methods are operators with the order of the code's
loops, which decides who is started first. `try_start_task` calls itself for the successors
of a task that starts; here the calls that are due are a list (`Call`, `TryStartTasks`),
with the successors put in front of the rest, as the recursion would. `Calls` is how many
there can be. A chain that becomes empty is erased, and a new
one starts at generation 1. A query names a chain once, since `NetQuery` makes its chains
unique (`DispatcherAssumption`; `NetQuery.cpp:52`). The dispatcher's handlers change nodes and scheduler and end,
where the code's do, in `loop()`, which sends what has been started with the attempts of
its predecessors. `place` says who holds the query: its node, the network or its callback.
Flood waits are two flags: a query brings one back (`flood`), its dependents owe it
(`owed`); which of them have then waited too long is chosen freely. All queries have the
same constructor, and one without a callback behaves as one whose callback gives up at once.

The network and the server are external: a query is executed when all it comes after were
executed (`Execute`), fails when one of those has failed (`WaitFails`), is refused
or cancelled, whatever became of those before it (`Refuse`), or is lost or delayed
(`Retry`): one that comes after others is then given back, the others are sent again under a
new number (`NetQueryDelayer`, `Session`). The answer of an executed query is not lost, and a
cancelled query is taken not to be executed afterwards.

Three details of the network are simplified. `Session::connection_send_query` also gives a
query back when one it comes after has been answered already, so that its message id is gone
(`Session.cpp:1135`, `917`); here that is one of the bounded faults (`Retry`). After a loss
`Session::resend_query` (`Session.cpp:1105`) may send a query again itself, under the present
ids of those before it, without the dispatcher's knowledge; here it is always given back. With
such a step every resending by the session may cost the query one attempt in vain more than
`NoBusyLoop` counts, since the scheduler still has it in an older generation; the other
properties are not affected. And `try_resend` without a callback finishes the task in the same
handler; here that is a step of its own (`OnResend`), with others in between.

## Runs

Bounds: `MaxId` proxies known to TDLib, `MaxSetups` calls of `setupProxies`, `MaxQueue`
requests by which TDLib may lag when a task starts, `MaxOrphans` unanswered pings per
proxy, `MaxEntries` entries before the user adds no more, `Retries` of a cancelled ping.
Two direct proxies and one system proxy are enough for "the next candidate", "the last
candidate" and "the system proxy comes last" to differ; two worker slots, for two calls
to interleave; one outstanding request, for a late answer to meet a newer request; two
setups, for a re-entry.

| Run | What it shows |
|---|---|
| `proxy_failover` | Two tasks interleave: at most one failover at a time (`FailoverExclusive`), the lock always has a holder (`LockHasHolder`), status "switching" an owner (`SwitchingHasOwner`), and the proxy shown as active is the one TDLib uses (`Agreement`), unless an answer came too late or ended the wait of another request. |
| `proxy_late` | `setupProxies` is entered again while answers of the first call are outstanding, with a saved user proxy that both register; then the user adds proxies, two of the same name, one of which TDLib refuses. An answer is matched with a config of the name that was sent, so that a ping goes to a namesake of what would be enabled (`PingsNamesake`), and every saved proxy that TDLib accepts is in the list once nothing is pending (`SavedRegistered`). |
| `proxy_live` | From start-up, with an OS proxy and a proxy left over from an earlier run, one task at a time. When start-up ends TDLib is not connecting directly (`NoDirectConnection`); an entry being checked has someone who will settle it (`CheckingHasOwner`). Under fairness `setupProxies` returns (`SetupFinishes`), a switch ends (`SwitchingEnds`) and the lock is released (`LockReleased`), although TDLib may answer nothing at all, or cancel a ping and its repetition. |
| `proxy_reentry` | A disagreement between `ProxyManager` and its comments; see below. |
| `auth_live` | Both builds, every fault: when TDLib's messages have been delivered, the screen is the one of TDLib's state (`ScreenIsCurrent`), whatever timed out, was retried or came late. Under fairness a form does not stay disabled (`RequestEnds`), `initialize()` returns (`InitializeEnds`) and the spinner gives way to a screen or an error with a button, unless a retry has asked a TDLib that gives no usable answer (`SpinnerEnds`), whatever the server does. |
| `auth_starts_up` | A disagreement between the code and its plan; see below. |
| `binlog_power` | Two threads, two keys, two values, forced syncs and a destruction, with power losses and second files that cannot be opened. The store implements `DurableMap` (`DurableSpec`): what comes back is one of its maps, no older than the last one acknowledged. The processor never refuses an event (`NeverFatal`), what would be written to a second file is the clients' map (`LogIsMap`), and a promise always has a timer (`PromiseHasTimer`). |
| `binlog_keys` | Encryption, a change of key, also to none, lazy and forced syncs, flushes, closing and opening again, with a process that is killed: the file in use has the key in force (`KeyInForce`) and nothing acknowledged is lost (`NothingAckedIsLost`). |
| `binlog_live` | Under fairness every promise of a sync is kept unless the store is closed (`PromisesKept`), each by itself, whatever the clients go on asking for. |
| `binlog_unsynced` | Changes of key with power losses; see below. |
| `call_actor` | One call in all its interleavings, with a request that may fail, a user who cannot be reached any more, keys that fail their checks, a server that denies knowing the call and a configuration that comes late: no check fails (`ChecksHold`), what is shown never goes back (`ShownForward`), a call is shown as ready only when both sides and the server have agreed (`ReadyIsAgreed`), no wake-up is lost but one (`OnlyRefusalSleeps`) and the end of the call reaches both (`EndReaches`). |
| `sequence_chains` | Three queries, each on one or both of two chains, at most two of them active: the server executes them in order and once (`InOrder`), the counts are right (`ActiveCounted`), whoever may start has started (`NoStartMissed`), nobody sends in vain for ever (`NoBusyLoop`), not all wait for each other (`NoStall`), and no check fails (`ChecksHold`). |

The bounds of `AuthManager` are `MaxRequests` requests that TDLib has not handled and
`MaxInbox` messages that have not been polled. Two requests are a request that timed out
and the one after it; two messages, the error of the older one and a state that follows.
`ScreenIsCurrent` was also checked with three messages, and is proved for any number.

Of `Binlog`: `MaxSeq` sequence numbers, beyond which only an erasure of several keys goes,
`MaxMail` messages per client. Two clients with one message each are the two orders in
which events can arrive; three numbers, an addition, its rewriting and an erasure, or two
additions and the erasure of both; the thresholds are such that the file is written anew
within them. The first file grows past `MaxSeq` events only if the second can be
opened.

`CallActor` needs no bound but that of `ServerForgets`: the call is finite. In `call_actor` the
configuration of calls comes late to the callee only, the Diffie-Hellman parameters to the
caller only (the caller's request can be refused inside `loop()` only after it has waited for
them), and the server forgets the caller's call. The properties are proved for every choice.

Of `ChainScheduler` and `SequenceDispatcher`: `MaxTasks` queries, `MaxActive` active tasks
of a chain (10 in the code), `MaxAttempts` attempts at a query after which the network makes
no more faults. With two active tasks and three queries a chain gets full, and with two
chains a task can be held back on one and be free on the other. The same properties were
checked with one active task and three attempts, and with four queries and one attempt.

Fairness: a continuation that is ready runs (weak fairness of the resumptions), and a
timer that is due fires although other events keep the loop busy (strong fairness, since
`Quiet` disables it while a continuation is pending). Both are what Dart's event loop
guarantees. No fairness is assumed of TDLib's answers to `ProxyManager`.
In `AuthManager` TDLib is assumed to start and to handle requests, which it does locally;
nothing is assumed of Telegram's servers (`TdResult`, `TdMoves`) or of the user, except
in `auth_starts_up`, whose user retries (`RetrySpec`).
In `Binlog` the actor goes on with what it is doing (weak fairness); it handles the messages
of every client, and its timer fires, although others keep it busy (strong fairness: both are
disabled while a message is handled; the mailbox is one queue, and the scheduler runs expired
timers between messages). Clients need not do anything. Of `CallActor` and `SequenceDispatcher` only
safety properties are stated: that someone can always go on (`OnlyRefusalSleeps`, `NoStall`,
`NoStartMissed`) and that retries are bounded (`NoBusyLoop`); the rest is up to a server of
which the code guarantees nothing.

Deadlock is checked except where the modelled system may stop: a call that is over, queries
that are all done, a login whose retry was sent to a worker that is dead, a proxy list with
no more room for additions.

## What the runs found

* `auth_starts_up`: the native build awaits `setupProxies` before `setTdlibParameters`,
  and TDLib answers the former only after the latter. No proxy is registered, so
  `initialize()` throws, and retrying does the same again.
* `binlog_unsynced`: `do_reindex` syncs the second file only if the first has a size, and
  clears `need_sync_` in any case. If the key is changed while the first events of a new
  store are still in the buffer, the second file holds them unsynced, and the sync that
  keeps their promises syncs nothing. A power loss then takes acknowledged events.
* `proxy_reentry`: a field is documented as a snapshot of the OS proxy that survives a
  re-entry of `setupProxies` (`proxy_manager.dart:80`); the re-entry clears it (line 93), and an answer to
  `addProxy` that comes afterwards leaves an entry that can never be pinged.

### Known deviations

These hold of the code too. They were found with the same modules, are not among the runs,
and can be seen with the constants given.

* `SavedRegistered` with no MTProto proxy and `HasSystem = FALSE`: `setupProxies` returns
  before `_registerSavedUserProxies` (line 147), so a proxy that the user saved in an earlier
  run is not registered, though it could be the only way out.
* `Agreement` after a re-entry (without `setups <= 1`, with `MaxSetups = 2`): the second
  `setupProxies` starts from a purge while continuations of the first still enable and mark
  proxies.
* A retry that asks TDLib for its state and gets no usable answer (`SaysNothing`, the exception
  in `SpinnerEnds`): `initialize()` marks itself as done although TDLib refused its parameters
  (`auth_manager.dart:145`), the worker died, was closed, or waits for something the client has
  no screen for. The retry (lines 90-95) sets the spinner, sends `getAuthorizationState` and
  has no timeout; the answer has no case or does not come, and the spinner stays.
* `ActiveIsEnabled` with the constants of `proxy_failover`: `_enableProxy` waits for a fixed
  `@extra` per proxy (`proxy_manager.dart:730`), so one answer ends the waits of two requests
  for one proxy; the second is executed by TDLib later, after another proxy was enabled and
  shown. The proxy that is shown, and that the health checks watch, is then not the one in use.
  `Agreement` is what remains: it is true until a request is `crossed` in this way.
* `FailoverPingIsFresh` with the constants of `proxy_failover`: `switchToNextProxy` says it
  switches only if the ping succeeds (line 397); the late answer to an older ping of that
  proxy is taken for the new one's (line 464).
* `PingsWhatItEnables` with the constants of `proxy_late`: a refused `addProxy` leaves its
  config pending, and the next proxy of that name, which is free text
  (`settings_screen.dart:480`), takes it (line 557): it is pinged at the address of the
  refused one. `PingsNamesake` is what remains.
* `NoLostWakeup` with `Failures = {"access"}`, `LateDh = {"caller"}`: `try_send_request_query` meets its error inside
  `loop()` (`CallActor.cpp:732`), where nothing yields afterwards: the call is neither shown
  as failed nor closed. `discard_call` returns at once in that state (line 293), so that only
  a late configuration of calls would wake the actor. `OnlyRefusalSleeps` says that this is
  the only such place.
* `ScreenIsServed` with `Faults = {"logOut"}`: after a log-out the phone screen is shown
  for a client that is closed (`auth_manager.dart:503`). `onLoggedOut` is there to deal with
  it, and the application passes none.

## What is proved

`TypeCorrect` (`ProxyManagerProofs.tla`): `Spec => []TypeOK` for every configuration,
every finite set of workers and all bounds. The type invariant is inductive as it stands;
its content is that the retry counter never passes zero, that outstanding pings and ids
stay in range and that an answer is always about an id of TDLib's. The assumptions are
those `ProxyManager.tla` names (`ConfigAssumption`, `BoundAssumption`) and that four
string literals are strings (`LiteralAssumption`), which TLC evaluates on every run.

The same module proves for the same generality that the failover lock always has a
holder (`LockIsHeld`), that status "switching" has an owner (`SwitchingIsOwned`) and that
failovers exclude each other until `setupProxies` is re-entered (`FailoversExclude`). None
of the three is inductive alone. The invariant `LockInv` is their conjunction with three
facts: the kind of a task agrees with its place (`KindOK`), nothing can run before the
first `setupProxies` (`Untouched`), and until a re-entry a failover in flight holds the
lock (`HolderHasLock`), which is what makes the guard of `switchToNextProxy` exclude the
others. Its proof has one step per group of actions; `KeepKinds`, `NeutralTask` and
`FailoverEnds` are the three ways a step can treat the lock.

`ProxyEntryProofs.tla`: `_registerAddedProxy` finds the payload of an answer by its name, and
whatever was refused, entered twice or has the same name, it finds one of the name that was
sent: a ping measures a namesake of what would be enabled (`PingsMeasureANamesake`, without any
condition). A spinner has someone who will end it (`CheckingIsOwned`), if no config has the
name of the OS proxy (`ProperNames`) and until `setupProxies` is re-entered (`setups <= 1`).
The invariant `Registry` follows a configuration through the requests, TDLib's table, the
payloads and the entries; `CheckInv` adds that only the first entry of an id is ever marked.

A saved user proxy is in the list when nothing is pending (`SavedAreRegistered`), over any
number of re-entries. This needs two more conditions, that `.env` and the user have no name in
common (`OwnNames`) and that there is a proxy to set up (`SomeProxy`). `SavedInv` has two parts.
`Enough` counts, for each name, the pending configurations against the requests and the calls
of `addUserProxy` whose answers will look for one: since `addUserProxy` makes its
configuration pending before it awaits the preferences, none of them can come short, although a
refused request leaves its configuration behind. `Kept` says that, once `setupProxies` has
returned, a saved proxy is in the list and no removal is queued, or its `addProxy` is queued
and no removal after it: the requests of a purge that was given up are always ahead of those
that register.

`ProxyPhaseProofs.tla`: until `setupProxies` is re-entered TDLib goes through a proxy
(`AProxyIsEnabled`) and the one shown as active is the one it uses (`ShownProxyIsEnabled`),
for any number of tasks, as long as no answer was late or, in the second, ended the wait of
another request (`crossed`). `PhaseInv` says for each phase of `setupProxies` which
requests can be queued, in which order, and what TDLib will have enabled after them:
`disableProxy` is sent by the purge alone, and every `enableProxy` behind it names a proxy
TDLib knows. For `Agreement` the invariant adds that every request in the queue has a task
that waits for it, and that the proxy marked active is the last one that was enabled and has
been answered.

`AuthManagerProofs.tla`: the types, and `ScreenIsAlwaysCurrent`, in both builds and with every
fault. The invariant `ScreenInv` is about the messages that are on their way: from some point
on, which is the screen itself or a message that shows the present state, no message says
anything else. With an empty inbox that is `ScreenIsCurrent`.

`CallActorProofs.tla` proves every safety property of `CallActor`, for every choice of
`Failures`, `LateConfig`, `LateDh` and `Forgets`: no check fails (`ChecksAlwaysHold`), a ready call is
agreed (`ReadyIsAlwaysAgreed`), no wake-up is lost but the one under "Known deviations"
(`OnlyARefusalSleeps`), the end of a call
reaches both (`EndAlwaysReaches`), what is shown moves forward (`ShownMovesForward`) and all
keeps its type (`TypeCorrect`). There is one lemma per handler, which says what it does to an
actor: it stays `Sound` and goes only where `Moved` allows, and after `loop()` it has nothing
left to do that it does not wait for (`Rested`). The invariant `CallInv` says so of both
actors, and relates them to the queries in the net, to the server and to the updates on their
way (`InboxOK`): once the call is discarded the last of them says so. That `discard_call`
cannot meet an ended call needs, for instance, that a call whose type is an ended one is in a
discarding state.

`Binlog` is proved for any number of threads, keys, values and encryption keys, every choice
of requests and faults and all thresholds.

* The first part of `BinlogProofs.tla` is about the files alone. `Rep(p, m)` says that a processor stands
  for a map; an addition, a rewriting, an erasure and the forgetting of erased events keep
  it, and the log `do_reindex` writes leads back to it (`ReindexKeepsMap`). What a file means
  is a recursive function over its events (`Load`, `Live`); the induction that needs is done
  on sets of numbers (`LeastNatural`, `NatSetInduction`), with `After` and `UpTo` as the
  functions' values.
* Its second part has the invariant `Inv` and, from it, `TypeCorrect`, `NeverDies`,
  `LogIsAlwaysMap` and `PromiseAlwaysHasTimer`, none of which has a condition. None is
  inductive: that an event finds the id it rewrites depends on all events before it, in
  the mail of other threads too. `OrderOK` says that every sequence number between the
  processor and the clients is on its way exactly once; `Chain(h)` that there are maps `h`
  between the processor's and the clients', one event apart, each of them a version;
  `DiskOK` that the log (`Stands`) leads to the processor's map and loads wherever it is cut
  off, at each place of `do_reindex`.
* `BinlogDurableProofs.tla` adds `DurInv`: cut off anywhere beyond what a crash cannot take,
  the log leads to one of the versions from the last acknowledged one to the processor's
  (`SavedOK`), `need_sync_` is set whenever something can be lost (`SyncOK`), and a file that
  is to be written anew is not empty (`SizeOK`). Then every step of the store is one of
  `DurableMap`, or is not seen (`StoreIsDurable`), and nothing acknowledged is lost
  (`AckedIsNeverLost`). Both assume `PowerOrKey`, that power losses and encryption keys or
  changes of the key are not combined: with both, `binlog_unsynced` is the counterexample. `KeyIsAlwaysInForce`
  assumes that the second file can be opened (`"open" \notin Faults`): if it cannot, the file
  keeps the old key until the next attempt.

`SequenceDispatcherProofs.tla` proves every property of `SequenceDispatcher`, for any number
of queries, any finite set of chains, all routes over them, every limit of active tasks and
any number of faults of the network (`TypeCorrect`, `ChecksAlwaysHold`, `ActiveIsCounted`,
`NoStartIsMissed`, `NoneIsSentInVain`, `NothingStalls`, `ExecutedInOrder`). None is inductive;
all follow from `DispInv` (`DispatcherInvariant`).

* `SchedInv(s, W, A)` is about the scheduler. Chains list their tasks in order (`Listed`),
  counts count (`Counted`), and the tasks started in the present generation of a chain are
  the first of it and active (`Gens`). Whoever is pending is behind another task or is the
  one its full chain remembers, unless it is in `W`, the tasks still to be tried (`Waits`). A
  chain remembers only one: that is enough because those behind it were not started either,
  and a task that starts has its successors tried. A task was never tried more often than
  one before it on a chain, and less often if its generation is older (`Efforts`).
* A call of `try_start_task` takes a task from `W` and keeps `SchedInv`: it starts, and puts
  its successors into `W`, or it is held back (`CallStarts`, `CallHolds`). `Size`, the calls
  that are due and the chains of all that are pending, goes down with every call, so that
  after `Calls` of them `W` is empty (`RunKeeps`). Each method is a change of a task's place
  (`Back`, `Gone`, `Entered`) after which those that may start are in `W`. The proof does not
  need that `inactivate_task` tries the first task of the chain, only the one remembered; and
  pausing a task that is only pending starts nothing (`PauseKeeps`), so that the order in which
  `on_result` checks the time-outs of several queries does not matter.
* `MidInv` relates the scheduler to the queries: who holds them (`PlaceOK`), what became of
  them (`ResultOK`), what they come after (`AfterOK`, `Covered`). `NoBusyLoop` comes down to
  this: a query that was sent `MaxAttempts` times is sent again only after one it came after,
  which `Efforts` says has then been tried more often, and has a smaller number. For `NoStall`
  the least active task is the one that can go on, or the least task, if none is active.

Only model-checked: the liveness properties (the prover has no fairness or ENABLED
reasoning). Every invariant and action property of the passing runs is stated by a theorem,
under the conditions given above.

## What is not modelled, and the plan

Not modelled: screens and widgets (presentation), parsers, preference stores other than
the saved proxies, theme and locale (pure data), the platform plugins and the media engine
(external libraries), and most of TDLib. By lines the repository is TDLib, of which SQLite
and the managers of messages, users and stickers are the largest part: SQLite is
third-party code, the managers are for the most part caches of the server's objects. The
models are of a small share of all lines, and of the parts whose order of events matters.

In this order:

1. RioGram's `CallManager` on top of `CallActor`: `updateCall` of a second call, delayed
   clearing, media that starts after the call has ended.
2. `WebProxyManager` with the JavaScript bridge: the application of a relay configuration
   while another is under way, reconnects and their cap, the creation of a client that
   times out and is retried, `resetWebStorageAndInitialize`.
3. The WSS relay: two copying loops and a ping loop per tunnel; that one end's failure
   closes both. An abstract tunnel that it implements.
4. TDLib's `UpdatesManager`: updates with gaps in `pts`, their postponement and
   `getDifference`; `Session` and `NetQueryDelayer`, now the environment of
   `SequenceDispatcher`.
5. `AppLockManager`, `AccountManager`: attempts and lock-outs; a crash between the writes
   of an account switch.
6. Request correlation and paging of `ChatManager` and `SearchManager`.
