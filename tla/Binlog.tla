------------------------------- MODULE Binlog -------------------------------
(***************************************************************************)
(* td/tddb: the key-value store in which TDLib keeps the session's keys,   *)
(* options and unfinished work.  BinlogKeyValue holds the map; every       *)
(* change takes a sequence number under its lock and is sent to the        *)
(* BinlogActor, which puts the events in order, appends them to Binlog's   *)
(* buffer, and flushes and syncs the file on its timer.  When the file has *)
(* grown too large, or its key changes, Binlog writes the live events to a *)
(* second file and puts that in the place of the first.                    *)
(*                                                                         *)
(* A file is the sequence of events written to it and the number of them   *)
(* that a power loss cannot take.  All sizes count events.  Directory      *)
(* operations take effect in order and are not lost.                       *)
(***************************************************************************)
EXTENDS Naturals, Sequences, SequencesExt, FiniteSetsExt

CONSTANTS
    Clients,        \* threads that use the store
    Keys, Values,   \* its entries
    DbKeys,         \* encryption keys other than the empty one
    Requests,       \* what the clients ask for besides changes
    Faults,         \* "kill": the process dies; "power": so does the machine; "open": the
                    \* second file cannot be opened
    FlushLimit,     \* size of the buffer above which add_event flushes it
    ReindexRules,   \* the <<min_size, rate>> pairs of need_reindex
    CompactMin,     \* number of events above which the processor forgets erased ones
    MaxSeq,         \* bound on sequence numbers
    MaxMail         \* bound on messages of a client that the actor has not handled

None == "none"

ASSUME BinlogAssumption ==
    /\ Clients # {} /\ Keys # {} /\ Values # {} /\ None \notin Keys \cup Values \cup DbKeys
    /\ IsFiniteSet(Keys)
    /\ Faults \subseteq {"kill", "power", "open"}
    /\ Requests \subseteq {"lazySync", "forceSync", "forceFlush", "changeKey", "close", "destroy"}
    /\ {FlushLimit, CompactMin, MaxSeq, MaxMail} \subseteq Nat
    /\ ReindexRules \subseteq Nat \X (Nat \ {0})
    /\ \A r \in ReindexRules : r[1] >= FlushLimit

VARIABLES
    map,       \* BinlogKeyValue::map_: value and event id of every key
    nextSeq,   \* ConcurrentBinlog::last_event_id_, the next sequence number
    up,        \* the store may be used
    mail,      \* messages of each client that the actor has not handled
    begin,     \* OrderedEventsProcessor::begin_
    held,      \* its data_array_: events that have come, not processed
    waiting,   \* immediate_sync_promises_
    promises,  \* sync_promises_; a promise is the sequence number it covers
    timer,     \* the actor's flags, and whether its timer is armed
    proc,      \* BinlogEventsProcessor
    buf,       \* events appended to buffer_writer_ and not flushed
    fdSize,    \* fd_size_
    needSync,  \* need_sync_
    dbKey,     \* db_key_
    disk,      \* the files path and path.new
    pc,        \* what the actor is doing
    versions,  \* history: the maps since the store was opened, one per sequence number
    acked      \* history: the newest of them that a promise has said is saved

clientVars == <<map, nextSeq, up, versions>>
orderVars == <<begin, held, waiting>>
logVars == <<proc, buf, fdSize, needSync, disk>>
vars == <<clientVars, mail, orderVars, promises, timer, logVars, dbKey, pc, acked>>

-----------------------------------------------------------------------------
(* Events and the events processor                                         *)

Put(id, rw, k, v) == [type |-> "put", id |-> id, rw |-> rw, key |-> k, val |-> v]
Erase(id) == [type |-> "empty", id |-> id, rw |-> TRUE, key |-> None, val |-> None]
Encryption(k) == [type |-> "aes", id |-> 0, rw |-> FALSE, key |-> k, val |-> None]

\* The known ids with their events, the last id that was added, and whether all went well.
NewProcessor == [events |-> <<>>, last |-> 0, ok |-> TRUE]
Erased == Erase(0)

Compactify(p) ==
    LET empty == {i \in DOMAIN p.events : p.events[i] = Erased}
        total == Cardinality(DOMAIN p.events)
    IN  IF total > CompactMin /\ Cardinality(empty) * 4 > total * 3
        THEN [p EXCEPT !.events = Restrict(@, DOMAIN @ \ empty)]
        ELSE p

\* Mutant: the flag in the stored event is not enough to tell an addition from a rewriting.
ProcessEvent_RewriteOnly(p, e) ==
    LET known == e.id \in DOMAIN p.events /\ p.events[e.id] # Erased
        new == IF e.type = "empty" THEN Erased ELSE e
    IN  CASE e.rw /\ ~known -> [p EXCEPT !.ok = FALSE]
          [] e.rw /\ known -> Compactify([p EXCEPT !.events[e.id] = new])
          [] ~e.rw /\ e.type # "put" -> p
          [] OTHER -> [p EXCEPT !.events = @ @@ (e.id :> e), !.last = e.id]

\* BinlogEventsProcessor::do_event.  An event rewritten since keeps its Rewrite flag in the
\* second file, where it is the first of its id: there the flag is ignored.
ProcessEvent(p, e) ==
    LET ids == DOMAIN p.events
        passed == ids # {} /\ Max(ids) >= e.id
        known == e.id \in ids /\ p.events[e.id] # Erased
        new == IF e.type = "empty" THEN Erased ELSE e
    IN  IF e.rw /\ passed
        THEN IF known THEN Compactify([p EXCEPT !.events[e.id] = new]) ELSE [p EXCEPT !.ok = FALSE]
        ELSE CASE e.type # "put" -> Compactify(p)
               [] e.type = "put" /\ passed -> [p EXCEPT !.ok = FALSE]
               [] OTHER -> Compactify([p EXCEPT !.last = e.id,
                               !.events = [i \in ids \cup {e.id} |-> IF i = e.id THEN e ELSE p.events[i]]])

\* for_each: the live events, in the order of their ids.
Live(p) ==
    LET upTo[n \in 0 .. p.last] ==
            IF n = 0 THEN <<>>
            ELSE IF n \in DOMAIN p.events /\ p.events[n] # Erased
                 THEN Append(upTo[n - 1], p.events[n]) ELSE upTo[n - 1]
    IN  upTo[p.last]

Load(log) ==
    LET after[n \in 0 .. Len(log)] ==
            IF n = 0 THEN NewProcessor ELSE ProcessEvent(after[n - 1], log[n])
    IN  after[Len(log)]

\* BinlogKeyValue::init: what the callback makes of the events.
NoEntry == [val |-> None, id |-> 0]
MapOf(p) ==
    [k \in Keys |->
        LET mine == {i \in DOMAIN p.events : p.events[i].key = k}
        IN  IF mine = {} THEN NoEntry ELSE [val |-> p.events[Max(mine)].val, id |-> Max(mine)]]

Content(m) == [k \in Keys |-> m[k].val]

-----------------------------------------------------------------------------
(* Files                                                                   *)

NoFile == [there |-> FALSE, log |-> <<>>, safe |-> 0, torn |-> FALSE]
NewFile == [there |-> TRUE, log |-> <<>>, safe |-> 0, torn |-> FALSE]
FileKey(log) == IF log # <<>> /\ log[1].type = "aes" THEN log[1].key ELSE None

\* The file that Binlog::init opens: path.new takes the place of a missing path.
Opened(d) == IF d.path.there THEN d.path ELSE d.new
Recovered(d) == Content(MapOf(Load(Opened(d).log)))

\* What may be left of a file: a prefix of what was written and, if the machine goes down,
\* not all that was not synced.  The event after it may be left in part.
Remains(f, unwritten) ==
    LET all == f.log \o unwritten
        least == IF "power" \in Faults THEN f.safe ELSE Len(f.log)
    IN  IF ~f.there THEN {NoFile}
        ELSE {[there |-> TRUE, log |-> SubSeq(all, 1, n), safe |-> n, torn |-> t] :
                  n \in least .. Len(all), t \in {FALSE, FileKey(all) # None /\ Len(all) > least}}

Flushed(f, b) == [f EXCEPT !.log = @ \o b]
Synced(f) == [f EXCEPT !.safe = Len(f.log)]

-----------------------------------------------------------------------------
Idle == [force |-> FALSE, lazy |-> FALSE, flush |-> FALSE, armed |-> FALSE]
Highest == IF held = {} THEN begin - 1 ELSE Max({m.seq : m \in held})

Init ==
    /\ map = [k \in Keys |-> NoEntry] /\ nextSeq = 1 /\ up = FALSE
    /\ mail = [c \in Clients |-> <<>>]
    /\ begin = 1 /\ held = {} /\ waiting = {} /\ promises = {} /\ timer = Idle
    /\ proc = NewProcessor /\ buf = <<>> /\ fdSize = 0 /\ needSync = FALSE
    /\ dbKey = None
    /\ disk = [path |-> NoFile, new |-> NoFile]
    /\ pc = [at |-> "down", then |-> "down"]
    /\ versions = <<Content(map)>> /\ acked = 1

At(l) == pc.at = l
Goto(l) == pc' = [at |-> l, then |-> "idle"]

\* The version a sequence number leads to.
Version(s) == IF s < nextSeq THEN Len(versions) - (nextSeq - 1 - s) ELSE Len(versions)

\* The actor is gone and a fresh one starts from what is on the disk.
StopWith(d) ==
    /\ disk' = d
    /\ versions' = <<Recovered(d)>> /\ acked' = 1
    /\ up' = FALSE /\ mail' = [c \in Clients |-> <<>>]
    /\ held' = {} /\ waiting' = {} /\ promises' = {} /\ timer' = Idle
    /\ buf' = <<>> /\ needSync' = FALSE /\ Goto("down")
    /\ map' = [k \in Keys |-> NoEntry] /\ proc' = NewProcessor /\ dbKey' = None
    /\ nextSeq' = 1 /\ begin' = 1 /\ fdSize' = 0

\* The process dies, in the middle of a flush perhaps.
Crash ==
    /\ Faults \cap {"kill", "power"} # {} /\ ~At("down")
    /\ \E p \in Remains(disk.path, IF At("idle") \/ At("drain") THEN buf ELSE <<>>),
          n \in Remains(disk.new, IF At("reindex") THEN buf ELSE <<>>) :
          StopWith([path |-> p, new |-> n])

-----------------------------------------------------------------------------
(* BinlogKeyValue and BinlogInterface: the clients                         *)

\* Bounds: a call that makes several events may go beyond them.
Room(c) == up /\ Len(mail[c]) < MaxMail /\ nextSeq <= MaxSeq
Post(c, ms) == mail' = [mail EXCEPT ![c] = @ \o ms]
Event(s, e, promise) == [kind |-> "event", seq |-> s, ev |-> e, promise |-> promise]
NoEvent == Erase(0)

\* Mutant: the sequence number is read and not taken.
Set_SameSeq(c, k, v) ==
    /\ Room(c) /\ map[k].val # v
    /\ LET rw == map[k].id # 0
           id == IF rw THEN map[k].id ELSE nextSeq
       IN  /\ map' = [map EXCEPT ![k] = [val |-> v, id |-> id]]
           /\ Post(c, <<Event(nextSeq, Put(id, rw, k, v), FALSE)>>)
    /\ versions' = Append(versions, Content(map'))
    /\ UNCHANGED <<nextSeq, up, orderVars, promises, timer, logVars, dbKey, pc, acked>>

\* set: a key that is there keeps its event id.
Set(c, k, v) ==
    /\ Room(c) /\ map[k].val # v
    /\ LET rw == map[k].id # 0
           id == IF rw THEN map[k].id ELSE nextSeq
       IN  /\ map' = [map EXCEPT ![k] = [val |-> v, id |-> id]]
           /\ Post(c, <<Event(nextSeq, Put(id, rw, k, v), FALSE)>>)
    /\ versions' = Append(versions, Content(map'))
    /\ nextSeq' = nextSeq + 1
    /\ UNCHANGED <<up, orderVars, promises, timer, logVars, dbKey, pc, acked>>

\* erase, erase_batch and erase_by_prefix, the keys in some order.
EraseKeys(c, ks) ==
    LET n == Len(ks)
        without(i) == [k \in Keys |-> IF \E j \in 1 .. i : ks[j] = k THEN NoEntry ELSE map[k]]
    IN  /\ Room(c) /\ \A i \in 1 .. n : map[ks[i]] # NoEntry
        /\ map' = without(n)
        /\ Post(c, [i \in 1 .. n |-> Event(nextSeq + i - 1, Erase(map[ks[i]].id), FALSE)])
        /\ versions' = versions \o [i \in 1 .. n |-> Content(without(i))]
        /\ nextSeq' = nextSeq + n
        /\ UNCHANGED <<up, orderVars, promises, timer, logVars, dbKey, pc, acked>>

\* lazy_sync: a sequence number without an event.
LazySync(c) ==
    /\ Room(c) /\ "lazySync" \in Requests
    /\ Post(c, <<Event(nextSeq, NoEvent, TRUE)>>)
    /\ versions' = Append(versions, Content(map))
    /\ nextSeq' = nextSeq + 1
    /\ UNCHANGED <<map, up, orderVars, promises, timer, logVars, dbKey, pc, acked>>

Ask(c, kind, k) ==
    /\ up /\ Len(mail[c]) < MaxMail /\ kind \in Requests
    /\ Post(c, <<[kind |-> kind, key |-> k]>>)
    /\ up' = (kind \notin {"close", "destroy"})
    /\ UNCHANGED <<map, nextSeq, versions, orderVars, promises, timer, logVars, dbKey, pc, acked>>

ForceSync(c) == Ask(c, "forceSync", None)
ForceFlush(c) == Ask(c, "forceFlush", None)
ChangeKey(c, k) == Ask(c, "changeKey", k)
Close(c) == Ask(c, "close", None)
CloseAndDestroy(c) == Ask(c, "destroy", None)

-----------------------------------------------------------------------------
(* BinlogActor                                                             *)

\* Mutant: the flag is set and the timer is left alone.
DoImmediateSync_NoTimer(t) == [t EXCEPT !.force = TRUE]

\* wakeup_after keeps an earlier time; what matters is that the timer is armed.
DoImmediateSync(t) == [t EXCEPT !.force = TRUE, !.armed = TRUE]

DoLazySync(t) == IF t.lazy \/ t.force THEN t ELSE [t EXCEPT !.lazy = TRUE, !.armed = TRUE]

\* try_flush: the buffer is flushed now or, if the last flush was less than 1 ms ago, later.
TryFlush(t) ==
    \/ /\ disk' = [disk EXCEPT !.path = Flushed(@, buf)]
       /\ needSync' = (needSync \/ buf # <<>>)
       /\ buf' = <<>> /\ timer' = t
    \/ /\ buf # <<>>
       /\ timer' = IF t.force THEN t ELSE [t EXCEPT !.flush = TRUE, !.armed = TRUE]
       /\ UNCHANGED <<disk, needSync, buf>>

Receive(c, kind) ==
    /\ At("idle") /\ mail[c] # <<>> /\ Head(mail[c]).kind = kind
    /\ mail' = [mail EXCEPT ![c] = Tail(@)]

\* add_raw_event; OrderedEventsProcessor::add keeps the event or lets it through.
AddRawEvent(c) ==
    /\ Receive(c, "event")
    /\ held' = held \cup {Head(mail[c])}
    /\ Goto("drain")
    /\ UNCHANGED <<clientVars, begin, waiting, promises, timer, logVars, dbKey, acked>>

\* Mutant: a promise does not wait for the events that are held.
ForceSyncReceived_NoWait(c) ==
    /\ Receive(c, "forceSync")
    /\ promises' = promises \cup {Highest} /\ timer' = DoImmediateSync(timer)
    /\ UNCHANGED <<clientVars, orderVars, logVars, dbKey, pc, acked>>

ForceSyncReceived(c) ==
    /\ Receive(c, "forceSync")
    /\ \/ /\ held = {}
          /\ promises' = promises \cup {Highest} /\ timer' = DoImmediateSync(timer)
          /\ UNCHANGED waiting
       \/ /\ held # {}
          /\ waiting' = waiting \cup {Highest}
          /\ UNCHANGED <<promises, timer>>
    /\ UNCHANGED <<clientVars, begin, held, logVars, dbKey, pc, acked>>

ForceFlushReceived(c) ==
    /\ Receive(c, "forceFlush")
    /\ disk' = [disk EXCEPT !.path = Flushed(@, buf)]
    /\ needSync' = (needSync \/ buf # <<>>) /\ buf' = <<>>
    /\ timer' = [timer EXCEPT !.flush = FALSE]
    /\ UNCHANGED <<clientVars, orderVars, promises, proc, fdSize, dbKey, pc, acked>>

ChangeKeyReceived(c) ==
    /\ Receive(c, "changeKey")
    /\ dbKey' = Head(mail[c]).key
    /\ pc' = [at |-> "openNew", then |-> "idle"]
    /\ UNCHANGED <<clientVars, orderVars, promises, timer, logVars, acked>>

\* close: all that was processed is synced; what the actor has not handled is lost.
CloseReceived(c) ==
    /\ Receive(c, "close")
    /\ LET f == Flushed(disk.path, buf)
       IN  disk' = [disk EXCEPT !.path = IF needSync \/ buf # <<>> THEN Synced(f) ELSE f]
    /\ buf' = <<>> /\ needSync' = FALSE
    /\ acked' = Max({acked, Version(begin - 1)})
    /\ Goto("closed")
    /\ UNCHANGED <<clientVars, orderVars, promises, timer, proc, fdSize, dbKey>>

Closed == At("closed") /\ StopWith(disk)

\* close_and_destroy: path.new goes first, or it would be taken for the file at the next start.
DestroyReceived(c) ==
    /\ Receive(c, "destroy")
    /\ disk' = [disk EXCEPT !.path = Flushed(@, buf)]
    /\ buf' = <<>> /\ Goto("destroyNew")
    /\ UNCHANGED <<clientVars, orderVars, promises, timer, proc, fdSize, needSync, dbKey, acked>>

\* Mutant: path goes first.
DestroyNew_PathFirst ==
    /\ At("destroyNew") /\ Goto("destroyPath")
    /\ disk' = [disk EXCEPT !.path = NoFile]
    /\ UNCHANGED <<clientVars, mail, orderVars, promises, timer, proc, buf, fdSize, needSync,
                   dbKey, acked>>

DestroyNew ==
    /\ At("destroyNew") /\ Goto("destroyPath")
    /\ disk' = [disk EXCEPT !.new = NoFile]
    /\ UNCHANGED <<clientVars, mail, orderVars, promises, timer, proc, buf, fdSize, needSync,
                   dbKey, acked>>

DestroyPath == At("destroyPath") /\ StopWith([path |-> NoFile, new |-> disk.new])

\* need_reindex
NeedReindex(size, p) ==
    \E r \in ReindexRules :
        size > r[1] /\ size \div r[2] > Cardinality({i \in DOMAIN p.events : p.events[i] # Erased})

\* Binlog::do_event in the state Run; an event that the processor refuses ends the process.
DoEvent(e) ==
    /\ proc' = ProcessEvent(proc, e)
    /\ fdSize' = fdSize + 1
    /\ pc' = CASE ~proc'.ok -> [at |-> "fatal", then |-> "fatal"]
               [] proc'.ok /\ NeedReindex(fdSize', proc') -> [at |-> "openNew", then |-> "drain"]
               [] OTHER -> pc

LazyFlush(all) ==
    LET full == Len(all) > FlushLimit
    IN  /\ disk' = IF full THEN [disk EXCEPT !.path = Flushed(@, all)] ELSE disk
        /\ buf' = IF full THEN <<>> ELSE all
        /\ needSync' = (needSync \/ full)

\* Mutant: events are processed as they come.
IsNext_Any(m) == TRUE

\* The event the OrderedEventsProcessor lets through.
IsNext(m) == m.seq = begin

\* Binlog::add_event for the event that is next, do_lazy_sync for its promise.
Drain(m) ==
    /\ At("drain") /\ IsNext(m)
    /\ begin' = begin + 1 /\ held' = held \ {m}
    /\ promises' = IF m.promise THEN promises \cup {m.seq} ELSE promises
    /\ timer' = IF m.promise THEN DoLazySync(timer) ELSE timer
    /\ \/ m.ev = NoEvent /\ UNCHANGED <<logVars, pc>>
       \/ m.ev # NoEvent /\ DoEvent(m.ev) /\ LazyFlush(Append(buf, m.ev))
    /\ UNCHANGED <<clientVars, mail, waiting, dbKey, acked>>

\* Mutant: the promises that waited for events are not looked at again.
Settle_NoPromises ==
    /\ At("drain") /\ \A m \in held : ~IsNext(m)
    /\ TryFlush(timer) /\ Goto("idle")
    /\ UNCHANGED <<clientVars, mail, orderVars, promises, proc, fdSize, dbKey, acked>>

\* The end of add_raw_event: flush_immediate_sync and try_flush.
Settle ==
    /\ At("drain") /\ \A m \in held : ~IsNext(m)
    /\ LET due == {s \in waiting : s < begin}
       IN  /\ waiting' = waiting \ due /\ promises' = promises \cup due
           /\ TryFlush(IF due # {} THEN DoImmediateSync(timer) ELSE timer)
    /\ Goto("idle")
    /\ UNCHANGED <<clientVars, mail, begin, held, proc, fdSize, dbKey, acked>>

\* Binlog::sync
Sync ==
    LET f == Flushed(disk.path, buf)
    IN  /\ disk' = [disk EXCEPT !.path = IF needSync \/ buf # <<>> THEN Synced(f) ELSE f]
        /\ buf' = <<>> /\ needSync' = FALSE

TimeoutExpired ==
    /\ At("idle") /\ timer.armed
    /\ \/ /\ timer.lazy \/ timer.force
          /\ Sync /\ timer' = Idle
          /\ acked' = Max({acked} \cup {Version(s) : s \in promises})
          /\ promises' = {}
       \/ /\ ~(timer.lazy \/ timer.force)
          /\ \/ timer.flush /\ TryFlush(Idle)
             \/ ~timer.flush /\ timer' = Idle /\ UNCHANGED <<disk, needSync, buf>>
          /\ UNCHANGED <<acked, promises>>
    /\ UNCHANGED <<clientVars, mail, orderVars, proc, fdSize, dbKey, pc>>

-----------------------------------------------------------------------------
(* Binlog::do_reindex                                                      *)

reindexFrame == <<clientVars, mail, orderVars, promises, timer, proc, dbKey, acked>>

\* Mutant: the second file is written with the key of the first.
OpenNew_OldKey ==
    /\ At("openNew")
    /\ disk' = [disk EXCEPT !.new = NewFile]
    /\ LET k == FileKey(disk.path.log)
       IN  buf' = (IF k = None THEN <<>> ELSE <<Encryption(k)>>) \o Live(proc)
    /\ fdSize' = Len(buf')
    /\ pc' = [pc EXCEPT !.at = "reindex"]
    /\ UNCHANGED <<reindexFrame, needSync>>

\* The second file is opened and emptied; what was not flushed to the first is dropped.
OpenNew ==
    /\ At("openNew")
    /\ disk' = [disk EXCEPT !.new = NewFile]
    /\ buf' = (IF dbKey = None THEN <<>> ELSE <<Encryption(dbKey)>>) \o Live(proc)
    /\ fdSize' = Len(buf')
    /\ pc' = [pc EXCEPT !.at = "reindex"]
    /\ UNCHANGED <<reindexFrame, needSync>>

\* The first file stays in use, and is tried again at the next event.  Bounded: it could grow
\* for ever, for a change of an old key uses up no id that a restart remembers.
OpenNewFails ==
    /\ "open" \in Faults /\ At("openNew") /\ fdSize <= MaxSeq
    /\ pc' = [pc EXCEPT !.at = pc.then]
    /\ UNCHANGED <<reindexFrame, buf, fdSize, needSync, disk>>

\* The second file is flushed, and synced if the first is not empty.
WriteNew ==
    /\ At("reindex")
    /\ LET f == Flushed(disk.new, buf)
       IN  disk' = [disk EXCEPT !.new = IF disk.path.log # <<>> THEN Synced(f) ELSE f]
    /\ buf' = <<>> /\ needSync' = FALSE
    /\ pc' = [pc EXCEPT !.at = "unlink"]
    /\ UNCHANGED <<reindexFrame, fdSize>>

UnlinkPath ==
    /\ At("unlink")
    /\ disk' = [disk EXCEPT !.path = NoFile]
    /\ pc' = [pc EXCEPT !.at = "rename"]
    /\ UNCHANGED <<reindexFrame, buf, fdSize, needSync>>

RenameNew ==
    /\ At("rename")
    /\ disk' = [path |-> disk.new, new |-> NoFile]
    /\ pc' = [pc EXCEPT !.at = pc.then]
    /\ UNCHANGED <<reindexFrame, buf, fdSize, needSync>>

-----------------------------------------------------------------------------
(* Binlog::init and load_binlog                                            *)

\* The store is opened with the key k; a wrong key changes nothing.  What is left of a
\* broken event is cut off, and makes the file be written anew if it is encrypted.
Open(k) ==
    /\ At("down") /\ FileKey(Opened(disk).log) \in {None, k}
    /\ LET f == Opened(disk)
           p == Load(f.log)
       IN  /\ disk' = [path |-> [f EXCEPT !.there = TRUE, !.torn = FALSE], new |->
                        IF disk.path.there THEN disk.new ELSE NoFile]
           /\ proc' = p /\ fdSize' = Len(f.log)
           /\ map' = MapOf(p)
           /\ nextSeq' = p.last + 1 /\ begin' = p.last + 1
           /\ pc' = CASE ~p.ok -> [at |-> "fatal", then |-> "fatal"]
                      [] p.ok /\ k # None /\ (FileKey(f.log) # k \/ f.torn) -> [at |-> "openNew", then |-> "ready"]
                      [] OTHER -> [at |-> "ready", then |-> "ready"]
    /\ dbKey' = k
    /\ UNCHANGED <<up, versions, mail, held, waiting, promises, timer, buf, needSync, acked>>

\* The actor starts.
Ready ==
    /\ At("ready")
    /\ up' = TRUE /\ Goto("idle")
    /\ UNCHANGED <<map, nextSeq, versions, mail, orderVars, promises, timer, logVars, dbKey, acked>>

-----------------------------------------------------------------------------
Client(c) ==
    \/ \E k \in Keys, v \in Values : Set(c, k, v)
    \/ \E ks \in (SUBSET Keys) \ {{}} : \E order \in SetToSeqs(ks) : EraseKeys(c, order)
    \/ LazySync(c) \/ ForceSync(c) \/ ForceFlush(c)
    \/ \E k \in DbKeys \cup {None} : ChangeKey(c, k)
    \/ Close(c) \/ CloseAndDestroy(c)

Received(c) ==
    AddRawEvent(c) \/ ForceSyncReceived(c) \/ ForceFlushReceived(c) \/ ChangeKeyReceived(c)
    \/ CloseReceived(c) \/ DestroyReceived(c)

Internal ==
    \/ \E m \in held : Drain(m)
    \/ Settle \/ OpenNew \/ WriteNew \/ UnlinkPath \/ RenameNew
    \/ Closed \/ DestroyNew \/ DestroyPath

Next ==
    \/ \E c \in Clients : Client(c) \/ Received(c)
    \/ Internal \/ TimeoutExpired \/ OpenNewFails \/ Crash
    \/ \E k \in DbKeys \cup {None} : Open(k)
    \/ Ready

Spec == Init /\ [][Next]_vars

\* The actor's scheduler delivers its messages and runs its timers between them.  The mailbox is
\* one queue: no client's message is passed over for ever, whatever the others send.
Fairness ==
    /\ WF_vars(Internal) /\ SF_vars(TimeoutExpired)
    /\ \A c \in Clients : SF_vars(Received(c))

FairSpec == Spec /\ Fairness

-----------------------------------------------------------------------------
(* Properties                                                              *)

Events == [type : {"put", "empty", "aes"}, id : 0 .. MaxSeq, rw : BOOLEAN,
           key : Keys \cup DbKeys \cup {None}, val : Values \cup {None}]
Files == [there : BOOLEAN, log : Seq(Events), safe : Nat, torn : BOOLEAN]
Seqs == 1 .. MaxSeq + Cardinality(Keys)
Messages == [kind : {"event"}, seq : Seqs, ev : Events, promise : BOOLEAN] \cup
            [kind : {"forceSync", "forceFlush", "changeKey", "close", "destroy"},
             key : DbKeys \cup {None}]
Labels == {"down", "fatal", "ready", "idle", "drain", "openNew", "reindex", "unlink", "rename",
           "closed", "destroyNew", "destroyPath"}
Contents == [Keys -> Values \cup {None}]

\* Every variable keeps its type; the actor never processes a number that was not given out.
TypeOK ==
    /\ map \in [Keys -> [val : Values \cup {None}, id : 0 .. MaxSeq]]
    /\ nextSeq - 1 \in Seqs \cup {0} /\ begin \in 1 .. nextSeq /\ up \in BOOLEAN
    /\ mail \in [Clients -> Seq(Messages)]
    /\ held \subseteq [kind : {"event"}, seq : Seqs, ev : Events, promise : BOOLEAN]
    /\ waiting \subseteq Seqs /\ promises \subseteq Seqs \cup {0}
    /\ timer \in [force : BOOLEAN, lazy : BOOLEAN, flush : BOOLEAN, armed : BOOLEAN]
    /\ buf \in Seq(Events) /\ fdSize \in Nat /\ needSync \in BOOLEAN
    /\ dbKey \in DbKeys \cup {None} /\ disk \in [path : Files, new : Files]
    /\ pc \in [at : Labels, then : Labels]
    /\ versions \in Seq(Contents) /\ acked \in 1 .. Len(versions)

\* The abstract store: history and intention are all it sees.
Durable == INSTANCE DurableMap WITH
    Maps <- Contents, Empty <- [k \in Keys |-> None],
    destroying <- pc.at \in {"destroyNew", "destroyPath"}

\* The store implements a map whose acknowledged versions survive every crash, whatever the
\* actor was doing: appending, flushing, writing the second file, destroying the files.
DurableSpec == Durable!Spec

\* LOG(FATAL) in Binlog::do_event is never reached: no interleaving of the clients, no
\* restart and no file written anew makes the processor refuse an event.
NeverFatal == ~At("fatal")

\* Once the actor has caught up, the events it would write to the second file are the map
\* of the clients, ids included: a later rewriting finds its event.
LogIsMap ==
    up /\ At("idle") /\ held = {} /\ (\A c \in Clients : mail[c] = <<>>) => MapOf(proc) = map

\* A promise that is to be kept has a timer that will keep it, and one that waits for events
\* waits for events that are on their way.
PromiseHasTimer ==
    /\ promises # {} => timer.armed /\ (timer.lazy \/ timer.force)
    /\ timer.lazy \/ timer.force \/ timer.flush => timer.armed
    /\ At("idle") => \A s \in waiting : s >= begin /\ \E m \in held : m.seq >= s

\* A file that is in use is encrypted with the key in force.
KeyInForce == At("idle") /\ disk.path.log # <<>> => FileKey(disk.path.log) = dbKey

\* Every promise is kept in the end, unless the store is closed or dies first: the lazy ones and
\* those of force_sync, and of these also one that has to wait for events of other threads.
PromisesKept ==
    \A n \in Seqs \cup {0} : (n \in promises \cup waiting) ~> (n \notin promises \cup waiting \/ ~up)

\* A restart brings back no version older than one that a kept promise covers.
NothingAckedIsLost ==
    [][At("down")' => \E i \in acked .. Len(versions) : versions'[1] = versions[i]
                      \/ At("destroyPath")]_vars
=============================================================================
