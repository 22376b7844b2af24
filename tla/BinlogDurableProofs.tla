------------------------ MODULE BinlogDurableProofs ------------------------
(***************************************************************************)
(* What survives a crash, for every value of Binlog's constants.  DurInv   *)
(* says of the file in use that, cut off anywhere after what a crash       *)
(* cannot take, it leads to one of the versions that are not given up;     *)
(* with it Binlog implements DurableMap.                                   *)
(***************************************************************************)
EXTENDS BinlogProofs

\* What the power loss takes no part of, in a file; a kill takes nothing that was flushed.
Least(f) == IF "power" \in Faults THEN f.safe ELSE Len(f.log)

\* The newest version that the processor has seen.
Newest == Len(versions) - (nextSeq - begin)

\* Wherever the log is cut off after its first events, it leads to one of the versions.
Saves(log, from, vs, a, b) ==
    \A n \in from .. Len(log) : \E i \in a .. b : Content(MapOf(Load(Prefix(log, n)))) = vs[i]

-----------------------------------------------------------------------------
(* Logs that save versions                                                 *)

LEMMA LeastShape ==
    ASSUME NEW f \in Files
    PROVE  /\ Least(f) \in Nat /\ Least(Synced(f)) = Len(Synced(f).log)
           /\ \A b \in Seq(Events) : Least(Flushed(f, b)) \in Nat /\ Least(Flushed(f, b)) >= Least(f)
           /\ Flushed(f, <<>>) = f
<1>1. f.log \in Seq(Events) /\ f.safe \in Nat /\ Len(f.log) \in Nat
  BY FilesTyped
<1>2. Synced(f).log = f.log /\ Synced(f).safe = Len(f.log)
  BY SyncedShape
<1>3. ASSUME NEW b \in Seq(Events) PROVE Least(Flushed(f, b)) \in Nat /\ Least(Flushed(f, b)) >= Least(f)
  <2>1. Flushed(f, b).log = f.log \o b /\ Flushed(f, b).safe = f.safe
    BY FilesTyped
  <2>2. Len(f.log \o b) = Len(f.log) + Len(b) /\ Len(b) \in Nat
    BY <1>1, ConcatProperties, LenProperties
  <2>. QED  BY <1>1, <2>1, <2>2 DEF Least
<1>4. Flushed(f, <<>>) = f
  <2>1. f.log \o <<>> = f.log
    BY <1>1, ConcatEmptySeq
  <2>. QED  BY <2>1 DEF Flushed, Files
<1>. QED  BY <1>1, <1>2, <1>3, <1>4 DEF Least

LEMMA SavesLess ==
    ASSUME NEW log \in Seq(Events), NEW lo \in Nat, NEW lo2 \in Nat, lo <= lo2, NEW vs, NEW a, NEW b, Saves(log, lo, vs, a, b)
    PROVE  Saves(log, lo2, vs, a, b)
<1>1. Len(log) \in Nat
  BY LenProperties
<1>2. \A n \in lo2 .. Len(log) : n \in lo .. Len(log)
  BY <1>1
<1>. QED  BY <1>2 DEF Saves

LEMMA SavesStart ==
    ASSUME NEW l1 \in Seq(Events), NEW l2 \in Seq(Events), NEW lo \in Nat, NEW vs, NEW a, NEW b, Saves(l1 \o l2, lo, vs, a, b)
    PROVE  Saves(l1, lo, vs, a, b)
<1>1. Len(l1) \in Nat /\ Len(l2) \in Nat /\ Len(l1 \o l2) = Len(l1) + Len(l2)
  BY LenProperties, ConcatProperties
<1>2. ASSUME NEW n \in lo .. Len(l1) PROVE n \in lo .. Len(l1 \o l2) /\ Prefix(l1 \o l2, n) = Prefix(l1, n)
  <2>1. n \in lo .. Len(l1 \o l2) /\ n \in 0 .. Len(l1)
    BY <1>1
  <2>. QED  BY <2>1, PrefixOfConcat
<1>. QED  BY <1>2 DEF Saves

LEMMA SavesMore ==
    ASSUME NEW log, NEW lo, NEW vs, NEW vs2, NEW a, NEW b, NEW b2, Saves(log, lo, vs, a, b),
           \A i \in a .. b : i \in a .. b2 /\ vs2[i] = vs[i]
    PROVE  Saves(log, lo, vs2, a, b2)
BY DEF Saves

LEMMA SavesAll ==
    ASSUME NEW log \in Seq(Events), NEW vs, NEW a \in Nat, NEW b \in Nat, a <= b, Content(MapOf(Load(log))) = vs[b]
    PROVE  Saves(log, Len(log), vs, a, b)
<1>1. Len(log) \in Nat
  BY LenProperties
<1>2. \A n \in Len(log) .. Len(log) : n = Len(log) /\ n \in 0 .. Len(log)
  BY <1>1
<1>3. Prefix(log, Len(log)) = log
  BY <1>1, PrefixShape
<1>4. b \in a .. b
  OBVIOUS
<1>. QED  BY <1>2, <1>3, <1>4 DEF Saves

LEMMA SavesAppend ==
    ASSUME NEW log \in Seq(Events), NEW e \in Events, NEW lo \in Nat, NEW vs, NEW a \in Nat, NEW b \in Nat, a <= b,
           Saves(log, lo, vs, a, b), Content(MapOf(Load(Append(log, e)))) = vs[b + 1]
    PROVE  Saves(Append(log, e), lo, vs, a, b + 1)
<1>1. Len(log) \in Nat /\ Append(log, e) \in Seq(Events) /\ Len(Append(log, e)) = Len(log) + 1
  BY LenProperties
<1>2. ASSUME NEW n \in lo .. Len(log) + 1
      PROVE  \E i \in a .. b + 1 : Content(MapOf(Load(Prefix(Append(log, e), n)))) = vs[i]
  <2>1. CASE n = Len(log) + 1
    <3>1. Prefix(Append(log, e), n) = Append(log, e)
      <4>1. Len(log) + 1 \in 0 .. Len(Append(log, e))
        BY <1>1
      <4>. QED  BY <1>1, <2>1, <4>1, PrefixShape
    <3>2. b + 1 \in a .. b + 1
      OBVIOUS
    <3>. QED  BY <3>1, <3>2
  <2>2. CASE n # Len(log) + 1
    <3>1. n \in lo .. Len(log) /\ n \in 0 .. Len(log)
      BY <1>1, <2>2
    <3>2. Prefix(Append(log, e), n) = Prefix(log, n)
      BY <3>1, PrefixOfAppend
    <3>3. PICK i \in a .. b : Content(MapOf(Load(Prefix(log, n)))) = vs[i]
      BY <3>1 DEF Saves
    <3>4. i \in a .. b + 1
      OBVIOUS
    <3>. QED  BY <3>2, <3>3, <3>4
  <2>. QED  BY <2>1, <2>2
<1>. QED  BY <1>1, <1>2 DEF Saves

\* The whole of a log that stands for the processor's map leads to the newest version.
LEMMA NewestIs ==
    ASSUME Inv
    PROVE  /\ Newest \in Nat /\ acked \in Nat /\ 1 <= acked /\ acked <= Newest /\ Newest <= Len(versions)
           /\ Len(versions) \in Nat /\ Newest \in 1 .. Len(versions)
<1>1. begin \in 1 .. nextSeq /\ nextSeq \in Nat /\ acked \in 1 .. Len(versions) /\ Len(versions) \in Nat
      /\ acked <= Len(versions) - (nextSeq - begin)
  BY LenProperties DEF Inv, Typed, ActorOK, ClientsOK, StateOK, AckOK
<1>. QED  BY <1>1 DEF Newest

LEMMA StandsNewest ==
    ASSUME Inv, ~At("down"), NEW log \in Seq(Events), Stands(log)
    PROVE  Content(MapOf(Load(log))) = versions[Newest] /\ Saves(log, Len(log), versions, acked, Newest)
<1>1. PICK h : Chain(h)
  BY DEF Inv, ChainOK
<1>2. begin \in 1 .. nextSeq /\ nextSeq \in Nat
  BY DEF Inv, Typed, ActorOK, ClientsOK
<1>3. begin - 1 \in begin - 1 .. nextSeq - 1 /\ nextSeq - 1 - (begin - 1) = nextSeq - begin
  BY <1>2
<1>4. Content(h[begin - 1]) = versions[Newest] /\ h[begin - 1] = MapOf(proc)
  BY <1>1, <1>3 DEF Chain, Versioned, Newest
<1>5. MapOf(Load(log)) = MapOf(proc)
  BY RepMap DEF Stands
<1>6. Content(MapOf(Load(log))) = versions[Newest]
  BY <1>4, <1>5
<1>. QED  BY <1>6, NewestIs, SavesAll
-----------------------------------------------------------------------------
(* The inductive invariant                                                 *)

\* A power loss and a change of the key do not meet.  With both, do_reindex may leave the
\* second file unsynced.
KeyStays == DbKeys = {} /\ "changeKey" \notin Requests
PowerOrKey == "power" \notin Faults \/ KeyStays

InUse == {"ready", "idle", "drain", "openNew"}

\* fd_size_ counts what was appended, so a file that is to be written anew is not empty.
SizeOK ==
    /\ pc.at \in InUse => fdSize = Len(disk.path.log \o buf)
    /\ At("reindex") => fdSize = Len(buf)
    /\ pc.at \in {"unlink", "rename"} => fdSize = Len(disk.new.log)
    /\ KeyStays /\ pc.at \in {"openNew", "reindex"} => disk.path.log # <<>>

\* need_sync_ says when the file may lose something.
SyncOK ==
    /\ pc.at \in InUse /\ ~needSync => Least(disk.path) = Len(disk.path.log)
    /\ At("closed") => Least(disk.path) = Len(disk.path.log)
    /\ pc.at \in {"unlink", "rename"} => Least(disk.new) = Len(disk.new.log)
    /\ At("down") => Least(Opened(disk)) = Len(Opened(disk).log)

SavedOK ==
    /\ pc.at \in InPath => Saves(disk.path.log \o buf, Least(disk.path), versions, acked, Newest)
    /\ pc.at \in {"reindex", "unlink"} => Saves(disk.path.log, Least(disk.path), versions, acked, Newest)
    /\ pc.at \in {"unlink", "rename"} => Saves(disk.new.log, Least(disk.new), versions, acked, Newest)

KeyMailOK ==
    \A c \in Clients : \A i \in 1 .. Len(mail[c]) : mail[c][i].kind = "changeKey" => ~KeyStays

DurInv == SizeOK /\ SyncOK /\ SavedOK /\ KeyMailOK

\* The log is encrypted with the key in force, unless that has just been changed.
KeyOK ==
    /\ pc.at \in {"ready", "idle", "drain"} \/ (At("openNew") /\ pc.then = "drain") => FileKey(disk.path.log \o buf) = dbKey
    /\ At("reindex") => FileKey(buf) = dbKey
    /\ pc.at \in {"unlink", "rename"} => FileKey(disk.new.log) = dbKey

-----------------------------------------------------------------------------
(* What an action leaves alone                                             *)

\* The files and the actor are where they were; the messages may have changed.
logFrame == <<buf, fdSize, needSync, disk, begin, acked>>

LEMMA SavedShape ==
    ASSUME Inv
    PROVE  /\ disk \in Disks /\ disk.path \in Files /\ disk.new \in Files /\ buf \in Seq(Events)
           /\ disk.path.log \in Seq(Events) /\ disk.new.log \in Seq(Events) /\ disk.path.log \o buf \in Seq(Events)
           /\ Least(disk.path) \in Nat /\ Least(disk.new) \in Nat
           /\ Len(disk.path.log \o buf) = Len(disk.path.log) + Len(buf)
           /\ Len(disk.path.log) \in Nat /\ Len(buf) \in Nat /\ Len(disk.new.log) \in Nat /\ fdSize \in Nat
<1>1. /\ disk \in Disks /\ disk.path \in Files /\ disk.new \in Files /\ buf \in Seq(Events)
      /\ disk.path.log \in Seq(Events) /\ disk.new.log \in Seq(Events) /\ disk.path.log \o buf \in Seq(Events)
  BY DiskShape DEF Inv
<1>2. fdSize \in Nat
  BY DEF Inv, Typed, FilesOK
<1>. QED  BY <1>1, <1>2, LeastShape, LenProperties, ConcatProperties

\* The actor goes from one place where the first file is in use to another and does not
\* touch it.
LEMMA FilesKept ==
    ASSUME SizeOK, SyncOK, SavedOK, UNCHANGED logFrame, UNCHANGED <<nextSeq, versions>>, pc.at \in InUse,
           pc'.at \in {"ready", "idle", "drain", "openNew"}, KeyStays => pc'.at # "openNew"
    PROVE  SizeOK' /\ SyncOK' /\ SavedOK'
<1>1. Newest' = Newest
  BY DEF Newest, logFrame
<1>2. SizeOK'
  BY DEF SizeOK, InUse, At, logFrame
<1>3. SyncOK'
  BY DEF SyncOK, InUse, At, logFrame
<1>4. SavedOK'
  BY <1>1 DEF SavedOK, InPath, InUse, logFrame
<1>. QED  BY <1>2, <1>3, <1>4

LEMMA SamePlace ==
    ASSUME SizeOK, SyncOK, SavedOK, UNCHANGED logFrame, UNCHANGED <<nextSeq, versions, pc>> PROVE SizeOK' /\ SyncOK' /\ SavedOK'
<1>1. Newest' = Newest
  BY DEF Newest, logFrame
<1>2. SizeOK' /\ SyncOK'
  BY DEF SizeOK, SyncOK, At, logFrame
<1>3. SavedOK'
  BY <1>1 DEF SavedOK, logFrame
<1>. QED  BY <1>2, <1>3

LEMMA MailPosted ==
    ASSUME Inv, KeyMailOK, NEW c \in Clients, NEW ms \in Seq(Messages), Post(c, ms),
           \A i \in 1 .. Len(ms) : ms[i].kind = "changeKey" => ~KeyStays
    PROVE  KeyMailOK'
<1>1. /\ mail'[c] = mail[c] \o ms /\ (\A d \in Clients : d # c => mail'[d] = mail[d]) /\ mail[c] \in Seq(Messages)
  BY PostTyped DEF Inv, Typed, ClientsOK
<1>2. PICK a : a = mail[c]
  OBVIOUS
<1>3. IsConcat(a, ms, a \o ms) /\ Len(a) \in Nat /\ Len(ms) \in Nat
  BY <1>1, <1>2, ConcatAt, LenProperties
<1>4. ASSUME NEW i \in 1 .. Len(mail'[c]), mail'[c][i].kind = "changeKey" PROVE ~KeyStays
  <2>1. i \in 1 .. Len(a) + Len(ms)
    BY <1>1, <1>2, <1>3 DEF IsConcat
  <2>2. CASE i \in 1 .. Len(a)
    BY <1>1, <1>2, <1>3, <1>4, <2>2 DEF IsConcat, KeyMailOK
  <2>3. CASE i \notin 1 .. Len(a)
    <3>1. i - Len(a) \in 1 .. Len(ms) /\ Len(a) + (i - Len(a)) = i
      BY <1>3, <2>1, <2>3
    <3>2. mail'[c][i] = ms[i - Len(a)]
      BY <1>1, <1>2, <1>3, <3>1 DEF IsConcat
    <3>. QED  BY <1>4, <3>1, <3>2
  <2>. QED  BY <2>2, <2>3
<1>. QED  BY <1>1, <1>4 DEF KeyMailOK

LEMMA MailReceived ==
    ASSUME Inv, KeyMailOK, NEW c \in Clients, NEW kind, Receive(c, kind)
    PROVE  KeyMailOK' /\ (kind = "changeKey" => ~KeyStays)
<1>1. mail \in [Clients -> Seq(Messages)] /\ mail[c] \in Seq(Messages) /\ mail[c] # <<>> /\ Head(mail[c]).kind = kind
  BY DEF Receive, Inv, Typed, ClientsOK
<1>2. PICK a : a = mail[c]
  OBVIOUS
<1>3. /\ a \in Seq(Messages) /\ Len(a) \in Nat /\ Len(a) # 0 /\ Head(a) = a[1] /\ 1 \in 1 .. Len(a)
      /\ Len(Tail(a)) = Len(a) - 1 /\ \A i \in 1 .. Len(Tail(a)) : Tail(a)[i] = a[i + 1]
  BY <1>1, <1>2, LenProperties, EmptySeq, HeadTailProperties
<1>4. mail' = [mail EXCEPT ![c] = Tail(a)]
  BY <1>2 DEF Receive
<1>5. mail'[c] = Tail(a) /\ \A d \in Clients : d # c => mail'[d] = mail[d]
  BY <1>1, <1>4
<1>6. ASSUME NEW i \in 1 .. Len(Tail(a)), Tail(a)[i].kind = "changeKey" PROVE ~KeyStays
  <2>1. i + 1 \in 1 .. Len(a) /\ Tail(a)[i] = a[i + 1]
    BY <1>3
  <2>. QED  BY <1>2, <1>6, <2>1 DEF KeyMailOK
<1>7. KeyMailOK'
  BY <1>5, <1>6 DEF KeyMailOK
<1>8. kind = "changeKey" => ~KeyStays
  BY <1>1, <1>2, <1>3 DEF KeyMailOK
<1>. QED  BY <1>7, <1>8

-----------------------------------------------------------------------------
(* The clients                                                             *)

LEMMA GrowthSaves == ASSUME Inv, DurInv, NEW c \in Clients, Grows(c) PROVE DurInv'
<1>1. PICK n, ms, g : Growth(c, n, ms, g)
  BY DEF Grows
<1>2. /\ n \in Nat /\ nextSeq' = nextSeq + n /\ nextSeq \in Nat /\ begin \in Nat /\ UNCHANGED clientFrame
      /\ ms \in Seq(EventMessages) /\ Post(c, ms)
  BY <1>1 DEF Growth, Inv, Typed, ClientsOK, ActorOK
<1>3. UNCHANGED logFrame /\ UNCHANGED pc
  BY <1>2 DEF clientFrame, logFrame, logVars, orderVars
<1>4. /\ Len(versions') = Len(versions) + n /\ Len(versions) \in Nat
      /\ \A i \in 1 .. Len(versions) : versions'[i] = versions[i]
  BY <1>1, GrowthVersions DEF Inv
<1>5. Newest' = Newest
  BY <1>2, <1>3, <1>4 DEF Newest, logFrame
<1>6. \A i \in acked .. Newest : i \in acked .. Newest /\ versions'[i] = versions[i]
  BY <1>4, NewestIs
<1>7. SizeOK' /\ SyncOK'
  BY <1>3 DEF DurInv, SizeOK, SyncOK, At, logFrame
<1>8. SavedOK'
  <2>1. \A log, lo : Saves(log, lo, versions, acked, Newest) => Saves(log, lo, versions', acked', Newest')
    BY <1>3, <1>5, <1>6, SavesMore DEF logFrame
  <2>. QED  BY <1>3, <2>1 DEF DurInv, SavedOK, logFrame
<1>9. KeyMailOK'
  <2>1. ms \in Seq(Messages)
    BY <1>2, MessageShape, SeqMonotonic
  <2>2. \A i \in 1 .. Len(ms) : ms[i].kind # "changeKey"
    <3>1. \A i \in 1 .. Len(ms) : ms[i] \in EventMessages
      BY <1>2, ElementOfSeq
    <3>. QED  BY <3>1 DEF EventMessages
  <2>. QED  BY <1>2, <2>1, <2>2, MailPosted DEF DurInv
<1>. QED  BY <1>7, <1>8, <1>9 DEF DurInv

LEMMA AskSaves ==
    ASSUME Inv, DurInv, NEW c \in Clients, NEW kind \in Kinds, NEW k \in DbKeys \cup {None}, Ask(c, kind, k)
    PROVE  DurInv'
<1>1. /\ Post(c, <<[kind |-> kind, key |-> k]>>)
      /\ UNCHANGED <<map, nextSeq, versions, orderVars, promises, timer, logVars, dbKey, pc, acked>>
  BY DEF Ask
<1>2. SizeOK' /\ SyncOK' /\ SavedOK'
  BY <1>1, SamePlace DEF DurInv, logFrame, logVars, orderVars
<1> DEFINE x == [kind |-> kind, key |-> k]
<1>3. x \in Messages /\ (x.kind = "changeKey" => ~KeyStays)
  BY DEF Kinds, Messages, Ask, KeyStays
<1> HIDE DEF x
<1>4. <<x>> \in Seq(Messages) /\ Len(<<x>>) = 1 /\ <<x>>[1] = x
  BY <1>3, OneInSeq
<1>5. \A i \in 1 .. Len(<<x>>) : i = 1
  BY <1>4
<1>6. KeyMailOK'
  BY <1>1, <1>3, <1>4, <1>5, MailPosted DEF DurInv, x
<1>. QED  BY <1>2, <1>6 DEF DurInv

-----------------------------------------------------------------------------
(* The actor takes a message                                               *)

LEMMA AddRawEventSaves == ASSUME Inv, DurInv, NEW c \in Clients, AddRawEvent(c) PROVE DurInv'
<1>1. /\ Receive(c, "event") /\ At("idle") /\ pc'.at = "drain"
      /\ UNCHANGED <<clientVars, begin, waiting, promises, timer, logVars, dbKey, acked>>
  BY DEF AddRawEvent, Receive, Goto
<1>2. SizeOK' /\ SyncOK' /\ SavedOK'
  BY <1>1, FilesKept DEF DurInv, InUse, logFrame, logVars, clientVars, At
<1>. QED  BY <1>1, <1>2, MailReceived DEF DurInv

LEMMA ForceSyncReceivedSaves == ASSUME Inv, DurInv, NEW c \in Clients, ForceSyncReceived(c) PROVE DurInv'
<1>1. Receive(c, "forceSync") /\ UNCHANGED <<clientVars, begin, held, logVars, dbKey, pc, acked>>
  BY DEF ForceSyncReceived
<1>2. SizeOK' /\ SyncOK' /\ SavedOK'
  BY <1>1, SamePlace DEF DurInv, logFrame, logVars, clientVars
<1>. QED  BY <1>1, <1>2, MailReceived DEF DurInv

LEMMA ChangeKeyReceivedSaves == ASSUME Inv, DurInv, NEW c \in Clients, ChangeKeyReceived(c) PROVE DurInv'
<1>1. /\ Receive(c, "changeKey") /\ At("idle") /\ pc'.at = "openNew"
      /\ UNCHANGED <<clientVars, orderVars, promises, timer, logVars, acked>>
  BY DEF ChangeKeyReceived, Receive
<1>2. KeyMailOK' /\ ~KeyStays
  BY <1>1, MailReceived DEF DurInv
<1>3. SizeOK' /\ SyncOK' /\ SavedOK'
  BY <1>1, <1>2, FilesKept DEF DurInv, InUse, logFrame, logVars, clientVars, orderVars, At
<1>. QED  BY <1>2, <1>3 DEF DurInv

\* The log is the same and what is safe of it has not become less, or all of it is safe.
LEMMA SameLogSaves ==
    ASSUME Inv, SavedOK, SameLog, ~At("down"), pc.at \in InPath, Stands(disk.path.log \o buf),
           UNCHANGED <<nextSeq, versions, begin>>, Least(disk'.path) \in Nat, acked' \in Nat, acked' <= Newest,
           \/ acked' = acked /\ Least(disk'.path) >= Least(disk.path)
           \/ Least(disk'.path) = Len(disk'.path.log) /\ buf' = <<>>
    PROVE  Saves(disk'.path.log \o buf', Least(disk'.path), versions', acked', Newest')
<1>1. Newest' = Newest /\ versions' = versions
  BY DEF Newest
<1>2. PICK log : log = disk.path.log \o buf
  OBVIOUS
<1>3. log \in Seq(Events) /\ disk'.path.log \o buf' = log /\ Stands(log) /\ Least(disk.path) \in Nat
      /\ Saves(log, Least(disk.path), versions, acked, Newest)
  BY <1>2, SavedShape DEF SameLog, SavedOK
<1>4. CASE acked' = acked /\ Least(disk'.path) >= Least(disk.path)
  <2>1. Saves(log, Least(disk'.path), versions, acked, Newest)
    BY <1>3, <1>4, SavesLess
  <2>. QED  BY <1>1, <1>3, <1>4, <2>1
<1>5. CASE Least(disk'.path) = Len(disk'.path.log) /\ buf' = <<>>
  <2>1. disk'.path.log = log
    <3>1. disk' \in Disks /\ disk'.path \in Files
      BY DEF SameLog, Disks
    <3>2. disk'.path.log \in Seq(Events)
      BY <3>1, FilesTyped
    <3>. QED  BY <1>3, <1>5, <3>2, ConcatEmptySeq
  <2>2. Content(MapOf(Load(log))) = versions[Newest] /\ Newest \in Nat
    BY <1>3, StandsNewest, NewestIs
  <2>3. Saves(log, Len(log), versions, acked', Newest)
    BY <1>3, <2>2, SavesAll
  <2>. QED  BY <1>1, <1>3, <1>5, <2>1, <2>3
<1>. QED  BY <1>4, <1>5

Flushes ==
    /\ disk' = [disk EXCEPT !.path = Flushed(@, buf)] /\ buf' = <<>>

LEMMA FlushLeast ==
    ASSUME Inv, Flushes
    PROVE  /\ SameLog /\ disk'.path = Flushed(disk.path, buf)
           /\ Least(disk'.path) \in Nat /\ Least(disk'.path) >= Least(disk.path)
           /\ buf = <<>> => disk'.path = disk.path
<1>1. disk \in Disks /\ disk.path \in Files /\ buf \in Seq(Events)
  BY SavedShape
<1>2. SameLog
  BY FlushSame DEF Inv, Flushes
<1>3. disk'.path = Flushed(disk.path, buf)
  BY <1>1 DEF Flushes, Disks
<1>. QED  BY <1>1, <1>2, <1>3, LeastShape

Syncs ==
    /\ disk' = [disk EXCEPT !.path = IF needSync \/ buf # <<>> THEN Synced(Flushed(disk.path, buf)) ELSE Flushed(disk.path, buf)]
    /\ buf' = <<>>

LEMMA SyncLeast ==
    ASSUME Inv, SyncOK, pc.at \in InUse, Syncs
    PROVE  SameLog /\ Least(disk'.path) \in Nat /\ Least(disk'.path) = Len(disk'.path.log)
<1>1. disk \in Disks /\ disk.path \in Files /\ buf \in Seq(Events) /\ Len(disk.path.log) \in Nat
  BY SavedShape
<1>2. SameLog
  BY SyncSame DEF Inv, Syncs
<1>3. disk'.path = IF needSync \/ buf # <<>> THEN Synced(Flushed(disk.path, buf)) ELSE Flushed(disk.path, buf)
  BY <1>1 DEF Syncs, Disks
<1>4. disk'.path \in Files
  BY <1>2 DEF SameLog, Disks
<1>5. CASE needSync \/ buf # <<>>
  <2>1. Flushed(disk.path, buf) \in Files
    BY <1>1, FilesTyped
  <2>2. disk'.path = Synced(Flushed(disk.path, buf))
    BY <1>3, <1>5
  <2>3. Least(disk'.path) = Len(disk'.path.log)
    BY <2>1, <2>2, LeastShape
  <2>. QED  BY <1>2, <1>4, <2>3, LeastShape
<1>6. CASE ~(needSync \/ buf # <<>>)
  <2>1. disk'.path = disk.path /\ ~needSync
    BY <1>1, <1>3, <1>6, LeastShape
  <2>. QED  BY <1>1, <1>2, <2>1, LeastShape DEF SyncOK
<1>. QED  BY <1>5, <1>6

\* The actor is still using the first file, some of which it has flushed or synced.
LEMMA InUseKept ==
    ASSUME Inv, SizeOK, SyncOK, SavedOK, SameLog, pc.at \in InUse, Stands(disk.path.log \o buf),
           UNCHANGED <<nextSeq, versions, begin, fdSize>>, Least(disk'.path) \in Nat, acked' \in Nat, acked' <= Newest,
           \/ acked' = acked /\ Least(disk'.path) >= Least(disk.path)
           \/ Least(disk'.path) = Len(disk'.path.log) /\ buf' = <<>>,
           ~needSync' => Least(disk'.path) = Len(disk'.path.log), pc'.at \in {"idle", "drain"}
    PROVE  SizeOK' /\ SyncOK' /\ SavedOK'
<1>1. ~At("down") /\ pc.at \in InPath
  BY DEF InUse, At, InPath
<1>2. Saves(disk'.path.log \o buf', Least(disk'.path), versions', acked', Newest')
  BY <1>1, SameLogSaves
<1>3. SizeOK'
  BY DEF SizeOK, InUse, At, SameLog
<1>4. SyncOK'
  BY DEF SyncOK, At
<1>5. SavedOK'
  BY <1>2 DEF SavedOK
<1>. QED  BY <1>3, <1>4, <1>5

LEMMA ForceFlushReceivedSaves == ASSUME Inv, DurInv, NEW c \in Clients, ForceFlushReceived(c) PROVE DurInv'
<1>1. /\ Receive(c, "forceFlush") /\ At("idle") /\ Flushes /\ needSync' = (needSync \/ buf # <<>>)
      /\ UNCHANGED <<clientVars, orderVars, promises, proc, fdSize, dbKey, pc, acked>>
  BY DEF ForceFlushReceived, Receive, Flushes
<1>2. /\ SameLog /\ Least(disk'.path) \in Nat /\ Least(disk'.path) >= Least(disk.path)
      /\ buf = <<>> => disk'.path = disk.path
  BY <1>1, FlushLeast
<1>3. Stands(disk.path.log \o buf) /\ pc.at \in InUse /\ pc'.at \in {"idle", "drain"}
  BY <1>1, IdleState DEF At, InUse
<1>4. ~needSync' => Least(disk'.path) = Len(disk'.path.log)
  BY <1>1, <1>2, <1>3 DEF DurInv, SyncOK
<1>5. acked' = acked /\ acked' \in Nat /\ acked' <= Newest
  BY <1>1, NewestIs
<1>6. SizeOK' /\ SyncOK' /\ SavedOK'
  BY <1>1, <1>2, <1>3, <1>4, <1>5, InUseKept DEF DurInv, clientVars, orderVars
<1>. QED  BY <1>1, <1>6, MailReceived DEF DurInv

LEMMA CloseReceivedSaves == ASSUME Inv, DurInv, NEW c \in Clients, CloseReceived(c) PROVE DurInv'
<1>1. /\ Receive(c, "close") /\ At("idle") /\ Syncs /\ pc'.at = "closed"
      /\ acked' = Max({acked, Version(begin - 1)})
      /\ UNCHANGED <<clientVars, orderVars, promises, timer, proc, fdSize, dbKey>>
  BY DEF CloseReceived, Receive, Syncs, Goto
<1>2. Stands(disk.path.log \o buf) /\ pc.at \in InUse /\ pc.at \in InPath /\ ~At("down")
  BY <1>1, IdleState DEF At, InUse, InPath
<1>3. SameLog /\ Least(disk'.path) \in Nat /\ Least(disk'.path) = Len(disk'.path.log) /\ buf' = <<>>
  BY <1>1, <1>2, SyncLeast DEF DurInv, Syncs
<1>4. acked' \in Nat /\ acked' <= Newest
  <2>1. Inv'
    BY CloseReceivedStep
  <2>2. Newest' = Newest
    BY <1>1 DEF Newest, clientVars, orderVars
  <2>3. acked' \in Nat /\ acked' <= Len(versions') - (nextSeq' - begin')
    <3>1. Len(versions') \in Nat
      BY <2>1, LenProperties DEF Inv, Typed, ClientsOK
    <3>. QED  BY <2>1, <3>1 DEF Inv, Typed, StateOK, AckOK
  <2>. QED  BY <2>2, <2>3 DEF Newest
<1>5. Saves(disk'.path.log \o buf', Least(disk'.path), versions', acked', Newest')
  BY <1>1, <1>2, <1>3, <1>4, SameLogSaves DEF DurInv, clientVars, orderVars
<1>6. SizeOK' /\ SyncOK'
  BY <1>1, <1>3 DEF SizeOK, SyncOK, InUse, At
<1>7. SavedOK'
  BY <1>1, <1>5 DEF SavedOK
<1>. QED  BY <1>1, <1>6, <1>7, MailReceived DEF DurInv

LEMMA DestroyReceivedSaves == ASSUME Inv, DurInv, NEW c \in Clients, DestroyReceived(c) PROVE DurInv'
<1>1. /\ Receive(c, "destroy") /\ At("idle") /\ Flushes /\ pc'.at = "destroyNew"
      /\ UNCHANGED <<clientVars, orderVars, promises, timer, proc, fdSize, needSync, dbKey, acked>>
  BY DEF DestroyReceived, Receive, Flushes, Goto
<1>2. SameLog /\ Least(disk'.path) \in Nat /\ Least(disk'.path) >= Least(disk.path)
  BY <1>1, FlushLeast
<1>3. Stands(disk.path.log \o buf) /\ pc.at \in InPath /\ ~At("down")
  BY <1>1, IdleState DEF At, InPath
<1>4. acked' = acked /\ acked' \in Nat /\ acked' <= Newest
  BY <1>1, NewestIs
<1>5. Saves(disk'.path.log \o buf', Least(disk'.path), versions', acked', Newest')
  BY <1>1, <1>2, <1>3, <1>4, SameLogSaves DEF DurInv, clientVars, orderVars
<1>6. SizeOK' /\ SyncOK'
  BY <1>1 DEF SizeOK, SyncOK, InUse, At
<1>7. SavedOK'
  BY <1>1, <1>5 DEF SavedOK
<1>. QED  BY <1>1, <1>6, <1>7, MailReceived DEF DurInv

-----------------------------------------------------------------------------
(* The actor processes what it holds                                       *)

LEMMA TryFlushLeast ==
    ASSUME Inv, SyncOK, pc.at \in InUse, NEW t \in Timers, TryFlush(t)
    PROVE  /\ SameLog /\ Least(disk'.path) \in Nat /\ Least(disk'.path) >= Least(disk.path)
           /\ ~needSync' => Least(disk'.path) = Len(disk'.path.log)
<1>1. SameLog
  BY TryFlushSame DEF Inv
<1>2. CASE Flushes /\ needSync' = (needSync \/ buf # <<>>)
  <2>1. /\ Least(disk'.path) \in Nat /\ Least(disk'.path) >= Least(disk.path)
        /\ buf = <<>> => disk'.path = disk.path
    BY <1>2, FlushLeast
  <2>. QED  BY <1>1, <1>2, <2>1 DEF SyncOK
<1>3. CASE UNCHANGED <<disk, needSync, buf>>
  BY <1>1, <1>3, SavedShape DEF SyncOK
<1>. QED  BY <1>2, <1>3 DEF TryFlush, Flushes

LEMMA SettleSaves == ASSUME Inv, DurInv, Settle PROVE DurInv'
<1> DEFINE due == {s \in waiting : s < begin}
           t == IF due # {} THEN DoImmediateSync(timer) ELSE timer
<1>1. /\ At("drain") /\ TryFlush(t) /\ pc'.at = "idle"
      /\ UNCHANGED <<clientVars, mail, begin, held, proc, fdSize, dbKey, acked>>
  BY DEF Settle, Goto
<1>2. timer \in Timers
  BY DEF Inv, Typed, ActorOK, Timers
<1>3. t \in Timers
  BY <1>2, TimerShape
<1> HIDE DEF t
<1>4. Stands(disk.path.log \o buf) /\ pc.at \in InUse
  BY <1>1 DEF Inv, DiskOK, At, InUse, InPath
<1>5. /\ SameLog /\ Least(disk'.path) \in Nat /\ Least(disk'.path) >= Least(disk.path)
      /\ ~needSync' => Least(disk'.path) = Len(disk'.path.log)
  BY <1>1, <1>3, <1>4, TryFlushLeast DEF DurInv
<1>6. acked' = acked /\ acked' \in Nat /\ acked' <= Newest
  BY <1>1, NewestIs
<1>7. SizeOK' /\ SyncOK' /\ SavedOK'
  BY <1>1, <1>4, <1>5, <1>6, InUseKept DEF DurInv, clientVars
<1>8. KeyMailOK'
  BY <1>1 DEF DurInv, KeyMailOK
<1>. QED  BY <1>7, <1>8 DEF DurInv

LEMMA TimeoutExpiredSaves == ASSUME Inv, DurInv, TimeoutExpired PROVE DurInv'
<1>1. At("idle") /\ UNCHANGED <<clientVars, mail, orderVars, proc, fdSize, dbKey, pc>>
  BY DEF TimeoutExpired
<1>2. Stands(disk.path.log \o buf) /\ pc.at \in InUse /\ pc'.at \in {"idle", "drain"}
  BY <1>1, IdleState DEF At, InUse
<1>3. acked' \in Nat /\ acked' <= Newest
  <2>1. Inv'
    BY TimeoutExpiredStep
  <2>2. Newest' = Newest
    BY <1>1 DEF Newest, clientVars, orderVars
  <2>3. acked' \in Nat /\ acked' <= Len(versions') - (nextSeq' - begin')
    <3>1. Len(versions') \in Nat
      BY <2>1, LenProperties DEF Inv, Typed, ClientsOK
    <3>. QED  BY <2>1, <3>1 DEF Inv, Typed, StateOK, AckOK
  <2>. QED  BY <2>2, <2>3 DEF Newest
<1>4. /\ SameLog /\ Least(disk'.path) \in Nat
      /\ \/ acked' = acked /\ Least(disk'.path) >= Least(disk.path)
         \/ Least(disk'.path) = Len(disk'.path.log) /\ buf' = <<>>
      /\ ~needSync' => Least(disk'.path) = Len(disk'.path.log)
  <2>1. CASE Sync
    <3>1. Syncs
      BY <2>1 DEF Sync, Syncs
    <3>. QED  BY <1>2, <3>1, SyncLeast DEF DurInv, Syncs
  <2>2. CASE TryFlush(Idle) /\ acked' = acked
    <3>1. Idle \in Timers
      BY DEF Idle, Timers
    <3>. QED  BY <1>2, <2>2, <3>1, TryFlushLeast DEF DurInv
  <2>3. CASE UNCHANGED <<disk, needSync, buf>> /\ acked' = acked
    <3>1. SameLog
      BY <2>3, SavedShape DEF SameLog
    <3>. QED  BY <1>2, <2>3, <3>1, SavedShape DEF DurInv, SyncOK
  <2>. QED  BY <2>1, <2>2, <2>3 DEF TimeoutExpired
<1>5. SizeOK' /\ SyncOK' /\ SavedOK'
  BY <1>1, <1>2, <1>3, <1>4, InUseKept DEF DurInv, clientVars, orderVars
<1>6. KeyMailOK'
  BY <1>1 DEF DurInv, KeyMailOK
<1>. QED  BY <1>5, <1>6 DEF DurInv

\* The version of the event that is processed.
LEMMA DrainNewest ==
    ASSUME Inv, ~At("down"), NEW m \in held, m.seq = begin, NEW h, Chain(h)
    PROVE  Content(h[begin]) = versions[Newest + 1] /\ Newest + 1 <= Len(versions)
<1>1. begin \in 1 .. nextSeq /\ nextSeq \in Nat /\ begin \in begin .. nextSeq - 1 /\ Len(versions) \in Nat
  BY LenProperties DEF Inv, Typed, ActorOK, ClientsOK, OrderOK, Ordered
<1>2. begin \in begin - 1 .. nextSeq - 1 /\ Len(versions) - (nextSeq - 1 - begin) = Newest + 1 /\ Newest + 1 <= Len(versions)
  BY <1>1 DEF Newest
<1>3. Versioned(h, begin, nextSeq, versions)
  BY DEF Chain
<1>. QED  BY <1>2, <1>3 DEF Versioned

LEMMA LazyFlushLeast ==
    ASSUME Inv, NEW e \in Events, LazyFlush(Append(buf, e))
    PROVE  /\ Least(disk'.path) \in Nat /\ Least(disk'.path) >= Least(disk.path)
           /\ ~needSync' => ~needSync /\ disk' = disk
           /\ Len(disk.path.log) + Len(buf) + 1 > FlushLimit => disk'.path.log # <<>>
<1>1. PICK all : all = Append(buf, e)
  OBVIOUS
<1>2. /\ disk \in Disks /\ disk.path \in Files /\ disk.path.log \in Seq(Events) /\ buf \in Seq(Events)
      /\ Len(disk.path.log) \in Nat /\ Len(buf) \in Nat /\ Least(disk.path) \in Nat
  BY SavedShape
<1>3. all \in Seq(Events) /\ Len(all) = Len(buf) + 1
  BY <1>1, <1>2
<1>4. CASE Len(all) > FlushLimit
  <2>1. disk' = [disk EXCEPT !.path = Flushed(disk.path, all)] /\ needSync'
    BY <1>1, <1>4 DEF LazyFlush
  <2>2. disk'.path = Flushed(disk.path, all)
    BY <1>2, <2>1 DEF Disks
  <2>3. disk'.path.log = disk.path.log \o all
    BY <1>2, <1>3, <2>2, FilesTyped
  <2>4. Len(disk'.path.log) = Len(disk.path.log) + Len(all) /\ Len(disk'.path.log) # 0
    <3>1. Len(disk.path.log \o all) = Len(disk.path.log) + Len(all)
      BY <1>2, <1>3, ConcatProperties
    <3>2. Len(disk.path.log) + Len(all) # 0
      <4>1. \A x, y \in Nat : x + (y + 1) # 0
        OBVIOUS
      <4>. QED  BY <1>2, <1>3, <4>1, Zenon
    <3>. QED  BY <2>3, <3>1, <3>2, Zenon
  <2>5. disk'.path.log # <<>>
    BY <2>4
  <2>. QED  BY <1>2, <1>3, <2>1, <2>2, <2>5, LeastShape
<1>5. CASE ~(Len(all) > FlushLimit)
  <2>1. disk' = disk /\ needSync' = (needSync \/ FALSE)
    BY <1>1, <1>5 DEF LazyFlush
  <2>2. Len(disk.path.log) + Len(buf) + 1 > FlushLimit => Len(disk.path.log) # 0
    BY <1>2, <1>3, <1>5, Constants
  <2>3. Len(disk.path.log) # 0 => disk.path.log # <<>>
    BY EmptySeq
  <2>4. Least(disk'.path) \in Nat /\ Least(disk'.path) >= Least(disk.path)
    BY <1>2, <2>1
  <2>5. ~needSync' => ~needSync /\ disk' = disk
    BY <2>1
  <2>. QED  BY <2>1, <2>2, <2>3, <2>4, <2>5
<1>. QED  BY <1>4, <1>5

LEMMA DrainSaves == ASSUME Inv, DurInv, NEW m \in held, Drain(m) PROVE DurInv'
<1>1. /\ At("drain") /\ m.seq = begin /\ begin' = begin + 1
      /\ \/ m.ev = NoEvent /\ UNCHANGED <<logVars, pc>>
         \/ m.ev # NoEvent /\ DoEvent(m.ev) /\ LazyFlush(Append(buf, m.ev))
      /\ UNCHANGED <<clientVars, mail, waiting, dbKey, acked>>
  BY DEF Drain, IsNext
<1>2. PICK h : Chain(h)
  BY DEF Inv, ChainOK
<1>3. Drained(begin) /\ MapOf(proc') = h[begin]
  BY <1>1, <1>2, DrainLog
<1>4. ~At("down") /\ pc.at \in InUse /\ pc.at \in InPath
  BY <1>1 DEF At, InUse, InPath
<1>5. Content(h[begin]) = versions[Newest + 1] /\ Newest + 1 <= Len(versions)
  BY <1>1, <1>2, <1>4, DrainNewest
<1>6. Newest \in Nat /\ acked \in Nat /\ acked <= Newest
  BY NewestIs
<1>7. Newest' = Newest + 1 /\ versions' = versions /\ acked' = acked
  <2>1. begin \in Int /\ nextSeq \in Int /\ Len(versions) \in Int
    BY NewestIs DEF Inv, Typed, ActorOK, ClientsOK
  <2>. QED  BY <1>1, <2>1 DEF Newest, clientVars
<1>8. PICK log : log = disk.path.log \o buf
  OBVIOUS
<1>9. /\ log \in Seq(Events) /\ Saves(log, Least(disk.path), versions, acked, Newest) /\ Least(disk.path) \in Nat
      /\ Len(log) = Len(disk.path.log) + Len(buf) /\ Len(disk.path.log) \in Nat /\ Len(buf) \in Nat /\ fdSize = Len(log)
      /\ (~needSync => Least(disk.path) = Len(disk.path.log))
  BY <1>4, <1>8, SavedShape DEF DurInv, SavedOK, SizeOK, SyncOK
<1>10. KeyMailOK'
  BY <1>1 DEF DurInv, KeyMailOK
<1>11. CASE m.ev = NoEvent /\ UNCHANGED <<logVars, pc>>
  <2>1. \A i \in acked .. Newest : i \in acked .. Newest + 1 /\ versions[i] = versions[i]
    BY <1>6
  <2>2. Saves(log, Least(disk.path), versions, acked, Newest + 1)
    BY <1>9, <2>1, SavesMore
  <2>3. SizeOK' /\ SyncOK'
    BY <1>11 DEF DurInv, SizeOK, SyncOK, logVars, At
  <2>4. SavedOK'
    BY <1>1, <1>7, <1>8, <1>11, <2>2 DEF SavedOK, logVars, At
  <2>. QED  BY <1>10, <2>3, <2>4 DEF DurInv
<1>12. CASE m.ev # NoEvent /\ DoEvent(m.ev) /\ LazyFlush(Append(buf, m.ev))
  <2>1. PICK e \in Events : e = m.ev
    BY MessageShape DEF Inv, Typed, ActorOK, EventMessages
  <2>2. disk'.path.log \o buf' = Append(log, e)
    BY <1>8, <1>12, <2>1, LazyFlushLog DEF Inv
  <2>3. /\ Least(disk'.path) \in Nat /\ Least(disk'.path) >= Least(disk.path)
        /\ ~needSync' => ~needSync /\ disk' = disk
        /\ Len(disk.path.log) + Len(buf) + 1 > FlushLimit => disk'.path.log # <<>>
    BY <1>12, <2>1, LazyFlushLeast
  <2>4. Append(log, e) \in Seq(Events) /\ Len(Append(log, e)) = Len(log) + 1
    BY <1>9
  <2>5. Content(MapOf(Load(Append(log, e)))) = versions[Newest + 1]
    <3>1. Rep(Load(Append(log, e)), h[begin])
      BY <1>3, <2>2 DEF Drained
    <3>. QED  BY <1>5, <3>1, RepMap
  <2>6. Saves(Append(log, e), Least(disk'.path), versions, acked, Newest + 1)
    <3>1. Saves(Append(log, e), Least(disk.path), versions, acked, Newest + 1)
      BY <1>6, <1>9, <2>5, SavesAppend
    <3>. QED  BY <1>9, <2>3, <2>4, <3>1, SavesLess
  <2>7. fdSize' = Len(Append(log, e)) /\ fdSize' = Len(disk.path.log) + Len(buf) + 1
    BY <1>9, <1>12, <2>4 DEF DoEvent
  <2>8. pc'.at \in {"drain", "openNew"} /\ (pc'.at = "openNew" => NeedReindex(fdSize', proc'))
    BY <1>1, <1>3, <1>12 DEF DoEvent, Drained, At, Rep
  <2>9. pc'.at = "openNew" => disk'.path.log # <<>>
    <3>1. ASSUME NeedReindex(fdSize', proc') PROVE Len(disk.path.log) + Len(buf) + 1 > FlushLimit
      <4>1. PICK r \in ReindexRules : fdSize' > r[1]
        BY <3>1 DEF NeedReindex
      <4>2. r[1] \in Nat /\ r[1] >= FlushLimit /\ FlushLimit \in Nat
        BY BinlogAssumption
      <4>. QED  BY <1>9, <2>7, <4>1, <4>2
    <3>. QED  BY <2>3, <2>8, <3>1
  <2>10. SizeOK'
    BY <2>2, <2>7, <2>8, <2>9 DEF SizeOK, At
  <2>11. SyncOK'
    BY <1>9, <2>3, <2>8 DEF SyncOK, At
  <2>12. SavedOK'
    BY <1>7, <2>2, <2>6, <2>8 DEF SavedOK
  <2>. QED  BY <1>10, <2>10, <2>11, <2>12 DEF DurInv
<1>. QED  BY <1>1, <1>11, <1>12

-----------------------------------------------------------------------------
(* The second file is written and takes the place of the first             *)

LEMMA ReindexFrame ==
    ASSUME UNCHANGED reindexFrame
    PROVE  UNCHANGED <<versions, acked, nextSeq, begin, mail, proc, dbKey>> /\ Newest' = Newest /\ (KeyMailOK => KeyMailOK')
BY DEF reindexFrame, clientVars, orderVars, Newest, KeyMailOK

LEMMA OpenNewSaves == ASSUME Inv, DurInv, OpenNew PROVE DurInv'
<1>1. /\ At("openNew") /\ disk' = [disk EXCEPT !.new = NewFile] /\ fdSize' = Len(buf')
      /\ pc' = [pc EXCEPT !.at = "reindex"] /\ UNCHANGED reindexFrame
  BY DEF OpenNew
<1>2. pc'.at = "reindex" /\ disk'.path = disk.path
  BY <1>1, SavedShape DEF Inv, Typed, StateOK, Disks
<1>3. UNCHANGED <<versions, acked>> /\ Newest' = Newest /\ KeyMailOK'
  BY <1>1, ReindexFrame DEF DurInv
<1>4. Saves(disk.path.log, Least(disk.path), versions, acked, Newest)
  <2>1. Saves(disk.path.log \o buf, Least(disk.path), versions, acked, Newest)
    BY <1>1 DEF DurInv, SavedOK, InPath, At
  <2>. QED  BY <2>1, SavedShape, SavesStart
<1>5. SizeOK'
  BY <1>1, <1>2 DEF DurInv, SizeOK, InUse, At
<1>6. SyncOK'
  BY <1>2 DEF SyncOK, InUse, At
<1>7. SavedOK'
  BY <1>2, <1>3, <1>4 DEF SavedOK, InPath
<1>. QED  BY <1>3, <1>5, <1>6, <1>7 DEF DurInv

LEMMA OpenNewFailsSaves == ASSUME Inv, DurInv, OpenNewFails PROVE DurInv'
<1>1. At("openNew") /\ pc' = [pc EXCEPT !.at = pc.then] /\ UNCHANGED <<reindexFrame, buf, fdSize, needSync, disk>>
  BY DEF OpenNewFails
<1>2. pc'.at \in {"idle", "drain", "ready"} /\ pc.at \in InUse
  BY <1>1 DEF At, Reindexing, Inv, LabelOK, Typed, StateOK, InUse
<1>3. SizeOK' /\ SyncOK' /\ SavedOK'
  BY <1>1, <1>2, FilesKept, ReindexFrame DEF DurInv, logFrame
<1>. QED  BY <1>1, <1>3, ReindexFrame DEF DurInv

\* The second file has all of the map.  It is synced, or no power loss can happen.
LEMMA WriteNewSaves == ASSUME PowerOrKey, Inv, DurInv, WriteNew PROVE DurInv'
<1>1. /\ At("reindex")
      /\ disk' = [disk EXCEPT !.new = IF disk.path.log # <<>> THEN Synced(Flushed(disk.new, buf)) ELSE Flushed(disk.new, buf)]
      /\ pc' = [pc EXCEPT !.at = "unlink"] /\ UNCHANGED <<reindexFrame, fdSize>>
  BY DEF WriteNew
<1>2. disk.new = NewFile /\ Stands(buf) /\ ~At("down") /\ disk.path.there
  BY <1>1 DEF Inv, DiskOK, At
<1>3. disk \in Disks /\ disk.new \in Files /\ buf \in Seq(Events) /\ disk.path \in Files
  BY SavedShape
<1>4. PICK f : f = Flushed(disk.new, buf)
  OBVIOUS
<1>5. f \in Files /\ f.log = buf
  <2>1. disk.new.log = <<>> /\ <<>> \o buf = buf
    BY <1>2, <1>3, ConcatEmptySeq DEF NewFile
  <2>2. f \in Files /\ f.log = disk.new.log \o buf
    BY <1>3, <1>4, FilesTyped
  <2>. QED  BY <2>1, <2>2
<1>6. PICK y : y = IF disk.path.log # <<>> THEN Synced(f) ELSE f
  OBVIOUS
<1>7. y \in Files /\ y.log = buf /\ Least(y) = Len(y.log)
  <2>1. CASE disk.path.log # <<>>
    BY <1>5, <1>6, <2>1, FilesTyped, SyncedShape, LeastShape
  <2>2. CASE disk.path.log = <<>>
    <3>1. "power" \notin Faults
      BY <1>1, <2>2 DEF PowerOrKey, DurInv, SizeOK, At
    <3>. QED  BY <1>5, <1>6, <2>2, <3>1 DEF Least
  <2>. QED  BY <2>1, <2>2
<1>8. disk'.path = disk.path /\ disk'.new = y
  BY <1>1, <1>3, <1>4, <1>6, <1>7 DEF Disks
<1>9. pc'.at = "unlink"
  BY <1>1 DEF Inv, Typed, StateOK
<1>10. UNCHANGED <<versions, acked>> /\ Newest' = Newest /\ KeyMailOK'
  BY <1>1, ReindexFrame DEF DurInv
<1>11. Saves(y.log, Least(y), versions, acked, Newest)
  BY <1>2, <1>3, <1>7, StandsNewest
<1>12. SizeOK'
  BY <1>1, <1>7, <1>8, <1>9 DEF DurInv, SizeOK, InUse, At
<1>13. SyncOK'
  BY <1>7, <1>8, <1>9 DEF SyncOK, InUse, At
<1>14. SavedOK'
  BY <1>1, <1>8, <1>9, <1>10, <1>11 DEF DurInv, SavedOK, InPath, At
<1>. QED  BY <1>10, <1>12, <1>13, <1>14 DEF DurInv

LEMMA UnlinkPathSaves == ASSUME Inv, DurInv, UnlinkPath PROVE DurInv'
<1>1. /\ At("unlink") /\ disk' = [disk EXCEPT !.path = NoFile] /\ pc' = [pc EXCEPT !.at = "rename"]
      /\ UNCHANGED <<reindexFrame, buf, fdSize, needSync>>
  BY DEF UnlinkPath
<1>2. disk'.new = disk.new
  BY <1>1, SavedShape DEF Disks
<1>3. pc'.at = "rename"
  BY <1>1 DEF Inv, Typed, StateOK
<1>4. UNCHANGED <<versions, acked>> /\ Newest' = Newest /\ KeyMailOK'
  BY <1>1, ReindexFrame DEF DurInv
<1>5. SizeOK' /\ SyncOK'
  BY <1>1, <1>2, <1>3 DEF DurInv, SizeOK, SyncOK, InUse, At
<1>6. SavedOK'
  BY <1>1, <1>2, <1>3, <1>4 DEF DurInv, SavedOK, InPath, At
<1>. QED  BY <1>4, <1>5, <1>6 DEF DurInv

LEMMA RenameNewSaves == ASSUME Inv, DurInv, RenameNew PROVE DurInv'
<1>1. /\ At("rename") /\ disk' = [path |-> disk.new, new |-> NoFile] /\ pc' = [pc EXCEPT !.at = pc.then]
      /\ UNCHANGED <<reindexFrame, buf, fdSize, needSync>>
  BY DEF RenameNew
<1>2. pc'.at \in {"idle", "drain", "ready"}
  BY <1>1 DEF At, Reindexing, Inv, LabelOK, Typed, StateOK
<1>3. disk'.path = disk.new /\ buf' = <<>>
  BY <1>1 DEF Inv, DiskOK, At
<1>4. disk'.path.log \o buf' = disk.new.log
  BY <1>3, SavedShape, ConcatEmptySeq
<1>5. UNCHANGED <<versions, acked>> /\ Newest' = Newest /\ KeyMailOK'
  BY <1>1, ReindexFrame DEF DurInv
<1>6. fdSize = Len(disk.new.log) /\ Least(disk.new) = Len(disk.new.log) /\ Saves(disk.new.log, Least(disk.new), versions, acked, Newest)
  BY <1>1 DEF DurInv, SizeOK, SyncOK, SavedOK, At
<1>7. SizeOK'
  BY <1>1, <1>2, <1>4, <1>6 DEF SizeOK, At
<1>8. SyncOK'
  BY <1>2, <1>3, <1>6 DEF SyncOK, At
<1>9. SavedOK'
  BY <1>2, <1>3, <1>4, <1>5, <1>6 DEF SavedOK
<1>. QED  BY <1>5, <1>7, <1>8, <1>9 DEF DurInv

-----------------------------------------------------------------------------
(* The process ends and starts                                             *)

LEMMA StopSaves ==
    ASSUME NEW d, Least(Opened(d)) = Len(Opened(d).log), StopWith(d) PROVE DurInv'
<1>1. disk' = d /\ mail' = [c \in Clients |-> <<>>] /\ pc'.at = "down"
  BY DEF StopWith, Goto
<1>2. SizeOK' /\ SavedOK'
  BY <1>1 DEF SizeOK, SavedOK, InUse, InPath, At
<1>3. SyncOK'
  BY <1>1 DEF SyncOK, InUse, At
<1>4. KeyMailOK'
  BY <1>1 DEF KeyMailOK
<1>. QED  BY <1>2, <1>3, <1>4 DEF DurInv

\* The store comes back with one of the versions that were not given up.
ComesBack(d) == Least(Opened(d)) = Len(Opened(d).log) /\ \E i \in acked .. Newest : Recovered(d) = versions[i]

Survives(r, vs, a, b) ==
    r.there /\ Least(r) = Len(r.log) /\ \E i \in a .. b : Content(MapOf(Load(r.log))) = vs[i]

CutOff(r, lo, all) == \E n \in lo .. Len(all) : r.there /\ r.log = Prefix(all, n) /\ r.safe = n

LEMMA RemainsAre ==
    ASSUME NEW f, NEW b, f.there, NEW r \in Remains(f, b) PROVE CutOff(r, Least(f), f.log \o b)
<1> DEFINE all == f.log \o b
           least == IF "power" \in Faults THEN f.safe ELSE Len(f.log)
<1>1. PICK n \in least .. Len(all), t \in {FALSE, FileKey(all) # None /\ Len(all) > least} :
          r = [there |-> TRUE, log |-> SubSeq(all, 1, n), safe |-> n, torn |-> t]
  BY DEF Remains
<1>. QED  BY <1>1 DEF Least, CutOff, Prefix

LEMMA RemainsSaved ==
    ASSUME NEW f \in Files, NEW b \in Seq(Events), f.there, NEW vs, NEW a1, NEW b1, Saves(f.log \o b, Least(f), vs, a1, b1),
           NEW r \in Remains(f, b)
    PROVE  Survives(r, vs, a1, b1)
<1>1. PICK all : all = f.log \o b
  OBVIOUS
<1>2. all \in Seq(Events) /\ Len(all) \in Nat /\ Least(f) \in Nat
  BY <1>1, FilesTyped, ConcatProperties, LenProperties, LeastShape
<1>3. PICK n \in Least(f) .. Len(all) : r.there /\ r.log = Prefix(all, n) /\ r.safe = n
  <2>1. CutOff(r, Least(f), f.log \o b)
    BY RemainsAre
  <2>. QED  BY <1>1, <2>1 DEF CutOff
<1>4. n \in 0 .. Len(all) /\ n \in Least(f) .. Len(all)
  BY <1>2, <1>3
<1>5. Len(Prefix(all, n)) = n /\ r.log = Prefix(all, n) /\ r.safe = n /\ r.there
  BY <1>2, <1>3, <1>4, PrefixShape
<1>6. \E i \in a1 .. b1 : Content(MapOf(Load(Prefix(all, n)))) = vs[i]
  BY <1>1, <1>4 DEF Saves
<1>. QED  BY <1>5, <1>6 DEF Least, Survives

LEMMA CrashComesBack ==
    ASSUME Inv, DurInv, Crash PROVE \E d : StopWith(d) /\ ComesBack(d)
<1> DEFINE pathRest == IF At("idle") \/ At("drain") THEN buf ELSE <<>>
           newRest == IF At("reindex") THEN buf ELSE <<>>
<1>1. ~At("down") /\ \E p \in Remains(disk.path, pathRest), n \in Remains(disk.new, newRest) : StopWith([path |-> p, new |-> n])
  BY DEF Crash
<1>2. PICK p \in Remains(disk.path, pathRest), n \in Remains(disk.new, newRest) : StopWith([path |-> p, new |-> n])
  BY <1>1
<1>3. PICK d : d = [path |-> p, new |-> n]
  OBVIOUS
<1>4. /\ disk.path \in Files /\ disk.new \in Files /\ buf \in Seq(Events) /\ <<>> \in Seq(Events)
      /\ disk.path.log \in Seq(Events) /\ disk.new.log \in Seq(Events) /\ Least(disk.path) \in Nat
  BY SavedShape, EmptySeq
<1>5. pathRest \in Seq(Events) /\ newRest \in Seq(Events)
  BY <1>4
<1>6. disk.path.log \o <<>> = disk.path.log /\ disk.new.log \o <<>> = disk.new.log
  BY <1>4, ConcatEmptySeq
<1>7. pc.at \in Labels \ {"down", "fatal"}
  BY <1>1 DEF Inv, Typed, StateOK, LabelOK, At
<1>8. CASE At("rename")
  <2>1. disk.path = NoFile /\ disk.new.there /\ Saves(disk.new.log, Least(disk.new), versions, acked, Newest) /\ newRest = <<>>
    BY <1>8 DEF Inv, DiskOK, At, DurInv, SavedOK
  <2>whole. Saves(disk.new.log \o newRest, Least(disk.new), versions, acked, Newest)
    BY <1>6, <2>1
  <2>2. p = NoFile
    BY <2>1 DEF Remains, NoFile
  <2>3. Survives(n, versions, acked, Newest)
    BY <1>4, <1>5, <2>whole, <2>1, RemainsSaved
  <2>4. Opened(d) = n
    BY <1>3, <2>2 DEF Opened, NoFile
  <2>5. ComesBack(d)
    BY <2>3, <2>4 DEF ComesBack, Recovered, Survives
  <2>. QED  BY <1>2, <1>3, <2>5
<1>9. CASE ~At("rename")
  <2>1. disk.path.there /\ Saves(disk.path.log \o pathRest, Least(disk.path), versions, acked, Newest)
    <3>1. CASE pc.at \in InPath
      <4>1. disk.path.there /\ Saves(disk.path.log \o buf, Least(disk.path), versions, acked, Newest)
        BY <3>1 DEF Inv, DiskOK, DurInv, SavedOK
      <4>2. Saves(disk.path.log, Least(disk.path), versions, acked, Newest)
        BY <1>4, <4>1, SavesStart
      <4>. QED  BY <1>6, <4>1, <4>2
    <3>2. CASE pc.at \in {"reindex", "unlink"}
      <4>1. disk.path.there /\ Saves(disk.path.log, Least(disk.path), versions, acked, Newest) /\ pathRest = <<>>
        BY <3>2 DEF Inv, DiskOK, DurInv, SavedOK, At
      <4>. QED  BY <1>6, <4>1
    <3>. QED  BY <1>7, <1>9, <3>1, <3>2 DEF Labels, InPath, At
  <2> HIDE DEF pathRest, newRest
  <2>2. Survives(p, versions, acked, Newest)
    BY <1>4, <1>5, <2>1, RemainsSaved
  <2>3. Opened(d) = p
    BY <1>3, <2>2 DEF Opened, Survives
  <2>4. ComesBack(d)
    BY <2>2, <2>3 DEF ComesBack, Recovered, Survives
  <2>. QED  BY <1>2, <1>3, <2>4
<1>. QED  BY <1>8, <1>9

LEMMA ClosedComesBack == ASSUME Inv, DurInv, Closed PROVE StopWith(disk) /\ ComesBack(disk)
<1>1. At("closed") /\ StopWith(disk)
  BY DEF Closed
<1>2. /\ disk.path.there /\ buf = <<>> /\ Saves(disk.path.log \o buf, Least(disk.path), versions, acked, Newest)
  BY <1>1 DEF Inv, DiskOK, InPath, At, DurInv, SavedOK
<1>3. Least(disk.path) = Len(disk.path.log)
  BY <1>1 DEF Inv, DiskOK, At, DurInv, SyncOK
<1>4. disk.path.log \in Seq(Events) /\ disk.path.log \o buf = disk.path.log
  BY <1>2, SavedShape, ConcatEmptySeq
<1>5. Len(disk.path.log) \in Len(disk.path.log) .. Len(disk.path.log) /\ Prefix(disk.path.log, Len(disk.path.log)) = disk.path.log
  BY <1>4, LenProperties, PrefixShape
<1>6. \E i \in acked .. Newest : Content(MapOf(Load(disk.path.log))) = versions[i]
  BY <1>2, <1>3, <1>4, <1>5 DEF Saves
<1>. QED  BY <1>1, <1>2, <1>3, <1>6 DEF ComesBack, Opened, Recovered

LEMMA NoFileLeast == Least(NoFile) = 0 /\ Len(NoFile.log) = 0 /\ Load(NoFile.log) = NewProcessor
BY LoadEmpty DEF Least, NoFile

LEMMA DestroyPathEmpties ==
    ASSUME Inv, DestroyPath
    PROVE  DurInv' /\ versions' = <<[k \in Keys |-> None]>> /\ acked' = 1
<1>1. At("destroyPath") /\ StopWith([path |-> NoFile, new |-> disk.new])
  BY DEF DestroyPath
<1>2. disk.new = NoFile
  BY <1>1 DEF Inv, DiskOK
<1>3. PICK d : d = [path |-> NoFile, new |-> disk.new]
  OBVIOUS
<1>4. Opened(d) = NoFile
  BY <1>2, <1>3 DEF Opened
<1>5. DurInv'
  BY <1>1, <1>3, <1>4, NoFileLeast, StopSaves
<1>6. Recovered(d) = [k \in Keys |-> None]
  BY <1>4, NoFileLeast, NewMapIs DEF Recovered, Content, NewMap, NoEntry
<1>. QED  BY <1>1, <1>3, <1>5, <1>6 DEF StopWith

LEMMA DestroyNewSaves == ASSUME Inv, DurInv, DestroyNew PROVE DurInv'
<1>1. /\ At("destroyNew") /\ pc'.at = "destroyPath" /\ disk' = [disk EXCEPT !.new = NoFile]
      /\ UNCHANGED <<clientVars, mail, orderVars, promises, timer, proc, buf, fdSize, needSync, dbKey, acked>>
  BY DEF DestroyNew, Goto
<1>2. disk'.path = disk.path
  BY <1>1, SavedShape DEF Disks
<1>3. Newest' = Newest /\ versions' = versions /\ KeyMailOK'
  BY <1>1 DEF Newest, clientVars, orderVars, DurInv, KeyMailOK
<1>4. SizeOK' /\ SyncOK'
  BY <1>1 DEF SizeOK, SyncOK, InUse, At
<1>5. SavedOK'
  BY <1>1, <1>2, <1>3 DEF DurInv, SavedOK, InPath, At
<1>. QED  BY <1>3, <1>4, <1>5 DEF DurInv

LEMMA OpenSaves == ASSUME Inv, DurInv, NEW k \in DbKeys \cup {None}, Open(k) PROVE DurInv'
<1>1. PICK f : f = Opened(disk)
  OBVIOUS
<1>2. /\ At("down")
      /\ disk' = [path |-> [f EXCEPT !.there = TRUE, !.torn = FALSE], new |-> IF disk.path.there THEN disk.new ELSE NoFile]
      /\ proc' = Load(f.log) /\ fdSize' = Len(f.log)
      /\ pc' = (CASE ~Load(f.log).ok -> [at |-> "fatal", then |-> "fatal"]
                  [] Load(f.log).ok /\ k # None /\ (FileKey(f.log) # k \/ f.torn) -> [at |-> "openNew", then |-> "ready"]
                  [] OTHER -> [at |-> "ready", then |-> "ready"])
      /\ UNCHANGED <<versions, mail, buf, acked>>
  BY <1>1 DEF Open
<1>3. f \in Files /\ f.log \in Seq(Events) /\ Len(f.log) \in Nat
  BY <1>1, SavedShape, FilesTyped DEF Opened
<1>4. buf = <<>> /\ Least(f) = Len(f.log) /\ acked = 1 /\ Len(versions) = 1
  BY <1>1, <1>2 DEF Inv, DiskOK, FreshOK, Unopened, DurInv, SyncOK, At
<1>5. PICK y : y = [f EXCEPT !.there = TRUE, !.torn = FALSE]
  OBVIOUS
<1>6. y \in Files /\ y.log = f.log /\ y.safe = f.safe
  BY <1>3, <1>5 DEF Files
<1>7. disk'.path = y /\ Least(y) = Len(y.log)
  BY <1>2, <1>4, <1>5, <1>6 DEF Least
<1>8. disk'.path.log \o buf' = f.log
  BY <1>2, <1>3, <1>4, <1>6, <1>7, ConcatEmptySeq
<1>9. Inv'
  BY OpenStep
<1>fresh. begin' = nextSeq' /\ begin' \in Nat /\ nextSeq' \in Nat
  <2>1. begin' = nextSeq'
    BY DEF Open
  <2>2. nextSeq' \in Nat
    BY <1>9 DEF Inv, Typed, ClientsOK
  <2>. QED  BY <2>1, <2>2
<1>10. pc'.at \in {"ready", "openNew"} /\ (pc'.at = "openNew" => k # None)
  BY <1>2, <1>9 DEF Inv, LabelOK
<1>11. Saves(f.log, Len(f.log), versions', acked', Newest')
  <2>1. Stands(disk.path.log \o buf)'
    BY <1>9, <1>10 DEF Inv, DiskOK, InPath
  <2>2. ~At("down")'
    BY <1>10 DEF At
  <2>3. Content(MapOf(Load(f.log))) = versions'[Newest']
    <3>1. Content(MapOf(proc')) = versions'[Newest']
      <4>1. PICK h : Chain(h)'
        BY <1>9 DEF Inv, ChainOK
      <4>2. \A b, n \in Nat : b = n => b - 1 \in b - 1 .. n - 1 /\ n - 1 - (b - 1) = n - b
        OBVIOUS
      <4>3. begin' - 1 \in begin' - 1 .. nextSeq' - 1 /\ nextSeq' - 1 - (begin' - 1) = nextSeq' - begin'
        BY <1>fresh, <4>2, Zenon
      <4>. QED  BY <2>2, <4>1, <4>3 DEF Chain, Versioned, Newest
    <3>. QED  BY <1>2, <3>1
  <2>4. Newest' = 1
    <3>1. nextSeq' - begin' = 0
      <4>1. \A b, n \in Nat : b = n => n - b = 0
        OBVIOUS
      <4>. QED  BY <1>fresh, <4>1, Zenon
    <3>. QED  BY <1>2, <1>4, <3>1 DEF Newest
  <2>5. acked' = 1 /\ 1 \in Nat /\ 1 <= 1 /\ Content(MapOf(Load(f.log))) = versions'[1]
    BY <1>2, <1>4, <2>3, <2>4
  <2>6. PICK vs : vs = versions'
    OBVIOUS
  <2>7. Saves(f.log, Len(f.log), vs, 1, 1)
    BY <1>3, <2>5, <2>6, SavesAll
  <2>. QED  BY <2>4, <2>5, <2>6, <2>7
<1>12. SizeOK'
  <2>1. KeyStays => pc'.at # "openNew"
    BY <1>10 DEF KeyStays
  <2>. QED  BY <1>2, <1>8, <1>10, <2>1 DEF SizeOK, At
<1>13. SyncOK'
  BY <1>7, <1>10 DEF SyncOK, At
<1>14. SavedOK'
  BY <1>6, <1>7, <1>8, <1>10, <1>11 DEF SavedOK
<1>15. KeyMailOK'
  BY <1>2 DEF DurInv, KeyMailOK
<1>. QED  BY <1>12, <1>13, <1>14, <1>15 DEF DurInv

LEMMA ReadySaves == ASSUME Inv, DurInv, Ready PROVE DurInv'
<1>1. /\ At("ready") /\ pc'.at = "idle"
      /\ UNCHANGED <<map, nextSeq, versions, mail, orderVars, promises, timer, logVars, dbKey, acked>>
  BY DEF Ready, Goto
<1>2. SizeOK' /\ SyncOK' /\ SavedOK'
  BY <1>1, FilesKept DEF DurInv, InUse, logFrame, logVars, orderVars, At
<1>. QED  BY <1>1, <1>2 DEF DurInv, KeyMailOK

LEMMA InitDurInv == ASSUME Init PROVE DurInv
<1>1. pc.at = "down" /\ disk = [path |-> NoFile, new |-> NoFile] /\ mail = [c \in Clients |-> <<>>]
  BY DEF Init
<1>2. Opened(disk) = NoFile
  BY <1>1 DEF Opened, NoFile
<1>3. SizeOK /\ SavedOK
  BY <1>1 DEF SizeOK, SavedOK, InUse, InPath, At
<1>4. SyncOK
  BY <1>1, <1>2, NoFileLeast DEF SyncOK, InUse, At
<1>5. KeyMailOK
  BY <1>1 DEF KeyMailOK
<1>. QED  BY <1>3, <1>4, <1>5 DEF DurInv

LEMMA ClientSaves == ASSUME Inv, DurInv, NEW c \in Clients, Client(c) PROVE DurInv'
<1>1. Typed /\ Tidy(map)
  BY MapTidy DEF Inv
<1>2. ASSUME NEW k \in Keys, NEW v \in Values, Set(c, k, v) PROVE DurInv'
  BY <1>1, <1>2, SetGrows, GrowthSaves
<1>3. ASSUME NEW ks \in (SUBSET Keys) \ {{}}, NEW order \in SetToSeqs(ks), EraseKeys(c, order) PROVE DurInv'
  BY <1>1, <1>3, EraseGrows, GrowthSaves
<1>4. CASE LazySync(c)
  BY <1>1, <1>4, LazySyncGrows, GrowthSaves
<1>5. "forceSync" \in Kinds /\ "forceFlush" \in Kinds /\ "changeKey" \in Kinds /\ "close" \in Kinds /\ "destroy" \in Kinds
  BY DEF Kinds
<1>6. CASE ForceSync(c) \/ ForceFlush(c) \/ Close(c) \/ CloseAndDestroy(c)
  BY <1>5, <1>6, AskSaves DEF ForceSync, ForceFlush, Close, CloseAndDestroy
<1>7. ASSUME NEW k \in DbKeys \cup {None}, ChangeKey(c, k) PROVE DurInv'
  BY <1>5, <1>7, AskSaves DEF ChangeKey
<1>. QED  BY <1>2, <1>3, <1>4, <1>6, <1>7 DEF Client

LEMMA DurInvStep == ASSUME PowerOrKey, Inv, DurInv, [Next]_vars PROVE DurInv'
<1>1. ASSUME NEW c \in Clients, Client(c) PROVE DurInv'
  BY <1>1, ClientSaves
<1>2. ASSUME NEW c \in Clients, Received(c) PROVE DurInv'
  BY <1>2, AddRawEventSaves, ForceSyncReceivedSaves, ForceFlushReceivedSaves, ChangeKeyReceivedSaves, CloseReceivedSaves,
     DestroyReceivedSaves DEF Received
<1>3. CASE Closed \/ DestroyPath
  BY <1>3, ClosedComesBack, StopSaves, DestroyPathEmpties DEF ComesBack
<1>4. CASE Internal
  BY <1>3, <1>4, DrainSaves, SettleSaves, OpenNewSaves, WriteNewSaves, UnlinkPathSaves, RenameNewSaves, DestroyNewSaves
     DEF Internal
<1>5. CASE Crash
  BY <1>5, CrashComesBack, StopSaves DEF ComesBack
<1>6. CASE TimeoutExpired \/ OpenNewFails
  BY <1>6, TimeoutExpiredSaves, OpenNewFailsSaves
<1>7. ASSUME NEW k \in DbKeys \cup {None}, Open(k) PROVE DurInv'
  BY <1>7, OpenSaves
<1>8. CASE Ready
  BY <1>8, ReadySaves
<1>9. CASE UNCHANGED vars
  <2>1. UNCHANGED logFrame /\ UNCHANGED <<nextSeq, versions, pc, mail>>
    BY <1>9 DEF vars, clientVars, orderVars, logVars, logFrame
  <2>2. SizeOK' /\ SyncOK' /\ SavedOK'
    BY <2>1, SamePlace DEF DurInv
  <2>. QED  BY <2>1, <2>2 DEF DurInv, KeyMailOK
<1>. QED  BY <1>1, <1>2, <1>4, <1>5, <1>6, <1>7, <1>8, <1>9 DEF Next

\* The invariant holds in every state the store reaches.
LEMMA DurInvAlways == PowerOrKey => (Spec => [](Inv /\ DurInv))
<1> SUFFICES ASSUME PowerOrKey PROVE Spec => [](Inv /\ DurInv)
  OBVIOUS
<1>1. Init => Inv /\ DurInv
  BY InvInit, InitDurInv
<1>2. Inv /\ DurInv /\ [Next]_vars => (Inv /\ DurInv)'
  BY InvStep, DurInvStep
<1>. QED  BY <1>1, <1>2, PTL DEF Spec

-----------------------------------------------------------------------------
(* Every step of the store is a step of DurableMap or changes nothing that *)
(* DurableMap sees                                                         *)

Destroying == pc.at \in {"destroyNew", "destroyPath"}
Implements == Durable!Next \/ UNCHANGED Durable!vars
NothingLost == At("down")' => \E i \in acked .. Len(versions) : versions'[1] = versions[i] \/ At("destroyPath")

LEMMA Stutters ==
    ASSUME UNCHANGED <<versions, acked>>, pc'.at # "down", Destroying' = Destroying PROVE Implements /\ NothingLost
BY DEF Implements, NothingLost, Destroying, Durable!vars, At

LEMMA GrowthImplements == ASSUME Inv, NEW c \in Clients, Grows(c) PROVE Implements /\ NothingLost
<1>1. PICK n, ms, g : Growth(c, n, ms, g)
  BY DEF Grows
<1>2. n \in Nat /\ UNCHANGED <<pc, acked>> /\ up
  BY <1>1 DEF Growth, clientFrame
<1>3. /\ Len(versions') = Len(versions) + n /\ Len(versions) \in Nat
      /\ \A i \in 1 .. Len(versions) : versions'[i] = versions[i]
  BY <1>1, GrowthVersions DEF Inv
<1>4. versions \in Seq(Contents) /\ versions' \in Seq(Contents)
  <2>1. Inv'
    BY GrowthStep
  <2>. QED  BY <2>1 DEF Inv, Typed, ClientsOK
<1>5. PICK vs : vs = versions'
  OBVIOUS
<1>6. /\ vs \in Seq(Contents) /\ Len(vs) = Len(versions) + n /\ Len(versions) \in 0 .. Len(vs)
      /\ \A i \in 1 .. Len(versions) : vs[i] = versions[i]
  BY <1>2, <1>3, <1>4, <1>5
<1>7. Prefix(vs, Len(versions)) = versions
  <2>1. /\ Prefix(vs, Len(versions)) \in Seq(Contents) /\ Len(Prefix(vs, Len(versions))) = Len(versions)
        /\ \A i \in 1 .. Len(versions) : Prefix(vs, Len(versions))[i] = vs[i]
    BY <1>6, PrefixShape
  <2>2. \A i \in 1 .. Len(versions) : Prefix(vs, Len(versions))[i] = versions[i]
    BY <1>6, <2>1
  <2>. QED  BY <1>4, <2>1, <2>2, SeqEqual
<1>8. pc'.at # "down"
  BY <1>2 DEF Inv, FreshOK, Unopened
<1>9. CASE n = 0
  <2>1. Len(versions) = Len(vs) /\ Prefix(vs, Len(vs)) = vs
    BY <1>3, <1>6, <1>9, PrefixShape
  <2>2. versions' = versions
    BY <1>5, <1>7, <2>1
  <2>. QED  BY <1>2, <1>8, <2>2, Stutters DEF Destroying
<1>10. CASE n # 0
  <2>1. Len(vs) > Len(versions)
    BY <1>2, <1>3, <1>6, <1>10
  <2>2. Durable!Change
    BY <1>2, <1>5, <1>6, <1>7, <2>1 DEF Durable!Change, Prefix
  <2>. QED  BY <1>8, <2>2 DEF Implements, NothingLost, Durable!Next, At
<1>. QED  BY <1>9, <1>10

LEMMA AskImplements ==
    ASSUME Inv, NEW c \in Clients, NEW kind, NEW k, Ask(c, kind, k) PROVE Implements /\ NothingLost
<1>1. up /\ UNCHANGED <<versions, acked, pc>>
  BY DEF Ask
<1>2. pc'.at # "down"
  BY <1>1 DEF Inv, FreshOK, Unopened
<1>. QED  BY <1>1, <1>2, Stutters DEF Destroying

LEMMA ClientImplements == ASSUME Inv, NEW c \in Clients, Client(c) PROVE Implements /\ NothingLost
<1>1. Typed /\ Tidy(map)
  BY MapTidy DEF Inv
<1>2. ASSUME NEW k \in Keys, NEW v \in Values, Set(c, k, v) PROVE Implements /\ NothingLost
  BY <1>1, <1>2, SetGrows, GrowthImplements
<1>3. ASSUME NEW ks \in (SUBSET Keys) \ {{}}, NEW order \in SetToSeqs(ks), EraseKeys(c, order) PROVE Implements /\ NothingLost
  BY <1>1, <1>3, EraseGrows, GrowthImplements
<1>4. CASE LazySync(c)
  BY <1>1, <1>4, LazySyncGrows, GrowthImplements
<1>5. CASE ForceSync(c) \/ ForceFlush(c) \/ Close(c) \/ CloseAndDestroy(c)
  BY <1>5, AskImplements DEF ForceSync, ForceFlush, Close, CloseAndDestroy
<1>6. ASSUME NEW k \in DbKeys \cup {None}, ChangeKey(c, k) PROVE Implements /\ NothingLost
  BY <1>6, AskImplements DEF ChangeKey
<1>. QED  BY <1>2, <1>3, <1>4, <1>5, <1>6 DEF Client

\* A promise is kept: what it covers is on the disk.
LEMMA AckImplements ==
    ASSUME Inv, Inv', UNCHANGED versions, NEW T \in SUBSET Int, acked \in T, \A x \in T : x <= Version(begin - 1), acked' = Max(T),
           pc'.at # "down", Destroying' = Destroying
    PROVE  Implements /\ NothingLost
<1>1. acked' \in 1 .. Len(versions) /\ acked \in 1 .. Len(versions) /\ Len(versions) \in Nat
  BY LenProperties DEF Inv, Typed, StateOK, ClientsOK
<1>2. acked <= acked'
  <2>1. Version(begin - 1) \in Int
    BY VersionHere
  <2>. QED  BY <2>1, MaxOfBounded
<1>3. acked' \in acked .. Len(versions)
  BY <1>1, <1>2
<1>4. Durable!Acknowledge
  BY <1>3 DEF Durable!Acknowledge, Destroying
<1>. QED  BY <1>4 DEF Implements, NothingLost, Durable!Next, At

LEMMA ReceivedImplements == ASSUME Inv, NEW c \in Clients, Received(c) PROVE Implements /\ NothingLost
<1>1. CASE AddRawEvent(c) \/ ForceSyncReceived(c) \/ ForceFlushReceived(c) \/ ChangeKeyReceived(c)
  <2>1. UNCHANGED <<versions, acked>> /\ pc.at = "idle" /\ pc'.at \in {"idle", "drain", "openNew"}
    BY <1>1 DEF AddRawEvent, ForceSyncReceived, ForceFlushReceived, ChangeKeyReceived, Receive, At, Goto, clientVars
  <2>. QED  BY <2>1, Stutters DEF Destroying
<1>2. CASE CloseReceived(c)
  <2>1. UNCHANGED versions /\ acked' = Max({acked, Version(begin - 1)}) /\ pc.at = "idle" /\ pc'.at = "closed" /\ Inv'
    BY <1>2, CloseReceivedStep DEF CloseReceived, Receive, At, Goto, clientVars
  <2> DEFINE T == {acked, Version(begin - 1)}
  <2>2. T \in SUBSET Int /\ acked \in T /\ \A x \in T : x <= Version(begin - 1)
    BY VersionHere
  <2>. QED  BY <2>1, <2>2, AckImplements DEF Destroying
<1>3. CASE DestroyReceived(c)
  <2>1. UNCHANGED <<versions, acked>> /\ pc'.at = "destroyNew"
    BY <1>3 DEF DestroyReceived, clientVars, Goto
  <2>2. Durable!AskDestroy
    BY <2>1 DEF Durable!AskDestroy
  <2>. QED  BY <2>1, <2>2 DEF Implements, NothingLost, Durable!Next, At
<1>. QED  BY <1>1, <1>2, <1>3 DEF Received

LEMMA TimeoutImplements == ASSUME Inv, TimeoutExpired PROVE Implements /\ NothingLost
<1>1. pc.at = "idle" /\ UNCHANGED <<versions, pc>> /\ Inv'
  BY TimeoutExpiredStep DEF TimeoutExpired, At, clientVars
<1>2. CASE acked' = Max({acked} \cup {Version(s) : s \in promises})
  <2> DEFINE T == {acked} \cup {Version(s) : s \in promises}
  <2>1. T \in SUBSET Int /\ acked \in T /\ \A x \in T : x <= Version(begin - 1)
    BY VersionHere
  <2>. QED  BY <1>1, <1>2, <2>1, AckImplements DEF Destroying
<1>3. CASE UNCHANGED acked
  BY <1>1, <1>3, Stutters DEF Destroying
<1>. QED  BY <1>2, <1>3 DEF TimeoutExpired

\* The processing of an event and the writing of the second file are not seen.
LEMMA InternalImplements ==
    ASSUME Inv, \/ \E m \in held : Drain(m)
                \/ Settle \/ OpenNew \/ WriteNew \/ UnlinkPath \/ RenameNew \/ OpenNewFails \/ DestroyNew \/ Ready
    PROVE  Implements /\ NothingLost
<1>1. pc \in [at : Labels, then : Labels] /\ (pc.at \in Reindexing => pc.then \in {"idle", "drain", "ready"})
  BY DEF Inv, Typed, StateOK, LabelOK
<1>2. ASSUME NEW m \in held, Drain(m)
      PROVE  UNCHANGED <<versions, acked>> /\ pc.at = "drain" /\ pc'.at \in {"drain", "openNew", "fatal"}
  BY <1>1, <1>2 DEF Drain, DoEvent, At, clientVars
<1>3. CASE Settle
  BY <1>1, <1>3, Stutters DEF Settle, At, Goto, Destroying, clientVars
<1>4. CASE OpenNew \/ WriteNew \/ UnlinkPath \/ RenameNew \/ OpenNewFails
  <2>1. UNCHANGED <<versions, acked>> /\ pc.at \in Reindexing /\ pc'.at \in {"reindex", "unlink", "rename", "idle", "drain", "ready"}
    BY <1>1, <1>4 DEF OpenNew, WriteNew, UnlinkPath, RenameNew, OpenNewFails, At, Reindexing, reindexFrame, clientVars
  <2>. QED  BY <2>1, Stutters DEF Destroying, Reindexing
<1>5. CASE DestroyNew
  BY <1>5, Stutters DEF DestroyNew, At, Goto, Destroying, clientVars
<1>6. CASE Ready
  BY <1>6, Stutters DEF Ready, At, Goto, Destroying
<1>7. ASSUME NEW m \in held, Drain(m) PROVE Implements /\ NothingLost
  BY <1>2, <1>7, Stutters DEF Destroying
<1>. QED  BY <1>3, <1>4, <1>5, <1>6, <1>7

LEMMA OpenImplements == ASSUME Inv, NEW k \in DbKeys \cup {None}, Open(k) PROVE Implements /\ NothingLost
<1>1. UNCHANGED <<versions, acked>> /\ pc.at = "down" /\ pc'.at \in {"fatal", "openNew", "ready"}
  BY DEF Open, At
<1>. QED  BY <1>1, Stutters DEF Destroying

LEMMA StopImplements == ASSUME Inv, NEW d, ComesBack(d), StopWith(d) PROVE Implements /\ NothingLost
<1>1. versions' = <<Recovered(d)>> /\ acked' = 1 /\ pc'.at = "down"
  BY DEF StopWith, Goto
<1>2. PICK i \in acked .. Newest : Recovered(d) = versions[i]
  BY DEF ComesBack
<1>3. i \in acked .. Len(versions)
  BY NewestIs
<1>4. versions' = <<versions[i]>> /\ versions'[1] = versions[i]
  BY <1>1, <1>2
<1>5. Durable!Restart
  BY <1>1, <1>3, <1>4 DEF Durable!Restart
<1>6. NothingLost
  BY <1>3, <1>4 DEF NothingLost
<1>. QED  BY <1>5, <1>6 DEF Implements, Durable!Next

LEMMA DestroyPathImplements == ASSUME Inv, DestroyPath PROVE Implements /\ NothingLost
<1>1. versions' = <<[k \in Keys |-> None]>> /\ acked' = 1 /\ pc.at = "destroyPath" /\ pc'.at = "down"
  BY DestroyPathEmpties DEF DestroyPath, At, StopWith, Goto
<1>2. Durable!Destroy
  BY <1>1 DEF Durable!Destroy
<1>3. acked \in acked .. Len(versions)
  BY NewestIs
<1>. QED  BY <1>1, <1>2, <1>3 DEF Implements, NothingLost, Durable!Next, At

LEMMA NextImplements == ASSUME Inv, DurInv, Next PROVE Implements /\ NothingLost
<1>1. ASSUME NEW c \in Clients, Client(c) \/ Received(c) PROVE Implements /\ NothingLost
  BY <1>1, ClientImplements, ReceivedImplements
<1>2. CASE Closed \/ DestroyPath
  BY <1>2, ClosedComesBack, StopImplements, DestroyPathImplements
<1>3. CASE Internal
  BY <1>2, <1>3, InternalImplements DEF Internal
<1>4. CASE TimeoutExpired \/ OpenNewFails \/ Ready
  BY <1>4, TimeoutImplements, InternalImplements
<1>5. CASE Crash
  BY <1>5, CrashComesBack, StopImplements
<1>6. ASSUME NEW k \in DbKeys \cup {None}, Open(k) PROVE Implements /\ NothingLost
  BY <1>6, OpenImplements
<1>. QED  BY <1>1, <1>3, <1>4, <1>5, <1>6 DEF Next

\* Unless a power loss and a change of the key can meet, the store is a map whose
\* acknowledged versions survive: wherever the process dies, in BinlogKeyValue, in the actor
\* or inside Binlog::do_reindex, what is opened next is one of the maps it had, no older than
\* the last one that a sync promise or close said was saved.
THEOREM StoreIsDurable == PowerOrKey => (Spec => DurableSpec)
<1> SUFFICES ASSUME PowerOrKey PROVE Spec => DurableSpec
  OBVIOUS
<1>1. Init => Durable!Init
  <2> SUFFICES ASSUME Init PROVE Durable!Init
    OBVIOUS
  <2>1. Content([k \in Keys |-> NoEntry]) = [k \in Keys |-> None]
    BY DEF Content, NoEntry
  <2>2. versions = <<[k \in Keys |-> None]>> /\ acked = 1 /\ pc.at = "down"
    BY <2>1 DEF Init
  <2>. QED  BY <2>2 DEF Durable!Init
<1>2. Inv /\ DurInv /\ [Next]_vars => [Durable!Next]_Durable!vars
  <2>1. Inv /\ DurInv /\ Next => Durable!Next \/ UNCHANGED Durable!vars
    BY NextImplements DEF Implements
  <2>2. UNCHANGED vars => UNCHANGED Durable!vars
    BY DEF vars, clientVars, Durable!vars
  <2>. QED  BY <2>1, <2>2
<1>. QED  BY <1>1, <1>2, DurInvAlways, PTL DEF Spec, DurableSpec, Durable!Spec

\* The same said of the disk: what Binlog::init finds after a stop is one of the maps of the
\* session that ended, at or after the last acknowledged one, unless the files were destroyed.
THEOREM AckedIsNeverLost == PowerOrKey => (Spec => NothingAckedIsLost)
<1> SUFFICES ASSUME PowerOrKey PROVE Spec => NothingAckedIsLost
  OBVIOUS
<1>1. Inv /\ DurInv /\ [Next]_vars => [NothingLost]_vars
  BY NextImplements
<1>. QED  BY <1>1, DurInvAlways, PTL DEF Spec, NothingAckedIsLost, NothingLost

-----------------------------------------------------------------------------
(* The key in force                                                        *)

LEMMA KeySame == ASSUME KeyOK, UNCHANGED <<disk, buf, dbKey, pc>> PROVE KeyOK'
BY DEF KeyOK, At

\* The file and its buffer say what they said, and are encrypted as they were.
LEMMA KeyKept ==
    ASSUME KeyOK, disk'.path.log \o buf' = disk.path.log \o buf, dbKey' = dbKey,
           pc.at \in {"ready", "idle", "drain"}, pc'.at \in {"idle", "drain", "closed", "destroyNew"}
    PROVE  KeyOK'
BY DEF KeyOK, At

LEMMA FileKeyStart ==
    ASSUME NEW a \in Seq(Events), NEW b \in Seq(Events), a # <<>> PROVE FileKey(a \o b) = FileKey(a)
<1>1. Len(a) \in Nat /\ Len(b) \in Nat /\ Len(a) # 0 /\ Len(a \o b) = Len(a) + Len(b) /\ \A i \in 1 .. Len(a) : (a \o b)[i] = a[i]
  BY LenProperties, ConcatProperties, EmptySeq
<1>2. 1 \in 1 .. Len(a) /\ Len(a \o b) # 0
  BY <1>1
<1>3. (a \o b)[1] = a[1] /\ a \o b # <<>>
  BY <1>1, <1>2
<1>. QED  BY <1>3 DEF FileKey

\* Only the first event says how a file is encrypted.
LEMMA FileKeyAppend ==
    ASSUME NEW a \in Seq(Events), NEW e \in Events, e.type # "aes" PROVE FileKey(Append(a, e)) = FileKey(a)
<1>1. CASE a = <<>>
  <2>1. Append(a, e)[1] = e /\ Append(a, e) # <<>>
    BY <1>1
  <2>. QED  BY <1>1, <2>1 DEF FileKey
<1>2. CASE a # <<>>
  <2>1. <<e>> \in Seq(Events) /\ Append(a, e) = a \o <<e>>
    BY OneInSeq, AppendIsConcat
  <2>. QED  BY <1>2, <2>1, FileKeyStart
<1>. QED  BY <1>1, <1>2

LEMMA ClientKey == ASSUME KeyOK, NEW c \in Clients, Client(c) PROVE KeyOK'
<1>1. UNCHANGED <<logVars, dbKey, pc>>
  BY DEF Client, Set, EraseKeys, LazySync, ForceSync, ForceFlush, ChangeKey, Close, CloseAndDestroy, Ask
<1>. QED  BY <1>1, KeySame DEF logVars

LEMMA ReceivedKey == ASSUME Inv, KeyOK, NEW c \in Clients, Received(c) PROVE KeyOK'
<1>1. At("idle") /\ pc.at = "idle"
  BY DEF Received, AddRawEvent, ForceSyncReceived, ForceFlushReceived, ChangeKeyReceived, CloseReceived, DestroyReceived, Receive, At
<1>2. CASE AddRawEvent(c)
  <2>1. UNCHANGED <<disk, buf, dbKey>> /\ pc'.at = "drain"
    BY <1>2 DEF AddRawEvent, logVars, Goto
  <2>. QED  BY <1>1, <2>1, KeyKept
<1>3. CASE ForceSyncReceived(c)
  BY <1>3, KeySame DEF ForceSyncReceived, logVars
<1>4. CASE ForceFlushReceived(c)
  <2>1. Flushes /\ UNCHANGED <<dbKey, pc>>
    BY <1>4 DEF ForceFlushReceived, Flushes
  <2>2. disk'.path.log \o buf' = disk.path.log \o buf
    BY <2>1, FlushLeast DEF SameLog
  <2>. QED  BY <1>1, <2>1, <2>2, KeyKept
<1>5. CASE ChangeKeyReceived(c)
  BY <1>5 DEF ChangeKeyReceived, KeyOK, At
<1>6. CASE CloseReceived(c) \/ DestroyReceived(c)
  BY <1>6 DEF CloseReceived, DestroyReceived, Goto, KeyOK, At
<1>. QED  BY <1>2, <1>3, <1>4, <1>5, <1>6 DEF Received

LEMMA SettleKey == ASSUME Inv, KeyOK, Settle PROVE KeyOK'
<1> DEFINE due == {s \in waiting : s < begin}
           t == IF due # {} THEN DoImmediateSync(timer) ELSE timer
<1>1. At("drain") /\ TryFlush(t) /\ pc'.at = "idle" /\ UNCHANGED dbKey
  BY DEF Settle, Goto
<1>2. timer \in Timers
  BY DEF Inv, Typed, ActorOK, Timers
<1>3. t \in Timers
  BY <1>2, TimerShape
<1> HIDE DEF t
<1>4. disk'.path.log \o buf' = disk.path.log \o buf
  BY <1>1, <1>3, TryFlushSame DEF Inv, SameLog
<1>. QED  BY <1>1, <1>4, KeyKept DEF At

LEMMA TimeoutKey == ASSUME Inv, KeyOK, TimeoutExpired PROVE KeyOK'
<1>1. pc.at = "idle" /\ UNCHANGED <<dbKey, pc>>
  BY DEF TimeoutExpired, At
<1>2. disk'.path.log \o buf' = disk.path.log \o buf
  <2>1. CASE Sync
    BY <2>1, SyncSame DEF Inv, Sync, SameLog
  <2>2. CASE TryFlush(Idle)
    <3>1. Idle \in Timers
      BY DEF Idle, Timers
    <3>. QED  BY <2>2, <3>1, TryFlushSame DEF Inv, SameLog
  <2>3. CASE UNCHANGED <<disk, needSync, buf>>
    BY <2>3
  <2>. QED  BY <2>1, <2>2, <2>3 DEF TimeoutExpired
<1>. QED  BY <1>1, <1>2, KeyKept

LEMMA DrainKey == ASSUME Inv, KeyOK, NEW m \in held, Drain(m) PROVE KeyOK'
<1>1. /\ At("drain") /\ m.seq = begin /\ UNCHANGED dbKey
      /\ \/ m.ev = NoEvent /\ UNCHANGED <<logVars, pc>>
         \/ m.ev # NoEvent /\ DoEvent(m.ev) /\ LazyFlush(Append(buf, m.ev))
  BY DEF Drain, IsNext
<1>2. CASE UNCHANGED <<logVars, pc>>
  BY <1>1, <1>2, KeySame DEF logVars
<1>3. CASE m.ev # NoEvent /\ DoEvent(m.ev) /\ LazyFlush(Append(buf, m.ev))
  <2>1. m.ev \in Events /\ m.ev.type # "aes"
    <3>1. PICK h : Chain(h)
      BY DEF Inv, ChainOK
    <3>2. m \in EventMessages /\ m.seq - 1 \in Nat
      BY <1>1 DEF Inv, Typed, ActorOK, ClientsOK
    <3>3. StepAt(h, m) /\ h[m.seq - 1] \in Stores
      BY <3>1, <3>2 DEF Chain, Chained, InFlight
    <3>. QED  BY <3>3, StepTypes DEF StepAt
  <2>2. PICK log : log = disk.path.log \o buf
    OBVIOUS
  <2>3. log \in Seq(Events) /\ FileKey(log) = dbKey
    BY <1>1, <2>2, SavedShape DEF KeyOK, At
  <2>4. disk'.path.log \o buf' = Append(log, m.ev)
    BY <1>3, <2>1, <2>2, LazyFlushLog DEF Inv
  <2>5. FileKey(disk'.path.log \o buf') = dbKey'
    BY <1>1, <2>1, <2>3, <2>4, FileKeyAppend
  <2>6. pc'.at \in {"drain", "openNew", "fatal"}
    BY <1>1, <1>3 DEF DoEvent, At
  <2>. QED  BY <2>5, <2>6 DEF KeyOK, At
<1>. QED  BY <1>1, <1>2, <1>3

LEMMA ReindexKeyed == ASSUME Inv, KeyOK, OpenNew \/ WriteNew \/ UnlinkPath \/ RenameNew PROVE KeyOK'
<1>1. pc \in [at : Labels, then : Labels] /\ (pc.at \in Reindexing => pc.then \in {"idle", "drain", "ready"})
  BY DEF Inv, Typed, StateOK, LabelOK
<1>2. /\ disk \in Disks /\ disk.path \in Files /\ disk.new \in Files /\ buf \in Seq(Events) /\ disk.new.log \in Seq(Events)
  BY SavedShape
<1>3. CASE OpenNew
  <2>1. buf' = (IF dbKey = None THEN <<>> ELSE <<Encryption(dbKey)>>) \o Live(proc) /\ pc'.at = "reindex" /\ dbKey' = dbKey
    BY <1>1, <1>3 DEF OpenNew, reindexFrame
  <2>2. Rep(proc, MapOf(proc)) /\ dbKey \in DbKeys \cup {None}
    BY DEF Inv, RepOK, Typed, FilesOK
  <2>3. FileKey(buf') = dbKey
    BY <2>1, <2>2, ReindexKey
  <2>. QED  BY <2>1, <2>3 DEF KeyOK, At
<1>4. CASE WriteNew
  <2>1. PICK f : f = Flushed(disk.new, buf)
    OBVIOUS
  <2>2. /\ disk' = [disk EXCEPT !.new = IF disk.path.log # <<>> THEN Synced(f) ELSE f] /\ At("reindex") /\ pc'.at = "unlink"
        /\ dbKey' = dbKey
    BY <1>1, <1>4, <2>1 DEF WriteNew, reindexFrame, At
  <2>3. f \in Files /\ f.log = buf
    <3>1. disk.new.log = <<>>
      BY <2>2 DEF Inv, DiskOK, At, NewFile
    <3>2. f \in Files /\ f.log = disk.new.log \o buf
      BY <1>2, <2>1, FilesTyped
    <3>. QED  BY <1>2, <3>1, <3>2, ConcatEmptySeq
  <2>4. disk'.new.log = buf
    BY <1>2, <2>2, <2>3, SyncedShape DEF Disks
  <2>. QED  BY <2>2, <2>4 DEF KeyOK, At
<1>5. CASE UnlinkPath
  <2>1. disk' = [disk EXCEPT !.path = NoFile] /\ At("unlink") /\ pc'.at = "rename" /\ dbKey' = dbKey
    BY <1>1, <1>5 DEF UnlinkPath, reindexFrame, At
  <2>2. disk'.new = disk.new
    BY <1>2, <2>1 DEF Disks
  <2>. QED  BY <2>1, <2>2 DEF KeyOK, At
<1>6. CASE RenameNew
  <2>1. disk' = [path |-> disk.new, new |-> NoFile] /\ At("rename") /\ pc'.at \in {"idle", "drain", "ready"} /\ UNCHANGED <<dbKey, buf>>
    BY <1>1, <1>6 DEF RenameNew, reindexFrame, At, Reindexing
  <2>2. buf = <<>>
    BY <2>1 DEF Inv, DiskOK, At
  <2>3. disk'.path.log \o buf' = disk.new.log
    BY <1>2, <2>1, <2>2, ConcatEmptySeq
  <2>. QED  BY <2>1, <2>3 DEF KeyOK, At
<1>. QED  BY <1>3, <1>4, <1>5, <1>6

LEMMA OpenKey == ASSUME Inv, NEW k \in DbKeys \cup {None}, Open(k) PROVE KeyOK'
<1>1. PICK f : f = Opened(disk)
  OBVIOUS
<1>2. /\ At("down") /\ FileKey(f.log) \in {None, k} /\ dbKey' = k /\ buf' = buf
      /\ disk' = [path |-> [f EXCEPT !.there = TRUE, !.torn = FALSE], new |-> IF disk.path.there THEN disk.new ELSE NoFile]
      /\ pc' = (CASE ~Load(f.log).ok -> [at |-> "fatal", then |-> "fatal"]
                  [] Load(f.log).ok /\ k # None /\ (FileKey(f.log) # k \/ f.torn) -> [at |-> "openNew", then |-> "ready"]
                  [] OTHER -> [at |-> "ready", then |-> "ready"])
  BY <1>1 DEF Open
<1>3. f \in Files /\ f.log \in Seq(Events) /\ buf = <<>>
  BY <1>1, <1>2, SavedShape, FilesTyped DEF Opened, Inv, DiskOK, At
<1>4. disk'.path.log \o buf' = f.log
  <2>1. PICK y : y = [f EXCEPT !.there = TRUE, !.torn = FALSE]
    OBVIOUS
  <2>2. y.log = f.log /\ disk'.path = y
    BY <1>2, <1>3, <2>1 DEF Files
  <2>. QED  BY <1>2, <1>3, <2>2, ConcatEmptySeq
<1>5. pc'.at \in {"fatal", "openNew", "ready"} /\ (pc'.at = "openNew" => pc'.then = "ready") /\ (pc'.at = "ready" => FileKey(f.log) = k)
  BY <1>2
<1>. QED  BY <1>2, <1>4, <1>5 DEF KeyOK, At

LEMMA KeyStep == ASSUME "open" \notin Faults, Inv, KeyOK, [Next]_vars PROVE KeyOK'
<1>1. ASSUME NEW c \in Clients, Client(c) \/ Received(c) PROVE KeyOK'
  BY <1>1, ClientKey, ReceivedKey
<1>2. ASSUME NEW d, StopWith(d) PROVE KeyOK'
  BY <1>2 DEF StopWith, Goto, KeyOK, At
<1>3. CASE DestroyNew
  BY <1>3 DEF DestroyNew, Goto, KeyOK, At
<1>4. CASE Internal
  BY <1>2, <1>3, <1>4, DrainKey, SettleKey, ReindexKeyed DEF Internal, Closed, DestroyPath
<1>5. CASE TimeoutExpired \/ OpenNewFails
  BY <1>5, TimeoutKey DEF OpenNewFails
<1>6. CASE Crash
  BY <1>2, <1>6 DEF Crash
<1>7. ASSUME NEW k \in DbKeys \cup {None}, Open(k) PROVE KeyOK'
  BY <1>7, OpenKey
<1>8. CASE Ready
  <2>1. UNCHANGED <<disk, buf, dbKey>> /\ pc.at = "ready" /\ pc'.at = "idle"
    BY <1>8 DEF Ready, logVars, Goto, At
  <2>. QED  BY <2>1, KeyKept
<1>9. CASE UNCHANGED vars
  BY <1>9, KeySame DEF vars, logVars
<1>. QED  BY <1>1, <1>4, <1>5, <1>6, <1>7, <1>8, <1>9 DEF Next

\* If the second file can always be opened, what the actor appends to is encrypted with the
\* key of the last change_key or, before that, of Binlog::init.
THEOREM KeyIsAlwaysInForce == "open" \notin Faults => (Spec => []KeyInForce)
<1> SUFFICES ASSUME "open" \notin Faults PROVE Spec => []KeyInForce
  OBVIOUS
<1>1. Init => KeyOK
  BY DEF Init, KeyOK, At
<1>2. Inv /\ KeyOK /\ [Next]_vars => KeyOK'
  BY KeyStep
<1>3. Inv /\ KeyOK => KeyInForce
  BY SavedShape, FileKeyStart DEF KeyOK, KeyInForce, At
<1>. QED  BY <1>1, <1>2, <1>3, InvAlways, PTL DEF Spec
=============================================================================
