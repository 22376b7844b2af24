---------------------------- MODULE BinlogProofs ----------------------------
(***************************************************************************)
(* Binlog for every value of its constants.  First what the events of a    *)
(* file mean: the processor's state after a log, the map it stands for,    *)
(* and the log that do_reindex writes for it.  Then the invariant Inv,     *)
(* which relates the clients' map to the processor: the events on their    *)
(* way to it, in the order of their sequence numbers, are a chain of maps  *)
(* from the one the processor stands for to the one of the clients, and    *)
(* the files, wherever they are cut off, load to a processor that stands   *)
(* for a map.                                                              *)
(***************************************************************************)
EXTENDS Binlog, TLAPS, FiniteSetTheorems, SequenceTheorems, WellFoundedInduction

-----------------------------------------------------------------------------
(* Numbers                                                                 *)

LEMMA LeastNatural == ASSUME NEW T \in SUBSET Nat, T # {} PROVE \E x \in T : \A y \in T : x <= y
<1> DEFINE U == {0 .. n : n \in T}
           R == StrictSubsetOrdering(Nat)
<1>1. U \subseteq FiniteSubsetsOf(Nat)
  <2>1. \A n \in T : IsFiniteSet(0 .. n) /\ 0 .. n \subseteq Nat
    BY FS_Interval
  <2>. QED  BY <2>1 DEF FiniteSubsetsOf
<1>2. IsWellFoundedOn(R, FiniteSubsetsOf(Nat))
  BY FS_StrictSubsetOrderingWellFounded
<1>3. U # {}
  OBVIOUS
<1> HIDE DEF U, R
<1>4. PICK s \in U : \A y \in U : ~(<<y, s>> \in R)
  BY <1>1, <1>2, <1>3, WFMin
<1>5. PICK x \in T : s = 0 .. x
  BY DEF U
<1>6. ASSUME NEW y \in T, y < x PROVE FALSE
  <2>1. 0 .. y \in U
    BY DEF U
  <2>2. 0 .. y \in SUBSET Nat /\ 0 .. x \in SUBSET Nat /\ 0 .. y \subseteq 0 .. x /\ 0 .. y # 0 .. x
    BY <1>6
  <2>3. <<0 .. y, 0 .. x>> \in R
    BY <2>2 DEF R, StrictSubsetOrdering
  <2>. QED  BY <1>4, <1>5, <2>1, <2>3
<1>. QED  BY <1>6

\* Induction, for a set of numbers in the place of a predicate.
LEMMA NatSetInduction ==
    ASSUME NEW N, 0 \in N, \A n \in Nat : n \in N => n + 1 \in N PROVE Nat \subseteq N
<1> SUFFICES ASSUME Nat \ N # {} PROVE FALSE
  OBVIOUS
<1>1. PICK x \in Nat \ N : \A y \in Nat \ N : x <= y
  BY LeastNatural
<1>2. x - 1 \in Nat /\ x - 1 \in N
  BY <1>1
<1>. QED  BY <1>1, <1>2

LEMMA MaxOfBounded ==
    ASSUME NEW T \in SUBSET Int, T # {}, NEW b \in Int, \A x \in T : x <= b
    PROVE  Max(T) \in T /\ \A x \in T : x <= Max(T)
<1> DEFINE D == {b - x : x \in T}
<1>1. D \in SUBSET Nat /\ D # {}
  <2>1. \A x \in T : b - x \in Nat
    OBVIOUS
  <2>. QED  BY <2>1
<1>2. PICK d \in D : \A y \in D : d <= y
  BY <1>1, LeastNatural
<1>3. PICK x \in T : d = b - x
  BY <1>2
<1>4. ASSUME NEW y \in T PROVE x >= y
  <2>1. b - x <= b - y
    BY <1>2, <1>3
  <2>. QED  BY <2>1
<1>5. \E z \in T : \A y \in T : z >= y
  BY <1>3, <1>4
<1>6. Max(T) \in T /\ \A y \in T : Max(T) >= y
  BY <1>5 DEF Max
<1>. QED  BY <1>6

LEMMA MaxOfOne == ASSUME NEW x \in Int PROVE Max({x}) = x
BY MaxOfBounded

-----------------------------------------------------------------------------
(* The recursive functions of Load and Live                                *)

IsAfter(f, log, k) == f = [n \in 0 .. k |-> IF n = 0 THEN NewProcessor ELSE ProcessEvent(f[n - 1], log[n])]
After(log) == CHOOSE f : IsAfter(f, log, Len(log))

LEMMA AfterExists == ASSUME NEW log, NEW k \in Nat PROVE \E f : IsAfter(f, log, k)
<1> DEFINE N == {j \in Nat : \E f : IsAfter(f, log, j)}
<1>1. 0 \in N
  <2> DEFINE g == [n \in 0 .. 0 |-> NewProcessor]
  <2>1. IsAfter(g, log, 0)
    BY DEF IsAfter
  <2>. QED  BY <2>1
<1>2. ASSUME NEW j \in Nat, j \in N PROVE j + 1 \in N
  <2>1. PICK f : IsAfter(f, log, j)
    BY <1>2
  <2> DEFINE g == [n \in 0 .. j + 1 |-> IF n = j + 1 THEN ProcessEvent(f[j], log[n]) ELSE f[n]]
  <2>2. ASSUME NEW n \in 0 .. j + 1
        PROVE  g[n] = IF n = 0 THEN NewProcessor ELSE ProcessEvent(g[n - 1], log[n])
    <3>1. CASE n = j + 1
      <4>1. g[n] = ProcessEvent(f[j], log[n]) /\ g[n - 1] = f[j] /\ n # 0
        BY <3>1
      <4>. QED  BY <3>1, <4>1
    <3>2. CASE n # j + 1 /\ n # 0
      <4>1. n \in 0 .. j /\ n - 1 \in 0 .. j /\ n - 1 # j + 1
        BY <3>2
      <4>2. g[n] = f[n] /\ g[n - 1] = f[n - 1]
        BY <3>2, <4>1
      <4>3. f[n] = ProcessEvent(f[n - 1], log[n])
        BY <2>1, <3>2, <4>1 DEF IsAfter
      <4>. QED  BY <3>2, <4>2, <4>3
    <3>3. CASE n # j + 1 /\ n = 0
      <4>1. g[n] = f[n]
        BY <3>3
      <4>2. f[n] = NewProcessor
        BY <2>1, <3>3 DEF IsAfter
      <4>. QED  BY <3>3, <4>1, <4>2
    <3>. QED  BY <3>1, <3>2, <3>3
  <2>3. g = [n \in 0 .. j + 1 |-> g[n]]
    OBVIOUS
  <2> HIDE DEF g
  <2>4. IsAfter(g, log, j + 1)
    BY <2>2, <2>3 DEF IsAfter
  <2>. QED  BY <2>4
<1> HIDE DEF N
<1>3. Nat \subseteq N
  BY <1>1, <1>2, NatSetInduction
<1>. QED  BY <1>3 DEF N

LEMMA LoadIsAfter ==
    ASSUME NEW log, Len(log) \in Nat
    PROVE  /\ Load(log) = After(log)[Len(log)]
           /\ After(log)[0] = NewProcessor
           /\ \A n \in 1 .. Len(log) : After(log)[n] = ProcessEvent(After(log)[n - 1], log[n])
<1>1. IsAfter(After(log), log, Len(log))
  BY AfterExists DEF After
<1>2. Load(log) = After(log)[Len(log)]
  BY DEF Load, After, IsAfter
<1> HIDE DEF After
<1>3. \A n \in 0 .. Len(log) :
          After(log)[n] = IF n = 0 THEN NewProcessor ELSE ProcessEvent(After(log)[n - 1], log[n])
  BY <1>1 DEF IsAfter
<1>. QED  BY <1>2, <1>3

LEMMA AfterSame ==
    ASSUME NEW log, NEW log2, Len(log) \in Nat, Len(log2) \in Nat, NEW k \in Nat,
           k <= Len(log), k <= Len(log2), \A i \in 1 .. k : log[i] = log2[i]
    PROVE  After(log)[k] = After(log2)[k]
<1> DEFINE N == {n \in Nat : n <= k => After(log)[n] = After(log2)[n]}
<1>1. 0 \in N
  BY LoadIsAfter
<1>2. ASSUME NEW n \in Nat, n \in N PROVE n + 1 \in N
  <2> SUFFICES ASSUME n + 1 <= k PROVE After(log)[n + 1] = After(log2)[n + 1]
    OBVIOUS
  <2>1. After(log)[n] = After(log2)[n] /\ n + 1 \in 1 .. k /\ n + 1 \in 1 .. Len(log) /\ n + 1 \in 1 .. Len(log2)
    BY <1>2
  <2>2. (n + 1) - 1 = n
    OBVIOUS
  <2>3. After(log)[n + 1] = ProcessEvent(After(log)[n], log[n + 1])
    BY <2>1, <2>2, LoadIsAfter
  <2>4. After(log2)[n + 1] = ProcessEvent(After(log2)[n], log2[n + 1])
    BY <2>1, <2>2, LoadIsAfter
  <2>. QED  BY <2>1, <2>3, <2>4
<1> HIDE DEF N
<1>3. Nat \subseteq N
  BY <1>1, <1>2, NatSetInduction
<1>. QED  BY <1>3 DEF N

\* The start of a log is loaded on the way.
Prefix(log, n) == SubSeq(log, 1, n)

LEMMA PrefixShape ==
    ASSUME NEW E, NEW log \in Seq(E), NEW n \in 0 .. Len(log)
    PROVE  /\ Len(log) \in Nat /\ DOMAIN log = 1 .. Len(log)
           /\ Prefix(log, n) \in Seq(E) /\ Len(Prefix(log, n)) = n
           /\ \A i \in 1 .. n : Prefix(log, n)[i] = log[i]
           /\ n = Len(log) => Prefix(log, n) = log
<1>1. Len(log) \in Nat /\ DOMAIN log = 1 .. Len(log)
  BY LenProperties
<1>2. Prefix(log, n) \in Seq(E) /\ Len(Prefix(log, n)) = n /\ \A i \in 1 .. n : Prefix(log, n)[i] = log[i]
  BY <1>1 DEF Prefix
<1>3. n = Len(log) => Prefix(log, n) = log
  BY <1>1, <1>2, SeqEqual
<1>. QED  BY <1>1, <1>2, <1>3

LEMMA LoadPrefix ==
    ASSUME NEW E, NEW log \in Seq(E), NEW n \in 0 .. Len(log)
    PROVE  Load(Prefix(log, n)) = After(log)[n]
<1> DEFINE q == Prefix(log, n)
<1>1. Len(log) \in Nat /\ Len(q) = n /\ n \in Nat /\ n <= Len(log) /\ \A i \in 1 .. n : q[i] = log[i]
  BY PrefixShape
<1> HIDE DEF q
<1>2. Load(q) = After(q)[n]
  BY <1>1, LoadIsAfter
<1>3. After(q)[n] = After(log)[n]
  BY <1>1, AfterSame
<1>. QED  BY <1>2, <1>3 DEF q

LEMMA LoadEmpty == Load(<<>>) = NewProcessor
<1>1. Len(<<>>) = 0 /\ Len(<<>>) \in Nat
  OBVIOUS
<1>. QED  BY <1>1, LoadIsAfter

LEMMA PrefixOfAppend ==
    ASSUME NEW E, NEW log \in Seq(E), NEW e \in E, NEW n \in 0 .. Len(log)
    PROVE  Prefix(Append(log, e), n) = Prefix(log, n)
<1> DEFINE a == Append(log, e)
<1>1. /\ Len(log) \in Nat /\ a \in Seq(E) /\ Len(a) = Len(log) + 1 /\ n \in 0 .. Len(a)
      /\ \A i \in 1 .. Len(log) : a[i] = log[i]
  BY LenProperties
<1> HIDE DEF a
<1>2. /\ Prefix(a, n) \in Seq(E) /\ Len(Prefix(a, n)) = n /\ \A i \in 1 .. n : Prefix(a, n)[i] = a[i]
      /\ Prefix(log, n) \in Seq(E) /\ Len(Prefix(log, n)) = n /\ \A i \in 1 .. n : Prefix(log, n)[i] = log[i]
  BY <1>1, PrefixShape
<1>3. \A i \in 1 .. n : Prefix(a, n)[i] = Prefix(log, n)[i]
  BY <1>1, <1>2
<1>4. Prefix(a, n) = Prefix(log, n)
  BY <1>2, <1>3, SeqEqual
<1>. QED  BY <1>4 DEF a

LEMMA LoadAppend ==
    ASSUME NEW E, NEW log \in Seq(E), NEW e \in E PROVE Load(Append(log, e)) = ProcessEvent(Load(log), e)
<1> DEFINE a == Append(log, e)
<1>1. /\ Len(log) \in Nat /\ a \in Seq(E) /\ Len(a) = Len(log) + 1 /\ Len(a) \in Nat
      /\ Len(a) - 1 = Len(log) /\ Len(a) \in 1 .. Len(a)
      /\ a[Len(a)] = e /\ \A i \in 1 .. Len(log) : a[i] = log[i]
  BY LenProperties
<1> HIDE DEF a
<1>2. Load(a) = After(a)[Len(a)] /\ After(a)[Len(a)] = ProcessEvent(After(a)[Len(log)], e)
  BY <1>1, LoadIsAfter
<1>3. Len(log) <= Len(a) /\ Len(log) <= Len(log)
  BY <1>1
<1>4. After(a)[Len(log)] = After(log)[Len(log)]
  BY <1>1, <1>3, AfterSame
<1>5. Load(log) = After(log)[Len(log)]
  BY <1>1, LoadIsAfter
<1>. QED  BY <1>2, <1>4, <1>5 DEF a

-----------------------------------------------------------------------------
(* The processor                                                           *)

EventMaps == UNION {[D -> Events] : D \in SUBSET (0 .. MaxSeq)}
Processors == [events : EventMaps, last : 0 .. MaxSeq, ok : BOOLEAN]
ProcOK(p) == p \in Processors /\ \A i \in DOMAIN p.events : i <= p.last

LEMMA Bounds == MaxSeq \in Nat /\ IsFiniteSet(Keys) /\ None \notin Keys \cup Values \cup DbKeys
BY BinlogAssumption

LEMMA EventMapIs == ASSUME NEW f PROVE f \in EventMaps <=> DOMAIN f \subseteq 0 .. MaxSeq /\ f \in [DOMAIN f -> Events]
<1>1. ASSUME f \in EventMaps PROVE DOMAIN f \subseteq 0 .. MaxSeq /\ f \in [DOMAIN f -> Events]
  <2>1. PICK D \in SUBSET (0 .. MaxSeq) : f \in [D -> Events]
    BY <1>1 DEF EventMaps
  <2>. QED  BY <2>1
<1>. QED  BY <1>1 DEF EventMaps

LEMMA EventTypes ==
    /\ Erased \in Events /\ NoEvent = Erased /\ Erased.key = None /\ Erased.id = 0 /\ Erased.type = "empty"
    /\ \A k \in DbKeys : Encryption(k) \in Events
    /\ \A e \in Events : e.type \in {"put", "empty", "aes"} /\ e.id \in 0 .. MaxSeq /\ e.rw \in BOOLEAN
                         /\ e.key \in Keys \cup DbKeys \cup {None} /\ e.val \in Values \cup {None}
BY Bounds DEF Events, Erased, Erase, NoEvent, Encryption

LEMMA ProcShape ==
    ASSUME NEW p, ProcOK(p)
    PROVE  /\ p.events \in EventMaps /\ p.last \in 0 .. MaxSeq /\ p.ok \in BOOLEAN
           /\ DOMAIN p.events \subseteq 0 .. MaxSeq /\ p.events \in [DOMAIN p.events -> Events]
           /\ \A i \in DOMAIN p.events : i \in Int /\ i <= p.last /\ p.events[i] \in Events
<1>1. p.events \in EventMaps /\ p.last \in 0 .. MaxSeq /\ p.ok \in BOOLEAN /\ \A i \in DOMAIN p.events : i <= p.last
  BY DEF ProcOK, Processors
<1>2. DOMAIN p.events \subseteq 0 .. MaxSeq /\ p.events \in [DOMAIN p.events -> Events]
  BY <1>1, EventMapIs
<1>. QED  BY <1>1, <1>2, Bounds

LEMMA NewProcOK == ProcOK(NewProcessor) /\ DOMAIN NewProcessor.events = {} /\ NewProcessor.ok /\ NewProcessor.last = 0
<1>1. DOMAIN <<>> = {} /\ <<>> \in [{} -> Events]
  OBVIOUS
<1>2. <<>> \in EventMaps
  BY <1>1, EventMapIs
<1>. QED  BY <1>1, <1>2, Bounds DEF ProcOK, NewProcessor, Processors

\* compactify forgets erased events only.
SameLive(p, q) ==
    /\ q.ok = p.ok /\ q.last = p.last /\ DOMAIN q.events \subseteq DOMAIN p.events
    /\ \A i \in DOMAIN q.events : q.events[i] = p.events[i]
    /\ \A i \in DOMAIN p.events : p.events[i] # Erased => i \in DOMAIN q.events

LEMMA CompactKeeps == ASSUME NEW p, ProcOK(p) PROVE ProcOK(Compactify(p)) /\ SameLive(p, Compactify(p))
<1> DEFINE empty == {i \in DOMAIN p.events : p.events[i] = Erased}
           rest == DOMAIN p.events \ empty
           f == Restrict(p.events, rest)
           q == [p EXCEPT !.events = f]
<1>1. CASE Compactify(p) = p
  BY <1>1 DEF SameLive
<1>2. CASE Compactify(p) = q
  <2>1. DOMAIN f = rest /\ f \in [rest -> Events] /\ \A i \in rest : f[i] = p.events[i]
    BY ProcShape DEF Restrict
  <2>2. f \in EventMaps
    BY <2>1, EventMapIs, ProcShape
  <2>3. p \in Processors
    BY DEF ProcOK
  <2> HIDE DEF f
  <2>4. q \in Processors /\ q.events = f /\ q.last = p.last /\ q.ok = p.ok
    BY <2>2, <2>3 DEF Processors
  <2> HIDE DEF q
  <2>5. ProcOK(q)
    BY <2>1, <2>4, ProcShape DEF ProcOK
  <2>6. SameLive(p, q)
    BY <2>1, <2>4 DEF SameLive
  <2>. QED  BY <1>2, <2>5, <2>6
<1>. QED  BY <1>1, <1>2 DEF Compactify

\* The three ways in which an event is accepted.
Passed(p, e) == DOMAIN p.events # {} /\ Max(DOMAIN p.events) >= e.id
AddedTo(p, e) ==
    [p EXCEPT !.last = e.id,
              !.events = [i \in DOMAIN p.events \cup {e.id} |-> IF i = e.id THEN e ELSE p.events[i]]]
Rewritten(p, e) == [p EXCEPT !.events[e.id] = IF e.type = "empty" THEN Erased ELSE e]

LEMMA PassedIs ==
    ASSUME NEW p, ProcOK(p), NEW e \in Events
    PROVE  /\ Passed(p, e) => \E i \in DOMAIN p.events : i >= e.id
           /\ (\E i \in DOMAIN p.events : i >= e.id) => Passed(p, e)
<1> DEFINE D == DOMAIN p.events
<1>0. D \in SUBSET Int /\ (\A x \in D : x <= MaxSeq) /\ MaxSeq \in Int /\ e.id \in Int
  BY Bounds, EventTypes, ProcShape
<1> HIDE DEF D
<1>1. CASE D = {}
  BY <1>1 DEF Passed, D
<1>2. CASE D # {}
  <2>1. Max(D) \in D /\ \A x \in D : x <= Max(D)
    BY <1>0, <1>2, MaxOfBounded
  <2>2. ASSUME NEW i \in D, i >= e.id PROVE Max(D) >= e.id
    <3>1. i <= Max(D) /\ i \in Int /\ Max(D) \in Int
      BY <1>0, <2>1
    <3>. QED  BY <1>0, <2>2, <3>1
  <2>. QED  BY <1>2, <2>1, <2>2 DEF Passed, D
<1>. QED  BY <1>1, <1>2

LEMMA ProcessCases ==
    ASSUME NEW p, NEW e
    PROVE  /\ e.rw /\ Passed(p, e) /\ e.id \in DOMAIN p.events /\ p.events[e.id] # Erased
                => ProcessEvent(p, e) = Compactify(Rewritten(p, e))
           /\ e.rw /\ Passed(p, e) /\ ~(e.id \in DOMAIN p.events /\ p.events[e.id] # Erased)
                => ProcessEvent(p, e) = [p EXCEPT !.ok = FALSE]
           /\ ~(e.rw /\ Passed(p, e)) /\ e.type # "put" => ProcessEvent(p, e) = Compactify(p)
           /\ ~(e.rw /\ Passed(p, e)) /\ e.type = "put" /\ Passed(p, e) => ProcessEvent(p, e) = [p EXCEPT !.ok = FALSE]
           /\ e.type = "put" /\ ~Passed(p, e) => ProcessEvent(p, e) = Compactify(AddedTo(p, e))
BY DEF ProcessEvent, Passed, Rewritten, AddedTo

IsAdded(p, e, q) ==
    /\ ProcOK(q) /\ q.ok = p.ok /\ q.last = e.id /\ DOMAIN q.events = DOMAIN p.events \cup {e.id}
    /\ q.events[e.id] = e /\ \A i \in DOMAIN p.events : q.events[i] = p.events[i] /\ i # e.id

LEMMA AddedShape ==
    ASSUME NEW p, ProcOK(p), NEW e \in Events, \A i \in DOMAIN p.events : i < e.id
    PROVE  IsAdded(p, e, AddedTo(p, e))
<1> DEFINE D == DOMAIN p.events \cup {e.id}
           f == [i \in D |-> IF i = e.id THEN e ELSE p.events[i]]
           q == [p EXCEPT !.last = e.id, !.events = f]
<1>1. e.id \in 0 .. MaxSeq /\ D \subseteq 0 .. MaxSeq /\ \A i \in DOMAIN p.events : i # e.id
  BY EventTypes, ProcShape
<1>2. f \in [D -> Events] /\ DOMAIN f = D /\ f[e.id] = e /\ \A i \in DOMAIN p.events : f[i] = p.events[i]
  BY <1>1, ProcShape
<1>3. f \in EventMaps
  BY <1>1, <1>2, EventMapIs
<1>4. p \in Processors
  BY DEF ProcOK
<1> HIDE DEF f
<1>5. q \in Processors /\ q.events = f /\ q.last = e.id /\ q.ok = p.ok
  BY <1>1, <1>3, <1>4 DEF Processors
<1>6. AddedTo(p, e) = q
  BY DEF AddedTo, f
<1> HIDE DEF q
<1>7. \A i \in DOMAIN q.events : i <= e.id
  BY <1>1, <1>2, <1>5, ProcShape, EventTypes, Bounds
<1>8. ProcOK(q)
  BY <1>5, <1>7 DEF ProcOK
<1>9. IsAdded(p, e, q)
  BY <1>1, <1>2, <1>5, <1>8 DEF IsAdded
<1>. QED  BY <1>6, <1>9

NewOf(e) == IF e.type = "empty" THEN Erased ELSE e
IsRewritten(p, e, q) ==
    /\ ProcOK(q) /\ q.ok = p.ok /\ q.last = p.last /\ DOMAIN q.events = DOMAIN p.events
    /\ q.events[e.id] = NewOf(e) /\ \A i \in DOMAIN p.events : i # e.id => q.events[i] = p.events[i]

LEMMA RewrittenShape ==
    ASSUME NEW p, ProcOK(p), NEW e \in Events, e.id \in DOMAIN p.events PROVE IsRewritten(p, e, Rewritten(p, e))
<1> DEFINE f == [p.events EXCEPT ![e.id] = NewOf(e)]
           q == [p EXCEPT !.events = f]
<1>1. NewOf(e) \in Events
  BY EventTypes DEF NewOf
<1>2. /\ f \in [DOMAIN p.events -> Events] /\ DOMAIN f = DOMAIN p.events /\ f[e.id] = NewOf(e)
      /\ \A i \in DOMAIN p.events : i # e.id => f[i] = p.events[i]
  BY <1>1, ProcShape
<1>3. f \in EventMaps
  BY <1>2, EventMapIs, ProcShape
<1>4. p \in Processors
  BY DEF ProcOK
<1>5. Rewritten(p, e) = q
  BY DEF Rewritten, NewOf
<1> HIDE DEF f
<1>6. q \in Processors /\ q.events = f /\ q.last = p.last /\ q.ok = p.ok
  BY <1>3, <1>4 DEF Processors
<1> HIDE DEF q
<1>7. ProcOK(q)
  BY <1>2, <1>6, ProcShape DEF ProcOK
<1>8. IsRewritten(p, e, q)
  BY <1>2, <1>6, <1>7 DEF IsRewritten
<1>. QED  BY <1>5, <1>8

LEMMA Refused == ASSUME NEW p, ProcOK(p) PROVE LET q == [p EXCEPT !.ok = FALSE] IN ProcOK(q) /\ q.ok = FALSE
<1> DEFINE q == [p EXCEPT !.ok = FALSE]
<1>1. p \in Processors
  BY DEF ProcOK
<1>2. q \in Processors /\ q.events = p.events /\ q.last = p.last /\ q.ok = FALSE
  BY <1>1 DEF Processors
<1> HIDE DEF q
<1>3. ProcOK(q)
  BY <1>2, ProcShape DEF ProcOK
<1>. QED  BY <1>2, <1>3 DEF q

LEMMA ProcessTyped == ASSUME NEW p, ProcOK(p), NEW e \in Events PROVE ProcOK(ProcessEvent(p, e))
<1>1. ProcOK([p EXCEPT !.ok = FALSE])
  BY Refused
<1>2. CASE ~Passed(p, e) /\ e.type = "put"
  <2>1. \A i \in DOMAIN p.events : i \in Int /\ ~(i >= e.id)
    BY <1>2, PassedIs, ProcShape
  <2>2. \A i \in DOMAIN p.events : i < e.id
    BY <2>1, EventTypes
  <2>3. ProcOK(AddedTo(p, e))
    BY <2>2, AddedShape DEF IsAdded
  <2>. QED  BY <1>2, <2>3, CompactKeeps, ProcessCases
<1>3. CASE e.rw /\ Passed(p, e) /\ e.id \in DOMAIN p.events /\ p.events[e.id] # Erased
  <2>1. ProcOK(Rewritten(p, e))
    BY <1>3, RewrittenShape DEF IsRewritten
  <2>. QED  BY <1>3, <2>1, CompactKeeps, ProcessCases
<1>4. CASE ~(e.rw /\ Passed(p, e)) /\ e.type # "put"
  BY <1>4, CompactKeeps, ProcessCases
<1>. QED  BY <1>1, <1>2, <1>3, <1>4, ProcessCases

LEMMA LoadTyped == ASSUME NEW log \in Seq(Events) PROVE ProcOK(Load(log))
<1> DEFINE N == {n \in Nat : n <= Len(log) => ProcOK(After(log)[n])}
<1>0. Len(log) \in Nat /\ DOMAIN log = 1 .. Len(log)
  BY LenProperties
<1>1. 0 \in N
  BY <1>0, LoadIsAfter, NewProcOK
<1>2. ASSUME NEW n \in Nat, n \in N PROVE n + 1 \in N
  <2> SUFFICES ASSUME n + 1 <= Len(log) PROVE ProcOK(After(log)[n + 1])
    OBVIOUS
  <2>1. n + 1 \in 1 .. Len(log) /\ (n + 1) - 1 = n /\ ProcOK(After(log)[n])
    BY <1>0, <1>2
  <2>2. After(log)[n + 1] = ProcessEvent(After(log)[n], log[n + 1]) /\ log[n + 1] \in Events
    BY <1>0, <2>1, LoadIsAfter, ElementOfSeq
  <2>. QED  BY <2>1, <2>2, ProcessTyped
<1> HIDE DEF N
<1>3. Nat \subseteq N
  BY <1>1, <1>2, NatSetInduction
<1>4. ProcOK(After(log)[Len(log)])
  BY <1>0, <1>3 DEF N
<1>. QED  BY <1>0, <1>4, LoadIsAfter

-----------------------------------------------------------------------------
(* The map a processor stands for                                          *)

Stores == [Keys -> [val : Values \cup {None}, id : 0 .. MaxSeq]]
Assign(m, k, v, i) == [m EXCEPT ![k] = [val |-> v, id |-> i]]
IsEntry(e, i, m) ==
    /\ e.type = "put" /\ e.id = i /\ i # 0 /\ e.key \in Keys /\ e.val \in Values
    /\ m[e.key] = [val |-> e.val, id |-> i]
Finds(p, k, i) == i \in DOMAIN p.events /\ p.events[i] # Erased /\ p.events[i].key = k
Rep(p, m) ==
    /\ ProcOK(p) /\ p.ok /\ m \in Stores
    /\ \A i \in DOMAIN p.events : p.events[i] = Erased \/ IsEntry(p.events[i], i, m)
    /\ \A k \in Keys : m[k] = NoEntry \/ Finds(p, k, m[k].id)

LEMMA StoreShape ==
    ASSUME NEW m \in Stores
    PROVE  /\ \A k \in Keys : m[k].val \in Values \cup {None} /\ m[k].id \in 0 .. MaxSeq
                              /\ m[k] = [val |-> m[k].val, id |-> m[k].id]
           /\ \A k \in Keys, v \in Values \cup {None}, i \in 0 .. MaxSeq :
                 /\ Assign(m, k, v, i) \in Stores
                 /\ Assign(m, k, v, i)[k] = [val |-> v, id |-> i]
                 /\ \A j \in Keys : j # k => Assign(m, k, v, i)[j] = m[j]
BY DEF Stores, Assign

LEMMA EmptyStore == [k \in Keys |-> NoEntry] \in Stores
BY Bounds DEF Stores, NoEntry

LEMMA RepNew == Rep(NewProcessor, [k \in Keys |-> NoEntry])
BY NewProcOK, EmptyStore DEF Rep

LEMMA RepMap == ASSUME NEW p, NEW m, Rep(p, m) PROVE MapOf(p) = m
<1>1. m \in Stores /\ ProcOK(p)
  BY DEF Rep
<1>2. ASSUME NEW k \in Keys PROVE MapOf(p)[k] = m[k]
  <2> DEFINE mine == {i \in DOMAIN p.events : p.events[i].key = k}
  <2>1. MapOf(p)[k] = IF mine = {} THEN NoEntry ELSE [val |-> p.events[Max(mine)].val, id |-> Max(mine)]
    BY DEF MapOf
  <2>2. \A i \in mine : m[k] = [val |-> p.events[i].val, id |-> i] /\ p.events[i] # Erased /\ i # 0
    BY EventTypes, Bounds DEF Rep, IsEntry
  <2>3. CASE mine = {}
    BY <2>1, <2>3 DEF Rep, Finds
  <2>4. CASE mine # {}
    <3>1. PICK i \in mine : TRUE
      BY <2>4
    <3>2. m[k] = [val |-> p.events[i].val, id |-> i] /\ i \in Int
      BY <1>1, <2>2, ProcShape
    <3>3. ASSUME NEW j \in mine PROVE m[k].id = j
      <4>1. m[k] = [val |-> p.events[j].val, id |-> j]
        BY <2>2
      <4>. QED  BY <4>1
    <3>4. mine = {i}
      BY <3>1, <3>3
    <3> HIDE DEF mine
    <3>. QED  BY <2>1, <2>4, <3>2, <3>4, MaxOfOne
  <2>. QED  BY <2>3, <2>4
<1>. QED  BY <1>1, <1>2 DEF MapOf, Stores

LEMMA RepCompact == ASSUME NEW p, NEW m, Rep(p, m) PROVE Rep(Compactify(p), m) /\ Compactify(p).last = p.last
<1> DEFINE q == Compactify(p)
<1>1. ProcOK(q) /\ SameLive(p, q)
  BY CompactKeeps DEF Rep
<1> HIDE DEF q
<1>2. Rep(q, m)
  BY <1>1 DEF Rep, SameLive, Finds
<1>. QED  BY <1>1, <1>2 DEF q, SameLive

IsPut(e, k, v, i) == e \in Events /\ e.type = "put" /\ e.key = k /\ e.val = v /\ e.id = i

LEMMA RepAdd ==
    ASSUME NEW p, NEW m, Rep(p, m), NEW k \in Keys, NEW v \in Values, NEW i \in 1 .. MaxSeq, NEW e,
           IsPut(e, k, v, i), p.last < i, m[k] = NoEntry
    PROVE  Rep(ProcessEvent(p, e), Assign(m, k, v, i)) /\ ProcessEvent(p, e).last = i
<1> DEFINE q == AddedTo(p, e)
           m2 == Assign(m, k, v, i)
<1>0. ProcOK(p) /\ m \in Stores /\ e \in Events /\ e.id = i /\ e.type = "put" /\ i \in 0 .. MaxSeq /\ i # 0
  BY DEF Rep, IsPut
<1>1. \A j \in DOMAIN p.events : j \in Int /\ j < e.id
  BY <1>0, ProcShape, Bounds
<1>2. ~Passed(p, e)
  BY <1>0, <1>1, PassedIs
<1>3. ProcessEvent(p, e) = Compactify(q)
  BY <1>0, <1>2, ProcessCases
<1>4. IsAdded(p, e, q)
  BY <1>0, <1>1, AddedShape
<1>5. m2 \in Stores /\ m2[k] = [val |-> v, id |-> i] /\ \A j \in Keys : j # k => m2[j] = m[j]
  BY <1>0, StoreShape
<1> HIDE DEF q, m2
<1>6. \A j \in DOMAIN p.events : q.events[j] = Erased \/ IsEntry(q.events[j], j, m2)
  <2> SUFFICES ASSUME NEW j \in DOMAIN p.events, p.events[j] # Erased PROVE IsEntry(p.events[j], j, m2)
    BY <1>4 DEF IsAdded
  <2>1. IsEntry(p.events[j], j, m)
    BY DEF Rep
  <2>2. p.events[j].key # k
    BY <2>1 DEF IsEntry, NoEntry
  <2>. QED  BY <1>5, <2>1, <2>2 DEF IsEntry
<1>7. IsEntry(q.events[i], i, m2) /\ q.events[i] = e /\ e # Erased
  BY <1>0, <1>4, <1>5, EventTypes DEF IsAdded, IsEntry, IsPut
<1>8. \A j \in Keys : m2[j] = NoEntry \/ Finds(q, j, m2[j].id)
  <2> SUFFICES ASSUME NEW j \in Keys, m2[j] # NoEntry PROVE Finds(q, j, m2[j].id)
    OBVIOUS
  <2>1. CASE j = k
    BY <1>0, <1>4, <1>5, <1>7, <2>1 DEF Finds, IsAdded, IsPut
  <2>2. CASE j # k
    <3>1. m2[j] = m[j] /\ Finds(p, j, m[j].id)
      BY <1>5, <2>2 DEF Rep
    <3>. QED  BY <1>4, <3>1 DEF Finds, IsAdded
  <2>. QED  BY <2>1, <2>2
<1>9. Rep(q, m2)
  BY <1>0, <1>4, <1>5, <1>6, <1>7, <1>8 DEF Rep, IsAdded
<1>. QED  BY <1>0, <1>3, <1>4, <1>9, RepCompact DEF m2, IsAdded

LEMMA RepRewrite ==
    ASSUME NEW p, NEW m, Rep(p, m), NEW k \in Keys, NEW v \in Values, NEW e,
           IsPut(e, k, v, m[k].id), e.rw, m[k] # NoEntry
    PROVE  Rep(ProcessEvent(p, e), Assign(m, k, v, m[k].id)) /\ ProcessEvent(p, e).last = p.last
<1> DEFINE q == Rewritten(p, e)
           i == m[k].id
           m2 == Assign(m, k, v, i)
<1>0. ProcOK(p) /\ m \in Stores /\ e \in Events /\ e.id = i /\ e.type = "put" /\ i \in 0 .. MaxSeq
  BY StoreShape DEF Rep, IsPut
<1>1. Finds(p, k, i) /\ i # 0
  <2>1. Finds(p, k, i)
    BY DEF Rep
  <2>. QED  BY <2>1 DEF Rep, Finds, IsEntry
<1>2. Passed(p, e)
  <2>1. i \in DOMAIN p.events /\ i >= e.id
    BY <1>0, <1>1, Bounds DEF Finds
  <2>. QED  BY <1>0, <2>1, PassedIs
<1>3. ProcessEvent(p, e) = Compactify(q)
  BY <1>0, <1>1, <1>2, ProcessCases DEF Finds
<1>4. IsRewritten(p, e, q) /\ NewOf(e) = e
  BY <1>0, <1>1, RewrittenShape DEF Finds, NewOf
<1>5. m2 \in Stores /\ m2[k] = [val |-> v, id |-> i] /\ \A j \in Keys : j # k => m2[j] = m[j]
  BY <1>0, StoreShape
<1> HIDE DEF q, m2
<1>6. \A j \in DOMAIN p.events : j # i => q.events[j] = Erased \/ IsEntry(q.events[j], j, m2)
  <2> SUFFICES ASSUME NEW j \in DOMAIN p.events, j # i, p.events[j] # Erased PROVE IsEntry(p.events[j], j, m2)
    BY <1>0, <1>4 DEF IsRewritten
  <2>1. IsEntry(p.events[j], j, m)
    BY DEF Rep
  <2>2. p.events[j].key # k
    BY <2>1 DEF IsEntry
  <2>. QED  BY <1>5, <2>1, <2>2 DEF IsEntry
<1>7. IsEntry(q.events[i], i, m2) /\ q.events[i] = e /\ e # Erased
  BY <1>0, <1>1, <1>4, <1>5, EventTypes DEF IsRewritten, IsEntry, IsPut
<1>8. \A j \in Keys : m2[j] = NoEntry \/ Finds(q, j, m2[j].id)
  <2> SUFFICES ASSUME NEW j \in Keys, m2[j] # NoEntry PROVE Finds(q, j, m2[j].id)
    OBVIOUS
  <2>1. CASE j = k
    BY <1>0, <1>1, <1>4, <1>5, <1>7, <2>1 DEF Finds, IsRewritten, IsPut
  <2>2. CASE j # k
    <3>1. m2[j] = m[j] /\ Finds(p, j, m[j].id)
      BY <1>5, <2>2 DEF Rep
    <3>2. m[j].id # i
      BY <1>1, <2>2, <3>1 DEF Finds
    <3>. QED  BY <1>0, <1>4, <3>1, <3>2 DEF Finds, IsRewritten
  <2>. QED  BY <2>1, <2>2
<1>9. Rep(q, m2)
  BY <1>0, <1>4, <1>5, <1>6, <1>7, <1>8 DEF Rep, IsRewritten
<1>. QED  BY <1>0, <1>3, <1>4, <1>9, RepCompact DEF m2, IsRewritten

LEMMA RepErase ==
    ASSUME NEW p, NEW m, Rep(p, m), NEW k \in Keys, m[k] # NoEntry
    PROVE  /\ Rep(ProcessEvent(p, Erase(m[k].id)), Assign(m, k, None, 0))
           /\ ProcessEvent(p, Erase(m[k].id)).last = p.last
<1> DEFINE e == Erase(m[k].id)
           q == Rewritten(p, e)
           i == m[k].id
           m2 == Assign(m, k, None, 0)
<1>0. /\ ProcOK(p) /\ m \in Stores /\ i \in 0 .. MaxSeq
      /\ e \in Events /\ e.id = i /\ e.type = "empty" /\ e.rw
  BY StoreShape DEF Rep, Erase, Events
<1> HIDE DEF e
<1>1. Finds(p, k, i)
  BY DEF Rep
<1>2. Passed(p, e)
  <2>1. i \in DOMAIN p.events /\ i >= e.id
    BY <1>0, <1>1, Bounds DEF Finds
  <2>. QED  BY <1>0, <2>1, PassedIs
<1>3. ProcessEvent(p, e) = Compactify(q)
  BY <1>0, <1>1, <1>2, ProcessCases DEF Finds
<1>4. IsRewritten(p, e, q) /\ NewOf(e) = Erased
  BY <1>0, <1>1, RewrittenShape DEF Finds, NewOf
<1>5. m2 \in Stores /\ m2[k] = NoEntry /\ \A j \in Keys : j # k => m2[j] = m[j]
  BY <1>0, StoreShape, Bounds DEF NoEntry
<1> HIDE DEF q, m2
<1>6. \A j \in DOMAIN p.events : j # i => q.events[j] = Erased \/ IsEntry(q.events[j], j, m2)
  <2> SUFFICES ASSUME NEW j \in DOMAIN p.events, j # i, p.events[j] # Erased PROVE IsEntry(p.events[j], j, m2)
    BY <1>0, <1>4 DEF IsRewritten
  <2>1. IsEntry(p.events[j], j, m)
    BY DEF Rep
  <2>2. p.events[j].key # k
    BY <2>1 DEF IsEntry
  <2>. QED  BY <1>5, <2>1, <2>2 DEF IsEntry
<1>7. q.events[i] = Erased
  BY <1>0, <1>4 DEF IsRewritten
<1>8. \A j \in Keys : m2[j] = NoEntry \/ Finds(q, j, m2[j].id)
  <2> SUFFICES ASSUME NEW j \in Keys, m2[j] # NoEntry PROVE Finds(q, j, m2[j].id)
    OBVIOUS
  <2>1. j # k
    BY <1>5
  <2>2. m2[j] = m[j] /\ Finds(p, j, m[j].id)
    BY <1>5, <2>1 DEF Rep
  <2>3. m[j].id # i
    BY <1>1, <2>1, <2>2 DEF Finds
  <2>. QED  BY <1>0, <1>4, <2>2, <2>3 DEF Finds, IsRewritten
<1>9. Rep(q, m2)
  BY <1>0, <1>4, <1>5, <1>6, <1>7, <1>8 DEF Rep, IsRewritten
<1>. QED  BY <1>0, <1>3, <1>4, <1>9, RepCompact DEF m2, e, IsRewritten

LEMMA RepEncryption ==
    ASSUME NEW p, NEW m, Rep(p, m), NEW k
    PROVE  Rep(ProcessEvent(p, Encryption(k)), m) /\ ProcessEvent(p, Encryption(k)).last = p.last
<1>1. Encryption(k).rw = FALSE /\ Encryption(k).type = "aes"
  BY DEF Encryption
<1>2. ProcessEvent(p, Encryption(k)) = Compactify(p)
  BY <1>1, ProcessCases
<1>. QED  BY <1>2, RepCompact

\* One step of the clients' map, and the event with the sequence number s that says so.
EventStep(m, e, s, m2) ==
    \/ e = NoEvent /\ m2 = m
    \/ \E k \in Keys, v \in Values :
          \/ m[k] = NoEntry /\ s \in 1 .. MaxSeq /\ IsPut(e, k, v, s) /\ m2 = Assign(m, k, v, s)
          \/ m[k] # NoEntry /\ IsPut(e, k, v, m[k].id) /\ e.rw /\ m2 = Assign(m, k, v, m[k].id)
    \/ \E k \in Keys : m[k] # NoEntry /\ e = Erase(m[k].id) /\ m2 = Assign(m, k, None, 0)

LEMMA PutIs ==
    ASSUME NEW i \in 0 .. MaxSeq, NEW rw \in BOOLEAN, NEW k \in Keys, NEW v \in Values, NEW e, e = Put(i, rw, k, v)
    PROVE  IsPut(e, k, v, i) /\ e.rw = rw /\ e # NoEvent /\ e \in Events
BY DEF IsPut, Put, Events, NoEvent, Erase

LEMMA RepStep ==
    ASSUME NEW p, NEW m, Rep(p, m), NEW s \in Int, p.last < s, NEW e, NEW m2, EventStep(m, e, s, m2), e # NoEvent
    PROVE  Rep(ProcessEvent(p, e), m2) /\ ProcessEvent(p, e).last <= s
<1>0. m \in Stores /\ p.last \in Int
  BY ProcShape, Bounds DEF Rep
<1>1. CASE \E k \in Keys, v \in Values :
             m[k] = NoEntry /\ s \in 1 .. MaxSeq /\ IsPut(e, k, v, s) /\ m2 = Assign(m, k, v, s)
  <2>1. PICK k \in Keys, v \in Values :
             m[k] = NoEntry /\ s \in 1 .. MaxSeq /\ IsPut(e, k, v, s) /\ m2 = Assign(m, k, v, s)
    BY <1>1
  <2>2. Rep(ProcessEvent(p, e), Assign(m, k, v, s)) /\ ProcessEvent(p, e).last = s
    BY <2>1, RepAdd
  <2>. QED  BY <2>1, <2>2
<1>2. CASE \E k \in Keys, v \in Values :
             m[k] # NoEntry /\ IsPut(e, k, v, m[k].id) /\ e.rw /\ m2 = Assign(m, k, v, m[k].id)
  <2>1. PICK k \in Keys, v \in Values :
             m[k] # NoEntry /\ IsPut(e, k, v, m[k].id) /\ e.rw /\ m2 = Assign(m, k, v, m[k].id)
    BY <1>2
  <2>2. Rep(ProcessEvent(p, e), Assign(m, k, v, m[k].id)) /\ ProcessEvent(p, e).last = p.last
    BY <2>1, RepRewrite
  <2>. QED  BY <1>0, <2>1, <2>2
<1>3. CASE \E k \in Keys : m[k] # NoEntry /\ e = Erase(m[k].id) /\ m2 = Assign(m, k, None, 0)
  <2>1. PICK k \in Keys : m[k] # NoEntry /\ e = Erase(m[k].id) /\ m2 = Assign(m, k, None, 0)
    BY <1>3
  <2>2. Rep(ProcessEvent(p, e), m2) /\ ProcessEvent(p, e).last = p.last
    BY <2>1, RepErase
  <2>. QED  BY <1>0, <2>2
<1>. QED  BY <1>1, <1>2, <1>3 DEF EventStep

LEMMA StepTypes ==
    ASSUME NEW m \in Stores, NEW s, NEW e, NEW m2, EventStep(m, e, s, m2)
    PROVE  m2 \in Stores /\ e \in Events /\ e.type # "aes"
<1>1. CASE e = NoEvent /\ m2 = m
  BY <1>1, EventTypes
<1>2. CASE \E k \in Keys, v \in Values :
             m[k] = NoEntry /\ s \in 1 .. MaxSeq /\ IsPut(e, k, v, s) /\ m2 = Assign(m, k, v, s)
  <2>1. PICK k \in Keys, v \in Values : s \in 1 .. MaxSeq /\ IsPut(e, k, v, s) /\ m2 = Assign(m, k, v, s)
    BY <1>2
  <2>2. s \in 0 .. MaxSeq /\ v \in Values \cup {None}
    BY <2>1
  <2>3. m2 \in Stores
    BY <2>1, <2>2, StoreShape
  <2>. QED  BY <2>1, <2>3 DEF IsPut
<1>3. CASE \E k \in Keys, v \in Values :
             m[k] # NoEntry /\ IsPut(e, k, v, m[k].id) /\ e.rw /\ m2 = Assign(m, k, v, m[k].id)
  <2>1. PICK k \in Keys, v \in Values : IsPut(e, k, v, m[k].id) /\ e.rw /\ m2 = Assign(m, k, v, m[k].id)
    BY <1>3
  <2>2. m[k].id \in 0 .. MaxSeq /\ v \in Values \cup {None}
    BY <2>1, StoreShape
  <2>3. m2 \in Stores
    BY <2>1, <2>2, StoreShape
  <2>. QED  BY <2>1, <2>3 DEF IsPut
<1>4. CASE \E k \in Keys : m[k] # NoEntry /\ e = Erase(m[k].id) /\ m2 = Assign(m, k, None, 0)
  <2>1. PICK k \in Keys : e = Erase(m[k].id) /\ m2 = Assign(m, k, None, 0)
    BY <1>4
  <2>2. m[k].id \in 0 .. MaxSeq
    BY StoreShape
  <2>0. 0 \in 0 .. MaxSeq
    BY Bounds
  <2>3. m2 \in Stores
    BY <2>0, <2>1, <2>2, StoreShape
  <2>4. e \in Events /\ e.type = "empty"
    BY <2>1, <2>2 DEF Erase, Events
  <2>. QED  BY <2>3, <2>4
<1>. QED  BY <1>1, <1>2, <1>3, <1>4 DEF EventStep

-----------------------------------------------------------------------------
(* The log that do_reindex writes                                          *)

IsLive(p, n) == n \in DOMAIN p.events /\ p.events[n] # Erased
IsUpTo(f, p, k) ==
    f = [n \in 0 .. k |->
            IF n = 0 THEN <<>>
            ELSE IF n \in DOMAIN p.events /\ p.events[n] # Erased THEN Append(f[n - 1], p.events[n]) ELSE f[n - 1]]
UpTo(p) == CHOOSE f : IsUpTo(f, p, p.last)

LEMMA UpToExists == ASSUME NEW p, NEW k \in Nat PROVE \E f : IsUpTo(f, p, k)
<1> DEFINE N == {j \in Nat : \E f : IsUpTo(f, p, j)}
<1>1. 0 \in N
  <2> DEFINE g == [n \in 0 .. 0 |-> <<>>]
  <2>1. IsUpTo(g, p, 0)
    BY DEF IsUpTo
  <2>. QED  BY <2>1
<1>2. ASSUME NEW j \in Nat, j \in N PROVE j + 1 \in N
  <2>1. PICK f : IsUpTo(f, p, j)
    BY <1>2
  <2> DEFINE step(x, n) == IF n \in DOMAIN p.events /\ p.events[n] # Erased THEN Append(x, p.events[n]) ELSE x
             g == [n \in 0 .. j + 1 |-> IF n = j + 1 THEN step(f[j], n) ELSE f[n]]
  <2>0. f = [n \in 0 .. j |-> IF n = 0 THEN <<>> ELSE step(f[n - 1], n)]
    BY <2>1 DEF IsUpTo
  <2> HIDE DEF step
  <2>2. ASSUME NEW n \in 0 .. j + 1 PROVE g[n] = IF n = 0 THEN <<>> ELSE step(g[n - 1], n)
    <3>1. CASE n = j + 1
      <4>1. g[n] = step(f[j], n) /\ g[n - 1] = f[j] /\ n # 0
        BY <3>1
      <4>. QED  BY <3>1, <4>1
    <3>2. CASE n # j + 1 /\ n # 0
      <4>1. n \in 0 .. j /\ n - 1 \in 0 .. j /\ n - 1 # j + 1
        BY <3>2
      <4>2. g[n] = f[n] /\ g[n - 1] = f[n - 1]
        BY <3>2, <4>1
      <4>3. f[n] = step(f[n - 1], n)
        BY <2>0, <3>2, <4>1
      <4>. QED  BY <3>2, <4>2, <4>3
    <3>3. CASE n # j + 1 /\ n = 0
      BY <2>0, <3>3
    <3>. QED  BY <3>1, <3>2, <3>3
  <2>3. g = [n \in 0 .. j + 1 |-> g[n]]
    OBVIOUS
  <2> HIDE DEF g
  <2>4. g = [n \in 0 .. j + 1 |-> IF n = 0 THEN <<>> ELSE step(g[n - 1], n)]
    BY <2>2, <2>3
  <2>5. IsUpTo(g, p, j + 1)
    BY <2>4 DEF IsUpTo, step
  <2>. QED  BY <2>5
<1> HIDE DEF N
<1>3. Nat \subseteq N
  BY <1>1, <1>2, NatSetInduction
<1>. QED  BY <1>3 DEF N

LEMMA LiveIsUpTo ==
    ASSUME NEW p, p.last \in Nat
    PROVE  /\ Live(p) = UpTo(p)[p.last] /\ UpTo(p)[0] = <<>>
           /\ \A n \in 1 .. p.last :
                 UpTo(p)[n] = IF IsLive(p, n) THEN Append(UpTo(p)[n - 1], p.events[n]) ELSE UpTo(p)[n - 1]
<1>1. IsUpTo(UpTo(p), p, p.last)
  BY UpToExists DEF UpTo
<1>2. Live(p) = UpTo(p)[p.last]
  BY DEF Live, UpTo, IsUpTo
<1> HIDE DEF UpTo
<1>3. \A n \in 0 .. p.last :
          UpTo(p)[n] = IF n = 0 THEN <<>>
                       ELSE IF IsLive(p, n) THEN Append(UpTo(p)[n - 1], p.events[n]) ELSE UpTo(p)[n - 1]
  BY <1>1 DEF IsUpTo, IsLive
<1>. QED  BY <1>2, <1>3

LEMMA UpToNext ==
    ASSUME NEW p, p.last \in Nat, NEW j \in Nat, j + 1 <= p.last
    PROVE  UpTo(p)[j + 1] = IF IsLive(p, j + 1) THEN Append(UpTo(p)[j], p.events[j + 1]) ELSE UpTo(p)[j]
<1>1. j + 1 \in 1 .. p.last /\ (j + 1) - 1 = j
  OBVIOUS
<1>2. \A n \in 1 .. p.last :
          UpTo(p)[n] = IF IsLive(p, n) THEN Append(UpTo(p)[n - 1], p.events[n]) ELSE UpTo(p)[n - 1]
  BY LiveIsUpTo
<1>3. UpTo(p)[j + 1] = IF IsLive(p, j + 1) THEN Append(UpTo(p)[(j + 1) - 1], p.events[j + 1])
                       ELSE UpTo(p)[(j + 1) - 1]
  BY <1>1, <1>2, Zenon
<1>. QED  BY <1>1, <1>3, Zenon

LEMMA UpToIn ==
    ASSUME NEW p, ProcOK(p), NEW E, \A i \in DOMAIN p.events : p.events[i] # Erased => p.events[i] \in E,
           NEW n \in 0 .. p.last
    PROVE  UpTo(p)[n] \in Seq(E)
<1> DEFINE N == {j \in Nat : j <= p.last => UpTo(p)[j] \in Seq(E)}
<1>0. p.last \in Nat
  BY ProcShape, Bounds
<1>1. 0 \in N
  BY <1>0, LiveIsUpTo, EmptySeq
<1>2. ASSUME NEW j \in Nat, j \in N PROVE j + 1 \in N
  <2> SUFFICES ASSUME j + 1 <= p.last PROVE UpTo(p)[j + 1] \in Seq(E)
    OBVIOUS
  <2>1. j + 1 \in 1 .. p.last /\ (j + 1) - 1 = j /\ UpTo(p)[j] \in Seq(E)
    BY <1>0, <1>2
  <2>2. UpTo(p)[j + 1] = IF IsLive(p, j + 1) THEN Append(UpTo(p)[j], p.events[j + 1]) ELSE UpTo(p)[j]
    BY <1>0, UpToNext
  <2>3. IsLive(p, j + 1) => p.events[j + 1] \in E
    BY DEF IsLive
  <2>. QED  BY <2>1, <2>2, <2>3, AppendProperties
<1> HIDE DEF N
<1>3. Nat \subseteq N
  BY <1>1, <1>2, NatSetInduction
<1>. QED  BY <1>0, <1>3 DEF N

LEMMA UpToTyped == ASSUME NEW p, ProcOK(p), NEW n \in 0 .. p.last PROVE UpTo(p)[n] \in Seq(Events)
BY ProcShape, UpToIn

Loadable(log) == \A n \in 0 .. Len(log) : \E m : Rep(Load(Prefix(log, n)), m)

LEMMA LoadableEmpty == Loadable(<<>>)
<1>1. Len(<<>>) = 0 /\ <<>> \in Seq(Events) /\ 0 .. 0 = {0}
  OBVIOUS
<1>2. Prefix(<<>>, 0) = <<>>
  BY <1>1, PrefixShape
<1>. QED  BY <1>1, <1>2, LoadEmpty, RepNew DEF Loadable

LEMMA LoadableAppend ==
    ASSUME NEW log \in Seq(Events), NEW e \in Events, Loadable(log), NEW m, Rep(ProcessEvent(Load(log), e), m)
    PROVE  Loadable(Append(log, e))
<1> DEFINE a == Append(log, e)
<1>1. a \in Seq(Events) /\ Len(a) = Len(log) + 1 /\ Len(log) \in Nat
  BY LenProperties
<1>2. Load(a) = ProcessEvent(Load(log), e)
  BY LoadAppend
<1>3. \A n \in 0 .. Len(log) : Prefix(a, n) = Prefix(log, n)
  BY PrefixOfAppend
<1> HIDE DEF a
<1>4. ASSUME NEW n \in 0 .. Len(a) PROVE \E x : Rep(Load(Prefix(a, n)), x)
  <2>1. CASE n = Len(a)
    BY <1>1, <1>2, <2>1, PrefixShape
  <2>2. CASE n # Len(a)
    <3>1. n \in 0 .. Len(log)
      BY <1>1, <2>2
    <3>. QED  BY <1>3, <3>1 DEF Loadable
  <2>. QED  BY <2>1, <2>2
<1>5. Loadable(a)
  BY <1>4 DEF Loadable
<1>. QED  BY <1>5 DEF a

LEMMA PrefixOfPrefix ==
    ASSUME NEW E, NEW log \in Seq(E), NEW n \in 0 .. Len(log), NEW j \in 0 .. n
    PROVE  Prefix(Prefix(log, n), j) = Prefix(log, j)
<1> DEFINE a == Prefix(log, n)
<1>1. a \in Seq(E) /\ Len(a) = n /\ (\A i \in 1 .. n : a[i] = log[i]) /\ Len(log) \in Nat /\ n \in Nat /\ j \in Nat
  BY PrefixShape
<1>2. j \in 0 .. Len(log) /\ j \in 0 .. Len(a)
  BY <1>1
<1> HIDE DEF a
<1>3. Prefix(a, j) \in Seq(E) /\ Len(Prefix(a, j)) = j /\ \A i \in 1 .. j : Prefix(a, j)[i] = a[i]
  BY <1>1, <1>2, PrefixShape
<1>4. Prefix(log, j) \in Seq(E) /\ Len(Prefix(log, j)) = j /\ \A i \in 1 .. j : Prefix(log, j)[i] = log[i]
  BY <1>2, PrefixShape
<1>5. \A i \in 1 .. j : i \in 1 .. n
  BY <1>1
<1>6. \A i \in 1 .. j : Prefix(a, j)[i] = Prefix(log, j)[i]
  BY <1>1, <1>3, <1>4, <1>5
<1>7. Prefix(a, j) = Prefix(log, j)
  BY <1>3, <1>4, <1>6, SeqEqual
<1>. QED  BY <1>7 DEF a

LEMMA LoadablePrefix ==
    ASSUME NEW log \in Seq(Events), Loadable(log), NEW n \in 0 .. Len(log)
    PROVE  Loadable(Prefix(log, n)) /\ \E m : Rep(Load(Prefix(log, n)), m)
<1>1. Len(Prefix(log, n)) = n /\ Len(log) \in Nat
  BY PrefixShape
<1>2. ASSUME NEW j \in 0 .. n PROVE Prefix(Prefix(log, n), j) = Prefix(log, j) /\ j \in 0 .. Len(log)
  BY <1>1, PrefixOfPrefix
<1>. QED  BY <1>1, <1>2 DEF Loadable

LEMMA PrefixOfConcat ==
    ASSUME NEW E, NEW a \in Seq(E), NEW b \in Seq(E), NEW n \in 0 .. Len(a) PROVE Prefix(a \o b, n) = Prefix(a, n)
<1> DEFINE c == a \o b
<1>1. c \in Seq(E) /\ Len(c) = Len(a) + Len(b) /\ Len(a) \in Nat /\ Len(b) \in Nat /\ \A i \in 1 .. Len(a) : c[i] = a[i]
  BY LenProperties, ConcatProperties
<1> HIDE DEF c
<1>2. n \in 0 .. Len(c) /\ n \in Nat
  BY <1>1
<1>3. Prefix(c, n) \in Seq(E) /\ Len(Prefix(c, n)) = n /\ \A i \in 1 .. n : Prefix(c, n)[i] = c[i]
  BY <1>1, <1>2, PrefixShape
<1>4. Prefix(a, n) \in Seq(E) /\ Len(Prefix(a, n)) = n /\ \A i \in 1 .. n : Prefix(a, n)[i] = a[i]
  BY PrefixShape
<1>5. \A i \in 1 .. n : Prefix(c, n)[i] = Prefix(a, n)[i]
  BY <1>1, <1>2, <1>3, <1>4
<1>6. Prefix(c, n) = Prefix(a, n)
  BY <1>3, <1>4, <1>5, SeqEqual
<1>. QED  BY <1>6 DEF c

LEMMA ConcatAppend ==
    ASSUME NEW E, NEW a \in Seq(E), NEW b \in Seq(E), NEW e \in E PROVE a \o Append(b, e) = Append(a \o b, e)
BY AppendIsConcat, ConcatAssociative, ConcatProperties

LEMMA LoadableStart ==
    ASSUME NEW a \in Seq(Events), NEW b \in Seq(Events), Loadable(a \o b) PROVE Loadable(a)
<1>1. a \o b \in Seq(Events) /\ Len(a \o b) = Len(a) + Len(b) /\ Len(a) \in Nat /\ Len(b) \in Nat
  BY LenProperties, ConcatProperties
<1>2. Len(a) \in 0 .. Len(a) /\ Len(a) \in 0 .. Len(a \o b)
  BY <1>1
<1>3. Prefix(a \o b, Len(a)) = a
  <2>1. Prefix(a \o b, Len(a)) = Prefix(a, Len(a))
    BY <1>2, PrefixOfConcat, Zenon
  <2>2. Prefix(a, Len(a)) = a
    BY <1>2, PrefixShape
  <2>. QED  BY <2>1, <2>2
<1>. QED  BY <1>1, <1>2, <1>3, LoadablePrefix

LEMMA EncryptionLoads ==
    ASSUME NEW k \in DbKeys \cup {None}, NEW enc, enc = IF k = None THEN <<>> ELSE <<Encryption(k)>>
    PROVE  /\ enc \in Seq(Events) /\ Loadable(enc)
           /\ Rep(Load(enc), [x \in Keys |-> NoEntry]) /\ Load(enc).last = 0
<1>1. CASE k = None
  BY <1>1, LoadableEmpty, LoadEmpty, RepNew, NewProcOK, EmptySeq
<1>2. CASE k # None
  <2>1. Encryption(k) \in Events /\ <<>> \in Seq(Events) /\ enc = Append(<<>>, Encryption(k))
    BY <1>2, EventTypes
  <2>2. Load(enc) = ProcessEvent(NewProcessor, Encryption(k))
    BY <2>1, LoadAppend, LoadEmpty
  <2>3. Rep(Load(enc), [x \in Keys |-> NoEntry]) /\ Load(enc).last = 0
    BY <2>2, RepEncryption, RepNew, NewProcOK
  <2>4. Loadable(enc)
    BY <2>1, <2>2, <2>3, LoadableAppend, LoadableEmpty, LoadEmpty
  <2>. QED  BY <2>1, <2>3, <2>4, AppendProperties
<1>. QED  BY <1>1, <1>2

CutAt(m, n) == [k \in Keys |-> IF m[k].id <= n THEN m[k] ELSE NoEntry]

LEMMA LiveLoads ==
    ASSUME NEW p, NEW m, Rep(p, m), NEW enc \in Seq(Events), Loadable(enc),
           Rep(Load(enc), [k \in Keys |-> NoEntry]), Load(enc).last = 0, NEW n \in 0 .. p.last
    PROVE  LET log == enc \o UpTo(p)[n]
           IN  Loadable(log) /\ Rep(Load(log), CutAt(m, n)) /\ Load(log).last <= n
<1> DEFINE log(j) == enc \o UpTo(p)[j]
           Good(j) == Loadable(log(j)) /\ Rep(Load(log(j)), CutAt(m, j)) /\ Load(log(j)).last <= j
           N == {j \in Nat : j <= p.last => Good(j)}
<1>0. p.last \in Nat /\ ProcOK(p) /\ m \in Stores
  BY ProcShape, Bounds DEF Rep
<1>1. 0 \in N
  <2>1. log(0) = enc
    BY <1>0, LiveIsUpTo, ConcatEmptySeq
  <2>2. ASSUME NEW k \in Keys PROVE (IF m[k].id <= 0 THEN m[k] ELSE NoEntry) = NoEntry
    <3>1. m[k] = NoEntry \/ Finds(p, k, m[k].id)
      BY DEF Rep
    <3>2. Finds(p, k, m[k].id) => m[k].id # 0
      BY DEF Finds, Rep, IsEntry
    <3>3. m[k].id \in 0 .. MaxSeq
      BY <1>0, StoreShape
    <3>. QED  BY <3>1, <3>2, <3>3
  <2>3. CutAt(m, 0) = [k \in Keys |-> NoEntry]
    BY <2>2 DEF CutAt
  <2> HIDE DEF log
  <2>. QED  BY <2>1, <2>3
<1>2. ASSUME NEW j \in Nat, j \in N PROVE j + 1 \in N
  <2> SUFFICES ASSUME j + 1 <= p.last PROVE Good(j + 1)
    OBVIOUS
  <2>1. j + 1 \in 1 .. p.last /\ (j + 1) - 1 = j /\ Good(j) /\ j \in 0 .. p.last
    BY <1>0, <1>2
  <2>2. UpTo(p)[j + 1] = IF IsLive(p, j + 1) THEN Append(UpTo(p)[j], p.events[j + 1]) ELSE UpTo(p)[j]
    <3>1. p.last \in Nat
      BY <1>0
    <3> HIDE DEF log, Good, N
    <3>. QED  BY <3>1, UpToNext
  <2>3. UpTo(p)[j] \in Seq(Events) /\ log(j) \in Seq(Events)
    BY <1>0, <2>1, UpToTyped, ConcatProperties
  <2>4. CASE IsLive(p, j + 1)
    <3> DEFINE e == p.events[j + 1]
               k == e.key
    <3>1. e \in Events /\ IsEntry(e, j + 1, m)
      BY <1>0, <2>4, ProcShape DEF IsLive, Rep
    <3>2. k \in Keys /\ e.val \in Values /\ m[k] = [val |-> e.val, id |-> j + 1] /\ IsPut(e, k, e.val, j + 1)
      BY <3>1 DEF IsEntry, IsPut
    <3>0. UpTo(p)[j + 1] = Append(UpTo(p)[j], e)
      BY <2>2, <2>4
    <3>3. log(j + 1) = Append(log(j), e)
      <4> HIDE DEF e
      <4>1. enc \o Append(UpTo(p)[j], e) = Append(enc \o UpTo(p)[j], e)
        BY <2>3, <3>1, ConcatAppend
      <4>. QED  BY <3>0, <4>1
    <3> HIDE DEF log, e
    <3>4. m[k].id = j + 1
      BY <3>2
    <3>5. CutAt(m, j)[k] = NoEntry
      BY <3>2, <3>4 DEF CutAt
    <3>6. j + 1 \in 1 .. MaxSeq
      BY <1>0, <2>1, ProcShape, Bounds
    <3>7. Load(log(j)).last < j + 1
      <4>1. Load(log(j)).last \in Int
        BY <2>1, ProcShape DEF Rep
      <4>. QED  BY <2>1, <4>1
    <3>8. /\ Rep(ProcessEvent(Load(log(j)), e), Assign(CutAt(m, j), k, e.val, j + 1))
          /\ ProcessEvent(Load(log(j)), e).last = j + 1
      BY <2>1, <3>2, <3>5, <3>6, <3>7, RepAdd
    <3>9. Assign(CutAt(m, j), k, e.val, j + 1) = CutAt(m, j + 1)
      <4>1. CutAt(m, j) \in Stores
        BY <2>1 DEF Rep
      <4>2. ASSUME NEW x \in Keys PROVE Assign(CutAt(m, j), k, e.val, j + 1)[x] = CutAt(m, j + 1)[x]
        <5>1. CASE x = k
          BY <3>2, <3>4, <5>1 DEF Assign, CutAt
        <5>2. CASE x # k
          <6>1. m[x].id # j + 1
            <7>1. m[x] = NoEntry \/ Finds(p, x, m[x].id)
              BY DEF Rep
            <7>2. Finds(p, x, j + 1) => x = k
              BY DEF Finds, e
            <7>. QED  BY <5>2, <7>1, <7>2 DEF NoEntry
          <6>2. m[x].id \in Int
            <7>1. m[x].id \in 0 .. MaxSeq
              BY <1>0, StoreShape
            <7>. QED  BY <7>1
          <6>3. (m[x].id <= j) <=> (m[x].id <= j + 1)
            BY <6>1, <6>2
          <6>. QED  BY <5>2, <6>3 DEF Assign, CutAt
        <5>. QED  BY <5>1, <5>2
      <4>. QED  BY <4>2 DEF Assign, CutAt
    <3>10. Load(log(j + 1)) = ProcessEvent(Load(log(j)), e)
      BY <2>3, <3>1, <3>3, LoadAppend
    <3>11. Loadable(log(j + 1))
      BY <2>1, <2>3, <3>1, <3>3, <3>8, LoadableAppend
    <3>. QED  BY <3>8, <3>9, <3>10, <3>11
  <2>5. CASE ~IsLive(p, j + 1)
    <3>1. log(j + 1) = log(j)
      BY <2>2, <2>5
    <3>2. ASSUME NEW x \in Keys PROVE (m[x].id <= j) <=> (m[x].id <= j + 1)
      <4>1. m[x].id # j + 1
        <5>1. m[x] = NoEntry \/ Finds(p, x, m[x].id)
          BY DEF Rep
        <5>2. ~Finds(p, x, j + 1)
          BY <2>5 DEF Finds, IsLive
        <5>. QED  BY <5>1, <5>2 DEF NoEntry
      <4>2. m[x].id \in Int
        <5>1. m[x].id \in 0 .. MaxSeq
          BY <1>0, StoreShape
        <5>. QED  BY <5>1
      <4>. QED  BY <4>1, <4>2
    <3>3. CutAt(m, j + 1) = CutAt(m, j)
      BY <3>2 DEF CutAt
    <3> HIDE DEF log
    <3>4. Load(log(j)).last \in Int
      BY <2>1, ProcShape DEF Rep
    <3>. QED  BY <2>1, <3>1, <3>3, <3>4
  <2>. QED  BY <2>4, <2>5
<1> HIDE DEF N, Good, log
<1>3. Nat \subseteq N
  BY <1>1, <1>2, NatSetInduction
<1>4. Good(n)
  BY <1>0, <1>3 DEF N
<1>. QED  BY <1>4 DEF Good, log

LEMMA ReindexLoads ==
    ASSUME NEW p, NEW m, Rep(p, m), NEW k \in DbKeys \cup {None},
           NEW log, log = (IF k = None THEN <<>> ELSE <<Encryption(k)>>) \o Live(p)
    PROVE  log \in Seq(Events) /\ Loadable(log) /\ Rep(Load(log), m) /\ Load(log).last <= p.last
<1> DEFINE enc == IF k = None THEN <<>> ELSE <<Encryption(k)>>
<1>1. /\ enc \in Seq(Events) /\ Loadable(enc)
      /\ Rep(Load(enc), [x \in Keys |-> NoEntry]) /\ Load(enc).last = 0
  BY EncryptionLoads
<1> HIDE DEF enc
<1>2. ProcOK(p) /\ p.last \in Nat /\ p.last \in 0 .. p.last /\ m \in Stores
  BY ProcShape, Bounds DEF Rep
<1>3. log = enc \o UpTo(p)[p.last]
  BY <1>2, LiveIsUpTo DEF enc
<1>4. Loadable(log) /\ Rep(Load(log), CutAt(m, p.last)) /\ Load(log).last <= p.last
  BY <1>1, <1>2, <1>3, LiveLoads
<1>5. ASSUME NEW x \in Keys PROVE m[x].id <= p.last
  <2>1. m[x] = NoEntry \/ Finds(p, x, m[x].id)
    BY DEF Rep
  <2>2. CASE m[x] = NoEntry
    BY <1>2, <2>2 DEF NoEntry
  <2>3. CASE Finds(p, x, m[x].id)
    BY <1>2, <2>3, ProcShape DEF Finds
  <2>. QED  BY <2>1, <2>2, <2>3
<1>6. CutAt(m, p.last) = m
  BY <1>2, <1>5 DEF CutAt, Stores
<1>7. UpTo(p)[p.last] \in Seq(Events)
  BY <1>2, UpToTyped
<1>8. log \in Seq(Events)
  BY <1>1, <1>3, <1>7, ConcatProperties
<1>. QED  BY <1>4, <1>6, <1>8

LEMMA ReindexKey ==
    ASSUME NEW p, NEW m, Rep(p, m), NEW k \in DbKeys \cup {None},
           NEW log, log = (IF k = None THEN <<>> ELSE <<Encryption(k)>>) \o Live(p)
    PROVE  FileKey(log) = k
<1> DEFINE E == {e \in Events : e.type = "put"}
<1>1. ProcOK(p) /\ p.last \in 0 .. p.last /\ p.last \in Nat
  BY ProcShape, Bounds DEF Rep
<1>2. \A i \in DOMAIN p.events : p.events[i] # Erased => p.events[i] \in E
  BY <1>1, ProcShape DEF Rep, IsEntry
<1>3. Live(p) \in Seq(E) /\ Live(p) \in Seq(Events)
  <2> HIDE DEF E
  <2>1. UpTo(p)[p.last] \in Seq(E)
    BY <1>1, <1>2, UpToIn
  <2>2. UpTo(p)[p.last] \in Seq(Events)
    BY <1>1, UpToTyped
  <2>. QED  BY <1>1, <2>1, <2>2, LiveIsUpTo
<1>4. CASE k = None
  <2>1. log = Live(p)
    BY <1>3, <1>4, ConcatEmptySeq
  <2>2. log # <<>> => log[1] \in E
    BY <1>3, <2>1
  <2>. QED  BY <1>4, <2>2 DEF FileKey
<1>5. CASE k # None
  <2>1. Encryption(k) \in Events /\ <<Encryption(k)>> \in Seq(Events)
    BY <1>5, EventTypes
  <2>2. log = <<Encryption(k)>> \o Live(p)
    BY <1>5
  <2>3. Len(<<Encryption(k)>>) = 1 /\ <<Encryption(k)>>[1] = Encryption(k) /\ 1 \in 1 .. 1
    OBVIOUS
  <2>4. Len(log) = 1 + Len(Live(p)) /\ Len(Live(p)) \in Nat /\ log[1] = Encryption(k)
    BY <1>3, <2>1, <2>2, <2>3, ConcatProperties, LenProperties
  <2>5. log # <<>>
    BY <2>4
  <2>. QED  BY <2>4, <2>5 DEF FileKey, Encryption
<1>. QED  BY <1>4, <1>5

\* do_reindex loses nothing: the events it writes for a processor that stands for a map, after
\* the encryption event if there is a key, load without an error to the same map, ids included.
THEOREM ReindexKeepsMap ==
    ASSUME NEW p, NEW m, Rep(p, m), NEW k \in DbKeys \cup {None}
    PROVE  LET log == (IF k = None THEN <<>> ELSE <<Encryption(k)>>) \o Live(p)
           IN  Load(log).ok /\ MapOf(Load(log)) = MapOf(p) /\ FileKey(log) = k
<1> DEFINE log == (IF k = None THEN <<>> ELSE <<Encryption(k)>>) \o Live(p)
<1>1. Rep(Load(log), m) /\ FileKey(log) = k
  BY ReindexLoads, ReindexKey
<1> HIDE DEF log
<1>2. Load(log).ok /\ MapOf(Load(log)) = m /\ MapOf(p) = m
  BY <1>1, RepMap DEF Rep
<1>. QED  BY <1>1, <1>2 DEF log

-----------------------------------------------------------------------------
(* Types                                                                   *)

EventMessages == [kind : {"event"}, seq : Seqs, ev : Events, promise : BOOLEAN]
Asked == [kind : {"forceSync", "forceFlush", "changeKey", "close", "destroy"}, key : DbKeys \cup {None}]

ClientsOK ==
    /\ map \in Stores /\ nextSeq - 1 \in Seqs \cup {0} /\ nextSeq \in Nat /\ up \in BOOLEAN
    /\ mail \in [Clients -> Seq(Messages)] /\ versions \in Seq(Contents)
ActorOK ==
    /\ begin \in 1 .. nextSeq /\ held \subseteq EventMessages
    /\ waiting \subseteq Seqs /\ promises \subseteq Seqs \cup {0}
    /\ timer \in [force : BOOLEAN, lazy : BOOLEAN, flush : BOOLEAN, armed : BOOLEAN]
FilesOK ==
    /\ buf \in Seq(Events) /\ fdSize \in Nat /\ needSync \in BOOLEAN
    /\ dbKey \in DbKeys \cup {None} /\ disk \in [path : Files, new : Files]
    /\ ProcOK(proc)
StateOK == pc \in [at : Labels, then : Labels] /\ acked \in 1 .. Len(versions)

Typed == ClientsOK /\ ActorOK /\ FilesOK /\ StateOK

LEMMA Constants ==
    /\ FlushLimit \in Nat /\ CompactMin \in Nat /\ MaxSeq \in Nat /\ MaxMail \in Nat
    /\ Cardinality(Keys) \in Nat /\ Seqs = 1 .. MaxSeq + Cardinality(Keys)
<1>1. Cardinality(Keys) \in Nat
  BY BinlogAssumption, FS_CardinalityType
<1>. QED  BY <1>1, BinlogAssumption DEF Seqs

LEMMA TypedTypeOK == Typed => TypeOK
BY DEF Typed, ClientsOK, ActorOK, FilesOK, StateOK, TypeOK, Stores, EventMessages

LEMMA MapTyped == ASSUME NEW p, ProcOK(p) PROVE MapOf(p) \in Stores /\ Content(MapOf(p)) \in Contents
<1>1. ASSUME NEW k \in Keys PROVE MapOf(p)[k] \in [val : Values \cup {None}, id : 0 .. MaxSeq]
  <2> DEFINE mine == {i \in DOMAIN p.events : p.events[i].key = k}
  <2>1. MapOf(p)[k] = IF mine = {} THEN NoEntry ELSE [val |-> p.events[Max(mine)].val, id |-> Max(mine)]
    BY DEF MapOf
  <2>2. CASE mine = {}
    BY <2>1, <2>2, Bounds DEF NoEntry
  <2>3. CASE mine # {}
    <3>1. mine \in SUBSET Int /\ (\A x \in mine : x <= MaxSeq) /\ MaxSeq \in Int
      BY ProcShape, Bounds
    <3>2. Max(mine) \in mine
      BY <2>3, <3>1, MaxOfBounded
    <3>3. Max(mine) \in DOMAIN p.events
      BY <3>2
    <3>4. Max(mine) \in 0 .. MaxSeq /\ p.events[Max(mine)] \in Events
      BY <3>3, ProcShape
    <3> HIDE DEF mine
    <3>. QED  BY <2>1, <2>3, <3>4, EventTypes
  <2>. QED  BY <2>2, <2>3
<1>2. MapOf(p) \in Stores
  BY <1>1 DEF MapOf, Stores
<1>. QED  BY <1>2 DEF Content, Contents, Stores

LEMMA ContentTyped == ASSUME NEW m \in Stores PROVE Content(m) \in Contents
BY DEF Content, Contents, Stores

LEMMA FilesTyped ==
    /\ NoFile \in Files /\ NewFile \in Files
    /\ \A f \in Files : f.log \in Seq(Events) /\ f.safe \in Nat /\ f.there \in BOOLEAN /\ Len(f.log) \in Nat
    /\ \A f \in Files : Synced(f) \in Files
    /\ \A f \in Files, b \in Seq(Events) : Flushed(f, b) \in Files /\ Flushed(f, b).log = f.log \o b
                                           /\ Flushed(f, b).safe = f.safe /\ Flushed(f, b).there = f.there
<1>1. \A s \in Seq(Events) : Len(s) \in Nat
  BY LenProperties
<1>2. \A s, t \in Seq(Events) : s \o t \in Seq(Events)
  BY ConcatProperties
<1>3. NoFile \in Files /\ NewFile \in Files
  <2>1. <<>> \in Seq(Events)
    OBVIOUS
  <2>. QED  BY <2>1 DEF Files, NoFile, NewFile
<1>4. ASSUME NEW f \in Files
      PROVE  /\ f.log \in Seq(Events) /\ f.safe \in Nat /\ f.there \in BOOLEAN /\ Len(f.log) \in Nat
             /\ Synced(f) \in Files
  <2>1. f.log \in Seq(Events) /\ f.safe \in Nat /\ f.there \in BOOLEAN
    BY DEF Files
  <2>2. Len(f.log) \in Nat
    BY <1>1, <2>1
  <2>3. Synced(f) \in Files
    BY <2>2 DEF Files, Synced
  <2>. QED  BY <2>1, <2>2, <2>3
<1>5. ASSUME NEW f \in Files, NEW b \in Seq(Events)
      PROVE  Flushed(f, b) \in Files /\ Flushed(f, b).log = f.log \o b
             /\ Flushed(f, b).safe = f.safe /\ Flushed(f, b).there = f.there
  <2>1. f.log \o b \in Seq(Events)
    BY <1>2, <1>4
  <2>. QED  BY <2>1 DEF Files, Flushed
<1>. QED  BY <1>3, <1>4, <1>5

LEMMA RemainsTyped ==
    ASSUME NEW f \in Files, NEW b \in Seq(Events), NEW r \in Remains(f, b) PROVE r \in Files
<1> DEFINE all == f.log \o b
           least == IF "power" \in Faults THEN f.safe ELSE Len(f.log)
<1>1. all \in Seq(Events) /\ Len(all) \in Nat /\ least \in Nat
  BY FilesTyped, ConcatProperties, LenProperties
<1>2. ASSUME NEW n \in least .. Len(all) PROVE SubSeq(all, 1, n) \in Seq(Events) /\ n \in Nat
  <2>1. n \in 0 .. Len(all)
    BY <1>1
  <2>2. Prefix(all, n) \in Seq(Events)
    BY <1>1, <2>1, PrefixShape
  <2>. QED  BY <1>1, <2>2 DEF Prefix
<1>3. CASE ~f.there
  BY <1>3, FilesTyped DEF Remains
<1>4. CASE f.there
  <2>1. PICK n \in least .. Len(all), t \in {FALSE, FileKey(all) # None /\ Len(all) > least} :
            r = [there |-> TRUE, log |-> SubSeq(all, 1, n), safe |-> n, torn |-> t]
    BY <1>4 DEF Remains
  <2>2. t \in BOOLEAN
    BY <2>1
  <2> HIDE DEF all, least
  <2>. QED  BY <1>2, <2>1, <2>2 DEF Files
<1>. QED  BY <1>3, <1>4

LEMMA OneInSeq == ASSUME NEW S, NEW x \in S PROVE <<x>> \in Seq(S)
OBVIOUS

LEMMA InitTyped == ASSUME Init PROVE Typed
<1>1. [k \in Keys |-> NoEntry] \in Stores
  BY EmptyStore
<1>2. ClientsOK
  <2>1. mail \in [Clients -> Seq(Messages)]
    BY DEF Init
  <2>2. versions \in Seq(Contents)
    BY <1>1, ContentTyped DEF Init
  <2>3. map \in Stores /\ nextSeq = 1 /\ up = FALSE
    BY <1>1 DEF Init
  <2>4. nextSeq - 1 = 0 /\ nextSeq \in Nat
    BY <2>3
  <2>5. up \in BOOLEAN
    BY <2>3
  <2>. QED  BY <2>1, <2>2, <2>3, <2>4, <2>5 DEF ClientsOK
<1>3. ActorOK
  BY DEF Init, ActorOK, Idle
<1>4. FilesOK
  <2>1. disk \in [path : Files, new : Files]
    BY FilesTyped DEF Init
  <2>2. ProcOK(proc) /\ buf \in Seq(Events)
    BY NewProcOK, EmptySeq DEF Init
  <2>. QED  BY <2>1, <2>2 DEF Init, FilesOK
<1>5. StateOK
  BY DEF Init, StateOK, Labels
<1>. QED  BY <1>2, <1>3, <1>4, <1>5 DEF Typed

LEMMA StopTyped ==
    ASSUME Typed, NEW d \in [path : Files, new : Files], StopWith(d) PROVE Typed'
<1>1. Opened(d) \in Files
  BY DEF Opened
<1>2. Load(Opened(d).log) \in Processors /\ ProcOK(Load(Opened(d).log))
  BY <1>1, FilesTyped, LoadTyped DEF ProcOK
<1>3. Recovered(d) \in Contents
  BY <1>2, MapTyped DEF Recovered
<1>4. ClientsOK'
  <2>1. mail' \in [Clients -> Seq(Messages)]
    BY DEF StopWith
  <2>2. versions' \in Seq(Contents)
    BY <1>3 DEF StopWith
  <2>3. map' \in Stores /\ nextSeq' = 1 /\ up' = FALSE
    BY EmptyStore DEF StopWith
  <2>4. nextSeq' - 1 = 0 /\ nextSeq' \in Nat
    BY <2>3
  <2>5. up' \in BOOLEAN
    BY <2>3
  <2>. QED  BY <2>1, <2>2, <2>3, <2>4, <2>5 DEF ClientsOK
<1>5. ActorOK'
  BY DEF StopWith, ActorOK, Idle
<1>6. FilesOK'
  <2>1. disk' \in [path : Files, new : Files]
    BY DEF StopWith
  <2>2. ProcOK(proc') /\ buf' \in Seq(Events)
    BY NewProcOK, EmptySeq DEF StopWith
  <2>. QED  BY <2>1, <2>2 DEF StopWith, FilesOK
<1>7. StateOK'
  BY DEF StopWith, StateOK, Labels, Goto
<1>. QED  BY <1>4, <1>5, <1>6, <1>7 DEF Typed

LEMMA PostTyped ==
    ASSUME Typed, NEW c \in Clients, NEW ms \in Seq(Messages), Post(c, ms)
    PROVE  mail' \in [Clients -> Seq(Messages)] /\ mail'[c] = mail[c] \o ms
           /\ \A d \in Clients : d # c => mail'[d] = mail[d]
<1>1. mail[c] \in Seq(Messages) /\ mail \in [Clients -> Seq(Messages)]
  BY DEF Typed, ClientsOK
<1>2. mail[c] \o ms \in Seq(Messages)
  BY <1>1, ConcatProperties
<1>. QED  BY <1>1, <1>2 DEF Post

LEMMA VersionsGrow ==
    ASSUME Typed, NEW b \in Seq(Contents), versions' = versions \o b, acked' = acked
    PROVE  versions' \in Seq(Contents) /\ acked' \in 1 .. Len(versions')
<1>1. versions \in Seq(Contents) /\ acked \in 1 .. Len(versions)
  BY DEF Typed, ClientsOK, StateOK
<1>2. versions' \in Seq(Contents) /\ Len(versions') = Len(versions) + Len(b) /\ Len(versions) \in Nat /\ Len(b) \in Nat
  BY <1>1, ConcatProperties, LenProperties
<1>. QED  BY <1>1, <1>2

-----------------------------------------------------------------------------
(* What the clients' changes have in common: the map takes n steps, each   *)
(* with its event, its sequence number and its version.                    *)

Tidy(m) == \A k \in Keys : m[k].id = 0 => m[k] = NoEntry

clientFrame == <<up, orderVars, promises, timer, logVars, dbKey, pc, acked>>
Growth(c, n, ms, g) ==
    /\ up /\ n \in Nat /\ nextSeq + n - 1 \in Seqs /\ ms \in Seq(EventMessages) /\ Len(ms) = n
    /\ g \in [0 .. n -> Stores] /\ g[0] = map /\ map' = g[n]
    /\ \A i \in 1 .. n : ms[i].seq = nextSeq + i - 1 /\ EventStep(g[i - 1], ms[i].ev, ms[i].seq, g[i])
    /\ Post(c, ms)
    /\ versions' = versions \o [i \in 1 .. n |-> Content(g[i])]
    /\ nextSeq' = nextSeq + n
    /\ UNCHANGED clientFrame
Grows(c) == \E n, ms, g : Growth(c, n, ms, g)

LEMMA OneGrowth ==
    ASSUME Typed, NEW c \in Clients, Room(c), NEW e, NEW promise \in BOOLEAN, NEW m \in Stores,
           EventStep(map, e, nextSeq, m), map' = m, Post(c, <<Event(nextSeq, e, promise)>>),
           versions' = Append(versions, Content(map')), nextSeq' = nextSeq + 1, UNCHANGED clientFrame
    PROVE  Grows(c)
<1> DEFINE ms == <<Event(nextSeq, e, promise)>>
           g == [i \in 0 .. 1 |-> IF i = 0 THEN map ELSE m]
<1>1. map \in Stores /\ nextSeq \in Nat /\ nextSeq - 1 \in Seqs \cup {0} /\ nextSeq <= MaxSeq /\ versions \in Seq(Contents)
  BY DEF Room, Typed, ClientsOK
<1>2. nextSeq \in Seqs /\ nextSeq + 1 - 1 = nextSeq
  BY <1>1, Constants
<1>3. e \in Events
  BY <1>1, StepTypes
<1>4. Event(nextSeq, e, promise) \in EventMessages
  BY <1>2, <1>3 DEF Event, EventMessages
<1>5. ms \in Seq(EventMessages) /\ Len(ms) = 1 /\ ms[1] = Event(nextSeq, e, promise)
  BY <1>4, OneInSeq
<1>6. ms[1].seq = nextSeq /\ ms[1].ev = e
  BY <1>5 DEF Event
<1>7. g \in [0 .. 1 -> Stores] /\ g[0] = map /\ g[1] = m
  BY <1>1
<1>8. Content(m) \in Contents /\ versions' = versions \o <<Content(m)>>
  BY <1>1, ContentTyped, AppendIsConcat
<1>9. [i \in 1 .. 1 |-> Content(g[i])] = <<Content(m)>>
  <2>1. \A i \in 1 .. 1 : i = 1
    OBVIOUS
  <2>. QED  BY <1>7, <2>1
<1> HIDE DEF ms, g
<1>10. \A i \in 1 .. 1 : ms[i].seq = nextSeq + i - 1 /\ EventStep(g[i - 1], ms[i].ev, ms[i].seq, g[i])
  <2>1. \A i \in 1 .. 1 : i = 1 /\ i - 1 = 0
    OBVIOUS
  <2>. QED  BY <1>1, <1>6, <1>7, <2>1
<1>11. Growth(c, 1, ms, g)
  BY <1>2, <1>5, <1>7, <1>8, <1>9, <1>10 DEF Growth, ms, Room
<1>. QED  BY <1>11 DEF Grows

LEMMA SetGrows ==
    ASSUME Typed, Tidy(map), NEW c \in Clients, NEW k \in Keys, NEW v \in Values, Set(c, k, v) PROVE Grows(c)
<1> DEFINE rw == (map[k].id # 0)
           i == IF rw THEN map[k].id ELSE nextSeq
           e == Put(i, rw, k, v)
           m == Assign(map, k, v, i)
<1>1. map \in Stores /\ nextSeq \in Nat /\ nextSeq - 1 \in Seqs \cup {0} /\ nextSeq <= MaxSeq
  BY DEF Set, Room, Typed, ClientsOK
<1>2. map[k].id \in 0 .. MaxSeq /\ v \in Values \cup {None}
  BY <1>1, StoreShape
<1>3. i \in 0 .. MaxSeq /\ nextSeq \in 1 .. MaxSeq
  BY <1>1, <1>2, Constants
<1>4. rw \in BOOLEAN
  OBVIOUS
<1>5. map' = m /\ Post(c, <<Event(nextSeq, e, FALSE)>>)
  BY DEF Set, Assign
<1>6. m \in Stores
  BY <1>1, <1>2, <1>3, StoreShape
<1>7. IsPut(e, k, v, i) /\ e.rw = rw
  <2> HIDE DEF rw, i
  <2>. QED  BY <1>3, <1>4, PutIs
<1> HIDE DEF e
<1>8. EventStep(map, e, nextSeq, m)
  <2>1. CASE rw
    <3>1. map[k] # NoEntry /\ i = map[k].id
      BY <2>1 DEF NoEntry
    <3>2. e.rw
      BY <1>7, <2>1
    <3> HIDE DEF rw, i, m
    <3>. QED  BY <1>7, <3>1, <3>2 DEF EventStep, m
  <2>2. CASE ~rw
    <3>1. map[k] = NoEntry /\ i = nextSeq
      BY <2>2 DEF Tidy
    <3> HIDE DEF rw, i, m
    <3>. QED  BY <1>3, <1>7, <3>1 DEF EventStep, m
  <2>. QED  BY <2>1, <2>2
<1> HIDE DEF m, i, rw
<1>. QED  BY <1>5, <1>6, <1>8, OneGrowth DEF Set, clientFrame

LEMMA LazySyncGrows == ASSUME Typed, NEW c \in Clients, LazySync(c) PROVE Grows(c)
<1>1. map \in Stores /\ EventStep(map, NoEvent, nextSeq, map)
  BY DEF Typed, ClientsOK, EventStep
<1>. QED  BY <1>1, OneGrowth DEF LazySync, clientFrame

Without(ks, i) == [k \in Keys |-> IF \E j \in 1 .. i : ks[j] = k THEN NoEntry ELSE map[k]]

LEMMA EraseGrows ==
    ASSUME Typed, Tidy(map), NEW c \in Clients, NEW ks \in (SUBSET Keys) \ {{}}, NEW order \in SetToSeqs(ks),
           EraseKeys(c, order)
    PROVE  Grows(c)
<1> DEFINE n == Cardinality(ks)
           ms == [i \in 1 .. n |-> Event(nextSeq + i - 1, Erase(map[order[i]].id), FALSE)]
           g == [i \in 0 .. n |-> Without(order, i)]
<1>1. map \in Stores /\ nextSeq \in Nat /\ nextSeq - 1 \in Seqs \cup {0} /\ nextSeq <= MaxSeq /\ versions \in Seq(Contents)
  BY DEF EraseKeys, Room, Typed, ClientsOK
<1>2. n \in Nat /\ n <= Cardinality(Keys) /\ n # 0
  <2>1. ks \in SUBSET Keys /\ ks # {} /\ IsFiniteSet(Keys)
    BY Bounds
  <2>2. IsFiniteSet(ks) /\ n <= Cardinality(Keys)
    BY <2>1, FS_Subset
  <2>. QED  BY <2>1, <2>2, FS_CardinalityType, FS_EmptySet
<1> HIDE DEF n
<1>3. order \in [1 .. n -> ks] /\ \A i, j \in 1 .. n : i # j => order[i] # order[j]
  BY DEF SetToSeqs, n
<1>4. order \in Seq(ks) /\ Len(order) = n /\ \A i \in 1 .. n : order[i] \in Keys
  BY <1>2, <1>3
<1>5. /\ \A i \in 1 .. n : map[order[i]] # NoEntry
      /\ map' = Without(order, n) /\ Post(c, ms)
      /\ versions' = versions \o [i \in 1 .. n |-> Content(Without(order, i))]
      /\ nextSeq' = nextSeq + n /\ Room(c) /\ UNCHANGED clientFrame
  BY <1>4 DEF EraseKeys, Without, clientFrame
<1>6. \A i \in 0 .. n : Without(order, i) \in Stores
  BY <1>1, EmptyStore DEF Without, Stores
<1>7. Without(order, 0) = map
  <2>1. 1 .. 0 = {}
    OBVIOUS
  <2>. QED  BY <1>1, <2>1 DEF Without, Stores
<1>8. \A i \in 1 .. n : nextSeq + i - 1 \in Seqs
  BY <1>1, <1>2, Constants
<1>9. ASSUME NEW i \in 1 .. n
      PROVE  /\ ms[i] \in EventMessages /\ ms[i].seq = nextSeq + i - 1
             /\ EventStep(Without(order, i - 1), ms[i].ev, ms[i].seq, Without(order, i))
  <2> DEFINE k == order[i]
             a == Without(order, i - 1)
             b == Without(order, i)
  <2>1. k \in Keys /\ map[k] # NoEntry /\ map[k].id \in 0 .. MaxSeq
    BY <1>1, <1>4, <1>5, StoreShape
  <2>2. ms[i] = Event(nextSeq + i - 1, Erase(map[k].id), FALSE)
    OBVIOUS
  <2>3. Erase(map[k].id) \in Events
    BY <2>1, Bounds DEF Erase, Events
  <2>4. ms[i] \in EventMessages /\ ms[i].seq = nextSeq + i - 1 /\ ms[i].ev = Erase(map[k].id)
    BY <1>8, <2>2, <2>3 DEF Event, EventMessages
  <2>5. i - 1 \in 0 .. n /\ a \in Stores /\ b \in Stores
    BY <1>2, <1>6
  <2>6. a[k] = map[k]
    <3>1. \A j \in 1 .. i - 1 : order[j] # k
      BY <1>2, <1>3
    <3>. QED  BY <2>1, <3>1 DEF Without
  <2>7. b = Assign(a, k, None, 0)
    <3>1. ASSUME NEW x \in Keys PROVE b[x] = Assign(a, k, None, 0)[x]
      <4>1. CASE x = k
        <5>1. i \in 1 .. i
          BY <1>2
        <5>2. b[x] = NoEntry
          BY <4>1, <5>1 DEF Without
        <5>. QED  BY <2>5, <4>1, <5>2 DEF Assign, Stores, NoEntry
      <4>2. CASE x # k
        <5>1. \A j \in 1 .. i : j \in 1 .. i - 1 \/ j = i
          BY <1>2
        <5>2. \A j \in 1 .. i - 1 : j \in 1 .. i
          BY <1>2
        <5>3. (\E j \in 1 .. i : order[j] = x) <=> (\E j \in 1 .. i - 1 : order[j] = x)
          BY <4>2, <5>1, <5>2
        <5>4. b[x] = a[x]
          BY <5>3 DEF Without
        <5>. QED  BY <2>5, <4>2, <5>4 DEF Assign, Stores
      <4>. QED  BY <4>1, <4>2
    <3>. QED  BY <2>5, <3>1 DEF Assign, Stores
  <2> HIDE DEF a, b, k, ms
  <2>8. EventStep(a, ms[i].ev, ms[i].seq, b)
    BY <2>1, <2>4, <2>6, <2>7 DEF EventStep
  <2>. QED  BY <2>4, <2>8 DEF a, b
<1>10. ms \in Seq(EventMessages) /\ Len(ms) = n
  <2>1. ms \in [1 .. n -> EventMessages]
    BY <1>9
  <2> HIDE DEF ms
  <2>. QED  BY <1>2, <2>1
<1>11. g \in [0 .. n -> Stores] /\ g[0] = map /\ map' = g[n] /\ \A i \in 1 .. n : g[i - 1] = Without(order, i - 1) /\ g[i] = Without(order, i)
  BY <1>2, <1>5, <1>6, <1>7
<1>12. versions' = versions \o [i \in 1 .. n |-> Content(g[i])]
  <2>1. [i \in 1 .. n |-> Content(g[i])] = [i \in 1 .. n |-> Content(Without(order, i))]
    BY <1>11
  <2>. QED  BY <1>5, <2>1
<1>13. nextSeq + n - 1 \in Seqs
  BY <1>2, <1>8
<1> HIDE DEF ms, g
<1>14. Growth(c, n, ms, g)
  BY <1>2, <1>5, <1>9, <1>10, <1>11, <1>12, <1>13 DEF Growth, Room
<1>. QED  BY <1>14 DEF Grows

-----------------------------------------------------------------------------
(* The order of the events: every number given out and not processed has   *)
(* one message, in a client's mail or held.                                *)

Mailed(q, c, i) == i \in 1 .. Len(q[c]) /\ q[c][i].kind = "event"
NumberOf(q, c, i) == q[c][i].seq
Pending(q, hd, s) == (\E m \in hd : m.seq = s) \/ \E c \in Clients, i \in Nat : Mailed(q, c, i) /\ NumberOf(q, c, i) = s
Ordered(q, hd, b, n) ==
    /\ \A c \in Clients, i \in Nat : Mailed(q, c, i) => NumberOf(q, c, i) \in b .. n - 1
    /\ \A m \in hd : m.seq \in b .. n - 1
    /\ \A c, d \in Clients : \A i, j \in Nat :
          Mailed(q, c, i) /\ Mailed(q, d, j) /\ NumberOf(q, c, i) = NumberOf(q, d, j) => c = d /\ i = j
    /\ \A m \in hd, c \in Clients, i \in Nat : Mailed(q, c, i) => NumberOf(q, c, i) # m.seq
    /\ \A m, l \in hd : m.seq = l.seq => m = l
    /\ \A s \in b .. n - 1 : Pending(q, hd, s)
OrderOK == Ordered(mail, held, begin, nextSeq)

LEMMA MailShape ==
    ASSUME Typed, NEW c \in Clients
    PROVE  mail[c] \in Seq(Messages) /\ Len(mail[c]) \in Nat /\ \A i \in 1 .. Len(mail[c]) : mail[c][i] \in Messages
<1>1. mail[c] \in Seq(Messages)
  BY DEF Typed, ClientsOK
<1>. QED  BY <1>1, LenProperties, ElementOfSeq

LEMMA MessageShape ==
    /\ \A m \in Messages : m.kind = "event" => m \in EventMessages
    /\ \A m \in EventMessages : m \in Messages /\ m.kind = "event" /\ m.seq \in Seqs /\ m.seq \in Int
                                /\ m.ev \in Events /\ m.promise \in BOOLEAN
<1>1. \A m \in Messages : m.kind = "event" => m \in EventMessages
  BY DEF Messages, EventMessages
<1>2. \A m \in EventMessages : m \in Messages /\ m.kind = "event" /\ m.seq \in Seqs
                                /\ m.ev \in Events /\ m.promise \in BOOLEAN
  BY DEF Messages, EventMessages
<1>. QED  BY <1>1, <1>2, Constants

IsConcat(a, b, c) ==
    /\ Len(c) = Len(a) + Len(b) /\ Len(a) \in Nat /\ Len(b) \in Nat
    /\ \A i \in 1 .. Len(a) : c[i] = a[i]
    /\ \A j \in 1 .. Len(b) : c[Len(a) + j] = b[j]

LEMMA ConcatAt == ASSUME NEW S, NEW a \in Seq(S), NEW b \in Seq(S) PROVE IsConcat(a, b, a \o b)
<1>1. Len(a) \in Nat /\ Len(b) \in Nat
  BY LenProperties
<1>2. /\ Len(a \o b) = Len(a) + Len(b)
      /\ \A i \in 1 .. Len(a) + Len(b) : (a \o b)[i] = IF i <= Len(a) THEN a[i] ELSE b[i - Len(a)]
  BY ConcatProperties
<1>3. ASSUME NEW j \in 1 .. Len(b) PROVE (a \o b)[Len(a) + j] = b[j]
  <2>1. Len(a) + j \in 1 .. Len(a) + Len(b) /\ ~(Len(a) + j <= Len(a)) /\ (Len(a) + j) - Len(a) = j
    BY <1>1
  <2>. QED  BY <1>2, <2>1
<1>4. ASSUME NEW i \in 1 .. Len(a) PROVE (a \o b)[i] = a[i]
  BY <1>1, <1>2
<1>. QED  BY <1>1, <1>2, <1>3, <1>4 DEF IsConcat

MailPlus(c, n, ms, L) ==
    /\ L \in Nat
    /\ \A d \in Clients, i \in Nat : Mailed(mail, d, i) => Mailed(mail', d, i) /\ mail'[d][i] = mail[d][i]
    /\ \A j \in 1 .. n : Mailed(mail', c, L + j) /\ mail'[c][L + j] = ms[j]
    /\ \A d \in Clients, i \in Nat :
          Mailed(mail', d, i) => Mailed(mail, d, i) \/ (d = c /\ i - L \in 1 .. n /\ L + (i - L) = i)

LEMMA MailGrown ==
    ASSUME Typed, NEW c \in Clients, NEW n, NEW ms, NEW g, Growth(c, n, ms, g), NEW L, L = Len(mail[c])
    PROVE  MailPlus(c, n, ms, L)
<1>1. /\ ms \in Seq(EventMessages) /\ Len(ms) = n /\ n \in Nat /\ \A j \in 1 .. n : ms[j] \in EventMessages
  BY LenProperties, ElementOfSeq DEF Growth
<1>2. EventMessages \subseteq Messages
  BY MessageShape
<1>3. ms \in Seq(Messages)
  BY <1>1, <1>2, SeqMonotonic
<1>4. mail'[c] = mail[c] \o ms /\ \A d \in Clients : d # c => mail'[d] = mail[d]
  BY <1>3, PostTyped DEF Growth
<1>5. mail[c] \in Seq(Messages) /\ L \in Nat
  BY MailShape
<1>6. /\ Len(mail'[c]) = L + n
      /\ \A i \in 1 .. L : mail'[c][i] = mail[c][i]
      /\ \A j \in 1 .. n : mail'[c][L + j] = ms[j]
  <2>1. PICK a : a = mail[c]
    OBVIOUS
  <2>2. a \in Seq(Messages) /\ Len(a) = L /\ mail'[c] = a \o ms
    BY <1>4, <1>5, <2>1
  <2>3. /\ Len(a \o ms) = L + n
        /\ \A i \in 1 .. L : (a \o ms)[i] = a[i]
        /\ \A j \in 1 .. n : (a \o ms)[L + j] = ms[j]
    <3>1. IsConcat(a, ms, a \o ms)
      BY <1>3, <2>2, ConcatAt
    <3>. QED  BY <1>1, <2>2, <3>1 DEF IsConcat
  <2>. QED  BY <2>1, <2>2, <2>3
<1>7. ASSUME NEW d \in Clients, NEW i \in Nat, Mailed(mail, d, i) PROVE Mailed(mail', d, i) /\ mail'[d][i] = mail[d][i]
  <2>1. CASE d = c
    <3>1. i \in 1 .. L /\ i \in 1 .. L + n
      BY <1>1, <1>5, <1>7, <2>1 DEF Mailed
    <3>. QED  BY <1>6, <1>7, <2>1, <3>1 DEF Mailed
  <2>2. CASE d # c
    BY <1>4, <1>7, <2>2 DEF Mailed
  <2>. QED  BY <2>1, <2>2
<1>8. ASSUME NEW j \in 1 .. n PROVE Mailed(mail', c, L + j) /\ mail'[c][L + j] = ms[j]
  <2>1. L + j \in 1 .. L + n
    BY <1>1, <1>5
  <2>2. ms[j].kind = "event"
    BY <1>1, MessageShape
  <2>. QED  BY <1>6, <2>1, <2>2 DEF Mailed
<1>9. ASSUME NEW d \in Clients, NEW i \in Nat, Mailed(mail', d, i)
      PROVE  Mailed(mail, d, i) \/ (d = c /\ i - L \in 1 .. n /\ L + (i - L) = i)
  <2>1. CASE d # c
    BY <1>4, <1>9, <2>1 DEF Mailed
  <2>2. CASE d = c
    <3>1. i \in 1 .. L + n
      BY <1>6, <1>9, <2>2 DEF Mailed
    <3>2. CASE i \in 1 .. L
      BY <1>6, <1>9, <2>2, <3>2 DEF Mailed
    <3>3. CASE i \notin 1 .. L
      BY <1>1, <1>5, <2>2, <3>1, <3>3
    <3>. QED  BY <3>2, <3>3
  <2>. QED  BY <2>1, <2>2
<1>. QED  BY <1>5, <1>7, <1>8, <1>9 DEF MailPlus

LEMMA GrowthOrder ==
    ASSUME Typed, OrderOK, NEW c \in Clients, NEW n, NEW ms, NEW g, Growth(c, n, ms, g) PROVE OrderOK'
<1>0. PICK L : L = Len(mail[c])
  OBVIOUS
<1>1. /\ L \in Nat
      /\ \A d \in Clients, i \in Nat : Mailed(mail, d, i) => Mailed(mail', d, i) /\ mail'[d][i] = mail[d][i]
      /\ \A j \in 1 .. n : Mailed(mail', c, L + j) /\ mail'[c][L + j] = ms[j]
      /\ \A d \in Clients, i \in Nat :
            Mailed(mail', d, i) => Mailed(mail, d, i) \/ (d = c /\ i - L \in 1 .. n /\ L + (i - L) = i)
  <2>1. MailPlus(c, n, ms, L)
    BY <1>0, MailGrown
  <2>. QED  BY <2>1 DEF MailPlus
<1>2. n \in Nat /\ nextSeq \in Nat /\ begin \in Nat /\ begin <= nextSeq
  BY DEF Growth, Typed, ClientsOK, ActorOK
<1>3. nextSeq' = nextSeq + n /\ begin' = begin /\ held' = held /\ \A j \in 1 .. n : ms[j].seq = nextSeq + j - 1
  BY DEF Growth, clientFrame, orderVars
<1>4. ASSUME NEW d \in Clients, NEW i \in Nat, Mailed(mail', d, i)
      PROVE  \/ Mailed(mail, d, i) /\ NumberOf(mail', d, i) = NumberOf(mail, d, i) /\ NumberOf(mail, d, i) \in begin .. nextSeq - 1
             \/ d = c /\ i - L \in 1 .. n /\ i = L + (i - L) /\ NumberOf(mail', d, i) = nextSeq + (i - L) - 1
  <2>1. CASE Mailed(mail, d, i)
    BY <1>1, <2>1 DEF OrderOK, Ordered, NumberOf
  <2>2. CASE d = c /\ i - L \in 1 .. n /\ L + (i - L) = i
    BY <1>1, <1>3, <2>2 DEF NumberOf
  <2>. QED  BY <1>1, <1>4, <2>1, <2>2
<1>5. \A d \in Clients, i \in Nat : Mailed(mail', d, i) => NumberOf(mail', d, i) \in begin' .. nextSeq' - 1
  BY <1>1, <1>2, <1>3, <1>4
<1>6. \A m \in held' : m.seq \in begin' .. nextSeq' - 1
  BY <1>2, <1>3 DEF OrderOK, Ordered
<1>7. ASSUME NEW d \in Clients, NEW e \in Clients, NEW i \in Nat, NEW j \in Nat,
             Mailed(mail', d, i), Mailed(mail', e, j), NumberOf(mail', d, i) = NumberOf(mail', e, j)
      PROVE  d = e /\ i = j
  <2>1. CASE Mailed(mail, d, i) /\ NumberOf(mail', d, i) = NumberOf(mail, d, i) /\ Mailed(mail, e, j) /\ NumberOf(mail', e, j) = NumberOf(mail, e, j)
    BY <1>7, <2>1 DEF OrderOK, Ordered
  <2>. QED  BY <1>1, <1>2, <1>4, <1>7, <2>1
<1>8. ASSUME NEW m \in held', NEW d \in Clients, NEW i \in Nat, Mailed(mail', d, i) PROVE NumberOf(mail', d, i) # m.seq
  <2>1. m \in held /\ m.seq \in begin .. nextSeq - 1
    BY <1>3 DEF OrderOK, Ordered
  <2>2. CASE Mailed(mail, d, i) /\ NumberOf(mail', d, i) = NumberOf(mail, d, i)
    BY <2>1, <2>2 DEF OrderOK, Ordered
  <2>. QED  BY <1>1, <1>2, <1>4, <1>8, <2>1, <2>2
<1>9. \A m, l \in held' : m.seq = l.seq => m = l
  BY <1>3 DEF OrderOK, Ordered
<1>10. ASSUME NEW s \in begin' .. nextSeq' - 1 PROVE Pending(mail', held', s)
  <2>1. CASE s <= nextSeq - 1
    <3>1. Pending(mail, held, s)
      BY <1>2, <1>3, <2>1 DEF OrderOK, Ordered
    <3>. QED  BY <1>1, <1>3, <3>1 DEF Pending, NumberOf
  <2>2. CASE s > nextSeq - 1
    <3> DEFINE j == s - nextSeq + 1
    <3>1. j \in 1 .. n /\ nextSeq + j - 1 = s /\ L + j \in Nat
      BY <1>1, <1>2, <1>3, <2>2
    <3> HIDE DEF j
    <3>2. Mailed(mail', c, L + j) /\ NumberOf(mail', c, L + j) = s
      BY <1>1, <1>3, <3>1 DEF NumberOf
    <3>. QED  BY <3>1, <3>2 DEF Pending
  <2>. QED  BY <1>2, <1>3, <2>1, <2>2
<1>. QED  BY <1>5, <1>6, <1>7, <1>8, <1>9, <1>10 DEF OrderOK, Ordered

\* Position i of client d in the mail once the first message of c has gone, and the other way.
From(c, d, i) == IF d = c THEN i + 1 ELSE i
To(c, d, i) == IF d = c THEN i - 1 ELSE i
MailMinus(c) ==
    /\ mail' \in [Clients -> Seq(Messages)]
    /\ Head(mail[c]) = mail[c][1] /\ mail[c][1] \in Messages /\ 1 \in 1 .. Len(mail[c])
    /\ \A d \in Clients, i \in Nat :
          Mailed(mail', d, i) => /\ From(c, d, i) \in Nat /\ Mailed(mail, d, From(c, d, i))
                                 /\ mail'[d][i] = mail[d][From(c, d, i)] /\ (d = c => From(c, d, i) # 1)
    /\ \A d \in Clients, i \in Nat :
          Mailed(mail, d, i) /\ ~(d = c /\ i = 1) =>
              To(c, d, i) \in Nat /\ Mailed(mail', d, To(c, d, i)) /\ mail'[d][To(c, d, i)] = mail[d][i]

LEMMA MailTaken == ASSUME Typed, NEW c \in Clients, NEW kind, Receive(c, kind) PROVE MailMinus(c)
<1>1. mail \in [Clients -> Seq(Messages)] /\ mail[c] \in Seq(Messages) /\ mail[c] # <<>>
  BY DEF Receive, Typed, ClientsOK
<1>2. PICK a : a = mail[c]
  OBVIOUS
<1>3. a \in Seq(Messages) /\ a # <<>> /\ Len(a) \in Nat
  BY <1>1, <1>2, LenProperties
<1>4. /\ Tail(a) \in Seq(Messages) /\ Len(Tail(a)) = Len(a) - 1
      /\ \A i \in 1 .. Len(Tail(a)) : Tail(a)[i] = a[i + 1]
  BY <1>3, HeadTailProperties
<1>5. Len(a) # 0 /\ Head(a) = a[1] /\ 1 \in 1 .. Len(a)
  BY <1>3, EmptySeq
<1>6. a[1] \in Messages
  BY <1>3, <1>5, ElementOfSeq
<1>7. mail' = [mail EXCEPT ![c] = Tail(a)]
  BY <1>2 DEF Receive
<1>8. mail' \in [Clients -> Seq(Messages)] /\ mail'[c] = Tail(a) /\ \A d \in Clients : d # c => mail'[d] = mail[d]
  BY <1>1, <1>4, <1>7
<1>9. ASSUME NEW d \in Clients, NEW i \in Nat, Mailed(mail', d, i)
      PROVE  /\ From(c, d, i) \in Nat /\ Mailed(mail, d, From(c, d, i))
             /\ mail'[d][i] = mail[d][From(c, d, i)] /\ (d = c => From(c, d, i) # 1)
  <2>1. CASE d = c
    <3>1. i \in 1 .. Len(Tail(a)) /\ i + 1 \in 1 .. Len(a) /\ Tail(a)[i] = a[i + 1] /\ i + 1 # 1 /\ From(c, d, i) = i + 1
      BY <1>3, <1>4, <1>8, <1>9, <2>1 DEF Mailed, From
    <3>. QED  BY <1>2, <1>8, <1>9, <2>1, <3>1 DEF Mailed
  <2>2. CASE d # c
    BY <1>8, <1>9, <2>2 DEF Mailed, From
  <2>. QED  BY <2>1, <2>2
<1>10. ASSUME NEW d \in Clients, NEW i \in Nat, Mailed(mail, d, i), ~(d = c /\ i = 1)
       PROVE  To(c, d, i) \in Nat /\ Mailed(mail', d, To(c, d, i)) /\ mail'[d][To(c, d, i)] = mail[d][i]
  <2>1. CASE d = c
    <3>1. i \in 1 .. Len(a) /\ i # 1 /\ To(c, d, i) = i - 1
      BY <1>2, <1>10, <2>1 DEF Mailed, To
    <3>2. i - 1 \in 1 .. Len(Tail(a)) /\ (i - 1) + 1 = i /\ i - 1 \in Nat
      BY <1>3, <1>4, <3>1
    <3>3. Tail(a)[i - 1] = a[i]
      BY <1>4, <3>2
    <3>. QED  BY <1>2, <1>8, <1>10, <2>1, <3>1, <3>2, <3>3 DEF Mailed
  <2>2. CASE d # c
    BY <1>8, <1>10, <2>2 DEF Mailed, To
  <2>. QED  BY <2>1, <2>2
<1>11. Head(mail[c]) = mail[c][1] /\ mail[c][1] \in Messages /\ 1 \in 1 .. Len(mail[c])
  BY <1>2, <1>5, <1>6
<1>. QED  BY <1>8, <1>9, <1>10, <1>11 DEF MailMinus

\* The first message is an event, which is now held, or no event.
LEMMA TakenOrder ==
    ASSUME Typed, OrderOK, NEW c \in Clients, MailMinus(c), begin' = begin, nextSeq' = nextSeq,
           \/ mail[c][1].kind = "event" /\ held' = held \cup {mail[c][1]}
           \/ mail[c][1].kind # "event" /\ held' = held
    PROVE  OrderOK'
<1>1. /\ 1 \in 1 .. Len(mail[c])
      /\ \A d \in Clients, i \in Nat :
            Mailed(mail', d, i) => /\ From(c, d, i) \in Nat /\ Mailed(mail, d, From(c, d, i))
                                   /\ NumberOf(mail', d, i) = NumberOf(mail, d, From(c, d, i)) /\ (d = c => From(c, d, i) # 1)
      /\ \A d \in Clients, i \in Nat :
            Mailed(mail, d, i) /\ ~(d = c /\ i = 1) =>
                To(c, d, i) \in Nat /\ Mailed(mail', d, To(c, d, i)) /\ NumberOf(mail', d, To(c, d, i)) = NumberOf(mail, d, i)
  BY DEF MailMinus, NumberOf
<1>2. \A d \in Clients, i, j \in Nat : From(c, d, i) = From(c, d, j) => i = j
  BY DEF From
<1>3. mail[c][1].kind = "event" => Mailed(mail, c, 1) /\ NumberOf(mail, c, 1) = mail[c][1].seq
  BY <1>1 DEF Mailed, NumberOf
<1>4. \A d \in Clients, i \in Nat : Mailed(mail', d, i) => NumberOf(mail', d, i) \in begin .. nextSeq - 1
  BY <1>1 DEF OrderOK, Ordered
<1>5. \A m \in held' : m.seq \in begin .. nextSeq - 1
  BY <1>3 DEF OrderOK, Ordered
<1>6. ASSUME NEW d \in Clients, NEW e \in Clients, NEW i \in Nat, NEW j \in Nat,
             Mailed(mail', d, i), Mailed(mail', e, j), NumberOf(mail', d, i) = NumberOf(mail', e, j)
      PROVE  d = e /\ i = j
  <2>1. d = e /\ From(c, d, i) = From(c, e, j)
    BY <1>1, <1>6 DEF OrderOK, Ordered
  <2>. QED  BY <1>2, <2>1
<1>7. ASSUME NEW m \in held', NEW d \in Clients, NEW i \in Nat, Mailed(mail', d, i) PROVE NumberOf(mail', d, i) # m.seq
  <2>1. CASE m \in held
    BY <1>1, <1>7, <2>1 DEF OrderOK, Ordered
  <2>2. CASE m = mail[c][1] /\ mail[c][1].kind = "event"
    BY <1>1, <1>3, <1>7, <2>2 DEF OrderOK, Ordered
  <2>. QED  BY <2>1, <2>2
<1>8. ASSUME NEW m \in held', NEW l \in held', m.seq = l.seq PROVE m = l
  BY <1>3, <1>8 DEF OrderOK, Ordered
<1>9. ASSUME NEW s \in begin .. nextSeq - 1 PROVE Pending(mail', held', s)
  <2>1. CASE \E m \in held : m.seq = s
    BY <2>1 DEF Pending
  <2>2. CASE \E d \in Clients, i \in Nat : Mailed(mail, d, i) /\ NumberOf(mail, d, i) = s
    <3>1. PICK d \in Clients, i \in Nat : Mailed(mail, d, i) /\ NumberOf(mail, d, i) = s
      BY <2>2
    <3>2. CASE d = c /\ i = 1
      <4>1. mail[c][1].kind = "event" /\ mail[c][1].seq = s
        BY <3>1, <3>2 DEF Mailed, NumberOf
      <4>2. mail[c][1] \in held'
        BY <4>1
      <4>. QED  BY <4>1, <4>2 DEF Pending
    <3>3. CASE ~(d = c /\ i = 1)
      BY <1>1, <3>1, <3>3 DEF Pending
    <3>. QED  BY <3>2, <3>3
  <2>. QED  BY <2>1, <2>2 DEF OrderOK, Ordered, Pending
<1>10. begin' .. nextSeq' - 1 = begin .. nextSeq - 1
  OBVIOUS
<1>11. Ordered(mail', held', begin', nextSeq')
  BY <1>4, <1>5, <1>6, <1>7, <1>8, <1>9, <1>10 DEF Ordered
<1>. QED  BY <1>11 DEF OrderOK

SameEvents ==
    /\ mail' \in [Clients -> Seq(Messages)]
    /\ \A d \in Clients, i \in Nat : Mailed(mail, d, i) => Mailed(mail', d, i) /\ mail'[d][i] = mail[d][i]
    /\ \A d \in Clients, i \in Nat : Mailed(mail', d, i) => Mailed(mail, d, i)

Kinds == {"forceSync", "forceFlush", "changeKey", "close", "destroy"}

\* A message that is no event comes last.
LEMMA AskedMail ==
    ASSUME Typed, NEW c \in Clients, NEW kind \in Kinds, NEW k \in DbKeys \cup {None}, Ask(c, kind, k)
    PROVE  SameEvents
<1> DEFINE x == [kind |-> kind, key |-> k]
<1>1. x \in Messages /\ x.kind # "event"
  BY DEF Kinds, Messages
<1>2. Post(c, <<x>>)
  BY DEF Ask
<1> HIDE DEF x
<1>3. <<x>> \in Seq(Messages) /\ Len(<<x>>) = 1 /\ <<x>>[1] = x
  BY <1>1, OneInSeq
<1>4. /\ mail' \in [Clients -> Seq(Messages)] /\ mail'[c] = mail[c] \o <<x>>
      /\ \A d \in Clients : d # c => mail'[d] = mail[d]
  BY <1>2, <1>3, PostTyped
<1>5. PICK a : a = mail[c]
  OBVIOUS
<1>6. a \in Seq(Messages) /\ Len(a) \in Nat
  BY <1>5, MailShape
<1>7. IsConcat(a, <<x>>, a \o <<x>>)
  BY <1>3, <1>6, ConcatAt
<1>8. Len(mail'[c]) = Len(a) + 1 /\ (\A i \in 1 .. Len(a) : mail'[c][i] = a[i]) /\ mail'[c][Len(a) + 1] = x
  BY <1>3, <1>4, <1>5, <1>7 DEF IsConcat
<1>9. ASSUME NEW d \in Clients, NEW i \in Nat, Mailed(mail, d, i) PROVE Mailed(mail', d, i) /\ mail'[d][i] = mail[d][i]
  <2>1. CASE d = c
    <3>1. i \in 1 .. Len(a) /\ i \in 1 .. Len(a) + 1
      BY <1>5, <1>6, <1>9, <2>1 DEF Mailed
    <3>. QED  BY <1>5, <1>8, <1>9, <2>1, <3>1 DEF Mailed
  <2>2. CASE d # c
    BY <1>4, <1>9, <2>2 DEF Mailed
  <2>. QED  BY <2>1, <2>2
<1>10. ASSUME NEW d \in Clients, NEW i \in Nat, Mailed(mail', d, i) PROVE Mailed(mail, d, i)
  <2>1. CASE d = c
    <3>1. i \in 1 .. Len(a) + 1 /\ i # Len(a) + 1
      BY <1>1, <1>8, <1>10, <2>1 DEF Mailed
    <3>2. i \in 1 .. Len(a)
      BY <1>6, <3>1
    <3>. QED  BY <1>5, <1>8, <1>10, <2>1, <3>2 DEF Mailed
  <2>2. CASE d # c
    BY <1>4, <1>10, <2>2 DEF Mailed
  <2>. QED  BY <2>1, <2>2
<1>. QED  BY <1>4, <1>9, <1>10 DEF SameEvents

LEMMA SameOrder ==
    ASSUME OrderOK, SameEvents, held' = held, begin' = begin, nextSeq' = nextSeq PROVE OrderOK'
<1>1. /\ \A d \in Clients, i \in Nat : Mailed(mail, d, i) => Mailed(mail', d, i) /\ NumberOf(mail', d, i) = NumberOf(mail, d, i)
      /\ \A d \in Clients, i \in Nat : Mailed(mail', d, i) => Mailed(mail, d, i)
  BY DEF SameEvents, NumberOf
<1>2. Ordered(mail, held, begin, nextSeq)
  BY DEF OrderOK
<1>3. \A d \in Clients, i \in Nat : Mailed(mail', d, i) => NumberOf(mail', d, i) \in begin .. nextSeq - 1
  BY <1>1, <1>2 DEF Ordered
<1>4. ASSUME NEW d \in Clients, NEW e \in Clients, NEW i \in Nat, NEW j \in Nat,
             Mailed(mail', d, i), Mailed(mail', e, j), NumberOf(mail', d, i) = NumberOf(mail', e, j)
      PROVE  d = e /\ i = j
  BY <1>1, <1>2, <1>4 DEF Ordered
<1>5. \A m \in held, d \in Clients, i \in Nat : Mailed(mail', d, i) => NumberOf(mail', d, i) # m.seq
  BY <1>1, <1>2 DEF Ordered
<1>6. ASSUME NEW s \in begin .. nextSeq - 1 PROVE Pending(mail', held, s)
  BY <1>1, <1>2 DEF Ordered, Pending
<1>7. Ordered(mail', held, begin, nextSeq)
  BY <1>2, <1>3, <1>4, <1>5, <1>6 DEF Ordered
<1>. QED  BY <1>7 DEF OrderOK

\* The event with the number begin is processed.
LEMMA DrainOrder ==
    ASSUME Typed, OrderOK, NEW m \in held, m.seq = begin, held' = held \ {m}, begin' = begin + 1,
           nextSeq' = nextSeq, mail' = mail
    PROVE  OrderOK' /\ begin' \in 1 .. nextSeq
<1>1. begin \in Nat /\ nextSeq \in Nat /\ begin >= 1
  BY DEF Typed, ActorOK, ClientsOK
<1>2. Ordered(mail, held, begin, nextSeq)
  BY DEF OrderOK
<1>3. begin \in begin .. nextSeq - 1
  BY <1>2 DEF Ordered
<1>4. \A s \in begin .. nextSeq - 1 : s # begin => s \in begin + 1 .. nextSeq - 1
  BY <1>1
<1>5. \A d \in Clients, i \in Nat : Mailed(mail, d, i) => NumberOf(mail, d, i) \in begin + 1 .. nextSeq - 1
  BY <1>2, <1>4 DEF Ordered
<1>6. \A l \in held \ {m} : l.seq \in begin + 1 .. nextSeq - 1
  BY <1>2, <1>4 DEF Ordered
<1>7. ASSUME NEW s \in begin + 1 .. nextSeq - 1 PROVE Pending(mail, held \ {m}, s)
  <2>1. s \in begin .. nextSeq - 1 /\ s # m.seq
    BY <1>1
  <2>2. Pending(mail, held, s)
    BY <1>2, <2>1 DEF Ordered
  <2>. QED  BY <2>1, <2>2 DEF Pending
<1>8. Ordered(mail, held \ {m}, begin + 1, nextSeq)
  BY <1>2, <1>5, <1>6, <1>7 DEF Ordered
<1>. QED  BY <1>1, <1>3, <1>8 DEF OrderOK

\* Nothing is on its way.
LEMMA EmptyOrder ==
    ASSUME mail' = [c \in Clients |-> <<>>], held' = {}, begin' = nextSeq', nextSeq' \in Nat PROVE OrderOK'
<1>1. \A c \in Clients, i \in Nat : ~Mailed(mail', c, i)
  BY DEF Mailed
<1>2. begin' .. nextSeq' - 1 = {}
  <2>1. \A x \in Nat : x .. x - 1 = {}
    OBVIOUS
  <2>. QED  BY <2>1
<1>. QED  BY <1>1, <1>2 DEF OrderOK, Ordered

LEMMA InitOrder == ASSUME Init PROVE OrderOK
<1>1. \A c \in Clients, i \in Nat : ~Mailed(mail, c, i)
  BY DEF Init, Mailed
<1>2. begin .. nextSeq - 1 = {} /\ held = {}
  BY DEF Init
<1>. QED  BY <1>1, <1>2 DEF OrderOK, Ordered

-----------------------------------------------------------------------------
(* The inductive invariant                                                 *)

InFlight(q, hd, m) == m \in hd \/ \E c \in Clients, i \in Nat : Mailed(q, c, i) /\ m = q[c][i]

Reindexing == {"openNew", "reindex", "unlink", "rename"}

\* The actor is between two messages, the reindexing that one of them asked for included.
Quiet == At("idle") \/ (pc.at \in Reindexing /\ pc.then = "idle")
PromiseOK ==
    /\ \A s \in promises : s < begin
    /\ \A s \in waiting : s < begin \/ \E m \in held : m.seq >= s
    /\ Quiet => \A s \in waiting : s >= begin
    /\ promises # {} => timer.armed /\ (timer.lazy \/ timer.force)
    /\ timer.lazy \/ timer.force \/ timer.flush => timer.armed

\* The actor has not started.
Unopened == pc.at \in {"down", "ready"} \/ (pc.at \in Reindexing /\ pc.then = "ready")
FreshOK ==
    Unopened => /\ mail = [c \in Clients |-> <<>>] /\ held = {} /\ waiting = {} /\ promises = {}
                /\ timer = Idle /\ ~up /\ begin = nextSeq /\ Len(versions) = 1 /\ acked = 1
                /\ At("down") => versions = <<Recovered(disk)>>

LabelOK == pc.at # "fatal" /\ (pc.at \in Reindexing => pc.then \in {"idle", "drain", "ready"})

\* The maps between the one the processor stands for and the one of the clients.
StepAt(h, m) == EventStep(h[m.seq - 1], m.ev, m.seq, h[m.seq])
Versioned(h, b, n, vs) == \A s \in b - 1 .. n - 1 : Content(h[s]) = vs[Len(vs) - (n - 1 - s)]
Chained(h, q, hd, b, n) ==
    /\ h \in [Nat -> Stores] /\ \A s \in b - 1 .. n - 1 : Tidy(h[s])
    /\ \A m \in EventMessages : InFlight(q, hd, m) => StepAt(h, m)
Chain(h) ==
    /\ Chained(h, mail, held, begin, nextSeq)
    /\ h[begin - 1] = MapOf(proc) /\ h[nextSeq - 1] = map
    /\ ~At("down") => Versioned(h, begin, nextSeq, versions)
ChainOK == \E h : Chain(h)
AckOK == acked <= Len(versions) - (nextSeq - begin)
RepOK == Rep(proc, MapOf(proc)) /\ proc.last < begin

\* A log that leads to the map the processor stands for, and loads wherever it is cut off.
Stands(log) == Loadable(log) /\ Rep(Load(log), MapOf(proc)) /\ Load(log).last < begin
InPath == {"ready", "idle", "drain", "openNew", "closed", "destroyNew", "destroyPath"}
DiskOK ==
    /\ pc.at \in InPath => disk.path.there /\ Stands(disk.path.log \o buf)
    /\ At("reindex") => disk.path.there /\ Loadable(disk.path.log) /\ disk.new = NewFile /\ Stands(buf)
    /\ At("unlink") => disk.path.there /\ Loadable(disk.path.log) /\ disk.new.there /\ Stands(disk.new.log)
    /\ At("rename") => disk.path = NoFile /\ disk.new.there /\ Stands(disk.new.log)
    /\ At("down") => Loadable(Opened(disk).log)
    /\ pc.at \in {"down", "closed", "destroyNew", "destroyPath", "unlink", "rename"} => buf = <<>>
    /\ At("destroyPath") => disk.new = NoFile

Inv == Typed /\ OrderOK /\ PromiseOK /\ FreshOK /\ LabelOK /\ ChainOK /\ AckOK /\ RepOK /\ DiskOK

-----------------------------------------------------------------------------
(* What an action leaves alone                                             *)

LEMMA FlightShape ==
    ASSUME Typed, OrderOK, NEW m, InFlight(mail, held, m)
    PROVE  m \in EventMessages /\ m.seq \in begin .. nextSeq - 1
<1>1. CASE m \in held
  BY <1>1 DEF Typed, ActorOK, OrderOK, Ordered
<1>2. CASE \E c \in Clients, i \in Nat : Mailed(mail, c, i) /\ m = mail[c][i]
  <2>1. PICK c \in Clients, i \in Nat : Mailed(mail, c, i) /\ m = mail[c][i]
    BY <1>2
  <2>2. m \in Messages /\ m.kind = "event"
    BY <2>1, MailShape DEF Mailed
  <2>3. m.seq \in begin .. nextSeq - 1
    BY <2>1 DEF OrderOK, Ordered, NumberOf
  <2>. QED  BY <2>2, <2>3, MessageShape
<1>. QED  BY <1>1, <1>2 DEF InFlight

FlightKept == \A m \in EventMessages : InFlight(mail', held', m) => InFlight(mail, held, m)

LEMMA SameFlight == ASSUME SameEvents, held' = held PROVE FlightKept
<1> SUFFICES ASSUME NEW m \in EventMessages, InFlight(mail', held, m) PROVE InFlight(mail, held, m)
  BY DEF FlightKept
<1>1. CASE \E c \in Clients, i \in Nat : Mailed(mail', c, i) /\ m = mail'[c][i]
  BY <1>1 DEF SameEvents, InFlight
<1>. QED  BY <1>1 DEF InFlight

LEMMA TakenFlight ==
    ASSUME NEW c \in Clients, MailMinus(c),
           \/ mail[c][1].kind = "event" /\ held' = held \cup {mail[c][1]}
           \/ mail[c][1].kind # "event" /\ held' = held
    PROVE  FlightKept
<1> SUFFICES ASSUME NEW m \in EventMessages, InFlight(mail', held', m) PROVE InFlight(mail, held, m)
  BY DEF FlightKept
<1>1. CASE \E d \in Clients, i \in Nat : Mailed(mail', d, i) /\ m = mail'[d][i]
  BY <1>1 DEF MailMinus, InFlight
<1>2. CASE m \in held
  BY <1>2 DEF InFlight
<1>3. CASE mail[c][1].kind = "event" /\ m = mail[c][1]
  <2>1. Mailed(mail, c, 1)
    BY <1>3 DEF MailMinus, Mailed
  <2>. QED  BY <1>3, <2>1 DEF InFlight
<1>. QED  BY <1>1, <1>2, <1>3 DEF InFlight

LEMMA ChainKept ==
    ASSUME ChainOK, FlightKept, UNCHANGED <<begin, nextSeq, map, proc, versions>>, At("down") => At("down")'
    PROVE  ChainOK'
<1>1. PICK h : Chain(h)
  BY DEF ChainOK
<1>2. Chained(h, mail', held', begin', nextSeq')
  BY <1>1 DEF Chain, Chained, FlightKept
<1>3. Chain(h)'
  BY <1>1, <1>2 DEF Chain, At
<1>. QED  BY <1>3 DEF ChainOK

LEMMA PromiseKept ==
    ASSUME PromiseOK, UNCHANGED <<begin, held, waiting, promises, timer>>, Quiet' => Quiet PROVE PromiseOK'
BY DEF PromiseOK

LEMMA DiskKept == ASSUME DiskOK, UNCHANGED <<proc, begin, disk, buf, pc>> PROVE DiskOK'
BY DEF DiskOK, Stands, At

LEMMA RepKept == ASSUME RepOK, UNCHANGED <<proc, begin>> PROVE RepOK'
BY DEF RepOK

\* The states in which the actor takes a message.
LEMMA IdleState ==
    ASSUME Inv, At("idle")
    PROVE  /\ Quiet /\ ~Unopened /\ disk.path.there /\ Stands(disk.path.log \o buf)
           /\ ~At("down") /\ \A s \in waiting : s >= begin
BY DEF At, Quiet, Unopened, Reindexing, Inv, DiskOK, InPath, PromiseOK

-----------------------------------------------------------------------------
(* The clients                                                             *)

LEMMA StepTidy ==
    ASSUME NEW m \in Stores, Tidy(m), NEW e, NEW i, NEW m2, EventStep(m, e, i, m2) PROVE Tidy(m2)
<1>1. CASE \E k \in Keys, v \in Values :
             m[k] = NoEntry /\ i \in 1 .. MaxSeq /\ IsPut(e, k, v, i) /\ m2 = Assign(m, k, v, i)
  BY <1>1 DEF Assign, Tidy, Stores
<1>2. CASE \E k \in Keys, v \in Values :
             m[k] # NoEntry /\ IsPut(e, k, v, m[k].id) /\ e.rw /\ m2 = Assign(m, k, v, m[k].id)
  BY <1>2 DEF Assign, Tidy, Stores
<1>3. CASE \E k \in Keys : m[k] # NoEntry /\ e = Erase(m[k].id) /\ m2 = Assign(m, k, None, 0)
  BY <1>3 DEF Assign, Tidy, Stores, NoEntry
<1>. QED  BY <1>1, <1>2, <1>3 DEF EventStep

LEMMA GrowthTidy ==
    ASSUME Tidy(map), NEW c, NEW n, NEW ms, NEW g, Growth(c, n, ms, g) PROVE \A i \in 0 .. n : Tidy(g[i])
<1> DEFINE N == {i \in Nat : i <= n => Tidy(g[i])}
<1>0. n \in Nat /\ g \in [0 .. n -> Stores] /\ g[0] = map
      /\ \A i \in 1 .. n : EventStep(g[i - 1], ms[i].ev, ms[i].seq, g[i])
  BY DEF Growth
<1>1. 0 \in N
  BY <1>0
<1>2. ASSUME NEW i \in Nat, i \in N PROVE i + 1 \in N
  <2> SUFFICES ASSUME i + 1 <= n PROVE Tidy(g[i + 1])
    OBVIOUS
  <2>1. i + 1 \in 1 .. n /\ (i + 1) - 1 = i /\ i \in 0 .. n /\ Tidy(g[i])
    BY <1>0, <1>2
  <2>2. EventStep(g[i], ms[i + 1].ev, ms[i + 1].seq, g[i + 1]) /\ g[i] \in Stores
    BY <1>0, <2>1
  <2>. QED  BY <2>1, <2>2, StepTidy
<1> HIDE DEF N
<1>3. Nat \subseteq N
  BY <1>1, <1>2, NatSetInduction
<1>. QED  BY <1>0, <1>3 DEF N

LEMMA GrowthTyped == ASSUME Typed, NEW c \in Clients, NEW n, NEW ms, NEW g, Growth(c, n, ms, g) PROVE Typed'
<1>1. /\ n \in Nat /\ nextSeq + n - 1 \in Seqs /\ ms \in Seq(EventMessages) /\ g \in [0 .. n -> Stores] /\ map' = g[n]
      /\ Post(c, ms) /\ nextSeq' = nextSeq + n /\ versions' = versions \o [i \in 1 .. n |-> Content(g[i])]
      /\ UNCHANGED clientFrame
  BY DEF Growth
<1>2. ms \in Seq(Messages)
  BY <1>1, MessageShape, SeqMonotonic
<1>3. mail' \in [Clients -> Seq(Messages)]
  BY <1>1, <1>2, PostTyped
<1>4. \A i \in 1 .. n : Content(g[i]) \in Contents
  BY <1>1, ContentTyped
<1>5. [i \in 1 .. n |-> Content(g[i])] \in Seq(Contents)
  BY <1>1, <1>4
<1>6. versions' \in Seq(Contents) /\ acked' \in 1 .. Len(versions')
  BY <1>1, <1>5, VersionsGrow DEF clientFrame
<1>7. nextSeq \in Nat /\ nextSeq' \in Nat /\ nextSeq' - 1 \in Seqs /\ nextSeq <= nextSeq'
  BY <1>1 DEF Typed, ClientsOK
<1>8. map' \in Stores
  BY <1>1
<1>9. ClientsOK'
  <2>1. up' \in BOOLEAN
    BY <1>1 DEF clientFrame, Typed, ClientsOK
  <2>. QED  BY <1>3, <1>6, <1>7, <1>8, <2>1 DEF ClientsOK
<1>10. ActorOK'
  BY <1>1, <1>7 DEF clientFrame, orderVars, Typed, ActorOK
<1>11. FilesOK' /\ StateOK'
  BY <1>1, <1>6 DEF clientFrame, logVars, Typed, FilesOK, StateOK
<1>. QED  BY <1>9, <1>10, <1>11 DEF Typed

LEMMA GrowthFlight ==
    ASSUME Typed, NEW c \in Clients, NEW n, NEW ms, NEW g, Growth(c, n, ms, g), NEW m, InFlight(mail', held', m)
    PROVE  InFlight(mail, held, m) \/ \E j \in 1 .. n : m = ms[j]
<1>0. PICK L : L = Len(mail[c])
  OBVIOUS
<1>1. MailPlus(c, n, ms, L)
  BY <1>0, MailGrown
<1>2. held' = held
  BY DEF Growth, clientFrame, orderVars
<1>3. CASE m \in held
  BY <1>3 DEF InFlight
<1>4. CASE \E d \in Clients, i \in Nat : Mailed(mail', d, i) /\ m = mail'[d][i]
  <2>1. PICK d \in Clients, i \in Nat : Mailed(mail', d, i) /\ m = mail'[d][i]
    BY <1>4
  <2>2. CASE Mailed(mail, d, i)
    BY <1>1, <2>1, <2>2 DEF MailPlus, InFlight
  <2>3. CASE d = c /\ i - L \in 1 .. n /\ L + (i - L) = i
    BY <1>1, <2>1, <2>3 DEF MailPlus
  <2>. QED  BY <1>1, <2>1, <2>2, <2>3 DEF MailPlus
<1>. QED  BY <1>2, <1>3, <1>4 DEF InFlight

LEMMA GrowthVersions ==
    ASSUME Typed, NEW c \in Clients, NEW n, NEW ms, NEW g, Growth(c, n, ms, g)
    PROVE  /\ Len(versions') = Len(versions) + n /\ Len(versions) \in Nat
           /\ \A i \in 1 .. Len(versions) : versions'[i] = versions[i]
           /\ \A i \in 1 .. n : versions'[Len(versions) + i] = Content(g[i])
<1> DEFINE w == [i \in 1 .. n |-> Content(g[i])]
<1>1. n \in Nat /\ g \in [0 .. n -> Stores] /\ versions' = versions \o w /\ versions \in Seq(Contents)
  BY DEF Growth, Typed, ClientsOK
<1>2. \A i \in 1 .. n : Content(g[i]) \in Contents
  BY <1>1, ContentTyped
<1>3. w \in Seq(Contents) /\ Len(w) = n /\ \A i \in 1 .. n : w[i] = Content(g[i])
  BY <1>1, <1>2
<1> HIDE DEF w
<1>4. IsConcat(versions, w, versions')
  BY <1>1, <1>3, ConcatAt
<1>. QED  BY <1>3, <1>4 DEF IsConcat

LEMMA GrowthChain ==
    ASSUME Typed, OrderOK, ChainOK, AckOK, ~At("down"), NEW c \in Clients, NEW n, NEW ms, NEW g, Growth(c, n, ms, g)
    PROVE  ChainOK' /\ AckOK'
<1>1. PICK h : Chain(h)
  BY DEF ChainOK
<1> DEFINE h2 == [s \in Nat |-> IF s \in nextSeq .. nextSeq + n - 1 THEN g[s - nextSeq + 1] ELSE h[s]]
<1>2. /\ n \in Nat /\ nextSeq \in Nat /\ begin \in 1 .. nextSeq /\ begin \in Nat /\ begin - 1 \in Nat /\ nextSeq - 1 \in Nat
      /\ ms \in Seq(EventMessages) /\ Len(ms) = n
      /\ g \in [0 .. n -> Stores] /\ g[0] = map /\ map' = g[n] /\ nextSeq' = nextSeq + n
  BY DEF Typed, ClientsOK, ActorOK, Growth
<1>3. \A i \in 1 .. n : ms[i].seq = nextSeq + i - 1 /\ EventStep(g[i - 1], ms[i].ev, ms[i].seq, g[i])
  BY DEF Growth
<1>4. begin' = begin /\ held' = held /\ proc' = proc /\ pc' = pc /\ acked' = acked
  BY DEF Growth, clientFrame, orderVars, logVars
<1>5. h \in [Nat -> Stores] /\ h[nextSeq - 1] = map /\ h[begin - 1] = MapOf(proc)
      /\ (\A s \in begin - 1 .. nextSeq - 1 : Tidy(h[s])) /\ Versioned(h, begin, nextSeq, versions)
      /\ \A m \in EventMessages : InFlight(mail, held, m) => StepAt(h, m)
  BY <1>1 DEF Chain, Chained
<1>6. ASSUME NEW i \in 0 .. n PROVE h2[nextSeq - 1 + i] = g[i] /\ nextSeq - 1 + i \in Nat
  <2>1. nextSeq - 1 + i \in Nat
    BY <1>2
  <2>2. CASE i = 0
    <3>1. nextSeq - 1 + i = nextSeq - 1 /\ nextSeq - 1 \notin nextSeq .. nextSeq + n - 1
      BY <1>2, <2>2
    <3>. QED  BY <1>2, <1>5, <2>1, <2>2, <3>1
  <2>3. CASE i # 0
    <3>1. nextSeq - 1 + i \in nextSeq .. nextSeq + n - 1 /\ (nextSeq - 1 + i) - nextSeq + 1 = i
      BY <1>2, <2>3
    <3>. QED  BY <2>1, <3>1
  <2>. QED  BY <2>1, <2>2, <2>3
<1>7. \A s \in Nat : s <= nextSeq - 1 => h2[s] = h[s]
  BY <1>2
<1>8. h2 \in [Nat -> Stores]
  <2>1. ASSUME NEW s \in Nat PROVE (IF s \in nextSeq .. nextSeq + n - 1 THEN g[s - nextSeq + 1] ELSE h[s]) \in Stores
    <3>1. CASE s \in nextSeq .. nextSeq + n - 1
      <4>1. s - nextSeq + 1 \in 0 .. n
        BY <1>2, <3>1
      <4>. QED  BY <1>2, <3>1, <4>1
    <3>. QED  BY <1>5, <3>1
  <2>. QED  BY <2>1
<1> HIDE DEF h2
<1>9. \A i \in 0 .. n : Tidy(g[i])
  <2>1. Tidy(map)
    <3>1. nextSeq - 1 \in begin - 1 .. nextSeq - 1
      BY <1>2
    <3>. QED  BY <1>5, <3>1
  <2>. QED  BY <2>1, GrowthTidy
<1>10. ASSUME NEW s \in begin' - 1 .. nextSeq' - 1
       PROVE  \/ s \in Nat /\ s \in begin - 1 .. nextSeq - 1 /\ h2[s] = h[s]
              \/ s - nextSeq + 1 \in 1 .. n /\ h2[s] = g[s - nextSeq + 1]
  <2>1. s \in Nat
    BY <1>2, <1>4
  <2>2. CASE s <= nextSeq - 1
    BY <1>2, <1>4, <1>7, <2>1, <2>2
  <2>3. CASE s > nextSeq - 1
    <3>1. s - nextSeq + 1 \in 1 .. n /\ nextSeq - 1 + (s - nextSeq + 1) = s /\ s - nextSeq + 1 \in 0 .. n
      BY <1>2, <1>4, <2>1, <2>3
    <3>. QED  BY <1>6, <3>1
  <2>. QED  BY <1>2, <2>1, <2>2, <2>3
<1>11. \A s \in begin' - 1 .. nextSeq' - 1 : Tidy(h2[s])
  BY <1>2, <1>5, <1>9, <1>10
<1>12. ASSUME NEW m \in EventMessages, InFlight(mail', held', m) PROVE StepAt(h2, m)
  <2>1. CASE InFlight(mail, held, m)
    <3>1. m.seq \in begin .. nextSeq - 1
      BY <2>1, FlightShape
    <3>2. m.seq \in Nat /\ m.seq - 1 \in Nat /\ m.seq <= nextSeq - 1 /\ m.seq - 1 <= nextSeq - 1
      BY <1>2, <3>1
    <3>3. h2[m.seq] = h[m.seq] /\ h2[m.seq - 1] = h[m.seq - 1]
      BY <1>7, <3>2
    <3>. QED  BY <1>5, <2>1, <3>3 DEF StepAt
  <2>2. CASE \E j \in 1 .. n : m = ms[j]
    <3>1. PICK j \in 1 .. n : m = ms[j]
      BY <2>2
    <3>2. m.seq = nextSeq - 1 + j /\ m.seq - 1 = nextSeq - 1 + (j - 1) /\ j \in 0 .. n /\ j - 1 \in 0 .. n
      BY <1>2, <1>3, <3>1
    <3>3. h2[m.seq] = g[j] /\ h2[m.seq - 1] = g[j - 1]
      BY <1>6, <3>2
    <3>. QED  BY <1>3, <3>1, <3>3 DEF StepAt
  <2>. QED  BY <1>12, <2>1, <2>2, GrowthFlight
<1>13. Chained(h2, mail', held', begin', nextSeq')
  BY <1>8, <1>11, <1>12 DEF Chained
<1>14. h2[begin' - 1] = MapOf(proc') /\ h2[nextSeq' - 1] = map'
  <2>1. n \in 0 .. n /\ nextSeq' - 1 = nextSeq - 1 + n /\ begin - 1 <= nextSeq - 1
    BY <1>2
  <2>. QED  BY <1>2, <1>4, <1>5, <1>6, <1>7, <2>1
<1>15. /\ Len(versions') = Len(versions) + n /\ Len(versions) \in Nat
       /\ \A i \in 1 .. Len(versions) : versions'[i] = versions[i]
       /\ \A i \in 1 .. n : versions'[Len(versions) + i] = Content(g[i])
  BY GrowthVersions
<1>16. acked \in Nat /\ acked >= 1 /\ acked <= Len(versions) - (nextSeq - begin)
  BY <1>15 DEF AckOK, Typed, StateOK
<1>17. AckOK'
  BY <1>2, <1>4, <1>15, <1>16 DEF AckOK
<1>18. ASSUME NEW s \in begin' - 1 .. nextSeq' - 1
       PROVE  Content(h2[s]) = versions'[Len(versions') - (nextSeq' - 1 - s)]
  <2>0. s \in Int
    OBVIOUS
  <2>1. CASE s \in Nat /\ s \in begin - 1 .. nextSeq - 1 /\ h2[s] = h[s]
    <3> DEFINE i == Len(versions) - (nextSeq - 1 - s)
    <3>1. i \in 1 .. Len(versions) /\ Len(versions') - (nextSeq' - 1 - s) = i
      BY <1>2, <1>15, <1>16, <2>1
    <3>2. Content(h[s]) = versions[i]
      BY <1>5, <2>1 DEF Versioned
    <3> HIDE DEF i
    <3>. QED  BY <1>15, <2>1, <3>1, <3>2
  <2>2. CASE s - nextSeq + 1 \in 1 .. n /\ h2[s] = g[s - nextSeq + 1]
    <3> DEFINE i == s - nextSeq + 1
    <3>0. i \in 1 .. n
      BY <2>2
    <3>1. Len(versions') - (nextSeq' - 1 - s) = Len(versions) + i
      <4>1. Len(versions') = Len(versions) + n /\ nextSeq' = nextSeq + n
        BY <1>2, <1>15
      <4>. QED  BY <1>2, <1>15, <2>0, <4>1
    <3> HIDE DEF i
    <3>. QED  BY <1>15, <2>2, <3>0, <3>1 DEF i
  <2>. QED  BY <1>10, <2>1, <2>2
<1>19. Versioned(h2, begin', nextSeq', versions')
  BY <1>18 DEF Versioned
<1>20. PICK f : f = h2
  OBVIOUS
<1>21. Chain(f)'
  BY <1>13, <1>14, <1>19, <1>20 DEF Chain
<1>. QED  BY <1>17, <1>21 DEF ChainOK

LEMMA GrowthStep == ASSUME Inv, NEW c \in Clients, Grows(c) PROVE Inv'
<1>1. PICK n, ms, g : Growth(c, n, ms, g)
  BY DEF Grows
<1>2. up /\ UNCHANGED clientFrame
  BY <1>1 DEF Growth
<1>3. ~Unopened
  BY <1>2 DEF Inv, FreshOK
<1>4. ~At("down")
  BY <1>3 DEF Unopened, At
<1>5. Typed' /\ OrderOK'
  BY <1>1, GrowthTyped, GrowthOrder DEF Inv
<1>6. ChainOK' /\ AckOK'
  BY <1>1, <1>4, GrowthChain DEF Inv
<1>7. PromiseOK'
  BY <1>2, PromiseKept DEF Inv, clientFrame, orderVars, Quiet, At
<1>8. FreshOK' /\ LabelOK'
  BY <1>2, <1>3 DEF Inv, clientFrame, FreshOK, LabelOK, Unopened
<1>9. RepOK' /\ DiskOK'
  BY <1>2, RepKept, DiskKept DEF Inv, clientFrame, orderVars, logVars
<1>. QED  BY <1>5, <1>6, <1>7, <1>8, <1>9 DEF Inv

LEMMA AskStep ==
    ASSUME Inv, NEW c \in Clients, NEW kind \in Kinds, NEW k \in DbKeys \cup {None}, Ask(c, kind, k) PROVE Inv'
<1>1. up /\ UNCHANGED <<map, nextSeq, versions, orderVars, promises, timer, logVars, dbKey, pc, acked>>
  BY DEF Ask
<1>2. SameEvents
  BY AskedMail DEF Inv
<1>3. up' \in BOOLEAN
  BY DEF Ask
<1>4. Typed'
  <2>1. ClientsOK'
    BY <1>1, <1>2, <1>3 DEF Inv, Typed, ClientsOK, SameEvents
  <2>2. ActorOK' /\ FilesOK' /\ StateOK'
    BY <1>1 DEF Inv, Typed, ActorOK, FilesOK, StateOK, orderVars, logVars
  <2>. QED  BY <2>1, <2>2 DEF Typed
<1>5. OrderOK'
  BY <1>1, <1>2, SameOrder DEF Inv, orderVars
<1>6. PromiseOK'
  BY <1>1, PromiseKept DEF Inv, orderVars, Quiet, At
<1>7. ~Unopened
  BY <1>1 DEF Inv, FreshOK
<1>8. FreshOK' /\ LabelOK'
  BY <1>1, <1>7 DEF Inv, FreshOK, LabelOK, Unopened
<1>9. FlightKept
  BY <1>1, <1>2, SameFlight DEF orderVars
<1>10. ChainOK'
  BY <1>1, <1>9, ChainKept DEF Inv, orderVars, logVars, At
<1>11. RepOK' /\ DiskOK' /\ AckOK'
  BY <1>1, RepKept, DiskKept DEF Inv, orderVars, logVars, AckOK
<1>. QED  BY <1>4, <1>5, <1>6, <1>8, <1>10, <1>11 DEF Inv

-----------------------------------------------------------------------------
(* The actor takes a message                                               *)

Timers == [force : BOOLEAN, lazy : BOOLEAN, flush : BOOLEAN, armed : BOOLEAN]
TimerOK(t) == t.lazy \/ t.force \/ t.flush => t.armed

LEMMA TimerShape ==
    ASSUME NEW t \in Timers
    PROVE  /\ Idle \in Timers /\ TimerOK(Idle)
           /\ DoImmediateSync(t) \in Timers /\ DoImmediateSync(t).armed /\ DoImmediateSync(t).force
           /\ TimerOK(DoImmediateSync(t))
           /\ DoLazySync(t) \in Timers /\ (TimerOK(t) => TimerOK(DoLazySync(t)))
           /\ TimerOK(t) => DoLazySync(t).armed /\ (DoLazySync(t).lazy \/ DoLazySync(t).force)
           /\ [t EXCEPT !.flush = FALSE] \in Timers
           /\ TimerOK(t) => TimerOK([t EXCEPT !.flush = FALSE])
           /\ [t EXCEPT !.flush = TRUE, !.armed = TRUE] \in Timers
           /\ TimerOK([t EXCEPT !.flush = TRUE, !.armed = TRUE])
BY DEF Timers, TimerOK, Idle, DoImmediateSync, DoLazySync

LEMMA ClientsKept ==
    ASSUME Typed, mail' \in [Clients -> Seq(Messages)], UNCHANGED clientVars PROVE ClientsOK'
BY DEF Typed, ClientsOK, clientVars

LEMMA AddRawEventStep == ASSUME Inv, NEW c \in Clients, AddRawEvent(c) PROVE Inv'
<1>1. /\ Receive(c, "event") /\ held' = held \cup {Head(mail[c])} /\ pc' = [at |-> "drain", then |-> "idle"]
      /\ UNCHANGED <<clientVars, begin, waiting, promises, timer, logVars, dbKey, acked>>
  BY DEF AddRawEvent, Goto
<1>2. MailMinus(c)
  BY <1>1, MailTaken DEF Inv
<1>3. mail' \in [Clients -> Seq(Messages)] /\ Head(mail[c]) = mail[c][1] /\ mail[c][1] \in Messages
  BY <1>2 DEF MailMinus
<1>4. mail[c][1].kind = "event" /\ held' = held \cup {mail[c][1]} /\ mail[c][1] \in EventMessages
  BY <1>1, <1>3, MessageShape DEF Receive
<1>5. pc'.at = "drain" /\ pc' \in [at : Labels, then : Labels]
  BY <1>1 DEF Labels
<1>6. Typed'
  <2>1. ClientsOK'
    BY <1>1, <1>3, ClientsKept DEF Inv
  <2>2. ActorOK'
    BY <1>1, <1>4 DEF Inv, Typed, ActorOK, clientVars
  <2>3. FilesOK' /\ StateOK'
    BY <1>1, <1>5 DEF Inv, Typed, FilesOK, StateOK, logVars, clientVars
  <2>. QED  BY <2>1, <2>2, <2>3 DEF Typed
<1>7. OrderOK'
  BY <1>1, <1>2, <1>4, TakenOrder DEF Inv, clientVars
<1>8. ~Quiet' /\ ~Unopened' /\ LabelOK' /\ ~At("down")'
  BY <1>5 DEF Quiet, Unopened, At, Reindexing, LabelOK
<1>9. PromiseOK'
  BY <1>1, <1>4, <1>8 DEF Inv, PromiseOK
<1>10. FlightKept
  BY <1>2, <1>4, TakenFlight
<1>11. ~At("down") /\ Stands(disk.path.log \o buf) /\ disk.path.there
  BY <1>1, IdleState DEF Receive
<1>12. ChainOK'
  BY <1>1, <1>10, <1>11, ChainKept DEF Inv, clientVars, logVars
<1>13. RepOK' /\ AckOK'
  BY <1>1, RepKept DEF Inv, clientVars, logVars, AckOK
<1>14. DiskOK'
  BY <1>1, <1>5, <1>11 DEF DiskOK, Stands, logVars, At, InPath
<1>. QED  BY <1>6, <1>7, <1>8, <1>9, <1>12, <1>13, <1>14 DEF Inv, FreshOK

\* What the messages that are no events have in common.
LEMMA OtherReceived ==
    ASSUME Inv, NEW c \in Clients, NEW kind \in Kinds, Receive(c, kind), UNCHANGED <<clientVars, begin, held>>
    PROVE  /\ ClientsOK' /\ OrderOK' /\ FlightKept /\ Head(mail[c]) \in Messages /\ Head(mail[c]).kind = kind
           /\ At("idle")
<1>1. MailMinus(c)
  BY MailTaken DEF Inv
<1>2. mail' \in [Clients -> Seq(Messages)] /\ Head(mail[c]) = mail[c][1] /\ mail[c][1] \in Messages
  BY <1>1 DEF MailMinus
<1>3. mail[c][1].kind # "event" /\ mail[c][1].kind = kind /\ At("idle")
  BY <1>2 DEF Receive, Kinds
<1>4. OrderOK' /\ FlightKept
  BY <1>1, <1>3, TakenOrder, TakenFlight DEF Inv, clientVars
<1>. QED  BY <1>2, <1>3, <1>4, ClientsKept DEF Inv

LEMMA HighestIs ==
    ASSUME Inv
    PROVE  /\ held = {} => Highest = begin - 1 /\ Highest \in Seqs \cup {0} /\ Highest < begin
           /\ held # {} => Highest \in Seqs /\ Highest >= begin /\ \E m \in held : m.seq = Highest
<1>1. begin \in 1 .. nextSeq /\ nextSeq - 1 \in Seqs \cup {0} /\ nextSeq \in Nat /\ held \subseteq EventMessages
  BY DEF Inv, Typed, ActorOK, ClientsOK
<1>2. CASE held = {}
  BY <1>1, <1>2, Constants DEF Highest
<1>3. CASE held # {}
  <2> DEFINE T == {m.seq : m \in held}
  <2>1. \A m \in held : m.seq \in Seqs /\ m.seq \in begin .. nextSeq - 1
    BY <1>1, MessageShape DEF Inv, OrderOK, Ordered
  <2>2. T \in SUBSET Int /\ T # {} /\ nextSeq \in Int /\ \A x \in T : x <= nextSeq
    BY <1>1, <1>3, <2>1
  <2>3. Max(T) \in T
    BY <2>2, MaxOfBounded
  <2>4. PICK m \in held : m.seq = Max(T)
    BY <2>3
  <2>5. Highest = Max(T)
    BY <1>3 DEF Highest
  <2> HIDE DEF T
  <2>6. Highest \in Seqs /\ Highest >= begin
    BY <1>1, <2>1, <2>4, <2>5
  <2>. QED  BY <1>3, <2>4, <2>5, <2>6
<1>. QED  BY <1>2, <1>3

LEMMA ForceSyncReceivedStep == ASSUME Inv, NEW c \in Clients, ForceSyncReceived(c) PROVE Inv'
<1>1. Receive(c, "forceSync") /\ "forceSync" \in Kinds /\ UNCHANGED <<clientVars, begin, held, logVars, dbKey, pc, acked>>
  BY DEF ForceSyncReceived, Kinds
<1>2. ClientsOK' /\ OrderOK' /\ FlightKept /\ At("idle")
  BY <1>1, OtherReceived
<1>3. Quiet /\ ~Unopened /\ ~At("down") /\ \A s \in waiting : s >= begin
  BY <1>2, IdleState
<1>4. timer \in Timers /\ TimerOK(timer)
  BY DEF Inv, Typed, ActorOK, Timers, PromiseOK, TimerOK
<1>5. DoImmediateSync(timer) \in Timers /\ TimerOK(DoImmediateSync(timer))
      /\ DoImmediateSync(timer).armed /\ DoImmediateSync(timer).force
  BY <1>4, TimerShape
<1>6. ActorOK' /\ PromiseOK'
  <2>1. CASE held = {} /\ promises' = promises \cup {Highest} /\ timer' = DoImmediateSync(timer) /\ waiting' = waiting
    <3>1. Highest \in Seqs \cup {0} /\ Highest < begin
      BY <2>1, HighestIs
    <3>2. ActorOK'
      BY <1>1, <1>5, <2>1, <3>1 DEF Inv, Typed, ActorOK, Timers, clientVars
    <3>3. PromiseOK'
      BY <1>1, <1>3, <1>5, <2>1, <3>1 DEF Inv, PromiseOK, TimerOK
    <3>. QED  BY <3>2, <3>3
  <2>2. CASE held # {} /\ waiting' = waiting \cup {Highest} /\ promises' = promises /\ timer' = timer
    <3>1. Highest \in Seqs /\ Highest >= begin /\ \E m \in held : m.seq = Highest
      BY <2>2, HighestIs
    <3>2. \E m \in held : m.seq >= Highest
      BY <3>1, Constants
    <3>3. ActorOK'
      BY <1>1, <2>2, <3>1 DEF Inv, Typed, ActorOK, clientVars
    <3>4. PromiseOK'
      BY <1>1, <1>3, <2>2, <3>1, <3>2 DEF Inv, PromiseOK
    <3>. QED  BY <3>3, <3>4
  <2>. QED  BY <2>1, <2>2 DEF ForceSyncReceived
<1>7. Typed'
  BY <1>1, <1>2, <1>6 DEF Inv, Typed, FilesOK, StateOK, logVars, clientVars
<1>8. FreshOK' /\ LabelOK'
  BY <1>1, <1>3 DEF Inv, FreshOK, LabelOK, Unopened
<1>9. ChainOK'
  BY <1>1, <1>2, <1>3, ChainKept DEF Inv, clientVars, logVars
<1>10. RepOK' /\ DiskOK' /\ AckOK'
  BY <1>1, RepKept, DiskKept DEF Inv, clientVars, logVars, AckOK
<1>. QED  BY <1>2, <1>6, <1>7, <1>8, <1>9, <1>10 DEF Inv

\* The log is the same, be it flushed and synced or not.
Disks == [path : Files, new : Files]
SameLog ==
    /\ disk' \in Disks /\ buf' \in Seq(Events) /\ disk'.path.log \o buf' = disk.path.log \o buf
    /\ disk'.path.there = disk.path.there /\ disk'.new = disk.new

LEMMA DiskShape ==
    ASSUME Typed
    PROVE  /\ disk \in Disks /\ disk.path \in Files /\ disk.new \in Files
           /\ disk.path.log \in Seq(Events) /\ disk.new.log \in Seq(Events) /\ buf \in Seq(Events)
           /\ disk.path.log \o buf \in Seq(Events) /\ (disk.path.log \o buf) \o <<>> = disk.path.log \o buf
<1>1. disk \in Disks /\ disk.path \in Files /\ disk.new \in Files /\ buf \in Seq(Events)
  BY DEF Typed, FilesOK, Disks
<1>2. disk.path.log \in Seq(Events) /\ disk.new.log \in Seq(Events)
  BY <1>1, FilesTyped
<1>3. disk.path.log \o buf \in Seq(Events)
  BY <1>1, <1>2, ConcatProperties
<1>. QED  BY <1>1, <1>2, <1>3, ConcatEmptySeq

LEMMA FlushSame ==
    ASSUME Typed, disk' = [disk EXCEPT !.path = Flushed(@, buf)], buf' = <<>> PROVE SameLog
<1>1. /\ disk \in Disks /\ disk.path \in Files /\ buf \in Seq(Events)
      /\ (disk.path.log \o buf) \o <<>> = disk.path.log \o buf /\ <<>> \in Seq(Events)
  BY DiskShape, EmptySeq
<1>2. PICK f : f = Flushed(disk.path, buf)
  OBVIOUS
<1>3. f \in Files /\ f.log = disk.path.log \o buf /\ f.there = disk.path.there
  BY <1>1, <1>2, FilesTyped
<1>4. disk' = [disk EXCEPT !.path = f]
  BY <1>2
<1>5. disk' \in Disks /\ disk'.path = f /\ disk'.new = disk.new
  BY <1>1, <1>3, <1>4 DEF Disks
<1>. QED  BY <1>1, <1>3, <1>5 DEF SameLog

LEMMA SyncedShape == \A f \in Files : Synced(f).log = f.log /\ Synced(f).there = f.there /\ Synced(f).safe = Len(f.log)
BY DEF Files, Synced

LEMMA SyncSame ==
    ASSUME Typed, NEW x, disk' = [disk EXCEPT !.path = IF x THEN Synced(Flushed(disk.path, buf)) ELSE Flushed(disk.path, buf)],
           buf' = <<>>
    PROVE  SameLog
<1>1. /\ disk \in Disks /\ disk.path \in Files /\ buf \in Seq(Events)
      /\ (disk.path.log \o buf) \o <<>> = disk.path.log \o buf /\ <<>> \in Seq(Events)
  BY DiskShape, EmptySeq
<1>2. PICK f : f = Flushed(disk.path, buf)
  OBVIOUS
<1>3. f \in Files /\ f.log = disk.path.log \o buf /\ f.there = disk.path.there
  BY <1>1, <1>2, FilesTyped
<1>4. Synced(f) \in Files /\ Synced(f).log = f.log /\ Synced(f).there = f.there
  BY <1>3, FilesTyped, SyncedShape
<1>5. PICK y : y = IF x THEN Synced(f) ELSE f
  OBVIOUS
<1>6. y \in Files /\ y.log = disk.path.log \o buf /\ y.there = disk.path.there
  BY <1>3, <1>4, <1>5
<1>7. disk' = [disk EXCEPT !.path = y]
  BY <1>2, <1>5
<1>8. disk' \in Disks /\ disk'.path = y /\ disk'.new = disk.new
  BY <1>1, <1>6, <1>7 DEF Disks
<1>. QED  BY <1>1, <1>6, <1>8 DEF SameLog

LEMMA SameLogTyped ==
    ASSUME Typed, SameLog, needSync' \in BOOLEAN, fdSize' \in Nat, dbKey' \in DbKeys \cup {None}, proc' = proc PROVE FilesOK'
BY DEF Typed, FilesOK, SameLog, Disks

LEMMA SameLogDisk ==
    ASSUME SameLog, disk.path.there, Stands(disk.path.log \o buf), proc' = proc, begin' = begin,
           pc'.at \in {"idle", "drain", "openNew"}
    PROVE  DiskOK'
BY DEF SameLog, DiskOK, Stands, At, InPath

LEMMA ForceFlushReceivedStep == ASSUME Inv, NEW c \in Clients, ForceFlushReceived(c) PROVE Inv'
<1>1. /\ Receive(c, "forceFlush") /\ "forceFlush" \in Kinds
      /\ disk' = [disk EXCEPT !.path = Flushed(@, buf)]
      /\ needSync' = (needSync \/ buf # <<>>) /\ buf' = <<>>
      /\ timer' = [timer EXCEPT !.flush = FALSE]
      /\ UNCHANGED <<clientVars, orderVars, promises, proc, fdSize, dbKey, pc, acked>>
  BY DEF ForceFlushReceived, Kinds
<1>2. ClientsOK' /\ OrderOK' /\ FlightKept /\ At("idle")
  BY <1>1, OtherReceived DEF orderVars
<1>3. Quiet /\ ~Unopened /\ ~At("down") /\ disk.path.there /\ Stands(disk.path.log \o buf)
  BY <1>2, IdleState
<1>4. SameLog
  BY <1>1, FlushSame DEF Inv
<1>5. timer \in Timers /\ TimerOK(timer)
  BY DEF Inv, Typed, ActorOK, Timers, PromiseOK, TimerOK
<1>6. timer' \in Timers /\ TimerOK(timer') /\ timer'.armed = timer.armed /\ timer'.lazy = timer.lazy /\ timer'.force = timer.force
  BY <1>1, <1>5 DEF Timers, TimerOK
<1>7. Typed'
  <2>1. ActorOK'
    BY <1>1, <1>6 DEF Inv, Typed, ActorOK, Timers, orderVars, clientVars
  <2>2. needSync' \in BOOLEAN /\ fdSize' \in Nat /\ dbKey' \in DbKeys \cup {None}
    BY <1>1 DEF Inv, Typed, FilesOK
  <2>3. FilesOK'
    BY <1>1, <1>4, <2>2, SameLogTyped DEF Inv
  <2>. QED  BY <1>1, <1>2, <2>1, <2>3 DEF Inv, Typed, StateOK, clientVars
<1>8. PromiseOK'
  BY <1>1, <1>3, <1>6 DEF Inv, PromiseOK, orderVars, TimerOK
<1>9. FreshOK' /\ LabelOK'
  BY <1>1, <1>3 DEF Inv, FreshOK, LabelOK, Unopened
<1>10. ChainOK'
  BY <1>1, <1>2, <1>3, ChainKept DEF Inv, clientVars, orderVars
<1>11. RepOK' /\ AckOK'
  BY <1>1, RepKept DEF Inv, clientVars, orderVars, AckOK
<1>12. DiskOK'
  BY <1>1, <1>2, <1>3, <1>4, SameLogDisk DEF orderVars, At
<1>. QED  BY <1>2, <1>7, <1>8, <1>9, <1>10, <1>11, <1>12 DEF Inv

LEMMA ChangeKeyReceivedStep == ASSUME Inv, NEW c \in Clients, ChangeKeyReceived(c) PROVE Inv'
<1>1. /\ Receive(c, "changeKey") /\ "changeKey" \in Kinds /\ dbKey' = Head(mail[c]).key
      /\ pc' = [at |-> "openNew", then |-> "idle"]
      /\ UNCHANGED <<clientVars, orderVars, promises, timer, logVars, acked>>
  BY DEF ChangeKeyReceived, Kinds
<1>2. ClientsOK' /\ OrderOK' /\ FlightKept /\ At("idle") /\ Head(mail[c]) \in Messages /\ Head(mail[c]).kind = "changeKey"
  BY <1>1, OtherReceived DEF orderVars
<1>3. Quiet /\ ~Unopened /\ ~At("down") /\ disk.path.there /\ Stands(disk.path.log \o buf)
  BY <1>2, IdleState
<1>4. dbKey' \in DbKeys \cup {None}
  BY <1>1, <1>2 DEF Messages
<1>5. pc' \in [at : Labels, then : Labels] /\ pc'.at = "openNew" /\ pc'.then = "idle"
  BY <1>1 DEF Labels
<1>6. Typed'
  BY <1>1, <1>2, <1>4, <1>5 DEF Inv, Typed, ActorOK, FilesOK, StateOK, clientVars, orderVars, logVars
<1>7. PromiseOK'
  BY <1>1, <1>3, PromiseKept DEF Inv, orderVars
<1>8. FreshOK' /\ LabelOK'
  BY <1>5 DEF FreshOK, LabelOK, Unopened
<1>9. ChainOK'
  BY <1>1, <1>2, <1>3, ChainKept DEF Inv, clientVars, orderVars, logVars
<1>10. RepOK' /\ AckOK'
  BY <1>1, RepKept DEF Inv, clientVars, orderVars, logVars, AckOK
<1>11. DiskOK'
  BY <1>1, <1>3, <1>5 DEF DiskOK, Stands, InPath, At, orderVars, logVars
<1>. QED  BY <1>2, <1>6, <1>7, <1>8, <1>9, <1>10, <1>11 DEF Inv

\* The newest version the processor has seen.
LEMMA VersionHere ==
    ASSUME Inv
    PROVE  /\ Version(begin - 1) = Len(versions) - (nextSeq - begin)
           /\ Version(begin - 1) \in 1 .. Len(versions) /\ acked <= Version(begin - 1) /\ acked \in 1 .. Len(versions)
           /\ \A s \in promises : Version(s) \in Int /\ Version(s) <= Version(begin - 1)
<1>1. begin \in 1 .. nextSeq /\ nextSeq \in Nat /\ acked \in 1 .. Len(versions) /\ Len(versions) \in Nat
      /\ acked <= Len(versions) - (nextSeq - begin)
  BY LenProperties DEF Inv, Typed, ActorOK, ClientsOK, StateOK, AckOK
<1>2. begin - 1 < nextSeq /\ nextSeq - 1 - (begin - 1) = nextSeq - begin
  BY <1>1
<1>3. Version(begin - 1) = Len(versions) - (nextSeq - begin)
  BY <1>2 DEF Version
<1>4. ASSUME NEW s \in promises PROVE Version(s) \in Int /\ Version(s) <= Len(versions) - (nextSeq - begin)
  <2>1. s \in Int /\ s < begin
    BY Constants DEF Inv, Typed, ActorOK, PromiseOK
  <2>2. s < nextSeq
    BY <1>1, <2>1
  <2>3. Version(s) = Len(versions) - (nextSeq - 1 - s)
    BY <2>2 DEF Version
  <2>. QED  BY <1>1, <2>1, <2>3
<1>. QED  BY <1>1, <1>3, <1>4

LEMMA CloseReceivedStep == ASSUME Inv, NEW c \in Clients, CloseReceived(c) PROVE Inv'
<1>1. /\ Receive(c, "close") /\ "close" \in Kinds
      /\ disk' = [disk EXCEPT !.path = IF needSync \/ buf # <<>> THEN Synced(Flushed(disk.path, buf)) ELSE Flushed(disk.path, buf)]
      /\ buf' = <<>> /\ needSync' = FALSE /\ acked' = Max({acked, Version(begin - 1)})
      /\ pc' = [at |-> "closed", then |-> "idle"]
      /\ UNCHANGED <<clientVars, orderVars, promises, timer, proc, fdSize, dbKey>>
  BY DEF CloseReceived, Kinds, Goto
<1>2. ClientsOK' /\ OrderOK' /\ FlightKept /\ At("idle")
  BY <1>1, OtherReceived DEF orderVars
<1>3. Quiet /\ ~Unopened /\ ~At("down") /\ disk.path.there /\ Stands(disk.path.log \o buf)
  BY <1>2, IdleState
<1>4. SameLog
  BY <1>1, SyncSame DEF Inv
<1>5. pc' \in [at : Labels, then : Labels] /\ pc'.at = "closed"
  BY <1>1 DEF Labels
<1>6. acked' = Version(begin - 1) /\ acked' \in 1 .. Len(versions)
  <2>1. Version(begin - 1) \in 1 .. Len(versions) /\ acked <= Version(begin - 1) /\ acked \in 1 .. Len(versions)
    BY VersionHere
  <2> DEFINE T == {acked, Version(begin - 1)}
  <2>2. T \in SUBSET Int /\ T # {} /\ Version(begin - 1) \in Int /\ \A x \in T : x <= Version(begin - 1)
    BY <2>1
  <2>3. Max(T) \in T /\ \A x \in T : x <= Max(T)
    BY <2>2, MaxOfBounded
  <2>4. Max(T) = Version(begin - 1)
    BY <2>1, <2>3
  <2>. QED  BY <1>1, <2>1, <2>4
<1>7. Typed'
  <2>1. needSync' \in BOOLEAN /\ fdSize' \in Nat /\ dbKey' \in DbKeys \cup {None}
    BY <1>1 DEF Inv, Typed, FilesOK
  <2>2. FilesOK'
    BY <1>1, <1>4, <2>1, SameLogTyped DEF Inv
  <2>3. ActorOK'
    BY <1>1 DEF Inv, Typed, ActorOK, orderVars, clientVars
  <2>. QED  BY <1>1, <1>2, <1>5, <1>6, <2>2, <2>3 DEF Inv, Typed, StateOK, clientVars
<1>8. PromiseOK'
  BY <1>1, <1>3, PromiseKept DEF Inv, orderVars
<1>9. FreshOK' /\ LabelOK'
  BY <1>5 DEF FreshOK, LabelOK, Unopened, Reindexing
<1>10. ChainOK'
  BY <1>1, <1>2, <1>3, ChainKept DEF Inv, clientVars, orderVars
<1>11. RepOK' /\ AckOK'
  BY <1>1, <1>6, RepKept, VersionHere DEF Inv, clientVars, orderVars, AckOK
<1>12. DiskOK'
  BY <1>1, <1>3, <1>4, <1>5 DEF DiskOK, SameLog, Stands, InPath, At, orderVars
<1>. QED  BY <1>2, <1>7, <1>8, <1>9, <1>10, <1>11, <1>12 DEF Inv

LEMMA DestroyReceivedStep == ASSUME Inv, NEW c \in Clients, DestroyReceived(c) PROVE Inv'
<1>1. /\ Receive(c, "destroy") /\ "destroy" \in Kinds
      /\ disk' = [disk EXCEPT !.path = Flushed(@, buf)] /\ buf' = <<>>
      /\ pc' = [at |-> "destroyNew", then |-> "idle"]
      /\ UNCHANGED <<clientVars, orderVars, promises, timer, proc, fdSize, needSync, dbKey, acked>>
  BY DEF DestroyReceived, Kinds, Goto
<1>2. ClientsOK' /\ OrderOK' /\ FlightKept /\ At("idle")
  BY <1>1, OtherReceived DEF orderVars
<1>3. Quiet /\ ~Unopened /\ ~At("down") /\ disk.path.there /\ Stands(disk.path.log \o buf)
  BY <1>2, IdleState
<1>4. SameLog
  BY <1>1, FlushSame DEF Inv
<1>5. pc' \in [at : Labels, then : Labels] /\ pc'.at = "destroyNew"
  BY <1>1 DEF Labels
<1>6. Typed'
  <2>1. needSync' \in BOOLEAN /\ fdSize' \in Nat /\ dbKey' \in DbKeys \cup {None}
    BY <1>1 DEF Inv, Typed, FilesOK
  <2>2. FilesOK'
    BY <1>1, <1>4, <2>1, SameLogTyped DEF Inv
  <2>3. ActorOK'
    BY <1>1 DEF Inv, Typed, ActorOK, orderVars, clientVars
  <2>. QED  BY <1>1, <1>2, <1>5, <2>2, <2>3 DEF Inv, Typed, StateOK, clientVars
<1>7. PromiseOK'
  BY <1>1, <1>3, PromiseKept DEF Inv, orderVars
<1>8. FreshOK' /\ LabelOK'
  BY <1>5 DEF FreshOK, LabelOK, Unopened, Reindexing
<1>9. ChainOK'
  BY <1>1, <1>2, <1>3, ChainKept DEF Inv, clientVars, orderVars
<1>10. RepOK' /\ AckOK'
  BY <1>1, RepKept DEF Inv, clientVars, orderVars, AckOK
<1>11. DiskOK'
  BY <1>1, <1>3, <1>4, <1>5 DEF DiskOK, SameLog, Stands, InPath, At, orderVars
<1>. QED  BY <1>2, <1>6, <1>7, <1>8, <1>9, <1>10, <1>11 DEF Inv

-----------------------------------------------------------------------------
(* The actor processes what it holds                                       *)

\* try_flush flushes the buffer or arms the timer.
LEMMA TryFlushSame ==
    ASSUME Typed, NEW t \in Timers, TryFlush(t)
    PROVE  /\ SameLog /\ needSync' \in BOOLEAN /\ timer' \in Timers
           /\ TimerOK(t) => TimerOK(timer')
           /\ t.armed => timer'.armed
           /\ t.lazy \/ t.force => timer'.lazy \/ timer'.force
<1>1. CASE /\ disk' = [disk EXCEPT !.path = Flushed(@, buf)]
           /\ needSync' = (needSync \/ buf # <<>>)
           /\ buf' = <<>> /\ timer' = t
  <2>1. SameLog
    BY <1>1, FlushSame
  <2>2. needSync' \in BOOLEAN
    BY <1>1
  <2>. QED  BY <1>1, <2>1, <2>2
<1>2. CASE /\ timer' = IF t.force THEN t ELSE [t EXCEPT !.flush = TRUE, !.armed = TRUE]
           /\ UNCHANGED <<disk, needSync, buf>>
  <2>1. SameLog
    BY <1>2, DiskShape DEF SameLog
  <2>2. needSync' \in BOOLEAN
    BY <1>2 DEF Typed, FilesOK
  <2>3. timer' \in Timers /\ (TimerOK(t) => TimerOK(timer'))
    BY <1>2, TimerShape
  <2>4. (t.armed => timer'.armed) /\ (t.lazy \/ t.force => timer'.lazy \/ timer'.force)
    BY <1>2 DEF Timers
  <2>. QED  BY <2>1, <2>2, <2>3, <2>4
<1>. QED  BY <1>1, <1>2 DEF TryFlush

LEMMA SettleStep == ASSUME Inv, Settle PROVE Inv'
<1> DEFINE due == {s \in waiting : s < begin}
           t == IF due # {} THEN DoImmediateSync(timer) ELSE timer
<1>1. /\ At("drain") /\ waiting' = waiting \ due /\ promises' = promises \cup due /\ TryFlush(t)
      /\ pc' = [at |-> "idle", then |-> "idle"]
      /\ UNCHANGED <<clientVars, mail, begin, held, proc, fdSize, dbKey, acked>>
  BY DEF Settle, Goto
<1>2. timer \in Timers /\ TimerOK(timer)
  BY DEF Inv, Typed, ActorOK, Timers, PromiseOK, TimerOK
<1>3. t \in Timers /\ TimerOK(t) /\ (due # {} => t.armed /\ t.force) /\ (due = {} => t = timer)
  BY <1>2, TimerShape
<1>4. due \subseteq waiting /\ \A s \in due : s < begin
  OBVIOUS
<1>5. \A s \in waiting : s \in due \/ s >= begin
  BY Constants DEF Inv, Typed, ActorOK
<1> HIDE DEF due, t
<1>6. /\ SameLog /\ needSync' \in BOOLEAN /\ timer' \in Timers /\ TimerOK(timer')
      /\ t.armed => timer'.armed
      /\ t.lazy \/ t.force => timer'.lazy \/ timer'.force
  BY <1>1, <1>3, TryFlushSame DEF Inv
<1>7. pc' \in [at : Labels, then : Labels] /\ pc'.at = "idle"
  BY <1>1 DEF Labels
<1>8. disk.path.there /\ Stands(disk.path.log \o buf)
  BY <1>1 DEF Inv, DiskOK, InPath, At
<1>9. Typed'
  <2>1. ClientsOK'
    BY <1>1, ClientsKept DEF Inv, Typed, ClientsOK
  <2>2. ActorOK'
    BY <1>1, <1>4, <1>6 DEF Inv, Typed, ActorOK, Timers, clientVars
  <2>3. fdSize' \in Nat /\ dbKey' \in DbKeys \cup {None}
    BY <1>1 DEF Inv, Typed, FilesOK
  <2>4. FilesOK'
    BY <1>1, <1>6, <2>3, SameLogTyped DEF Inv
  <2>. QED  BY <1>1, <1>7, <2>1, <2>2, <2>4 DEF Inv, Typed, StateOK, clientVars
<1>10. OrderOK'
  BY <1>1 DEF Inv, OrderOK, clientVars
<1>11. PromiseOK'
  <2>1. \A s \in promises' : s < begin'
    BY <1>1, <1>4 DEF Inv, PromiseOK
  <2>2. \A s \in waiting' : s >= begin' /\ (s < begin' \/ \E m \in held' : m.seq >= s)
    BY <1>1, <1>5 DEF Inv, PromiseOK
  <2>3. promises' # {} => timer'.armed /\ (timer'.lazy \/ timer'.force)
    BY <1>1, <1>3, <1>6 DEF Inv, PromiseOK
  <2>4. timer'.lazy \/ timer'.force \/ timer'.flush => timer'.armed
    BY <1>6 DEF TimerOK
  <2>. QED  BY <2>1, <2>2, <2>3, <2>4 DEF PromiseOK
<1>12. FreshOK' /\ LabelOK'
  BY <1>7 DEF FreshOK, LabelOK, Unopened, Reindexing
<1>13. ChainOK'
  <2>1. FlightKept
    BY <1>1 DEF FlightKept
  <2>2. ~At("down")
    BY <1>1 DEF At
  <2>. QED  BY <1>1, <2>1, <2>2, ChainKept DEF Inv, clientVars
<1>14. RepOK' /\ AckOK'
  BY <1>1, RepKept DEF Inv, clientVars, AckOK
<1>15. DiskOK'
  BY <1>1, <1>6, <1>7, <1>8, SameLogDisk
<1>. QED  BY <1>9, <1>10, <1>11, <1>12, <1>13, <1>14, <1>15 DEF Inv

LEMMA TimeoutExpiredStep == ASSUME Inv, TimeoutExpired PROVE Inv'
<1>1. At("idle") /\ UNCHANGED <<clientVars, mail, orderVars, proc, fdSize, dbKey, pc>>
  BY DEF TimeoutExpired
<1>2. Quiet /\ ~Unopened /\ ~At("down") /\ disk.path.there /\ Stands(disk.path.log \o buf)
  BY <1>1, IdleState
<1>3. timer \in Timers /\ TimerOK(timer) /\ Idle \in Timers /\ TimerOK(Idle)
  <2>1. timer \in Timers /\ TimerOK(timer)
    BY DEF Inv, Typed, ActorOK, Timers, PromiseOK, TimerOK
  <2>. QED  BY <2>1, TimerShape
<1>4. acked \in 1 .. Len(versions) /\ acked <= Version(begin - 1) /\ Version(begin - 1) \in 1 .. Len(versions)
  BY VersionHere
<1>5. /\ SameLog /\ needSync' \in BOOLEAN /\ timer' \in Timers /\ TimerOK(timer')
      /\ promises' \subseteq promises /\ (promises' # {} => timer'.armed /\ (timer'.lazy \/ timer'.force))
      /\ acked' \in 1 .. Len(versions) /\ acked' <= Version(begin - 1)
  <2>1. CASE /\ timer.lazy \/ timer.force
             /\ Sync /\ timer' = Idle
             /\ acked' = Max({acked} \cup {Version(s) : s \in promises})
             /\ promises' = {}
    <3> DEFINE T == {acked} \cup {Version(s) : s \in promises}
    <3>1. T \in SUBSET Int /\ T # {} /\ Version(begin - 1) \in Int /\ \A x \in T : x <= Version(begin - 1)
      BY <1>4, VersionHere
    <3>2. Max(T) \in T /\ \A x \in T : x <= Max(T)
      BY <3>1, MaxOfBounded
    <3>3. acked <= Max(T) /\ Max(T) <= Version(begin - 1) /\ Max(T) \in Int
      BY <3>1, <3>2
    <3>4. acked' = Max(T)
      BY <2>1
    <3> HIDE DEF T
    <3>5. acked' \in 1 .. Len(versions) /\ acked' <= Version(begin - 1)
      BY <1>4, <3>3, <3>4
    <3>6. SameLog
      BY <2>1, SyncSame DEF Inv, Sync
    <3>7. needSync' \in BOOLEAN
      BY <2>1 DEF Sync
    <3>. QED  BY <1>3, <2>1, <3>5, <3>6, <3>7
  <2>2. CASE /\ ~(timer.lazy \/ timer.force)
             /\ \/ timer.flush /\ TryFlush(Idle)
                \/ ~timer.flush /\ timer' = Idle /\ UNCHANGED <<disk, needSync, buf>>
             /\ UNCHANGED <<acked, promises>>
    <3>1. promises = {}
      BY <2>2 DEF Inv, PromiseOK
    <3>2. SameLog /\ needSync' \in BOOLEAN /\ timer' \in Timers /\ TimerOK(timer')
      <4>1. CASE TryFlush(Idle)
        BY <1>3, <4>1, TryFlushSame DEF Inv
      <4>2. CASE timer' = Idle /\ UNCHANGED <<disk, needSync, buf>>
        <5>1. SameLog
          BY <4>2, DiskShape DEF SameLog, Inv
        <5>2. needSync' \in BOOLEAN
          BY <4>2 DEF Inv, Typed, FilesOK
        <5>. QED  BY <1>3, <4>2, <5>1, <5>2
      <4>. QED  BY <2>2, <4>1, <4>2
    <3>. QED  BY <1>4, <2>2, <3>1, <3>2
  <2>. QED  BY <2>1, <2>2 DEF TimeoutExpired
<1>6. Typed'
  <2>1. ClientsOK'
    BY <1>1, ClientsKept DEF Inv, Typed, ClientsOK
  <2>2. ActorOK'
    BY <1>1, <1>5 DEF Inv, Typed, ActorOK, Timers, clientVars, orderVars
  <2>3. fdSize' \in Nat /\ dbKey' \in DbKeys \cup {None}
    BY <1>1 DEF Inv, Typed, FilesOK
  <2>4. FilesOK'
    BY <1>1, <1>5, <2>3, SameLogTyped DEF Inv
  <2>. QED  BY <1>1, <1>5, <2>1, <2>2, <2>4 DEF Inv, Typed, StateOK, clientVars
<1>7. OrderOK'
  BY <1>1 DEF Inv, OrderOK, clientVars, orderVars
<1>8. PromiseOK'
  BY <1>1, <1>2, <1>5 DEF Inv, PromiseOK, orderVars, TimerOK
<1>9. FreshOK' /\ LabelOK'
  BY <1>1, <1>2 DEF Inv, FreshOK, LabelOK, Unopened
<1>10. ChainOK'
  <2>1. FlightKept
    BY <1>1 DEF FlightKept, orderVars
  <2>. QED  BY <1>1, <1>2, <2>1, ChainKept DEF Inv, clientVars, orderVars
<1>11. RepOK'
  BY <1>1, RepKept DEF Inv, orderVars
<1>12. AckOK'
  BY <1>1, <1>5, VersionHere DEF clientVars, orderVars, AckOK
<1>13. DiskOK'
  BY <1>1, <1>2, <1>5, SameLogDisk DEF orderVars, At
<1>. QED  BY <1>6, <1>7, <1>8, <1>9, <1>10, <1>11, <1>12, <1>13 DEF Inv

-----------------------------------------------------------------------------
(* An event is processed                                                   *)

\* What is appended is in the buffer or, with the rest of it, in the file.
LEMMA LazyFlushLog ==
    ASSUME Typed, NEW e \in Events, LazyFlush(Append(buf, e))
    PROVE  /\ disk' \in Disks /\ buf' \in Seq(Events) /\ needSync' \in BOOLEAN
           /\ disk'.path.log \o buf' = Append(disk.path.log \o buf, e)
           /\ disk'.path.there = disk.path.there /\ disk'.new = disk.new
<1>1. PICK all : all = Append(buf, e)
  OBVIOUS
<1>2. /\ disk \in Disks /\ disk.path \in Files /\ disk.path.log \in Seq(Events) /\ buf \in Seq(Events)
      /\ disk.path.log \o buf \in Seq(Events)
  BY DiskShape
<1>3. all \in Seq(Events) /\ disk.path.log \o all = Append(disk.path.log \o buf, e)
  <2>1. all \in Seq(Events)
    BY <1>1, <1>2
  <2>2. disk.path.log \o Append(buf, e) = Append(disk.path.log \o buf, e)
    <3>1. PICK a \in Seq(Events) : a = disk.path.log
      BY <1>2
    <3>2. a \o Append(buf, e) = Append(a \o buf, e)
      BY <1>2, ConcatAppend
    <3>. QED  BY <3>1, <3>2
  <2>. QED  BY <1>1, <2>1, <2>2
<1>4. disk.path.log \o all \in Seq(Events) /\ (disk.path.log \o all) \o <<>> = disk.path.log \o all
  BY <1>2, <1>3, ConcatProperties, ConcatEmptySeq
<1>5. needSync' \in BOOLEAN
  BY DEF LazyFlush
<1>6. CASE Len(all) > FlushLimit
  <2>1. PICK f : f = Flushed(disk.path, all)
    OBVIOUS
  <2>2. f \in Files /\ f.log = disk.path.log \o all /\ f.there = disk.path.there
    BY <1>2, <1>3, <2>1, FilesTyped
  <2>3. disk' = [disk EXCEPT !.path = f] /\ buf' = <<>>
    BY <1>1, <1>6, <2>1 DEF LazyFlush
  <2>4. disk' \in Disks /\ disk'.path = f /\ disk'.new = disk.new
    BY <1>2, <2>2, <2>3 DEF Disks
  <2>. QED  BY <1>3, <1>4, <1>5, <2>2, <2>3, <2>4, EmptySeq
<1>7. CASE ~(Len(all) > FlushLimit)
  <2>1. disk' = disk /\ buf' = all
    BY <1>1, <1>7 DEF LazyFlush
  <2>. QED  BY <1>2, <1>3, <1>5, <2>1
<1>. QED  BY <1>6, <1>7

\* The processor takes the next step of the chain.
LEMMA DrainChain ==
    ASSUME Typed, OrderOK, NEW h, Chain(h), ~At("down"), NEW m \in held, m.seq = begin,
           held' = held \ {m}, begin' = begin + 1, UNCHANGED <<nextSeq, mail, map, versions>>, MapOf(proc') = h[begin]
    PROVE  ChainOK'
<1>1. begin \in 1 .. nextSeq /\ nextSeq \in Nat /\ begin' \in 1 .. nextSeq
  BY DrainOrder DEF Typed, ActorOK, ClientsOK
<1>2. /\ h \in [Nat -> Stores] /\ (\A s \in begin - 1 .. nextSeq - 1 : Tidy(h[s])) /\ h[nextSeq - 1] = map
      /\ (\A l \in EventMessages : InFlight(mail, held, l) => StepAt(h, l)) /\ Versioned(h, begin, nextSeq, versions)
  BY DEF Chain, Chained
<1>3. \A s \in begin' - 1 .. nextSeq - 1 : s \in begin - 1 .. nextSeq - 1
  BY <1>1
<1>4. \A l \in EventMessages : InFlight(mail, held \ {m}, l) => StepAt(h, l)
  BY <1>2 DEF InFlight
<1>5. Chained(h, mail, held', begin', nextSeq)
  BY <1>2, <1>3, <1>4 DEF Chained
<1>6. Versioned(h, begin', nextSeq, versions)
  BY <1>2, <1>3 DEF Versioned
<1>7. h[begin' - 1] = MapOf(proc')
  <2>1. (begin + 1) - 1 = begin
    BY <1>1
  <2>. QED  BY <2>1
<1>8. PICK f : f = h
  OBVIOUS
<1>9. Chain(f)'
  BY <1>2, <1>5, <1>6, <1>7, <1>8 DEF Chain
<1>. QED  BY <1>9 DEF ChainOK

LEMMA NoEventStep ==
    ASSUME NEW m \in Stores, Tidy(m), NEW s, NEW m2, EventStep(m, NoEvent, s, m2) PROVE m2 = m
<1>1. \A k, v, i : ~IsPut(NoEvent, k, v, i)
  BY DEF IsPut, NoEvent, Erase
<1>2. ASSUME NEW k \in Keys, m[k] # NoEntry PROVE NoEvent # Erase(m[k].id)
  <2>1. m[k].id # 0
    BY <1>2 DEF Tidy
  <2>2. NoEvent.id = 0 /\ Erase(m[k].id).id = m[k].id
    BY DEF NoEvent, Erase
  <2>. QED  BY <2>1, <2>2
<1>. QED  BY <1>1, <1>2 DEF EventStep

\* The processor, the log and where the actor goes on after the event of m.
Drained(b) ==
    /\ ProcOK(proc') /\ fdSize' \in Nat /\ needSync' \in BOOLEAN /\ disk' \in Disks /\ buf' \in Seq(Events)
    /\ pc' \in {pc, [at |-> "openNew", then |-> "drain"]}
    /\ Rep(proc', MapOf(proc')) /\ proc'.last <= b
    /\ disk'.path.there /\ Loadable(disk'.path.log \o buf')
    /\ Rep(Load(disk'.path.log \o buf'), MapOf(proc')) /\ Load(disk'.path.log \o buf').last <= b

LEMMA DrainLog ==
    ASSUME Inv, At("drain"), NEW m \in held, m.seq = begin, NEW h, Chain(h),
           \/ m.ev = NoEvent /\ UNCHANGED <<logVars, pc>>
           \/ m.ev # NoEvent /\ DoEvent(m.ev) /\ LazyFlush(Append(buf, m.ev))
    PROVE  Drained(begin) /\ MapOf(proc') = h[begin]
<1>1. begin \in 1 .. nextSeq /\ nextSeq \in Nat /\ begin \in Int /\ held \subseteq EventMessages
  BY DEF Inv, Typed, ActorOK, ClientsOK
<1>2. m \in EventMessages /\ begin \in begin .. nextSeq - 1 /\ m.ev \in Events
  BY <1>1 DEF Inv, OrderOK, Ordered, EventMessages
<1>3. /\ h \in [Nat -> Stores] /\ h[begin - 1] = MapOf(proc) /\ EventStep(h[begin - 1], m.ev, begin, h[begin])
      /\ h[begin - 1] \in Stores /\ Tidy(h[begin - 1])
  <2>1. h \in [Nat -> Stores] /\ h[begin - 1] = MapOf(proc) /\ \A s \in begin - 1 .. nextSeq - 1 : Tidy(h[s])
    BY DEF Chain, Chained
  <2>2. begin - 1 \in Nat /\ begin - 1 \in begin - 1 .. nextSeq - 1
    BY <1>1
  <2>3. StepAt(h, m)
    BY <1>2 DEF Chain, Chained, InFlight
  <2>. QED  BY <2>1, <2>2, <2>3 DEF StepAt
<1>4. /\ disk.path.there /\ Loadable(disk.path.log \o buf) /\ Rep(Load(disk.path.log \o buf), MapOf(proc))
      /\ Load(disk.path.log \o buf).last < begin /\ Rep(proc, MapOf(proc)) /\ proc.last < begin /\ ProcOK(proc)
  BY DEF At, Inv, DiskOK, InPath, Stands, RepOK, Typed, FilesOK
<1>5. PICK log : log = disk.path.log \o buf
  OBVIOUS
<1>6. log \in Seq(Events) /\ disk \in Disks /\ buf \in Seq(Events) /\ ProcOK(Load(log))
  BY <1>5, DiskShape, LoadTyped DEF Inv
<1>7. Load(log).last \in Int /\ proc.last \in Int
  BY <1>4, <1>6, ProcShape
<1>8. CASE m.ev = NoEvent /\ UNCHANGED <<logVars, pc>>
  <2>1. h[begin] = MapOf(proc)
    BY <1>3, <1>8, NoEventStep
  <2>2. Load(log).last <= begin /\ proc.last <= begin
    BY <1>1, <1>4, <1>5, <1>7
  <2>3. fdSize \in Nat /\ needSync \in BOOLEAN
    BY DEF Inv, Typed, FilesOK
  <2>. QED  BY <1>4, <1>5, <1>6, <1>8, <2>1, <2>2, <2>3 DEF Drained, logVars
<1>9. CASE m.ev # NoEvent /\ DoEvent(m.ev) /\ LazyFlush(Append(buf, m.ev))
  <2>1. PICK e : e = m.ev
    OBVIOUS
  <2>2. e \in Events /\ e # NoEvent /\ EventStep(MapOf(proc), e, begin, h[begin])
    BY <1>2, <1>3, <1>9, <2>1
  <2>3. proc' = ProcessEvent(proc, e) /\ fdSize' = fdSize + 1
    BY <1>9, <2>1 DEF DoEvent
  <2>4. Rep(ProcessEvent(proc, e), h[begin]) /\ ProcessEvent(proc, e).last <= begin
    BY <1>1, <1>4, <2>2, RepStep
  <2>5. Rep(proc', h[begin]) /\ proc'.last <= begin /\ ProcOK(proc') /\ proc'.ok
    BY <2>3, <2>4 DEF Rep
  <2>6. MapOf(proc') = h[begin]
    BY <2>5, RepMap
  <2>7. Rep(ProcessEvent(Load(log), e), h[begin]) /\ ProcessEvent(Load(log), e).last <= begin
    BY <1>1, <1>4, <1>5, <2>2, RepStep
  <2>8. Load(Append(log, e)) = ProcessEvent(Load(log), e)
    BY <1>6, <2>2, LoadAppend
  <2>9. Loadable(Append(log, e))
    BY <1>4, <1>5, <1>6, <2>2, <2>7, LoadableAppend
  <2>10. /\ disk' \in Disks /\ buf' \in Seq(Events) /\ needSync' \in BOOLEAN
         /\ disk'.path.log \o buf' = Append(log, e) /\ disk'.path.there
    BY <1>4, <1>5, <1>9, <2>1, <2>2, LazyFlushLog DEF Inv
  <2>11. pc' \in {pc, [at |-> "openNew", then |-> "drain"]}
    BY <1>9, <2>5 DEF DoEvent
  <2>12. fdSize' \in Nat
    BY <2>3 DEF Inv, Typed, FilesOK
  <2>. QED  BY <2>5, <2>6, <2>7, <2>8, <2>9, <2>10, <2>11, <2>12 DEF Drained
<1>. QED  BY <1>8, <1>9

LEMMA DrainStep == ASSUME Inv, NEW m \in held, Drain(m) PROVE Inv'
<1>1. /\ At("drain") /\ m.seq = begin /\ begin' = begin + 1 /\ held' = held \ {m}
      /\ promises' = (IF m.promise THEN promises \cup {m.seq} ELSE promises)
      /\ timer' = (IF m.promise THEN DoLazySync(timer) ELSE timer)
      /\ \/ m.ev = NoEvent /\ UNCHANGED <<logVars, pc>>
         \/ m.ev # NoEvent /\ DoEvent(m.ev) /\ LazyFlush(Append(buf, m.ev))
      /\ UNCHANGED <<clientVars, mail, waiting, dbKey, acked>>
  BY DEF Drain, IsNext
<1>2. PICK h : Chain(h)
  BY DEF Inv, ChainOK
<1>3. Drained(begin) /\ MapOf(proc') = h[begin]
  BY <1>1, <1>2, DrainLog
<1>4. ~At("down") /\ ~Quiet /\ ~Unopened
  BY <1>1 DEF At, Quiet, Unopened, Reindexing
<1>5. ChainOK'
  BY <1>1, <1>2, <1>3, <1>4, DrainChain DEF Inv, clientVars
<1>6. OrderOK' /\ begin' \in 1 .. nextSeq
  BY <1>1, DrainOrder DEF Inv, clientVars
<1>7. begin \in 1 .. nextSeq /\ nextSeq \in Nat /\ m.seq \in Seqs
  BY MessageShape DEF Inv, Typed, ActorOK, ClientsOK
<1>8. pc' \in [at : Labels, then : Labels] /\ pc'.at \in {"drain", "openNew"} /\ (pc'.at = "openNew" => pc'.then = "drain")
  BY <1>1, <1>3 DEF Drained, Inv, Typed, StateOK, Labels, At
<1>9. ~Quiet' /\ ~Unopened'
  BY <1>8 DEF At, Quiet, Unopened, Reindexing
<1>10. timer \in Timers /\ TimerOK(timer)
  BY DEF Inv, Typed, ActorOK, Timers, PromiseOK, TimerOK
<1>11. timer' \in Timers /\ TimerOK(timer') /\ (m.promise => timer'.armed /\ (timer'.lazy \/ timer'.force))
       /\ (~m.promise => timer' = timer)
  BY <1>1, <1>10, TimerShape
<1>12. Typed'
  <2>1. ClientsOK'
    BY <1>1, ClientsKept DEF Inv, Typed, ClientsOK
  <2>2. ActorOK'
    BY <1>1, <1>6, <1>7, <1>11 DEF Inv, Typed, ActorOK, Timers, clientVars
  <2>3. dbKey' \in DbKeys \cup {None}
    BY <1>1 DEF Inv, Typed, FilesOK
  <2>4. FilesOK'
    BY <1>3, <2>3 DEF Drained, FilesOK, Disks
  <2>. QED  BY <1>1, <1>8, <2>1, <2>2, <2>4 DEF Inv, Typed, StateOK, clientVars
<1>13. PromiseOK'
  <2>1. ASSUME NEW s \in promises' PROVE s < begin'
    <3>1. s \in promises \/ s = begin
      BY <1>1
    <3>2. \A x \in promises : x \in Int /\ x < begin
      BY Constants DEF Inv, Typed, ActorOK, PromiseOK
    <3>. QED  BY <1>1, <1>7, <3>1, <3>2
  <2>2. ASSUME NEW s \in waiting' PROVE s < begin' \/ \E l \in held' : l.seq >= s
    <3>1. s \in Int /\ (s < begin \/ \E l \in held : l.seq >= s)
      BY <1>1, Constants DEF Inv, Typed, ActorOK, PromiseOK
    <3>2. CASE s < begin
      BY <1>1, <1>7, <3>1, <3>2
    <3>3. CASE m.seq >= s
      BY <1>1, <1>7, <3>1, <3>3
    <3>. QED  BY <1>1, <3>1, <3>2, <3>3
  <2>3. promises' # {} => timer'.armed /\ (timer'.lazy \/ timer'.force)
    BY <1>1, <1>11 DEF Inv, PromiseOK
  <2>4. timer'.lazy \/ timer'.force \/ timer'.flush => timer'.armed
    BY <1>11 DEF TimerOK
  <2>. QED  BY <1>9, <2>1, <2>2, <2>3, <2>4 DEF PromiseOK
<1>14. FreshOK' /\ LabelOK'
  BY <1>8, <1>9 DEF FreshOK, LabelOK, Reindexing
<1>15. RepOK'
  <2>1. proc'.last \in Int
    BY <1>3, ProcShape DEF Drained
  <2>2. proc'.last < begin + 1
    BY <1>3, <1>7, <2>1 DEF Drained
  <2>. QED  BY <1>1, <1>3, <2>2 DEF RepOK, Drained
<1>16. AckOK'
  <2>1. Len(versions) \in Nat /\ acked \in Nat
    BY LenProperties DEF Inv, Typed, ClientsOK, StateOK
  <2>. QED  BY <1>1, <1>7, <2>1 DEF Inv, AckOK, clientVars
<1>17. DiskOK'
  <2>1. PICK log : log = disk'.path.log \o buf'
    OBVIOUS
  <2>2. Load(log).last \in Int
    BY <1>3, <2>1, ProcShape DEF Drained, Rep
  <2>3. Load(log).last < begin + 1
    BY <1>3, <1>7, <2>1, <2>2 DEF Drained
  <2>4. Stands(log)'
    BY <1>1, <1>3, <2>1, <2>3 DEF Stands, Drained
  <2>. QED  BY <1>3, <1>8, <2>1, <2>4 DEF DiskOK, At, Drained
<1>. QED  BY <1>5, <1>6, <1>12, <1>13, <1>14, <1>15, <1>16, <1>17 DEF Inv

-----------------------------------------------------------------------------
(* The second file is written and takes the place of the first             *)

LEMMA ReindexStep ==
    ASSUME Inv, UNCHANGED reindexFrame, pc.at \in Reindexing, FilesOK', DiskOK',
           \/ \E l \in Reindexing : pc' = [pc EXCEPT !.at = l]
           \/ pc' = [pc EXCEPT !.at = pc.then]
    PROVE  Inv'
<1>1. pc \in [at : Labels, then : Labels] /\ pc.then \in {"idle", "drain", "ready"}
  BY DEF Inv, Typed, StateOK, LabelOK
<1>2. /\ pc' \in [at : Labels, then : Labels] /\ pc'.then = pc.then
      /\ pc'.at \in Reindexing \/ pc'.at = pc.then
  BY <1>1 DEF Reindexing, Labels
<1>3. (Quiet' => Quiet) /\ (Unopened' => Unopened) /\ LabelOK' /\ ~At("down") /\ ~At("down")'
  BY <1>1, <1>2 DEF Quiet, Unopened, LabelOK, At, Reindexing
<1>4. Typed'
  BY <1>2 DEF Inv, Typed, ClientsOK, ActorOK, StateOK, reindexFrame, clientVars, orderVars
<1>5. OrderOK' /\ RepOK' /\ AckOK'
  BY RepKept DEF Inv, OrderOK, AckOK, reindexFrame, clientVars, orderVars
<1>6. PromiseOK'
  BY <1>3, PromiseKept DEF Inv, reindexFrame, orderVars
<1>7. FreshOK'
  BY <1>3 DEF Inv, FreshOK, reindexFrame, clientVars, orderVars
<1>8. ChainOK'
  <2>1. FlightKept
    BY DEF FlightKept, reindexFrame, orderVars
  <2>. QED  BY <1>3, <2>1, ChainKept DEF Inv, reindexFrame, clientVars, orderVars
<1>. QED  BY <1>3, <1>4, <1>5, <1>6, <1>7, <1>8 DEF Inv

\* The second file holds the live events; loading them leads to the same map.
LEMMA OpenNewStep == ASSUME Inv, OpenNew PROVE Inv'
<1>1. /\ At("openNew") /\ disk' = [disk EXCEPT !.new = NewFile]
      /\ buf' = (IF dbKey = None THEN <<>> ELSE <<Encryption(dbKey)>>) \o Live(proc)
      /\ fdSize' = Len(buf') /\ pc' = [pc EXCEPT !.at = "reindex"] /\ UNCHANGED <<reindexFrame, needSync>>
  BY DEF OpenNew
<1>2. disk.path.there /\ Stands(disk.path.log \o buf) /\ Rep(proc, MapOf(proc)) /\ proc.last < begin /\ ProcOK(proc)
      /\ dbKey \in DbKeys \cup {None} /\ begin \in Int /\ needSync \in BOOLEAN
  BY <1>1 DEF At, Inv, DiskOK, InPath, RepOK, Typed, FilesOK, ActorOK, ClientsOK
<1>3. /\ disk \in Disks /\ disk.path \in Files /\ disk.path.log \in Seq(Events) /\ buf \in Seq(Events) /\ NewFile \in Files
  BY DiskShape, FilesTyped DEF Inv
<1>4. PICK log : log = (IF dbKey = None THEN <<>> ELSE <<Encryption(dbKey)>>) \o Live(proc)
  OBVIOUS
<1>5. log \in Seq(Events) /\ Loadable(log) /\ Rep(Load(log), MapOf(proc)) /\ Load(log).last <= proc.last
  BY <1>2, <1>4, ReindexLoads
<1>6. Load(log).last < begin
  <2>1. Load(log).last \in Int /\ proc.last \in Int
    BY <1>2, <1>5, LoadTyped, ProcShape
  <2>. QED  BY <1>2, <1>5, <2>1
<1>7. Loadable(disk.path.log)
  BY <1>2, <1>3, LoadableStart DEF Stands
<1>8. disk' \in Disks /\ disk'.path = disk.path /\ disk'.new = NewFile /\ buf' = log
  BY <1>1, <1>3, <1>4 DEF Disks
<1>9. FilesOK'
  <2>1. fdSize' \in Nat
    BY <1>1, <1>5, <1>8, LenProperties
  <2>. QED  BY <1>1, <1>2, <1>5, <1>8, <2>1 DEF FilesOK, Disks, reindexFrame
<1>10. pc'.at = "reindex"
  BY <1>1 DEF Inv, Typed, StateOK
<1>11. Stands(log)'
  BY <1>1, <1>5, <1>6 DEF Stands, reindexFrame, orderVars
<1>12. DiskOK'
  BY <1>2, <1>7, <1>8, <1>10, <1>11 DEF DiskOK, At, InPath
<1>13. pc.at \in Reindexing /\ "reindex" \in Reindexing
  BY <1>1 DEF At, Reindexing
<1>. QED  BY <1>1, <1>9, <1>12, <1>13, ReindexStep

LEMMA OpenNewFailsStep == ASSUME Inv, OpenNewFails PROVE Inv'
<1>1. At("openNew") /\ pc' = [pc EXCEPT !.at = pc.then] /\ UNCHANGED <<reindexFrame, buf, fdSize, needSync, disk>>
  BY DEF OpenNewFails
<1>2. pc.at \in Reindexing /\ pc.then \in {"idle", "drain", "ready"} /\ pc'.at = pc.then
  BY <1>1 DEF At, Reindexing, Inv, LabelOK, Typed, StateOK
<1>3. FilesOK'
  BY <1>1 DEF Inv, Typed, FilesOK, reindexFrame
<1>4. disk.path.there /\ Stands(disk.path.log \o buf)
  BY <1>1 DEF At, Inv, DiskOK, InPath
<1>5. DiskOK'
  BY <1>1, <1>2, <1>4 DEF DiskOK, At, InPath, Stands, reindexFrame, orderVars
<1>. QED  BY <1>1, <1>2, <1>3, <1>5, ReindexStep

LEMMA WriteNewStep == ASSUME Inv, WriteNew PROVE Inv'
<1>1. /\ At("reindex")
      /\ disk' = [disk EXCEPT !.new = IF disk.path.log # <<>> THEN Synced(Flushed(disk.new, buf)) ELSE Flushed(disk.new, buf)]
      /\ buf' = <<>> /\ needSync' = FALSE /\ pc' = [pc EXCEPT !.at = "unlink"] /\ UNCHANGED <<reindexFrame, fdSize>>
  BY DEF WriteNew
<1>2. disk.path.there /\ Loadable(disk.path.log) /\ disk.new = NewFile /\ Stands(buf)
  BY <1>1 DEF At, Inv, DiskOK
<1>3. disk \in Disks /\ disk.path \in Files /\ disk.new \in Files /\ buf \in Seq(Events) /\ <<>> \in Seq(Events)
  BY DiskShape, EmptySeq DEF Inv
<1>4. PICK f : f = Flushed(disk.new, buf)
  OBVIOUS
<1>5. f \in Files /\ f.log = buf /\ f.there
  <2>1. disk.new.log = <<>> /\ disk.new.there /\ <<>> \o buf = buf
    BY <1>2, <1>3, ConcatEmptySeq DEF NewFile
  <2>2. f \in Files /\ f.log = disk.new.log \o buf /\ f.there = disk.new.there
    BY <1>3, <1>4, FilesTyped
  <2>. QED  BY <2>1, <2>2
<1>6. Synced(f) \in Files /\ Synced(f).log = f.log /\ Synced(f).there = f.there
  BY <1>5, FilesTyped, SyncedShape
<1>7. PICK y : y = IF disk.path.log # <<>> THEN Synced(f) ELSE f
  OBVIOUS
<1>8. y \in Files /\ y.log = buf /\ y.there
  BY <1>5, <1>6, <1>7
<1>9. disk' \in Disks /\ disk'.path = disk.path /\ disk'.new = y
  BY <1>1, <1>3, <1>4, <1>7, <1>8 DEF Disks
<1>10. FilesOK'
  BY <1>1, <1>3, <1>9 DEF Inv, Typed, FilesOK, Disks, reindexFrame
<1>11. pc'.at = "unlink"
  BY <1>1 DEF Inv, Typed, StateOK
<1>12. PICK log : log = buf
  OBVIOUS
<1>13. Stands(log)'
  BY <1>1, <1>2, <1>12 DEF Stands, reindexFrame, orderVars
<1>14. DiskOK'
  BY <1>1, <1>2, <1>8, <1>9, <1>11, <1>12, <1>13 DEF DiskOK, At, InPath
<1>15. pc.at \in Reindexing /\ "unlink" \in Reindexing
  BY <1>1 DEF At, Reindexing
<1>. QED  BY <1>1, <1>10, <1>14, <1>15, ReindexStep

LEMMA UnlinkPathStep == ASSUME Inv, UnlinkPath PROVE Inv'
<1>1. /\ At("unlink") /\ disk' = [disk EXCEPT !.path = NoFile] /\ pc' = [pc EXCEPT !.at = "rename"]
      /\ UNCHANGED <<reindexFrame, buf, fdSize, needSync>>
  BY DEF UnlinkPath
<1>2. disk.new.there /\ Stands(disk.new.log) /\ buf = <<>>
  BY <1>1 DEF At, Inv, DiskOK
<1>3. disk' \in Disks /\ disk'.path = NoFile /\ disk'.new = disk.new
  BY <1>1, DiskShape, FilesTyped DEF Inv, Disks
<1>4. FilesOK'
  BY <1>1, <1>3 DEF Inv, Typed, FilesOK, Disks, reindexFrame
<1>5. pc'.at = "rename"
  BY <1>1 DEF Inv, Typed, StateOK
<1>6. DiskOK'
  BY <1>1, <1>2, <1>3, <1>5 DEF DiskOK, At, InPath, Stands, reindexFrame, orderVars
<1>7. pc.at \in Reindexing /\ "rename" \in Reindexing
  BY <1>1 DEF At, Reindexing
<1>. QED  BY <1>1, <1>4, <1>6, <1>7, ReindexStep

LEMMA RenameNewStep == ASSUME Inv, RenameNew PROVE Inv'
<1>1. /\ At("rename") /\ disk' = [path |-> disk.new, new |-> NoFile] /\ pc' = [pc EXCEPT !.at = pc.then]
      /\ UNCHANGED <<reindexFrame, buf, fdSize, needSync>>
  BY DEF RenameNew
<1>2. disk.new.there /\ Stands(disk.new.log) /\ buf = <<>>
  BY <1>1 DEF At, Inv, DiskOK
<1>3. disk' \in Disks /\ disk'.path = disk.new /\ disk'.new = NoFile
  BY <1>1, DiskShape, FilesTyped DEF Inv, Disks
<1>4. FilesOK'
  BY <1>1, <1>3 DEF Inv, Typed, FilesOK, Disks, reindexFrame
<1>5. pc.at \in Reindexing /\ pc.then \in {"idle", "drain", "ready"} /\ pc'.at = pc.then
  BY <1>1 DEF At, Reindexing, Inv, LabelOK, Typed, StateOK
<1>6. disk'.path.log \o buf' = disk.new.log
  BY <1>1, <1>2, <1>3, DiskShape, ConcatEmptySeq DEF Inv
<1>7. DiskOK'
  BY <1>1, <1>2, <1>3, <1>5, <1>6 DEF DiskOK, At, InPath, Stands, reindexFrame, orderVars
<1>. QED  BY <1>1, <1>4, <1>5, <1>7, ReindexStep

-----------------------------------------------------------------------------
(* The process ends and starts                                             *)

NewMap == [k \in Keys |-> NoEntry]

LEMMA NewMapIs == MapOf(NewProcessor) = NewMap /\ Tidy(NewMap) /\ NewMap \in Stores /\ Rep(NewProcessor, NewMap)
BY RepNew, RepMap, EmptyStore DEF NewMap, Tidy

LEMMA RepTidy == ASSUME NEW p, NEW m, Rep(p, m) PROVE Tidy(m)
<1> SUFFICES ASSUME NEW k \in Keys, m[k] # NoEntry PROVE m[k].id # 0
  BY DEF Tidy
<1>1. Finds(p, k, m[k].id)
  BY DEF Rep
<1>2. IsEntry(p.events[m[k].id], m[k].id, m)
  BY <1>1 DEF Rep, Finds
<1>. QED  BY <1>2 DEF IsEntry

\* Nothing is on its way and the processor stands for the map of the clients.
LEMMA FreshChain ==
    ASSUME mail' = [c \in Clients |-> <<>>], held' = {}, begin' = nextSeq', nextSeq' \in Nat \ {0},
           map' = MapOf(proc'), map' \in Stores, Tidy(map'),
           ~At("down")' => Len(versions') = 1 /\ versions'[1] = Content(map')
    PROVE  ChainOK'
<1>1. PICK m : m = map'
  OBVIOUS
<1>2. PICK h : h = [s \in Nat |-> m]
  OBVIOUS
<1>3. h \in [Nat -> Stores] /\ \A s \in Nat : h[s] = m
  BY <1>1, <1>2
<1>0. \A x \in Nat \ {0} : x - 1 \in Nat /\ \A s \in x - 1 .. x - 1 : s \in Nat /\ s = x - 1 /\ 1 - (x - 1 - s) = 1
  OBVIOUS
<1>4. \A s \in begin' - 1 .. nextSeq' - 1 : s \in Nat /\ s = nextSeq' - 1 /\ 1 - (nextSeq' - 1 - s) = 1
  BY <1>0, Zenon
<1>5. \A l : ~InFlight(mail', held', l)
  BY DEF InFlight, Mailed
<1>6. Chained(h, mail', held', begin', nextSeq')
  BY <1>1, <1>3, <1>4, <1>5 DEF Chained
<1>7. ~At("down")' => Versioned(h, begin', nextSeq', versions')
  BY <1>1, <1>3, <1>4 DEF Versioned
<1>8. begin' - 1 \in Nat /\ nextSeq' - 1 \in Nat
  BY <1>0, Zenon
<1>9. Chain(h)'
  BY <1>1, <1>3, <1>6, <1>7, <1>8 DEF Chain
<1>. QED  BY <1>9 DEF ChainOK

LEMMA StopStep ==
    ASSUME Inv, NEW d \in Disks, Loadable(Opened(d).log), StopWith(d) PROVE Inv'
<1>1. /\ disk' = d /\ versions' = <<Recovered(d)>> /\ acked' = 1
      /\ up' = FALSE /\ mail' = [c \in Clients |-> <<>>]
      /\ held' = {} /\ waiting' = {} /\ promises' = {} /\ timer' = Idle
      /\ buf' = <<>> /\ needSync' = FALSE /\ pc' = [at |-> "down", then |-> "idle"]
      /\ map' = NewMap /\ proc' = NewProcessor /\ nextSeq' = 1 /\ begin' = 1
  BY DEF StopWith, Goto, NewMap
<1>2. Typed'
  BY StopTyped DEF Inv, Disks
<1>3. OrderOK'
  <2>1. nextSeq' \in Nat /\ begin' = nextSeq'
    BY <1>1
  <2>. QED  BY <1>1, <2>1, EmptyOrder
<1>4. PromiseOK'
  BY <1>1 DEF PromiseOK, Idle
<1>5. Len(versions') = 1
  BY <1>1
<1>6. FreshOK'
  BY <1>1, <1>5 DEF FreshOK
<1>7. LabelOK'
  BY <1>1 DEF LabelOK, Reindexing
<1>8. ChainOK'
  <2>1. nextSeq' \in Nat \ {0} /\ begin' = nextSeq'
    BY <1>1
  <2>2. map' = MapOf(proc') /\ map' \in Stores /\ Tidy(map')
    BY <1>1, NewMapIs
  <2>3. At("down")'
    BY <1>1 DEF At
  <2>. QED  BY <1>1, <2>1, <2>2, <2>3, FreshChain
<1>9. AckOK'
  BY <1>1, <1>5 DEF AckOK
<1>10. RepOK'
  <2>1. NewProcessor.last < 1
    BY NewProcOK
  <2>. QED  BY <1>1, <2>1, NewMapIs DEF RepOK
<1>11. DiskOK'
  BY <1>1 DEF DiskOK, At, InPath
<1>. QED  BY <1>2, <1>3, <1>4, <1>6, <1>7, <1>8, <1>9, <1>10, <1>11 DEF Inv

LEMMA ClosedStep == ASSUME Inv, Closed PROVE Inv'
<1>1. At("closed") /\ StopWith(disk)
  BY DEF Closed
<1>2. disk.path.there /\ Loadable(disk.path.log \o buf)
  BY <1>1 DEF At, Inv, DiskOK, InPath, Stands
<1>3. disk \in Disks /\ disk.path.log \in Seq(Events) /\ buf \in Seq(Events)
  BY DiskShape DEF Inv
<1>4. Loadable(Opened(disk).log)
  BY <1>2, <1>3, LoadableStart DEF Opened
<1>. QED  BY <1>1, <1>3, <1>4, StopStep

LEMMA DestroyPathStep == ASSUME Inv, DestroyPath PROVE Inv'
<1>1. At("destroyPath") /\ StopWith([path |-> NoFile, new |-> disk.new])
  BY DEF DestroyPath
<1>2. disk.new = NoFile
  BY <1>1 DEF Inv, DiskOK
<1>3. PICK d : d = [path |-> NoFile, new |-> disk.new]
  OBVIOUS
<1>4. d \in Disks /\ Opened(d).log = <<>>
  BY <1>2, <1>3, FilesTyped DEF Disks, Opened, NoFile
<1>. QED  BY <1>1, <1>3, <1>4, LoadableEmpty, StopStep

LEMMA DestroyNewStep == ASSUME Inv, DestroyNew PROVE Inv'
<1>1. /\ At("destroyNew") /\ pc' = [at |-> "destroyPath", then |-> "idle"] /\ disk' = [disk EXCEPT !.new = NoFile]
      /\ UNCHANGED <<clientVars, mail, orderVars, promises, timer, proc, buf, fdSize, needSync, dbKey, acked>>
  BY DEF DestroyNew, Goto
<1>2. disk.path.there /\ Stands(disk.path.log \o buf) /\ buf = <<>>
  BY <1>1 DEF At, Inv, DiskOK, InPath
<1>3. disk' \in Disks /\ disk'.path = disk.path /\ disk'.new = NoFile
  BY <1>1, DiskShape, FilesTyped DEF Inv, Disks
<1>4. pc' \in [at : Labels, then : Labels] /\ pc'.at = "destroyPath"
  BY <1>1 DEF Labels
<1>5. Typed'
  BY <1>1, <1>3, <1>4 DEF Inv, Typed, ClientsOK, ActorOK, FilesOK, StateOK, Disks, clientVars, orderVars
<1>6. ~Quiet' /\ ~Unopened' /\ ~At("down")
  BY <1>1, <1>4 DEF Quiet, Unopened, At, Reindexing
<1>7. OrderOK' /\ RepOK' /\ AckOK'
  BY <1>1, RepKept DEF Inv, OrderOK, AckOK, clientVars, orderVars
<1>8. PromiseOK' /\ FreshOK' /\ LabelOK'
  BY <1>1, <1>4, <1>6, PromiseKept DEF Inv, orderVars, FreshOK, LabelOK, Reindexing
<1>9. ChainOK'
  <2>1. FlightKept
    BY <1>1 DEF FlightKept, orderVars
  <2>. QED  BY <1>1, <1>6, <2>1, ChainKept DEF Inv, clientVars, orderVars
<1>10. DiskOK'
  BY <1>1, <1>2, <1>3, <1>4 DEF DiskOK, At, InPath, Stands, orderVars
<1>. QED  BY <1>5, <1>7, <1>8, <1>9, <1>10 DEF Inv

\* What a crash leaves of a file that loads wherever it is cut off, loads.
LEMMA RemainsLoad ==
    ASSUME NEW f \in Files, NEW b \in Seq(Events), f.there, Loadable(f.log \o b), NEW r \in Remains(f, b)
    PROVE  r.there /\ Loadable(r.log)
<1> DEFINE least == IF "power" \in Faults THEN f.safe ELSE Len(f.log)
<1>1. PICK all : all = f.log \o b
  OBVIOUS
<1>2. all \in Seq(Events) /\ Len(all) \in Nat /\ least \in Nat
  BY <1>1, FilesTyped, ConcatProperties, LenProperties
<1>3. PICK n \in least .. Len(all), t \in {FALSE, FileKey(all) # None /\ Len(all) > least} :
          r = [there |-> TRUE, log |-> SubSeq(all, 1, n), safe |-> n, torn |-> t]
  BY <1>1 DEF Remains
<1> HIDE DEF least
<1>4. n \in 0 .. Len(all)
  BY <1>2, <1>3
<1>5. Loadable(Prefix(all, n))
  BY <1>1, <1>2, <1>4, LoadablePrefix
<1>. QED  BY <1>3, <1>5 DEF Prefix

LEMMA CrashStep == ASSUME Inv, Crash PROVE Inv'
<1> DEFINE pathRest == IF At("idle") \/ At("drain") THEN buf ELSE <<>>
           newRest == IF At("reindex") THEN buf ELSE <<>>
<1>1. ~At("down") /\ \E p \in Remains(disk.path, pathRest), n \in Remains(disk.new, newRest) : StopWith([path |-> p, new |-> n])
  BY DEF Crash
<1>2. PICK p \in Remains(disk.path, pathRest), n \in Remains(disk.new, newRest) : StopWith([path |-> p, new |-> n])
  BY <1>1
<1>3. PICK d : d = [path |-> p, new |-> n]
  OBVIOUS
<1>4. /\ disk.path \in Files /\ disk.new \in Files /\ buf \in Seq(Events) /\ <<>> \in Seq(Events)
      /\ disk.path.log \in Seq(Events) /\ disk.new.log \in Seq(Events)
  BY DiskShape, EmptySeq DEF Inv
<1>5. pathRest \in Seq(Events) /\ newRest \in Seq(Events)
  BY <1>4
<1>6. disk.path.log \o <<>> = disk.path.log /\ disk.new.log \o <<>> = disk.new.log
  BY <1>4, ConcatEmptySeq
<1>7. pc.at \in Labels \ {"down", "fatal"}
  BY <1>1 DEF Inv, Typed, StateOK, LabelOK, At
<1>8. CASE At("rename")
  <2>1. disk.path = NoFile /\ disk.new.there /\ Loadable(disk.new.log) /\ newRest = <<>>
    BY <1>8 DEF Inv, DiskOK, Stands, At
  <2>2. p = NoFile
    BY <2>1 DEF Remains, NoFile
  <2>3. n.there /\ Loadable(n.log)
    BY <1>4, <1>5, <1>6, <2>1, RemainsLoad
  <2>4. d \in Disks
    BY <1>3, <1>4, <1>5, <2>2, RemainsTyped, FilesTyped DEF Disks
  <2>5. Opened(d).log = n.log
    BY <1>3, <2>2 DEF Opened, NoFile
  <2>. QED  BY <1>2, <1>3, <2>3, <2>4, <2>5, StopStep
<1>9. CASE ~At("rename")
  <2>1. disk.path.there /\ Loadable(disk.path.log \o pathRest)
    <3>1. CASE pc.at \in InPath
      <4>1. disk.path.there /\ Loadable(disk.path.log \o buf)
        BY <3>1 DEF Inv, DiskOK, Stands
      <4>2. Loadable(disk.path.log)
        BY <1>4, <4>1, LoadableStart
      <4>. QED  BY <1>6, <4>1, <4>2
    <3>2. CASE pc.at \in {"reindex", "unlink"}
      <4>1. disk.path.there /\ Loadable(disk.path.log) /\ pathRest = <<>>
        BY <3>2 DEF Inv, DiskOK, At
      <4>. QED  BY <1>6, <4>1
    <3>. QED  BY <1>7, <1>9, <3>1, <3>2 DEF Labels, InPath, At
  <2> HIDE DEF pathRest, newRest
  <2>2. p.there /\ Loadable(p.log)
    BY <1>4, <1>5, <2>1, RemainsLoad
  <2>3. d \in Disks
    BY <1>3, <1>4, <1>5, RemainsTyped DEF Disks
  <2>4. Opened(d).log = p.log
    BY <1>3, <2>2 DEF Opened
  <2>. QED  BY <1>2, <1>3, <2>2, <2>3, <2>4, StopStep
<1>. QED  BY <1>8, <1>9

LEMMA OpenStep == ASSUME Inv, NEW k \in DbKeys \cup {None}, Open(k) PROVE Inv'
<1>1. PICK f : f = Opened(disk)
  OBVIOUS
<1>2. PICK p : p = Load(f.log)
  OBVIOUS
<1>3. /\ At("down")
      /\ disk' = [path |-> [f EXCEPT !.there = TRUE, !.torn = FALSE], new |-> IF disk.path.there THEN disk.new ELSE NoFile]
      /\ proc' = p /\ fdSize' = Len(f.log) /\ map' = MapOf(p) /\ nextSeq' = p.last + 1 /\ begin' = p.last + 1
      /\ pc' = (CASE ~p.ok -> [at |-> "fatal", then |-> "fatal"]
                  [] p.ok /\ k # None /\ (FileKey(f.log) # k \/ f.torn) -> [at |-> "openNew", then |-> "ready"]
                  [] OTHER -> [at |-> "ready", then |-> "ready"])
      /\ dbKey' = k
      /\ UNCHANGED <<up, versions, mail, held, waiting, promises, timer, buf, needSync, acked>>
  BY <1>1, <1>2 DEF Open
<1>4. /\ disk.path \in Files /\ disk.new \in Files /\ f \in Files /\ f.log \in Seq(Events) /\ Len(f.log) \in Nat
      /\ NoFile \in Files
  BY <1>1, DiskShape, FilesTyped DEF Inv, Opened
<1>5. Unopened /\ Loadable(f.log) /\ buf = <<>>
  BY <1>1, <1>3 DEF Inv, DiskOK, At, Unopened
<1>6. /\ mail = [c \in Clients |-> <<>>] /\ held = {} /\ waiting = {} /\ promises = {} /\ timer = Idle /\ ~up
      /\ Len(versions) = 1 /\ acked = 1 /\ versions = <<Recovered(disk)>>
  BY <1>3, <1>5 DEF Inv, FreshOK
<1>7. \E m : Rep(p, m)
  <2>1. Len(f.log) \in 0 .. Len(f.log) /\ Prefix(f.log, Len(f.log)) = f.log
    BY <1>4, PrefixShape
  <2>. QED  BY <1>2, <1>5, <2>1 DEF Loadable
<1>8. Rep(p, MapOf(p)) /\ Tidy(MapOf(p)) /\ ProcOK(p) /\ p.ok /\ MapOf(p) \in Stores
  BY <1>7, RepMap, RepTidy DEF Rep
<1>9. p.last \in 0 .. MaxSeq /\ p.last \in Nat /\ p.last < p.last + 1
  BY <1>8, ProcShape, Bounds
<1>10. /\ pc' \in [at : Labels, then : Labels] /\ pc'.at \in {"openNew", "ready"} /\ pc'.then = "ready"
  BY <1>3, <1>8 DEF Labels
<1>11. PICK y : y = [f EXCEPT !.there = TRUE, !.torn = FALSE]
  OBVIOUS
<1>12. y \in Files /\ y.log = f.log /\ y.there
  BY <1>4, <1>11 DEF Files
<1>13. disk' \in Disks /\ disk'.path = y
  BY <1>3, <1>4, <1>11, <1>12 DEF Disks
<1>14. nextSeq' \in Nat \ {0} /\ nextSeq' - 1 = p.last /\ begin' = nextSeq' /\ begin' \in 1 .. nextSeq' /\ nextSeq' - 1 \in Seqs \cup {0}
  BY <1>3, <1>9, Constants
<1>15. Typed'
  <2>1. ClientsOK'
    BY <1>3, <1>8, <1>14 DEF Inv, Typed, ClientsOK
  <2>2. ActorOK'
    BY <1>3, <1>14 DEF Inv, Typed, ActorOK
  <2>3. FilesOK'
    BY <1>3, <1>4, <1>8, <1>13 DEF Inv, Typed, FilesOK, Disks
  <2>4. StateOK'
    BY <1>3, <1>10 DEF Inv, Typed, StateOK
  <2>. QED  BY <2>1, <2>2, <2>3, <2>4 DEF Typed
<1>16. OrderOK'
  BY <1>3, <1>6, <1>14, EmptyOrder
<1>17. PromiseOK'
  BY <1>3, <1>6 DEF PromiseOK, Idle
<1>18. ~At("down")'
  BY <1>10 DEF At
<1>19. FreshOK' /\ LabelOK'
  BY <1>3, <1>6, <1>10, <1>14, <1>18 DEF FreshOK, LabelOK, Reindexing
<1>20. ChainOK'
  <2>1. versions'[1] = Content(map') /\ Len(versions') = 1
    BY <1>1, <1>2, <1>3, <1>6 DEF Recovered
  <2>. QED  BY <1>3, <1>6, <1>8, <1>14, <2>1, FreshChain
<1>21. AckOK'
  BY <1>3, <1>6, <1>14 DEF AckOK
<1>22. RepOK'
  BY <1>3, <1>8, <1>9 DEF RepOK
<1>23. disk'.path.log \o buf' = f.log
  BY <1>3, <1>4, <1>5, <1>12, <1>13, ConcatEmptySeq
<1>24. DiskOK'
  <2>1. Loadable(f.log) /\ Rep(Load(f.log), MapOf(proc')) /\ Load(f.log).last < begin'
    BY <1>2, <1>3, <1>5, <1>8, <1>9
  <2>. QED  BY <1>10, <1>12, <1>13, <1>23, <2>1 DEF DiskOK, At, Stands
<1>. QED  BY <1>15, <1>16, <1>17, <1>19, <1>20, <1>21, <1>22, <1>24 DEF Inv

LEMMA ReadyStep == ASSUME Inv, Ready PROVE Inv'
<1>1. /\ At("ready") /\ up' = TRUE /\ pc' = [at |-> "idle", then |-> "idle"]
      /\ UNCHANGED <<map, nextSeq, versions, mail, orderVars, promises, timer, logVars, dbKey, acked>>
  BY DEF Ready, Goto
<1>2. Unopened /\ ~At("down") /\ disk.path.there /\ Stands(disk.path.log \o buf)
  BY <1>1 DEF Unopened, At, Inv, DiskOK, InPath
<1>3. waiting = {} /\ promises = {} /\ timer = Idle
  BY <1>2 DEF Inv, FreshOK
<1>4. pc' \in [at : Labels, then : Labels] /\ pc'.at = "idle" /\ up' \in BOOLEAN
  BY <1>1 DEF Labels
<1>5. Typed'
  BY <1>1, <1>4 DEF Inv, Typed, ClientsOK, ActorOK, FilesOK, StateOK, orderVars, logVars
<1>6. OrderOK' /\ RepOK' /\ AckOK'
  BY <1>1, RepKept DEF Inv, OrderOK, AckOK, orderVars, logVars
<1>7. PromiseOK'
  BY <1>1, <1>3 DEF PromiseOK, Idle, orderVars
<1>8. FreshOK' /\ LabelOK'
  BY <1>4 DEF FreshOK, LabelOK, Unopened, Reindexing
<1>9. ChainOK'
  <2>1. FlightKept
    BY <1>1 DEF FlightKept, orderVars
  <2>. QED  BY <1>1, <1>2, <2>1, ChainKept DEF Inv, orderVars, logVars
<1>10. DiskOK'
  BY <1>1, <1>2, <1>4 DEF DiskOK, At, InPath, Stands, orderVars, logVars
<1>. QED  BY <1>5, <1>6, <1>7, <1>8, <1>9, <1>10 DEF Inv

LEMMA InvInit == ASSUME Init PROVE Inv
<1>1. Typed /\ OrderOK
  BY InitTyped, InitOrder
<1>2. /\ map = NewMap /\ nextSeq = 1 /\ ~up /\ mail = [c \in Clients |-> <<>>]
      /\ begin = 1 /\ held = {} /\ waiting = {} /\ promises = {} /\ timer = Idle /\ proc = NewProcessor /\ buf = <<>>
      /\ disk = [path |-> NoFile, new |-> NoFile] /\ pc = [at |-> "down", then |-> "down"]
      /\ versions = <<Content(NewMap)>> /\ acked = 1
  BY DEF Init, NewMap
<1>3. PromiseOK /\ LabelOK
  BY <1>2 DEF PromiseOK, Idle, LabelOK, Reindexing
<1>4. Opened(disk).log = <<>>
  BY <1>2 DEF Opened, NoFile
<1>5. versions = <<Recovered(disk)>> /\ Len(versions) = 1
  BY <1>2, <1>4, LoadEmpty, NewMapIs DEF Recovered
<1>6. FreshOK
  BY <1>2, <1>5 DEF FreshOK
<1>7. ChainOK
  <2>1. PICK h : h = [s \in Nat |-> NewMap]
    OBVIOUS
  <2>2. h \in [Nat -> Stores] /\ \A s \in Nat : h[s] = NewMap
    BY <2>1, NewMapIs
  <2>3. \A l : ~InFlight(mail, held, l)
    BY <1>2 DEF InFlight, Mailed
  <2>4. \A s \in 1 - 1 .. 1 - 1 : s \in Nat
    OBVIOUS
  <2>5. Chained(h, mail, held, begin, nextSeq)
    BY <1>2, <2>2, <2>3, <2>4, NewMapIs DEF Chained
  <2>6. Chain(h)
    BY <1>2, <2>2, <2>5, NewMapIs DEF Chain, At
  <2>. QED  BY <2>6 DEF ChainOK
<1>8. AckOK
  BY <1>2, <1>5 DEF AckOK
<1>9. RepOK
  <2>1. NewProcessor.last < 1
    BY NewProcOK
  <2>. QED  BY <1>2, <2>1, NewMapIs DEF RepOK
<1>10. DiskOK
  BY <1>2, <1>4, LoadableEmpty DEF DiskOK, At, InPath
<1>. QED  BY <1>1, <1>3, <1>6, <1>7, <1>8, <1>9, <1>10 DEF Inv

-----------------------------------------------------------------------------
(* The theorems                                                            *)

LEMMA MapTidy == ASSUME Inv PROVE Tidy(map)
<1>1. PICK h : Chain(h)
  BY DEF Inv, ChainOK
<1>2. nextSeq - 1 \in begin - 1 .. nextSeq - 1
  BY DEF Inv, Typed, ActorOK, ClientsOK
<1>. QED  BY <1>1, <1>2 DEF Chain, Chained

LEMMA ClientStep == ASSUME Inv, NEW c \in Clients, Client(c) PROVE Inv'
<1>1. Typed /\ Tidy(map)
  BY MapTidy DEF Inv
<1>2. ASSUME NEW k \in Keys, NEW v \in Values, Set(c, k, v) PROVE Inv'
  BY <1>1, <1>2, SetGrows, GrowthStep
<1>3. ASSUME NEW ks \in (SUBSET Keys) \ {{}}, NEW order \in SetToSeqs(ks), EraseKeys(c, order) PROVE Inv'
  BY <1>1, <1>3, EraseGrows, GrowthStep
<1>4. CASE LazySync(c)
  BY <1>1, <1>4, LazySyncGrows, GrowthStep
<1>5. "forceSync" \in Kinds /\ "forceFlush" \in Kinds /\ "changeKey" \in Kinds /\ "close" \in Kinds /\ "destroy" \in Kinds
  BY DEF Kinds
<1>6. CASE ForceSync(c) \/ ForceFlush(c) \/ Close(c) \/ CloseAndDestroy(c)
  BY <1>5, <1>6, AskStep DEF ForceSync, ForceFlush, Close, CloseAndDestroy
<1>7. ASSUME NEW k \in DbKeys \cup {None}, ChangeKey(c, k) PROVE Inv'
  BY <1>5, <1>7, AskStep DEF ChangeKey
<1>. QED  BY <1>2, <1>3, <1>4, <1>6, <1>7 DEF Client

LEMMA InvStep == Inv /\ [Next]_vars => Inv'
<1> SUFFICES ASSUME Inv, [Next]_vars PROVE Inv'
  OBVIOUS
<1>1. ASSUME NEW c \in Clients, Client(c) PROVE Inv'
  BY <1>1, ClientStep
<1>2. ASSUME NEW c \in Clients, Received(c) PROVE Inv'
  BY <1>2, AddRawEventStep, ForceSyncReceivedStep, ForceFlushReceivedStep, ChangeKeyReceivedStep, CloseReceivedStep,
     DestroyReceivedStep DEF Received
<1>3. CASE Internal
  BY <1>3, DrainStep, SettleStep, OpenNewStep, WriteNewStep, UnlinkPathStep, RenameNewStep, ClosedStep, DestroyNewStep,
     DestroyPathStep DEF Internal
<1>4. CASE TimeoutExpired \/ OpenNewFails \/ Crash
  BY <1>4, TimeoutExpiredStep, OpenNewFailsStep, CrashStep
<1>5. ASSUME NEW k \in DbKeys \cup {None}, Open(k) PROVE Inv'
  BY <1>5, OpenStep
<1>6. CASE Ready
  BY <1>6, ReadyStep
<1>7. CASE UNCHANGED vars
  <2>1. UNCHANGED <<map, nextSeq, up, versions, mail, begin, held, waiting, promises, timer, proc, buf, fdSize, needSync, disk, dbKey, pc, acked>>
    BY <1>7 DEF vars, clientVars, orderVars, logVars
  <2>2. Typed'
    BY <2>1 DEF Inv, Typed, ClientsOK, ActorOK, FilesOK, StateOK
  <2>3. OrderOK' /\ AckOK' /\ RepOK' /\ DiskOK' /\ LabelOK' /\ FreshOK'
    BY <2>1, RepKept, DiskKept DEF Inv, OrderOK, AckOK, LabelOK, FreshOK, Unopened, At
  <2>4. PromiseOK'
    BY <2>1, PromiseKept DEF Inv, Quiet, At
  <2>5. FlightKept
    BY <2>1 DEF FlightKept
  <2>6. ChainOK'
    BY <2>1, <2>5, ChainKept DEF Inv, At
  <2>. QED  BY <2>2, <2>3, <2>4, <2>6 DEF Inv
<1>. QED  BY <1>1, <1>2, <1>3, <1>4, <1>5, <1>6, <1>7 DEF Next

LEMMA InvAlways == Spec => []Inv
<1>1. Init => Inv
  BY InvInit
<1>. QED  BY <1>1, InvStep, PTL DEF Spec

\* Every variable of the store keeps its type, and the actor processes no sequence number
\* that ConcurrentBinlog::next_id did not give out.
THEOREM TypeCorrect == Spec => []TypeOK
<1>1. Inv => TypeOK
  BY TypedTypeOK DEF Inv
<1>. QED  BY <1>1, InvAlways, PTL

\* Binlog::do_event never meets an event that BinlogEventsProcessor refuses: LOG(FATAL) is
\* out of reach, whatever the clients do, wherever the process dies and however much of the
\* file is left.
THEOREM NeverDies == Spec => []NeverFatal
<1>1. Inv => NeverFatal
  BY DEF Inv, LabelOK, NeverFatal, At
<1>. QED  BY <1>1, InvAlways, PTL

\* When the actor has processed all that BinlogKeyValue sent it, its events say what the
\* map of the clients says, with the same event ids.
THEOREM LogIsAlwaysMap == Spec => []LogIsMap
<1>1. ASSUME Inv PROVE LogIsMap
  <2> SUFFICES ASSUME At("idle"), held = {}, \A c \in Clients : mail[c] = <<>> PROVE MapOf(proc) = map
    BY DEF LogIsMap
  <2>1. PICK h : Chain(h)
    BY <1>1 DEF Inv, ChainOK
  <2>2. begin \in 1 .. nextSeq /\ nextSeq \in Nat
    BY <1>1 DEF Inv, Typed, ActorOK, ClientsOK
  <2>3. \A c \in Clients, i \in Nat : ~Mailed(mail, c, i)
    BY DEF Mailed
  <2>4. \A s \in begin .. nextSeq - 1 : FALSE
    BY <1>1, <2>3 DEF Inv, OrderOK, Ordered, Pending
  <2>5. begin = nextSeq
    BY <2>2, <2>4
  <2>. QED  BY <2>1, <2>5 DEF Chain
<1>. QED  BY <1>1, InvAlways, PTL

\* A promise of force_sync or lazy_sync has an armed timer or, if it waits, an event that
\* the actor holds.
THEOREM PromiseAlwaysHasTimer == Spec => []PromiseHasTimer
<1>1. ASSUME Inv PROVE PromiseHasTimer
  <2>1. promises # {} => timer.armed /\ (timer.lazy \/ timer.force)
    BY <1>1 DEF Inv, PromiseOK
  <2>2. timer.lazy \/ timer.force \/ timer.flush => timer.armed
    BY <1>1 DEF Inv, PromiseOK
  <2>3. ASSUME At("idle"), NEW s \in waiting PROVE s >= begin /\ \E m \in held : m.seq >= s
    <3>1. s >= begin /\ (s < begin \/ \E m \in held : m.seq >= s)
      BY <1>1, <2>3 DEF Inv, PromiseOK, Quiet
    <3>2. s \in Int /\ begin \in Int
      BY <1>1, Constants DEF Inv, Typed, ActorOK, ClientsOK
    <3>. QED  BY <3>1, <3>2
  <2>. QED  BY <2>1, <2>2, <2>3 DEF PromiseHasTimer
<1>. QED  BY <1>1, InvAlways, PTL
=============================================================================
