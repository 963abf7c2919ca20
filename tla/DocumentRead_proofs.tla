------------------------ MODULE DocumentRead_proofs ------------------------
(***************************************************************************)
(* The theorems about DocumentRead, for any number of reads, writes and    *)
(* faults.                                                                 *)
(***************************************************************************)
EXTENDS DocumentRead, SequenceTheorems, FunctionTheorems, FiniteSetTheorems, TLAPS

\* A set of natural numbers has a least one.
LEMMA LeastNatural ==
  ASSUME NEW T, T \subseteq Nat, T # {}
  PROVE  \E b \in T : \A y \in T : b <= y
<1> DEFINE Less == { p \in Nat \X Nat : p[1] < p[2] }
<1>1. IsWellFoundedOn(Less, Nat)
  BY NatLessThanWellFounded DEF OpToRel
<1>2. \A m, n \in Nat : m < n => <<m, n>> \in Less
  OBVIOUS
<1> HIDE DEF Less
<1>3. PICK b \in T : \A y \in T : ~ (<<y, b>> \in Less)
  BY <1>1, WFMin
<1>4. \A y \in T : ~ (y < b)
  BY <1>2, <1>3
<1>5. QED
  BY <1>4


(***************************************************************************)
(* Overlay is a recursive function: after[i] is the document with the      *)
(* first i of the own writes made on top of it.  That it exists and is     *)
(* unique comes first.                                                     *)
(***************************************************************************)
After(kinds, value, ids, f, n) ==
  /\ f = [i \in 0 .. n |-> f[i]]
  /\ f[0] = value
  /\ \A i \in 1 .. n : f[i] = AppliedTo(kinds[ids[i]], ids[i], f[i - 1])

\* Another write makes another step.
LEMMA AfterExtended ==
  ASSUME NEW kinds, NEW value, NEW ids, NEW n \in Nat, NEW f, After(kinds, value, ids, f, n)
  PROVE  \E h : After(kinds, value, ids, h, n + 1)
<1> DEFINE last == AppliedTo(kinds[ids[n + 1]], ids[n + 1], f[n])
           h == [i \in 0 .. n + 1 |-> IF i = n + 1 THEN last ELSE f[i]]
<1>1. h = [i \in 0 .. n + 1 |-> h[i]]
  OBVIOUS
<1>2. h[0] = value
  BY DEF After
<1>3. ASSUME NEW i \in 1 .. n + 1 PROVE h[i] = AppliedTo(kinds[ids[i]], ids[i], h[i - 1])
  <2>1. CASE i = n + 1
    <3>1. h[i] = last /\ i - 1 = n /\ n \in 0 .. n + 1 /\ n # n + 1
      BY <2>1
    <3>2. h[n] = f[n]
      BY <3>1
    <3>3. QED
      BY <2>1, <3>1, <3>2
  <2>2. CASE i # n + 1
    <3>1. i \in 1 .. n /\ i \in 0 .. n + 1 /\ i - 1 \in 0 .. n + 1 /\ i - 1 # n + 1
      BY <2>2
    <3>2. h[i] = f[i] /\ h[i - 1] = f[i - 1]
      BY <2>2, <3>1
    <3> HIDE DEF h
    <3>3. f[i] = AppliedTo(kinds[ids[i]], ids[i], f[i - 1])
      BY <3>1 DEF After
    <3>4. QED
      BY <3>1, <3>2, <3>3
  <2>3. QED
    BY <2>1, <2>2
<1> HIDE DEF h
<1>4. QED
  BY <1>1, <1>2, <1>3 DEF After

\* Own writes can be made on top of any document.
LEMMA AfterExists ==
  ASSUME NEW kinds, NEW value, NEW ids, NEW k \in Nat
  PROVE  \E f : After(kinds, value, ids, f, k)
<1> DEFINE T == { n \in Nat : ~ \E f : After(kinds, value, ids, f, n) }
<1> SUFFICES ASSUME T # {} PROVE FALSE
  OBVIOUS
<1>1. PICK n \in T : \A y \in T : n <= y
  <2>1. T \subseteq Nat
    OBVIOUS
  <2> HIDE DEF T
  <2>2. QED
    BY <2>1, LeastNatural
<1>2. n \in Nat /\ ~ \E f : After(kinds, value, ids, f, n)
  BY <1>1
<1>3. n # 0
  <2>1. After(kinds, value, ids, [i \in 0 .. 0 |-> value], 0)
    BY DEF After
  <2>2. QED
    BY <1>2, <2>1
<1>4. PICK b \in Nat : n = b + 1
  <2>1. n - 1 \in Nat /\ n = (n - 1) + 1
    BY <1>2, <1>3
  <2>2. QED
    BY <2>1
<1>5. b \notin T
  BY <1>1, <1>4
<1>6. PICK f : After(kinds, value, ids, f, b)
  BY <1>5
<1>7. QED
  BY <1>2, <1>4, <1>6, AfterExtended

\* In one way only.
LEMMA AfterUnique ==
  ASSUME NEW kinds, NEW value, NEW ids, NEW k \in Nat, NEW g, After(kinds, value, ids, g, k),
         NEW h, After(kinds, value, ids, h, k)
  PROVE  g = h
<1> DEFINE T == { n \in 0 .. k : g[n] # h[n] }
<1>1. T = {}
  <2> SUFFICES ASSUME T # {} PROVE FALSE
    OBVIOUS
  <2>1. PICK n \in T : \A y \in T : n <= y
    <3>1. T \subseteq Nat
      OBVIOUS
    <3> HIDE DEF T
    <3>2. QED
      BY <3>1, LeastNatural
  <2>2. n \in 0 .. k /\ g[n] # h[n] /\ n # 0
    BY <2>1 DEF After
  <2>3. n \in 1 .. k /\ n - 1 \in 0 .. k /\ ~ (n <= n - 1)
    BY <2>2
  <2>4. g[n - 1] = h[n - 1]
    BY <2>1, <2>3
  <2>5. /\ g[n] = AppliedTo(kinds[ids[n]], ids[n], g[n - 1])
        /\ h[n] = AppliedTo(kinds[ids[n]], ids[n], h[n - 1])
    BY <2>3 DEF After
  <2>6. QED
    BY <2>2, <2>4, <2>5
<1>2. g = [i \in 0 .. k |-> g[i]] /\ h = [i \in 0 .. k |-> h[i]]
  BY DEF After
<1>3. \A i \in 0 .. k : g[i] = h[i]
  BY <1>1
<1>4. QED
  BY <1>2, <1>3

\* Where that function ends: what the writes of some kinds make of a document.
Laid(kinds, value, ids) ==
  LET after[i \in 0 .. Len(ids)] ==
        IF i = 0 THEN value ELSE AppliedTo(kinds[ids[i]], ids[i], after[i - 1])
  IN after[Len(ids)]

\* It ends with what the last of them makes of it.
LEMMA LaidAfter ==
  ASSUME NEW kinds, NEW value, NEW ids, Len(ids) \in Nat, NEW f, After(kinds, value, ids, f, Len(ids))
  PROVE  Laid(kinds, value, ids) = f[Len(ids)]
<1> DEFINE n == Len(ids)
           F(h) == [i \in 0 .. n |->
                     IF i = 0 THEN value ELSE AppliedTo(kinds[ids[i]], ids[i], h[i - 1])]
<1>1. f = F(f)
  BY DEF After
<1>2. ASSUME NEW h, h = F(h) PROVE h = f
  <2>1. After(kinds, value, ids, h, n)
    <3>1. h = [i \in 0 .. n |-> h[i]]
      BY <1>2
    <3>2. h[0] = value
      BY <1>2
    <3>3. ASSUME NEW i \in 1 .. n PROVE h[i] = AppliedTo(kinds[ids[i]], ids[i], h[i - 1])
      <4>1. i \in 0 .. n /\ i # 0
        OBVIOUS
      <4>2. h[i] = F(h)[i]
        BY <1>2
      <4> HIDE <1>2
      <4>3. QED
        BY <4>1, <4>2
    <3>4. QED
      BY <3>1, <3>2, <3>3 DEF After
  <2>2. QED
    BY <2>1, AfterUnique
<1>3. Laid(kinds, value, ids) = (CHOOSE h : h = F(h))[n]
  BY Zenon DEF Laid
<1> HIDE DEF F
<1>4. (CHOOSE h : h = F(h)) = f
  BY <1>1, <1>2
<1>5. QED
  BY <1>3, <1>4

\* Overlay does so for the kinds of the own writes.
LEMMA OverlayLaid ==
  ASSUME NEW value, NEW ids
  PROVE  Overlay(value, ids) = Laid(made, value, ids)
BY Zenon DEF Overlay, Laid

\* So it is for the writes of the model.
LEMMA OverlayAfter ==
  ASSUME NEW value, NEW ids, Len(ids) \in Nat, NEW f, After(made, value, ids, f, Len(ids))
  PROVE  Overlay(value, ids) = f[Len(ids)]
BY LaidAfter, OverlayLaid

\* A write makes a value of a value.
LEMMA AppliedToValue ==
  ASSUME NEW kind \in Kinds, NEW id \in (-MaxOthers) .. MaxWrites,
         NEW value \in Values
  PROVE  AppliedTo(kind, id, value) \in Values
<1>1. CASE kind = "set"
  BY <1>1 DEF AppliedTo, Values
<1>2. CASE kind = "update" /\ value = Missing
  BY <1>2 DEF AppliedTo, Values
<1>3. CASE kind = "update" /\ value # Missing
  <2>1. AppliedTo(kind, id, value) = value \cup {id}
    BY <1>3 DEF AppliedTo
  <2>2. QED
    BY <1>3, <2>1 DEF Values
<1>4. QED
  BY <1>1, <1>2, <1>3 DEF Kinds

\* The numbers of own writes are among those in values.
LEMMA OwnWrites ==
  ASSUME made \in Seq(Kinds), Len(made) <= MaxWrites
  PROVE  DOMAIN made \subseteq (-MaxOthers) .. MaxWrites
BY ReadAssumption

\* Own writes made on top of a document give a document.
LEMMA OverlayValue ==
  ASSUME made \in Seq(Kinds), Len(made) <= MaxWrites,
         NEW ids \in Seq(DOMAIN made), NEW value \in Values
  PROVE  Overlay(value, ids) \in Values
<1> DEFINE n == Len(ids)
<1>1. n \in Nat /\ \A i \in 1 .. n : ids[i] \in DOMAIN made
  OBVIOUS
<1>2. PICK f : After(made, value, ids, f, n)
  BY <1>1, AfterExists
<1> DEFINE T == { k \in 0 .. n : f[k] \notin Values }
<1>3. T = {}
  <2> SUFFICES ASSUME T # {} PROVE FALSE
    OBVIOUS
  <2>1. PICK k \in T : \A y \in T : k <= y
    <3>1. T \subseteq Nat
      OBVIOUS
    <3> HIDE DEF T
    <3>2. QED
      BY <3>1, LeastNatural
  <2>2. k \in 0 .. n /\ f[k] \notin Values /\ k # 0
    BY <1>2, <2>1 DEF After
  <2>3. k \in 1 .. n /\ k - 1 \in 0 .. n /\ ~ (k <= k - 1)
    BY <2>2
  <2>4. f[k - 1] \in Values
    BY <2>1, <2>3
  <2>5. f[k] = AppliedTo(made[ids[k]], ids[k], f[k - 1])
    BY <1>2, <2>3 DEF After
  <2>6. ids[k] \in (-MaxOthers) .. MaxWrites /\ made[ids[k]] \in Kinds
    BY <1>1, <2>3, OwnWrites
  <2>7. QED
    BY <2>2, <2>4, <2>5, <2>6, AppliedToValue
<1>4. Overlay(value, ids) = f[n] /\ n \in 0 .. n
  BY <1>1, <1>2, OverlayAfter
<1>5. QED
  BY <1>3, <1>4

\* With no writes it is the document.
LEMMA OverlayOfNone ==
  ASSUME NEW value
  PROVE  Overlay(value, <<>>) = value
<1>1. Len(<<>>) = 0
  OBVIOUS
<1>2. PICK f : After(made, value, <<>>, f, 0)
  BY AfterExists
<1>3. Overlay(value, <<>>) = f[0]
  BY <1>1, <1>2, OverlayAfter
<1>4. QED
  BY <1>2, <1>3 DEF After

-----------------------------------------------------------------------------
\* The members of a finite set of numbers can be put in order.
Ascending(ready, s) ==
  /\ s \in [1 .. Cardinality(ready) -> ready]
  /\ \A i, j \in 1 .. Cardinality(ready) : i < j => s[i] < s[j]

\* A set with one more, larger member has an ascending sequence if it had one.
LEMMA AscendingExtended ==
  ASSUME NEW ready \in SUBSET Nat, IsFiniteSet(ready), NEW g \in Nat, \A m \in ready : m < g,
         NEW s, Ascending(ready, s)
  PROVE  \E t : Ascending(ready \cup {g}, t)
<1> DEFINE n == Cardinality(ready)
           more == ready \cup {g}
           t == [i \in 1 .. n + 1 |-> IF i = n + 1 THEN g ELSE s[i]]
<1>1. g \notin ready
  OBVIOUS
<1>2. n \in Nat /\ Cardinality(more) = n + 1
  BY <1>1, FS_AddElement, FS_CardinalityType
<1>3. s \in [1 .. n -> ready] /\ \A i, j \in 1 .. n : i < j => s[i] < s[j]
  BY DEF Ascending
<1> HIDE DEF n
<1>4. t \in [1 .. n + 1 -> more]
  BY <1>2, <1>3
<1>5. ASSUME NEW i \in 1 .. n + 1, NEW j \in 1 .. n + 1, i < j PROVE t[i] < t[j]
  <2>1. i \in 1 .. n /\ i # n + 1 /\ t[i] = s[i] /\ s[i] \in ready
    BY <1>2, <1>3, <1>5
  <2>2. CASE j = n + 1
    BY <2>1, <2>2
  <2>3. CASE j # n + 1
    <3>1. j \in 1 .. n /\ t[j] = s[j]
      BY <1>2, <2>3
    <3>2. QED
      BY <1>3, <1>5, <2>1, <3>1
  <2>4. QED
    BY <2>2, <2>3
<1> HIDE DEF t
<1>6. Ascending(more, t)
  BY <1>2, <1>4, <1>5 DEF Ascending
<1>7. QED
  BY <1>6

\* Every finite set of numbers has an ascending sequence.
LEMMA AscendingExists ==
  ASSUME NEW limit \in Nat, NEW all \in SUBSET (1 .. limit)
  PROVE  \E s : Ascending(all, s)
<1> DEFINE Below(n) == all \cap (1 .. n)
           T == { n \in Nat : ~ \E s : Ascending(Below(n), s) }
<1>1. T = {}
  <2> SUFFICES ASSUME T # {} PROVE FALSE
    OBVIOUS
  <2>1. PICK n \in T : \A y \in T : n <= y
    <3>1. T \subseteq Nat
      OBVIOUS
    <3> HIDE DEF T
    <3>2. QED
      BY <3>1, LeastNatural
  <2>2. n \in Nat /\ ~ \E s : Ascending(Below(n), s)
    BY <2>1
  <2>3. n # 0
    <3>1. Below(0) = {} /\ Cardinality({}) = 0
      BY FS_EmptySet
    <3>2. Ascending({}, <<>>)
      BY <3>1 DEF Ascending
    <3>3. QED
      BY <2>2, <3>1, <3>2
  <2>4. PICK b \in Nat : n = b + 1
    <3>1. n - 1 \in Nat /\ n = (n - 1) + 1
      BY <2>2, <2>3
    <3>2. QED
      BY <3>1
  <2>5. b \notin T
    <3> HIDE DEF T
    <3>1. QED
      BY <2>1, <2>4
  <2>6. PICK s : Ascending(Below(b), s)
    BY <2>5
  <2>7. Below(b) \in SUBSET Nat /\ IsFiniteSet(Below(b)) /\ \A m \in Below(b) : m < n
    <3>1. IsFiniteSet(1 .. b)
      BY FS_Interval
    <3>2. QED
      BY <2>4, <3>1, FS_Subset
  <2>8. Below(n) = Below(b) \/ Below(n) = Below(b) \cup {n}
    BY <2>4
  <2> HIDE DEF Below
  <2>9. QED
    BY <2>2, <2>6, <2>7, <2>8, AscendingExtended
<1>2. \E s : Ascending(Below(limit), s)
  BY <1>1
<1>3. Below(limit) = all
  OBVIOUS
<1>4. QED
  BY <1>2, <1>3

\* InOrder names every one of the listeners.
LEMMA InOrderProperties ==
  ASSUME NEW limit \in Nat, NEW ready \in SUBSET (1 .. limit)
  PROVE  /\ Cardinality(ready) \in Nat
         /\ InOrder(ready) \in [1 .. Cardinality(ready) -> ready]
         /\ \A r \in ready : \E i \in 1 .. Cardinality(ready) : InOrder(ready)[i] = r
<1> DEFINE n == Cardinality(ready)
           s == InOrder(ready)
<1>1. IsFiniteSet(ready)
  <2>1. IsFiniteSet(1 .. limit)
    BY FS_Interval
  <2>2. QED
    BY <2>1, FS_Subset
<1>2. n \in Nat
  BY <1>1, FS_CardinalityType
<1>3. PICK t : Ascending(ready, t)
  BY AscendingExists
<1>4. s \in [1 .. n -> ready] /\ \A i, j \in 1 .. n : i < j => s[i] < s[j]
  <2>1. t \in [1 .. n -> ready] /\ \A i, j \in 1 .. n : i < j => t[i] < t[j]
    BY <1>3 DEF Ascending
  <2>2. QED
    BY <2>1 DEF InOrder
<1> HIDE DEF s
<1>5. s \in Injection(1 .. n, ready)
  <2>1. ASSUME NEW i \in 1 .. n, NEW j \in 1 .. n, s[i] = s[j] PROVE i = j
    <3>1. s[i] \in ready /\ s[j] \in ready
      BY <1>4
    <3>4. ~ (s[i] < s[j]) /\ ~ (s[j] < s[i])
      <4>1. PICK m \in 1 .. limit : m = s[i]
        BY <3>1
      <4>2. s[j] = m
        BY <2>1, <4>1
      <4>3. QED
        BY <4>1, <4>2
    <3>2. ~ (i < j) /\ ~ (j < i)
      BY <1>4, <3>4
    <3>3. QED
      BY <3>2
  <2>2. QED
    BY <1>4, <2>1 DEF Injection, IsInjective
<1>6. s \in Surjection(1 .. n, ready)
  <2>1. Cardinality(1 .. n) = n
    BY <1>2, FS_Interval
  <2>2. QED
    BY <1>1, <1>5, <2>1, FS_Injection
<1>7. \A r \in ready : \E i \in 1 .. n : s[i] = r
  BY <1>6 DEF Surjection
<1>8. QED
  BY <1>2, <1>4, <1>7 DEF s

\* What GetDocument answers.
States == {"none", "synced", "committed", "local"}
Documented == [value : Values, state : States]

\* The kind of an answer: nothing, or the cache's document, or own writes on it.
DocumentState(doc, entry, rows) ==
  \/ doc.state = "none" /\ doc.value = Missing
  \/ doc.state = "local" /\ doc.value # Missing /\ rows # <<>>
  \/ doc.state = "committed" /\ doc.value = entry.value /\ doc.value # Missing /\ rows = <<>> /\ entry.unsynced
  \/ doc.state = "synced" /\ doc.value = entry.value /\ doc.value # Missing /\ rows = <<>> /\ ~entry.unsynced

\* The cache entry under own writes is a document.
LEMMA GetDocumentValue ==
  ASSUME NEW entry, NEW rows
  PROVE  /\ GetDocument(entry, rows).value = Overlay(entry.value, rows)
         /\ entry.unsynced \in BOOLEAN =>
              DocumentState(GetDocument(entry, rows), entry, rows)
<1> DEFINE value == Overlay(entry.value, rows)
<1>1. GetDocument(entry, rows) =
        [value |-> value,
         state |-> IF value = Missing THEN "none"
                   ELSE IF rows # <<>> THEN "local"
                   ELSE IF entry.unsynced THEN "committed" ELSE "synced"]
  BY Zenon DEF GetDocument
<1> SUFFICES ASSUME entry.unsynced \in BOOLEAN
             PROVE  DocumentState(GetDocument(entry, rows), entry, rows)
  BY <1>1
<1>2. rows = <<>> => value = entry.value
  BY OverlayOfNone
<1> HIDE DEF value
<1> DEFINE doc == GetDocument(entry, rows)
<1>3. CASE value = Missing
  <2>1. doc.value = value /\ doc.state = "none"
    BY <1>1, <1>3
  <2>2. QED
    BY <1>3, <2>1 DEF DocumentState
<1>4. CASE value # Missing /\ rows # <<>>
  <2>1. doc.value = value /\ doc.state = "local"
    BY <1>1, <1>4
  <2>2. QED
    BY <1>4, <2>1 DEF DocumentState
<1>5. CASE value # Missing /\ rows = <<>> /\ entry.unsynced
  <2>1. doc.value = value /\ doc.state = "committed"
    BY <1>1, <1>5
  <2>2. QED
    BY <1>2, <1>5, <2>1 DEF DocumentState
<1>6. CASE value # Missing /\ rows = <<>> /\ ~entry.unsynced
  <2>1. doc.value = value /\ doc.state = "synced"
    BY <1>1, <1>6
  <2>2. QED
    BY <1>2, <1>6, <2>1 DEF DocumentState
<1>7. QED
  BY <1>3, <1>4, <1>5, <1>6

\* With the state that its value and the writes give it.
LEMMA GetDocumentType ==
  ASSUME made \in Seq(Kinds), Len(made) <= MaxWrites,
         NEW rows \in Seq(DOMAIN made), NEW entry, entry.value \in Values
  PROVE  GetDocument(entry, rows) \in Documented
<1> DEFINE value == Overlay(entry.value, rows)
<1>1. value \in Values
  BY OverlayValue
<1>2. GetDocument(entry, rows) =
        [value |-> value,
         state |-> IF value = Missing THEN "none"
                   ELSE IF rows # <<>> THEN "local"
                   ELSE IF entry.unsynced THEN "committed" ELSE "synced"]
  BY Zenon DEF GetDocument
<1> HIDE DEF value
<1>3. QED
  BY <1>1, <1>2 DEF Documented, States

-----------------------------------------------------------------------------
(***************************************************************************)
(* The steps a view is made of, each with the fields it leaves alone.      *)
(***************************************************************************)
SameListen(v, w) ==
  w.open = v.open /\ w.token = v.token /\ w.since = v.since /\ w.synced = v.synced

\* Each step of a view makes a view of a view: its document,
LEMMA WithDocumentType ==
  ASSUME NEW v \in Views, NEW doc \in Documented
  PROVE  /\ WithDocument(v, doc) \in Views /\ SameListen(v, WithDocument(v, doc))
         /\ WithDocument(v, doc).current = v.current
         /\ WithDocument(v, doc).limbo = v.limbo /\ WithDocument(v, doc).sync = v.sync
BY DEF WithDocument, Views, Documented, States, SameListen

\* its sync state and limbo,
LEMMA WithSyncStateType ==
  ASSUME NEW v \in Views
  PROVE  /\ WithSyncState(v) \in Views /\ SameListen(v, WithSyncState(v))
         /\ WithSyncState(v).current = v.current /\ WithSyncState(v).value = v.value
         /\ WithSyncState(v).state = v.state /\ WithSyncState(v).mutated = v.mutated
         /\ ~v.open => WithSyncState(v) = v
<1> DEFINE limbo == IF v.current THEN ~v.synced /\ v.state \in {"committed", "synced"} ELSE v.limbo
           sync == IF v.current /\ ~limbo THEN "synced" ELSE "local"
           w == [v EXCEPT !.limbo = limbo]
           u == [w EXCEPT !.sync = sync]
<1>1. WithSyncState(v) = IF v.open THEN [v EXCEPT !.limbo = limbo, !.sync = sync] ELSE v
  BY Zenon DEF WithSyncState
<1>2. limbo \in BOOLEAN /\ sync \in {"local", "synced"}
  BY DEF Views
<1> HIDE DEF limbo, sync
<1>3. [v EXCEPT !.limbo = limbo, !.sync = sync] = u
  BY DEF Views
<1>4. w \in Views /\ SameListen(v, w) /\ w.current = v.current /\ w.value = v.value
      /\ w.state = v.state /\ w.mutated = v.mutated
  BY <1>2 DEF Views, SameListen
<1>5. u \in Views /\ SameListen(w, u) /\ u.current = w.current /\ u.value = w.value
      /\ u.state = w.state /\ u.mutated = w.mutated
  <2> HIDE DEF w
  <2>1. QED
    BY <1>2, <1>4 DEF Views, SameListen
<1> HIDE DEF u, w
<1>6. CASE v.open
  BY <1>1, <1>3, <1>4, <1>5, <1>6 DEF SameListen
<1>7. CASE ~v.open
  BY <1>1, <1>7 DEF SameListen
<1>8. QED
  BY <1>6, <1>7

\* its target's state,
LEMMA WithTargetChangeType ==
  ASSUME NEW v \in Views, NEW change, change.current \in BOOLEAN
  PROVE  /\ WithTargetChange(v, change) \in Views
         /\ WithTargetChange(v, change).open = v.open
         /\ WithTargetChange(v, change).token = v.token
         /\ WithTargetChange(v, change).since = v.since
         /\ WithTargetChange(v, change).value = v.value
         /\ WithTargetChange(v, change).state = v.state
         /\ WithTargetChange(v, change).mutated = v.mutated
         /\ WithTargetChange(v, change).synced = (v.synced \/ change.documents = "added")
         /\ WithTargetChange(v, change).current = change.current
<1> DEFINE synced == v.synced \/ change.documents = "added"
           w == [v EXCEPT !.synced = synced]
           u == [w EXCEPT !.current = change.current]
<1>1. WithTargetChange(v, change) = [v EXCEPT !.synced = synced, !.current = change.current]
  BY DEF WithTargetChange
<1>2. synced \in BOOLEAN
  BY DEF Views
<1> HIDE DEF synced
<1>3. [v EXCEPT !.synced = synced, !.current = change.current] = u
  BY DEF Views
<1>4. w \in Views /\ w.open = v.open /\ w.token = v.token /\ w.since = v.since
      /\ w.value = v.value /\ w.state = v.state /\ w.mutated = v.mutated /\ w.synced = synced
  BY <1>2 DEF Views
<1>5. u \in Views /\ u.open = w.open /\ u.token = w.token /\ u.since = w.since
      /\ u.value = w.value /\ u.state = w.state /\ u.mutated = w.mutated /\ u.synced = w.synced
      /\ u.current = change.current
  <2> HIDE DEF w
  <2>1. QED
    BY <1>4 DEF Views
<1> HIDE DEF u, w
<1>6. QED
  BY <1>1, <1>3, <1>4, <1>5 DEF synced

\* and what being offline makes of it.
LEMMA WithOnlineStateType ==
  ASSUME NEW v \in Views, NEW online
  PROVE  /\ WithOnlineState(v, online) \in Views /\ SameListen(v, WithOnlineState(v, online))
         /\ WithOnlineState(v, online).value = v.value
         /\ WithOnlineState(v, online).state = v.state
         /\ WithOnlineState(v, online).mutated = v.mutated
         /\ WithOnlineState(v, online).limbo = v.limbo
         /\ WithOnlineState(v, online).current = (v.current /\ online # "offline")
BY DEF WithOnlineState, Views, SameListen

\* No view is a view too, with nothing shown.
LEMMA NoViewType ==
  ASSUME log \in Seq(Values)
  PROVE  NoView \in Views /\ NoSnapshot \in Snapshots
<1>1. 0 \in 0 .. Now /\ Missing \in Values
  <2>1. Now \in Nat
    BY DEF Now
  <2>2. QED
    BY <2>1 DEF Values
<1>2. QED
  BY <1>1 DEF NoView, NoSnapshot, Views, Snapshots

\* What a view shows is a snapshot.
LEMMA SnapshotOfType ==
  ASSUME NEW v \in Views
  PROVE  SnapshotOf(v) \in Snapshots
BY DEF SnapshotOf, Views, Snapshots

-----------------------------------------------------------------------------
\* The events raised: those there were, and one for each of the listeners ready.
Raised(ready, snapshot) ==
  /\ Len(main') >= Len(main)
  /\ \A i \in DOMAIN main : main'[i] = main[i]
  /\ \A i \in DOMAIN main' :
       i \in DOMAIN main \/ (main'[i].snapshot = snapshot /\ main'[i].read \in ready)
  /\ \A r \in ready : \E i \in DOMAIN main' : main'[i].read = r

\* Initial events go to listeners that waited, once each, or to none.
LEMMA RaiseInitialEventsResult ==
  ASSUME reads \in Seq([mine : Nat, after : Nat]), main \in Seq(Events),
         NEW ready, ready \subseteq DOMAIN reads, NEW snapshot \in Snapshots, NEW online,
         RaiseInitialEvents(ready, snapshot, online)
  PROVE  /\ main' \in Seq(Events)
         /\ \/ /\ ready # {} /\ ShouldRaiseInitialEvent(snapshot, online)
               /\ waiting' = {} /\ Raised(ready, snapshot)
            \/ /\ ready = {} \/ ~ShouldRaiseInitialEvent(snapshot, online)
               /\ waiting' = ready /\ main' = main
<1>1. CASE ready # {} /\ ShouldRaiseInitialEvent(snapshot, online)
  <2> DEFINE n == Cardinality(ready)
             order == InOrder(ready)
             more == [i \in 1 .. n |-> [read |-> order[i], snapshot |-> snapshot]]
  <2>1. Len(reads) \in Nat /\ ready \in SUBSET (1 .. Len(reads))
    OBVIOUS
  <2>2. n \in Nat /\ order \in [1 .. n -> ready] /\ \A r \in ready : \E i \in 1 .. n : order[i] = r
    BY <2>1, InOrderProperties
  <2>3. main' = main \o more /\ waiting' = {}
    BY <1>1 DEF RaiseInitialEvents
  <2> HIDE DEF order, n
  <2>4. \A i \in 1 .. n : [read |-> order[i], snapshot |-> snapshot] \in Events
    BY <2>2 DEF Events
  <2>5. more \in Seq(Events) /\ Len(more) = n
    BY <2>2, <2>4
  <2>6. \A i \in 1 .. n : more[i].read = order[i] /\ more[i].snapshot = snapshot
    OBVIOUS
  <2> HIDE DEF more
  <2>7. /\ main' \in Seq(Events) /\ Len(main') = Len(main) + n
        /\ \A i \in 1 .. Len(main) + n :
             main'[i] = IF i <= Len(main) THEN main[i] ELSE more[i - Len(main)]
    BY <2>3, <2>5, ConcatProperties
  <2>8. Len(main) \in Nat /\ DOMAIN main = 1 .. Len(main) /\ DOMAIN main' = 1 .. Len(main) + n
    BY <2>7
  <2>9. \A i \in DOMAIN main : main'[i] = main[i]
    BY <2>2, <2>7, <2>8
  <2>10. ASSUME NEW i \in DOMAIN main', i \notin DOMAIN main
         PROVE  main'[i].snapshot = snapshot /\ main'[i].read \in ready
    <3>1. i - Len(main) \in 1 .. n /\ main'[i] = more[i - Len(main)]
      BY <2>2, <2>7, <2>8, <2>10
    <3>2. PICK k \in 1 .. n : k = i - Len(main)
      BY <3>1
    <3>3. order[k] \in ready
      BY <2>2
    <3>4. QED
      BY <2>6, <3>1, <3>2, <3>3
  <2>11. ASSUME NEW r \in ready PROVE \E i \in DOMAIN main' : main'[i].read = r
    <3>1. PICK i \in 1 .. n : order[i] = r
      BY <2>2
    <3>2. Len(main) + i \in DOMAIN main' /\ (Len(main) + i) - Len(main) = i
          /\ ~ (Len(main) + i <= Len(main)) /\ Len(main) + i \in 1 .. Len(main) + n
      BY <2>2, <2>8, <3>1
    <3>3. main'[Len(main) + i] = more[i]
      BY <2>7, <3>2
    <3>4. QED
      BY <2>6, <3>1, <3>2, <3>3
  <2>12. Len(main') >= Len(main)
    BY <2>2, <2>7, <2>8
  <2>13. QED
    BY <1>1, <2>3, <2>7, <2>9, <2>10, <2>11, <2>12 DEF Raised
<1>2. CASE ready = {} \/ ~ShouldRaiseInitialEvent(snapshot, online)
  BY <1>2 DEF RaiseInitialEvents
<1>3. QED
  BY <1>1, <1>2

\* Publish, with the types of what it leaves.
PublishedSnapshot(v) ==
  LET new == WithSyncState(v)
  IN IF new.sync # view.sync \/ new.value # view.value \/ new.mutated # view.mutated
       THEN SnapshotOf(new) ELSE shown

\* What publishing a view leaves: its sync state, its snapshot, the events.
LEMMA PublishResult ==
  ASSUME AppTypes, ListenTypes, NEW v \in Views, NEW online, Publish(v, online)
  PROVE  /\ view' = WithSyncState(v) /\ view' \in Views
         /\ shown' = PublishedSnapshot(v) /\ shown' \in Snapshots
         /\ main' \in Seq(Events) /\ waiting' \subseteq waiting
         /\ \/ /\ waiting # {} /\ ShouldRaiseInitialEvent(shown', online)
               /\ waiting' = {} /\ Raised(waiting, shown')
            \/ /\ waiting = {} \/ ~ShouldRaiseInitialEvent(shown', online)
               /\ waiting' = waiting /\ main' = main
<1>1. /\ view' = WithSyncState(v) /\ shown' = PublishedSnapshot(v)
      /\ RaiseInitialEvents(waiting, shown', online)
  BY DEF Publish, PublishedSnapshot
<1>2. view' \in Views
  BY <1>1, WithSyncStateType
<1>3. shown' \in Snapshots
  <2>1. SnapshotOf(WithSyncState(v)) \in Snapshots
    BY <1>1, <1>2, SnapshotOfType
  <2>2. QED
    BY <1>1, <2>1 DEF PublishedSnapshot, ListenTypes
<1>4. reads \in Seq([mine : Nat, after : Nat]) /\ main \in Seq(Events) /\ waiting \subseteq DOMAIN reads
  BY DEF AppTypes, ListenTypes
<1>5. QED
  BY <1>1, <1>2, <1>3, <1>4, RaiseInitialEventsResult

(***************************************************************************)
(* The answers the server owes the client are counted: Marked(s) are the   *)
(* messages of s that answer a request.                                    *)
(***************************************************************************)
Owing == {"added", "removed"}
Marked(s) == { i \in DOMAIN s : s[i].kind \in Owing }
Owed == Cardinality(Marked(responses))

\* The answers still owed can be counted,
LEMMA MarkedFinite ==
  ASSUME NEW S, NEW s \in Seq(S)
  PROVE  IsFiniteSet(Marked(s)) /\ Cardinality(Marked(s)) \in Nat
<1>1. Len(s) \in Nat /\ Marked(s) \in SUBSET (1 .. Len(s))
  BY DEF Marked
<1>2. IsFiniteSet(1 .. Len(s))
  BY <1>1, FS_Interval
<1>3. QED
  BY <1>1, <1>2, FS_Subset, FS_CardinalityType

\* there are none in no responses,
LEMMA MarkedNone == Cardinality(Marked(<<>>)) = 0
<1>1. Marked(<<>>) = {}
  BY DEF Marked
<1>2. QED
  BY <1>1, FS_EmptySet

\* one more when the server answers a request,
LEMMA MarkedOneMore ==
  ASSUME NEW S, NEW s \in Seq(S), NEW m \in S
  PROVE  Cardinality(Marked(Append(s, m))) =
           Cardinality(Marked(s)) + (IF m.kind \in Owing THEN 1 ELSE 0)
<1> DEFINE t == Append(s, m)
           n == Len(s)
<1>1. /\ n \in Nat /\ DOMAIN s = 1 .. n /\ DOMAIN t = 1 .. n + 1
      /\ t[n + 1] = m /\ \A i \in 1 .. n : t[i] = s[i]
  OBVIOUS
<1> HIDE DEF t, n
<1>2. n + 1 \notin Marked(s)
  BY <1>1 DEF Marked
<1>3. CASE m.kind \in Owing
  <2>1. Marked(t) = Marked(s) \cup {n + 1}
    <3>1. ASSUME NEW i \in Marked(t) PROVE i \in Marked(s) \cup {n + 1}
      BY <1>1 DEF Marked
    <3>2. ASSUME NEW i \in Marked(s) PROVE i \in Marked(t)
      BY <1>1 DEF Marked
    <3>3. n + 1 \in Marked(t)
      BY <1>1, <1>3 DEF Marked
    <3>4. QED
      BY <3>1, <3>2, <3>3
  <2>2. QED
    BY <1>2, <1>3, <2>1, MarkedFinite, FS_AddElement DEF t
<1>4. CASE m.kind \notin Owing
  <2>1. Marked(t) = Marked(s)
    <3>1. ASSUME NEW i \in Marked(t) PROVE i \in Marked(s)
      BY <1>1, <1>4 DEF Marked
    <3>2. ASSUME NEW i \in Marked(s) PROVE i \in Marked(t)
      BY <1>1 DEF Marked
    <3>3. QED
      BY <3>1, <3>2
  <2>2. QED
    BY <1>4, <2>1, MarkedFinite DEF t
<1>5. QED
  BY <1>3, <1>4

\* and one less when the client reads such an answer.
LEMMA MarkedOneLess ==
  ASSUME NEW S, NEW s \in Seq(S), s # <<>>
  PROVE  Cardinality(Marked(Tail(s))) =
           Cardinality(Marked(s)) - (IF Head(s).kind \in Owing THEN 1 ELSE 0)
<1> DEFINE t == Tail(s)
           n == Len(s)
           rest == Marked(s) \ {1}
<1>1. /\ n \in Nat /\ n # 0 /\ DOMAIN s = 1 .. n /\ Head(s) = s[1] /\ t \in Seq(S)
      /\ DOMAIN t = 1 .. n - 1 /\ \A i \in 1 .. n - 1 : t[i] = s[i + 1]
  BY EmptySeq, HeadTailProperties
<1> HIDE DEF t, n
<1> DEFINE f == [i \in Marked(t) |-> i + 1]
<1>2. f \in Bijection(Marked(t), rest)
  <2>1. ASSUME NEW i \in Marked(t) PROVE f[i] \in rest
    BY <1>1 DEF Marked
  <2>2. \A i, j \in Marked(t) : f[i] = f[j] => i = j
    BY <1>1 DEF Marked
  <2>3. ASSUME NEW k \in rest PROVE \E i \in Marked(t) : f[i] = k
    <3>1. k - 1 \in Marked(t) /\ (k - 1) + 1 = k
      BY <1>1 DEF Marked
    <3>2. QED
      BY <3>1
  <2>4. f \in [Marked(t) -> rest]
    BY <2>1
  <2> HIDE DEF f
  <2>5. QED
    BY <2>2, <2>3, <2>4, Fun_IsBij
<1>3. Cardinality(rest) = Cardinality(Marked(t))
  BY <1>1, <1>2, MarkedFinite, FS_Bijection DEF ExistsBijection
<1>4. 1 \in Marked(s) <=> Head(s).kind \in Owing
  BY <1>1 DEF Marked
<1>5. IsFiniteSet(Marked(s)) /\ Cardinality(Marked(s)) \in Nat
  BY MarkedFinite
<1>6. CASE Head(s).kind \in Owing
  BY <1>3, <1>4, <1>5, <1>6, FS_RemoveElement DEF t
<1>7. CASE Head(s).kind \notin Owing
  <2>1. rest = Marked(s)
    BY <1>4, <1>7
  <2>2. Cardinality(Marked(t)) = Cardinality(Marked(s))
    BY <1>3, <2>1, Zenon
  <2>3. QED
    BY <1>5, <1>7, <2>2 DEF t
<1>8. QED
  BY <1>6, <1>7

-----------------------------------------------------------------------------
\* A longer log has room for what there was.
LEMMA LongerLog ==
  ASSUME log \in Seq(Values), log' \in Seq(Values), Len(log) <= Len(log')
  PROVE  /\ Now \in Nat /\ Now' \in Nat /\ Now <= Now'
         /\ Entries(0) \subseteq Entries(0)' /\ Entries(1) \subseteq Entries(1)'
         /\ Views \subseteq Views' /\ WatchChanges \subseteq WatchChanges'
<1>1. Now \in Nat /\ Now' \in Nat /\ Now <= Now'
  BY DEF Now
<1>2. 0 .. Now \subseteq 0 .. Now' /\ 1 .. Now \subseteq 1 .. Now'
  BY <1>1
<1>3. Entries(0) \subseteq Entries(0)' /\ Entries(1) \subseteq Entries(1)'
  BY <1>2 DEF Entries
<1>4. Views \subseteq Views'
  BY <1>2 DEF Views
<1>5. WatchChanges \subseteq WatchChanges'
  BY <1>2, <1>3 DEF WatchChanges
<1>6. QED
  BY <1>1, <1>3, <1>4, <1>5

\* More calls have room for what there was.
LEMMA MoreCalls ==
  ASSUME DOMAIN reads \subseteq DOMAIN reads', DOMAIN made \subseteq DOMAIN made'
  PROVE  Events \subseteq Events' /\ Tasks \subseteq Tasks'
BY DEF Events, Tasks

Requests == [kind : {"watch"}, token : 0 .. Now] \cup [kind : {"unwatch"}]

\* What was asked under a log can be asked under a longer one.
LEMMA LongerLogRequests ==
  ASSUME log \in Seq(Values), log' \in Seq(Values), Len(log) <= Len(log')
  PROVE  Requests \subseteq Requests'
<1>1. 0 .. Now \subseteq 0 .. Now'
  BY LongerLog
<1>2. QED
  BY <1>1 DEF Requests

-----------------------------------------------------------------------------
(***************************************************************************)
(* The stream: what is on it has its type, an offline stream is empty, and *)
(* the answers outstanding are the requests on it and the answers on it.   *)
(***************************************************************************)
WireTypes ==
  /\ stream \in {"off", "starting", "open"} /\ idle \in BOOLEAN
  /\ requests \in Seq(Requests) /\ responses \in Seq(WatchChanges)
  /\ target \in [outstanding : Nat, current : BOOLEAN, documents : Documents]
  /\ update \in Entries(0) /\ serving \in 0 .. Now

Offline ==
  stream # "open" =>
    /\ target = NewTarget /\ requests = <<>> /\ responses = <<>>
    /\ update = NoEntry /\ serving = 0

Count == target.outstanding = Len(requests) + Owed

WireInv == WireTypes /\ Offline /\ Count

\* The types of the connection, from its parts.
LEMMA TypesOfNet ==
  NetTypes /\ serving \in 0 .. Now <=> tracker \in Trackers /\ WireTypes
BY Zenon DEF NetTypes, WireTypes, Requests

\* No entry is an entry.
LEMMA NoEntryType ==
  ASSUME log \in Seq(Values)
  PROVE  NoEntry \in Entries(0) /\ 0 \in 0 .. Now
<1>1. Now \in Nat
  BY DEF Now
<1>2. QED
  BY <1>1 DEF NoEntry, Entry, Entries, Values

\* What leaves the stream alone.
LEMMA WireSame ==
  ASSUME WireInv, log \in Seq(Values), log' \in Seq(Values), Len(log) <= Len(log'),
         UNCHANGED <<stream, idle, wire, target, update, serving>>
  PROVE  WireInv'
<1>1. /\ Now \in Nat /\ Now' \in Nat /\ Now <= Now'
      /\ Entries(0) \subseteq Entries(0)' /\ WatchChanges \subseteq WatchChanges'
      /\ Requests \subseteq Requests'
  BY LongerLog, LongerLogRequests
<1>2. requests' \in Seq(Requests') /\ responses' \in Seq(WatchChanges')
  BY <1>1, SeqMonotonic DEF WireInv, WireTypes, wire
<1>3. WireTypes'
  BY <1>1, <1>2 DEF WireInv, WireTypes, wire
<1>4. Offline'
  BY DEF WireInv, Offline, wire
<1>5. Count'
  BY DEF WireInv, Count, Owed, wire
<1>6. QED
  BY <1>3, <1>4, <1>5 DEF WireInv

\* A new stream, or none.
LEMMA WireRestarted ==
  ASSUME log' \in Seq(Values), NEW state \in {"off", "starting"}, Restarted(state)
  PROVE  WireInv'
<1>1. NoEntry \in Entries(0)' /\ 0 \in 0 .. Now'
  <2>1. Now' \in Nat
    BY DEF Now
  <2>2. QED
    BY <2>1 DEF NoEntry, Entry, Entries, Values
<1>2. NewTarget \in [outstanding : Nat, current : BOOLEAN, documents : Documents]
  BY DEF NewTarget, Documents
<1>3. WireTypes'
  <2>1. <<>> \in Seq(Requests') /\ <<>> \in Seq(WatchChanges')
    BY EmptySeq
  <2>2. QED
    BY <1>1, <1>2, <2>1 DEF WireTypes, Restarted
<1>4. Offline'
  BY DEF Offline, Restarted
<1>5. Count'
  <2>1. Owed' = 0
    BY MarkedNone DEF Owed, Restarted
  <2>2. Len(requests') = 0 /\ target'.outstanding = 0
    BY DEF Restarted, NewTarget
  <2>3. QED
    BY <2>1, <2>2 DEF Count
<1>6. QED
  BY <1>3, <1>4, <1>5 DEF WireInv

\* A request is sent.
LEMMA WireSend ==
  ASSUME WireInv, log \in Seq(Values), NEW request \in Requests, Send(request),
         stream' = "open", idle' \in BOOLEAN, UNCHANGED <<log, responses, update, serving>>
  PROVE  WireInv' /\ target'.outstanding > 0 /\ target'.documents = target.documents
         /\ target'.current = target.current
<1>1. Requests' = Requests /\ WatchChanges' = WatchChanges /\ Entries(0)' = Entries(0) /\ Now' = Now
  BY DEF Requests, WatchChanges, Entries, Now
<1>2. requests' = Append(requests, request) /\ target' = [target EXCEPT !.outstanding = @ + 1]
  BY DEF Send
<1>3. target \in [outstanding : Nat, current : BOOLEAN, documents : Documents]
  BY DEF WireInv, WireTypes
<1>4. /\ target' \in [outstanding : Nat, current : BOOLEAN, documents : Documents]
      /\ target'.outstanding = target.outstanding + 1
      /\ target'.documents = target.documents /\ target'.current = target.current
  BY <1>2, <1>3
<1>5. requests' \in Seq(Requests) /\ Len(requests') = Len(requests) + 1 /\ Len(requests) \in Nat
  BY <1>2 DEF WireInv, WireTypes
<1>6. WireTypes'
  BY <1>1, <1>4, <1>5 DEF WireInv, WireTypes
<1>7. Count'
  <2>1. Owed' = Owed /\ Owed \in Nat
    BY MarkedFinite DEF Owed, WireInv, WireTypes
  <2>2. QED
    BY <1>4, <1>5, <2>1 DEF WireInv, Count
<1>8. Offline'
  BY DEF Offline
<1>9. target.outstanding \in Nat
  BY <1>3
<1>10. QED
  BY <1>4, <1>6, <1>7, <1>8, <1>9 DEF WireInv

\* The first message, and what is left.
LEMMA FirstMessage ==
  ASSUME WireInv, responses # <<>>
  PROVE  /\ Head(responses) \in WatchChanges /\ Tail(responses) \in Seq(WatchChanges)
         /\ stream = "open"
         /\ Head(responses).kind \in {"added", "removed", "current", "document", "snapshot"}
         /\ Head(responses).kind = "document" => Head(responses).doc \in Entries(1)
         /\ Head(responses).kind = "snapshot" => Head(responses).version \in 1 .. Now
<1>1. responses \in Seq(WatchChanges) /\ stream = "open"
  BY DEF WireInv, WireTypes, Offline
<1>2. Head(responses) \in WatchChanges /\ Tail(responses) \in Seq(WatchChanges)
  BY <1>1, HeadTailProperties
<1>3. QED
  BY <1>1, <1>2 DEF WatchChanges

Targets == [outstanding : Nat, current : BOOLEAN, documents : Documents]

\* An answer that is read was outstanding.
LEMMA AnswersOutstanding ==
  ASSUME WireInv, responses # <<>>
  PROVE  /\ target \in Targets /\ Cardinality(Marked(Tail(responses))) \in Nat /\ Len(requests) \in Nat
         /\ target.outstanding = Len(requests) + Cardinality(Marked(Tail(responses)))
                                 + (IF Head(responses).kind \in Owing THEN 1 ELSE 0)
<1>1. responses \in Seq(WatchChanges) /\ requests \in Seq(Requests) /\ target \in Targets
  BY DEF WireInv, WireTypes, Targets
<1>2. Cardinality(Marked(Tail(responses))) = Owed - (IF Head(responses).kind \in Owing THEN 1 ELSE 0)
  BY <1>1, MarkedOneLess DEF Owed
<1>3. Cardinality(Marked(Tail(responses))) \in Nat /\ Owed \in Nat
  <2>1. Tail(responses) \in Seq(WatchChanges)
    BY <1>1, HeadTailProperties
  <2>2. QED
    BY <1>1, <2>1, MarkedFinite DEF Owed
<1>4. target.outstanding = Len(requests) + Owed /\ Len(requests) \in Nat
  BY <1>1 DEF WireInv, Count
<1>5. QED
  BY <1>1, <1>2, <1>3, <1>4

\* What reading a message leaves on the stream.
LEMMA WireRead ==
  ASSUME WireInv, log \in Seq(Values), responses # <<>>, responses' = Tail(responses),
         UNCHANGED <<log, stream, idle, requests, serving>>,
         target' \in Targets, update' \in Entries(0),
         target'.outstanding =
           target.outstanding - (IF Head(responses).kind \in Owing THEN 1 ELSE 0)
  PROVE  WireInv'
<1>1. Requests' = Requests /\ WatchChanges' = WatchChanges /\ Entries(0)' = Entries(0) /\ Now' = Now
  BY DEF Requests, WatchChanges, Entries, Now
<1>2. Tail(responses) \in Seq(WatchChanges) /\ stream = "open"
  BY FirstMessage
<1>3. WireTypes'
  BY <1>1, <1>2 DEF WireInv, WireTypes, Targets
<1>4. Offline'
  BY <1>2 DEF Offline
<1>5. Count'
  <2>1. Owed' = Cardinality(Marked(Tail(responses)))
    BY DEF Owed
  <2>2. QED
    BY <2>1, AnswersOutstanding DEF Count
<1>6. QED
  BY <1>3, <1>4, <1>5 DEF WireInv

\* What each message but a snapshot does to the target.
LEMMA HandleChangeTarget ==
  ASSUME WireInv, view \in Views, responses # <<>>, Head(responses).kind # "snapshot",
         HandleChange(Head(responses))
  PROVE  /\ target' \in Targets
         /\ target'.outstanding =
              target.outstanding - (IF Head(responses).kind \in Owing THEN 1 ELSE 0)
         /\ target'.documents = "modified" /\ target'.outstanding = 0 /\ view.open =>
              view.synced \/ (target.documents = "modified" /\ target.outstanding = 0)
         /\ update' \in {update, Head(responses).doc}
         /\ update' # update => Head(responses).kind = "document"
<1> DEFINE message == Head(responses)
<1>1. /\ target \in Targets /\ target.outstanding \in Nat
      /\ message.kind \in Owing => target.outstanding >= 1
      /\ message.kind \in {"added", "removed", "current", "document", "snapshot"}
  BY AnswersOutstanding, FirstMessage DEF Targets
<1>2. view.synced \in BOOLEAN /\ view.open \in BOOLEAN
  BY DEF Views
<1>3. update' = IF message.kind = "document" /\ IsActiveTarget(target) THEN message.doc ELSE update
  BY DEF HandleChange
<1>4. CASE message.kind = "added"
  <2> DEFINE t == [target EXCEPT !.outstanding = @ - 1]
  <2>1. target' = ClearPendingChanges(t)
    BY <1>4 DEF HandleChange
  <2>2. t \in Targets /\ t.outstanding = target.outstanding - 1
    BY <1>1, <1>4 DEF Targets, Owing
  <2> HIDE DEF t
  <2>3. QED
    BY <1>3, <1>4, <2>1, <2>2 DEF ClearPendingChanges, Targets, Documents, Owing
<1>5. CASE message.kind = "removed"
  <2>1. target' = IF target.outstanding = 1 THEN NewTarget
                  ELSE [target EXCEPT !.outstanding = @ - 1]
    BY <1>5 DEF HandleChange
  <2>2. CASE target.outstanding = 1
    BY <1>3, <1>5, <2>1, <2>2 DEF NewTarget, Targets, Documents, Owing
  <2>3. CASE target.outstanding # 1
    BY <1>1, <1>3, <1>5, <2>1, <2>3 DEF Targets, Owing
  <2>4. QED
    BY <2>2, <2>3
<1>6. CASE message.kind = "current"
  <2>1. target' = IF IsActiveTarget(target) THEN [target EXCEPT !.current = TRUE] ELSE target
    BY <1>6 DEF HandleChange
  <2>2. target' \in Targets /\ target'.outstanding = target.outstanding
        /\ target'.documents = target.documents
    BY <1>1, <2>1 DEF Targets
  <2>3. message.kind \notin Owing /\ update' = update
    BY <1>3, <1>6 DEF Owing
  <2>4. target.outstanding - 0 = target.outstanding
    BY <1>1
  <2> HIDE DEF message
  <2>5. QED
    BY <2>2, <2>3, <2>4 DEF message
<1>7. CASE message.kind = "document"
  <2>1. target' = IF IsActiveTarget(target)
                    THEN [target EXCEPT !.documents = IF view.synced THEN "modified" ELSE "added"]
                    ELSE target
    BY <1>7 DEF HandleChange
  <2>2. QED
    BY <1>1, <1>2, <1>3, <1>7, <2>1 DEF Targets, Documents, Owing
<1>8. QED
  BY <1>1, <1>4, <1>5, <1>6, <1>7

\* What a snapshot makes of the pending update.
LEMMA DocumentUpdateType ==
  ASSUME update \in Entries(0), NEW version \in 1 .. Now
  PROVE  DocumentUpdate(version) \in Entries(0)
<1>1. Entry(version, Missing, FALSE) \in Entries(0)
  BY DEF Entry, Entries, Values
<1>2. QED
  BY <1>1 DEF DocumentUpdate

-----------------------------------------------------------------------------
(***************************************************************************)
(* The online state.                                                       *)
(***************************************************************************)
TrackerOK(t, state) ==
  /\ t \in Trackers
  /\ t.timer => t.state = "unknown" /\ state # "off"
  /\ t.state = "online" => t.failures = 0

\* The tracker is sound at the start,
LEMMA TrackerReset ==
  ASSUME NEW t, NEW state, NEW online \in {"unknown", "online"}
  PROVE  TrackerOK(UpdateState(t, online), state) /\ TrackerOK(NewTracker, state)
BY ReadAssumption DEF TrackerOK, UpdateState, NewTracker, Trackers

\* when a stream starts,
LEMMA TrackerStarted ==
  ASSUME NEW t, NEW state, TrackerOK(t, state)
  PROVE  TrackerOK(HandleWatchStreamStart(t), "starting")
<1>1. CASE t.failures # 0
  BY <1>1 DEF TrackerOK, HandleWatchStreamStart
<1>2. CASE t.failures = 0
  <2> DEFINE u == [t EXCEPT !.state = "unknown"]
             w == [u EXCEPT !.timer = TRUE]
  <2>1. HandleWatchStreamStart(t) = w
    BY <1>2 DEF HandleWatchStreamStart, TrackerOK, Trackers
  <2>2. u \in Trackers /\ u.state = "unknown"
    BY DEF TrackerOK, Trackers
  <2> HIDE DEF u
  <2>3. w \in Trackers /\ w.state = "unknown"
    BY <2>2 DEF Trackers
  <2>4. QED
    BY <2>1, <2>3 DEF TrackerOK
<1>3. QED
  BY <1>1, <1>2

\* and when an attempt fails.
LEMMA TrackerFailed ==
  ASSUME NEW t, NEW state, TrackerOK(t, state)
  PROVE  TrackerOK(HandleWatchStreamFailure(t), "starting")
<1>1. t \in Trackers /\ t.failures \in Nat /\ kMaxWatchStreamFailures \in Nat
  BY ReadAssumption DEF TrackerOK, Trackers
<1>2. CASE t.state = "online"
  <2>1. HandleWatchStreamFailure(t) = [t EXCEPT !.state = "unknown"]
    BY <1>2 DEF HandleWatchStreamFailure
  <2>2. QED
    BY <1>2, <2>1 DEF TrackerOK, Trackers
<1>3. CASE t.state # "online" /\ t.failures + 1 >= kMaxWatchStreamFailures
  <2>1. HandleWatchStreamFailure(t) =
          [state |-> "offline", failures |-> kMaxWatchStreamFailures, timer |-> FALSE]
    BY <1>3 DEF HandleWatchStreamFailure
  <2>2. QED
    BY <1>1, <2>1 DEF TrackerOK, Trackers
<1>4. CASE t.state # "online" /\ ~ (t.failures + 1 >= kMaxWatchStreamFailures)
  <2>1. HandleWatchStreamFailure(t) = [t EXCEPT !.failures = @ + 1]
    BY <1>4 DEF HandleWatchStreamFailure
  <2>2. t.failures + 1 \in 0 .. kMaxWatchStreamFailures
    BY <1>1, <1>4
  <2>3. QED
    BY <1>4, <2>1, <2>2 DEF TrackerOK, Trackers
<1>5. QED
  BY <1>2, <1>3, <1>4

(***************************************************************************)
(* The types, and what the HARD_ASSERTs rest on.                           *)
(***************************************************************************)
Open ==
  /\ view.open <=> listeners # {}
  /\ view.open => stream # "off"
  /\ ~view.open => view = NoView /\ shown = NoSnapshot

Asserted ==
  /\ TrackerOK(tracker, stream)
  /\ idle => stream = "open" /\ ~view.open
  /\ IsActiveTarget(target) /\ target.documents = "modified" => view.synced

Typed ==
  /\ ServerTypes /\ AppTypes /\ DiskTypes /\ ListenTypes /\ faults \in 0 .. MaxFaults
  /\ WireInv /\ Open /\ Asserted

Results == [ok : BOOLEAN, version : 1 .. Now]

\* What a type is made of does not change while the log and the calls do not.
LEMMA SameSets ==
  ASSUME UNCHANGED <<log, made, reads>>
  PROVE  /\ Now' = Now /\ Views' = Views /\ Events' = Events /\ Tasks' = Tasks
         /\ Entries(0)' = Entries(0) /\ Entries(1)' = Entries(1)
         /\ WatchChanges' = WatchChanges /\ Results' = Results
BY DEF Now, Views, Events, Tasks, Entries, WatchChanges, Results

\* The document now is a document.
LEMMA LogType ==
  ASSUME ServerTypes
  PROVE  log \in Seq(Values) /\ Now \in Nat /\ Now = Len(log) /\ Now >= 1
<1>1. log \in Seq(Values) /\ log # <<>> /\ Now = Len(log)
  BY DEF ServerTypes, Now
<1>2. QED
  BY <1>1, EmptySeq

\* Parts of the types that steps keep.
LEMMA ServerKept ==
  ASSUME ServerTypes, UNCHANGED <<log, committedAt>>, serving' \in 0 .. Now,
         dropped' \subseteq DOMAIN made', results' \in Seq(Results), Len(results') <= Len(queue')
  PROVE  ServerTypes'
BY DEF ServerTypes, Now, Results

\* A step that leaves the app's state alone keeps its types,
LEMMA AppKept ==
  ASSUME AppTypes, UNCHANGED <<made, reads, gone>>,
         answers' \in Seq(Events), tasks' \in Seq(Tasks), main' \in Seq(Events)
  PROVE  AppTypes'
<1>1. Events' = Events /\ Tasks' = Tasks
  BY DEF Events, Tasks
<1>2. QED
  BY <1>1 DEF AppTypes

\* so does one that leaves LevelDB alone,
LEMMA DiskKept ==
  ASSUME DiskTypes, UNCHANGED <<log, made>>, queue' \in Seq(DOMAIN made),
         cache' \in Entries(0), saved' \in [token : 0 .. Now, has : BOOLEAN]
  PROVE  DiskTypes'
BY DEF DiskTypes, Entries, Now

\* or the view and its listeners.
LEMMA ListenKept ==
  ASSUME ListenTypes, UNCHANGED <<log, reads>>, view' \in Views, shown' \in Snapshots,
         waiting' \subseteq listeners', listeners' \subseteq DOMAIN reads
  PROVE  ListenTypes'
BY DEF ListenTypes, Views, Now

\* Another fault stays within the bound.
LEMMA FaultCounted ==
  ASSUME NEW kind, Fault(kind), faults \in 0 .. MaxFaults
  PROVE  faults' \in 0 .. MaxFaults
<1>1. faults < MaxFaults /\ faults' = faults + 1
  BY DEF Fault
<1>2. QED
  BY <1>1, ReadAssumption

\* A listen that stays as it is.
LEMMA ListenSame ==
  ASSUME Open, Asserted, UNCHANGED <<view, shown, listeners, stream, tracker, idle, target>>
  PROVE  Open' /\ Asserted'
<1>1. Open'
  BY DEF Open
<1>2. Asserted'
  BY Zenon DEF Asserted, IsActiveTarget
<1>3. QED
  BY <1>1, <1>2

-----------------------------------------------------------------------------
(* The app's calls.                                                        *)

\* A call of getDocument keeps the invariant.
LEMMA GetDocumentTyped ==
  ASSUME Typed, getDocument
  PROVE  Typed'
<1>1. /\ reads' = Append(reads, [mine |-> Len(made), after |-> Len(answers)])
      /\ tasks' = Append(tasks, [kind |-> "listen", read |-> Len(reads) + 1])
      /\ Len(reads) < MaxReads
      /\ UNCHANGED <<log, serving, committedAt, dropped, made, gone, answers, main, queue,
                     cache, saved, view, shown, listeners, waiting, tracker, stream, idle,
                     requests, responses, target, update, results, faults>>
  BY DEF getDocument, server, disk, listening, net, wire
<1>2. /\ reads \in Seq([mine : Nat, after : Nat]) /\ Len(made) \in Nat /\ Len(answers) \in Nat
      /\ Len(reads) \in Nat
  BY DEF Typed, AppTypes
<1>3. /\ reads' \in Seq([mine : Nat, after : Nat]) /\ Len(reads') = Len(reads) + 1
      /\ DOMAIN reads \subseteq DOMAIN reads' /\ Len(reads) + 1 \in DOMAIN reads'
      /\ Len(reads') <= MaxReads
  <2> DEFINE call == [mine |-> Len(made), after |-> Len(answers)]
  <2>1. call \in [mine : Nat, after : Nat]
    BY <1>2
  <2>2. reads' = Append(reads, call)
    BY <1>1
  <2> HIDE DEF call
  <2>3. QED
    BY <1>1, <1>2, <2>1, <2>2, ReadAssumption
<1>4. Events \subseteq Events' /\ Tasks \subseteq Tasks'
  BY <1>1, <1>3, MoreCalls
<1>5. tasks' \in Seq(Tasks')
  <2>1. [kind |-> "listen", read |-> Len(reads) + 1] \in Tasks'
    BY <1>3 DEF Tasks
  <2>2. tasks \in Seq(Tasks')
    BY <1>4, SeqMonotonic DEF Typed, AppTypes
  <2>3. QED
    BY <1>1, <2>1, <2>2, AppendProperties
<1>6. AppTypes'
  <2>1. answers' \in Seq(Events') /\ main' \in Seq(Events')
    BY <1>1, <1>4, SeqMonotonic DEF Typed, AppTypes
  <2>2. gone' \in 0 .. Len(reads')
    BY <1>1, <1>2, <1>3 DEF Typed, AppTypes
  <2>3. QED
    BY <1>1, <1>3, <1>5, <2>1, <2>2 DEF Typed, AppTypes
<1>7. Views' = Views /\ Now' = Now /\ Entries(0)' = Entries(0)
  BY <1>1 DEF Views, Now, Entries
<1>8. ServerTypes' /\ DiskTypes'
  BY <1>1, <1>7 DEF Typed, ServerTypes, DiskTypes
<1>9. ListenTypes'
  BY <1>1, <1>3, <1>7 DEF Typed, ListenTypes
<1>10. WireInv'
  BY <1>1, WireSame, LogType DEF Typed, wire
<1>11. Open' /\ Asserted'
  BY <1>1, ListenSame DEF Typed
<1>12. QED
  BY <1>1, <1>6, <1>8, <1>9, <1>10, <1>11 DEF Typed

\* So does a call of setData or updateData,
LEMMA WriteDataTyped ==
  ASSUME Typed, NEW kind \in Kinds, WriteData(kind)
  PROVE  Typed'
<1>1. /\ made' = Append(made, kind) /\ Len(made) < MaxWrites
      /\ tasks' = Append(tasks, [kind |-> "write", write |-> Len(made) + 1])
      /\ UNCHANGED <<log, serving, committedAt, dropped, reads, gone, answers, main, queue,
                     cache, saved, view, shown, listeners, waiting, tracker, stream, idle,
                     requests, responses, target, update, results, faults>>
  BY DEF WriteData, server, disk, listening, net, wire
<1>2. made \in Seq(Kinds) /\ Len(made) \in Nat
  BY DEF Typed, AppTypes
<1>3. /\ made' \in Seq(Kinds) /\ Len(made') <= MaxWrites
      /\ DOMAIN made \subseteq DOMAIN made' /\ Len(made) + 1 \in DOMAIN made'
  BY <1>1, <1>2, ReadAssumption
<1>4. Events' = Events /\ Tasks \subseteq Tasks'
  BY <1>1, <1>3, MoreCalls DEF Events
<1>5. tasks' \in Seq(Tasks')
  <2>1. [kind |-> "write", write |-> Len(made) + 1] \in Tasks'
    BY <1>3 DEF Tasks
  <2>2. tasks \in Seq(Tasks')
    BY <1>4, SeqMonotonic DEF Typed, AppTypes
  <2>3. QED
    BY <1>1, <2>1, <2>2, AppendProperties
<1>6. AppTypes'
  BY <1>1, <1>3, <1>4, <1>5 DEF Typed, AppTypes
<1>7. Views' = Views /\ Now' = Now /\ Entries(0)' = Entries(0)
  BY <1>1 DEF Views, Now, Entries
<1>8. ServerTypes'
  BY <1>1, <1>3, <1>7 DEF Typed, ServerTypes
<1>9. DiskTypes'
  <2>1. queue' \in Seq(DOMAIN made')
    BY <1>1, <1>3, SeqMonotonic DEF Typed, DiskTypes
  <2>2. QED
    BY <1>1, <1>7, <2>1 DEF Typed, DiskTypes
<1>10. ListenTypes'
  BY <1>1, <1>7 DEF Typed, ListenTypes
<1>11. WireInv'
  BY <1>1, WireSame, LogType DEF Typed, wire
<1>12. Open' /\ Asserted'
  BY <1>1, ListenSame DEF Typed
<1>13. QED
  BY <1>1, <1>6, <1>8, <1>9, <1>10, <1>11, <1>12 DEF Typed

\* and the event a read is answered with.
LEMMA OnEventTyped ==
  ASSUME Typed, OnEvent
  PROVE  Typed'
<1>1. /\ main # <<>> /\ main' = Tail(main)
      /\ tasks' = Append(tasks, [kind |-> "remove", read |-> Head(main).read])
      /\ answers' = Append(answers, Head(main))
      /\ UNCHANGED <<log, serving, committedAt, dropped, made, reads, gone, queue,
                     cache, saved, view, shown, listeners, waiting, tracker, stream, idle,
                     requests, responses, target, update, results, faults>>
  BY DEF OnEvent, server, app, disk, listening, net, wire
<1>2. main \in Seq(Events) /\ answers \in Seq(Events) /\ tasks \in Seq(Tasks)
  BY DEF Typed, AppTypes
<1>3. Head(main) \in Events /\ main' \in Seq(Events)
  BY <1>1, <1>2, HeadTailProperties
<1>4. [kind |-> "remove", read |-> Head(main).read] \in Tasks
  BY <1>3 DEF Events, Tasks
<1>5. answers' \in Seq(Events) /\ tasks' \in Seq(Tasks)
  BY <1>1, <1>2, <1>3, <1>4, AppendProperties
<1>6. AppTypes'
  BY <1>1, <1>3, <1>5, AppKept DEF Typed
<1>7. Views' = Views /\ Now' = Now /\ Entries(0)' = Entries(0)
  BY <1>1 DEF Views, Now, Entries
<1>8. ServerTypes' /\ DiskTypes' /\ ListenTypes'
  BY <1>1, <1>7 DEF Typed, ServerTypes, DiskTypes, ListenTypes
<1>9. WireInv'
  BY <1>1, WireSame, LogType DEF Typed, wire
<1>10. Open' /\ Asserted'
  BY <1>1, ListenSame DEF Typed
<1>11. QED
  BY <1>1, <1>6, <1>8, <1>9, <1>10 DEF Typed

(* The worker queue's tasks. *)

\* The first task is a task, and so are those left.
LEMMA FirstTask ==
  ASSUME AppTypes, tasks # <<>>
  PROVE  /\ Head(tasks) \in Tasks /\ Tail(tasks) \in Seq(Tasks)
         /\ Head(tasks).kind \in {"listen", "remove", "write"}
         /\ Head(tasks).kind \in {"listen", "remove"} => Head(tasks).read \in DOMAIN reads
         /\ Head(tasks).kind = "write" => Head(tasks).write \in DOMAIN made
<1>1. Head(tasks) \in Tasks /\ Tail(tasks) \in Seq(Tasks)
  BY HeadTailProperties DEF AppTypes
<1>2. QED
  BY <1>1 DEF Tasks

\* What no task changes.
TaskKept == UNCHANGED <<log, committedAt, dropped, made, reads, gone, answers, cache, results, faults>>

\* The three kinds of task the worker runs.
LEMMA RunTaskCases ==
  ASSUME RunTask
  PROVE  /\ tasks # <<>> /\ tasks' = Tail(tasks) /\ TaskKept
         /\ Head(tasks).kind = "listen" => AddQueryListener(Head(tasks).read)
         /\ Head(tasks).kind = "remove" => RemoveQueryListener(Head(tasks).read)
         /\ Head(tasks).kind = "write" => WriteMutations(Head(tasks).write)
<1>1. tasks # <<>> /\ tasks' = Tail(tasks) /\ TaskKept
  BY DEF RunTask, TaskKept, app
<1>2. (CASE Head(tasks).kind = "listen" -> AddQueryListener(Head(tasks).read)
         [] Head(tasks).kind = "remove" -> RemoveQueryListener(Head(tasks).read)
         [] Head(tasks).kind = "write"  -> WriteMutations(Head(tasks).write))
  BY Zenon DEF RunTask
<1>3. QED
  BY <1>1, <1>2

\* What the types need of a worker's step.
LEMMA WorkerTyped ==
  ASSUME Typed, UNCHANGED <<log, committedAt, dropped, made, reads, gone, answers>>,
         faults' \in 0 .. MaxFaults,
         tasks' \in Seq(Tasks), main' \in Seq(Events), results' \in Seq(Results),
         Len(results') <= Len(queue'), queue' \in Seq(DOMAIN made), cache' \in Entries(0),
         saved' \in [token : 0 .. Now, has : BOOLEAN], view' \in Views, shown' \in Snapshots,
         waiting' \subseteq listeners', listeners' \subseteq DOMAIN reads,
         WireInv', Open', Asserted'
  PROVE  Typed'
<1>1. serving' \in 0 .. Now
  BY DEF WireInv, WireTypes, Now
<1>2. ServerTypes'
  BY <1>1, ServerKept DEF Typed, ServerTypes
<1>3. AppTypes'
  BY AppKept DEF Typed, AppTypes
<1>4. DiskTypes' /\ ListenTypes'
  BY DiskKept, ListenKept DEF Typed
<1>5. QED
  BY <1>2, <1>3, <1>4 DEF Typed

\* The invariant, with the sets of its types spelled out.
LEMMA TypedFacts ==
  ASSUME Typed
  PROVE  /\ log \in Seq(Values) /\ Now \in Nat /\ Now >= 1
         /\ made \in Seq(Kinds) /\ Len(made) <= MaxWrites
         /\ reads \in Seq([mine : Nat, after : Nat])
         /\ tasks \in Seq(Tasks) /\ main \in Seq(Events) /\ answers \in Seq(Events)
         /\ results \in Seq(Results) /\ Len(results) <= Len(queue)
         /\ queue \in Seq(DOMAIN made) /\ cache \in Entries(0)
         /\ saved \in [token : 0 .. Now, has : BOOLEAN]
         /\ view \in Views /\ shown \in Snapshots
         /\ waiting \subseteq listeners /\ listeners \subseteq DOMAIN reads
         /\ faults \in 0 .. MaxFaults /\ dropped \subseteq DOMAIN made
         /\ WireInv /\ Open /\ Asserted
<1>1. log \in Seq(Values) /\ Now \in Nat /\ Now >= 1
  BY LogType DEF Typed
<1>2. QED
  BY <1>1 DEF Typed, ServerTypes, AppTypes, DiskTypes, ListenTypes, Results

\* The first view of a query that is listened to.
LEMMA InitialViewType ==
  ASSUME Typed
  PROVE  /\ InitialView \in Views /\ InitialView.open /\ ~InitialView.current
         /\ InitialView.token = saved.token /\ InitialView.since = Now
         /\ InitialView.synced = saved.has /\ ~InitialView.limbo /\ InitialView.sync = "none"
<1> DEFINE v1 == [NoView EXCEPT !.open = TRUE]
           v2 == [v1 EXCEPT !.synced = saved.has]
           v3 == [v2 EXCEPT !.token = saved.token]
           v4 == [v3 EXCEPT !.since = Len(log)]
           doc == GetDocument(cache, queue)
<1>1. /\ NoView \in Views /\ Len(log) \in 0 .. Now /\ Now = Len(log)
      /\ saved.token \in 0 .. Now /\ saved.has \in BOOLEAN
  <2>1. Now = Len(log) /\ Now \in Nat /\ log \in Seq(Values)
    BY TypedFacts DEF Now
  <2>2. QED
    BY <2>1, NoViewType, TypedFacts
<1>2. InitialView = WithDocument(v4, doc)
  <2>1. v4 = [NoView EXCEPT !.open = TRUE, !.synced = saved.has, !.token = saved.token,
                            !.since = Len(log)]
    BY DEF NoView
  <2> HIDE DEF v4
  <2>2. QED
    BY <2>1 DEF InitialView
<1>3. v1 \in Views /\ v1.open /\ ~v1.current /\ ~v1.limbo /\ v1.sync = "none"
  BY <1>1 DEF NoView, Views
<1>4. v2 \in Views /\ v2.open /\ ~v2.current /\ v2.synced = saved.has /\ ~v2.limbo /\ v2.sync = "none"
  <2> HIDE DEF v1
  <2>1. QED
    BY <1>1, <1>3 DEF Views
<1>5. /\ v3 \in Views /\ v3.open /\ ~v3.current /\ v3.synced = saved.has /\ v3.token = saved.token
      /\ ~v3.limbo /\ v3.sync = "none"
  <2> HIDE DEF v2
  <2>1. QED
    BY <1>1, <1>4 DEF Views
<1>6. /\ v4 \in Views /\ v4.open /\ ~v4.current /\ v4.synced = saved.has /\ v4.token = saved.token
      /\ v4.since = Now /\ ~v4.limbo /\ v4.sync = "none"
  <2> HIDE DEF v3
  <2>1. QED
    BY <1>1, <1>5 DEF Views
<1>7. doc \in Documented
  BY TypedFacts, GetDocumentType DEF Entries
<1> HIDE DEF v4, doc
<1>8. QED
  BY <1>2, <1>6, <1>7, WithDocumentType DEF SameListen

\* A listener that is added keeps the invariant,
LEMMA ListenTyped ==
  ASSUME Typed, tasks # <<>>, tasks' = Tail(tasks), TaskKept,
         NEW r \in DOMAIN reads, AddQueryListener(r)
  PROVE  Typed'
<1>1. /\ listeners' = listeners \cup {r} /\ UNCHANGED <<queue, saved>>
      /\ tasks' \in Seq(Tasks)
      /\ UNCHANGED <<log, committedAt, dropped, made, reads, gone, answers, cache, results, faults>>
  BY FirstTask DEF AddQueryListener, TaskKept, Typed
<1>2. listeners' \subseteq DOMAIN reads /\ listeners' # {}
  BY <1>1, TypedFacts
<1>3. CASE view.open
  <2>1. /\ RaiseInitialEvents(waiting \cup {r}, shown, tracker.state)
        /\ UNCHANGED <<view, shown, tracker, stream, idle, requests, responses, target, update, serving>>
    BY <1>3 DEF AddQueryListener, net, wire
  <2>2. main' \in Seq(Events) /\ waiting' \subseteq listeners'
    <3>1. waiting \cup {r} \subseteq DOMAIN reads
      BY TypedFacts
    <3>2. /\ reads \in Seq([mine : Nat, after : Nat]) /\ main \in Seq(Events) /\ shown \in Snapshots
          /\ waiting \subseteq listeners
      BY TypedFacts
    <3>3. main' \in Seq(Events) /\ (waiting' = {} \/ waiting' = waiting \cup {r})
      BY <2>1, <3>1, <3>2, RaiseInitialEventsResult
    <3>4. QED
      BY <1>1, <3>2, <3>3
  <2>3. WireInv'
    BY <1>1, <2>1, TypedFacts, WireSame DEF wire
  <2>4. Open'
    BY <1>2, <1>3, <2>1, TypedFacts DEF Open
  <2>5. Asserted'
    BY Zenon, <2>1, TypedFacts DEF Asserted, IsActiveTarget
  <2>6. QED
    BY <1>1, <1>2, <2>1, <2>2, <2>3, <2>4, <2>5, WorkerTyped, TypedFacts
<1>4. CASE ~view.open
  <2>1. /\ view' = WithSyncState(InitialView) /\ shown' = SnapshotOf(view')
        /\ RaiseInitialEvents({r}, shown', tracker.state)
        /\ RemoteListen(view')
    BY <1>4 DEF AddQueryListener
  <2>2. /\ view' \in Views /\ view'.open /\ shown' \in Snapshots
        /\ view'.token \in 0 .. Now
    <3>1. view' \in Views /\ view'.open
      BY <2>1, InitialViewType, WithSyncStateType DEF SameListen
    <3>2. QED
      BY <2>1, <3>1, SnapshotOfType DEF Views
  <2>3. main' \in Seq(Events) /\ waiting' \subseteq listeners'
    <3>1. {r} \subseteq DOMAIN reads
      OBVIOUS
    <3>2. QED
      BY <1>1, <2>1, <2>2, <3>1, TypedFacts, RaiseInitialEventsResult
  <2>4. WireInv' /\ stream' # "off" /\ Asserted'
    <3>1. stream \in {"off", "starting", "open"} /\ TrackerOK(tracker, stream)
      BY TypedFacts DEF WireInv, WireTypes, Asserted
    <3>2. CASE stream = "off"
      <4>1. Restarted("starting") /\ tracker' = HandleWatchStreamStart(tracker)
        BY <2>1, <3>2 DEF RemoteListen
      <4>2. WireInv'
        BY <1>1, <4>1, TypedFacts, WireRestarted
      <4>3. stream' = "starting" /\ ~idle' /\ target' = NewTarget
        BY <4>1 DEF Restarted
      <4>4. TrackerOK(tracker', "starting")
        BY <3>1, <4>1, TrackerStarted
      <4>5. QED
        BY <4>2, <4>3, <4>4 DEF Asserted, NewTarget
    <3>3. CASE stream = "starting"
      <4>1. UNCHANGED <<tracker, stream, idle, requests, responses, target, update, serving>>
        BY <2>1, <3>3 DEF RemoteListen, net, wire
      <4>2. WireInv'
        BY <1>1, <4>1, TypedFacts, WireSame DEF wire
      <4>3. ~idle /\ target = NewTarget
        BY <3>3, TypedFacts DEF Asserted, WireInv, Offline
      <4>4. QED
        BY <3>1, <3>3, <4>1, <4>2, <4>3 DEF Asserted, NewTarget
    <3>4. CASE stream = "open"
      <4>1. Send(Watch(view')) /\ idle' = FALSE /\ UNCHANGED <<tracker, stream, responses, update, serving>>
        BY <2>1, <3>4 DEF RemoteListen
      <4>2. Watch(view') \in Requests
        BY <2>2 DEF Watch, Requests
      <4>3. WireInv' /\ target'.outstanding > 0
        BY <1>1, <3>4, <4>1, <4>2, TypedFacts, WireSend
      <4>4. Asserted'
        <5>1. ~ IsActiveTarget(target)'
          BY <4>3 DEF IsActiveTarget
        <5>2. QED
          BY <3>1, <3>4, <4>1, <5>1 DEF Asserted
      <4>5. QED
        BY <3>4, <4>1, <4>3, <4>4
    <3>5. QED
      BY <3>1, <3>2, <3>3, <3>4
  <2>5. Open'
    BY <1>2, <2>2, <2>4 DEF Open
  <2>6. QED
    BY <1>1, <1>2, <2>2, <2>3, <2>4, <2>5, WorkerTyped, TypedFacts
<1>5. QED
  BY <1>3, <1>4

\* one that is removed,
LEMMA RemoveTyped ==
  ASSUME Typed, tasks # <<>>, tasks' = Tail(tasks), TaskKept,
         NEW r, RemoveQueryListener(r)
  PROVE  Typed'
<1>1. /\ listeners' = listeners \ {r} /\ waiting' = waiting \ {r} /\ UNCHANGED <<queue, main, serving>>
      /\ tasks' \in Seq(Tasks)
      /\ UNCHANGED <<log, committedAt, dropped, made, reads, gone, answers, cache, results, faults>>
  BY FirstTask DEF RemoveQueryListener, TaskKept, Typed
<1>2. listeners' \subseteq DOMAIN reads /\ waiting' \subseteq listeners'
  BY <1>1, TypedFacts
<1>3. CASE ~view.open \/ listeners' # {}
  <2>1. UNCHANGED <<view, shown, saved, tracker, stream, idle, requests, responses, target, update>>
    BY <1>3 DEF RemoveQueryListener, net, wire
  <2>2. WireInv'
    BY <1>1, <2>1, TypedFacts, WireSame DEF wire
  <2>3. Open'
    BY <1>1, <1>3, <2>1, TypedFacts DEF Open
  <2>4. Asserted'
    BY Zenon, <2>1, TypedFacts DEF Asserted, IsActiveTarget
  <2>5. QED
    BY <1>1, <1>2, <2>1, <2>2, <2>3, <2>4, WorkerTyped, TypedFacts
<1>4. CASE view.open /\ listeners' = {}
  <2>1. /\ view' = NoView /\ shown' = NoSnapshot /\ saved' = [saved EXCEPT !.token = view.token]
        /\ RemoteStopListening
    BY <1>4 DEF RemoveQueryListener
  <2>2. view' \in Views /\ shown' \in Snapshots /\ saved' \in [token : 0 .. Now, has : BOOLEAN]
    BY <2>1, NoViewType, TypedFacts DEF Views
  <2>3. ~view'.open
    BY <2>1 DEF NoView
  <2>4. Open'
    BY <1>4, <2>1, <2>3 DEF Open
  <2>5. TrackerOK(tracker, stream) /\ (idle => stream = "open")
    BY TypedFacts DEF Asserted
  <2>6. WireInv' /\ Asserted'
    <3>1. CASE stream = "open"
      <4>1. Send(Unwatch) /\ idle' = TRUE /\ UNCHANGED <<tracker, stream, responses, update>>
        BY <2>1, <3>1 DEF RemoteStopListening
      <4>2. Unwatch \in Requests
        BY DEF Unwatch, Requests
      <4>3. WireInv'
        BY <1>1, <3>1, <4>1, <4>2, TypedFacts, WireSend
      <4>4. QED
        BY <2>3, <2>5, <3>1, <4>1, <4>3 DEF Asserted, IsActiveTarget
    <3>2. CASE stream # "open"
      <4>1. tracker' = UpdateState(tracker, "unknown")
            /\ UNCHANGED <<stream, idle, requests, responses, target, update>>
        BY <2>1, <3>2 DEF RemoteStopListening, wire
      <4>2. WireInv'
        BY <1>1, <4>1, TypedFacts, WireSame DEF wire
      <4>3. TrackerOK(tracker', stream')
        BY <4>1, TrackerReset
      <4>4. QED
        BY <2>3, <2>5, <3>2, <4>1, <4>2, <4>3 DEF Asserted, IsActiveTarget
    <3>3. QED
      BY <3>1, <3>2
  <2>7. QED
    BY <1>1, <1>2, <2>2, <2>4, <2>6, WorkerTyped, TypedFacts
<1>5. QED
  BY <1>3, <1>4

\* A view that is published leaves the listen as it is.
LEMMA PublishedOpen ==
  ASSUME Typed, NEW v \in Views, v.open = view.open, ~view.open => v = view,
         view' = WithSyncState(v), shown' = PublishedSnapshot(v), listeners' = listeners,
         view.open => stream' # "off"
  PROVE  Open' /\ view'.open = view.open /\ view'.synced = v.synced
<1>1. view'.open = view.open /\ (~view.open => view' = view) /\ view'.synced = v.synced
  BY WithSyncStateType DEF SameListen
<1>2. ~view.open => shown' = shown
  BY <1>1 DEF PublishedSnapshot
<1>3. (view = NoView /\ shown = NoSnapshot) \/ view.open
  BY TypedFacts DEF Open
<1>4. Open'
  BY <1>1, <1>2, TypedFacts DEF Open
<1>5. QED
  BY <1>1, <1>4

\* and a write that is queued.
LEMMA WriteTyped ==
  ASSUME Typed, tasks # <<>>, tasks' = Tail(tasks), TaskKept,
         NEW w \in DOMAIN made, WriteMutations(w)
  PROVE  Typed'
<1> DEFINE doc == GetDocument(cache, queue')
           v == WithDocument(view, doc)
<1>1. /\ queue' = Append(queue, w) /\ Publish(v, tracker.state)
      /\ UNCHANGED <<saved, listeners, tracker, stream, idle, requests, responses, target, update, serving>>
      /\ tasks' \in Seq(Tasks)
      /\ UNCHANGED <<log, committedAt, dropped, made, reads, gone, answers, cache, results, faults>>
  BY FirstTask DEF WriteMutations, TaskKept, Typed, net, wire
<1>2. queue' \in Seq(DOMAIN made) /\ Len(results) <= Len(queue')
  <2>1. queue \in Seq(DOMAIN made) /\ Len(results) <= Len(queue) /\ Len(results) \in Nat
    BY TypedFacts
  <2>2. queue' \in Seq(DOMAIN made) /\ Len(queue') = Len(queue) + 1 /\ Len(queue) \in Nat
    BY <1>1, <2>1
  <2>3. QED
    BY <2>1, <2>2
<1>3. doc \in Documented
  BY <1>2, TypedFacts, GetDocumentType DEF Entries
<1>4. v \in Views /\ v.open = view.open /\ (~view.open => v = view) /\ v.synced = view.synced
  <2> HIDE DEF doc
  <2>1. v \in Views /\ v.open = view.open /\ v.synced = view.synced
    BY <1>3, TypedFacts, WithDocumentType DEF SameListen
  <2>2. ~view.open => v = view
    BY DEF WithDocument
  <2>3. QED
    BY <2>1, <2>2
<1> HIDE DEF v, doc
<1>5. /\ view' = WithSyncState(v) /\ view' \in Views /\ shown' = PublishedSnapshot(v)
      /\ shown' \in Snapshots /\ main' \in Seq(Events) /\ waiting' \subseteq waiting
  <2>1. AppTypes /\ ListenTypes
    BY DEF Typed
  <2>2. QED
    BY <1>1, <1>4, <2>1, PublishResult
<1>6. WireInv'
  BY <1>1, TypedFacts, WireSame DEF wire
<1>7. Open' /\ view'.open = view.open /\ view'.synced = v.synced
  <2>1. view.open => stream' # "off"
    BY <1>1, TypedFacts DEF Open
  <2>2. QED
    BY <1>1, <1>4, <1>5, <2>1, PublishedOpen
<1>8. Asserted'
  <2>1. Asserted
    BY TypedFacts
  <2>2. QED
    BY <1>1, <1>4, <1>7, <2>1 DEF Asserted, IsActiveTarget
<1>9. waiting' \subseteq listeners'
  BY <1>1, <1>5, TypedFacts
<1>10. QED
  BY <1>1, <1>2, <1>5, <1>6, <1>7, <1>8, <1>9, WorkerTyped, TypedFacts

\* So the worker does.
LEMMA RunTaskTyped ==
  ASSUME Typed, RunTask
  PROVE  Typed'
<1>1. /\ Head(tasks).kind \in {"listen", "remove", "write"}
      /\ Head(tasks).kind \in {"listen", "remove"} => Head(tasks).read \in DOMAIN reads
      /\ Head(tasks).kind = "write" => Head(tasks).write \in DOMAIN made
  BY RunTaskCases, FirstTask DEF Typed
<1>2. CASE Head(tasks).kind = "listen"
  BY <1>1, <1>2, RunTaskCases, ListenTyped
<1>3. CASE Head(tasks).kind = "remove"
  BY <1>1, <1>3, RunTaskCases, RemoveTyped
<1>4. CASE Head(tasks).kind = "write"
  BY <1>1, <1>4, RunTaskCases, WriteTyped
<1>5. QED
  BY <1>1, <1>2, <1>3, <1>4

(* Results of writes, and the online state. *)

\* The result of a write keeps the invariant.
LEMMA OnWriteResultTyped ==
  ASSUME Typed, OnWriteResult
  PROVE  Typed'
<1> DEFINE doc == GetDocument(cache', queue')
           v == WithDocument(view, doc)
<1>1. /\ results # <<>> /\ results' = Tail(results) /\ queue' = Tail(queue)
      /\ cache' = IF Head(results).ok
                    THEN ApplyBatchResult(cache, Head(queue), Head(results).version) ELSE cache
      /\ Publish(v, tracker.state)
      /\ UNCHANGED <<saved, listeners, tracker, stream, idle, requests, responses, target, update,
                     serving, log, committedAt, dropped, made, reads, gone, answers, tasks, faults>>
  BY DEF OnWriteResult, server, app, net, wire
<1>2. /\ results \in Seq(Results) /\ queue \in Seq(DOMAIN made) /\ Len(results) <= Len(queue)
      /\ cache \in Entries(0)
  BY TypedFacts
<1>3. Head(results) \in Results /\ results' \in Seq(Results) /\ Len(results') = Len(results) - 1
      /\ Len(results) \in Nat /\ Len(results) # 0
  BY <1>1, <1>2, HeadTailProperties, EmptySeq
<1>4. queue # <<>> /\ Len(queue) \in Nat
  BY <1>2, <1>3
<1>5. /\ Head(queue) \in DOMAIN made /\ queue' \in Seq(DOMAIN made) /\ Len(results') <= Len(queue')
  <2>1. Head(queue) \in DOMAIN made /\ queue' \in Seq(DOMAIN made) /\ Len(queue') = Len(queue) - 1
    BY <1>1, <1>2, <1>4, HeadTailProperties
  <2>2. QED
    BY <1>2, <1>3, <1>4, <2>1
<1>6. cache' \in Entries(0)
  <2> DEFINE made1 == made[Head(queue)]
  <2>1. made[Head(queue)] \in Kinds /\ Head(queue) \in (-MaxOthers) .. MaxWrites
    BY <1>5, TypedFacts, OwnWrites
  <2>2. cache.value \in Values
    BY <1>2 DEF Entries
  <2>3. AppliedTo(made[Head(queue)], Head(queue), cache.value) \in Values
    BY <2>1, <2>2, AppliedToValue
  <2>4. Head(results).version \in 0 .. Now
    BY <1>3 DEF Results
  <2>5. ApplyBatchResult(cache, Head(queue), Head(results).version) \in Entries(0)
    BY <1>2, <2>3, <2>4 DEF ApplyBatchResult, Entry, Entries
  <2>6. QED
    BY <1>1, <1>2, <2>5
<1>7. doc \in Documented
  BY <1>5, <1>6, TypedFacts, GetDocumentType DEF Entries
<1>8. v \in Views /\ v.open = view.open /\ (~view.open => v = view) /\ v.synced = view.synced
  <2> HIDE DEF doc
  <2>1. v \in Views /\ v.open = view.open /\ v.synced = view.synced
    BY <1>7, TypedFacts, WithDocumentType DEF SameListen
  <2>2. ~view.open => v = view
    BY DEF WithDocument
  <2>3. QED
    BY <2>1, <2>2
<1> HIDE DEF v, doc
<1>9. /\ view' = WithSyncState(v) /\ view' \in Views /\ shown' = PublishedSnapshot(v)
      /\ shown' \in Snapshots /\ main' \in Seq(Events) /\ waiting' \subseteq waiting
  <2>1. AppTypes /\ ListenTypes
    BY DEF Typed
  <2>2. QED
    BY <1>1, <1>8, <2>1, PublishResult
<1>10. WireInv'
  BY <1>1, TypedFacts, WireSame DEF wire
<1>11. Open' /\ view'.open = view.open /\ view'.synced = v.synced
  <2>1. view.open => stream' # "off"
    BY <1>1, TypedFacts DEF Open
  <2>2. QED
    BY <1>1, <1>8, <1>9, <2>1, PublishedOpen
<1>12. Asserted'
  <2>1. Asserted
    BY TypedFacts
  <2>2. QED
    BY <1>1, <1>8, <1>11, <2>1 DEF Asserted, IsActiveTarget
<1>13. waiting' \subseteq listeners'
  BY <1>1, <1>9, TypedFacts
<1>14. QED
  BY <1>1, <1>3, <1>5, <1>6, <1>9, <1>10, <1>11, <1>12, <1>13, WorkerTyped, TypedFacts

\* The view that a change of the online state is broadcast to.
BroadcastView(t) == IF t.state # tracker.state THEN WithOnlineState(view, t.state) ELSE view

\* What a change of the online state leaves.
LEMMA BroadcastResult ==
  ASSUME Typed, NEW t, SetAndBroadcast(t)
  PROVE  /\ tracker' = t /\ Publish(BroadcastView(t), t.state)
         /\ BroadcastView(t) \in Views /\ BroadcastView(t).open = view.open
         /\ BroadcastView(t).synced = view.synced
         /\ ~view.open => BroadcastView(t) = view
         /\ view' = WithSyncState(BroadcastView(t)) /\ view' \in Views
         /\ shown' = PublishedSnapshot(BroadcastView(t)) /\ shown' \in Snapshots
         /\ main' \in Seq(Events) /\ waiting' \subseteq waiting
<1> DEFINE v == BroadcastView(t)
<1>1. tracker' = t /\ Publish(v, t.state)
  BY DEF SetAndBroadcast, BroadcastView
<1>2. v \in Views /\ v.open = view.open /\ v.synced = view.synced
  BY TypedFacts, WithOnlineStateType DEF BroadcastView, SameListen
<1>3. ~view.open => v = view
  <2>1. ~view.open => view = NoView
    BY TypedFacts DEF Open
  <2>2. WithOnlineState(NoView, t.state) = NoView
    BY DEF WithOnlineState, NoView
  <2>3. QED
    BY <2>1, <2>2 DEF BroadcastView
<1>4. AppTypes /\ ListenTypes
  BY DEF Typed
<1> HIDE DEF v
<1>5. /\ view' = WithSyncState(v) /\ view' \in Views /\ shown' = PublishedSnapshot(v)
      /\ shown' \in Snapshots /\ main' \in Seq(Events) /\ waiting' \subseteq waiting
  BY <1>1, <1>2, <1>4, PublishResult
<1>6. QED
  BY <1>1, <1>2, <1>3, <1>5 DEF v

\* It keeps the types of the view and of the events.
LEMMA BroadcastTyped ==
  ASSUME Typed, NEW t, SetAndBroadcast(t),
         UNCHANGED <<log, committedAt, dropped, made, reads, gone, answers, tasks, queue, cache,
                     saved, listeners>>,
         results' \in {results, <<>>}, faults' \in 0 .. MaxFaults,
         WireInv', TrackerOK(t, stream'), view.open => stream' # "off",
         idle' => stream' = "open" /\ ~view.open,
         target' = target \/ target' = NewTarget
  PROVE  Typed'
<1> DEFINE v == BroadcastView(t)
<1>1. /\ tracker' = t /\ v \in Views /\ v.open = view.open /\ v.synced = view.synced
      /\ (~view.open => v = view) /\ view' = WithSyncState(v) /\ view' \in Views
      /\ shown' = PublishedSnapshot(v) /\ shown' \in Snapshots
      /\ main' \in Seq(Events) /\ waiting' \subseteq waiting
  BY BroadcastResult
<1> HIDE DEF v
<1>2. Open' /\ view'.open = view.open /\ view'.synced = v.synced
  BY <1>1, PublishedOpen
<1>3. Asserted'
  <2>1. IsActiveTarget(target) /\ target.documents = "modified" => view.synced
    BY TypedFacts DEF Asserted
  <2>2. IsActiveTarget(target)' /\ target'.documents = "modified" => view'.synced
    BY <1>1, <1>2, <2>1 DEF IsActiveTarget, NewTarget
  <2>3. QED
    BY <1>1, <1>2, <2>2 DEF Asserted
<1>4. results' \in Seq(Results) /\ Len(results') <= Len(queue')
  <2>1. results \in Seq(Results) /\ Len(results) <= Len(queue) /\ queue \in Seq(DOMAIN made)
    BY TypedFacts
  <2>2. <<>> \in Seq(Results) /\ Len(<<>>) = 0 /\ Len(queue) \in Nat
    BY <2>1, EmptySeq
  <2>3. CASE results' = results
    BY <2>1, <2>3
  <2>4. CASE results' = <<>>
    BY <2>2, <2>4
  <2>5. QED
    BY <2>3, <2>4
<1>5. tasks' \in Seq(Tasks) /\ queue' \in Seq(DOMAIN made) /\ cache' \in Entries(0)
      /\ saved' \in [token : 0 .. Now, has : BOOLEAN]
      /\ waiting' \subseteq listeners' /\ listeners' \subseteq DOMAIN reads
  BY <1>1, TypedFacts
<1>6. QED
  BY <1>1, <1>2, <1>3, <1>4, <1>5, WorkerTyped

\* The timer of the online state keeps the invariant.
LEMMA OnlineStateTimeoutTyped ==
  ASSUME Typed, OnlineStateTimeout
  PROVE  Typed'
<1> DEFINE t == [tracker EXCEPT !.state = "offline", !.timer = FALSE]
<1>1. /\ SetAndBroadcast(t)
      /\ UNCHANGED <<log, serving, committedAt, dropped, made, reads, gone, answers, tasks, queue,
                     cache, saved, listeners, stream, idle, requests, responses, target, update,
                     results, faults>>
  BY DEF OnlineStateTimeout, server, app, disk, wire
<1>2. TrackerOK(tracker, stream)
  BY TypedFacts DEF Asserted
<1>3. TrackerOK(t, stream)
  <2>1. tracker \in Trackers
    BY <1>2 DEF TrackerOK
  <2>2. t \in Trackers /\ t.state = "offline" /\ ~t.timer
    BY <2>1 DEF Trackers
  <2> HIDE DEF t
  <2>3. QED
    BY <2>2 DEF TrackerOK
<1> HIDE DEF t
<1>4. WireInv'
  BY <1>1, TypedFacts, WireSame DEF wire
<1>5. (view.open => stream' # "off") /\ (idle' => stream' = "open" /\ ~view.open)
  BY <1>1, TypedFacts DEF Open, Asserted
<1>6. QED
  BY <1>1, <1>3, <1>4, <1>5, BroadcastTyped, TypedFacts

-----------------------------------------------------------------------------
(* The stream's callbacks. *)

\* What it takes to start a new stream, or none.
LEMMA RestartedTyped ==
  ASSUME Typed, NEW state \in {"off", "starting"}, Restarted(state),
         NEW t, SetAndBroadcast(t), TrackerOK(t, state), view.open => state # "off",
         UNCHANGED <<log, committedAt, dropped, made, reads, gone, answers, tasks, queue, cache,
                     saved, listeners>>,
         results' \in {results, <<>>}, faults' \in 0 .. MaxFaults
  PROVE  Typed'
<1>1. stream' = state /\ ~idle' /\ target' = NewTarget
  BY DEF Restarted
<1>2. WireInv'
  BY TypedFacts, WireRestarted
<1>3. QED
  BY <1>1, <1>2, BroadcastTyped

\* A stream that opens sends the target again: the answers it is owed are counted.
LEMMA StreamOpensTyped ==
  ASSUME Typed, StreamOpens
  PROVE  Typed'
<1>1. /\ stream = "starting" /\ stream' = "open" /\ OnWatchStreamOpen
      /\ UNCHANGED <<log, serving, committedAt, dropped, made, reads, gone, answers, tasks, main,
                     queue, cache, saved, view, shown, listeners, waiting, tracker, idle,
                     responses, update, results, faults>>
  BY DEF StreamOpens, server, app, disk, listening
<1>2. idle \in BOOLEAN /\ target = NewTarget /\ requests = <<>> /\ ~idle
  BY <1>1, TypedFacts DEF WireInv, WireTypes, Offline, Asserted
<1>3. WireInv' /\ (view.open => target'.outstanding > 0)
  <2>1. CASE view.open
    <3>1. Send(Watch(view))
      BY <1>1, <2>1 DEF OnWatchStreamOpen
    <3>2. Watch(view) \in Requests
      BY TypedFacts DEF Watch, Requests, Views
    <3>3. QED
      BY <1>1, <1>2, <3>1, <3>2, TypedFacts, WireSend
  <2>2. CASE ~view.open
    <3>1. UNCHANGED <<requests, target>>
      BY <1>1, <2>2 DEF OnWatchStreamOpen
    <3>2. Requests' = Requests /\ WatchChanges' = WatchChanges /\ Entries(0)' = Entries(0) /\ Now' = Now
      BY <1>1 DEF Requests, WatchChanges, Entries, Now
    <3>3. WireTypes' /\ Offline' /\ Count'
      BY <1>1, <3>1, <3>2, TypedFacts DEF WireInv, WireTypes, Offline, Count, Owed
    <3>4. QED
      BY <2>2, <3>3 DEF WireInv
  <2>3. QED
    BY <2>1, <2>2
<1>4. Asserted'
  <2>1. ~ IsActiveTarget(target)'
    BY <1>1, <1>3 DEF IsActiveTarget
  <2>2. TrackerOK(tracker, "starting")
    BY <1>1, TypedFacts DEF Asserted
  <2>3. TrackerOK(tracker', stream')
    BY <1>1, <2>2 DEF TrackerOK
  <2>4. QED
    BY <1>1, <1>2, <2>1, <2>3 DEF Asserted
<1>5. Open'
  BY <1>1, TypedFacts DEF Open
<1>6. QED
  BY <1>1, <1>3, <1>4, <1>5, WorkerTyped, TypedFacts

\* A stream that closes leaves nothing owed.
LEMMA OnWatchStreamCloseTyped ==
  ASSUME Typed, OnWatchStreamClose, results' \in {results, <<>>}, faults' \in 0 .. MaxFaults
  PROVE  Typed'
<1>1. UNCHANGED <<log, committedAt, dropped, made, reads, gone, answers, tasks, queue, cache,
                  saved, listeners>>
  BY DEF OnWatchStreamClose, app, disk
<1>2. TrackerOK(tracker, stream)
  BY TypedFacts DEF Asserted
<1>3. CASE view.open
  <2> DEFINE t == HandleWatchStreamStart(HandleWatchStreamFailure(tracker))
  <2>1. Restarted("starting") /\ SetAndBroadcast(t)
    BY <1>3 DEF OnWatchStreamClose
  <2>2. TrackerOK(t, "starting")
    BY <1>2, TrackerFailed, TrackerStarted
  <2> HIDE DEF t
  <2>3. QED
    BY <1>1, <2>1, <2>2, RestartedTyped
<1>4. CASE ~view.open
  <2> DEFINE t == UpdateState(tracker, "unknown")
  <2>1. Restarted("off") /\ SetAndBroadcast(t)
    BY <1>4 DEF OnWatchStreamClose
  <2>2. TrackerOK(t, "off")
    BY TrackerReset
  <2> HIDE DEF t
  <2>3. QED
    BY <1>1, <1>4, <2>1, <2>2, RestartedTyped
<1>5. QED
  BY <1>3, <1>4

\* So does an attempt that fails,
LEMMA StreamFailsTyped ==
  ASSUME Typed, StreamFails
  PROVE  Typed'
<1>1. OnWatchStreamClose /\ results' = results /\ faults' = faults
  BY DEF StreamFails
<1>2. QED
  BY <1>1, OnWatchStreamCloseTyped, TypedFacts

\* a connection that is lost,
LEMMA ConnectionLostTyped ==
  ASSUME Typed, ConnectionLost
  PROVE  Typed'
<1>1. OnWatchStreamClose /\ results' = <<>> /\ Fault("connectionLost")
  BY DEF ConnectionLost
<1>2. faults' \in 0 .. MaxFaults
  BY <1>1, TypedFacts, FaultCounted
<1>3. QED
  BY <1>1, <1>2, OnWatchStreamCloseTyped

\* a stream that was idle for too long,
LEMMA IdleTimeoutTyped ==
  ASSUME Typed, IdleTimeout
  PROVE  Typed'
<1> DEFINE t == UpdateState(tracker, "unknown")
<1>1. /\ idle /\ Restarted("off") /\ SetAndBroadcast(t)
      /\ UNCHANGED <<log, committedAt, dropped, made, reads, gone, answers, tasks, queue, cache,
                     saved, listeners, results, faults>>
  BY DEF IdleTimeout, app, disk
<1>2. TrackerOK(t, "off") /\ ~view.open
  BY <1>1, TrackerReset, TypedFacts DEF Asserted
<1> HIDE DEF t
<1>3. QED
  BY <1>1, <1>2, RestartedTyped, TypedFacts

\* and a new token.
LEMMA HandleCredentialChangeTyped ==
  ASSUME Typed, HandleCredentialChange
  PROVE  Typed'
<1> DEFINE t == HandleWatchStreamStart(UpdateState(tracker, "unknown"))
<1>1. /\ Restarted("starting") /\ SetAndBroadcast(t) /\ results' = <<>> /\ Fault("credential")
      /\ UNCHANGED <<log, committedAt, dropped, made, reads, gone, answers, tasks, queue, cache,
                     saved, listeners>>
  BY DEF HandleCredentialChange, app, disk
<1>2. TrackerOK(t, "starting")
  BY TrackerReset, TrackerStarted
<1>3. faults' \in 0 .. MaxFaults
  BY <1>1, TypedFacts, FaultCounted
<1> HIDE DEF t
<1>4. QED
  BY <1>1, <1>2, <1>3, RestartedTyped

(* The stream's messages. *)

\* What reading any message does.
LEMMA OnWatchStreamChangeCases ==
  ASSUME OnWatchStreamChange
  PROVE  /\ responses # <<>> /\ responses' = Tail(responses)
         /\ tracker' = UpdateState(tracker, "online")
         /\ UNCHANGED <<log, serving, committedAt, dropped, made, reads, gone, answers, tasks, queue,
                        listeners, stream, idle, requests, results, faults>>
         /\ Head(responses).kind = "snapshot" => RaiseWatchSnapshot(Head(responses).version)
         /\ Head(responses).kind # "snapshot" => HandleChange(Head(responses))
BY DEF OnWatchStreamChange, server, app

\* A message that is no snapshot keeps the invariant.
LEMMA HandleChangeTyped ==
  ASSUME Typed, OnWatchStreamChange, Head(responses).kind # "snapshot"
  PROVE  Typed'
<1> DEFINE message == Head(responses)
<1>1. /\ responses # <<>> /\ responses' = Tail(responses)
      /\ tracker' = UpdateState(tracker, "online")
      /\ UNCHANGED <<log, serving, committedAt, dropped, made, reads, gone, answers, tasks, queue,
                     listeners, stream, idle, requests, results, faults>>
      /\ HandleChange(message)
  BY OnWatchStreamChangeCases
<1>2. Publish(view, "online") /\ UNCHANGED <<cache, saved>>
  BY <1>1 DEF HandleChange, disk
<1>3. /\ view' = WithSyncState(view) /\ view' \in Views /\ shown' = PublishedSnapshot(view)
      /\ shown' \in Snapshots /\ main' \in Seq(Events) /\ waiting' \subseteq waiting
  <2>1. AppTypes /\ ListenTypes
    BY DEF Typed
  <2>2. QED
    BY <1>2, <2>1, TypedFacts, PublishResult
<1>4. /\ target' \in Targets
      /\ target'.outstanding =
           target.outstanding - (IF message.kind \in Owing THEN 1 ELSE 0)
      /\ target'.documents = "modified" /\ target'.outstanding = 0 /\ view.open =>
           view.synced \/ (target.documents = "modified" /\ target.outstanding = 0)
      /\ update' \in {update, message.doc}
      /\ update' # update => message.kind = "document"
  BY <1>1, TypedFacts, HandleChangeTarget
<1>5. update' \in Entries(0)
  <2>1. message.kind = "document" => message.doc \in Entries(1)
    BY <1>1, TypedFacts, FirstMessage
  <2>2. Entries(1) \subseteq Entries(0)
    <3>1. 1 .. Now \subseteq 0 .. Now
      BY TypedFacts
    <3>2. QED
      BY <3>1 DEF Entries
  <2>3. update \in Entries(0)
    BY TypedFacts DEF WireInv, WireTypes
  <2> HIDE DEF message
  <2>4. QED
    BY <1>4, <2>1, <2>2, <2>3
<1>6. WireInv'
  BY <1>1, <1>4, <1>5, TypedFacts, WireRead
<1>7. Open' /\ view'.open = view.open /\ view'.synced = view.synced
  <2>1. view.open => stream' # "off"
    BY <1>1, TypedFacts DEF Open
  <2>2. QED
    BY <1>1, <1>3, <2>1, TypedFacts, PublishedOpen
<1>8. Asserted'
  <2>1. Asserted
    BY TypedFacts
  <2>2. TrackerOK(tracker', stream')
    BY <1>1, TrackerReset
  <2>3. IsActiveTarget(target)' /\ target'.documents = "modified" => view'.synced
    BY <1>4, <1>7, <2>1 DEF Asserted, IsActiveTarget
  <2>4. QED
    BY <1>1, <1>7, <2>1, <2>2, <2>3 DEF Asserted
<1>9. waiting' \subseteq listeners'
  BY <1>1, <1>3, TypedFacts
<1>10. QED
  BY <1>1, <1>2, <1>3, <1>6, <1>7, <1>8, <1>9, WorkerTyped, TypedFacts

\* What RaiseWatchSnapshot makes of the view before it is published.
Seen(version) ==
  IF Accepts(cache, DocumentUpdate(version))
    THEN WithDocument(view, GetDocument(cache', queue)) ELSE view

SeenView(version) ==
  IF IsActiveTarget(target) THEN [WithTargetChange(Seen(version), target) EXCEPT !.token = version]
  ELSE Seen(version)

\* What a snapshot does to cache, target and view.
LEMMA RaiseWatchSnapshotCases ==
  ASSUME NEW version, RaiseWatchSnapshot(version)
  PROVE  /\ cache' = IF Accepts(cache, DocumentUpdate(version)) THEN DocumentUpdate(version) ELSE cache
         /\ Publish(SeenView(version), "online")
         /\ target' = IF IsActiveTarget(target) THEN [target EXCEPT !.documents = "none"] ELSE target
         /\ update' = NoEntry
         /\ ~IsActiveTarget(target) => saved' = saved
         /\ IsActiveTarget(target) =>
              \E t \in {saved.token, version} :
                 /\ saved' = [token |-> t, has |-> saved.has \/ target.documents = "added"]
                 /\ view.token = 0 \/ target.documents # "none" => t = version
BY DEF RaiseWatchSnapshot, SeenView, Seen

\* The document it puts into the view is one,
LEMMA SeenType ==
  ASSUME Typed, NEW version \in 1 .. Now, RaiseWatchSnapshot(version)
  PROVE  /\ cache' \in Entries(0) /\ GetDocument(cache', queue) \in Documented
         /\ Seen(version) \in Views /\ SameListen(view, Seen(version))
         /\ Seen(version).current = view.current
         /\ ~view.open => Seen(version) = view
<1>1. DocumentUpdate(version) \in Entries(0)
  BY TypedFacts, DocumentUpdateType DEF WireInv, WireTypes
<1>2. cache' \in Entries(0)
  BY <1>1, RaiseWatchSnapshotCases, TypedFacts
<1> DEFINE doc == GetDocument(cache', queue)
<1>3. doc \in Documented
  BY <1>2, TypedFacts, GetDocumentType DEF Entries
<1> HIDE DEF doc
<1>4. /\ WithDocument(view, doc) \in Views /\ SameListen(view, WithDocument(view, doc))
      /\ WithDocument(view, doc).current = view.current
      /\ ~view.open => WithDocument(view, doc) = view
  BY <1>3, TypedFacts, WithDocumentType DEF WithDocument
<1>5. view \in Views /\ SameListen(view, view)
  BY TypedFacts DEF SameListen
<1>6. QED
  BY <1>2, <1>3, <1>4, <1>5 DEF Seen, doc

\* and the view stays a view.
LEMMA SeenViewType ==
  ASSUME Typed, NEW version \in 1 .. Now, RaiseWatchSnapshot(version)
  PROVE  /\ SeenView(version) \in Views
         /\ SeenView(version).open = view.open
         /\ SeenView(version).since = view.since
         /\ SeenView(version).value = Seen(version).value
         /\ SeenView(version).state = Seen(version).state
         /\ SeenView(version).mutated = Seen(version).mutated
         /\ ~IsActiveTarget(target) => SeenView(version) = Seen(version)
         /\ ~view.open => SeenView(version) = view
         /\ IsActiveTarget(target) =>
              /\ SeenView(version).token = version
              /\ SeenView(version).current = target.current
              /\ SeenView(version).synced = (view.synced \/ target.documents = "added")
<1> DEFINE s == Seen(version)
           w == WithTargetChange(s, target)
           u == [w EXCEPT !.token = version]
<1>1. /\ s \in Views /\ SameListen(view, s) /\ s.current = view.current
      /\ ~view.open => s = view
  BY SeenType
<1>2. target.current \in BOOLEAN
  BY TypedFacts DEF WireInv, WireTypes
<1>3. version \in 0 .. Now
  BY TypedFacts
<1> HIDE DEF s
<1>4. /\ w \in Views /\ w.open = s.open /\ w.since = s.since /\ w.value = s.value
      /\ w.state = s.state /\ w.mutated = s.mutated
      /\ w.synced = (s.synced \/ target.documents = "added") /\ w.current = target.current
  BY <1>1, <1>2, WithTargetChangeType
<1> HIDE DEF w
<1>5. /\ u \in Views /\ u.open = w.open /\ u.since = w.since /\ u.value = w.value
      /\ u.state = w.state /\ u.mutated = w.mutated /\ u.synced = w.synced /\ u.current = w.current
      /\ u.token = version
  BY <1>3, <1>4 DEF Views
<1>6. SeenView(version) = IF IsActiveTarget(target) THEN u ELSE s
  BY DEF SeenView, u, w, s
<1> HIDE DEF u
<1>7. CASE IsActiveTarget(target)
  <2>1. view.open
    BY <1>7 DEF IsActiveTarget
  <2>2. QED
    BY <1>1, <1>4, <1>5, <1>6, <1>7, <2>1 DEF SameListen, s
<1>8. CASE ~IsActiveTarget(target)
  BY <1>1, <1>6, <1>8 DEF SameListen, s
<1>9. QED
  BY <1>7, <1>8

\* A snapshot keeps the invariant.
LEMMA SnapshotTyped ==
  ASSUME Typed, OnWatchStreamChange, Head(responses).kind = "snapshot"
  PROVE  Typed'
<1> DEFINE version == Head(responses).version
           v == SeenView(version)
           active == IsActiveTarget(target)
<1>1. /\ responses # <<>> /\ responses' = Tail(responses)
      /\ tracker' = UpdateState(tracker, "online")
      /\ UNCHANGED <<log, serving, committedAt, dropped, made, reads, gone, answers, tasks, queue,
                     listeners, stream, idle, requests, results, faults>>
      /\ RaiseWatchSnapshot(version)
  BY OnWatchStreamChangeCases
<1>2. version \in 1 .. Now
  BY <1>1, TypedFacts, FirstMessage
<1> HIDE DEF version
<1>3. /\ cache' \in Entries(0) /\ v \in Views /\ v.open = view.open /\ (~view.open => v = view)
      /\ view.synced => v.synced
  <2>1. SameListen(view, Seen(version))
    BY <1>1, <1>2, SeenType
  <2>2. QED
    BY <1>1, <1>2, <2>1, SeenType, SeenViewType DEF SameListen
<1>4. Publish(v, "online") /\ update' = NoEntry
      /\ target' = IF active THEN [target EXCEPT !.documents = "none"] ELSE target
  BY <1>1, RaiseWatchSnapshotCases
<1> HIDE DEF v
<1>5. /\ view' = WithSyncState(v) /\ view' \in Views /\ shown' = PublishedSnapshot(v)
      /\ shown' \in Snapshots /\ main' \in Seq(Events) /\ waiting' \subseteq waiting
  <2>1. AppTypes /\ ListenTypes
    BY DEF Typed
  <2>2. QED
    BY <1>3, <1>4, <2>1, PublishResult
<1>6. saved' \in [token : 0 .. Now, has : BOOLEAN]
  <2>1. saved \in [token : 0 .. Now, has : BOOLEAN]
    BY TypedFacts
  <2>2. CASE active
    <3>1. PICK t \in {saved.token, version} :
             saved' = [token |-> t, has |-> saved.has \/ target.documents = "added"]
      BY <1>1, <2>2, RaiseWatchSnapshotCases
    <3>2. t \in 0 .. Now
      BY <1>2, <2>1
    <3>3. (saved.has \/ target.documents = "added") \in BOOLEAN
      BY <2>1
    <3>4. QED
      BY <2>1, <3>1, <3>2
  <2>3. CASE ~active
    BY <1>1, <2>1, <2>3, RaiseWatchSnapshotCases
  <2>4. QED
    BY <2>2, <2>3
<1>7. target \in Targets
  BY TypedFacts DEF WireInv, WireTypes, Targets
<1>8. target' \in Targets /\ target'.outstanding = target.outstanding
      /\ (active => target'.documents = "none") /\ (~active => target' = target)
  BY <1>4, <1>7 DEF Targets, Documents
<1>9. Head(responses).kind \notin Owing
  BY DEF Owing
<1>10. target'.outstanding = target.outstanding - (IF Head(responses).kind \in Owing THEN 1 ELSE 0)
  BY <1>7, <1>8, <1>9 DEF Targets
<1>11. WireInv'
  <2>1. NoEntry \in Entries(0) /\ log \in Seq(Values)
    BY TypedFacts, NoEntryType
  <2>2. QED
    BY <1>1, <1>4, <1>8, <1>10, <2>1, TypedFacts, WireRead
<1>12. Open' /\ view'.open = view.open /\ view'.synced = v.synced
  <2>1. view.open => stream' # "off"
    BY <1>1, TypedFacts DEF Open
  <2>2. QED
    BY <1>1, <1>3, <1>5, <2>1, PublishedOpen
<1>13. Asserted'
  <2>1. Asserted
    BY TypedFacts
  <2>2. TrackerOK(tracker', stream')
    BY <1>1, TrackerReset
  <2>3. IsActiveTarget(target)' /\ target'.documents = "modified" => view'.synced
    BY <1>3, <1>8, <1>12, <2>1 DEF Asserted, IsActiveTarget
  <2>4. QED
    BY <1>1, <1>12, <2>1, <2>2, <2>3 DEF Asserted
<1>14. waiting' \subseteq listeners'
  BY <1>1, <1>5, TypedFacts
<1>15. QED
  BY <1>1, <1>3, <1>5, <1>6, <1>11, <1>12, <1>13, <1>14, WorkerTyped, TypedFacts

-----------------------------------------------------------------------------
\* So does a restart of the app.
LEMMA RestartTyped ==
  ASSUME Typed, Restart
  PROVE  Typed'
<1>1. /\ Fault("restart") /\ gone' = Len(reads)
      /\ dropped' = dropped \cup { task.write : task \in { t \in ToSet(tasks) : t.kind = "write" } }
      /\ tasks' = <<>> /\ main' = <<>>
      /\ view' = NoView /\ shown' = NoSnapshot /\ listeners' = {} /\ waiting' = {}
      /\ tracker' = NewTracker /\ Restarted("off") /\ results' = <<>>
      /\ UNCHANGED <<log, committedAt, made, reads, answers, queue, cache, saved>>
  BY DEF Restart, disk
<1>2. WireInv'
  BY <1>1, TypedFacts, WireRestarted
<1>3. /\ <<>> \in Seq(Tasks) /\ <<>> \in Seq(Events) /\ <<>> \in Seq(Results) /\ Len(<<>>) = 0
      /\ Len(queue) \in Nat /\ Len(reads) \in Nat
  BY EmptySeq, TypedFacts
<1>4. Now' = Now /\ Events' = Events /\ Tasks' = Tasks /\ Results' = Results
  BY <1>1, SameSets
<1>5. dropped' \subseteq DOMAIN made'
  <2>1. ASSUME NEW t \in ToSet(tasks), t.kind = "write" PROVE t.write \in DOMAIN made
    <3>1. t \in Tasks
      BY TypedFacts DEF ToSet
    <3>2. QED
      BY <2>1, <3>1 DEF Tasks
  <2>2. QED
    BY <1>1, <2>1, TypedFacts
<1>6. ServerTypes'
  <2>1. serving' \in 0 .. Now
    BY <1>2, <1>4 DEF WireInv, WireTypes
  <2>2. results' \in Seq(Results) /\ Len(results') <= Len(queue')
    BY <1>1, <1>3
  <2>3. QED
    BY <1>1, <1>5, <2>1, <2>2, ServerKept DEF Typed
<1>7. AppTypes'
  BY <1>1, <1>3, <1>4 DEF Typed, AppTypes
<1>8. DiskTypes'
  BY <1>1, DiskKept DEF Typed, DiskTypes
<1>9. ListenTypes'
  BY <1>1, ListenKept, NoViewType, TypedFacts DEF Typed
<1>10. Open' /\ Asserted'
  BY <1>1, TrackerReset DEF Open, Asserted, Restarted, NoView, IsActiveTarget
<1>11. faults' \in 0 .. MaxFaults
  BY <1>1, TypedFacts, FaultCounted
<1>12. QED
  BY <1>2, <1>6, <1>7, <1>8, <1>9, <1>10, <1>11 DEF Typed

(* The server. *)

\* The messages of an answer, one after the other.
Added == Append(responses, [kind |-> "added"])
Document == [kind |-> "document", doc |-> Entry(Now, log[Now], FALSE)]
Brought == log[Now] # Missing /\ Now > Head(requests).token
AfterDocument == IF Brought THEN Append(Added, Document) ELSE Added
AfterCurrent == Append(AfterDocument, [kind |-> "current"])
AfterSnapshot == Append(AfterCurrent, [kind |-> "snapshot", version |-> Now])

\* The messages the server sends.
LEMMA MessageTypes ==
  ASSUME Typed
  PROVE  /\ [kind |-> "added"] \in WatchChanges /\ [kind |-> "removed"] \in WatchChanges
         /\ [kind |-> "current"] \in WatchChanges /\ Document \in WatchChanges
         /\ [kind |-> "snapshot", version |-> Now] \in WatchChanges
         /\ log[Now] \in Values
<1>1. Now \in 1 .. Now /\ log[Now] \in Values
  <2>1. log \in Seq(Values) /\ Now \in DOMAIN log
    BY TypedFacts DEF Now
  <2>2. QED
    BY <2>1, TypedFacts
<1>2. Entry(Now, log[Now], FALSE) \in Entries(1)
  BY <1>1 DEF Entry, Entries
<1>3. QED
  BY <1>1, <1>2 DEF WatchChanges, Document

\* An answer, one message at a time.
LEMMA AnswerMessages ==
  ASSUME Typed
  PROVE  /\ responses \in Seq(WatchChanges)
         /\ Added \in Seq(WatchChanges) /\ AfterDocument \in Seq(WatchChanges)
         /\ AfterCurrent \in Seq(WatchChanges) /\ AfterSnapshot \in Seq(WatchChanges)
         /\ AfterSnapshot = responses \o Message("added")
              \o (IF log[Now] # Missing /\ Now > Head(requests).token THEN DocumentMessage ELSE <<>>)
              \o Message("current") \o SnapshotMessage
<1>1. responses \in Seq(WatchChanges)
  BY TypedFacts DEF WireInv, WireTypes
<1>2. Added \in Seq(WatchChanges) /\ Added = responses \o Message("added")
  BY <1>1, MessageTypes, AppendProperties, AppendIsConcat DEF Added, Message
<1>3. AfterDocument \in Seq(WatchChanges)
      /\ AfterDocument = Added \o (IF Brought THEN DocumentMessage ELSE <<>>)
  <2>1. CASE Brought
    BY <1>2, <2>1, MessageTypes, AppendProperties, AppendIsConcat DEF AfterDocument, DocumentMessage, Document
  <2>2. CASE ~Brought
    BY <1>2, <2>2, ConcatEmptySeq DEF AfterDocument
  <2>3. QED
    BY <2>1, <2>2
<1>4. AfterCurrent \in Seq(WatchChanges) /\ AfterCurrent = AfterDocument \o Message("current")
  BY <1>3, MessageTypes, AppendProperties, AppendIsConcat DEF AfterCurrent, Message
<1>5. AfterSnapshot \in Seq(WatchChanges) /\ AfterSnapshot = AfterCurrent \o SnapshotMessage
  BY <1>4, MessageTypes, AppendProperties, AppendIsConcat DEF AfterSnapshot, SnapshotMessage
<1>6. QED
  BY <1>1, <1>2, <1>3, <1>4, <1>5 DEF Brought

\* A new version is announced by its document and a snapshot.
Sent == Append(Append(responses, Document), [kind |-> "snapshot", version |-> Now])

\* As two messages.
LEMMA SentMessages ==
  ASSUME Typed
  PROVE  /\ Append(responses, Document) \in Seq(WatchChanges) /\ Sent \in Seq(WatchChanges)
         /\ Sent = responses \o DocumentMessage \o SnapshotMessage
<1>1. responses \in Seq(WatchChanges)
  BY TypedFacts DEF WireInv, WireTypes
<1>2. /\ Append(responses, Document) \in Seq(WatchChanges)
      /\ Append(responses, Document) = responses \o DocumentMessage
  <2>1. Document \in WatchChanges
    BY MessageTypes
  <2>2. Append(responses, Document) \in Seq(WatchChanges)
    BY <1>1, <2>1, AppendProperties
  <2>3. Append(responses, Document) = responses \o <<Document>>
    BY <1>1, <2>1, AppendIsConcat
  <2>4. <<Document>> = DocumentMessage
    BY DEF DocumentMessage, Document
  <2>5. QED
    BY <2>2, <2>3, <2>4
<1>3. Sent \in Seq(WatchChanges) /\ Sent = Append(responses, Document) \o SnapshotMessage
  BY <1>2, MessageTypes, AppendProperties, AppendIsConcat DEF Sent, SnapshotMessage
<1>4. QED
  BY <1>2, <1>3

\* The request that is answered, and the answer.
LEMMA ServerAnswersCases ==
  ASSUME Typed, ServerAnswers
  PROVE  /\ stream = "open" /\ requests # <<>> /\ requests' = Tail(requests)
         /\ Head(requests) \in Requests /\ Tail(requests) \in Seq(Requests)
         /\ UNCHANGED <<log, committedAt, dropped, made, reads, gone, answers, tasks, main, queue,
                        cache, saved, view, shown, listeners, waiting, tracker, stream, idle,
                        target, update, results, faults>>
         /\ \/ Head(requests).kind = "watch" /\ serving' = Now /\ responses' = AfterSnapshot
            \/ Head(requests).kind = "unwatch" /\ serving' = 0
               /\ responses' = Append(responses, [kind |-> "removed"])
<1>1. /\ stream = "open" /\ requests # <<>> /\ requests' = Tail(requests)
      /\ UNCHANGED <<log, committedAt, dropped, made, reads, gone, answers, tasks, main, queue,
                     cache, saved, view, shown, listeners, waiting, tracker, stream, idle,
                     target, update, results, faults>>
  BY DEF ServerAnswers, app, disk, listening
<1>2. Head(requests) \in Requests /\ Tail(requests) \in Seq(Requests)
  BY <1>1, TypedFacts, HeadTailProperties DEF WireInv, WireTypes
<1>3. responses \in Seq(WatchChanges)
  BY TypedFacts DEF WireInv, WireTypes
<1>4. responses \o Message("removed") = Append(responses, [kind |-> "removed"])
  BY <1>3, MessageTypes, AppendIsConcat DEF Message
<1>5. \/ Head(requests).kind = "watch" /\ serving' = Now /\ responses' = AfterSnapshot
      \/ Head(requests).kind = "unwatch" /\ serving' = 0
         /\ responses' = Append(responses, [kind |-> "removed"])
  BY <1>4, AnswerMessages DEF ServerAnswers
<1>6. QED
  BY <1>1, <1>2, <1>5

\* An answer pays for its request: the count of the answers owed stays right.
LEMMA ServerAnswersTyped ==
  ASSUME Typed, ServerAnswers
  PROVE  Typed'
<1>1. /\ stream = "open" /\ requests # <<>> /\ requests' = Tail(requests)
      /\ Tail(requests) \in Seq(Requests)
      /\ UNCHANGED <<log, committedAt, dropped, made, reads, gone, answers, tasks, main, queue,
                     cache, saved, view, shown, listeners, waiting, tracker, stream, idle,
                     target, update, results, faults>>
      /\ \/ serving' = Now /\ responses' = AfterSnapshot
         \/ serving' = 0 /\ responses' = Append(responses, [kind |-> "removed"])
  BY ServerAnswersCases
<1>2. responses \in Seq(WatchChanges) /\ requests \in Seq(Requests)
  BY TypedFacts DEF WireInv, WireTypes
<1>3. Len(requests') = Len(requests) - 1
  BY <1>1, <1>2, HeadTailProperties
<1>4. responses' \in Seq(WatchChanges) /\ Cardinality(Marked(responses')) = Owed + 1
  <2>1. Owed \in Nat
    BY <1>2, MarkedFinite DEF Owed
  <2>2. CASE responses' = AfterSnapshot
    <3>1. Cardinality(Marked(Added)) = Owed + 1
      <4>1. Cardinality(Marked(Added)) = Owed + (IF [kind |-> "added"].kind \in Owing THEN 1 ELSE 0)
        BY <1>2, MessageTypes, MarkedOneMore DEF Added, Owed
      <4>2. QED
        BY <4>1 DEF Owing
    <3>2. Cardinality(Marked(AfterDocument)) = Owed + 1
      <4>1. CASE Brought
        <5>1. Cardinality(Marked(AfterDocument)) =
                Cardinality(Marked(Added)) + (IF Document.kind \in Owing THEN 1 ELSE 0)
          BY <4>1, AnswerMessages, MessageTypes, MarkedOneMore DEF AfterDocument
        <5>2. Document.kind \notin Owing
          BY DEF Document, Owing
        <5>3. QED
          BY <2>1, <3>1, <5>1, <5>2
      <4>2. CASE ~Brought
        BY <3>1, <4>2 DEF AfterDocument
      <4>3. QED
        BY <4>1, <4>2
    <3>3. Cardinality(Marked(AfterCurrent)) = Owed + 1
      <4>1. Cardinality(Marked(AfterCurrent)) =
              Cardinality(Marked(AfterDocument))
              + (IF [kind |-> "current"].kind \in Owing THEN 1 ELSE 0)
        BY AnswerMessages, MessageTypes, MarkedOneMore DEF AfterCurrent
      <4>2. QED
        BY <2>1, <3>2, <4>1 DEF Owing
    <3>4. Cardinality(Marked(AfterSnapshot)) = Owed + 1
      <4> DEFINE last == [kind |-> "snapshot", version |-> Now]
      <4>1. Cardinality(Marked(AfterSnapshot)) =
              Cardinality(Marked(AfterCurrent)) + (IF last.kind \in Owing THEN 1 ELSE 0)
        BY AnswerMessages, MessageTypes, MarkedOneMore DEF AfterSnapshot
      <4>2. last.kind \notin Owing
        BY DEF Owing
      <4> HIDE DEF last
      <4>3. QED
        BY <2>1, <3>3, <4>1, <4>2
    <3>5. QED
      BY <2>2, <3>4, AnswerMessages
  <2>3. CASE responses' = Append(responses, [kind |-> "removed"])
    <3>1. responses' \in Seq(WatchChanges)
      BY <1>2, <2>3, MessageTypes, AppendProperties
    <3>2. Cardinality(Marked(responses')) = Owed + (IF [kind |-> "removed"].kind \in Owing THEN 1 ELSE 0)
      BY <1>2, <2>3, MessageTypes, MarkedOneMore DEF Owed
    <3>3. QED
      BY <3>1, <3>2 DEF Owing
  <2>4. QED
    BY <1>1, <2>2, <2>3
<1>5. Now' = Now /\ Views' = Views /\ Entries(0)' = Entries(0) /\ WatchChanges' = WatchChanges
      /\ Requests' = Requests /\ Events' = Events /\ Tasks' = Tasks
  BY <1>1 DEF Now, Views, Entries, WatchChanges, Requests, Events, Tasks
<1>6. serving' \in 0 .. Now
  BY <1>1, TypedFacts
<1>7. WireInv'
  <2>1. WireTypes'
    BY <1>1, <1>4, <1>5, <1>6, TypedFacts DEF WireInv, WireTypes
  <2>2. Offline'
    BY <1>1 DEF Offline
  <2>3. Count'
    <3>1. target.outstanding = Len(requests) + Owed /\ Owed \in Nat /\ Len(requests) \in Nat
      BY <1>2, TypedFacts, MarkedFinite DEF WireInv, Count, Owed
    <3>2. Owed' = Owed + 1
      BY <1>4 DEF Owed
    <3>3. QED
      BY <1>1, <1>3, <3>1, <3>2 DEF Count
  <2>4. QED
    BY <2>1, <2>2, <2>3 DEF WireInv
<1>8. Open' /\ Asserted'
  BY <1>1, TypedFacts, ListenSame
<1>9. ServerTypes' /\ AppTypes' /\ DiskTypes' /\ ListenTypes'
  BY <1>1, <1>5, <1>6 DEF Typed, ServerTypes, AppTypes, DiskTypes, ListenTypes
<1>10. QED
  BY <1>1, <1>7, <1>8, <1>9 DEF Typed

\* What the server sends when the document has changed.
LEMMA ServerSendsCases ==
  ASSUME Typed, ServerSends
  PROVE  /\ serving \in 1 .. Now - 1 /\ serving' = Now /\ responses' = Sent
         /\ UNCHANGED <<log, committedAt, dropped, made, reads, gone, answers, tasks, main, queue,
                        cache, saved, view, shown, listeners, waiting, tracker, stream, idle,
                        requests, target, update, results, faults>>
BY SentMessages DEF ServerSends, app, disk, listening

\* It owes no more than before.
LEMMA ServerSendsTyped ==
  ASSUME Typed, ServerSends
  PROVE  Typed'
<1>1. /\ serving \in 1 .. Now - 1 /\ serving' = Now /\ responses' = Sent
      /\ UNCHANGED <<log, committedAt, dropped, made, reads, gone, answers, tasks, main, queue,
                     cache, saved, view, shown, listeners, waiting, tracker, stream, idle,
                     requests, target, update, results, faults>>
  BY ServerSendsCases
<1>2. responses \in Seq(WatchChanges) /\ Now \in Nat
  BY TypedFacts DEF WireInv, WireTypes
<1>3. Cardinality(Marked(Sent)) = Owed
  <2> DEFINE last == [kind |-> "snapshot", version |-> Now]
  <2>1. Cardinality(Marked(Append(responses, Document))) =
          Owed + (IF Document.kind \in Owing THEN 1 ELSE 0)
    BY <1>2, MessageTypes, MarkedOneMore DEF Owed
  <2>2. Cardinality(Marked(Sent)) =
          Cardinality(Marked(Append(responses, Document))) + (IF last.kind \in Owing THEN 1 ELSE 0)
    BY SentMessages, MessageTypes, MarkedOneMore DEF Sent
  <2>3. Document.kind \notin Owing /\ last.kind \notin Owing /\ Owed \in Nat
    BY <1>2, MarkedFinite DEF Document, Owing, Owed
  <2> HIDE DEF last
  <2>4. QED
    BY <2>1, <2>2, <2>3
<1>4. stream = "open"
  <2>1. serving # 0
    BY <1>1, <1>2
  <2>2. QED
    BY <2>1, TypedFacts DEF WireInv, Offline
<1>5. Now' = Now /\ Views' = Views /\ Entries(0)' = Entries(0) /\ WatchChanges' = WatchChanges
      /\ Requests' = Requests /\ Events' = Events /\ Tasks' = Tasks
  BY <1>1 DEF Now, Views, Entries, WatchChanges, Requests, Events, Tasks
<1>6. serving' \in 0 .. Now
  BY <1>1, TypedFacts
<1>7. WireInv'
  <2>1. WireTypes'
    BY <1>1, <1>5, <1>6, SentMessages, TypedFacts DEF WireInv, WireTypes
  <2>2. Offline'
    BY <1>1, <1>4 DEF Offline
  <2>3. Count'
    BY <1>1, <1>3, TypedFacts DEF Count, Owed, WireInv
  <2>4. QED
    BY <2>1, <2>2, <2>3 DEF WireInv
<1>8. Open' /\ Asserted'
  BY <1>1, TypedFacts, ListenSame
<1>9. ServerTypes' /\ AppTypes' /\ DiskTypes' /\ ListenTypes'
  BY <1>1, <1>5, <1>6 DEF Typed, ServerTypes, AppTypes, DiskTypes, ListenTypes
<1>10. QED
  BY <1>1, <1>7, <1>8, <1>9 DEF Typed

\* A write makes a log of a log, at most one longer.
LEMMA LoggedType ==
  ASSUME Typed, NEW kind \in Kinds, NEW id \in (-MaxOthers) .. MaxWrites
  PROVE  /\ Logged(kind, id) \in Seq(Values) \ {<<>>}
         /\ Len(Logged(kind, id)) \in {Now, Now + 1}
         /\ \A n \in 1 .. Now : Logged(kind, id)[n] = log[n]
         /\ Logged(kind, id) # log =>
              /\ Len(Logged(kind, id)) = Now + 1
              /\ Logged(kind, id)[Now + 1] = AppliedTo(kind, id, log[Now])
              /\ AppliedTo(kind, id, log[Now]) # log[Now]
<1> DEFINE value == AppliedTo(kind, id, log[Now])
<1>1. value \in Values
  BY MessageTypes, AppliedToValue
<1>2. log \in Seq(Values) /\ log # <<>> /\ Now = Len(log) /\ Now \in Nat
  BY TypedFacts DEF Typed, ServerTypes, Now
<1>3. Logged(kind, id) = IF value = log[Now] THEN log ELSE Append(log, value)
  BY DEF Logged
<1> HIDE DEF value
<1>4. /\ Append(log, value) \in Seq(Values) \ {<<>>} /\ Len(Append(log, value)) = Now + 1
      /\ \A n \in 1 .. Now : Append(log, value)[n] = log[n]
      /\ Append(log, value)[Now + 1] = value
  BY <1>1, <1>2, AppendProperties
<1>5. CASE value = log[Now]
  BY <1>2, <1>3, <1>5
<1>6. CASE value # log[Now]
  BY <1>3, <1>4, <1>6 DEF value
<1>7. QED
  BY <1>5, <1>6

\* A log that grows disturbs no type.
LEMMA LoggedTyped ==
  ASSUME Typed, log' \in Seq(Values) \ {<<>>}, Len(log') \in {Now, Now + 1},
         committedAt' \in [1 .. MaxWrites -> 0 .. Len(log')], dropped' \subseteq DOMAIN made,
         results' \in Seq([ok : BOOLEAN, version : 1 .. Len(log')]), Len(results') <= Len(queue),
         UNCHANGED <<serving, made, reads, gone, answers, tasks, main, queue,
                     cache, saved, view, shown, listeners, waiting, tracker, stream, idle,
                     requests, responses, target, update, faults>>
  PROVE  Typed'
<1>1. log \in Seq(Values) /\ Len(log) = Now /\ Now \in Nat /\ Len(log) <= Len(log')
  <2>1. log \in Seq(Values) /\ Len(log) = Now /\ Now \in Nat
    BY TypedFacts DEF Now
  <2>2. QED
    BY <2>1
<1>2. /\ Now' = Len(log') /\ Now <= Now' /\ Now' \in Nat
      /\ Entries(0) \subseteq Entries(0)' /\ Views \subseteq Views'
  BY <1>1, LongerLog DEF Now
<1>3. 0 .. Now \subseteq 0 .. Now'
  BY <1>1, <1>2
<1>4. ServerTypes'
  BY <1>2, <1>3, TypedFacts DEF Typed, ServerTypes
<1>5. Events' = Events /\ Tasks' = Tasks
  BY DEF Events, Tasks
<1>6. AppTypes'
  BY <1>5, AppKept, TypedFacts DEF Typed
<1>7. DiskTypes'
  BY <1>2, <1>3 DEF Typed, DiskTypes
<1>8. ListenTypes'
  BY <1>2 DEF Typed, ListenTypes
<1>9. WireInv'
  BY <1>1, WireSame DEF Typed, wire
<1>10. Open' /\ Asserted'
  BY ListenSame DEF Typed
<1>11. QED
  BY <1>4, <1>6, <1>7, <1>8, <1>9, <1>10 DEF Typed

\* The write that is applied, and its result.
LEMMA ServerWritesCases ==
  ASSUME Typed, ServerWrites
  PROVE  \E w \in DOMAIN made, ok \in BOOLEAN :
           /\ Len(results) < Len(queue) /\ w = queue[Len(results) + 1]
           /\ ok <=> made[w] = "set" \/ log[Now] # Missing
           /\ made[w] \in Kinds /\ w \in (-MaxOthers) .. MaxWrites /\ w \in 1 .. MaxWrites
           /\ log' = IF ok THEN Logged(made[w], w) ELSE log
           /\ committedAt' = IF ok /\ committedAt[w] = 0 THEN [committedAt EXCEPT ![w] = Len(log')]
                             ELSE committedAt
           /\ dropped' = IF ok THEN dropped ELSE dropped \cup {w}
           /\ results' = Append(results, [ok |-> ok, version |-> Len(log')])
<1> DEFINE w == queue[Len(results) + 1]
           ok == made[w] = "set" \/ log[Now] # Missing
<1>1. Len(results) < Len(queue) /\ Len(results) \in Nat /\ queue \in Seq(DOMAIN made)
  BY TypedFacts DEF ServerWrites
<1>2. w \in DOMAIN made
  BY <1>1
<1>3. made[w] \in Kinds /\ w \in (-MaxOthers) .. MaxWrites /\ w \in 1 .. MaxWrites
  <2>1. made \in Seq(Kinds) /\ Len(made) <= MaxWrites /\ MaxWrites \in Nat
    BY TypedFacts, ReadAssumption
  <2>2. made[w] \in Kinds /\ w \in (-MaxOthers) .. MaxWrites
    BY <1>2, <2>1, OwnWrites
  <2>3. w \in 1 .. Len(made) /\ Len(made) \in Nat
    BY <1>2, <2>1
  <2> HIDE DEF w
  <2>4. QED
    BY <2>1, <2>2, <2>3
<1>4. /\ log' = IF ok THEN Logged(made[w], w) ELSE log
      /\ committedAt' = IF ok /\ committedAt[w] = 0 THEN [committedAt EXCEPT ![w] = Len(log')]
                        ELSE committedAt
      /\ dropped' = IF ok THEN dropped ELSE dropped \cup {w}
      /\ results' = Append(results, [ok |-> ok, version |-> Len(log')])
  BY DEF ServerWrites
<1>5. ok \in BOOLEAN
  OBVIOUS
<1>6. QED
  BY <1>1, <1>2, <1>3, <1>4, <1>5

\* A write the server applies, or refuses, keeps the invariant.
LEMMA ServerWritesTyped ==
  ASSUME Typed, ServerWrites
  PROVE  Typed'
<1>1. UNCHANGED <<serving, made, reads, gone, answers, tasks, main, queue,
                  cache, saved, view, shown, listeners, waiting, tracker, stream, idle,
                  requests, responses, target, update, faults>>
  BY DEF ServerWrites, app, disk, listening, net, wire
<1>2. PICK w \in DOMAIN made, ok \in BOOLEAN :
        /\ Len(results) < Len(queue) /\ w = queue[Len(results) + 1]
        /\ made[w] \in Kinds /\ w \in (-MaxOthers) .. MaxWrites /\ w \in 1 .. MaxWrites
        /\ log' = IF ok THEN Logged(made[w], w) ELSE log
        /\ committedAt' = IF ok /\ committedAt[w] = 0 THEN [committedAt EXCEPT ![w] = Len(log')]
                          ELSE committedAt
        /\ dropped' = IF ok THEN dropped ELSE dropped \cup {w}
        /\ results' = Append(results, [ok |-> ok, version |-> Len(log')])
  BY ServerWritesCases
<1>3. log \in Seq(Values) \ {<<>>} /\ Len(log) = Now /\ Now \in Nat /\ Now >= 1
  BY LogType DEF Typed, ServerTypes, Now
<1>4. log' \in Seq(Values) \ {<<>>} /\ Len(log') \in {Now, Now + 1}
  BY <1>2, <1>3, LoggedType
<1>5. Len(log') \in Nat /\ Len(log') >= 1 /\ Now <= Len(log')
  BY <1>3, <1>4
<1>6. 0 .. Now \subseteq 0 .. Len(log') /\ 1 .. Now \subseteq 1 .. Len(log') /\ Len(log') \in 1 .. Len(log')
      /\ Len(log') \in 0 .. Len(log')
  BY <1>3, <1>5
<1>7. committedAt' \in [1 .. MaxWrites -> 0 .. Len(log')]
  <2>1. committedAt \in [1 .. MaxWrites -> 0 .. Now]
    BY DEF Typed, ServerTypes
  <2>2. committedAt \in [1 .. MaxWrites -> 0 .. Len(log')]
    BY <1>6, <2>1
  <2>3. QED
    BY <1>2, <1>6, <2>2
<1>8. dropped' \subseteq DOMAIN made
  BY <1>2, TypedFacts
<1>9. /\ results' \in Seq([ok : BOOLEAN, version : 1 .. Len(log')]) /\ Len(results') <= Len(queue)
  <2> DEFINE R == [ok : BOOLEAN, version : 1 .. Len(log')]
             r == [ok |-> ok, version |-> Len(log')]
  <2>1. results \in Seq(Results) /\ Results \subseteq R /\ r \in R /\ queue \in Seq(DOMAIN made)
    BY <1>6, TypedFacts DEF Results
  <2>2. results \in Seq(R) /\ results' = Append(results, r)
    BY <1>2, <2>1, SeqMonotonic
  <2> HIDE DEF R, r
  <2>3. results' \in Seq(R) /\ Len(results') = Len(results) + 1 /\ Len(results) \in Nat /\ Len(queue) \in Nat
    BY <2>1, <2>2
  <2>4. QED
    BY <1>2, <2>3 DEF R
<1>10. QED
  BY <1>1, <1>4, <1>7, <1>8, <1>9, LoggedTyped

\* Another phone's write has a number that no write of the log has.
LEMMA OtherWriteNumber ==
  ASSUME NEW free \in SUBSET { -n : n \in 1 .. MaxOthers }, free # {}
  PROVE  (CHOOSE n \in free : \A m \in free : m <= n) \in free
<1> DEFINE T == { n \in 1 .. MaxOthers : -n \in free }
<1>1. T \subseteq Nat /\ T # {}
  BY ReadAssumption
<1>2. PICK b \in T : \A y \in T : b <= y
  <2> HIDE DEF T
  <2>1. QED
    BY <1>1, LeastNatural
<1>3. -b \in free /\ \A m \in free : m <= -b
  <2>1. b \in 1 .. MaxOthers /\ -b \in free
    BY <1>2
  <2>2. ASSUME NEW m \in free PROVE m <= -b
    <3>1. PICK n \in 1 .. MaxOthers : m = -n
      OBVIOUS
    <3>2. n \in T
      BY <3>1
    <3>3. QED
      BY <1>2, <2>1, <3>1, <3>2
  <2>3. QED
    BY <2>1, <2>2
<1>4. QED
  BY <1>3

\* What another phone writes.
LEMMA OtherPhoneWritesCases ==
  ASSUME NEW kind, OtherPhoneWrites(kind)
  PROVE  /\ kind = "set" \/ log[Now] # Missing
         /\ \E id \in (-MaxOthers) .. MaxWrites : id < 0 /\ log' = Logged(kind, id)
         /\ UNCHANGED <<serving, committedAt, dropped, made, reads, gone, answers, tasks, main, queue,
                        cache, saved, view, shown, listeners, waiting, tracker, stream, idle,
                        requests, responses, target, update, results, faults>>
<1> DEFINE others == { -n : n \in 1 .. MaxOthers }
           used == UNION { log[v] : v \in { v \in DOMAIN log : log[v] # Missing } }
           free == others \ used
           id == CHOOSE n \in free : \A m \in free : m <= n
<1>1. /\ free # {} /\ log' = Logged(kind, id) /\ (kind = "set" \/ log[Now] # Missing)
      /\ UNCHANGED <<serving, committedAt, dropped, made, reads, gone, answers, tasks, main, queue,
                     cache, saved, view, shown, listeners, waiting, tracker, stream, idle,
                     requests, responses, target, update, results, faults>>
  BY DEF OtherPhoneWrites, app, disk, listening, net, wire
<1>2. free \in SUBSET { -n : n \in 1 .. MaxOthers }
  OBVIOUS
<1> HIDE DEF free
<1>3. id \in free
  BY <1>1, <1>2, OtherWriteNumber
<1> HIDE DEF id
<1>4. id \in (-MaxOthers) .. MaxWrites /\ id < 0
  <2>1. PICK n \in 1 .. MaxOthers : id = -n
    BY <1>2, <1>3
  <2>2. QED
    BY <2>1, ReadAssumption
<1>5. QED
  BY <1>1, <1>4

\* So does a write of another phone.
LEMMA OtherPhoneWritesTyped ==
  ASSUME Typed, NEW kind \in Kinds, OtherPhoneWrites(kind)
  PROVE  Typed'
<1>1. /\ \E id \in (-MaxOthers) .. MaxWrites : log' = Logged(kind, id)
      /\ UNCHANGED <<serving, committedAt, dropped, made, reads, gone, answers, tasks, main, queue,
                     cache, saved, view, shown, listeners, waiting, tracker, stream, idle,
                     requests, responses, target, update, results, faults>>
  BY OtherPhoneWritesCases
<1>2. log' \in Seq(Values) \ {<<>>} /\ Len(log') \in {Now, Now + 1}
  BY <1>1, LoggedType
<1>3. Now \in Nat /\ Now <= Len(log')
  BY <1>2, TypedFacts
<1>4. 0 .. Now \subseteq 0 .. Len(log') /\ 1 .. Now \subseteq 1 .. Len(log')
  BY <1>2, <1>3
<1>5. committedAt' \in [1 .. MaxWrites -> 0 .. Len(log')]
  BY <1>1, <1>4 DEF Typed, ServerTypes
<1>6. results' \in Seq([ok : BOOLEAN, version : 1 .. Len(log')]) /\ Len(results') <= Len(queue)
  <2>1. Results \subseteq [ok : BOOLEAN, version : 1 .. Len(log')]
    BY <1>4 DEF Results
  <2>2. results \in Seq(Results) /\ Len(results) <= Len(queue)
    BY TypedFacts
  <2>3. QED
    BY <1>1, <2>1, <2>2, SeqMonotonic
<1>7. QED
  BY <1>1, <1>2, <1>5, <1>6, LoggedTyped, TypedFacts

-----------------------------------------------------------------------------
\* The invariant holds at first.
LEMMA InitTyped == Init => Typed
<1> SUFFICES ASSUME Init PROVE Typed
  OBVIOUS
<1>1. log \in { <<Missing>>, <<{}>> } /\ Now = 1 /\ log \in Seq(Values) \ {<<>>}
  <2>1. Missing \in Values /\ {} \in Values
    BY DEF Values
  <2>2. log \in { <<Missing>>, <<{}>> }
    BY DEF Init
  <2>3. PICK value \in Values : log = <<value>>
    BY <2>1, <2>2
  <2>4. Len(<<value>>) = 1 /\ <<value>> \in Seq(Values) /\ <<value>> # <<>>
    OBVIOUS
  <2>5. QED
    BY <2>2, <2>3, <2>4 DEF Now
<1>2. MaxWrites \in Nat /\ MaxReads \in Nat /\ MaxFaults \in Nat
  BY ReadAssumption
<1>3. NoEntry \in Entries(0) /\ NoView \in Views /\ NoSnapshot \in Snapshots
  BY <1>1, NoEntryType, NoViewType
<1>4. ServerTypes
  <2>1. results = <<>> /\ queue = <<>> /\ dropped = {} /\ serving = 0
        /\ committedAt = [w \in 1 .. MaxWrites |-> 0]
    BY DEF Init
  <2>2. QED
    BY <1>1, <2>1 DEF ServerTypes
<1>5. AppTypes
  BY <1>2 DEF Init, AppTypes
<1>6. DiskTypes
  BY <1>1, <1>3 DEF Init, DiskTypes
<1>7. ListenTypes
  BY <1>3 DEF Init, ListenTypes
<1>8. WireInv
  <2>1. NewTarget \in [outstanding : Nat, current : BOOLEAN, documents : Documents]
    BY DEF NewTarget, Documents
  <2>2. WireTypes
    <3>1. requests = <<>> /\ responses = <<>> /\ serving = 0 /\ stream = "off" /\ idle = FALSE
          /\ target = NewTarget /\ update = NoEntry
      BY DEF Init
    <3>2. <<>> \in Seq(Requests) /\ <<>> \in Seq(WatchChanges)
      BY EmptySeq
    <3>3. serving \in 0 .. Now
      BY <1>1, <3>1
    <3>4. QED
      BY <1>3, <2>1, <3>1, <3>2, <3>3 DEF WireTypes
  <2>3. Offline
    BY DEF Init, Offline
  <2>4. Count
    BY MarkedNone DEF Init, Count, Owed, NewTarget
  <2>5. QED
    BY <2>2, <2>3, <2>4 DEF WireInv
<1>9. Open /\ Asserted
  BY TrackerReset DEF Init, Open, Asserted, NoView, IsActiveTarget
<1>10. faults \in 0 .. MaxFaults
  BY <1>2 DEF Init
<1>11. QED
  BY <1>4, <1>5, <1>6, <1>7, <1>8, <1>9, <1>10 DEF Typed

\* It holds after a step that changes nothing,
LEMMA StutterTyped ==
  ASSUME Typed, UNCHANGED vars
  PROVE  Typed'
<1>1. UNCHANGED <<log, serving, committedAt, dropped, made, reads, gone, answers, tasks, main, queue,
                  cache, saved, view, shown, listeners, waiting, tracker, stream, idle,
                  requests, responses, target, update, results, faults>>
  BY DEF vars, server, app, disk, listening, net, wire
<1>2. Now' = Now /\ Views' = Views /\ Events' = Events /\ Tasks' = Tasks
      /\ Entries(0)' = Entries(0) /\ Results' = Results
  BY <1>1, SameSets
<1>3. WireInv'
  BY <1>1, TypedFacts, WireSame DEF wire
<1>4. Open' /\ Asserted'
  BY <1>1, TypedFacts, ListenSame
<1>5. ServerTypes' /\ AppTypes' /\ DiskTypes' /\ ListenTypes'
  BY <1>1, <1>2 DEF Typed, ServerTypes, AppTypes, DiskTypes, ListenTypes
<1>6. QED
  BY <1>1, <1>3, <1>4, <1>5 DEF Typed

\* The other phones' kinds of write are kinds of write.
LEMMA OtherKindsType == OtherKinds \subseteq Kinds
BY ReadAssumption DEF Kinds

\* The actions of a step.
LEMMA NextCases ==
  ASSUME Next
  PROVE  \/ getDocument \/ (\E kind \in Kinds : WriteData(kind)) \/ OnEvent
         \/ RunTask \/ OnWriteResult \/ OnlineStateTimeout
         \/ StreamOpens \/ StreamFails \/ ConnectionLost \/ IdleTimeout \/ OnWatchStreamChange
         \/ HandleCredentialChange \/ Restart
         \/ ServerAnswers \/ ServerSends \/ ServerWrites
         \/ (\E kind \in Kinds : OtherPhoneWrites(kind))
BY OtherKindsType DEF Next

\* and after every other.
LEMMA StepTyped == Typed /\ [Next]_vars => Typed'
<1> SUFFICES ASSUME Typed, [Next]_vars PROVE Typed'
  OBVIOUS
<1>1. CASE UNCHANGED vars
  BY <1>1, StutterTyped
<1>2. CASE Next
  <2>1. CASE getDocument
    BY <2>1, GetDocumentTyped
  <2>2. CASE \E kind \in Kinds : WriteData(kind)
    BY <2>2, WriteDataTyped
  <2>3. CASE OnEvent
    BY <2>3, OnEventTyped
  <2>4. CASE RunTask
    BY <2>4, RunTaskTyped
  <2>5. CASE OnWriteResult
    BY <2>5, OnWriteResultTyped
  <2>6. CASE OnlineStateTimeout
    BY <2>6, OnlineStateTimeoutTyped
  <2>7. CASE StreamOpens
    BY <2>7, StreamOpensTyped
  <2>8. CASE StreamFails
    BY <2>8, StreamFailsTyped
  <2>9. CASE ConnectionLost
    BY <2>9, ConnectionLostTyped
  <2>10. CASE IdleTimeout
    BY <2>10, IdleTimeoutTyped
  <2>11. CASE OnWatchStreamChange
    BY <2>11, HandleChangeTyped, SnapshotTyped
  <2>12. CASE HandleCredentialChange
    BY <2>12, HandleCredentialChangeTyped
  <2>13. CASE Restart
    BY <2>13, RestartTyped
  <2>14. CASE ServerAnswers
    BY <2>14, ServerAnswersTyped
  <2>15. CASE ServerSends
    BY <2>15, ServerSendsTyped
  <2>16. CASE ServerWrites
    BY <2>16, ServerWritesTyped
  <2>17. CASE \E kind \in Kinds : OtherPhoneWrites(kind)
    BY <2>17, OtherPhoneWritesTyped
  <2>18. QED
    BY <1>2, NextCases, <2>1, <2>2, <2>3, <2>4, <2>5, <2>6, <2>7, <2>8, <2>9, <2>10, <2>11,
       <2>12, <2>13, <2>14, <2>15, <2>16, <2>17
<1>3. QED
  BY <1>1, <1>2

\* So it always holds.
LEMMA TypedInvariant == Spec => []Typed
BY InitTyped, StepTyped, PTL DEF Spec

\* It contains what is to be shown.
LEMMA TypedTypeOK == Typed => TypeOK /\ HardAssertsHold
<1> SUFFICES ASSUME Typed PROVE TypeOK /\ HardAssertsHold
  OBVIOUS
<1>1. TypeOK
  <2>1. serving \in 0 .. Now /\ WireTypes /\ tracker \in Trackers
    BY DEF Typed, WireInv, WireTypes, Asserted, TrackerOK
  <2>2. NetTypes
    BY <2>1, TypesOfNet
  <2>3. QED
    BY <2>2 DEF Typed, TypeOK
<1>2. HardAssertsHold
  BY DEF Typed, Asserted, TrackerOK, HardAssertsHold
<1>3. QED
  BY <1>1, <1>2

(***************************************************************************)
(* Every variable has its type, for any bounds.                            *)
(***************************************************************************)
THEOREM TypeCorrect == Spec => []TypeOK
BY TypedInvariant, TypedTypeOK, PTL

(***************************************************************************)
(* No HARD_ASSERT of RemoteStore, OnlineStateTracker, Stream and           *)
(* LocalStore on the path of a read can fail.                              *)
(***************************************************************************)
THEOREM NoHardAssertFails == Spec => []HardAssertsHold
BY TypedInvariant, TypedTypeOK, PTL

(***************************************************************************)
(* The view is what the cache and the queue make of the document, but that *)
(* an estimate is not shown over the own write it was made from; its sync  *)
(* state is what was worked out last, and it is what is shown.             *)
(***************************************************************************)
WellFormed(v) ==
  /\ v.value = Missing <=> v.state = "none"
  /\ v.mutated <=> v.state = "local"

Matches(v, doc) ==
  \/ v.value = doc.value /\ (v.mutated <=> doc.state = "local")
  \/ v.state = "local" /\ doc.state = "committed"

Fits == view.open => Matches(view, GetDocument(cache, queue))

InLimbo(v) == ~v.synced /\ v.state \in {"committed", "synced"}

SyncState(v) ==
  /\ v.sync = IF v.current /\ ~v.limbo THEN "synced" ELSE "local"
  /\ v.current => (v.limbo <=> InLimbo(v))

Shown == shown = IF view.open THEN SnapshotOf(view) ELSE NoSnapshot

ViewShape ==
  /\ WellFormed(view) /\ (view.open => SyncState(view)) /\ Shown

ViewInv == ViewShape /\ Fits

\* A document that is put into a view fits it.
LEMMA WithDocumentMatches ==
  ASSUME NEW v \in Views, WellFormed(v), NEW doc \in Documented,
         doc.value = Missing <=> doc.state = "none"
  PROVE  /\ WellFormed(WithDocument(v, doc))
         /\ v.open => Matches(WithDocument(v, doc), doc)
         /\ ~v.open => WithDocument(v, doc) = v
<1> DEFINE new == [v EXCEPT !.value = doc.value, !.state = doc.state, !.mutated = doc.state = "local"]
<1>1. /\ v.mutated \in BOOLEAN /\ v.state \in States /\ doc.state \in States
  BY DEF Views, Documented, States
<1>2. /\ new.value = doc.value /\ new.state = doc.state
      /\ new.mutated = (doc.state = "local")
  BY DEF Views
<1>3. WithDocument(v, doc) = IF v.open /\ Changes(v, doc) THEN new ELSE v
  BY DEF WithDocument
<1> HIDE DEF new
<1>4. WellFormed(new) /\ Matches(new, doc)
  BY <1>2 DEF WellFormed, Matches
<1>5. ~Changes(v, doc) => Matches(v, doc)
  <2> SUFFICES ASSUME ~Changes(v, doc) PROVE Matches(v, doc)
    OBVIOUS
  <2> DEFINE pending == doc.state = "local" \/ (v.mutated /\ doc.state = "committed")
             wait == v.state = "local" /\ doc.state = "committed"
  <2>1. IF v.value = Missing \/ doc.value = Missing THEN v.value = doc.value
        ELSE IF v.value = doc.value THEN v.mutated = pending ELSE wait
    BY DEF Changes
  <2>2. CASE v.value = Missing \/ doc.value = Missing
    BY <2>1, <2>2 DEF Matches, WellFormed
  <2>3. CASE v.value # Missing /\ doc.value # Missing /\ v.value = doc.value
    <3>1. v.mutated = pending
      BY <2>1, <2>3
    <3>2. QED
      BY <1>1, <2>3, <3>1 DEF Matches, WellFormed
  <2>4. CASE v.value # Missing /\ doc.value # Missing /\ v.value # doc.value
    BY <2>1, <2>4 DEF Matches
  <2>5. QED
    BY <2>2, <2>3, <2>4
<1>6. QED
  BY <1>3, <1>4, <1>5

\* The document of the cache and the queue has a value exactly if it has a state.
LEMMA GetDocumentForm ==
  ASSUME Typed
  PROVE  /\ DocumentState(GetDocument(cache, queue), cache, queue)
         /\ GetDocument(cache, queue) \in Documented
         /\ GetDocument(cache, queue).value = Missing <=> GetDocument(cache, queue).state = "none"
<1>1. cache.unsynced \in BOOLEAN /\ cache.value \in Values
  BY TypedFacts DEF Entries
<1>2. DocumentState(GetDocument(cache, queue), cache, queue)
  BY <1>1, GetDocumentValue
<1>3. GetDocument(cache, queue) \in Documented
  BY <1>1, TypedFacts, GetDocumentType
<1>4. QED
  BY <1>2, <1>3 DEF DocumentState

\* A view that is published has the shape of one.
LEMMA PublishedShape ==
  ASSUME Typed, ViewShape, NEW v \in Views, WellFormed(v),
         v.open = view.open, v.since = view.since, ~view.open => v = view,
         view' = WithSyncState(v), shown' = PublishedSnapshot(v)
  PROVE  ViewShape'
<1>1. /\ view' \in Views /\ SameListen(v, view') /\ view'.value = v.value
      /\ view'.state = v.state /\ view'.mutated = v.mutated /\ view'.current = v.current
      /\ ~v.open => view' = v
  BY WithSyncStateType
<1>2. WellFormed(view')
  BY <1>1 DEF WellFormed
<1>3. view'.open => SyncState(view')
  <2> SUFFICES ASSUME v.open PROVE SyncState(view')
    BY <1>1 DEF SameListen
  <2> DEFINE limbo == IF v.current THEN ~v.synced /\ v.state \in {"committed", "synced"} ELSE v.limbo
  <2>1. view' = [v EXCEPT !.limbo = limbo, !.sync = IF v.current /\ ~limbo THEN "synced" ELSE "local"]
    BY DEF WithSyncState
  <2>2. view'.limbo = limbo /\ view'.sync = IF v.current /\ ~limbo THEN "synced" ELSE "local"
    BY <2>1 DEF Views
  <2>3. view'.current = v.current /\ view'.synced = v.synced /\ view'.state = v.state
    BY <1>1 DEF SameListen
  <2> HIDE DEF limbo
  <2>4. view'.current => limbo = InLimbo(view')
    BY <2>3 DEF limbo, InLimbo
  <2>5. QED
    BY <2>2, <2>3, <2>4 DEF SyncState
<1>4. Shown'
  <2>1. CASE v.open
    <3>1. shown' = IF view'.sync # view.sync \/ view'.value # view.value \/ view'.mutated # view.mutated
                     THEN SnapshotOf(view') ELSE shown
      BY DEF PublishedSnapshot
    <3>2. view'.open /\ view.open /\ view'.since = view.since
      BY <1>1, <2>1 DEF SameListen
    <3>3. shown = SnapshotOf(view)
      BY <3>2 DEF ViewShape, Shown
    <3>4. QED
      BY <3>1, <3>2, <3>3 DEF Shown, SnapshotOf
  <2>2. CASE ~v.open
    <3>1. view' = view /\ ~view.open
      BY <1>1, <2>2
    <3>2. shown' = shown
      BY <3>1 DEF PublishedSnapshot
    <3>3. QED
      BY <3>1, <3>2 DEF ViewShape, Shown
  <2>3. QED
    BY <2>1, <2>2
<1>5. QED
  BY <1>2, <1>3, <1>4 DEF ViewShape

\* Another call does not change what the writes before it make of a document.
LEMMA OverlayKept ==
  ASSUME Typed, NEW kind \in Kinds, made' = Append(made, kind), queue' = queue, NEW value
  PROVE  Overlay(value, queue)' = Overlay(value, queue)
<1>1. queue \in Seq(DOMAIN made) /\ made \in Seq(Kinds) /\ Len(queue) \in Nat
  BY TypedFacts
<1>2. PICK f : After(made, value, queue, f, Len(queue))
  BY <1>1, AfterExists
<1>3. \A i \in 1 .. Len(queue) : made'[queue[i]] = made[queue[i]]
  BY <1>1, AppendProperties
<1>4. After(made', value, queue, f, Len(queue))
  BY <1>2, <1>3 DEF After
<1>5. Laid(made', value, queue) = f[Len(queue)]
  BY <1>1, <1>4, LaidAfter
<1>6. Overlay(value, queue)' = Laid(made', value, queue')
  BY Zenon DEF Overlay, Laid
<1>7. Overlay(value, queue) = f[Len(queue)]
  BY <1>1, <1>2, OverlayAfter
<1>8. QED
  BY <1>5, <1>6, <1>7

\* The document that a new cache and a new queue make.
LEMMA NewDocument ==
  ASSUME Typed, UNCHANGED made, queue' \in Seq(DOMAIN made), cache'.value \in Values,
         cache'.unsynced \in BOOLEAN
  PROVE  /\ GetDocument(cache, queue)' = GetDocument(cache', queue')
         /\ GetDocument(cache', queue') \in Documented
         /\ GetDocument(cache', queue').value = Missing <=> GetDocument(cache', queue').state = "none"
<1>1. GetDocument(cache, queue)' = GetDocument(cache', queue')
  BY DEF GetDocument, Overlay
<1> DEFINE entry == cache'
           rows == queue'
<1>2. entry.value \in Values /\ entry.unsynced \in BOOLEAN /\ rows \in Seq(DOMAIN made)
  OBVIOUS
<1> HIDE DEF entry, rows
<1>3. GetDocument(entry, rows) \in Documented
  BY <1>2, TypedFacts, GetDocumentType
<1>4. DocumentState(GetDocument(entry, rows), entry, rows)
  BY <1>2, GetDocumentValue
<1>5. GetDocument(entry, rows).value = Missing <=> GetDocument(entry, rows).state = "none"
  BY <1>4 DEF DocumentState
<1>6. QED
  BY <1>1, <1>3, <1>5 DEF entry, rows

\* A step that leaves the view, and what it is made of, alone.
LEMMA ViewKept ==
  ASSUME ViewInv, UNCHANGED <<view, shown, cache, queue, made>>
  PROVE  ViewInv'
<1>1. GetDocument(cache, queue)' = GetDocument(cache, queue)
  BY DEF GetDocument, Overlay
<1>2. QED
  BY <1>1 DEF ViewInv, ViewShape, Shown, Fits

\* Another call of setData or updateData.
LEMMA ViewMade ==
  ASSUME Typed, ViewInv, NEW kind \in Kinds, made' = Append(made, kind),
         UNCHANGED <<view, shown, cache, queue>>
  PROVE  ViewInv'
<1>1. Overlay(cache.value, queue)' = Overlay(cache.value, queue)
  <2>1. PICK value : value = cache.value
    OBVIOUS
  <2>2. Overlay(value, queue)' = Overlay(value, queue)
    BY OverlayKept
  <2>3. Overlay(cache.value, queue)' = Overlay(value, queue)'
    BY <2>1 DEF Overlay
  <2>4. QED
    BY <2>1, <2>2, <2>3
<1>2. GetDocument(cache, queue)' = GetDocument(cache, queue)
  BY <1>1 DEF GetDocument
<1>3. QED
  BY <1>2 DEF ViewInv, ViewShape, Shown, Fits

\* A view without a change of its document, published.
LEMMA ViewRepublished ==
  ASSUME Typed, ViewInv, NEW v \in Views, SameListen(view, v) \/ (v.open = view.open /\ v.since = view.since),
         v.value = view.value, v.state = view.state, v.mutated = view.mutated,
         ~view.open => v = view,
         view' = WithSyncState(v), shown' = PublishedSnapshot(v),
         UNCHANGED <<made, cache, queue>>
  PROVE  ViewInv'
<1>1. v.open = view.open /\ v.since = view.since
  BY DEF SameListen
<1>2. WellFormed(v)
  BY DEF ViewInv, ViewShape, WellFormed
<1>3. ViewShape'
  BY <1>1, <1>2, PublishedShape DEF ViewInv
<1>4. Fits'
  <2>1. GetDocument(cache, queue)' = GetDocument(cache, queue)
    BY DEF GetDocument, Overlay
  <2>2. view'.open = v.open /\ view'.value = v.value /\ view'.state = v.state /\ view'.mutated = v.mutated
    BY WithSyncStateType DEF SameListen
  <2>3. QED
    BY <1>1, <2>1, <2>2 DEF Fits, Matches, ViewInv
<1>5. QED
  BY <1>3, <1>4 DEF ViewInv

\* A view with the document that a new cache or queue makes, published.
LEMMA ViewOfNewDocument ==
  ASSUME Typed, ViewInv, UNCHANGED made, queue' \in Seq(DOMAIN made), cache'.value \in Values,
         cache'.unsynced \in BOOLEAN,
         NEW w, w = WithDocument(view, GetDocument(cache', queue')),
         NEW v \in Views, v.open = view.open, v.since = view.since,
         v.value = w.value, v.state = w.state, v.mutated = w.mutated,
         ~view.open => v = view,
         view' = WithSyncState(v), shown' = PublishedSnapshot(v)
  PROVE  ViewInv'
<1> DEFINE doc == GetDocument(cache', queue')
<1>1. /\ GetDocument(cache, queue)' = doc /\ doc \in Documented
      /\ doc.value = Missing <=> doc.state = "none"
  BY NewDocument
<1> HIDE DEF doc
<1>2. w = WithDocument(view, doc) /\ view \in Views /\ WellFormed(view)
  BY TypedFacts DEF doc, ViewInv, ViewShape
<1>3. WellFormed(w) /\ (view.open => Matches(w, doc))
  BY <1>1, <1>2, WithDocumentMatches
<1>4. WellFormed(v)
  BY <1>3 DEF WellFormed
<1>5. ViewShape'
  BY <1>4, PublishedShape DEF ViewInv
<1>6. Fits'
  <2>1. view'.open = v.open /\ view'.value = v.value /\ view'.state = v.state /\ view'.mutated = v.mutated
    BY WithSyncStateType DEF SameListen
  <2>2. QED
    BY <1>1, <1>3, <2>1 DEF Fits, Matches
<1>7. QED
  BY <1>5, <1>6 DEF ViewInv

\* A view that is opened.
LEMMA ViewOpened ==
  ASSUME Typed, view' = WithSyncState(InitialView), shown' = SnapshotOf(view'),
         UNCHANGED <<made, cache, queue>>
  PROVE  ViewInv'
<1> DEFINE doc == GetDocument(cache, queue)
           first == [NoView EXCEPT !.open = TRUE, !.synced = saved.has, !.token = saved.token,
                                   !.since = Len(log)]
<1>1. /\ doc \in Documented /\ (doc.value = Missing <=> doc.state = "none")
      /\ GetDocument(cache, queue)' = doc
  BY GetDocumentForm DEF GetDocument, Overlay
<1>2. InitialView = WithDocument(first, doc)
  BY DEF InitialView
<1>3. first \in Views /\ first.open /\ WellFormed(first)
  <2>1. NoView \in Views /\ saved.has \in BOOLEAN /\ saved.token \in 0 .. Now /\ Len(log) \in 0 .. Now
    BY TypedFacts, NoViewType DEF Now
  <2>2. QED
    BY <2>1 DEF Views, NoView, WellFormed
<1> HIDE DEF doc, first
<1>4. /\ WellFormed(InitialView) /\ Matches(InitialView, doc)
  BY <1>1, <1>2, <1>3, WithDocumentMatches
<1>5. InitialView \in Views /\ InitialView.open
  BY InitialViewType
<1>6. /\ view' \in Views /\ view'.open /\ view'.value = InitialView.value /\ view'.state = InitialView.state
      /\ view'.mutated = InitialView.mutated
  BY <1>5, WithSyncStateType DEF SameListen
<1>7. SyncState(view')
  <2> DEFINE limbo == FALSE
  <2>1. view' = [InitialView EXCEPT !.limbo = InitialView.limbo, !.sync = "local"] /\ ~InitialView.current
    BY InitialViewType DEF WithSyncState
  <2>2. view'.sync = "local" /\ ~view'.current
    BY <1>5, <2>1 DEF Views
  <2>3. QED
    BY <2>2 DEF SyncState
<1>8. WellFormed(view') /\ Matches(view', doc)
  BY <1>4, <1>6 DEF WellFormed, Matches
<1>9. QED
  BY <1>1, <1>6, <1>7, <1>8 DEF ViewInv, ViewShape, Shown, Fits

\* A view that is closed.
LEMMA ViewClosed ==
  ASSUME view' = NoView, shown' = NoSnapshot
  PROVE  ViewInv'
BY DEF ViewInv, ViewShape, Shown, Fits, WellFormed, NoView

-----------------------------------------------------------------------------
(* What each action does, variable by variable.                            *)

\* What Publish does.
LEMMA PublishCases ==
  ASSUME NEW v, NEW online, Publish(v, online)
  PROVE  /\ view' = WithSyncState(v) /\ shown' = PublishedSnapshot(v)
         /\ RaiseInitialEvents(waiting, shown', online)
BY DEF Publish, PublishedSnapshot

\* What getDocument does,
LEMMA GetDocumentCases ==
  ASSUME getDocument
  PROVE  /\ reads' = Append(reads, [mine |-> Len(made), after |-> Len(answers)])
         /\ tasks' = Append(tasks, [kind |-> "listen", read |-> Len(reads) + 1])
         /\ UNCHANGED <<log, serving, committedAt, dropped, made, gone, answers, main, queue,
                        cache, saved, view, shown, listeners, waiting, tracker, stream, idle,
                        requests, responses, target, update, results, faults>>
BY DEF getDocument, server, disk, listening, net, wire

\* setData and updateData,
LEMMA WriteDataCases ==
  ASSUME NEW kind, WriteData(kind)
  PROVE  /\ kind = "set" \/ Blind \/ \E i \in DOMAIN answers : answers[i].snapshot.value # Missing
         /\ made' = Append(made, kind)
         /\ tasks' = Append(tasks, [kind |-> "write", write |-> Len(made) + 1])
         /\ UNCHANGED <<log, serving, committedAt, dropped, reads, gone, answers, main, queue,
                        cache, saved, view, shown, listeners, waiting, tracker, stream, idle,
                        requests, responses, target, update, results, faults>>
BY DEF WriteData, server, disk, listening, net, wire

\* and the event of a read.
LEMMA OnEventCases ==
  ASSUME OnEvent
  PROVE  /\ main # <<>> /\ main' = Tail(main)
         /\ tasks' = Append(tasks, [kind |-> "remove", read |-> Head(main).read])
         /\ answers' = Append(answers, Head(main))
         /\ UNCHANGED <<log, serving, committedAt, dropped, made, reads, gone, queue,
                        cache, saved, view, shown, listeners, waiting, tracker, stream, idle,
                        requests, responses, target, update, results, faults>>
BY DEF OnEvent, server, app, disk, listening, net, wire

\* A listener is added to an open view, or opens one.
Opens ==
  /\ view' = WithSyncState(InitialView) /\ shown' = SnapshotOf(view')
  /\ \/ stream = "off" /\ Restarted("starting") /\ tracker' = HandleWatchStreamStart(tracker)
     \/ /\ stream = "starting"
        /\ UNCHANGED <<tracker, stream, idle, requests, responses, target, update, serving>>
     \/ /\ stream = "open" /\ Send(Watch(view'))
        /\ UNCHANGED <<tracker, stream, responses, update, serving>>

\* What adding a listener does,
LEMMA AddListenerCases ==
  ASSUME Typed, NEW r, AddQueryListener(r)
  PROVE  /\ listeners' = listeners \cup {r} /\ UNCHANGED <<queue, saved>>
         /\ \/ /\ view.open /\ RaiseInitialEvents(waiting \cup {r}, shown', tracker.state)
               /\ UNCHANGED <<view, shown, tracker, stream, idle, requests, responses, target,
                              update, serving>>
            \/ ~view.open /\ Opens /\ RaiseInitialEvents({r}, shown', tracker.state)
<1>1. listeners' = listeners \cup {r} /\ UNCHANGED <<queue, saved>>
  BY DEF AddQueryListener
<1>2. CASE view.open
  BY <1>1, <1>2 DEF AddQueryListener, net, wire
<1>3. CASE ~view.open
  <2>1. /\ view' = WithSyncState(InitialView) /\ shown' = SnapshotOf(view')
        /\ RaiseInitialEvents({r}, shown', tracker.state) /\ RemoteListen(view')
    BY <1>3 DEF AddQueryListener
  <2>2. stream \in {"off", "starting", "open"}
    BY TypedFacts DEF WireInv, WireTypes
  <2>3. CASE stream = "off"
    BY <1>1, <1>3, <2>1, <2>3 DEF RemoteListen, Opens
  <2>4. CASE stream = "starting"
    BY <1>1, <1>3, <2>1, <2>4 DEF RemoteListen, Opens, net, wire
  <2>5. CASE stream = "open"
    BY <1>1, <1>3, <2>1, <2>5 DEF RemoteListen, Opens
  <2>6. QED
    BY <2>2, <2>3, <2>4, <2>5
<1>4. QED
  BY <1>2, <1>3

\* A listener is removed, from an open view or as its last.
Closes ==
  /\ view' = NoView /\ shown' = NoSnapshot /\ saved' = [saved EXCEPT !.token = view.token]
  /\ \/ /\ stream = "open" /\ Send(Unwatch)
        /\ UNCHANGED <<tracker, stream, responses, update>>
     \/ /\ stream # "open" /\ tracker' = UpdateState(tracker, "unknown")
        /\ UNCHANGED <<stream, idle, requests, responses, target, update>>

\* and removing one.
LEMMA RemoveListenerCases ==
  ASSUME NEW r, RemoveQueryListener(r)
  PROVE  /\ listeners' = listeners \ {r} /\ waiting' = waiting \ {r}
         /\ UNCHANGED <<queue, main, serving>>
         /\ \/ UNCHANGED <<view, shown, saved, tracker, stream, idle, requests, responses, target, update>>
            \/ view.open /\ listeners' = {} /\ Closes
<1>1. /\ listeners' = listeners \ {r} /\ waiting' = waiting \ {r}
      /\ UNCHANGED <<queue, main, serving>>
  BY DEF RemoveQueryListener
<1>2. CASE ~(view.open /\ listeners' = {})
  BY <1>1, <1>2 DEF RemoveQueryListener, net, wire
<1>3. CASE view.open /\ listeners' = {}
  <2>1. /\ view' = NoView /\ shown' = NoSnapshot /\ saved' = [saved EXCEPT !.token = view.token]
        /\ RemoteStopListening
    BY <1>3 DEF RemoveQueryListener
  <2>2. Closes
    BY <2>1 DEF RemoteStopListening, Closes, wire
  <2>3. QED
    BY <1>1, <1>3, <2>2
<1>4. QED
  BY <1>2, <1>3

\* What queueing a write does,
LEMMA WriteMutationsCases ==
  ASSUME NEW w, WriteMutations(w)
  PROVE  /\ queue' = Append(queue, w)
         /\ Publish(WithDocument(view, GetDocument(cache, queue')), tracker.state)
         /\ UNCHANGED <<saved, listeners, tracker, stream, idle, requests, responses, target, update,
                        serving>>
BY DEF WriteMutations, net, wire

\* and its result.
LEMMA OnWriteResultCases ==
  ASSUME OnWriteResult
  PROVE  /\ results # <<>> /\ results' = Tail(results) /\ queue' = Tail(queue)
         /\ cache' = IF Head(results).ok
                       THEN ApplyBatchResult(cache, Head(queue), Head(results).version) ELSE cache
         /\ Publish(WithDocument(view, GetDocument(cache', queue')), tracker.state)
         /\ UNCHANGED <<saved, listeners, tracker, stream, idle, requests, responses, target, update,
                        serving, log, committedAt, dropped, made, reads, gone, answers, tasks, faults>>
BY DEF OnWriteResult, server, app, net, wire

\* What the timer of the online state does,
LEMMA OnlineStateTimeoutCases ==
  ASSUME OnlineStateTimeout
  PROVE  /\ tracker.timer /\ SetAndBroadcast([tracker EXCEPT !.state = "offline", !.timer = FALSE])
         /\ UNCHANGED <<log, serving, committedAt, dropped, made, reads, gone, answers, tasks, queue,
                        cache, saved, listeners, stream, idle, requests, responses, target, update,
                        results, faults>>
BY DEF OnlineStateTimeout, server, app, disk, wire

\* and a stream that opens.
LEMMA StreamOpensCases ==
  ASSUME StreamOpens
  PROVE  /\ stream = "starting" /\ stream' = "open"
         /\ IF view.open THEN Send(Watch(view)) ELSE UNCHANGED <<requests, target>>
         /\ UNCHANGED <<log, serving, committedAt, dropped, made, reads, gone, answers, tasks, main,
                        queue, cache, saved, view, shown, listeners, waiting, tracker, idle,
                        responses, update, results, faults>>
BY DEF StreamOpens, OnWatchStreamOpen, server, app, disk, listening

\* A stream that ends or starts anew, whatever for.
Ends(state, t) ==
  /\ Restarted(state) /\ SetAndBroadcast(t)
  /\ t.timer => state = "starting"
  /\ view.open => state = "starting"
  /\ UNCHANGED <<log, committedAt, dropped, made, reads, gone, answers, tasks, queue, cache, saved,
                 listeners>>

\* A stream that is closed ends so,
LEMMA OnWatchStreamCloseCases ==
  ASSUME OnWatchStreamClose
  PROVE  \E state \in {"off", "starting"} : \E t : Ends(state, t)
<1>1. UNCHANGED <<log, committedAt, dropped, made, reads, gone, answers, tasks, queue, cache, saved,
                  listeners>>
  BY DEF OnWatchStreamClose, app, disk
<1>2. CASE view.open
  <2>1. Restarted("starting") /\ SetAndBroadcast(HandleWatchStreamStart(HandleWatchStreamFailure(tracker)))
    BY <1>2 DEF OnWatchStreamClose
  <2>2. QED
    BY <1>1, <2>1 DEF Ends
<1>3. CASE ~view.open
  <2>1. Restarted("off") /\ SetAndBroadcast(UpdateState(tracker, "unknown"))
    BY <1>3 DEF OnWatchStreamClose
  <2>2. ~UpdateState(tracker, "unknown").timer
    BY DEF UpdateState
  <2>3. QED
    BY <1>1, <1>3, <2>1, <2>2 DEF Ends
<1>4. QED
  BY <1>2, <1>3

\* and so do all streams that end or start anew.
LEMMA StreamEndsCases ==
  ASSUME Typed, StreamFails \/ ConnectionLost \/ IdleTimeout \/ HandleCredentialChange
  PROVE  \E state \in {"off", "starting"} : \E t : Ends(state, t) /\ results' \in {results, <<>>}
<1>1. CASE StreamFails \/ ConnectionLost
  BY <1>1, OnWatchStreamCloseCases DEF StreamFails, ConnectionLost
<1>2. CASE IdleTimeout
  <2>1. Restarted("off") /\ SetAndBroadcast(UpdateState(tracker, "unknown"))
    BY <1>2 DEF IdleTimeout
  <2>2. ~UpdateState(tracker, "unknown").timer
    BY DEF UpdateState
  <2>3. ~view.open /\ results' = results
    BY <1>2, TypedFacts DEF IdleTimeout, Asserted
  <2>4. Ends("off", UpdateState(tracker, "unknown"))
    BY <1>2, <2>1, <2>2, <2>3 DEF Ends, IdleTimeout, app, disk
  <2>5. QED
    BY <2>3, <2>4
<1>3. CASE HandleCredentialChange
  <2> DEFINE t == HandleWatchStreamStart(UpdateState(tracker, "unknown"))
  <2>1. Ends("starting", t) /\ results' = <<>>
    BY <1>3 DEF Ends, HandleCredentialChange, app, disk
  <2>2. QED
    BY <2>1
<1>4. QED
  BY <1>1, <1>2, <1>3

\* A message that is no snapshot leaves the disk alone.
LEMMA HandleChangeCases ==
  ASSUME NEW message, HandleChange(message)
  PROVE  Publish(view, "online") /\ UNCHANGED <<cache, saved>>
BY DEF HandleChange, disk

\* What a restart leaves.
LEMMA RestartCases ==
  ASSUME Restart
  PROVE  /\ gone' = Len(reads) /\ tasks' = <<>> /\ main' = <<>>
         /\ view' = NoView /\ shown' = NoSnapshot /\ listeners' = {} /\ waiting' = {}
         /\ tracker' = NewTracker /\ Restarted("off") /\ results' = <<>>
         /\ UNCHANGED <<log, committedAt, made, reads, answers, queue, cache, saved>>
BY DEF Restart, disk

\* What the server leaves alone when it applies a write.
LEMMA ServerWritesKept ==
  ASSUME ServerWrites
  PROVE  UNCHANGED <<serving, made, reads, gone, answers, tasks, main, queue, cache, saved, view, shown,
                     listeners, waiting, tracker, stream, idle, requests, responses, target, update,
                     faults>>
BY DEF ServerWrites, app, disk, listening, net, wire

\* What being online or offline makes of the view.
LEMMA BroadcastShape ==
  ASSUME Typed, NEW t
  PROVE  /\ BroadcastView(t) \in Views /\ SameListen(view, BroadcastView(t))
         /\ BroadcastView(t).value = view.value /\ BroadcastView(t).state = view.state
         /\ BroadcastView(t).mutated = view.mutated
         /\ BroadcastView(t).current => view.current
         /\ t.state # tracker.state /\ t.state = "offline" => ~BroadcastView(t).current
         /\ t.state = tracker.state \/ t.state # "offline" => BroadcastView(t).current = view.current
<1>1. view \in Views
  BY TypedFacts
<1>2. CASE t.state # tracker.state
  <2>1. BroadcastView(t) = WithOnlineState(view, t.state)
    BY <1>2 DEF BroadcastView
  <2>2. view.current \in BOOLEAN
    BY <1>1 DEF Views
  <2>3. /\ BroadcastView(t) \in Views /\ SameListen(view, BroadcastView(t))
        /\ BroadcastView(t).value = view.value /\ BroadcastView(t).state = view.state
        /\ BroadcastView(t).mutated = view.mutated
        /\ BroadcastView(t).current = (view.current /\ t.state # "offline")
    BY <1>1, <2>1, WithOnlineStateType
  <2>4. QED
    BY <1>2, <2>2, <2>3
<1>3. CASE t.state = tracker.state
  BY <1>1, <1>3 DEF BroadcastView, SameListen
<1>4. QED
  BY <1>2, <1>3

-----------------------------------------------------------------------------
(* The view, action by action.                                             *)

\* No view is shown at first.
LEMMA ViewInitially == Init => ViewInv
BY DEF Init, ViewInv, ViewShape, Shown, Fits, WellFormed, NoView

\* The worker's tasks.
LEMMA ViewRunTask ==
  ASSUME Typed, ViewInv, RunTask
  PROVE  ViewInv'
<1>1. /\ tasks # <<>> /\ TaskKept
      /\ Head(tasks).kind = "listen" => AddQueryListener(Head(tasks).read)
      /\ Head(tasks).kind = "remove" => RemoveQueryListener(Head(tasks).read)
      /\ Head(tasks).kind = "write" => WriteMutations(Head(tasks).write)
  BY RunTaskCases
<1>2. /\ Head(tasks).kind \in {"listen", "remove", "write"}
      /\ Head(tasks).kind = "write" => Head(tasks).write \in DOMAIN made
  BY <1>1, FirstTask DEF Typed
<1>3. UNCHANGED <<cache, made, log>>
  BY <1>1 DEF TaskKept
<1>4. CASE Head(tasks).kind = "listen"
  <2>1. queue' = queue /\ (UNCHANGED <<view, shown>> \/ Opens)
    BY <1>1, <1>4, AddListenerCases
  <2>2. CASE UNCHANGED <<view, shown>>
    BY <1>3, <2>1, <2>2, ViewKept
  <2>3. CASE Opens
    BY <1>3, <2>1, <2>3, ViewOpened DEF Opens
  <2>4. QED
    BY <2>1, <2>2, <2>3
<1>5. CASE Head(tasks).kind = "remove"
  <2>1. queue' = queue /\ (UNCHANGED <<view, shown>> \/ Closes)
    BY <1>1, <1>5, RemoveListenerCases
  <2>2. CASE UNCHANGED <<view, shown>>
    BY <1>3, <2>1, <2>2, ViewKept
  <2>3. CASE Closes
    BY <2>3, ViewClosed DEF Closes
  <2>4. QED
    BY <2>1, <2>2, <2>3
<1>6. CASE Head(tasks).kind = "write"
  <2> DEFINE w == Head(tasks).write
             v == WithDocument(view, GetDocument(cache, queue'))
  <2>1. queue' = Append(queue, w) /\ view' = WithSyncState(v) /\ shown' = PublishedSnapshot(v)
    BY <1>1, <1>6, WriteMutationsCases, PublishCases
  <2>2. queue' \in Seq(DOMAIN made)
    BY <1>2, <1>6, <2>1, TypedFacts, AppendProperties
  <2>3. cache'.value \in Values /\ cache'.unsynced \in BOOLEAN
    BY <1>3, TypedFacts DEF Entries
  <2>4. v = WithDocument(view, GetDocument(cache', queue'))
    BY <1>3
  <2>5. /\ GetDocument(cache', queue') \in Documented
        /\ GetDocument(cache', queue').value = Missing <=> GetDocument(cache', queue').state = "none"
    BY <1>3, <2>2, <2>3, NewDocument
  <2>6. /\ v \in Views /\ v.open = view.open /\ v.since = view.since /\ (~view.open => v = view)
    BY <2>4, <2>5, TypedFacts, WithDocumentType, WithDocumentMatches DEF SameListen, ViewInv, ViewShape
  <2> HIDE DEF v
  <2>7. QED
    BY <1>3, <2>1, <2>2, <2>3, <2>4, <2>6, ViewOfNewDocument
<1>7. QED
  BY <1>2, <1>4, <1>5, <1>6

\* The result of a write.
LEMMA ViewOnWriteResult ==
  ASSUME Typed, Typed', ViewInv, OnWriteResult
  PROVE  ViewInv'
<1> DEFINE v == WithDocument(view, GetDocument(cache', queue'))
<1>1. view' = WithSyncState(v) /\ shown' = PublishedSnapshot(v) /\ UNCHANGED <<made, log, reads>>
  BY OnWriteResultCases, PublishCases
<1>2. queue' \in Seq(DOMAIN made) /\ cache' \in Entries(0)
  BY <1>1, SameSets DEF Typed, DiskTypes
<1>3. cache'.value \in Values /\ cache'.unsynced \in BOOLEAN
  BY <1>2 DEF Entries
<1>4. /\ GetDocument(cache', queue') \in Documented
      /\ GetDocument(cache', queue').value = Missing <=> GetDocument(cache', queue').state = "none"
  BY <1>1, <1>2, <1>3, NewDocument
<1>5. /\ v \in Views /\ v.open = view.open /\ v.since = view.since /\ (~view.open => v = view)
  BY <1>4, TypedFacts, WithDocumentType, WithDocumentMatches DEF SameListen, ViewInv, ViewShape
<1> HIDE DEF v
<1>6. v = WithDocument(view, GetDocument(cache', queue'))
  BY DEF v
<1>7. QED
  BY <1>1, <1>2, <1>3, <1>5, <1>6, ViewOfNewDocument

\* The online state, with or without a new stream.
LEMMA ViewBroadcast ==
  ASSUME Typed, ViewInv, NEW t, SetAndBroadcast(t), UNCHANGED <<made, cache, queue>>
  PROVE  ViewInv'
<1>1. /\ view' = WithSyncState(BroadcastView(t)) /\ shown' = PublishedSnapshot(BroadcastView(t))
      /\ ~view.open => BroadcastView(t) = view
  BY BroadcastResult
<1>2. /\ BroadcastView(t) \in Views /\ SameListen(view, BroadcastView(t))
      /\ BroadcastView(t).value = view.value /\ BroadcastView(t).state = view.state
      /\ BroadcastView(t).mutated = view.mutated
  BY BroadcastShape
<1>3. QED
  BY <1>1, <1>2, ViewRepublished

\* A message of the stream.
LEMMA ViewOnWatchStreamChange ==
  ASSUME Typed, Typed', ViewInv, OnWatchStreamChange
  PROVE  ViewInv'
<1>1. /\ responses # <<>> /\ UNCHANGED <<log, made, reads, queue>>
      /\ Head(responses).kind = "snapshot" => RaiseWatchSnapshot(Head(responses).version)
      /\ Head(responses).kind # "snapshot" => HandleChange(Head(responses))
  BY OnWatchStreamChangeCases
<1>2. CASE Head(responses).kind # "snapshot"
  <2>1. view' = WithSyncState(view) /\ shown' = PublishedSnapshot(view) /\ cache' = cache
    BY <1>1, <1>2, HandleChangeCases, PublishCases
  <2>2. view \in Views
    BY TypedFacts
  <2>3. QED
    BY <1>1, <2>1, <2>2, ViewRepublished
<1>3. CASE Head(responses).kind = "snapshot"
  <2>1. PICK version : version = Head(responses).version
    OBVIOUS
  <2>2. version \in 1 .. Now /\ RaiseWatchSnapshot(version)
    BY <1>1, <1>3, <2>1, TypedFacts, FirstMessage
  <2> DEFINE v == SeenView(version)
             w == Seen(version)
             doc == DocumentUpdate(version)
  <2>3. /\ cache' = IF Accepts(cache, doc) THEN doc ELSE cache
        /\ view' = WithSyncState(v) /\ shown' = PublishedSnapshot(v)
    BY <2>2, RaiseWatchSnapshotCases, PublishCases
  <2>4. /\ v \in Views /\ v.open = view.open /\ v.since = view.since
        /\ v.value = w.value /\ v.state = w.state /\ v.mutated = w.mutated
        /\ ~view.open => v = view
    BY <2>2, SeenViewType
  <2>5. cache' \in Entries(0)
    BY <2>2, SeenType
  <2>6. w = IF Accepts(cache, doc) THEN WithDocument(view, GetDocument(cache', queue)) ELSE view
    BY DEF Seen
  <2> HIDE DEF v, w
  <2>7. CASE Accepts(cache, doc)
    <3>1. cache'.value \in Values /\ cache'.unsynced \in BOOLEAN /\ queue' \in Seq(DOMAIN made)
      BY <1>1, <2>5, TypedFacts DEF Entries
    <3>2. w = WithDocument(view, GetDocument(cache', queue'))
      BY <1>1, <2>6, <2>7
    <3>3. QED
      BY <1>1, <2>3, <2>4, <3>1, <3>2, ViewOfNewDocument
  <2>8. CASE ~Accepts(cache, doc)
    <3>1. cache' = cache /\ v.value = view.value /\ v.state = view.state /\ v.mutated = view.mutated
      BY <2>3, <2>4, <2>6, <2>8
    <3>2. QED
      BY <1>1, <2>3, <2>4, <3>1, ViewRepublished
  <2>9. QED
    BY <2>7, <2>8
<1>4. QED
  BY <1>2, <1>3

\* Every step keeps the view what it is.
LEMMA ViewStep ==
  ASSUME Typed, Typed', ViewInv, [Next]_vars
  PROVE  ViewInv'
<1>1. CASE UNCHANGED vars
  <2>1. UNCHANGED <<view, shown, cache, queue, made>>
    BY <1>1 DEF vars, app, disk, listening
  <2>2. QED
    BY <2>1, ViewKept
<1>2. CASE getDocument
  BY <1>2, GetDocumentCases, ViewKept
<1>3. ASSUME NEW kind \in Kinds, WriteData(kind) PROVE ViewInv'
  BY <1>3, WriteDataCases, ViewMade
<1>4. CASE OnEvent
  BY <1>4, OnEventCases, ViewKept
<1>5. CASE RunTask
  BY <1>5, ViewRunTask
<1>6. CASE OnWriteResult
  BY <1>6, ViewOnWriteResult
<1>7. CASE OnlineStateTimeout
  BY <1>7, OnlineStateTimeoutCases, ViewBroadcast
<1>8. CASE StreamOpens
  BY <1>8, StreamOpensCases, ViewKept
<1>9. CASE StreamFails \/ ConnectionLost \/ IdleTimeout \/ HandleCredentialChange
  <2>1. PICK state \in {"off", "starting"} : \E t : Ends(state, t)
    BY <1>9, StreamEndsCases
  <2>2. PICK t : Ends(state, t)
    BY <2>1
  <2>3. SetAndBroadcast(t) /\ UNCHANGED <<made, cache, queue>>
    BY <2>2 DEF Ends
  <2>4. QED
    BY <2>3, ViewBroadcast
<1>10. CASE OnWatchStreamChange
  BY <1>10, ViewOnWatchStreamChange
<1>11. CASE Restart
  BY <1>11, RestartCases, ViewClosed
<1>12. CASE ServerAnswers
  BY <1>12, ServerAnswersCases, ViewKept
<1>13. CASE ServerSends
  BY <1>13, ServerSendsCases, ViewKept
<1>14. CASE ServerWrites
  BY <1>14, ServerWritesKept, ViewKept
<1>15. ASSUME NEW kind \in Kinds, OtherPhoneWrites(kind) PROVE ViewInv'
  BY <1>15, OtherPhoneWritesCases, ViewKept
<1>16. QED
  BY <1>1, <1>2, <1>3, <1>4, <1>5, <1>6, <1>7, <1>8, <1>9, <1>10, <1>11, <1>12, <1>13, <1>14, <1>15,
     NextCases

(***************************************************************************)
(* No read is lost: one that is not answered has its listener waiting or   *)
(* about to be added, or its event under way.  A listener is removed only  *)
(* after its answer, and waits only for a snapshot that is not cached.     *)
(***************************************************************************)
ListenTask(r) == \E i \in DOMAIN tasks : tasks[i] = [kind |-> "listen", read |-> r]
Event(r) == \E i \in DOMAIN main : main[i].read = r

UnderWay(r) == Answered(r) \/ r \in waiting \/ ListenTask(r) \/ Event(r)

Removes == \A i \in DOMAIN tasks : tasks[i].kind = "remove" => Answered(tasks[i].read)
Waits == waiting # {} => shown.fromCache /\ tracker.state # "offline"

ReadInv == (\A r \in DOMAIN reads : UnderWay(r)) /\ Removes /\ Waits

\* There are no reads at first.
LEMMA ReadsInitially == Init => ReadInv
BY DEF Init, ReadInv, Removes, Waits

\* The task that is run, and the others.
LEMMA TaskPopped ==
  ASSUME Typed, tasks # <<>>, tasks' = Tail(tasks)
  PROVE  /\ \A r : ListenTask(r) => ListenTask(r)' \/ Head(tasks) = [kind |-> "listen", read |-> r]
         /\ \A i \in DOMAIN tasks' : \E j \in DOMAIN tasks : tasks'[i] = tasks[j]
<1>1. tasks \in Seq(Tasks) /\ Len(tasks) \in Nat
  BY TypedFacts
<1>2. /\ Len(tasks') = Len(tasks) - 1 /\ DOMAIN tasks' = 1 .. Len(tasks) - 1
      /\ \A i \in 1 .. Len(tasks) - 1 : tasks'[i] = tasks[i + 1]
      /\ Head(tasks) = tasks[1] /\ DOMAIN tasks = 1 .. Len(tasks)
  BY <1>1, HeadTailProperties
<1>3. ASSUME NEW r, ListenTask(r)
      PROVE  ListenTask(r)' \/ Head(tasks) = [kind |-> "listen", read |-> r]
  <2>1. PICK i \in DOMAIN tasks : tasks[i] = [kind |-> "listen", read |-> r]
    BY <1>3 DEF ListenTask
  <2>2. CASE i = 1
    BY <1>2, <2>1, <2>2
  <2>3. CASE i # 1
    <3>1. i - 1 \in DOMAIN tasks' /\ tasks'[i - 1] = tasks[(i - 1) + 1] /\ (i - 1) + 1 = i
      BY <1>1, <1>2, <2>1, <2>3
    <3>2. QED
      BY <2>1, <3>1 DEF ListenTask
  <2>4. QED
    BY <2>2, <2>3
<1>4. \A i \in DOMAIN tasks' : i + 1 \in DOMAIN tasks /\ tasks'[i] = tasks[i + 1]
  BY <1>1, <1>2
<1>5. QED
  BY <1>3, <1>4

\* What raising initial events means for the listeners that were ready.
LEMMA RaisedEvents ==
  ASSUME Typed, NEW ready, ready \subseteq DOMAIN reads, NEW snapshot \in Snapshots, NEW online,
         RaiseInitialEvents(ready, snapshot, online)
  PROVE  /\ \A r \in ready : r \in waiting' \/ Event(r)'
         /\ \A r : Event(r) => Event(r)'
         /\ waiting' # {} => snapshot.fromCache /\ online # "offline"
<1>1. reads \in Seq([mine : Nat, after : Nat]) /\ main \in Seq(Events)
  BY TypedFacts
<1>2. /\ main' \in Seq(Events)
      /\ \/ /\ ready # {} /\ ShouldRaiseInitialEvent(snapshot, online)
            /\ waiting' = {} /\ Raised(ready, snapshot)
         \/ /\ ready = {} \/ ~ShouldRaiseInitialEvent(snapshot, online)
            /\ waiting' = ready /\ main' = main
  BY <1>1, RaiseInitialEventsResult
<1>3. CASE waiting' = {} /\ Raised(ready, snapshot)
  <2>1. DOMAIN main = 1 .. Len(main) /\ DOMAIN main' = 1 .. Len(main') /\ Len(main) \in Nat
        /\ Len(main') \in Nat
    BY <1>1, <1>2
  <2>2. \A i \in DOMAIN main : i \in DOMAIN main' /\ main'[i] = main[i]
    BY <1>3, <2>1 DEF Raised
  <2>3. QED
    BY <1>3, <2>2 DEF Raised, Event
<1>4. CASE waiting' = ready /\ main' = main /\ (ready = {} \/ ~ShouldRaiseInitialEvent(snapshot, online))
  BY <1>4 DEF ShouldRaiseInitialEvent, Event
<1>5. QED
  BY <1>2, <1>3, <1>4

\* Listeners wait, or have their event raised.
LEMMA ReadsRaised ==
  ASSUME Typed, ReadInv, UNCHANGED <<reads, gone, answers>>,
         NEW ready, ready \subseteq DOMAIN reads, waiting \subseteq ready, shown' \in Snapshots,
         NEW online, RaiseInitialEvents(ready, shown', online),
         online # "offline" => tracker'.state # "offline",
         \A r \in DOMAIN reads : ListenTask(r) => ListenTask(r)' \/ r \in ready,
         \A i \in DOMAIN tasks' : \E j \in DOMAIN tasks : tasks'[i] = tasks[j]
  PROVE  ReadInv'
<1>1. /\ \A r \in ready : r \in waiting' \/ Event(r)'
      /\ \A r : Event(r) => Event(r)'
      /\ waiting' # {} => shown'.fromCache /\ online # "offline"
  BY RaisedEvents
<1>2. \A r : Answered(r)' = Answered(r)
  BY DEF Answered
<1>3. \A r \in DOMAIN reads : UnderWay(r)'
  BY <1>1, <1>2 DEF ReadInv, UnderWay
<1>4. Removes'
  BY <1>2 DEF ReadInv, Removes
<1>5. QED
  BY <1>1, <1>3, <1>4 DEF ReadInv, Waits

\* What neither the reads nor what is shown depends on.
LEMMA ReadsKept ==
  ASSUME ReadInv, UNCHANGED <<reads, gone, answers, tasks, main, shown, waiting, tracker>>
  PROVE  ReadInv'
BY DEF ReadInv, UnderWay, ListenTask, Event, Answered, Removes, Waits

\* A task is added that neither adds nor removes a listener, or one to add it.
LEMMA TaskAdded ==
  ASSUME Typed, NEW task, tasks' = Append(tasks, task)
  PROVE  /\ \A r : ListenTask(r) => ListenTask(r)'
         /\ \E i \in DOMAIN tasks' : tasks'[i] = task
         /\ \A i \in DOMAIN tasks' : tasks'[i] = task \/ \E j \in DOMAIN tasks : tasks'[i] = tasks[j]
<1>1. tasks \in Seq(Tasks) /\ Len(tasks) \in Nat
  BY TypedFacts
<1>2. /\ DOMAIN tasks = 1 .. Len(tasks) /\ DOMAIN tasks' = 1 .. Len(tasks) + 1
      /\ \A i \in 1 .. Len(tasks) : tasks'[i] = tasks[i]
      /\ tasks'[Len(tasks) + 1] = task
  BY <1>1
<1>3. \A r : ListenTask(r) => ListenTask(r)'
  BY <1>1, <1>2 DEF ListenTask
<1>4. QED
  BY <1>1, <1>2, <1>3

\* A read that is called has its listener to come,
LEMMA ReadsGetDocument ==
  ASSUME Typed, ReadInv, getDocument
  PROVE  ReadInv'
<1>0. PICK n : n = Len(reads) + 1
  OBVIOUS
<1> DEFINE task == [kind |-> "listen", read |-> n]
<1>1. /\ reads' = Append(reads, [mine |-> Len(made), after |-> Len(answers)])
      /\ tasks' = Append(tasks, task)
      /\ UNCHANGED <<gone, answers, main, shown, waiting, tracker>>
  BY <1>0, GetDocumentCases
<1>2. DOMAIN reads' = DOMAIN reads \cup {n}
  <2>1. reads \in Seq([mine : Nat, after : Nat]) /\ Len(reads) \in Nat /\ DOMAIN reads = 1 .. Len(reads)
    BY TypedFacts
  <2>2. DOMAIN reads' = 1 .. Len(reads) + 1
    BY <1>1, <2>1
  <2>3. QED
    BY <1>0, <2>1, <2>2
<1>3. /\ \A r : ListenTask(r) => ListenTask(r)'
      /\ \E i \in DOMAIN tasks' : tasks'[i] = task
      /\ \A i \in DOMAIN tasks' : tasks'[i] = task \/ \E j \in DOMAIN tasks : tasks'[i] = tasks[j]
  BY <1>1, TaskAdded
<1>4. \A r : (Answered(r) => Answered(r)') /\ (Event(r) => Event(r)')
  BY <1>1 DEF Answered, Event
<1>5. \A r \in DOMAIN reads : UnderWay(r)'
  BY <1>1, <1>3, <1>4 DEF ReadInv, UnderWay
<1>6. UnderWay(n)'
  BY <1>3 DEF UnderWay, ListenTask
<1>7. Removes'
  <2>1. task.kind # "remove"
    OBVIOUS
  <2> HIDE DEF task
  <2>2. QED
    BY <1>3, <1>4, <2>1 DEF ReadInv, Removes
<1>8. QED
  BY <1>1, <1>2, <1>5, <1>6, <1>7 DEF ReadInv, Waits

\* a write makes no difference to one,
LEMMA ReadsWriteData ==
  ASSUME Typed, ReadInv, NEW kind, WriteData(kind)
  PROVE  ReadInv'
<1> DEFINE task == [kind |-> "write", write |-> Len(made) + 1]
<1>1. /\ tasks' = Append(tasks, task) /\ task.kind # "remove"
      /\ UNCHANGED <<reads, gone, answers, main, shown, waiting, tracker>>
  BY WriteDataCases
<1> HIDE DEF task
<1>2. /\ \A r : ListenTask(r) => ListenTask(r)'
      /\ \A i \in DOMAIN tasks' : tasks'[i] = task \/ \E j \in DOMAIN tasks : tasks'[i] = tasks[j]
  BY <1>1, TaskAdded
<1>3. \A r : (Answered(r)' = Answered(r)) /\ (Event(r) => Event(r)')
  BY <1>1 DEF Answered, Event
<1>4. \A r \in DOMAIN reads : UnderWay(r)'
  BY <1>1, <1>2, <1>3 DEF ReadInv, UnderWay
<1>5. Removes'
  BY <1>1, <1>2, <1>3 DEF ReadInv, Removes
<1>6. QED
  BY <1>1, <1>4, <1>5 DEF ReadInv, Waits

\* and one whose event is run is answered.
LEMMA ReadsOnEvent ==
  ASSUME Typed, ReadInv, OnEvent
  PROVE  ReadInv'
<1>0. PICK q : q = Head(main).read
  OBVIOUS
<1> DEFINE task == [kind |-> "remove", read |-> q]
<1>1. /\ main # <<>> /\ main' = Tail(main)
      /\ tasks' = Append(tasks, task) /\ answers' = Append(answers, Head(main))
      /\ UNCHANGED <<reads, gone, shown, waiting, tracker>>
  BY <1>0, OnEventCases
<1>2. /\ \A r : ListenTask(r) => ListenTask(r)'
      /\ \A i \in DOMAIN tasks' : tasks'[i] = task \/ \E j \in DOMAIN tasks : tasks'[i] = tasks[j]
  BY <1>1, TaskAdded
<1>3. /\ main \in Seq(Events) /\ answers \in Seq(Events) /\ Len(main) \in Nat /\ Len(answers) \in Nat
  BY TypedFacts
<1>4. /\ \A i \in DOMAIN answers : i \in DOMAIN answers' /\ answers'[i] = answers[i]
      /\ Len(answers) + 1 \in DOMAIN answers' /\ answers'[Len(answers) + 1] = Head(main)
  BY <1>1, <1>3
<1>5. (\A r : Answered(r) => Answered(r)') /\ Answered(q)'
  BY <1>0, <1>1, <1>4 DEF Answered
<1>6. \A r : Event(r) => Event(r)' \/ r = q
  <2> SUFFICES ASSUME NEW r, Event(r) PROVE Event(r)' \/ r = q
    OBVIOUS
  <2>1. /\ DOMAIN main' = 1 .. Len(main) - 1 /\ DOMAIN main = 1 .. Len(main)
        /\ \A i \in 1 .. Len(main) - 1 : main'[i] = main[i + 1]
        /\ Head(main) = main[1]
    BY <1>1, <1>3, HeadTailProperties
  <2>2. PICK i \in DOMAIN main : main[i].read = r
    BY DEF Event
  <2>3. CASE i = 1
    BY <1>0, <2>1, <2>2, <2>3
  <2>4. CASE i # 1
    <3>1. i - 1 \in DOMAIN main' /\ main'[i - 1] = main[(i - 1) + 1] /\ (i - 1) + 1 = i
      BY <1>3, <2>1, <2>2, <2>4
    <3>2. QED
      BY <2>2, <3>1 DEF Event
  <2>5. QED
    BY <2>3, <2>4
<1>7. \A r \in DOMAIN reads : UnderWay(r)'
  BY <1>1, <1>2, <1>5, <1>6 DEF ReadInv, UnderWay
<1>8. Removes'
  <2>1. task.read = q
    OBVIOUS
  <2> HIDE DEF task
  <2>2. QED
    BY <1>2, <1>5, <2>1 DEF ReadInv, Removes
<1>9. QED
  BY <1>1, <1>7, <1>8 DEF ReadInv, Waits

\* The worker leaves no read alone.
LEMMA ReadsRunTask ==
  ASSUME Typed, Typed', ReadInv, RunTask
  PROVE  ReadInv'
<1>1. /\ tasks # <<>> /\ tasks' = Tail(tasks) /\ UNCHANGED <<reads, gone, answers, log>>
      /\ Head(tasks).kind = "listen" => AddQueryListener(Head(tasks).read)
      /\ Head(tasks).kind = "remove" => RemoveQueryListener(Head(tasks).read)
      /\ Head(tasks).kind = "write" => WriteMutations(Head(tasks).write)
  BY RunTaskCases DEF TaskKept
<1>2. PICK r : r = Head(tasks).read
  OBVIOUS
<1>3. /\ Head(tasks).kind \in {"listen", "remove", "write"}
      /\ Head(tasks).kind \in {"listen", "remove"} => r \in DOMAIN reads
      /\ Head(tasks) = tasks[1] /\ 1 \in DOMAIN tasks
  <2>1. tasks \in Seq(Tasks)
    BY TypedFacts
  <2>2. QED
    BY <1>1, <1>2, <2>1, FirstTask, HeadTailProperties DEF Typed
<1>4. /\ \A q : ListenTask(q) => ListenTask(q)' \/ Head(tasks) = [kind |-> "listen", read |-> q]
      /\ \A i \in DOMAIN tasks' : \E j \in DOMAIN tasks : tasks'[i] = tasks[j]
  BY <1>1, TaskPopped
<1>5. \A q : ListenTask(q) => ListenTask(q)' \/ (Head(tasks).kind = "listen" /\ r = q)
  <2>1. \A q : Head(tasks) = [kind |-> "listen", read |-> q] =>
                 Head(tasks).kind = "listen" /\ Head(tasks).read = q
    OBVIOUS
  <2>2. QED
    BY <1>2, <1>4, <2>1
<1>6. /\ waiting \subseteq listeners /\ listeners \subseteq DOMAIN reads
      /\ (view.open <=> listeners # {})
  BY TypedFacts DEF Open
<1>7. shown' \in Snapshots /\ waiting' \subseteq listeners'
  BY DEF Typed, ListenTypes, Snapshots, Values
<1>8. CASE Head(tasks).kind = "listen"
  <2>1. PICK ready, online : /\ RaiseInitialEvents(ready, shown', online) /\ ready = waiting \cup {r}
                             /\ online # "offline" => tracker'.state # "offline"
    <3>1. CASE view.open
      BY <1>1, <1>2, <1>8, <3>1, AddListenerCases
    <3>2. CASE ~view.open
      <4>1. RaiseInitialEvents({r}, shown', tracker.state) /\ Opens
        BY <1>1, <1>2, <1>8, <3>2, AddListenerCases
      <4>2. waiting \cup {r} = {r}
        BY <1>6, <3>2
      <4>3. tracker' = HandleWatchStreamStart(tracker) \/ tracker' = tracker
        BY <4>1 DEF Opens
      <4>4. tracker'.state \in {tracker.state, "unknown"}
        <5>1. tracker \in Trackers
          BY TypedFacts DEF Asserted, TrackerOK
        <5>2. QED
          BY <4>3, <5>1 DEF HandleWatchStreamStart, Trackers
      <4>5. QED
        BY <4>1, <4>2, <4>4
    <3>3. QED
      BY <3>1, <3>2
  <2>2. ready \subseteq DOMAIN reads /\ waiting \subseteq ready /\ r \in ready
    BY <1>3, <1>6, <1>8, <2>1
  <2>3. \A q \in DOMAIN reads : ListenTask(q) => ListenTask(q)' \/ q \in ready
    BY <1>5, <2>2
  <2>4. QED
    BY <1>1, <1>4, <1>7, <2>1, <2>2, <2>3, ReadsRaised
<1>9. CASE Head(tasks).kind = "remove"
  <2>1. /\ listeners' = listeners \ {r} /\ waiting' = waiting \ {r} /\ UNCHANGED main
        /\ UNCHANGED <<shown, tracker>> \/ listeners' = {}
    BY <1>1, <1>2, <1>9, RemoveListenerCases
  <2>2. Answered(r)
    BY <1>2, <1>3, <1>9 DEF ReadInv, Removes
  <2>3. \A q : Answered(q)' = Answered(q) /\ Event(q)' = Event(q)
    BY <1>1, <2>1 DEF Answered, Event
  <2>4. \A q \in DOMAIN reads : UnderWay(q)'
    BY <1>5, <1>9, <2>1, <2>2, <2>3 DEF ReadInv, UnderWay
  <2>5. Removes'
    BY <1>4, <2>3 DEF ReadInv, Removes
  <2>6. Waits'
    BY <1>7, <2>1 DEF ReadInv, Waits
  <2>7. QED
    BY <1>1, <2>4, <2>5, <2>6 DEF ReadInv
<1>10. CASE Head(tasks).kind = "write"
  <2>1. RaiseInitialEvents(waiting, shown', tracker.state) /\ tracker' = tracker
    BY <1>1, <1>10, WriteMutationsCases, PublishCases
  <2>2. waiting \subseteq DOMAIN reads
    BY <1>6
  <2>3. \A q \in DOMAIN reads : ListenTask(q) => ListenTask(q)' \/ q \in waiting
    BY <1>5, <1>10
  <2>4. QED
    BY <1>1, <1>4, <1>7, <2>1, <2>2, <2>3, ReadsRaised
<1>11. QED
  BY <1>3, <1>8, <1>9, <1>10

\* A step of the worker that publishes the view.
LEMMA ReadsPublished ==
  ASSUME Typed, Typed', ReadInv, UNCHANGED <<reads, gone, answers, tasks>>,
         NEW v, Publish(v, tracker'.state)
  PROVE  ReadInv'
<1>1. RaiseInitialEvents(waiting, shown', tracker'.state)
  BY PublishCases
<1>2. waiting \subseteq DOMAIN reads /\ shown' \in Snapshots
  BY TypedFacts DEF Typed, ListenTypes, Snapshots, Values
<1>3. PICK online : online = tracker'.state
  OBVIOUS
<1>4. \A q \in DOMAIN reads : ListenTask(q) => ListenTask(q)' \/ q \in waiting
  BY DEF ListenTask
<1>5. QED
  BY <1>1, <1>2, <1>3, <1>4, ReadsRaised

\* After a restart there are none but those that were cut off.
LEMMA ReadsRestart ==
  ASSUME Typed, ReadInv, Restart
  PROVE  ReadInv'
<1>1. /\ gone' = Len(reads) /\ tasks' = <<>> /\ waiting' = {} /\ reads' = reads
  BY RestartCases
<1>2. \A r \in DOMAIN reads' : Answered(r)'
  BY <1>1, TypedFacts DEF Answered
<1>3. QED
  BY <1>1, <1>2 DEF ReadInv, UnderWay, Removes, Waits

\* No step loses a read.
LEMMA ReadsStep ==
  ASSUME Typed, Typed', ReadInv, [Next]_vars
  PROVE  ReadInv'
<1>1. CASE UNCHANGED vars
  <2>1. UNCHANGED <<reads, gone, answers, tasks, main, shown, waiting, tracker>>
    BY <1>1 DEF vars, app, listening, net
  <2>2. QED
    BY <2>1, ReadsKept
<1>2. CASE getDocument
  BY <1>2, ReadsGetDocument
<1>3. ASSUME NEW kind \in Kinds, WriteData(kind) PROVE ReadInv'
  BY <1>3, ReadsWriteData
<1>4. CASE OnEvent
  BY <1>4, ReadsOnEvent
<1>5. CASE RunTask
  BY <1>5, ReadsRunTask
<1>6. CASE OnWriteResult
  <2>1. /\ UNCHANGED <<reads, gone, answers, tasks, tracker>>
        /\ Publish(WithDocument(view, GetDocument(cache', queue')), tracker'.state)
    BY <1>6, OnWriteResultCases
  <2>2. QED
    BY <2>1, ReadsPublished
<1>7. CASE OnlineStateTimeout \/ StreamFails \/ ConnectionLost \/ IdleTimeout \/ HandleCredentialChange
  <2>1. \E t : SetAndBroadcast(t) /\ UNCHANGED <<reads, gone, answers, tasks>>
    <3>1. CASE OnlineStateTimeout
      BY <3>1, OnlineStateTimeoutCases
    <3>2. CASE ~OnlineStateTimeout
      <4>1. PICK state \in {"off", "starting"} : \E t : Ends(state, t)
        BY <1>7, <3>2, StreamEndsCases
      <4>2. QED
        BY <4>1 DEF Ends
    <3>3. QED
      BY <3>1, <3>2
  <2>2. PICK t : SetAndBroadcast(t) /\ UNCHANGED <<reads, gone, answers, tasks>>
    BY <2>1
  <2>3. tracker' = t /\ Publish(BroadcastView(t), t.state)
    BY <2>2, BroadcastResult
  <2>4. Publish(BroadcastView(t), tracker'.state)
    BY <2>3
  <2>5. QED
    BY <2>2, <2>4, ReadsPublished
<1>8. CASE StreamOpens
  BY <1>8, StreamOpensCases, ReadsKept
<1>9. CASE OnWatchStreamChange
  <2>1. /\ UNCHANGED <<reads, gone, answers, tasks>> /\ tracker' = UpdateState(tracker, "online")
        /\ Head(responses).kind = "snapshot" => RaiseWatchSnapshot(Head(responses).version)
        /\ Head(responses).kind # "snapshot" => HandleChange(Head(responses))
    BY <1>9, OnWatchStreamChangeCases
  <2>2. \E v : Publish(v, "online")
    <3>1. CASE Head(responses).kind = "snapshot"
      <4>1. PICK version : RaiseWatchSnapshot(version)
        BY <2>1, <3>1
      <4>2. QED
        BY <4>1, RaiseWatchSnapshotCases
    <3>2. CASE Head(responses).kind # "snapshot"
      BY <2>1, <3>2, HandleChangeCases
    <3>3. QED
      BY <3>1, <3>2
  <2>3. tracker'.state = "online"
    BY <2>1 DEF UpdateState
  <2>4. PICK v : Publish(v, tracker'.state)
    BY <2>2, <2>3
  <2>5. QED
    BY <2>1, <2>4, ReadsPublished
<1>10. CASE Restart
  BY <1>10, ReadsRestart
<1>11. CASE ServerAnswers
  BY <1>11, ServerAnswersCases, ReadsKept
<1>12. CASE ServerSends
  BY <1>12, ServerSendsCases, ReadsKept
<1>13. CASE ServerWrites
  BY <1>13, ServerWritesKept, ReadsKept
<1>14. ASSUME NEW kind \in Kinds, OtherPhoneWrites(kind) PROVE ReadInv'
  BY <1>14, OtherPhoneWritesCases, ReadsKept
<1>15. QED
  BY <1>1, <1>2, <1>3, <1>4, <1>5, <1>6, <1>7, <1>8, <1>9, <1>10, <1>11, <1>12, <1>13, <1>14, NextCases

(***************************************************************************)
(* The messages on the stream: which answer requests, which are for a      *)
(* version, and where.                                                     *)
(***************************************************************************)
Quiet(s, i) == \A j \in DOMAIN s : j >= i => s[j].kind \notin Owing
KindAt(s, i, kind) == i \in DOMAIN s /\ s[i].kind = kind
SnapshotAt(s, i, n) == KindAt(s, i, "snapshot") /\ s[i].version = n
DocumentAt(s, i, n) == KindAt(s, i, "document") /\ s[i].doc.version = n

\* The snapshot of a document comes next, or after the target is current.
Closed(s, i, n) == SnapshotAt(s, i, n) \/ (KindAt(s, i, "current") /\ SnapshotAt(s, i + 1, n))

Versioned(m) == m.kind \in {"document", "snapshot"}
VersionOf(m) == IF m.kind = "document" THEN m.doc.version ELSE m.version

(***************************************************************************)
(* The log, and what the cache has of it: a document that is there stays,  *)
(* and an entry is what the log has, or an estimate of an existing one.    *)
(***************************************************************************)
Grows == \A n \in 2 .. Now : log[n] # Missing

TrueDoc(doc) ==
  /\ doc.version \in 1 .. Now /\ log[doc.version] # Missing
  /\ doc = Entry(doc.version, log[doc.version], FALSE)

CacheTrue ==
  /\ ~cache.unsynced /\ cache.version > 0 => cache.value = log[cache.version]
  /\ cache.unsynced => cache.version > 0 /\ log[cache.version] # Missing
  /\ cache.version = 0 => cache = NoEntry

ResultsTrue == \A i \in DOMAIN results : results[i].ok => log[results[i].version] # Missing

DataInv == Grows /\ CacheTrue /\ ResultsTrue

(***************************************************************************)
(* The messages under way: documents are what the log has, each with its   *)
(* snapshot behind it, in the order of their versions.                     *)
(***************************************************************************)
Truths ==
  /\ \A i \in DOMAIN responses : responses[i].kind = "document" => TrueDoc(responses[i].doc)
  /\ update = NoEntry \/ TrueDoc(update)

Followed ==
  /\ \A i \in DOMAIN responses : responses[i].kind = "document" =>
       Closed(responses, i + 1, responses[i].doc.version)
  /\ update.version # 0 => Closed(responses, 1, update.version)

Sorted(s) ==
  \A i, j \in DOMAIN s :
    i < j /\ Versioned(s[i]) /\ Versioned(s[j]) => VersionOf(s[i]) <= VersionOf(s[j])

NotBefore(m) == update.version <= VersionOf(m) /\ (cache.unsynced \/ cache.version <= VersionOf(m))

Order == Sorted(responses) /\ \A i \in DOMAIN responses : Versioned(responses[i]) => NotBefore(responses[i])

StreamInv == Truths /\ Followed /\ Order

(***************************************************************************)
(* What the client has of the target, on disk and in the view.             *)
(***************************************************************************)
Behind(token) == cache.version >= token /\ (cache.version = token => ~cache.unsynced)

Had(has, token) ==
  /\ has => token > 0 /\ log[token] # Missing
  /\ ~has => token = 0 \/ log[token] = Missing

Tokens ==
  /\ Behind(saved.token) /\ Had(saved.has, saved.token)
  /\ view.open =>
       Behind(view.token) /\ Had(view.synced, view.token) /\ saved.has = view.synced

LastRequest == view.open /\ requests # <<>> => requests[Len(requests)] = Watch(view)

TargetTrue ==
  view.open /\ target.outstanding = 0 =>
    /\ update.version # 0 => target.documents = IF view.synced THEN "modified" ELSE "added"
    /\ update.version = 0 => target.documents = "none"

Unread == view.open /\ view.current /\ target.outstanding > 0 => update = NoEntry

(***************************************************************************)
(* What the server has said in answer to the last request, once it has     *)
(* read it: the target is or will be current, each snapshot brings what is *)
(* new, and one comes unless the view has become current.                  *)
(***************************************************************************)
Heard == view.open /\ stream = "open" /\ requests = <<>>

Told(i, n) ==
  \/ update.version = n /\ Quiet(responses, 1)
  \/ \E j \in DOMAIN responses : j < i /\ Quiet(responses, j) /\ DocumentAt(responses, j, n)

CurrentBefore(i) ==
  \/ target.current
  \/ \E j \in DOMAIN responses : j < i /\ Quiet(responses, j) /\ KindAt(responses, j, "current")

SnapshotOK(i, n) ==
  /\ view.since <= n /\ view.token <= n
  /\ Told(i, n) \/ log[n] = Missing \/ n = view.token
  /\ CurrentBefore(i)

LastSnapshot(i) == Quiet(responses, i) /\ KindAt(responses, i, "snapshot")

Answering ==
  Heard =>
    /\ \A i \in DOMAIN responses : responses[i].kind = "removed" =>
         \E k \in DOMAIN responses : i < k /\ KindAt(responses, k, "added")
    /\ CurrentBefore(Len(responses) + 1)
    /\ \A i \in DOMAIN responses : LastSnapshot(i) => SnapshotOK(i, responses[i].version)
    /\ ~view.current \/ tracker.timer => \E i \in DOMAIN responses : LastSnapshot(i)

TargetInv == Tokens /\ LastRequest /\ TargetTrue /\ Unread /\ Answering

(***************************************************************************)
(* A current view and the cache.                                           *)
(***************************************************************************)
CurrentTrue ==
  view.open /\ view.current =>
    /\ cache.version >= view.since
    /\ ~view.synced /\ ~cache.unsynced => cache.value = Missing

Estimated ==
  view.open /\ cache.unsynced /\ cache.value # Missing /\ ~view.mutated =>
    cache.version <= view.since /\ ~view.current

CurrentInv == CurrentTrue /\ Estimated

-----------------------------------------------------------------------------
(* Messages, one read and one more.                                        *)

\* The messages after the first are one further on.
LEMMA TailFacts ==
  ASSUME NEW S, NEW s \in Seq(S), s # <<>>
  PROVE  /\ Len(s) \in Nat /\ DOMAIN s = 1 .. Len(s) /\ 1 \in DOMAIN s /\ Head(s) = s[1]
         /\ Tail(s) \in Seq(S) /\ Len(Tail(s)) = Len(s) - 1 /\ DOMAIN Tail(s) = 1 .. Len(s) - 1
         /\ \A i \in DOMAIN Tail(s) : i + 1 \in DOMAIN s /\ Tail(s)[i] = s[i + 1]
         /\ \A i \in DOMAIN s : i = 1 \/ \E k \in DOMAIN Tail(s) : i = k + 1
<1>1. Len(s) \in Nat /\ DOMAIN s = 1 .. Len(s) /\ Len(s) # 0
  BY EmptySeq
<1>2. /\ Head(s) = s[1] /\ Tail(s) \in Seq(S) /\ Len(Tail(s)) = Len(s) - 1
      /\ DOMAIN Tail(s) = 1 .. Len(s) - 1
      /\ \A i \in 1 .. Len(s) - 1 : Tail(s)[i] = s[i + 1]
  BY <1>1, HeadTailProperties
<1>3. 1 \in DOMAIN s
  BY <1>1
<1>4. \A i \in DOMAIN Tail(s) : i + 1 \in DOMAIN s /\ Tail(s)[i] = s[i + 1]
  BY <1>1, <1>2
<1>5. ASSUME NEW i \in DOMAIN s, i # 1 PROVE \E k \in DOMAIN Tail(s) : i = k + 1
  <2>1. i - 1 \in DOMAIN Tail(s) /\ i = (i - 1) + 1
    BY <1>1, <1>2, <1>5
  <2>2. QED
    BY <2>1
<1>6. QED
  BY <1>1, <1>2, <1>3, <1>4, <1>5

\* What is said of the messages after one is said one further on.
LEMMA TailShift ==
  ASSUME NEW S, NEW s \in Seq(S), s # <<>>, NEW i \in Nat \ {0}
  PROVE  /\ Quiet(Tail(s), i) <=> Quiet(s, i + 1)
         /\ \A kind : KindAt(Tail(s), i, kind) <=> KindAt(s, i + 1, kind)
         /\ \A n : SnapshotAt(Tail(s), i, n) <=> SnapshotAt(s, i + 1, n)
         /\ \A n : DocumentAt(Tail(s), i, n) <=> DocumentAt(s, i + 1, n)
         /\ \A n : Closed(Tail(s), i, n) <=> Closed(s, i + 1, n)
<1> DEFINE t == Tail(s)
<1>1. /\ Len(s) \in Nat /\ DOMAIN s = 1 .. Len(s) /\ DOMAIN t = 1 .. Len(s) - 1
      /\ \A j \in DOMAIN t : j + 1 \in DOMAIN s /\ t[j] = s[j + 1]
      /\ \A j \in DOMAIN s : j = 1 \/ \E k \in DOMAIN t : j = k + 1
  BY TailFacts
<1> HIDE DEF t
<1>2. \A j \in Nat \ {0} : j \in DOMAIN t <=> j + 1 \in DOMAIN s
  BY <1>1
<1>3. Quiet(t, i) <=> Quiet(s, i + 1)
  <2>1. ASSUME Quiet(t, i), NEW j \in DOMAIN s, j >= i + 1 PROVE s[j].kind \notin Owing
    <3>1. PICK k \in DOMAIN t : j = k + 1
      BY <1>1, <2>1
    <3>2. k >= i
      BY <1>1, <2>1, <3>1
    <3>3. QED
      BY <1>1, <2>1, <3>1, <3>2 DEF Quiet
  <2>2. ASSUME Quiet(s, i + 1), NEW j \in DOMAIN t, j >= i PROVE t[j].kind \notin Owing
    <3>1. j + 1 \in DOMAIN s /\ j + 1 >= i + 1 /\ t[j] = s[j + 1]
      BY <1>1, <2>2
    <3>2. QED
      BY <2>2, <3>1 DEF Quiet
  <2>3. QED
    BY <2>1, <2>2 DEF Quiet
<1>4. ASSUME NEW j \in Nat \ {0}
      PROVE  /\ \A kind : KindAt(t, j, kind) <=> KindAt(s, j + 1, kind)
             /\ \A n : SnapshotAt(t, j, n) <=> SnapshotAt(s, j + 1, n)
             /\ \A n : DocumentAt(t, j, n) <=> DocumentAt(s, j + 1, n)
  <2>1. \A kind : KindAt(t, j, kind) <=> KindAt(s, j + 1, kind)
    BY <1>1, <1>2 DEF KindAt
  <2>2. j \in DOMAIN t => t[j] = s[j + 1]
    BY <1>1
  <2>3. QED
    BY <2>1, <2>2 DEF SnapshotAt, DocumentAt, KindAt
<1>5. /\ \A kind : KindAt(t, i, kind) <=> KindAt(s, i + 1, kind)
      /\ \A n : SnapshotAt(t, i, n) <=> SnapshotAt(s, i + 1, n)
      /\ \A n : DocumentAt(t, i, n) <=> DocumentAt(s, i + 1, n)
  BY <1>4
<1>6. \A n : Closed(t, i, n) <=> Closed(s, i + 1, n)
  <2>1. PICK k \in Nat \ {0} : k = i + 1
    OBVIOUS
  <2>2. \A n : SnapshotAt(t, k, n) <=> SnapshotAt(s, k + 1, n)
    BY <1>4
  <2>3. \A n : Closed(t, i, n) <=> SnapshotAt(t, i, n) \/ (KindAt(t, i, "current") /\ SnapshotAt(t, k, n))
    BY <2>1 DEF Closed
  <2>4. \A n : Closed(s, k, n) <=> SnapshotAt(s, k, n) \/ (KindAt(s, k, "current") /\ SnapshotAt(s, k + 1, n))
    BY DEF Closed
  <2>5. QED
    BY <1>5, <2>1, <2>2, <2>3, <2>4
<1> USE DEF t
<1>7. QED
  BY <1>3, <1>5, <1>6

\* Nothing is quiet before an answer to a request.
LEMMA QuietFrom ==
  ASSUME NEW s, NEW i, Quiet(s, i), NEW j \in DOMAIN s, s[j].kind \in Owing
  PROVE  ~ (j >= i)
BY DEF Quiet

-----------------------------------------------------------------------------
(* The log, the results and the cache.                                     *)

LogExtends == Now <= Now' /\ \A n \in 1 .. Now : log'[n] = log[n]

\* A write that is applied leaves a document.
LEMMA AppliedToThere ==
  ASSUME NEW kind \in Kinds, NEW id \in (-MaxOthers) .. MaxWrites, NEW value \in Values,
         kind = "set" \/ value # Missing
  PROVE  AppliedTo(kind, id, value) # Missing
<1>1. AppliedTo(kind, id, value) \in SUBSET ((-MaxOthers) .. MaxWrites)
  <2>1. CASE kind = "set"
    <3>1. AppliedTo(kind, id, value) = {id}
      BY <2>1 DEF AppliedTo
    <3>2. QED
      BY <3>1
  <2>2. CASE kind # "set"
    <3>1. AppliedTo(kind, id, value) = value \cup {id}
      BY <2>2 DEF AppliedTo, Kinds
    <3>2. value \in SUBSET ((-MaxOthers) .. MaxWrites)
      BY <2>2 DEF Values
    <3>3. QED
      BY <3>1, <3>2
  <2>3. QED
    BY <2>1, <2>2
<1>2. QED
  BY <1>1, ReadAssumption

\* A write makes the log no shorter, and leaves a document.
LEMMA LogWritten ==
  ASSUME Typed, Grows, NEW kind \in Kinds, NEW id \in (-MaxOthers) .. MaxWrites,
         kind = "set" \/ log[Now] # Missing, log' = Logged(kind, id)
  PROVE  LogExtends /\ Grows' /\ log'[Now'] # Missing
<1> DEFINE value == AppliedTo(kind, id, log[Now])
<1>1. value # Missing
  BY MessageTypes, AppliedToThere
<1> HIDE DEF value
<1>2. Now \in Nat /\ Now >= 1 /\ Now' = Len(log')
  BY TypedFacts DEF Now
<1>3. /\ Len(log') \in {Now, Now + 1} /\ \A n \in 1 .. Now : log'[n] = log[n]
      /\ log' # log => Len(log') = Now + 1 /\ log'[Now + 1] = value
  BY LoggedType DEF value
<1>4. CASE log' = log
  <2>1. value = log[Now]
    <3>1. value # log[Now] => log' = Append(log, value)
      BY DEF Logged, value
    <3>2. Len(Append(log, value)) # Len(log)
      BY TypedFacts, <1>2, MessageTypes, AppliedToValue, AppendProperties DEF value
    <3>3. QED
      BY <1>4, <3>1, <3>2
  <2>2. Now' = Now
    BY <1>4 DEF Now
  <2>3. QED
    BY <1>1, <1>2, <1>4, <2>1, <2>2 DEF LogExtends, Grows
<1>5. CASE log' # log
  <2>1. Now' = Now + 1 /\ log'[Now'] = value
    BY <1>2, <1>3, <1>5
  <2>2. LogExtends
    BY <1>2, <1>3, <2>1 DEF LogExtends
  <2>3. ASSUME NEW n \in 2 .. Now' PROVE log'[n] # Missing
    <3>1. n = Now' \/ (n \in 2 .. Now /\ n \in 1 .. Now)
      BY <1>2, <2>1
    <3>2. QED
      BY <1>1, <1>3, <2>1, <3>1 DEF Grows
  <2>4. QED
    BY <1>1, <2>1, <2>2, <2>3 DEF Grows
<1>6. QED
  BY <1>4, <1>5

\* What leaves the log and the cache alone.
LEMMA DataKept ==
  ASSUME DataInv, UNCHANGED <<log, cache>>,
         \A i \in DOMAIN results' : \E j \in DOMAIN results : results'[i] = results[j]
  PROVE  DataInv'
<1>1. Now' = Now
  BY DEF Now
<1>2. QED
  BY <1>1 DEF DataInv, Grows, CacheTrue, ResultsTrue

\* Results, fewer or the same.
LEMMA FewerResults ==
  ASSUME Typed, results' \in {results, <<>>} \/ (results # <<>> /\ results' = Tail(results))
  PROVE  \A i \in DOMAIN results' : \E j \in DOMAIN results : results'[i] = results[j]
<1>1. CASE results' \in {results, <<>>}
  BY <1>1
<1>2. CASE results # <<>> /\ results' = Tail(results)
  BY <1>2, TypedFacts, TailFacts
<1>3. QED
  BY <1>1, <1>2

\* A log that is longer has what it had.
LEMMA CacheOfLonger ==
  ASSUME Typed, DataInv, LogExtends, UNCHANGED cache
  PROVE  CacheTrue'
<1>1. cache.version \in 0 .. Now /\ cache.unsynced \in BOOLEAN /\ Now \in Nat
  BY TypedFacts DEF Entries
<1>2. cache.version > 0 => cache.version \in 1 .. Now
  BY <1>1
<1>3. QED
  BY <1>1, <1>2 DEF DataInv, CacheTrue, LogExtends

\* The server applies or refuses a write of this phone,
LEMMA DataServerWrites ==
  ASSUME Typed, DataInv, ServerWrites
  PROVE  DataInv' /\ LogExtends
<1>1. PICK w \in DOMAIN made, ok \in BOOLEAN :
        /\ ok <=> made[w] = "set" \/ log[Now] # Missing
        /\ made[w] \in Kinds /\ w \in (-MaxOthers) .. MaxWrites
        /\ log' = IF ok THEN Logged(made[w], w) ELSE log
        /\ results' = Append(results, [ok |-> ok, version |-> Len(log')])
  BY ServerWritesCases
<1>2. cache' = cache
  BY ServerWritesKept
<1>3. Grows
  BY DEF DataInv
<1>4. /\ LogExtends /\ Grows' /\ (ok => log'[Now'] # Missing)
  <2>1. CASE ok
    BY <1>1, <1>3, <2>1, LogWritten
  <2>2. CASE ~ok
    <3>1. Now' = Now /\ log' = log /\ Now \in Nat
      BY <1>1, <2>2, TypedFacts DEF Now
    <3>2. QED
      BY <1>3, <2>2, <3>1 DEF LogExtends, Grows
  <2>3. QED
    BY <2>1, <2>2
<1>5. CacheTrue'
  BY <1>2, <1>4, CacheOfLonger
<1>6. ResultsTrue'
  <2>1. results \in Seq(Results) /\ Len(results) \in Nat /\ Now' = Len(log') /\ Now \in Nat
    BY TypedFacts DEF Now
  <2> DEFINE r == [ok |-> ok, version |-> Len(log')]
  <2>2. /\ DOMAIN results = 1 .. Len(results) /\ DOMAIN results' = 1 .. Len(results) + 1
        /\ \A i \in 1 .. Len(results) : results'[i] = results[i]
        /\ results'[Len(results) + 1] = r
    BY <1>1, <2>1
  <2>3. r.ok = ok /\ r.version = Now'
    BY <2>1
  <2> HIDE DEF r
  <2>4. ASSUME NEW i \in DOMAIN results', results'[i].ok PROVE log'[results'[i].version] # Missing
    <3>1. CASE i \in DOMAIN results
      <4>1. results[i] \in Results
        BY <2>1, <3>1
      <4>2. results'[i] = results[i] /\ results[i].version \in 1 .. Now /\ log[results[i].version] # Missing
        BY <2>2, <2>4, <3>1, <4>1 DEF Results, DataInv, ResultsTrue
      <4>3. QED
        BY <1>4, <4>2 DEF LogExtends
    <3>2. CASE i \notin DOMAIN results
      <4>1. i = Len(results) + 1
        BY <2>1, <2>2, <3>2
      <4>2. QED
        BY <1>4, <2>2, <2>3, <2>4, <4>1
    <3>3. QED
      BY <3>1, <3>2
  <2>5. QED
    BY <2>4 DEF ResultsTrue
<1>7. QED
  BY <1>4, <1>5, <1>6 DEF DataInv

\* or takes one of another phone.
LEMMA DataOtherPhoneWrites ==
  ASSUME Typed, DataInv, NEW kind \in Kinds, OtherPhoneWrites(kind)
  PROVE  DataInv' /\ LogExtends
<1>1. PICK id \in (-MaxOthers) .. MaxWrites : log' = Logged(kind, id)
  BY OtherPhoneWritesCases
<1>2. (kind = "set" \/ log[Now] # Missing) /\ UNCHANGED <<cache, results>>
  BY OtherPhoneWritesCases
<1>3. LogExtends /\ Grows'
  BY <1>1, <1>2, LogWritten DEF DataInv
<1>4. CacheTrue'
  BY <1>2, <1>3, CacheOfLonger
<1>5. ResultsTrue'
  <2>1. ASSUME NEW i \in DOMAIN results, results[i].ok PROVE log'[results[i].version] # Missing
    <3>1. results[i] \in Results
      BY TypedFacts
    <3>2. results[i].version \in 1 .. Now /\ log[results[i].version] # Missing
      BY <2>1, <3>1 DEF Results, DataInv, ResultsTrue
    <3>3. QED
      BY <1>3, <3>2 DEF LogExtends
  <2>2. QED
    BY <1>2, <2>1 DEF ResultsTrue
<1>6. QED
  BY <1>3, <1>4, <1>5 DEF DataInv

(***************************************************************************)
(* How the cache moves: an estimate is newer than what it is made from.    *)
(***************************************************************************)
CacheMoves ==
  \/ cache' = cache
  \/ cache'.version > cache.version
  \/ cache'.version = cache.version /\ ~cache'.unsynced

\* A write's result makes an estimate.
LEMMA DataOnWriteResult ==
  ASSUME Typed, DataInv, OnWriteResult
  PROVE  DataInv' /\ CacheMoves /\ (cache' = cache \/ cache'.unsynced)
<1>1. /\ results # <<>> /\ results' = Tail(results) /\ log' = log
      /\ cache' = IF Head(results).ok
                    THEN ApplyBatchResult(cache, Head(queue), Head(results).version) ELSE cache
  BY OnWriteResultCases
<1>2. Head(results) \in Results /\ Head(results) = results[1] /\ 1 \in DOMAIN results
  <2>1. results \in Seq(Results)
    BY TypedFacts
  <2>2. QED
    BY <1>1, <2>1, TailFacts
<1>3. PICK n : n = Head(results).version
  OBVIOUS
<1>4. n \in 1 .. Now /\ (Head(results).ok => log[n] # Missing) /\ Now \in Nat
  BY <1>2, <1>3, TypedFacts DEF Results, DataInv, ResultsTrue
<1>5. \A i \in DOMAIN results' : \E j \in DOMAIN results : results'[i] = results[j]
  BY <1>1, FewerResults
<1>6. CASE cache' = cache
  BY <1>1, <1>5, <1>6, DataKept DEF CacheMoves
<1>7. CASE cache' # cache
  <2> DEFINE value == AppliedTo(made[Head(queue)], Head(queue), cache.value)
  <2>1. /\ Head(results).ok /\ cache.version < n /\ cache' = Entry(n, value, TRUE)
    BY <1>1, <1>3, <1>7 DEF ApplyBatchResult
  <2> HIDE DEF value
  <2>2. cache'.version = n /\ cache'.unsynced
    BY <2>1 DEF Entry
  <2>3. CacheTrue' /\ Grows' /\ Now' = Now
    BY <1>1, <1>4, <2>1, <2>2 DEF CacheTrue, DataInv, Grows, Now
  <2>4. ResultsTrue'
    BY <1>1, <1>5 DEF DataInv, ResultsTrue
  <2>5. cache.version \in 0 .. Now
    BY TypedFacts DEF Entries
  <2>6. cache'.version > cache.version
    BY <1>4, <2>1, <2>2, <2>5
  <2>7. QED
    BY <2>2, <2>3, <2>4, <2>6 DEF DataInv, CacheMoves
<1>8. QED
  BY <1>6, <1>7

\* The cache takes what the log has.
LEMMA DataSnapshot ==
  ASSUME Typed, DataInv, UNCHANGED <<log, results>>, NEW n \in 1 .. Now,
         cache' \in {cache, Entry(n, log[n], FALSE)}
  PROVE  DataInv'
<1>1. Now' = Now /\ n > 0
  BY DEF Now
<1>2. CASE cache' = cache
  BY <1>2, DataKept
<1>3. CASE cache' = Entry(n, log[n], FALSE)
  <2>1. cache'.version = n /\ cache'.value = log[n] /\ cache'.unsynced = FALSE
    BY <1>3 DEF Entry
  <2>2. CacheTrue'
    BY <1>1, <2>1 DEF CacheTrue
  <2>3. QED
    BY <1>1, <2>2 DEF DataInv, Grows, ResultsTrue
<1>4. QED
  BY <1>2, <1>3

\* What the cache has got behind it stays there.
LEMMA BehindKept ==
  ASSUME Typed, CacheMoves, cache' \in Entries(0)', Now' \in Nat, NEW token \in Nat, Behind(token)
  PROVE  Behind(token)'
<1>1. cache.version \in Nat /\ cache'.version \in Nat
  BY TypedFacts DEF Entries
<1>2. QED
  BY <1>1 DEF Behind, CacheMoves

-----------------------------------------------------------------------------
(* What the server adds to the stream.                                     *)

\* Where the members of a longer sequence are.
LEMMA Appended ==
  ASSUME NEW S, NEW s \in Seq(S), NEW m \in S
  PROVE  /\ Append(s, m) \in Seq(S) /\ Len(s) \in Nat /\ DOMAIN s = 1 .. Len(s)
         /\ Len(Append(s, m)) = Len(s) + 1 /\ DOMAIN Append(s, m) = 1 .. Len(s) + 1
         /\ \A i \in DOMAIN s : Append(s, m)[i] = s[i]
         /\ Append(s, m)[Len(s) + 1] = m
OBVIOUS

\* The messages of an answer, and where they are.
AnswerAt(k) ==
  /\ DOMAIN AfterSnapshot = 1 .. k + 2
  /\ \A i \in DOMAIN responses : AfterSnapshot[i] = responses[i]
  /\ AfterSnapshot[Len(responses) + 1] = [kind |-> "added"]
  /\ AfterSnapshot[k + 1] = [kind |-> "current"]
  /\ AfterSnapshot[k + 2] = [kind |-> "snapshot", version |-> Now]
  /\ Brought => k = Len(responses) + 2 /\ AfterSnapshot[Len(responses) + 2] = Document
  /\ ~Brought => k = Len(responses) + 1

\* The messages of an answer, and where they are.
LEMMA AnswerPositions ==
  ASSUME Typed
  PROVE  \E k \in Nat : AnswerAt(k)
<1> DEFINE A == [kind |-> "added"]
           C == [kind |-> "current"]
           N == [kind |-> "snapshot", version |-> Now]
<1>1. /\ A \in WatchChanges /\ C \in WatchChanges /\ Document \in WatchChanges /\ N \in WatchChanges
      /\ responses \in Seq(WatchChanges) /\ Added \in Seq(WatchChanges)
      /\ AfterDocument \in Seq(WatchChanges) /\ AfterCurrent \in Seq(WatchChanges)
  BY MessageTypes, AnswerMessages
<1>2. /\ Added = Append(responses, A) /\ AfterCurrent = Append(AfterDocument, C)
      /\ AfterSnapshot = Append(AfterCurrent, N)
  BY DEF Added, AfterCurrent, AfterSnapshot
<1> HIDE DEF A, C, N
<1>3. /\ Len(responses) \in Nat /\ DOMAIN responses = 1 .. Len(responses)
      /\ DOMAIN Added = 1 .. Len(responses) + 1 /\ Len(Added) = Len(responses) + 1
      /\ \A i \in DOMAIN responses : Added[i] = responses[i]
      /\ Added[Len(responses) + 1] = A
  BY <1>1, <1>2, Appended
<1> DEFINE k == Len(AfterDocument)
<1>4. /\ k \in Nat /\ DOMAIN AfterDocument = 1 .. k
      /\ \A i \in DOMAIN Added : i \in DOMAIN AfterDocument /\ AfterDocument[i] = Added[i]
      /\ Brought => k = Len(responses) + 2 /\ AfterDocument[Len(responses) + 2] = Document
      /\ ~Brought => k = Len(responses) + 1
  <2>1. CASE Brought
    <3>1. AfterDocument = Append(Added, Document)
      BY <2>1 DEF AfterDocument
    <3>2. /\ Len(AfterDocument) = Len(Added) + 1 /\ DOMAIN AfterDocument = 1 .. Len(Added) + 1
          /\ \A i \in DOMAIN Added : AfterDocument[i] = Added[i]
          /\ AfterDocument[Len(Added) + 1] = Document
      BY <1>1, <3>1, Appended
    <3>3. QED
      BY <1>3, <2>1, <3>2
  <2>2. CASE ~Brought
    BY <1>3, <2>2 DEF AfterDocument
  <2>3. QED
    BY <2>1, <2>2
<1>5. /\ Len(AfterCurrent) = k + 1 /\ DOMAIN AfterCurrent = 1 .. k + 1
      /\ \A i \in DOMAIN AfterDocument : AfterCurrent[i] = AfterDocument[i]
      /\ AfterCurrent[k + 1] = C
  BY <1>1, <1>2, Appended
<1>6. /\ DOMAIN AfterSnapshot = 1 .. (k + 1) + 1
      /\ \A i \in DOMAIN AfterCurrent : AfterSnapshot[i] = AfterCurrent[i]
      /\ AfterSnapshot[(k + 1) + 1] = N
  BY <1>1, <1>2, <1>5, Appended
<1> HIDE DEF k
<1>7. (k + 1) + 1 = k + 2 /\ k + 1 \in 1 .. k + 1 /\ 1 .. k \subseteq 1 .. k + 1
  BY <1>4
<1>8. \A i \in DOMAIN AfterDocument : AfterSnapshot[i] = AfterDocument[i]
  BY <1>4, <1>5, <1>6, <1>7
<1>9. DOMAIN AfterSnapshot = 1 .. k + 2 /\ AfterSnapshot[k + 2] = N /\ AfterSnapshot[k + 1] = C
  BY <1>5, <1>6, <1>7
<1>10. Len(responses) + 1 \in DOMAIN Added /\ (Brought => Len(responses) + 2 \in DOMAIN AfterDocument)
       /\ \A i \in DOMAIN responses : i \in DOMAIN Added
  BY <1>3, <1>4
<1>11. AnswerAt(k)
  BY <1>3, <1>4, <1>8, <1>9, <1>10 DEF AnswerAt, A, C, N
<1>12. QED
  BY <1>4, <1>11

\* A new version of the document, and where its messages are.
LEMMA SentPositions ==
  ASSUME Typed
  PROVE  /\ Len(responses) \in Nat /\ DOMAIN responses = 1 .. Len(responses)
         /\ DOMAIN Sent = 1 .. Len(responses) + 2
         /\ \A i \in DOMAIN responses : Sent[i] = responses[i]
         /\ Sent[Len(responses) + 1] = Document
         /\ Sent[Len(responses) + 2] = [kind |-> "snapshot", version |-> Now]
<1> DEFINE N == [kind |-> "snapshot", version |-> Now]
           first == Append(responses, Document)
<1>1. /\ Document \in WatchChanges /\ N \in WatchChanges
      /\ responses \in Seq(WatchChanges)
  BY MessageTypes, AnswerMessages
<1>2. Sent = Append(first, N)
  BY DEF Sent
<1> HIDE DEF N
<1>3. /\ Len(responses) \in Nat /\ DOMAIN responses = 1 .. Len(responses)
      /\ first \in Seq(WatchChanges) /\ Len(first) = Len(responses) + 1
      /\ DOMAIN first = 1 .. Len(responses) + 1
      /\ \A i \in DOMAIN responses : first[i] = responses[i]
      /\ first[Len(responses) + 1] = Document
  BY <1>1, Appended
<1> HIDE DEF first
<1>4. /\ DOMAIN Sent = 1 .. Len(first) + 1
      /\ \A i \in DOMAIN first : Sent[i] = first[i]
      /\ Sent[Len(first) + 1] = N
  BY <1>1, <1>2, <1>3, Appended
<1>5. (Len(responses) + 1) + 1 = Len(responses) + 2 /\ Len(responses) + 1 \in DOMAIN first
      /\ \A i \in DOMAIN responses : i \in DOMAIN first
  BY <1>3
<1>6. QED
  BY <1>3, <1>4, <1>5 DEF N

\* The answer to the end of a target.
LEMMA RemovedPositions ==
  ASSUME Typed, responses' = Append(responses, [kind |-> "removed"])
  PROVE  /\ Len(responses) \in Nat /\ DOMAIN responses = 1 .. Len(responses)
         /\ DOMAIN responses' = 1 .. Len(responses) + 1
         /\ \A i \in DOMAIN responses : responses'[i] = responses[i]
         /\ responses'[Len(responses) + 1] = [kind |-> "removed"]
BY MessageTypes, AnswerMessages, Appended

(***************************************************************************)
(* New messages follow those there are, for the version there is.          *)
(***************************************************************************)
NewMessage(i) ==
  /\ i > Len(responses)
  /\ Versioned(responses'[i]) => VersionOf(responses'[i]) = Now
  /\ responses'[i].kind = "document" =>
       TrueDoc(responses'[i].doc) /\ Closed(responses', i + 1, responses'[i].doc.version)

Continued ==
  /\ \A i \in DOMAIN responses : i \in DOMAIN responses' /\ responses'[i] = responses[i]
  /\ \A i \in DOMAIN responses' : i \in DOMAIN responses \/ NewMessage(i)

\* The document that is sent is there.
LEMMA DocumentTrue ==
  ASSUME Typed, log[Now] # Missing
  PROVE  Document.kind = "document" /\ Document.doc.version = Now /\ TrueDoc(Document.doc)
         /\ Versioned(Document) /\ VersionOf(Document) = Now
<1>1. Now \in 1 .. Now
  BY TypedFacts
<1>2. Document.kind = "document" /\ Document.doc = Entry(Now, log[Now], FALSE)
  BY DEF Document
<1>3. Document.doc.version = Now
  BY <1>2 DEF Entry
<1>4. QED
  BY <1>1, <1>2, <1>3 DEF TrueDoc, Versioned, VersionOf

\* An answer follows the messages there are,
LEMMA AnswerContinues ==
  ASSUME Typed, responses' = AfterSnapshot
  PROVE  Continued
<1>1. PICK k \in Nat : AnswerAt(k)
  BY AnswerPositions
<1>2. Len(responses) \in Nat /\ DOMAIN responses = 1 .. Len(responses)
  BY TypedFacts DEF WireInv, WireTypes
<1> DEFINE L == Len(responses)
<1>3. /\ DOMAIN responses' = 1 .. k + 2
      /\ \A i \in DOMAIN responses : responses'[i] = responses[i]
      /\ responses'[L + 1] = [kind |-> "added"]
      /\ responses'[k + 1] = [kind |-> "current"]
      /\ responses'[k + 2] = [kind |-> "snapshot", version |-> Now]
      /\ Brought => k = L + 2 /\ responses'[L + 2] = Document
      /\ ~Brought => k = L + 1
  BY <1>1 DEF AnswerAt
<1>4. \A i \in DOMAIN responses : i \in DOMAIN responses'
  BY <1>2, <1>3
<1>5. NewMessage(L + 1)
  BY <1>2, <1>3 DEF NewMessage, Versioned
<1>6. NewMessage(k + 1)
  BY <1>2, <1>3 DEF NewMessage, Versioned
<1>7. NewMessage(k + 2)
  BY <1>2, <1>3 DEF NewMessage, Versioned, VersionOf
<1>8. Brought => NewMessage(L + 2)
  <2> SUFFICES ASSUME Brought PROVE NewMessage(L + 2)
    OBVIOUS
  <2>1. responses'[L + 2] = Document /\ k = L + 2 /\ log[Now] # Missing
    BY <1>3 DEF Brought
  <2>2. PICK p : p = (L + 2) + 1
    OBVIOUS
  <2>3. p = k + 1 /\ p + 1 = k + 2 /\ p \in DOMAIN responses' /\ p + 1 \in DOMAIN responses'
    BY <1>2, <1>3, <2>1, <2>2
  <2>4. Closed(responses', p, Now)
    BY <1>3, <2>3 DEF Closed, KindAt, SnapshotAt
  <2>5. /\ Document.kind = "document" /\ Document.doc.version = Now /\ TrueDoc(Document.doc)
        /\ VersionOf(Document) = Now
    BY <2>1, DocumentTrue
  <2>6. L + 2 > Len(responses)
    BY <1>2
  <2>7. QED
    BY <2>1, <2>2, <2>4, <2>5, <2>6 DEF NewMessage
<1>9. ASSUME NEW i \in DOMAIN responses', i \notin DOMAIN responses PROVE NewMessage(i)
  <2>1. i = L + 1 \/ i = k + 1 \/ i = k + 2 \/ (Brought /\ i = L + 2)
    BY <1>2, <1>3, <1>9
  <2>2. QED
    BY <1>5, <1>6, <1>7, <1>8, <2>1
<1>10. QED
  BY <1>3, <1>4, <1>9 DEF Continued

\* a new version does,
LEMMA SentContinues ==
  ASSUME Typed, log[Now] # Missing, responses' = Sent
  PROVE  Continued
<1> DEFINE L == Len(responses)
<1>1. /\ L \in Nat /\ DOMAIN responses = 1 .. L /\ DOMAIN responses' = 1 .. L + 2
      /\ \A i \in DOMAIN responses : responses'[i] = responses[i]
      /\ responses'[L + 1] = Document
      /\ responses'[L + 2] = [kind |-> "snapshot", version |-> Now]
  BY SentPositions
<1>2. NewMessage(L + 2)
  BY <1>1 DEF NewMessage, Versioned, VersionOf
<1>3. NewMessage(L + 1)
  <2>1. PICK p : p = (L + 1) + 1
    OBVIOUS
  <2>2. p = L + 2 /\ p \in DOMAIN responses'
    BY <1>1, <2>1
  <2>3. Closed(responses', p, Now)
    BY <1>1, <2>2 DEF Closed, KindAt, SnapshotAt
  <2>4. /\ Document.kind = "document" /\ Document.doc.version = Now /\ TrueDoc(Document.doc)
        /\ VersionOf(Document) = Now
    BY DocumentTrue
  <2>5. L + 1 > Len(responses)
    BY <1>1
  <2>6. QED
    BY <1>1, <2>1, <2>3, <2>4, <2>5 DEF NewMessage
<1>4. ASSUME NEW i \in DOMAIN responses', i \notin DOMAIN responses PROVE NewMessage(i)
  <2>1. i = L + 1 \/ i = L + 2
    BY <1>1, <1>4
  <2>2. QED
    BY <1>2, <1>3, <2>1
<1>5. \A i \in DOMAIN responses : i \in DOMAIN responses'
  BY <1>1
<1>6. QED
  BY <1>1, <1>4, <1>5 DEF Continued

\* and the end of a target.
LEMMA RemovedContinues ==
  ASSUME Typed, responses' = Append(responses, [kind |-> "removed"])
  PROVE  Continued
<1> DEFINE L == Len(responses)
<1>1. /\ L \in Nat /\ DOMAIN responses = 1 .. L /\ DOMAIN responses' = 1 .. L + 1
      /\ \A i \in DOMAIN responses : responses'[i] = responses[i]
      /\ responses'[L + 1] = [kind |-> "removed"]
  BY RemovedPositions
<1>2. NewMessage(L + 1)
  BY <1>1 DEF NewMessage, Versioned
<1>3. \A i \in DOMAIN responses' : i \in DOMAIN responses \/ i = L + 1
  BY <1>1
<1>4. \A i \in DOMAIN responses : i \in DOMAIN responses'
  BY <1>1
<1>5. QED
  BY <1>1, <1>2, <1>3, <1>4 DEF Continued

-----------------------------------------------------------------------------
(* The messages under way, step by step.                                   *)

\* A document that is true stays so when the log grows.
LEMMA TruthsKept ==
  ASSUME Typed, LogExtends, NEW doc, TrueDoc(doc)
  PROVE  TrueDoc(doc)'
<1>1. doc.version \in 1 .. Now /\ Now \in Nat /\ Now <= Now'
  BY TypedFacts DEF TrueDoc, LogExtends
<1>2. doc.version \in 1 .. Now' /\ log'[doc.version] = log[doc.version]
  BY <1>1 DEF LogExtends, Now
<1>3. QED
  BY <1>2 DEF TrueDoc

\* The messages stay true to a log that stays.
LEMMA SameLog ==
  ASSUME Typed, UNCHANGED log
  PROVE  LogExtends /\ Now' = Now
<1>1. Now' = Now /\ Now \in Nat
  BY TypedFacts DEF Now
<1>2. QED
  BY <1>1 DEF LogExtends

\* A message for a version is of one that there is.
LEMMA VersionTyped ==
  ASSUME Typed, NEW i \in DOMAIN responses, Versioned(responses[i])
  PROVE  VersionOf(responses[i]) \in 1 .. Now
<1>1. responses[i] \in WatchChanges
  BY TypedFacts DEF WireInv, WireTypes
<1>2. QED
  BY <1>1 DEF WatchChanges, Versioned, VersionOf, Entries

\* What leaves the stream alone, and makes no entry of the cache but an estimate.
LEMMA StreamKept ==
  ASSUME Typed, StreamInv, LogExtends, UNCHANGED <<responses, update>>, cache' = cache \/ cache'.unsynced
  PROVE  StreamInv'
<1>1. Truths'
  <2>1. \A i \in DOMAIN responses : responses[i].kind = "document" => TrueDoc(responses[i].doc)'
    <3>1. ASSUME NEW i \in DOMAIN responses, responses[i].kind = "document"
          PROVE  TrueDoc(responses[i].doc)'
      <4>1. PICK doc : doc = responses[i].doc
        OBVIOUS
      <4>2. TrueDoc(doc)
        BY <3>1, <4>1 DEF StreamInv, Truths
      <4>3. TrueDoc(doc)'
        BY <4>2, TruthsKept
      <4>4. QED
        BY <4>1, <4>3 DEF TrueDoc
    <3>2. QED
      BY <3>1
  <2>2. update = NoEntry \/ TrueDoc(update)'
    <3>1. PICK doc : doc = update
      OBVIOUS
    <3>2. doc # NoEntry => TrueDoc(doc)
      BY <3>1 DEF StreamInv, Truths
    <3>3. doc # NoEntry => TrueDoc(doc)'
      BY <3>2, TruthsKept
    <3>4. QED
      BY <3>1, <3>3 DEF TrueDoc
  <2>3. QED
    BY <2>1, <2>2 DEF Truths, TrueDoc
<1>2. Followed' /\ Sorted(responses)'
  BY DEF StreamInv, Followed, Order, Closed, SnapshotAt, KindAt, Sorted
<1>3. Order'
  BY <1>2 DEF StreamInv, Order, NotBefore
<1>4. QED
  BY <1>1, <1>2, <1>3 DEF StreamInv

\* A stream that starts anew has nothing on it.
LEMMA StreamRestarted ==
  ASSUME responses' = <<>>, update' = NoEntry
  PROVE  StreamInv'
<1>1. DOMAIN responses' = {} /\ update'.version = 0
  BY DEF NoEntry, Entry
<1>2. QED
  BY <1>1 DEF StreamInv, Truths, Followed, Order, Sorted

\* The server's messages.
LEMMA StreamContinued ==
  ASSUME Typed, StreamInv, Continued, UNCHANGED <<log, update, cache>>
  PROVE  StreamInv'
<1>1. /\ \A i \in DOMAIN responses : i \in DOMAIN responses' /\ responses'[i] = responses[i]
      /\ \A i \in DOMAIN responses' : i \in DOMAIN responses \/ NewMessage(i)
      /\ Len(responses) \in Nat /\ DOMAIN responses = 1 .. Len(responses)
  BY TypedFacts DEF Continued, WireInv, WireTypes
<1>2. Now' = Now /\ Now \in Nat
  BY SameLog, TypedFacts
<1>3. \A doc : TrueDoc(doc)' = TrueDoc(doc)
  BY <1>2 DEF TrueDoc
<1>4. \A i, n : Closed(responses, i, n) => Closed(responses', i, n)
  BY <1>1 DEF Closed, SnapshotAt, KindAt
<1>5. Truths'
  <2>1. ASSUME NEW i \in DOMAIN responses', responses'[i].kind = "document"
        PROVE  TrueDoc(responses'[i].doc)
    BY <1>1, <2>1 DEF StreamInv, Truths, NewMessage
  <2>2. QED
    BY <1>3, <2>1 DEF StreamInv, Truths, TrueDoc
<1>6. Followed'
  <2>1. ASSUME NEW i \in DOMAIN responses', responses'[i].kind = "document"
        PROVE  Closed(responses', i + 1, responses'[i].doc.version)
    <3>1. CASE i \in DOMAIN responses
      <4>1. Closed(responses, i + 1, responses[i].doc.version) /\ responses'[i] = responses[i]
        BY <1>1, <2>1, <3>1 DEF StreamInv, Followed
      <4>2. QED
        BY <1>4, <4>1
    <3>2. CASE NewMessage(i)
      BY <2>1, <3>2 DEF NewMessage
    <3>3. QED
      BY <1>1, <3>1, <3>2
  <2>2. update'.version # 0 => Closed(responses', 1, update'.version)
    BY <1>4 DEF StreamInv, Followed
  <2>3. QED
    BY <2>1, <2>2 DEF Followed
<1>7. ASSUME NEW i \in DOMAIN responses', Versioned(responses'[i])
      PROVE  /\ VersionOf(responses'[i]) \in 1 .. Now
             /\ i \notin DOMAIN responses => VersionOf(responses'[i]) = Now /\ i > Len(responses)
  <2>1. CASE i \in DOMAIN responses
    <3>1. responses'[i] = responses[i]
      BY <1>1, <2>1
    <3>2. VersionOf(responses[i]) \in 1 .. Now
      BY <1>7, <2>1, <3>1, VersionTyped
    <3>3. QED
      BY <2>1, <3>1, <3>2
  <2>2. CASE i \notin DOMAIN responses
    BY <1>1, <1>7, <2>2, TypedFacts DEF NewMessage
  <2>3. QED
    BY <2>1, <2>2
<1>8. Sorted(responses)'
  <2>1. ASSUME NEW i \in DOMAIN responses', NEW j \in DOMAIN responses', i < j,
               Versioned(responses'[i]), Versioned(responses'[j])
        PROVE  VersionOf(responses'[i]) <= VersionOf(responses'[j])
    <3>1. CASE j \in DOMAIN responses
      <4>1. i \in DOMAIN responses
        BY <1>1, <2>1, <3>1, <1>7
      <4>2. QED
        BY <1>1, <2>1, <3>1, <4>1 DEF StreamInv, Order, Sorted
    <3>2. CASE j \notin DOMAIN responses
      BY <1>2, <1>7, <2>1, <3>2
    <3>3. QED
      BY <3>1, <3>2
  <2>2. QED
    BY <2>1 DEF Sorted
<1>9. ASSUME NEW i \in DOMAIN responses', Versioned(responses'[i]) PROVE NotBefore(responses'[i])
  <2>1. CASE i \in DOMAIN responses
    BY <1>1, <1>9, <2>1 DEF StreamInv, Order
  <2>2. CASE i \notin DOMAIN responses
    <3>1. VersionOf(responses'[i]) = Now
      BY <1>7, <1>9, <2>2
    <3>2. update.version \in 0 .. Now /\ cache.version \in 0 .. Now
      BY TypedFacts DEF WireInv, WireTypes, Entries
    <3>3. QED
      BY <1>2, <3>1, <3>2 DEF NotBefore
  <2>3. QED
    BY <2>1, <2>2
<1>10. Order'
  BY <1>8, <1>9 DEF Order, NotBefore
<1>11. QED
  BY <1>5, <1>6, <1>10 DEF StreamInv

(***************************************************************************)
(* A message is read: the update is the one there was, or the document     *)
(* read, or none after a snapshot.                                         *)
(***************************************************************************)
LEMMA StreamRead ==
  ASSUME Typed, StreamInv, responses # <<>>, responses' = Tail(responses), UNCHANGED log,
         \/ /\ Head(responses).kind # "snapshot" /\ cache' = cache
            /\ \/ update' = update
               \/ Head(responses).kind = "document" /\ update' = Head(responses).doc
         \/ /\ Head(responses).kind = "snapshot" /\ update' = NoEntry
            /\ \/ cache' = cache
               \/ cache'.version = Head(responses).version
  PROVE  StreamInv'
<1>1. responses \in Seq(WatchChanges)
  BY TypedFacts DEF WireInv, WireTypes
<1>2. /\ Len(responses) \in Nat /\ DOMAIN responses = 1 .. Len(responses) /\ 1 \in DOMAIN responses
      /\ Head(responses) = responses[1] /\ DOMAIN responses' = 1 .. Len(responses) - 1
      /\ \A i \in DOMAIN responses' : i + 1 \in DOMAIN responses /\ responses'[i] = responses[i + 1]
  BY <1>1, TailFacts
<1>3. Now' = Now /\ Now \in Nat
  BY SameLog, TypedFacts
<1>4. \A doc : TrueDoc(doc)' = TrueDoc(doc)
  BY <1>3 DEF TrueDoc
<1>5. ASSUME NEW i \in Nat \ {0}, NEW n PROVE Closed(responses', i, n) <=> Closed(responses, i + 1, n)
  BY <1>1, TailShift
<1>6. Truths'
  <2>1. \A i \in DOMAIN responses : responses[i].kind = "document" => TrueDoc(responses[i].doc)
    BY DEF StreamInv, Truths
  <2>2. ASSUME NEW i \in DOMAIN responses', responses'[i].kind = "document"
        PROVE  TrueDoc(responses'[i].doc)
    BY <1>2, <2>1, <2>2
  <2>3. update' = NoEntry \/ TrueDoc(update')
    BY <1>2, <2>1 DEF StreamInv, Truths
  <2>4. QED
    BY <1>4, <2>2, <2>3 DEF Truths, TrueDoc
<1>7. Followed'
  <2>1. ASSUME NEW i \in DOMAIN responses', responses'[i].kind = "document"
        PROVE  Closed(responses', i + 1, responses'[i].doc.version)
    <3>1. PICK k \in Nat \ {0} : k = i + 1
      BY <1>2
    <3>2. k \in DOMAIN responses /\ responses'[i] = responses[k]
      BY <1>2, <3>1
    <3>3. Closed(responses, k + 1, responses[k].doc.version)
      BY <2>1, <3>2 DEF StreamInv, Followed
    <3>4. Closed(responses', k, responses[k].doc.version)
      BY <1>5, <3>3
    <3>5. QED
      BY <3>1, <3>2, <3>4
  <2>2. ASSUME update'.version # 0 PROVE Closed(responses', 1, update'.version)
    <3>1. PICK p \in Nat \ {0} : p = 1
      OBVIOUS
    <3>2. Head(responses).kind # "snapshot"
      BY <2>2 DEF NoEntry, Entry
    <3>3. CASE update' = update
      <4>1. Closed(responses, p, update.version)
        BY <2>2, <3>1, <3>3 DEF StreamInv, Followed
      <4>2. SnapshotAt(responses, p + 1, update.version)
        BY <1>2, <3>1, <3>2, <4>1 DEF Closed, SnapshotAt, KindAt
      <4>3. Closed(responses, p + 1, update.version)
        BY <4>2 DEF Closed
      <4>4. Closed(responses', p, update.version)
        BY <1>5, <4>3
      <4>5. QED
        BY <3>1, <3>3, <4>4
    <3>4. CASE Head(responses).kind = "document" /\ update' = Head(responses).doc
      <4>1. Closed(responses, p + 1, responses[p].doc.version)
        BY <1>2, <3>1, <3>4 DEF StreamInv, Followed
      <4>2. Closed(responses', p, responses[p].doc.version)
        BY <1>5, <4>1
      <4>3. QED
        BY <1>2, <3>1, <3>4, <4>2
    <3>5. QED
      BY <3>2, <3>3, <3>4
  <2>3. QED
    BY <2>1, <2>2 DEF Followed
<1>8. Sorted(responses) /\ \A i \in DOMAIN responses : Versioned(responses[i]) => NotBefore(responses[i])
  BY DEF StreamInv, Order
<1>9. Sorted(responses)'
  <2>1. ASSUME NEW i \in DOMAIN responses', NEW j \in DOMAIN responses', i < j,
               Versioned(responses'[i]), Versioned(responses'[j])
        PROVE  VersionOf(responses'[i]) <= VersionOf(responses'[j])
    <3>1. PICK k, l : k = i + 1 /\ l = j + 1
      OBVIOUS
    <3>2. k < l /\ k \in DOMAIN responses /\ l \in DOMAIN responses
          /\ responses'[i] = responses[k] /\ responses'[j] = responses[l]
      BY <1>2, <2>1, <3>1
    <3>3. QED
      BY <1>8, <2>1, <3>2 DEF Sorted
  <2>2. QED
    BY <2>1 DEF Sorted
<1>10. ASSUME NEW i \in DOMAIN responses', Versioned(responses'[i])
       PROVE  /\ update'.version <= VersionOf(responses'[i])
              /\ cache'.unsynced \/ cache'.version <= VersionOf(responses'[i])
  <2>1. PICK k : k = i + 1
    OBVIOUS
  <2>2. PICK m : m = responses[k]
    OBVIOUS
  <2>3. k \in DOMAIN responses /\ 1 < k /\ responses'[i] = m
    BY <1>2, <2>1, <2>2
  <2>4. NotBefore(m) /\ VersionOf(m) \in 1 .. Now
    BY <1>8, <1>10, <2>2, <2>3, VersionTyped
  <2>5. Versioned(responses[1]) => VersionOf(responses[1]) <= VersionOf(m)
    BY <1>2, <1>8, <1>10, <2>2, <2>3 DEF Sorted
  <2>6. update'.version <= VersionOf(m)
    <3>1. CASE update' = update
      BY <2>4, <3>1 DEF NotBefore
    <3>2. CASE update' = NoEntry
      BY <2>4, <3>2 DEF NoEntry, Entry
    <3>3. CASE Head(responses).kind = "document" /\ update' = Head(responses).doc
      BY <1>2, <2>5, <3>3 DEF Versioned, VersionOf
    <3>4. QED
      BY <3>1, <3>2, <3>3
  <2>7. cache'.unsynced \/ cache'.version <= VersionOf(m)
    <3>1. CASE cache' = cache
      BY <2>4, <3>1 DEF NotBefore
    <3>2. CASE Head(responses).kind = "snapshot" /\ cache'.version = Head(responses).version
      BY <1>2, <2>5, <3>2 DEF Versioned, VersionOf
    <3>3. QED
      BY <3>1, <3>2
  <2>8. QED
    BY <2>3, <2>6, <2>7
<1>11. QED
  BY <1>6, <1>7, <1>9, <1>10 DEF StreamInv, Order, NotBefore

-----------------------------------------------------------------------------
(* What a message finds when it is read.                                   *)

\* All requests have been answered, and the answers read, if none is on the stream.
LEMMA ActiveTarget ==
  ASSUME Typed
  PROVE  /\ target.outstanding \in Nat
         /\ target.outstanding = 0 <=> requests = <<>> /\ Quiet(responses, 1)
<1>1. responses \in Seq(WatchChanges) /\ requests \in Seq(Requests)
      /\ target.outstanding = Len(requests) + Owed /\ target.outstanding \in Nat
  BY TypedFacts DEF WireInv, WireTypes, Count
<1>2. Len(requests) \in Nat /\ (Len(requests) = 0 <=> requests = <<>>)
  BY <1>1, EmptySeq
<1>3. IsFiniteSet(Marked(responses)) /\ Owed \in Nat /\ (Owed = 0 <=> Marked(responses) = {})
  BY <1>1, MarkedFinite, FS_EmptySet DEF Owed
<1>4. DOMAIN responses = 1 .. Len(responses) /\ Len(responses) \in Nat
  BY <1>1
<1>5. Marked(responses) = {} <=> Quiet(responses, 1)
  BY <1>4 DEF Marked, Quiet
<1>6. QED
  BY <1>1, <1>2, <1>3, <1>5

\* The answer to an earlier request is not the last one outstanding.
LEMMA NotTheLast ==
  ASSUME Typed, TargetInv, Heard, responses # <<>>, Head(responses).kind = "removed"
  PROVE  target.outstanding # 1
<1>1. responses \in Seq(WatchChanges)
  BY TypedFacts DEF WireInv, WireTypes
<1>2. /\ DOMAIN responses = 1 .. Len(responses) /\ 1 \in DOMAIN responses /\ Head(responses) = responses[1]
      /\ Tail(responses) \in Seq(WatchChanges)
      /\ \A i \in DOMAIN Tail(responses) : Tail(responses)[i] = responses[i + 1]
      /\ \A i \in DOMAIN responses : i = 1 \/ \E k \in DOMAIN Tail(responses) : i = k + 1
  BY <1>1, TailFacts
<1>3. PICK k \in DOMAIN responses : 1 < k /\ KindAt(responses, k, "added")
  BY <1>2 DEF TargetInv, Answering
<1>4. PICK j \in DOMAIN Tail(responses) : k = j + 1
  BY <1>2, <1>3
<1>5. j \in Marked(Tail(responses))
  BY <1>2, <1>3, <1>4 DEF Marked, Owing, KindAt
<1>6. Cardinality(Marked(Tail(responses))) # 0
  BY <1>2, <1>5, MarkedFinite, FS_EmptySet
<1>7. /\ Cardinality(Marked(Tail(responses))) \in Nat /\ Len(requests) \in Nat
      /\ target.outstanding = Len(requests) + Cardinality(Marked(Tail(responses))) + 1
  BY TypedFacts, AnswersOutstanding DEF Owing
<1>8. QED
  BY <1>6, <1>7

(***************************************************************************)
(* A snapshot brings the document of its version, if it brings one; to a   *)
(* target that is active it comes for a version no older than what was     *)
(* listened for, and brings a document unless the view has that version.   *)
(***************************************************************************)
SnapshotFound(n) ==
  /\ DocumentUpdate(n) \in {NoEntry, Entry(n, log[n], FALSE)}
  /\ cache.unsynced \/ cache.version <= n
  /\ IsActiveTarget(target) =>
       /\ view.since <= n /\ view.token <= n /\ target.current
       /\ DocumentUpdate(n) = NoEntry => view.synced /\ n = view.token
       /\ log[n] = Missing => n = 1 /\ ~view.synced /\ target.documents = "none"
       /\ log[n] # Missing => view.synced \/ target.documents = "added"
       /\ target.documents # "added" => (view.synced <=> log[n] # Missing)

\* That is what a snapshot finds.
LEMMA SnapshotFinds ==
  ASSUME Typed, DataInv, StreamInv, TargetInv, responses # <<>>, Head(responses).kind = "snapshot",
         NEW n, n = Head(responses).version
  PROVE  n \in 1 .. Now /\ SnapshotFound(n)
<1>1. responses \in Seq(WatchChanges) /\ stream = "open" /\ n \in 1 .. Now
  BY TypedFacts, FirstMessage DEF WireInv, WireTypes
<1>2. /\ DOMAIN responses = 1 .. Len(responses) /\ 1 \in DOMAIN responses /\ Head(responses) = responses[1]
  BY <1>1, TailFacts
<1>3. Versioned(responses[1]) /\ VersionOf(responses[1]) = n
  BY <1>2 DEF Versioned, VersionOf
<1>4. cache.unsynced \/ cache.version <= n
  BY <1>2, <1>3 DEF StreamInv, Order, NotBefore
<1>5. update.version # 0 => update.version = n
  BY <1>2 DEF StreamInv, Followed, Closed, SnapshotAt, KindAt
<1>6. update = NoEntry \/ TrueDoc(update)
  BY DEF StreamInv, Truths
<1>7. update.version = 0 => update = NoEntry
  BY <1>6 DEF TrueDoc
<1>8. update.version # 0 => update = Entry(n, log[n], FALSE) /\ log[n] # Missing
  <2>1. NoEntry.version = 0
    BY DEF NoEntry, Entry
  <2>2. QED
    BY <1>5, <1>6, <2>1 DEF TrueDoc
<1>9. view.synced => log[n] # Missing \/ ~ (view.open /\ view.token <= n)
  <2> SUFFICES ASSUME view.synced, view.open, view.token <= n PROVE log[n] # Missing
    OBVIOUS
  <2>1. view.token > 0 /\ log[view.token] # Missing
    BY DEF TargetInv, Tokens, Had
  <2>2. view.token \in 0 .. Now /\ Now \in Nat
    BY TypedFacts DEF Views
  <2>3. n = view.token \/ n \in 2 .. Now
    BY <1>1, <2>1, <2>2
  <2>4. QED
    BY <2>1, <2>3 DEF DataInv, Grows
<1>10. ASSUME IsActiveTarget(target)
       PROVE  /\ view.open /\ target.outstanding = 0
              /\ view.since <= n /\ view.token <= n /\ target.current
              /\ update.version = n \/ log[n] = Missing \/ n = view.token
  <2>1. view.open /\ target.outstanding = 0 /\ requests = <<>> /\ Quiet(responses, 1)
    BY <1>10, ActiveTarget DEF IsActiveTarget
  <2>2. Heard /\ LastSnapshot(1)
    BY <1>1, <1>2, <2>1 DEF Heard, LastSnapshot, KindAt
  <2>3. SnapshotOK(1, n)
    BY <1>2, <2>2 DEF TargetInv, Answering
  <2>4. \A j \in DOMAIN responses : ~ (j < 1)
    BY <1>2
  <2>5. QED
    BY <2>1, <2>3, <2>4 DEF SnapshotOK, Told, CurrentBefore
<1>11. DocumentUpdate(n) \in {NoEntry, Entry(n, log[n], FALSE)}
       /\ (IsActiveTarget(target) /\ DocumentUpdate(n) = NoEntry => view.synced /\ update.version = 0)
  <2>1. CASE IsActiveTarget(target) /\ target.current /\ update.version = 0 /\ ~view.synced
    <3>1. log[n] = Missing
      <4>1. n # 0
        BY <1>1
      <4>2. CASE n = view.token
        <5>1. view.token = 0 \/ log[view.token] = Missing
          BY <1>10, <2>1 DEF TargetInv, Tokens, Had
        <5>2. QED
          BY <4>1, <4>2, <5>1
      <4>3. QED
        BY <1>10, <2>1, <4>1, <4>2
    <3>2. DocumentUpdate(n) = Entry(n, Missing, FALSE)
      BY <2>1 DEF DocumentUpdate
    <3>3. Entry(n, Missing, FALSE) # NoEntry
      <4>1. Entry(n, Missing, FALSE).version = n /\ NoEntry.version = 0
        BY DEF Entry, NoEntry
      <4>2. n # 0
        BY <1>1
      <4>3. QED
        BY <4>1, <4>2, Zenon
    <3>4. QED
      BY <3>1, <3>2, <3>3
  <2>2. CASE ~ (IsActiveTarget(target) /\ target.current /\ update.version = 0 /\ ~view.synced)
    <3>1. DocumentUpdate(n) = update
      BY <2>2 DEF DocumentUpdate
    <3>2. NoEntry.version = 0
      BY DEF NoEntry, Entry
    <3>3. DocumentUpdate(n) \in {NoEntry, Entry(n, log[n], FALSE)}
      BY <1>7, <1>8, <3>1
    <3>4. IsActiveTarget(target) /\ DocumentUpdate(n) = NoEntry => view.synced /\ update.version = 0
      BY <1>10, <2>2, <3>1, <3>2
    <3>5. QED
      BY <3>3, <3>4
  <2>3. QED
    BY <2>1, <2>2
<1>12. ASSUME IsActiveTarget(target)
       PROVE  /\ update.version # 0 => target.documents = IF view.synced THEN "modified" ELSE "added"
              /\ update.version = 0 => target.documents = "none"
  BY <1>10, <1>12 DEF TargetInv, TargetTrue
<1>13. ASSUME IsActiveTarget(target), log[n] = Missing
       PROVE  n = 1 /\ ~view.synced /\ target.documents = "none"
  <2>1. n = 1
    <3>1. n \notin 2 .. Now
      BY <1>13 DEF DataInv, Grows
    <3>2. QED
      BY <1>1, <3>1, TypedFacts
  <2>2. ~view.synced
    BY <1>9, <1>10, <1>13
  <2>3. update.version = 0
    BY <1>8, <1>13
  <2>4. QED
    BY <1>12, <1>13, <2>1, <2>2, <2>3
<1>14. ASSUME IsActiveTarget(target), log[n] # Missing, ~view.synced
       PROVE  target.documents = "added"
  <2>1. update.version # 0
    <3>1. CASE n = view.token
      <4>1. view.token = 0 \/ log[view.token] = Missing
        BY <1>10, <1>14 DEF TargetInv, Tokens, Had
      <4>2. QED
        BY <1>1, <1>14, <3>1, <4>1
    <3>2. QED
      BY <1>1, <1>10, <1>14, <3>1
  <2>2. QED
    BY <1>12, <1>14, <2>1
<1>15. ASSUME IsActiveTarget(target), DocumentUpdate(n) = NoEntry PROVE view.synced /\ n = view.token
  <2>1. view.synced /\ update.version = 0
    BY <1>11, <1>15
  <2>2. log[n] # Missing
    BY <1>9, <1>10, <1>15, <2>1
  <2>3. QED
    BY <1>1, <1>10, <1>15, <2>1, <2>2
<1>16. ASSUME IsActiveTarget(target), target.documents # "added"
       PROVE  view.synced <=> log[n] # Missing
  BY <1>13, <1>14, <1>16
<1>17. view.synced \in BOOLEAN
  BY TypedFacts DEF Views
<1>18. SnapshotFound(n)
  BY <1>4, <1>10, <1>11, <1>13, <1>14, <1>15, <1>16 DEF SnapshotFound
<1>19. QED
  BY <1>1, <1>18

(***************************************************************************)
(* What a snapshot leaves.                                                 *)
(***************************************************************************)
LEMMA CacheAccepts ==
  ASSUME cache \in Entries(0), Now \in Nat, NEW n \in 1 .. Now,
         cache' = IF Accepts(cache, Entry(n, log[n], FALSE)) THEN Entry(n, log[n], FALSE) ELSE cache
  PROVE  CacheMoves /\ Behind(n)'
<1>1. cache.version \in Nat /\ cache.unsynced \in BOOLEAN
  BY DEF Entries
<1> DEFINE doc == Entry(n, log[n], FALSE)
<1>2. doc.version = n /\ doc.unsynced = FALSE
  BY DEF Entry
<1> HIDE DEF doc
<1>3. Accepts(cache, doc) <=> n > cache.version \/ (n = cache.version /\ cache.unsynced)
  BY <1>1, <1>2 DEF Accepts
<1>4. CASE Accepts(cache, doc)
  <2>1. cache' = doc
    BY <1>4 DEF doc
  <2>2. cache'.version = n /\ ~cache'.unsynced
    BY <1>2, <2>1
  <2>3. n > cache.version \/ n = cache.version
    BY <1>3, <1>4
  <2>4. n >= n
    OBVIOUS
  <2>5. QED
    BY <2>2, <2>3, <2>4 DEF CacheMoves, Behind
<1>5. CASE ~Accepts(cache, doc)
  <2>1. cache' = cache
    BY <1>5 DEF doc
  <2>2. cache.version >= n /\ (cache.version = n => ~cache.unsynced)
    BY <1>1, <1>3, <1>5
  <2>3. QED
    BY <2>1, <2>2 DEF CacheMoves, Behind
<1>6. QED
  BY <1>4, <1>5

\* The cache does not take what is no document.
LEMMA NothingAccepted ==
  ASSUME cache \in Entries(0), Now \in Nat
  PROVE  ~Accepts(cache, NoEntry)
<1>1. cache.version \in Nat /\ NoEntry.version = 0
  BY DEF Entries, NoEntry, Entry
<1>2. QED
  BY <1>1 DEF Accepts

\* The view after a snapshot.
SnapshotView(n) ==
  /\ view'.open = view.open /\ view'.since = view.since
  /\ IsActiveTarget(target) =>
       /\ view'.token = n /\ view'.current = target.current
       /\ view'.synced = (view.synced \/ target.documents = "added")
  /\ ~IsActiveTarget(target) =>
       view'.token = view.token /\ view'.current = view.current /\ view'.synced = view.synced

\* Cache, target and disk after a snapshot.
SnapshotLeft(n) ==
  /\ cache' \in {cache, Entry(n, log[n], FALSE)} /\ CacheMoves
  /\ DocumentUpdate(n) = NoEntry => cache' = cache
  /\ update' = NoEntry
  /\ target' = IF IsActiveTarget(target) THEN [target EXCEPT !.documents = "none"] ELSE target
  /\ ~IsActiveTarget(target) => saved' = saved
  /\ IsActiveTarget(target) =>
       /\ Behind(n)'
       /\ \E t \in {saved.token, n} :
            /\ saved' = [token |-> t, has |-> saved.has \/ target.documents = "added"]
            /\ view.token = 0 \/ target.documents # "none" => t = n

\* That is what it leaves.
LEMMA SnapshotLeaves ==
  ASSUME Typed, DataInv, StreamInv, TargetInv, OnWatchStreamChange, Head(responses).kind = "snapshot",
         NEW n, n = Head(responses).version
  PROVE  n \in 1 .. Now /\ SnapshotFound(n) /\ SnapshotView(n) /\ SnapshotLeft(n)
<1>1. responses # <<>> /\ RaiseWatchSnapshot(n)
  BY OnWatchStreamChangeCases
<1>2. n \in 1 .. Now /\ SnapshotFound(n)
  BY <1>1, SnapshotFinds
<1>3. /\ cache' = IF Accepts(cache, DocumentUpdate(n)) THEN DocumentUpdate(n) ELSE cache
      /\ Publish(SeenView(n), "online")
      /\ target' = IF IsActiveTarget(target) THEN [target EXCEPT !.documents = "none"] ELSE target
      /\ update' = NoEntry
      /\ ~IsActiveTarget(target) => saved' = saved
      /\ IsActiveTarget(target) =>
           \E t \in {saved.token, n} :
              /\ saved' = [token |-> t, has |-> saved.has \/ target.documents = "added"]
              /\ view.token = 0 \/ target.documents # "none" => t = n
  BY <1>1, RaiseWatchSnapshotCases
<1>4. /\ SeenView(n) \in Views
      /\ SeenView(n).open = view.open
      /\ SeenView(n).since = view.since
      /\ ~IsActiveTarget(target) => SeenView(n) = Seen(n)
      /\ IsActiveTarget(target) =>
           /\ SeenView(n).token = n
           /\ SeenView(n).current = target.current
           /\ SeenView(n).synced = (view.synced \/ target.documents = "added")
  BY <1>1, <1>2, SeenViewType
<1>5. SameListen(view, Seen(n)) /\ Seen(n).current = view.current
  BY <1>1, <1>2, SeenType
<1>6. view' = WithSyncState(SeenView(n))
  BY <1>3, PublishCases
<1>7. SameListen(SeenView(n), view') /\ view'.current = SeenView(n).current
  BY <1>4, <1>6, WithSyncStateType
<1>8. SnapshotView(n)
  BY <1>4, <1>5, <1>7 DEF SnapshotView, SameListen
<1>9. cache \in Entries(0) /\ Now \in Nat
  BY TypedFacts
<1>10. CASE DocumentUpdate(n) = NoEntry
  <2>1. cache' = cache
    BY <1>3, <1>9, <1>10, NothingAccepted
  <2>2. ASSUME IsActiveTarget(target) PROVE Behind(n)'
    <3>1. view.open /\ n = view.token
      BY <1>2, <1>10, <2>2 DEF SnapshotFound, IsActiveTarget
    <3>2. Behind(n)
      BY <3>1 DEF TargetInv, Tokens
    <3>3. QED
      BY <2>1, <3>2 DEF Behind
  <2>3. QED
    BY <1>2, <1>3, <1>8, <2>1, <2>2 DEF SnapshotLeft, CacheMoves
<1>11. CASE DocumentUpdate(n) = Entry(n, log[n], FALSE) /\ DocumentUpdate(n) # NoEntry
  <2>1. CacheMoves /\ Behind(n)'
    BY <1>2, <1>3, <1>9, <1>11, CacheAccepts
  <2>2. cache' \in {cache, Entry(n, log[n], FALSE)}
    BY <1>3, <1>11
  <2>3. QED
    BY <1>2, <1>3, <1>8, <1>11, <2>1, <2>2 DEF SnapshotLeft
<1>12. QED
  BY <1>2, <1>10, <1>11 DEF SnapshotFound

-----------------------------------------------------------------------------
(* The data and the stream, action by action.                              *)

Flow == DataInv' /\ StreamInv' /\ LogExtends /\ CacheMoves

\* A step that reads no message and writes nothing,
LEMMA FlowKept ==
  ASSUME Typed, DataInv, StreamInv, UNCHANGED <<log, cache, responses, update>>,
         results' \in {results, <<>>} \/ (results # <<>> /\ results' = Tail(results))
  PROVE  Flow
<1>1. DataInv'
  BY FewerResults, DataKept
<1>2. StreamInv' /\ LogExtends
  BY SameLog, StreamKept
<1>3. QED
  BY <1>1, <1>2 DEF Flow, CacheMoves

\* a stream that ends or starts anew,
LEMMA FlowRestarted ==
  ASSUME Typed, DataInv, NEW state, Restarted(state), UNCHANGED <<log, cache>>, results' \in {results, <<>>}
  PROVE  Flow
<1>1. DataInv'
  BY FewerResults, DataKept
<1>2. StreamInv' /\ LogExtends
  BY SameLog, StreamRestarted DEF Restarted
<1>3. QED
  BY <1>1, <1>2 DEF Flow, CacheMoves

\* messages of the server,
LEMMA FlowContinued ==
  ASSUME Typed, DataInv, StreamInv, Continued, UNCHANGED <<log, cache, update, results>>
  PROVE  Flow
<1>1. DataInv'
  BY FewerResults, DataKept
<1>2. StreamInv' /\ LogExtends
  BY SameLog, StreamContinued
<1>3. QED
  BY <1>1, <1>2 DEF Flow, CacheMoves

\* the tasks of the worker,
LEMMA FlowRunTask ==
  ASSUME Typed, DataInv, StreamInv, RunTask
  PROVE  Flow
<1>1. /\ tasks # <<>> /\ TaskKept
      /\ Head(tasks).kind = "listen" => AddQueryListener(Head(tasks).read)
      /\ Head(tasks).kind = "remove" => RemoveQueryListener(Head(tasks).read)
      /\ Head(tasks).kind = "write" => WriteMutations(Head(tasks).write)
  BY RunTaskCases
<1>2. Head(tasks).kind \in {"listen", "remove", "write"}
  BY <1>1, FirstTask DEF Typed
<1>3. UNCHANGED <<log, cache, results>>
  BY <1>1 DEF TaskKept
<1>4. UNCHANGED <<responses, update>> \/ \E state : Restarted(state)
  <2>1. CASE Head(tasks).kind = "listen"
    BY <1>1, <2>1, AddListenerCases DEF Opens
  <2>2. CASE Head(tasks).kind = "remove"
    BY <1>1, <2>2, RemoveListenerCases DEF Closes
  <2>3. CASE Head(tasks).kind = "write"
    BY <1>1, <2>3, WriteMutationsCases
  <2>4. QED
    BY <1>2, <2>1, <2>2, <2>3
<1>5. QED
  BY <1>3, <1>4, FlowKept, FlowRestarted

\* the result of a write,
LEMMA FlowOnWriteResult ==
  ASSUME Typed, DataInv, StreamInv, OnWriteResult
  PROVE  Flow
<1>1. DataInv' /\ CacheMoves /\ (cache' = cache \/ cache'.unsynced)
  BY DataOnWriteResult
<1>2. UNCHANGED <<log, responses, update>>
  BY OnWriteResultCases
<1>3. StreamInv' /\ LogExtends
  BY <1>1, <1>2, SameLog, StreamKept
<1>4. QED
  BY <1>1, <1>3 DEF Flow

\* a message that is read,
LEMMA FlowOnWatchStreamChange ==
  ASSUME Typed, DataInv, StreamInv, TargetInv, OnWatchStreamChange
  PROVE  Flow
<1>1. /\ responses # <<>> /\ responses' = Tail(responses) /\ UNCHANGED <<log, results>>
      /\ Head(responses).kind # "snapshot" => HandleChange(Head(responses))
  BY OnWatchStreamChangeCases
<1>2. CASE Head(responses).kind # "snapshot"
  <2>1. cache' = cache
    BY <1>1, <1>2, HandleChangeCases
  <2>2. update' = update \/ (Head(responses).kind = "document" /\ update' = Head(responses).doc)
    BY <1>1, <1>2 DEF HandleChange
  <2>3. DataInv'
    BY <1>1, <2>1, FewerResults, DataKept
  <2>4. StreamInv'
    BY <1>1, <1>2, <2>1, <2>2, StreamRead
  <2>5. QED
    BY <1>1, <2>1, <2>3, <2>4, SameLog DEF Flow, CacheMoves
<1>3. CASE Head(responses).kind = "snapshot"
  <2>1. PICK n : n = Head(responses).version
    OBVIOUS
  <2>2. n \in 1 .. Now /\ SnapshotLeft(n)
    BY <1>3, <2>1, SnapshotLeaves
  <2>3. cache' \in {cache, Entry(n, log[n], FALSE)} /\ CacheMoves /\ update' = NoEntry
    BY <2>2 DEF SnapshotLeft
  <2>4. DataInv'
    BY <1>1, <2>2, <2>3, DataSnapshot
  <2>5. cache' = cache \/ cache'.version = n
    BY <2>3 DEF Entry
  <2>6. StreamInv'
    BY <1>1, <1>3, <2>1, <2>3, <2>5, StreamRead
  <2>7. QED
    BY <1>1, <2>3, <2>4, <2>6, SameLog DEF Flow
<1>4. QED
  BY <1>2, <1>3

\* and the server keep data and messages true.
LEMMA FlowServer ==
  ASSUME Typed, DataInv, StreamInv, ServerAnswers \/ ServerSends
  PROVE  Flow
<1>1. CASE ServerAnswers
  <2>1. /\ UNCHANGED <<log, cache, update, results>>
        /\ responses' = AfterSnapshot \/ responses' = Append(responses, [kind |-> "removed"])
    BY <1>1, ServerAnswersCases
  <2>2. Continued
    BY <2>1, AnswerContinues, RemovedContinues
  <2>3. QED
    BY <2>1, <2>2, FlowContinued
<1>2. CASE ServerSends
  <2>1. UNCHANGED <<log, cache, update, results>> /\ responses' = Sent /\ serving \in 1 .. Now - 1
    BY <1>2, ServerSendsCases
  <2>2. Now \in 2 .. Now
    BY <2>1, TypedFacts
  <2>3. log[Now] # Missing
    BY <2>2 DEF DataInv, Grows
  <2>4. Continued
    BY <2>1, <2>3, SentContinues
  <2>5. QED
    BY <2>1, <2>4, FlowContinued
<1>3. QED
  BY <1>1, <1>2

\* So every step does.
LEMMA FlowStep ==
  ASSUME Typed, DataInv, StreamInv, TargetInv, [Next]_vars
  PROVE  Flow
<1>1. CASE UNCHANGED vars
  <2>1. UNCHANGED <<log, cache, responses, update, results>>
    BY <1>1 DEF vars, server, disk, net, wire
  <2>2. QED
    BY <2>1, FlowKept
<1>2. CASE getDocument
  BY <1>2, GetDocumentCases, FlowKept
<1>3. ASSUME NEW kind \in Kinds, WriteData(kind) PROVE Flow
  BY <1>3, WriteDataCases, FlowKept
<1>4. CASE OnEvent
  BY <1>4, OnEventCases, FlowKept
<1>5. CASE RunTask
  BY <1>5, FlowRunTask
<1>6. CASE OnWriteResult
  BY <1>6, FlowOnWriteResult
<1>7. CASE OnlineStateTimeout
  BY <1>7, OnlineStateTimeoutCases, FlowKept
<1>8. CASE StreamOpens
  BY <1>8, StreamOpensCases, FlowKept
<1>9. CASE StreamFails \/ ConnectionLost \/ IdleTimeout \/ HandleCredentialChange
  <2>1. PICK state \in {"off", "starting"} : \E t : Ends(state, t) /\ results' \in {results, <<>>}
    BY <1>9, StreamEndsCases
  <2>2. Restarted(state) /\ UNCHANGED <<log, cache>> /\ results' \in {results, <<>>}
    BY <2>1 DEF Ends
  <2>3. QED
    BY <2>2, FlowRestarted
<1>10. CASE OnWatchStreamChange
  BY <1>10, FlowOnWatchStreamChange
<1>11. CASE Restart
  BY <1>11, RestartCases, FlowRestarted
<1>12. CASE ServerAnswers \/ ServerSends
  BY <1>12, FlowServer
<1>13. CASE ServerWrites
  <2>1. DataInv' /\ LogExtends
    BY <1>13, DataServerWrites
  <2>2. UNCHANGED <<cache, responses, update>>
    BY <1>13, ServerWritesKept
  <2>3. QED
    BY <2>1, <2>2, StreamKept DEF Flow, CacheMoves
<1>14. ASSUME NEW kind \in Kinds, OtherPhoneWrites(kind) PROVE Flow
  <2>1. DataInv' /\ LogExtends
    BY <1>14, DataOtherPhoneWrites
  <2>2. UNCHANGED <<cache, responses, update>>
    BY <1>14, OtherPhoneWritesCases
  <2>3. QED
    BY <2>1, <2>2, StreamKept DEF Flow, CacheMoves
<1>15. QED
  BY <1>1, <1>2, <1>3, <1>4, <1>5, <1>6, <1>7, <1>8, <1>9, <1>10, <1>11, <1>12, <1>13, <1>14, NextCases

\* They are at first.
LEMMA FlowInitially == Init => DataInv /\ StreamInv
<1> SUFFICES ASSUME Init PROVE DataInv /\ StreamInv
  OBVIOUS
<1>1. /\ log \in { <<Missing>>, <<{}>> } /\ cache = NoEntry /\ responses = <<>> /\ update = NoEntry
      /\ results = <<>>
  BY DEF Init
<1>2. Now = 1 /\ NoEntry.version = 0 /\ NoEntry.unsynced = FALSE
  BY <1>1 DEF Now, NoEntry, Entry
<1>3. DataInv
  BY <1>1, <1>2 DEF DataInv, Grows, CacheTrue, ResultsTrue
<1>4. StreamInv
  BY <1>1, <1>2 DEF StreamInv, Truths, Followed, Order, Sorted
<1>5. QED
  BY <1>3, <1>4

-----------------------------------------------------------------------------
(* The target, when no message is read.                                    *)

\* What a token says of the view is so for a longer log.
LEMMA HadKept ==
  ASSUME Typed, LogExtends, NEW has, NEW token \in 0 .. Now, Had(has, token)
  PROVE  Had(has, token)'
<1>1. token \in Nat /\ (token > 0 => token \in 1 .. Now)
  BY TypedFacts
<1>2. token > 0 => log'[token] = log[token]
  BY <1>1 DEF LogExtends
<1>3. QED
  BY <1>1, <1>2 DEF Had

\* The tokens, when nothing new comes from the server.
LEMMA TokensKept ==
  ASSUME Typed, Typed', Tokens, LogExtends, CacheMoves,
         \/ saved' = saved
         \/ view.open /\ saved' = [saved EXCEPT !.token = view.token],
         \/ ~view'.open
         \/ SameListen(view, view') /\ saved' = saved
         \/ view'.token = saved.token /\ view'.synced = saved.has /\ saved' = saved
  PROVE  Tokens'
<1>1. /\ saved.token \in 0 .. Now /\ saved.token \in Nat /\ saved \in [token : 0 .. Now, has : BOOLEAN]
      /\ view.token \in 0 .. Now /\ view.token \in Nat
      /\ cache' \in Entries(0)' /\ Now' \in Nat
  <2>1. view \in Views /\ Now \in Nat /\ saved \in [token : 0 .. Now, has : BOOLEAN]
    BY TypedFacts
  <2>2. cache' \in Entries(0)' /\ log' \in Seq(Values)
    BY DEF Typed, DiskTypes, ServerTypes
  <2>3. QED
    BY <2>1, <2>2 DEF Views, Now
<1>2. /\ Behind(saved.token) /\ Had(saved.has, saved.token)
      /\ view.open => Behind(view.token) /\ Had(view.synced, view.token) /\ saved.has = view.synced
  BY DEF Tokens
<1>3. PICK s, h, v, y : s = saved.token /\ h = saved.has /\ v = view.token /\ y = view.synced
  OBVIOUS
<1>4. Behind(s)' /\ Had(h, s)'
  <2>1. s \in Nat /\ s \in 0 .. Now /\ Behind(s) /\ Had(h, s)
    BY <1>1, <1>2, <1>3
  <2>2. QED
    BY <1>1, <2>1, BehindKept, HadKept
<1>5. view.open => Behind(v)' /\ Had(y, v)' /\ h = y
  <2>1. ASSUME view.open PROVE Behind(v)' /\ Had(y, v)'
    <3>1. v \in Nat /\ v \in 0 .. Now /\ Behind(v) /\ Had(y, v)
      BY <1>1, <1>2, <1>3, <2>1
    <3>2. QED
      BY <1>1, <3>1, BehindKept, HadKept
  <2>2. QED
    BY <1>2, <1>3, <2>1
<1>6. \/ saved'.token = s /\ saved'.has = h
      \/ view.open /\ saved'.token = v /\ saved'.has = h
  BY <1>1, <1>3
<1>7. CASE ~view'.open
  BY <1>4, <1>5, <1>6, <1>7 DEF Tokens, Behind, Had
<1>8. CASE view'.open /\ SameListen(view, view') /\ saved' = saved
  <2>1. view.open /\ view'.token = v /\ view'.synced = y /\ saved'.token = s /\ saved'.has = h
    BY <1>3, <1>8 DEF SameListen
  <2>2. QED
    BY <1>4, <1>5, <2>1 DEF Tokens, Behind, Had
<1>9. CASE view'.token = saved.token /\ view'.synced = saved.has /\ saved' = saved
  <2>1. view'.token = s /\ view'.synced = h /\ saved'.token = s /\ saved'.has = h
    BY <1>3, <1>9
  <2>2. QED
    BY <1>4, <2>1 DEF Tokens, Behind, Had
<1>10. QED
  BY <1>7, <1>8, <1>9

\* What says nothing of the target, and makes the view current no more than it was.
LEMMA TargetKept ==
  ASSUME Typed, TargetInv, LogExtends, Tokens',
         UNCHANGED <<stream, requests, responses, target, update>>,
         SameListen(view, view'), view'.current => view.current,
         ~view'.current \/ tracker'.timer => ~view.current \/ tracker.timer
  PROVE  TargetInv'
<1>1. /\ view'.open = view.open /\ view'.token = view.token /\ view'.since = view.since
      /\ view'.synced = view.synced
  BY DEF SameListen
<1>2. LastRequest' /\ TargetTrue' /\ Unread'
  BY <1>1 DEF TargetInv, LastRequest, TargetTrue, Unread, Watch
<1>3. ASSUME NEW i \in DOMAIN responses, LastSnapshot(i)
      PROVE  responses[i].version \in 1 .. Now
  <2>1. Versioned(responses[i]) /\ VersionOf(responses[i]) = responses[i].version
    BY <1>3 DEF LastSnapshot, KindAt, Versioned, VersionOf
  <2>2. QED
    BY <2>1, VersionTyped
<1>4. Answering'
  <2> SUFFICES ASSUME Heard' PROVE Answering'
    BY DEF Answering
  <2>1. Heard
    BY <1>1 DEF Heard
  <2>2. /\ \A i \in DOMAIN responses : responses[i].kind = "removed" =>
             \E k \in DOMAIN responses : i < k /\ KindAt(responses, k, "added")
        /\ CurrentBefore(Len(responses) + 1)
        /\ ~view.current \/ tracker.timer => \E i \in DOMAIN responses : LastSnapshot(i)
    BY <2>1 DEF TargetInv, Answering
  <2>3. ASSUME NEW i \in DOMAIN responses, LastSnapshot(i)
        PROVE  SnapshotOK(i, responses[i].version)'
    <3>1. PICK n : n = responses[i].version
      OBVIOUS
    <3>2. SnapshotOK(i, n)
      BY <2>1, <2>3, <3>1 DEF TargetInv, Answering
    <3>3. log[n] = Missing => log'[n] = Missing
      BY <1>3, <2>3, <3>1 DEF LogExtends
    <3>4. SnapshotOK(i, n)'
      BY <1>1, <3>2, <3>3 DEF SnapshotOK, Told, CurrentBefore
    <3>5. QED
      BY <3>1, <3>4 DEF SnapshotOK, Told, CurrentBefore
  <2>4. QED
    BY <2>2, <2>3 DEF Answering, CurrentBefore, LastSnapshot
<1>5. QED
  BY <1>2, <1>4 DEF TargetInv

\* A view that is closed.
LEMMA TargetClosed ==
  ASSUME ~view'.open, Tokens'
  PROVE  TargetInv'
BY DEF TargetInv, LastRequest, TargetTrue, Unread, Answering, Heard

\* A stream that is not open.
LEMMA TargetOffline ==
  ASSUME Typed', Tokens', stream' # "open"
  PROVE  TargetInv'
<1>1. target' = NewTarget /\ requests' = <<>> /\ update' = NoEntry
  BY DEF Typed, WireInv, Offline
<1>2. target'.outstanding = 0 /\ target'.documents = "none" /\ update'.version = 0
  BY <1>1 DEF NewTarget, NoEntry, Entry
<1>3. QED
  BY <1>1, <1>2 DEF TargetInv, LastRequest, TargetTrue, Unread, Answering, Heard

\* A request to listen to the view that there is from now on.
LEMMA TargetAsked ==
  ASSUME Typed, Tokens', Send(Watch(view')), ~view'.current \/ update' = NoEntry
  PROVE  TargetInv'
<1>1. requests \in Seq(Requests) /\ target \in Targets /\ target.outstanding \in Nat
  BY TypedFacts DEF WireInv, WireTypes, Targets
<1>2. requests' = Append(requests, Watch(view')) /\ target' = [target EXCEPT !.outstanding = @ + 1]
  BY DEF Send
<1>3. Len(requests') = Len(requests) + 1 /\ Len(requests) \in Nat
      /\ requests'[Len(requests')] = Watch(view')
  BY <1>1, <1>2
<1>4. requests' # <<>>
  BY <1>3
<1>5. target'.outstanding # 0
  BY <1>1, <1>2 DEF Targets
<1>6. LastRequest'
  BY <1>3 DEF LastRequest, Watch
<1>7. QED
  BY <1>4, <1>5, <1>6 DEF TargetInv, TargetTrue, Unread, Answering, Heard

-----------------------------------------------------------------------------
(* The target, and what the server sends.                                  *)

\* The last request, once the server has read all others.
LEMMA LastAnswered ==
  ASSUME Typed, TargetInv, ServerAnswers, Heard'
  PROVE  view.open /\ Head(requests) = Watch(view)
<1>1. requests # <<>> /\ requests' = Tail(requests) /\ view' = view /\ requests \in Seq(Requests)
  BY ServerAnswersCases, TypedFacts DEF WireInv, WireTypes
<1>2. view.open /\ requests' = <<>>
  BY <1>1 DEF Heard
<1>3. /\ Len(Tail(requests)) = Len(requests) - 1 /\ Head(requests) = requests[1] /\ Len(requests) \in Nat
  BY <1>1, TailFacts
<1>4. Len(requests) = 1
  <2>1. Len(Tail(requests)) = 0
    BY <1>1, <1>2, EmptySeq
  <2>2. QED
    BY <1>3, <2>1
<1>5. QED
  BY <1>1, <1>2, <1>3, <1>4 DEF TargetInv, LastRequest

\* All the server has said when it has answered the last request.
LEMMA AnsweringAnswered ==
  ASSUME Typed, TargetInv, ServerAnswers, Heard'
  PROVE  Answering'
<1>1. view.open /\ Head(requests) = Watch(view)
  BY LastAnswered
<1>2. /\ view' = view /\ log' = log /\ update' = update /\ target' = target
      /\ responses' = AfterSnapshot
  <2>1. Head(requests).kind = "watch" /\ Head(requests).kind # "unwatch"
    BY <1>1 DEF Watch
  <2>2. QED
    BY <2>1, ServerAnswersCases
<1>3. PICK k \in Nat : AnswerAt(k)
  BY AnswerPositions
<1>4. PICK L : L = Len(responses)
  OBVIOUS
<1>5. /\ L \in Nat /\ DOMAIN responses = 1 .. L /\ DOMAIN responses' = 1 .. k + 2
      /\ \A i \in DOMAIN responses : responses'[i] = responses[i]
      /\ responses'[L + 1] = [kind |-> "added"]
      /\ responses'[k + 1] = [kind |-> "current"]
      /\ responses'[k + 2] = [kind |-> "snapshot", version |-> Now]
      /\ Brought => k = L + 2 /\ responses'[L + 2] = Document
      /\ ~Brought => k = L + 1
  BY <1>2, <1>3, <1>4, TypedFacts DEF AnswerAt, WireInv, WireTypes
<1>6. Now' = Now /\ Now \in Nat /\ view.token \in 0 .. Now /\ view.since \in 0 .. Now
  BY <1>2, TypedFacts DEF Now, Views
<1>7. Document.kind = "document" /\ Document.doc.version = Now
  BY DEF Document, Entry
<1>8. PICK a, c, s, d : a = L + 1 /\ c = k + 1 /\ s = k + 2 /\ d = L + 2
  OBVIOUS
<1>9. /\ a \in DOMAIN responses' /\ c \in DOMAIN responses' /\ s \in DOMAIN responses' /\ c < s
      /\ responses'[a].kind = "added" /\ responses'[c].kind = "current"
      /\ responses'[s].kind = "snapshot" /\ responses'[s].version = Now
      /\ Brought => d \in DOMAIN responses' /\ d < s /\ responses'[d] = Document
      /\ \A i \in DOMAIN responses' : i \in DOMAIN responses \/ i = a \/ i = c \/ i = s \/ (Brought /\ i = d)
      /\ \A i \in DOMAIN responses' : i > a => i = c \/ i = s \/ (Brought /\ i = d)
      /\ \A i \in DOMAIN responses : i < a
      /\ Len(responses') = s
  BY <1>5, <1>8
<1>10. /\ Quiet(responses', c)
       /\ Brought => Quiet(responses', d)
  <2>1. c > a /\ d > a /\ \A i \in DOMAIN responses' : i >= c \/ i >= d => i > a
    BY <1>5, <1>8
  <2>2. \A i \in DOMAIN responses' : i > a => responses'[i].kind \notin Owing
    BY <1>7, <1>9 DEF Owing
  <2>3. QED
    BY <2>1, <2>2 DEF Quiet
<1>11. ASSUME NEW i \in DOMAIN responses', i >= s PROVE i = s
  BY <1>5, <1>8, <1>11
<1>12. Quiet(responses', s)
  BY <1>9, <1>11 DEF Quiet, Owing
<1>13. \A i \in DOMAIN responses' : responses'[i].kind = "removed" =>
          \E j \in DOMAIN responses' : i < j /\ KindAt(responses', j, "added")
  BY <1>7, <1>9 DEF KindAt
<1>14. CurrentBefore(s)' /\ CurrentBefore(Len(responses) + 1)'
  <2>1. c < s /\ c < s + 1
    BY <1>5, <1>8
  <2>2. KindAt(responses', c, "current")
    BY <1>9 DEF KindAt
  <2>3. QED
    BY <1>9, <1>10, <2>1, <2>2 DEF CurrentBefore
<1>15. ASSUME NEW i \in DOMAIN responses', LastSnapshot(i)' PROVE i = s
  <2>1. responses'[i].kind = "snapshot" /\ Quiet(responses', i)
    BY <1>15 DEF LastSnapshot, KindAt
  <2>2. ~ (a >= i)
    BY <1>9, <2>1 DEF Quiet, Owing
  <2>3. i > a
    BY <1>5, <1>8, <2>2
  <2>4. QED
    BY <1>7, <1>9, <2>1, <2>3
<1>16. LastSnapshot(s)'
  BY <1>9, <1>12 DEF LastSnapshot, KindAt
<1>17. PICK n : n = Now
  OBVIOUS
<1>18. SnapshotOK(s, n)'
  <2>1. view'.since <= n /\ view'.token <= n
    BY <1>2, <1>6, <1>17
  <2>2. Told(s, n)' \/ log'[n] = Missing \/ n = view'.token
    <3>1. CASE Brought
      <4>1. DocumentAt(responses', d, n)
        BY <1>7, <1>9, <1>17, <3>1 DEF DocumentAt, KindAt
      <4>2. QED
        BY <1>9, <1>10, <3>1, <4>1 DEF Told
    <3>2. CASE ~Brought
      <4>1. Head(requests).token = view.token
        BY <1>1 DEF Watch
      <4>2. log[Now] = Missing \/ ~ (Now > view.token)
        BY <3>2, <4>1 DEF Brought
      <4>3. log[Now] = Missing \/ Now = view.token
        BY <1>6, <4>2
      <4>4. QED
        BY <1>2, <1>17, <4>3
    <3>3. QED
      BY <3>1, <3>2
  <2>3. QED
    BY <1>14, <2>1, <2>2 DEF SnapshotOK
<1>19. responses'[s].version = n
  BY <1>9, <1>17
<1>20. \A i \in DOMAIN responses' : LastSnapshot(i)' => SnapshotOK(i, responses[i].version)'
  BY <1>15, <1>18, <1>19 DEF SnapshotOK, Told, CurrentBefore
<1>21. QED
  BY <1>9, <1>13, <1>14, <1>16, <1>20 DEF Answering

\* All the server has said when it has sent the next version.
LEMMA AnsweringSent ==
  ASSUME Typed, DataInv, TargetInv, ServerSends, Heard'
  PROVE  Answering'
<1>1. /\ responses' = Sent /\ view' = view /\ log' = log /\ update' = update /\ target' = target
      /\ tracker' = tracker /\ serving \in 1 .. Now - 1 /\ Heard
  BY ServerSendsCases DEF Heard
<1>2. PICK L : L = Len(responses)
  OBVIOUS
<1>3. /\ L \in Nat /\ DOMAIN responses = 1 .. L /\ DOMAIN responses' = 1 .. L + 2
      /\ \A i \in DOMAIN responses : responses'[i] = responses[i]
      /\ responses'[L + 1] = Document
      /\ responses'[L + 2] = [kind |-> "snapshot", version |-> Now]
  BY <1>1, <1>2, SentPositions
<1>4. Now' = Now /\ Now \in Nat /\ view.token \in 0 .. Now /\ view.since \in 0 .. Now
  BY <1>1, TypedFacts DEF Now, Views
<1>5. Document.kind = "document" /\ Document.doc.version = Now
  BY DEF Document, Entry
<1>6. PICK d, s : d = L + 1 /\ s = L + 2
  OBVIOUS
<1>7. /\ d \in DOMAIN responses' /\ s \in DOMAIN responses' /\ d < s /\ d = Len(responses) + 1
      /\ responses'[d].kind = "document" /\ responses'[d].doc.version = Now
      /\ responses'[s].kind = "snapshot" /\ responses'[s].version = Now
      /\ \A i \in DOMAIN responses' : i \in DOMAIN responses \/ i = d \/ i = s
      /\ \A i \in DOMAIN responses : i \in DOMAIN responses' /\ i < d
      /\ \A i \in DOMAIN responses' : i >= d => i = d \/ i = s
      /\ Len(responses') = s
  BY <1>3, <1>5, <1>6, <1>2
<1>8. \A i : Quiet(responses, i) => Quiet(responses', i)
  BY <1>3, <1>7 DEF Quiet, Owing
<1>9. Quiet(responses', d)
  BY <1>7 DEF Quiet, Owing
<1>10. ASSUME NEW i, Quiet(responses', i) PROVE Quiet(responses, i)
  BY <1>3, <1>7, <1>10 DEF Quiet
<1>11. /\ \A i, kind : KindAt(responses, i, kind) => KindAt(responses', i, kind)
       /\ \A i, n : DocumentAt(responses, i, n) => DocumentAt(responses', i, n)
  BY <1>3, <1>7 DEF KindAt, DocumentAt
<1>12. /\ \A i \in DOMAIN responses : responses[i].kind = "removed" =>
              \E k \in DOMAIN responses : i < k /\ KindAt(responses, k, "added")
       /\ CurrentBefore(d)
       /\ ~view.current \/ tracker.timer => \E i \in DOMAIN responses : LastSnapshot(i)
       /\ \A i \in DOMAIN responses : LastSnapshot(i) => SnapshotOK(i, responses[i].version)
  BY <1>1, <1>7 DEF TargetInv, Answering
<1>13. \A i \in DOMAIN responses' : responses'[i].kind = "removed" =>
          \E k \in DOMAIN responses' : i < k /\ KindAt(responses', k, "added")
  BY <1>3, <1>7, <1>11, <1>12
<1>14. CurrentBefore(s)' /\ CurrentBefore(Len(responses) + 1)'
  <2>1. CASE target.current
    BY <1>1, <2>1 DEF CurrentBefore
  <2>2. CASE ~target.current
    <3>1. PICK j \in DOMAIN responses : j < d /\ Quiet(responses, j) /\ KindAt(responses, j, "current")
      BY <1>12, <2>2 DEF CurrentBefore
    <3>2. j \in DOMAIN responses' /\ Quiet(responses', j) /\ KindAt(responses', j, "current")
      BY <1>7, <1>8, <1>11, <3>1
    <3>3. j < s /\ j < Len(responses') + 1
      BY <1>3, <1>6, <1>7, <3>1
    <3>4. QED
      BY <3>2, <3>3 DEF CurrentBefore
  <2>3. QED
    BY <2>1, <2>2
<1>15. ASSUME NEW i \in DOMAIN responses, LastSnapshot(i)'
       PROVE  SnapshotOK(i, responses[i].version)'
  <2>1. PICK n : n = responses[i].version
    OBVIOUS
  <2>2. LastSnapshot(i)
    BY <1>3, <1>10, <1>15 DEF LastSnapshot, KindAt
  <2>3. SnapshotOK(i, n)
    BY <1>12, <2>1, <2>2
  <2>4. Told(i, n) => Told(i, n)'
    BY <1>1, <1>7, <1>8, <1>11 DEF Told
  <2>5. CurrentBefore(i) => CurrentBefore(i)'
    BY <1>1, <1>7, <1>8, <1>11 DEF CurrentBefore
  <2>6. SnapshotOK(i, n)'
    BY <1>1, <2>3, <2>4, <2>5 DEF SnapshotOK
  <2>7. responses'[i].version = n
    BY <1>3, <2>1
  <2>8. QED
    BY <2>6, <2>7 DEF SnapshotOK, Told, CurrentBefore
<1>16. PICK n : n = Now
  OBVIOUS
<1>17. SnapshotOK(s, n)'
  <2>1. view'.since <= n /\ view'.token <= n
    BY <1>1, <1>4, <1>16
  <2>2. DocumentAt(responses', d, n)
    BY <1>7, <1>16 DEF DocumentAt, KindAt
  <2>3. Told(s, n)'
    BY <1>7, <1>9, <2>2 DEF Told
  <2>4. QED
    BY <1>14, <2>1, <2>3 DEF SnapshotOK
<1>18. responses'[s].version = n
  BY <1>7, <1>16
<1>19. ASSUME NEW i \in DOMAIN responses', LastSnapshot(i)'
       PROVE  SnapshotOK(i, responses[i].version)'
  <2>1. CASE i \in DOMAIN responses
    BY <1>15, <1>19, <2>1
  <2>2. CASE i = s
    BY <1>17, <1>18, <2>2 DEF SnapshotOK, Told, CurrentBefore
  <2>3. i # d
    BY <1>7, <1>19 DEF LastSnapshot, KindAt
  <2>4. QED
    BY <1>7, <2>1, <2>2, <2>3
<1>20. ~view'.current \/ tracker'.timer => \E i \in DOMAIN responses' : LastSnapshot(i)'
  <2>1. ASSUME NEW i \in DOMAIN responses, LastSnapshot(i) PROVE LastSnapshot(i)'
    BY <1>8, <1>11, <2>1 DEF LastSnapshot
  <2>2. QED
    BY <1>1, <1>7, <1>12, <2>1
<1>21. QED
  BY <1>13, <1>14, <1>19, <1>20 DEF Answering

\* The server reads a request, and sends.
LEMMA TargetServer ==
  ASSUME Typed, Typed', DataInv, TargetInv, ServerAnswers \/ ServerSends, Tokens'
  PROVE  TargetInv'
<1>1. /\ UNCHANGED <<view, update, target>>
      /\ \/ requests # <<>> /\ requests' = Tail(requests)
         \/ requests' = requests
  BY ServerAnswersCases, ServerSendsCases
<1>2. TargetTrue' /\ Unread'
  BY <1>1 DEF TargetInv, TargetTrue, Unread
<1>3. LastRequest'
  <2>1. CASE requests' = requests
    BY <1>1, <2>1 DEF TargetInv, LastRequest, Watch
  <2>2. CASE requests # <<>> /\ requests' = Tail(requests)
    <3>1. requests \in Seq(Requests)
      BY TypedFacts DEF WireInv, WireTypes
    <3>2. /\ Len(requests) \in Nat /\ Len(requests') = Len(requests) - 1
          /\ requests' \in Seq(Requests) /\ DOMAIN requests' = 1 .. Len(requests) - 1
          /\ \A i \in DOMAIN requests' : requests'[i] = requests[i + 1]
      BY <2>2, <3>1, TailFacts
    <3>3. ASSUME requests' # <<>> PROVE requests'[Len(requests')] = requests[Len(requests)]
      <4>1. Len(requests') # 0 /\ Len(requests') \in Nat
        BY <3>2, <3>3, EmptySeq
      <4>2. Len(requests') \in DOMAIN requests' /\ Len(requests') + 1 = Len(requests)
        BY <3>2, <4>1
      <4>3. QED
        BY <3>2, <4>2
    <3>4. QED
      BY <1>1, <2>2, <3>3 DEF TargetInv, LastRequest, Watch
  <2>3. QED
    BY <1>1, <2>1, <2>2
<1>4. Answering'
  BY AnsweringAnswered, AnsweringSent DEF Answering
<1>5. QED
  BY <1>2, <1>3, <1>4 DEF TargetInv

-----------------------------------------------------------------------------
(* The target, and what the client reads.                                  *)

\* Where the messages that are left were, and the other way around.
LEMMA ReadShift ==
  ASSUME Typed, responses # <<>>, responses' = Tail(responses)
  PROVE  /\ DOMAIN responses = 1 .. Len(responses) /\ Len(responses) \in Nat /\ 1 \in DOMAIN responses
         /\ Head(responses) = responses[1]
         /\ Len(responses') \in Nat /\ Len(responses) = Len(responses') + 1
         /\ DOMAIN responses' = 1 .. Len(responses')
         /\ \A i \in DOMAIN responses' : i + 1 \in DOMAIN responses /\ responses'[i] = responses[i + 1]
         /\ \A i \in DOMAIN responses : i = 1 \/ \E k \in DOMAIN responses' : i = k + 1
         /\ \A i \in Nat \ {0} : \A j : j = i + 1 =>
              /\ Quiet(responses', i) <=> Quiet(responses, j)
              /\ \A kind : KindAt(responses', i, kind) <=> KindAt(responses, j, kind)
              /\ \A n : DocumentAt(responses', i, n) <=> DocumentAt(responses, j, n)
<1>1. responses \in Seq(WatchChanges)
  BY TypedFacts DEF WireInv, WireTypes
<1>2. /\ Len(responses) \in Nat /\ DOMAIN responses = 1 .. Len(responses) /\ 1 \in DOMAIN responses
      /\ Head(responses) = responses[1]
      /\ responses' \in Seq(WatchChanges) /\ Len(responses') = Len(responses) - 1
      /\ DOMAIN responses' = 1 .. Len(responses) - 1
      /\ \A i \in DOMAIN responses' : i + 1 \in DOMAIN responses /\ responses'[i] = responses[i + 1]
      /\ \A i \in DOMAIN responses : i = 1 \/ \E k \in DOMAIN responses' : i = k + 1
  BY <1>1, TailFacts
<1>3. Len(responses') \in Nat /\ Len(responses) = Len(responses') + 1 /\ DOMAIN responses' = 1 .. Len(responses')
  BY <1>2
<1>4. ASSUME NEW i \in Nat \ {0}, NEW j, j = i + 1
      PROVE  /\ Quiet(responses', i) <=> Quiet(responses, j)
             /\ \A kind : KindAt(responses', i, kind) <=> KindAt(responses, j, kind)
             /\ \A n : DocumentAt(responses', i, n) <=> DocumentAt(responses, j, n)
  <2>1. /\ Quiet(responses', i) <=> Quiet(responses, i + 1)
        /\ \A kind : KindAt(responses', i, kind) <=> KindAt(responses, i + 1, kind)
        /\ \A n : DocumentAt(responses', i, n) <=> DocumentAt(responses, i + 1, n)
    BY <1>1, TailShift
  <2>2. QED
    BY <1>4, <2>1
<1>5. QED
  BY <1>2, <1>3, <1>4

(***************************************************************************)
(* The server has said all that is needed, also when the client has read   *)
(* one message more: what the message said is in the target, the update or *)
(* the view's token.                                                       *)
(***************************************************************************)
LEMMA AnsweringRead ==
  ASSUME Typed, TargetInv, responses # <<>>, responses' = Tail(responses), log' = log,
         Heard, view'.since = view.since,
         target.current \/ (Quiet(responses, 1) /\ Head(responses).kind = "current") => target'.current,
         \A n \in Nat \ {0} :
           /\ Quiet(responses, 1)
           /\ update.version = n \/ (Head(responses).kind = "document" /\ Head(responses).doc.version = n)
           => update'.version = n \/ n = view'.token,
         \A i \in DOMAIN responses : i > 1 /\ LastSnapshot(i) =>
           /\ view'.token <= responses[i].version
           /\ responses[i].version = view.token => responses[i].version = view'.token,
         ~view'.current \/ tracker'.timer => \E i \in DOMAIN responses : i > 1 /\ LastSnapshot(i)
  PROVE  Answering'
<1>1. /\ DOMAIN responses = 1 .. Len(responses) /\ Len(responses) \in Nat /\ 1 \in DOMAIN responses
      /\ Head(responses) = responses[1]
      /\ Len(responses') \in Nat /\ Len(responses) = Len(responses') + 1
      /\ DOMAIN responses' = 1 .. Len(responses')
      /\ \A i \in DOMAIN responses' : i + 1 \in DOMAIN responses /\ responses'[i] = responses[i + 1]
      /\ \A i \in DOMAIN responses : i = 1 \/ \E k \in DOMAIN responses' : i = k + 1
      /\ \A i \in Nat \ {0} : \A j : j = i + 1 =>
           /\ Quiet(responses', i) <=> Quiet(responses, j)
           /\ \A kind : KindAt(responses', i, kind) <=> KindAt(responses, j, kind)
           /\ \A n : DocumentAt(responses', i, n) <=> DocumentAt(responses, j, n)
  BY ReadShift
<1>2. /\ \A i \in DOMAIN responses : responses[i].kind = "removed" =>
             \E k \in DOMAIN responses : i < k /\ KindAt(responses, k, "added")
      /\ CurrentBefore(Len(responses) + 1)
      /\ \A i \in DOMAIN responses : LastSnapshot(i) => SnapshotOK(i, responses[i].version)
  BY DEF TargetInv, Answering
<1> DEFINE L == Len(responses')
<1>3. L \in Nat /\ DOMAIN responses' = 1 .. L /\ DOMAIN responses = 1 .. L + 1
  BY <1>1
<1>4. /\ \A i \in DOMAIN responses' : i \in Nat \ {0} /\ i + 1 > 1
      /\ \A i \in DOMAIN responses : i \in Nat
  BY <1>3
<1> HIDE DEF L
<1>5. ASSUME NEW i \in DOMAIN responses', responses'[i].kind = "removed"
      PROVE  \E k \in DOMAIN responses' : i < k /\ KindAt(responses', k, "added")
  <2>1. PICK j : j = i + 1
    OBVIOUS
  <2>2. j \in DOMAIN responses /\ responses[j].kind = "removed"
    BY <1>1, <1>5, <2>1
  <2>3. PICK k \in DOMAIN responses : j < k /\ KindAt(responses, k, "added")
    BY <1>2, <2>2
  <2>4. k # 1
    BY <1>1, <2>2, <2>3
  <2>5. PICK m \in DOMAIN responses' : k = m + 1
    BY <1>1, <2>3, <2>4
  <2>6. i < m /\ m \in Nat \ {0}
    BY <1>4, <2>1, <2>3, <2>5
  <2>7. KindAt(responses', m, "added")
    BY <1>1, <2>3, <2>5, <2>6
  <2>8. QED
    BY <2>6, <2>7
<1>6. ASSUME NEW i \in Nat \ {0}, NEW l, l = i + 1, CurrentBefore(l)
      PROVE  CurrentBefore(i)'
  <2>1. CASE target.current
    BY <2>1 DEF CurrentBefore
  <2>2. ASSUME NEW j \in DOMAIN responses, j < l, Quiet(responses, j), KindAt(responses, j, "current")
        PROVE  CurrentBefore(i)'
    <3>1. CASE j = 1
      BY <1>1, <2>2, <3>1 DEF KindAt, CurrentBefore
    <3>2. CASE j # 1
      <4>1. PICK m \in DOMAIN responses' : j = m + 1
        BY <1>1, <3>2
      <4>2. m \in Nat \ {0} /\ m < i
        BY <1>4, <1>6, <2>2, <4>1
      <4>3. Quiet(responses', m) /\ KindAt(responses', m, "current")
        BY <1>1, <2>2, <4>1, <4>2
      <4>4. QED
        BY <4>1, <4>2, <4>3 DEF CurrentBefore
    <3>3. QED
      BY <3>1, <3>2
  <2>3. QED
    BY <1>6, <2>1, <2>2 DEF CurrentBefore
<1>7. CurrentBefore(Len(responses) + 1)'
  <2>1. PICK i, l : i = Len(responses') + 1 /\ l = Len(responses) + 1
    OBVIOUS
  <2>2. i \in Nat \ {0} /\ l = i + 1 /\ CurrentBefore(l)
    BY <1>1, <1>2, <2>1
  <2>3. CurrentBefore(i)'
    BY <1>6, <2>2
  <2>4. QED
    BY <2>1, <2>3 DEF CurrentBefore
<1>8. ASSUME NEW i \in DOMAIN responses', LastSnapshot(i)'
      PROVE  SnapshotOK(i, responses[i].version)'
  <2>1. PICK l : l = i + 1
    OBVIOUS
  <2>2. PICK n : n = responses[l].version
    OBVIOUS
  <2>3. l \in DOMAIN responses /\ l > 1 /\ i \in Nat \ {0} /\ responses'[i] = responses[l]
    <3>1. i + 1 \in DOMAIN responses /\ responses'[i] = responses[i + 1]
      BY <1>1
    <3>2. QED
      BY <1>4, <2>1, <3>1
  <2>4. LastSnapshot(l)
    <3>1. Quiet(responses', i) /\ KindAt(responses', i, "snapshot")
      BY <1>8 DEF LastSnapshot
    <3>2. Quiet(responses, l) /\ KindAt(responses, l, "snapshot")
      BY <1>1, <2>1, <2>3, <3>1
    <3>3. QED
      BY <3>2 DEF LastSnapshot
  <2>5. SnapshotOK(l, n) /\ n \in Nat \ {0}
    <3>1. Versioned(responses[l]) /\ VersionOf(responses[l]) = n
      BY <2>2, <2>4 DEF LastSnapshot, KindAt, Versioned, VersionOf
    <3>2. n \in 1 .. Now
      BY <2>3, <3>1, VersionTyped
    <3>3. n \in Nat \ {0}
      BY <3>2, TypedFacts
    <3>4. QED
      BY <1>2, <2>2, <2>3, <2>4, <3>3
  <2>6. view'.since <= n /\ view'.token <= n /\ (n = view.token => n = view'.token)
    BY <2>2, <2>3, <2>4, <2>5 DEF SnapshotOK
  <2>7. CurrentBefore(i)'
    BY <1>6, <2>1, <2>3, <2>5 DEF SnapshotOK
  <2>8. Quiet(responses, 1) => Quiet(responses', 1)
    <3>1. PICK p, q : p = 1 /\ q = p + 1
      OBVIOUS
    <3>2. Quiet(responses, p) => Quiet(responses, q)
      BY <1>1, <3>1 DEF Quiet
    <3>3. Quiet(responses', p) <=> Quiet(responses, q)
      BY <1>1, <3>1
    <3>4. QED
      BY <3>1, <3>2, <3>3
  <2>9. Told(l, n) => Told(i, n)' \/ n = view'.token
    <3>1. CASE update.version = n /\ Quiet(responses, 1)
      BY <2>5, <2>8, <3>1 DEF Told
    <3>2. ASSUME NEW j \in DOMAIN responses, j < l, Quiet(responses, j), DocumentAt(responses, j, n)
          PROVE  Told(i, n)' \/ n = view'.token
      <4>1. CASE j = 1
        <5>1. Head(responses).kind = "document" /\ Head(responses).doc.version = n /\ Quiet(responses, 1)
          BY <1>1, <3>2, <4>1 DEF DocumentAt, KindAt
        <5>2. QED
          BY <2>5, <2>8, <5>1 DEF Told
      <4>2. CASE j # 1
        <5>1. PICK m \in DOMAIN responses' : j = m + 1
          BY <1>1, <4>2
        <5>2. m \in Nat \ {0} /\ m < i
          BY <1>4, <2>1, <3>2, <5>1
        <5>3. Quiet(responses', m) /\ DocumentAt(responses', m, n)
          BY <1>1, <3>2, <5>1, <5>2
        <5>4. QED
          BY <5>1, <5>2, <5>3 DEF Told
      <4>3. QED
        BY <4>1, <4>2
    <3>3. QED
      BY <3>1, <3>2 DEF Told
  <2>10. SnapshotOK(i, n)'
    BY <2>5, <2>6, <2>7, <2>9 DEF SnapshotOK
  <2>11. n = responses'[i].version
    BY <2>2, <2>3
  <2>12. QED
    BY <2>10, <2>11 DEF SnapshotOK, Told, CurrentBefore
<1>9. ~view'.current \/ tracker'.timer => \E i \in DOMAIN responses' : LastSnapshot(i)'
  <2>1. ASSUME NEW j \in DOMAIN responses, j > 1, LastSnapshot(j)
        PROVE  \E i \in DOMAIN responses' : LastSnapshot(i)'
    <3>1. PICK i \in DOMAIN responses' : j = i + 1
      <4>1. j # 1
        BY <1>4, <2>1
      <4>2. QED
        BY <1>1, <4>1
    <3>2. i \in Nat \ {0}
      BY <1>4
    <3>3. Quiet(responses', i) /\ KindAt(responses', i, "snapshot")
      BY <1>1, <2>1, <3>1, <3>2 DEF LastSnapshot
    <3>4. QED
      BY <3>1, <3>3 DEF LastSnapshot
  <2>2. QED
    BY <2>1
<1>10. QED
  BY <1>5, <1>7, <1>8, <1>9 DEF Answering

\* What a message that is no snapshot does to the target and the update.
Noted(m) ==
  /\ m.kind \in Owing =>
       /\ update' = update /\ update.version = 0 /\ update = NoEntry
       /\ target'.outstanding = 0 => target'.documents = "none"
       /\ target.outstanding # 1 \/ m.kind # "removed" => target'.current = target.current
  /\ m.kind \notin Owing =>
       /\ target'.outstanding = target.outstanding
       /\ ~IsActiveTarget(target) => target' = target /\ update' = update
  /\ m.kind = "current" =>
       /\ update' = update /\ target'.documents = target.documents
       /\ target'.current <=> target.current \/ IsActiveTarget(target)
  /\ m.kind = "document" =>
       /\ update.version = 0 /\ m.doc.version # 0 /\ target'.current = target.current
       /\ IsActiveTarget(target) =>
            /\ update' = m.doc
            /\ target'.documents = IF view.synced THEN "modified" ELSE "added"

\* It is noted as the message says.
LEMMA ChangeNoted ==
  ASSUME Typed, StreamInv, TargetInv, responses # <<>>, NEW m, m = Head(responses), m.kind # "snapshot",
         HandleChange(m)
  PROVE  Noted(m)
<1>1. /\ target \in Targets /\ target.outstanding \in Nat /\ target.current \in BOOLEAN
      /\ responses \in Seq(WatchChanges)
      /\ m.kind \in {"added", "removed", "current", "document"}
      /\ m.kind = "document" => m.doc \in Entries(1)
  BY TypedFacts, FirstMessage DEF WireInv, WireTypes, Targets
<1>2. m = responses[1] /\ 1 \in DOMAIN responses
  BY <1>1, TailFacts
<1>3. update.version # 0 => m.kind = "current"
  BY <1>2 DEF StreamInv, Followed, Closed, SnapshotAt, KindAt
<1>4. update.version = 0 => update = NoEntry
  BY DEF StreamInv, Truths, TrueDoc
<1>5. update' = IF m.kind = "document" /\ IsActiveTarget(target) THEN m.doc ELSE update
  BY DEF HandleChange
<1>6. CASE m.kind = "added"
  <2>1. PICK t : t = [target EXCEPT !.outstanding = @ - 1]
    OBVIOUS
  <2>2. target' = ClearPendingChanges(t)
    BY <1>6, <2>1 DEF HandleChange
  <2>3. /\ t.outstanding = target.outstanding - 1 /\ t.current = target.current
        /\ t = [outstanding |-> t.outstanding, current |-> t.current, documents |-> t.documents]
    BY <1>1, <2>1 DEF Targets
  <2>4. /\ target'.outstanding = 0 => target'.documents = "none"
        /\ target'.current = target.current
    BY <2>2, <2>3 DEF ClearPendingChanges
  <2>5. QED
    BY <1>3, <1>4, <1>5, <1>6, <2>4 DEF Noted, Owing
<1>7. CASE m.kind = "removed"
  <2>1. target' = IF target.outstanding = 1 THEN NewTarget ELSE [target EXCEPT !.outstanding = @ - 1]
    BY <1>7 DEF HandleChange
  <2>2. CASE target.outstanding = 1
    BY <1>3, <1>4, <1>5, <1>7, <2>1, <2>2 DEF NewTarget, Noted, Owing
  <2>3. CASE target.outstanding # 1
    <3>1. target'.outstanding = target.outstanding - 1 /\ target'.current = target.current
      BY <1>1, <2>1, <2>3 DEF Targets
    <3>2. target'.outstanding # 0
      BY <1>1, <2>3, <3>1
    <3>3. QED
      BY <1>3, <1>4, <1>5, <1>7, <3>1, <3>2 DEF Noted, Owing
  <2>4. QED
    BY <2>2, <2>3
<1>8. CASE m.kind = "current"
  <2>1. target' = IF IsActiveTarget(target) THEN [target EXCEPT !.current = TRUE] ELSE target
    BY <1>8 DEF HandleChange
  <2>2. /\ target'.outstanding = target.outstanding /\ target'.documents = target.documents
        /\ target'.current <=> target.current \/ IsActiveTarget(target)
    BY <1>1, <2>1 DEF Targets
  <2>3. QED
    BY <1>5, <1>8, <2>1, <2>2 DEF Noted, Owing
<1>9. CASE m.kind = "document"
  <2>1. target' = IF IsActiveTarget(target)
                    THEN [target EXCEPT !.documents = IF view.synced THEN "modified" ELSE "added"]
                    ELSE target
    BY <1>9 DEF HandleChange
  <2>2. /\ target'.outstanding = target.outstanding /\ target'.current = target.current
        /\ IsActiveTarget(target) => target'.documents = IF view.synced THEN "modified" ELSE "added"
    BY <1>1, <2>1 DEF Targets
  <2>3. m.doc.version # 0
    BY <1>1, <1>9, TypedFacts DEF Entries
  <2>4. QED
    BY <1>3, <1>5, <1>9, <2>1, <2>2, <2>3 DEF Noted, Owing
<1>10. QED
  BY <1>1, <1>6, <1>7, <1>8, <1>9

\* A message is read that is no snapshot.
LEMMA TargetChange ==
  ASSUME Typed, Typed', StreamInv, TargetInv, OnWatchStreamChange, Head(responses).kind # "snapshot", Tokens'
  PROVE  TargetInv'
<1>1. PICK m : m = Head(responses)
  OBVIOUS
<1>2. /\ responses # <<>> /\ responses' = Tail(responses) /\ HandleChange(m) /\ m.kind # "snapshot"
      /\ UNCHANGED <<log, stream, requests>> /\ tracker' = UpdateState(tracker, "online")
      /\ Publish(view, "online")
  BY <1>1, OnWatchStreamChangeCases, HandleChangeCases
<1>3. /\ view'.open = view.open /\ view'.since = view.since /\ view'.token = view.token
      /\ view'.synced = view.synced /\ view'.current = view.current
  <2>1. view \in Views /\ view' = WithSyncState(view)
    BY <1>2, TypedFacts, PublishCases
  <2>2. SameListen(view, view') /\ view'.current = view.current
    BY <2>1, WithSyncStateType
  <2>3. QED
    BY <2>2 DEF SameListen
<1>4. /\ m.kind \in Owing =>
           /\ update' = update /\ update.version = 0 /\ update = NoEntry
           /\ target'.outstanding = 0 => target'.documents = "none"
           /\ target.outstanding # 1 \/ m.kind # "removed" => target'.current = target.current
      /\ m.kind \notin Owing =>
           /\ target'.outstanding = target.outstanding
           /\ ~IsActiveTarget(target) => target' = target /\ update' = update
      /\ m.kind = "current" =>
           /\ update' = update /\ target'.documents = target.documents
           /\ target'.current <=> target.current \/ IsActiveTarget(target)
      /\ m.kind = "document" =>
           /\ update.version = 0 /\ m.doc.version # 0 /\ target'.current = target.current
           /\ IsActiveTarget(target) =>
                /\ update' = m.doc
                /\ target'.documents = IF view.synced THEN "modified" ELSE "added"
  BY <1>1, <1>2, ChangeNoted DEF Noted
<1>5. m.kind \in Owing \/ m.kind = "current" \/ m.kind = "document"
  BY <1>1, <1>2, TypedFacts, FirstMessage DEF Owing
<1>6. LastRequest'
  BY <1>2, <1>3 DEF TargetInv, LastRequest, Watch
<1>7. TargetTrue'
  <2> SUFFICES ASSUME view.open, target'.outstanding = 0
               PROVE  /\ update'.version # 0 =>
                           target'.documents = IF view.synced THEN "modified" ELSE "added"
                      /\ update'.version = 0 => target'.documents = "none"
    BY <1>3 DEF TargetTrue
  <2>1. CASE m.kind \in Owing
    BY <1>4, <2>1
  <2>2. CASE m.kind = "current"
    BY <1>4, <2>2 DEF TargetInv, TargetTrue, Owing
  <2>3. CASE m.kind = "document"
    BY <1>4, <2>3 DEF Owing, IsActiveTarget
  <2>4. QED
    BY <1>5, <2>1, <2>2, <2>3
<1>8. Unread'
  <2> SUFFICES ASSUME view.open, view.current, target'.outstanding > 0 PROVE update' = NoEntry
    BY <1>3 DEF Unread
  <2>1. CASE m.kind \in Owing
    BY <1>4, <2>1
  <2>2. CASE m.kind \notin Owing
    <3>1. target.outstanding > 0 /\ target.outstanding # 0
      <4>1. target'.outstanding = target.outstanding
        BY <1>4, <2>2
      <4>2. target.outstanding \in Nat
        BY ActiveTarget
      <4>3. QED
        BY <4>1, <4>2
    <3>2. ~IsActiveTarget(target)
      BY <3>1 DEF IsActiveTarget
    <3>3. QED
      BY <1>4, <2>2, <3>1, <3>2 DEF TargetInv, Unread
  <2>3. QED
    BY <2>1, <2>2
<1>9. Answering'
  <2> SUFFICES ASSUME Heard' PROVE Answering'
    BY DEF Answering
  <2>1. Heard /\ view.open /\ requests = <<>>
    BY <1>2, <1>3 DEF Heard
  <2>2. m.kind = "removed" => target.outstanding # 1
    BY <1>1, <1>2, <2>1, NotTheLast
  <2>3. Quiet(responses, 1) => IsActiveTarget(target)
    BY <2>1, ActiveTarget DEF IsActiveTarget
  <2>4. target.current \/ (Quiet(responses, 1) /\ m.kind = "current") => target'.current
    BY <1>4, <1>5, <2>2, <2>3
  <2>5. ASSUME NEW n \in Nat \ {0}, Quiet(responses, 1),
               update.version = n \/ (m.kind = "document" /\ m.doc.version = n)
        PROVE  update'.version = n
    <3>1. n # 0
      OBVIOUS
    <3>2. CASE update.version = n
      BY <1>4, <1>5, <3>1, <3>2
    <3>3. CASE m.kind = "document" /\ m.doc.version = n
      BY <1>4, <2>3, <2>5, <3>3
    <3>4. QED
      BY <2>5, <3>2, <3>3
  <2>6. ASSUME NEW i \in DOMAIN responses, LastSnapshot(i)
        PROVE  view'.token <= responses[i].version
    <3>1. SnapshotOK(i, responses[i].version)
      BY <2>1, <2>6 DEF TargetInv, Answering
    <3>2. QED
      BY <1>3, <3>1 DEF SnapshotOK
  <2>7. ASSUME ~view'.current \/ tracker'.timer
        PROVE  \E i \in DOMAIN responses : i > 1 /\ LastSnapshot(i)
    <3>1. ~view.current
      BY <1>2, <1>3, <2>7 DEF UpdateState
    <3>2. PICK i \in DOMAIN responses : LastSnapshot(i)
      BY <2>1, <3>1 DEF TargetInv, Answering
    <3>3. i # 1
      BY <1>1, <1>2, <3>2, ReadShift DEF LastSnapshot, KindAt
    <3>4. DOMAIN responses = 1 .. Len(responses) /\ Len(responses) \in Nat
      BY <1>2, ReadShift
    <3>5. i > 1
      BY <3>3, <3>4
    <3>6. QED
      BY <3>2, <3>5
  <2>8. QED
    BY <1>1, <1>2, <1>3, <2>1, <2>4, <2>5, <2>6, <2>7, AnsweringRead
<1>10. QED
  BY <1>6, <1>7, <1>8, <1>9 DEF TargetInv

\* A snapshot's version is the token from now on.
LEMMA TokensSnapshot ==
  ASSUME Typed, Typed', Tokens, log' = log, NEW n \in 1 .. Now, SnapshotFound(n), SnapshotView(n), SnapshotLeft(n)
  PROVE  Tokens'
<1>1. CASE ~IsActiveTarget(target)
  <2>1. saved' = saved /\ SameListen(view, view')
    BY <1>1 DEF SnapshotLeft, SnapshotView, SameListen
  <2>2. CacheMoves /\ LogExtends
    BY SameLog DEF SnapshotLeft
  <2>3. QED
    BY <2>1, <2>2, TokensKept
<1>2. CASE IsActiveTarget(target)
  <2>1. view.open /\ saved.has = view.synced /\ Behind(saved.token) /\ Had(saved.has, saved.token)
    BY <1>2 DEF IsActiveTarget, Tokens
  <2>2. PICK s, h, y : s = saved.token /\ h = saved.has /\ y = (view.synced \/ target.documents = "added")
    OBVIOUS
  <2>3. /\ view'.token = n /\ view'.synced = y /\ Behind(n)' /\ CacheMoves
        /\ \E t \in {s, n} :
             /\ saved' = [token |-> t, has |-> h \/ target.documents = "added"]
             /\ view.token = 0 \/ target.documents # "none" => t = n
    BY <1>2, <2>2 DEF SnapshotView, SnapshotLeft
  <2>4. PICK t \in {s, n} :
             /\ saved' = [token |-> t, has |-> h \/ target.documents = "added"]
             /\ view.token = 0 \/ target.documents # "none" => t = n
    BY <2>3
  <2>5. /\ view.synced \in BOOLEAN /\ saved.has \in BOOLEAN /\ saved.token \in 0 .. Now /\ saved.token \in Nat
        /\ cache' \in Entries(0)' /\ Now' \in Nat
    <3>1. view \in Views /\ Now \in Nat /\ saved \in [token : 0 .. Now, has : BOOLEAN]
      BY TypedFacts
    <3>2. cache' \in Entries(0)' /\ log' \in Seq(Values)
      BY DEF Typed, DiskTypes, ServerTypes
    <3>3. QED
      BY <3>1, <3>2 DEF Views, Now
  <2>6. saved'.token = t /\ saved'.has = y
    BY <2>1, <2>2, <2>4, <2>5
  <2>7. y <=> log[n] # Missing
    BY <1>2, <2>2, <2>5 DEF SnapshotFound
  <2>8. Had(y, n)'
    BY <2>2, <2>7 DEF Had
  <2>9. CASE t = n
    BY <2>3, <2>6, <2>8, <2>9 DEF Tokens, Behind, Had
  <2>10. CASE t = s /\ t # n
    <3>1. y = h
      BY <2>1, <2>2, <2>4, <2>5, <2>10
    <3>2. s \in Nat /\ Behind(s) /\ Had(h, s)
      BY <2>1, <2>2, <2>5
    <3>3. Behind(s)'
      BY <2>3, <2>5, <3>2, BehindKept
    <3>4. Had(h, s)'
      BY <3>2 DEF Had
    <3>5. QED
      BY <2>3, <2>6, <2>8, <2>10, <3>1, <3>3, <3>4 DEF Tokens, Behind, Had
  <2>11. QED
    BY <2>9, <2>10
<1>3. QED
  BY <1>1, <1>2

\* A snapshot is read.
LEMMA TargetSnapshot ==
  ASSUME Typed, Typed', DataInv, StreamInv, TargetInv, OnWatchStreamChange, Head(responses).kind = "snapshot"
  PROVE  TargetInv'
<1>1. PICK n : n = Head(responses).version
  OBVIOUS
<1>2. /\ responses # <<>> /\ responses' = Tail(responses)
      /\ UNCHANGED <<log, stream, requests>> /\ tracker' = UpdateState(tracker, "online")
  BY OnWatchStreamChangeCases
<1>3. n \in 1 .. Now /\ SnapshotFound(n) /\ SnapshotView(n) /\ SnapshotLeft(n)
  BY <1>1, SnapshotLeaves
<1>4. Tokens'
  BY <1>2, <1>3, TokensSnapshot DEF TargetInv
<1>5. view'.open = view.open /\ view'.since = view.since
  BY <1>3 DEF SnapshotView
<1>6. /\ target.outstanding \in Nat /\ target \in Targets
      /\ target.outstanding = 0 <=> requests = <<>> /\ Quiet(responses, 1)
  BY ActiveTarget, TypedFacts DEF WireInv, WireTypes, Targets
<1>7. update' = NoEntry /\ update'.version = 0
  BY <1>3 DEF SnapshotLeft, NoEntry, Entry
<1>8. /\ target' = IF IsActiveTarget(target) THEN [target EXCEPT !.documents = "none"] ELSE target
      /\ target'.outstanding = target.outstanding /\ target'.current = target.current
      /\ IsActiveTarget(target) => target'.documents = "none"
  BY <1>3, <1>6 DEF SnapshotLeft, Targets
<1>9. LastRequest'
  <2> SUFFICES ASSUME view.open, requests # <<>>
               PROVE  requests[Len(requests)] = Watch(view')
    BY <1>2, <1>5 DEF LastRequest, Watch
  <2>1. ~IsActiveTarget(target)
    BY <1>6 DEF IsActiveTarget
  <2>2. view'.token = view.token
    BY <1>3, <2>1 DEF SnapshotView
  <2>3. QED
    BY <2>2 DEF TargetInv, LastRequest, Watch
<1>10. TargetTrue' /\ Unread'
  BY <1>5, <1>7, <1>8 DEF TargetTrue, Unread, IsActiveTarget
<1>11. Answering'
  <2> SUFFICES ASSUME Heard' PROVE Answering'
    BY DEF Answering
  <2>1. Heard /\ view.open /\ requests = <<>>
    BY <1>2, <1>5 DEF Heard
  <2>2. IsActiveTarget(target) <=> Quiet(responses, 1)
    BY <1>6, <2>1 DEF IsActiveTarget
  <2>3. /\ \A i \in DOMAIN responses : LastSnapshot(i) => SnapshotOK(i, responses[i].version)
        /\ ~view.current \/ tracker.timer => \E i \in DOMAIN responses : LastSnapshot(i)
    BY <2>1 DEF TargetInv, Answering
  <2>4. /\ DOMAIN responses = 1 .. Len(responses) /\ Len(responses) \in Nat /\ 1 \in DOMAIN responses
        /\ Head(responses) = responses[1]
    BY <1>2, ReadShift
  <2>5. ASSUME NEW k \in Nat \ {0}, Quiet(responses, 1), update.version = k
        PROVE  k = view'.token
    <3>1. update.version # 0
      BY <2>5
    <3>2. update.version = n
      BY <1>1, <2>4, <3>1 DEF StreamInv, Followed, Closed, SnapshotAt, KindAt
    <3>3. view'.token = n
      BY <1>3, <2>2, <2>5 DEF SnapshotView
    <3>4. QED
      BY <2>5, <3>2, <3>3
  <2>6. ASSUME NEW i \in DOMAIN responses, i > 1, LastSnapshot(i)
        PROVE  /\ view'.token <= responses[i].version
               /\ responses[i].version = view.token => responses[i].version = view'.token
    <3>1. SnapshotOK(i, responses[i].version)
      BY <2>3, <2>6
    <3>2. CASE ~IsActiveTarget(target)
      BY <1>3, <3>1, <3>2 DEF SnapshotOK, SnapshotView
    <3>3. CASE IsActiveTarget(target)
      <4>1. view'.token = n /\ view.token <= n
        BY <1>3, <3>3 DEF SnapshotView, SnapshotFound
      <4>2. /\ Versioned(responses[1]) /\ VersionOf(responses[1]) = n
            /\ Versioned(responses[i]) /\ VersionOf(responses[i]) = responses[i].version
        BY <1>1, <2>4, <2>6 DEF LastSnapshot, KindAt, Versioned, VersionOf
      <4>3. n <= responses[i].version
        BY <2>4, <2>6, <4>2 DEF StreamInv, Order, Sorted
      <4>4. n \in Nat /\ view.token \in Nat /\ responses[i].version \in Nat
        <5>1. responses[i].version \in 1 .. Now /\ Now \in Nat
          BY <4>2, VersionTyped, TypedFacts
        <5>2. view.token \in 0 .. Now
          BY TypedFacts DEF Views
        <5>3. QED
          BY <1>3, <5>1, <5>2
      <4>5. QED
        BY <4>1, <4>3, <4>4
    <3>4. QED
      BY <3>2, <3>3
  <2>7. ASSUME ~view'.current \/ tracker'.timer
        PROVE  \E i \in DOMAIN responses : i > 1 /\ LastSnapshot(i)
    <3>1. ~view'.current
      BY <1>2, <2>7 DEF UpdateState
    <3>2. ~IsActiveTarget(target)
      BY <1>3, <3>1 DEF SnapshotView, SnapshotFound
    <3>3. ~view.current
      BY <1>3, <3>1, <3>2 DEF SnapshotView
    <3>4. PICK i \in DOMAIN responses : LastSnapshot(i)
      BY <2>3, <3>3
    <3>5. i # 1
      BY <2>2, <3>2, <3>4 DEF LastSnapshot
    <3>6. i > 1
      BY <2>4, <3>5
    <3>7. QED
      BY <3>4, <3>6
  <2>8. Head(responses).kind # "current" /\ Head(responses).kind # "document"
    OBVIOUS
  <2>9. QED
    BY <1>2, <1>5, <1>8, <2>1, <2>5, <2>6, <2>7, <2>8, AnsweringRead
<1>12. QED
  BY <1>4, <1>9, <1>10, <1>11 DEF TargetInv

-----------------------------------------------------------------------------
(* The target, action by action.                                           *)

\* A document put into the view, and a change of the online state, leave the
\* query as it is.
LEMMA DocumentHeld ==
  ASSUME Typed, Typed', made' = made,
         view' = WithSyncState(WithDocument(view, GetDocument(cache', queue')))
  PROVE  SameListen(view, view') /\ view'.current = view.current
<1> DEFINE doc == GetDocument(cache', queue')
           v == WithDocument(view, doc)
<1>1. queue' \in Seq(DOMAIN made) /\ cache'.value \in Values /\ cache'.unsynced \in BOOLEAN
  BY DEF Typed, DiskTypes, Entries
<1>2. doc \in Documented
  BY <1>1, NewDocument
<1> HIDE DEF doc
<1>3. v \in Views /\ SameListen(view, v) /\ v.current = view.current
  BY <1>2, TypedFacts, WithDocumentType
<1>4. view' = WithSyncState(v)
  BY DEF doc
<1> HIDE DEF v
<1>5. SameListen(v, view') /\ view'.current = v.current
  BY <1>3, <1>4, WithSyncStateType
<1>6. QED
  BY <1>3, <1>5 DEF SameListen

\* So does what being offline makes of the view.
LEMMA BroadcastHeld ==
  ASSUME Typed, NEW t, SetAndBroadcast(t)
  PROVE  /\ SameListen(view, view') /\ (view'.current => view.current) /\ tracker' = t
         /\ t.state # tracker.state /\ t.state = "offline" => ~view'.current
<1>1. tracker' = t /\ Publish(BroadcastView(t), t.state)
  BY BroadcastResult
<1>2. view' = WithSyncState(BroadcastView(t))
  BY <1>1, PublishCases
<1>3. /\ BroadcastView(t) \in Views /\ SameListen(view, BroadcastView(t))
      /\ BroadcastView(t).current => view.current
      /\ t.state # tracker.state /\ t.state = "offline" => ~BroadcastView(t).current
  BY BroadcastShape
<1>4. SameListen(BroadcastView(t), view') /\ view'.current = BroadcastView(t).current
  BY <1>2, <1>3, WithSyncStateType
<1>5. QED
  BY <1>1, <1>3, <1>4 DEF SameListen

\* The view that is opened is that of the tokens on disk, and not current.
LEMMA OpenedView ==
  ASSUME Typed, view' = WithSyncState(InitialView)
  PROVE  /\ view'.open /\ ~view'.current /\ view'.token = saved.token /\ view'.synced = saved.has
         /\ view'.since = Now
<1>1. /\ InitialView \in Views /\ InitialView.open /\ ~InitialView.current
      /\ InitialView.token = saved.token /\ InitialView.since = Now
      /\ InitialView.synced = saved.has
  BY InitialViewType
<1>2. SameListen(InitialView, view') /\ view'.current = InitialView.current
  BY <1>1, WithSyncStateType
<1>3. QED
  BY <1>1, <1>2 DEF SameListen

\* What changes neither the query nor the stream.
LEMMA TargetSame ==
  ASSUME Typed, Typed', TargetInv, LogExtends, CacheMoves,
         UNCHANGED <<saved, view, tracker, stream, requests, responses, target, update>>
  PROVE  TargetInv'
<1>1. SameListen(view, view')
  BY DEF SameListen
<1>2. Tokens'
  BY <1>1, TokensKept DEF TargetInv
<1>3. QED
  BY <1>1, <1>2, TargetKept

\* The tasks of the worker keep what is said of the target.
LEMMA TargetRunTask ==
  ASSUME Typed, Typed', TargetInv, LogExtends, CacheMoves, RunTask
  PROVE  TargetInv'
<1>1. /\ tasks # <<>> /\ TaskKept
      /\ Head(tasks).kind = "listen" => AddQueryListener(Head(tasks).read)
      /\ Head(tasks).kind = "remove" => RemoveQueryListener(Head(tasks).read)
      /\ Head(tasks).kind = "write" => WriteMutations(Head(tasks).write)
  BY RunTaskCases
<1>2. Head(tasks).kind \in {"listen", "remove", "write"}
  BY <1>1, FirstTask DEF Typed
<1>3. Tokens
  BY DEF TargetInv
<1>4. CASE Head(tasks).kind = "listen"
  <2>1. /\ saved' = saved
        /\ \/ UNCHANGED <<view, tracker, stream, requests, responses, target, update>>
           \/ Opens
    BY <1>1, <1>4, AddListenerCases
  <2>2. CASE UNCHANGED <<view, tracker, stream, requests, responses, target, update>>
    BY <2>1, <2>2, TargetSame
  <2>3. CASE Opens
    <3>1. /\ view'.open /\ ~view'.current /\ view'.token = saved.token /\ view'.synced = saved.has
      BY <2>3, OpenedView DEF Opens
    <3>2. Tokens'
      BY <1>3, <2>1, <3>1, TokensKept
    <3>3. stream' # "open" \/ Send(Watch(view'))
      BY <2>3 DEF Opens, Restarted
    <3>4. QED
      BY <3>1, <3>2, <3>3, TargetOffline, TargetAsked
  <2>4. QED
    BY <2>1, <2>2, <2>3
<1>5. CASE Head(tasks).kind = "remove"
  <2>1. \/ UNCHANGED <<view, saved, tracker, stream, requests, responses, target, update>>
        \/ view.open /\ Closes
    BY <1>1, <1>5, RemoveListenerCases
  <2>2. CASE UNCHANGED <<view, saved, tracker, stream, requests, responses, target, update>>
    BY <2>2, TargetSame
  <2>3. CASE view.open /\ Closes
    <3>1. ~view'.open /\ saved' = [saved EXCEPT !.token = view.token]
      BY <2>3 DEF Closes, NoView
    <3>2. Tokens'
      BY <1>3, <2>3, <3>1, TokensKept
    <3>3. QED
      BY <3>1, <3>2, TargetClosed
  <2>4. QED
    BY <2>1, <2>2, <2>3
<1>6. CASE Head(tasks).kind = "write"
  <2>1. /\ UNCHANGED <<saved, tracker, stream, requests, responses, target, update, cache, made>>
        /\ view' = WithSyncState(WithDocument(view, GetDocument(cache, queue')))
    BY <1>1, <1>6, WriteMutationsCases, PublishCases DEF TaskKept
  <2>2. SameListen(view, view') /\ view'.current = view.current
    BY <2>1, DocumentHeld
  <2>3. Tokens'
    BY <1>3, <2>1, <2>2, TokensKept
  <2>4. QED
    BY <2>1, <2>2, <2>3, TargetKept
<1>7. QED
  BY <1>2, <1>4, <1>5, <1>6

\* Every step does.
LEMMA TargetStep ==
  ASSUME Typed, Typed', DataInv, StreamInv, TargetInv, [Next]_vars
  PROVE  TargetInv'
<1>1. LogExtends /\ CacheMoves
  BY FlowStep DEF Flow
<1>2. Tokens
  BY DEF TargetInv
<1>3. CASE UNCHANGED vars
  <2>1. UNCHANGED <<saved, view, tracker, stream, requests, responses, target, update>>
    BY <1>3 DEF vars, disk, listening, net, wire
  <2>2. QED
    BY <1>1, <2>1, TargetSame
<1>4. CASE getDocument
  BY <1>1, <1>4, GetDocumentCases, TargetSame
<1>5. ASSUME NEW kind \in Kinds, WriteData(kind) PROVE TargetInv'
  BY <1>1, <1>5, WriteDataCases, TargetSame
<1>6. CASE OnEvent
  BY <1>1, <1>6, OnEventCases, TargetSame
<1>7. CASE RunTask
  BY <1>1, <1>7, TargetRunTask
<1>8. CASE OnWriteResult
  <2>1. /\ UNCHANGED <<saved, tracker, stream, requests, responses, target, update, made>>
        /\ view' = WithSyncState(WithDocument(view, GetDocument(cache', queue')))
    BY <1>8, OnWriteResultCases, PublishCases
  <2>2. SameListen(view, view') /\ view'.current = view.current
    BY <2>1, DocumentHeld
  <2>3. Tokens'
    BY <1>1, <1>2, <2>1, <2>2, TokensKept
  <2>4. QED
    BY <1>1, <2>1, <2>2, <2>3, TargetKept
<1>9. CASE OnlineStateTimeout
  <2>1. PICK t : t = [tracker EXCEPT !.state = "offline", !.timer = FALSE]
    OBVIOUS
  <2>2. /\ tracker.timer /\ SetAndBroadcast(t)
        /\ UNCHANGED <<saved, stream, requests, responses, target, update>>
    BY <1>9, <2>1, OnlineStateTimeoutCases
  <2>3. SameListen(view, view') /\ (view'.current => view.current)
    BY <2>2, BroadcastHeld
  <2>4. Tokens'
    BY <1>1, <1>2, <2>2, <2>3, TokensKept
  <2>5. QED
    BY <1>1, <2>2, <2>3, <2>4, TargetKept
<1>10. CASE StreamOpens
  <2>1. /\ stream = "starting" /\ UNCHANGED <<saved, view, responses, update>>
        /\ view.open => Send(Watch(view))
    BY <1>10, StreamOpensCases
  <2>2. SameListen(view, view')
    BY <2>1 DEF SameListen
  <2>3. Tokens'
    BY <1>1, <1>2, <2>1, <2>2, TokensKept
  <2>4. update' = NoEntry
    BY <2>1, TypedFacts DEF WireInv, Offline
  <2>5. view'.open => Send(Watch(view'))
    BY <2>1
  <2>6. QED
    BY <2>3, <2>4, <2>5, TargetClosed, TargetAsked
<1>11. CASE StreamFails \/ ConnectionLost \/ IdleTimeout \/ HandleCredentialChange
  <2>1. PICK state \in {"off", "starting"} : \E t : Ends(state, t) /\ results' \in {results, <<>>}
    BY <1>11, StreamEndsCases
  <2>2. PICK t : Ends(state, t)
    BY <2>1
  <2>3. SetAndBroadcast(t) /\ saved' = saved /\ stream' # "open"
    BY <2>1, <2>2 DEF Ends, Restarted
  <2>4. SameListen(view, view')
    BY <2>3, BroadcastHeld
  <2>5. Tokens'
    BY <1>1, <1>2, <2>3, <2>4, TokensKept
  <2>6. QED
    BY <2>3, <2>5, TargetOffline
<1>12. CASE OnWatchStreamChange
  <2>1. CASE Head(responses).kind = "snapshot"
    BY <1>12, <2>1, TargetSnapshot
  <2>2. CASE Head(responses).kind # "snapshot"
    <3>1. Publish(view, "online") /\ saved' = saved
      BY <1>12, <2>2, OnWatchStreamChangeCases, HandleChangeCases
    <3>2. SameListen(view, view')
      BY <3>1, PublishCases, TypedFacts, WithSyncStateType
    <3>3. Tokens'
      BY <1>1, <1>2, <3>1, <3>2, TokensKept
    <3>4. QED
      BY <1>12, <2>2, <3>3, TargetChange
  <2>3. QED
    BY <2>1, <2>2
<1>13. CASE Restart
  <2>1. ~view'.open /\ saved' = saved
    BY <1>13, RestartCases DEF NoView
  <2>2. Tokens'
    BY <1>1, <1>2, <2>1, TokensKept
  <2>3. QED
    BY <2>1, <2>2, TargetClosed
<1>14. CASE ServerAnswers \/ ServerSends
  <2>1. UNCHANGED <<saved, view>>
    BY <1>14, ServerAnswersCases, ServerSendsCases
  <2>2. SameListen(view, view')
    BY <2>1 DEF SameListen
  <2>3. Tokens'
    BY <1>1, <1>2, <2>1, <2>2, TokensKept
  <2>4. QED
    BY <1>14, <2>3, TargetServer
<1>15. CASE ServerWrites
  BY <1>1, <1>15, ServerWritesKept, TargetSame
<1>16. ASSUME NEW kind \in Kinds, OtherPhoneWrites(kind) PROVE TargetInv'
  BY <1>1, <1>16, OtherPhoneWritesCases, TargetSame
<1>17. QED
  BY <1>3, <1>4, <1>5, <1>6, <1>7, <1>8, <1>9, <1>10, <1>11, <1>12, <1>13, <1>14, <1>15, <1>16, NextCases

\* There is no target at first.
LEMMA TargetInitially == Init => TargetInv
<1> SUFFICES ASSUME Init PROVE TargetInv
  OBVIOUS
<1>1. /\ cache = NoEntry /\ saved = [token |-> 0, has |-> FALSE] /\ ~view.open
  BY DEF Init, NoView
<1>2. cache.version = 0 /\ cache.unsynced = FALSE
  BY <1>1 DEF NoEntry, Entry
<1>3. Tokens
  <2>1. saved.token = 0 /\ saved.has = FALSE
    BY <1>1
  <2>2. 0 >= 0
    OBVIOUS
  <2>3. Behind(saved.token)
    BY <1>2, <2>1, <2>2 DEF Behind
  <2>4. Had(saved.has, saved.token)
    BY <2>1 DEF Had
  <2>5. QED
    BY <1>1, <2>3, <2>4 DEF Tokens
<1>4. QED
  BY <1>1, <1>3 DEF TargetInv, LastRequest, TargetTrue, Unread, Answering, Heard

-----------------------------------------------------------------------------
(* A view that is current, and the cache.                                  *)

There == Values \ {Missing}

\* Own writes on a document that is there, or the first of which leaves one.
LEMMA OverlayThere ==
  ASSUME made \in Seq(Kinds), Len(made) <= MaxWrites, NEW ids \in Seq(DOMAIN made), NEW value \in Values,
         value # Missing \/ (ids # <<>> /\ AppliedTo(made[ids[1]], ids[1], value) # Missing)
  PROVE  Overlay(value, ids) # Missing
<1> DEFINE n == Len(ids)
<1>1. n \in Nat /\ (\A i \in 1 .. n : ids[i] \in DOMAIN made) /\ (ids # <<>> => n # 0)
  BY EmptySeq
<1>2. PICK f : After(made, value, ids, f, n)
  BY <1>1, AfterExists
<1>3. ASSUME NEW i \in 1 .. n
      PROVE  /\ f[i] = AppliedTo(made[ids[i]], ids[i], f[i - 1])
             /\ ids[i] \in (-MaxOthers) .. MaxWrites /\ made[ids[i]] \in Kinds
  <2>1. f[i] = AppliedTo(made[ids[i]], ids[i], f[i - 1])
    BY <1>2 DEF After
  <2>2. ids[i] \in DOMAIN made /\ DOMAIN made \subseteq (-MaxOthers) .. MaxWrites
    BY <1>1, OwnWrites
  <2>3. made[ids[i]] \in Kinds
    BY <2>2
  <2>4. QED
    BY <2>1, <2>2, <2>3
<1>4. \E s \in 0 .. n : f[s] \in There
  <2>1. f[0] = value
    BY <1>2 DEF After
  <2>2. CASE value # Missing
    <3>1. 0 \in 0 .. n
      BY <1>1
    <3>2. QED
      BY <2>1, <2>2, <3>1 DEF There
  <2>3. CASE ids # <<>> /\ AppliedTo(made[ids[1]], ids[1], value) # Missing
    <3>1. 1 \in 1 .. n /\ 1 \in 0 .. n /\ 1 - 1 = 0
      BY <1>1, <2>3
    <3>2. f[1] = AppliedTo(made[ids[1]], ids[1], value)
          /\ ids[1] \in (-MaxOthers) .. MaxWrites /\ made[ids[1]] \in Kinds
      BY <1>3, <2>1, <3>1
    <3>3. f[1] \in Values
      BY <3>2, AppliedToValue
    <3>4. QED
      BY <2>3, <3>1, <3>2, <3>3 DEF There
  <2>4. QED
    BY <2>2, <2>3
<1>5. PICK s \in 0 .. n : f[s] \in There
  BY <1>4
<1> DEFINE T == { k \in s .. n : f[k] \notin There }
<1>6. T = {}
  <2> SUFFICES ASSUME T # {} PROVE FALSE
    OBVIOUS
  <2>1. PICK k \in T : \A y \in T : k <= y
    <3>1. T \subseteq Nat
      OBVIOUS
    <3> HIDE DEF T
    <3>2. QED
      BY <3>1, LeastNatural
  <2>2. k \in s .. n /\ f[k] \notin There /\ k # s
    BY <1>5, <2>1
  <2>3. k \in 1 .. n /\ k - 1 \in s .. n /\ ~ (k <= k - 1)
    BY <1>1, <1>5, <2>2
  <2>4. f[k - 1] \in There
    BY <2>1, <2>3
  <2>5. PICK v : v = f[k - 1]
    OBVIOUS
  <2>6. /\ f[k] = AppliedTo(made[ids[k]], ids[k], v)
        /\ ids[k] \in (-MaxOthers) .. MaxWrites /\ made[ids[k]] \in Kinds
    BY <1>3, <2>3, <2>5
  <2>7. f[k] \in Values /\ f[k] # Missing
    BY <2>4, <2>5, <2>6, AppliedToValue, AppliedToThere DEF There
  <2>8. QED
    BY <2>2, <2>7 DEF There
<1>7. n \in s .. n
  BY <1>1, <1>5
<1>8. f[n] # Missing
  BY <1>6, <1>7 DEF There
<1>9. Overlay(value, ids) = f[n]
  BY <1>1, <1>2, OverlayAfter
<1>10. QED
  BY <1>8, <1>9

\* A document that there is, with own writes to come, is shown as such.
LEMMA MutatedView ==
  ASSUME WellFormed(view), view.open, NEW doc, Matches(view, doc), doc.state = "local"
  PROVE  view.mutated
BY DEF Matches, WellFormed

\* So it is after a step.
LEMMA MutatedNext ==
  ASSUME WellFormed(view)', view'.open, NEW doc, Matches(view, doc)', doc.state = "local"
  PROVE  view'.mutated
BY DEF Matches, WellFormed

\* Of the queue's writes on a document that there is, the view is pending.
LEMMA QueuedView ==
  ASSUME Typed, ViewInv, view.open, queue # <<>>,
         cache.value # Missing \/ AppliedTo(made[Head(queue)], Head(queue), cache.value) # Missing
  PROVE  view.mutated /\ view.value # Missing
<1>1. queue \in Seq(DOMAIN made) /\ made \in Seq(Kinds) /\ Len(made) <= MaxWrites /\ cache.value \in Values
      /\ cache.unsynced \in BOOLEAN
  BY TypedFacts DEF Entries
<1>2. Head(queue) = queue[1]
  BY <1>1, HeadTailProperties
<1>3. Overlay(cache.value, queue) # Missing
  BY <1>1, <1>2, OverlayThere
<1>4. PICK doc : doc = GetDocument(cache, queue)
  OBVIOUS
<1>5. doc.value # Missing
  BY <1>3, <1>4, GetDocumentValue
<1>6. DocumentState(doc, cache, queue)
  BY <1>1, <1>4, GetDocumentValue
<1>7. doc.state = "local"
  BY <1>5, <1>6 DEF DocumentState
<1>8. Matches(view, doc) /\ WellFormed(view)
  BY <1>4 DEF ViewInv, Fits, ViewShape
<1>9. view.mutated
  BY <1>7, <1>8, MutatedView
<1>10. QED
  BY <1>8, <1>9 DEF WellFormed

\* What leaves the cache and the query alone.
LEMMA CurrentKept ==
  ASSUME CurrentInv, cache' = cache, SameListen(view, view'), view'.current => view.current,
         view'.mutated = view.mutated \/ ~ (view'.open /\ cache.unsynced /\ cache.value # Missing /\ ~view'.mutated)
  PROVE  CurrentInv'
BY DEF CurrentInv, CurrentTrue, Estimated, SameListen

\* A view that is closed is not current.
LEMMA CurrentClosed ==
  ASSUME ~view'.open
  PROVE  CurrentInv'
BY DEF CurrentInv, CurrentTrue, Estimated

\* A write of a document that there is makes the view pending.
LEMMA CurrentWrite ==
  ASSUME Typed, Typed', CurrentInv, ViewInv', UNCHANGED <<cache, made>>, NEW w, queue' = Append(queue, w),
         SameListen(view, view'), view'.current = view.current
  PROVE  CurrentInv'
<1>1. ASSUME view'.open, cache.value # Missing PROVE view'.mutated
  <2>1. /\ queue' \in Seq(DOMAIN made) /\ made \in Seq(Kinds) /\ Len(made) <= MaxWrites
        /\ cache.value \in Values /\ cache.unsynced \in BOOLEAN /\ queue \in Seq(DOMAIN made)
    <3>1. queue' \in Seq(DOMAIN made)
      BY DEF Typed, DiskTypes
    <3>2. QED
      BY <3>1, TypedFacts DEF Entries
  <2>2. queue' # <<>>
    BY <2>1
  <2>3. Overlay(cache.value, queue') # Missing
    BY <1>1, <2>1, OverlayThere
  <2>4. PICK doc : doc = GetDocument(cache, queue')
    OBVIOUS
  <2>5. doc.value # Missing /\ DocumentState(doc, cache, queue')
    BY <2>1, <2>3, <2>4, GetDocumentValue
  <2>6. doc.state = "local"
    BY <2>2, <2>5 DEF DocumentState
  <2>7. GetDocument(cache, queue)' = doc
    BY <2>1, <2>4, NewDocument DEF Typed, DiskTypes, Entries
  <2>8. Matches(view, doc)' /\ WellFormed(view)'
    BY <1>1, <2>7 DEF ViewInv, Fits, ViewShape, Matches
  <2>9. QED
    BY <1>1, <2>6, <2>8, MutatedNext
<1>2. QED
  BY <1>1, CurrentKept

\* The result of a write is an estimate, but not shown over the write itself.
LEMMA CurrentOnWriteResult ==
  ASSUME Typed, Typed', ViewInv, ViewInv', DataInv, CurrentInv, OnWriteResult
  PROVE  CurrentInv'
<1>1. /\ results # <<>> /\ queue' = Tail(queue) /\ made' = made
      /\ cache' = IF Head(results).ok
                    THEN ApplyBatchResult(cache, Head(queue), Head(results).version) ELSE cache
      /\ view' = WithSyncState(WithDocument(view, GetDocument(cache', queue')))
  BY OnWriteResultCases, PublishCases
<1>2. SameListen(view, view') /\ view'.current = view.current
  BY <1>1, DocumentHeld
<1>3. view'.open = view.open /\ view'.since = view.since /\ view'.synced = view.synced
  BY <1>2 DEF SameListen
<1>4. /\ queue # <<>> /\ queue \in Seq(DOMAIN made) /\ cache \in Entries(0)
      /\ Head(results).version \in 1 .. Now /\ Now \in Nat
  <2>1. results \in Seq(Results) /\ Len(results) <= Len(queue) /\ queue \in Seq(DOMAIN made)
    BY TypedFacts
  <2>2. Len(results) # 0 /\ Len(results) \in Nat
    BY <1>1, <2>1, EmptySeq
  <2>3. Len(queue) # 0
    BY <2>1, <2>2
  <2>4. Head(results) \in Results
    BY <1>1, <2>1, HeadTailProperties
  <2>5. QED
    BY <2>3, <2>4, TypedFacts DEF Results
<1>5. PICK n : n = Head(results).version
  OBVIOUS
<1>6. \/ cache' = cache
      \/ /\ cache.version < n
         /\ cache' = Entry(n, AppliedTo(made[Head(queue)], Head(queue), cache.value), TRUE)
  BY <1>1, <1>5 DEF ApplyBatchResult
<1>7. \/ cache' = cache
      \/ cache'.version > cache.version /\ cache'.unsynced = TRUE
  BY <1>6 DEF Entry
<1>8. CurrentTrue'
  <2> SUFFICES ASSUME view.open, view.current
               PROVE  /\ cache'.version >= view.since
                      /\ ~view.synced /\ ~cache'.unsynced => cache'.value = Missing
    BY <1>2, <1>3 DEF CurrentTrue
  <2>1. cache.version >= view.since /\ (~view.synced /\ ~cache.unsynced => cache.value = Missing)
    BY DEF CurrentInv, CurrentTrue
  <2>2. view.since \in Nat /\ cache.version \in Nat /\ cache'.version \in Nat
    <3>1. view.since \in 0 .. Now /\ cache.version \in 0 .. Now
      BY TypedFacts DEF Views, Entries
    <3>2. cache'.version \in Nat
      BY <1>4, <1>5, <1>6, <3>1 DEF Entry
    <3>3. QED
      BY <1>4, <3>1, <3>2
  <2>3. QED
    BY <1>7, <2>1, <2>2
<1>9. ASSUME view'.open, cache'.unsynced, cache'.value # Missing PROVE view'.mutated
  <2>1. cache.value # Missing \/ AppliedTo(made[Head(queue)], Head(queue), cache.value) # Missing
    BY <1>6, <1>9 DEF Entry
  <2>2. view.mutated /\ view.value # Missing /\ WellFormed(view)
    BY <1>3, <1>4, <1>9, <2>1, QueuedView DEF ViewInv, ViewShape
  <2>3. view.state = "local"
    BY <2>2 DEF WellFormed
  <2>4. PICK doc : doc = GetDocument(cache', queue')
    OBVIOUS
  <2>5. queue' \in Seq(DOMAIN made) /\ made \in Seq(Kinds) /\ Len(made) <= MaxWrites
        /\ cache'.value \in Values /\ cache'.unsynced \in BOOLEAN
    <3>1. queue' \in Seq(DOMAIN made) /\ cache'.value \in Values /\ cache'.unsynced \in BOOLEAN
      BY <1>1 DEF Typed, DiskTypes, Entries
    <3>2. QED
      BY <3>1, TypedFacts
  <2>6. CASE cache'.unsynced
    <3>1. Overlay(cache'.value, queue') # Missing
      <4>1. PICK value, ids : value = cache'.value /\ ids = queue'
        OBVIOUS
      <4>2. Overlay(value, ids) # Missing
        BY <1>9, <2>5, <4>1, OverlayThere
      <4>3. QED
        BY <4>1, <4>2
    <3>2. /\ doc \in Documented /\ doc.value # Missing
          /\ doc.state = "local" \/ doc.state = "committed"
      <4>1. PICK entry, ids : entry = cache' /\ ids = queue'
        OBVIOUS
      <4>2. doc = GetDocument(entry, ids) /\ entry.unsynced = TRUE /\ entry.value \in Values
            /\ ids \in Seq(DOMAIN made)
        BY <2>4, <2>5, <2>6, <4>1
      <4>3. doc.value = Overlay(entry.value, ids) /\ DocumentState(doc, entry, ids) /\ doc \in Documented
        BY <2>5, <4>2, GetDocumentValue, GetDocumentType
      <4>4. doc.value # Missing
        BY <3>1, <4>1, <4>3
      <4>5. QED
        BY <4>2, <4>3, <4>4 DEF DocumentState
    <3>3. Changes(view, doc) => doc.state = "local"
      BY <2>2, <2>3, <3>2 DEF Changes
    <3>4. PICK v : v = WithDocument(view, doc)
      OBVIOUS
    <3>5. v.mutated /\ v \in Views
      <4>1. view \in Views
        BY TypedFacts
      <4>2. v \in Views
        BY <3>2, <3>4, <4>1, WithDocumentType
      <4>3. CASE view.open /\ Changes(view, doc)
        <5>1. v = [view EXCEPT !.value = doc.value, !.state = doc.state, !.mutated = doc.state = "local"]
          BY <3>4, <4>3 DEF WithDocument
        <5>2. v.mutated = (doc.state = "local")
          BY <4>1, <5>1 DEF Views
        <5>3. QED
          BY <3>3, <4>2, <4>3, <5>2
      <4>4. CASE ~ (view.open /\ Changes(view, doc))
        BY <2>2, <3>4, <4>2, <4>4 DEF WithDocument
      <4>5. QED
        BY <4>3, <4>4
    <3>6. view'.mutated = v.mutated
      BY <1>1, <2>4, <3>4, <3>5, WithSyncStateType
    <3>7. QED
      BY <3>5, <3>6
  <2>7. QED
    BY <1>9, <2>6
<1>10. QED
  BY <1>8, <1>9 DEF CurrentInv, Estimated

\* A snapshot that leaves an estimate in the cache leaves the document in the view.
LEMMA SnapshotKeepsView ==
  ASSUME Typed, OnWatchStreamChange, Head(responses).kind = "snapshot",
         NEW n \in 1 .. Now, n = Head(responses).version, SnapshotFound(n), cache'.unsynced = TRUE
  PROVE  cache' = cache /\ view'.mutated = view.mutated
<1>1. /\ RaiseWatchSnapshot(n)
      /\ cache' = IF Accepts(cache, DocumentUpdate(n)) THEN DocumentUpdate(n) ELSE cache
      /\ Publish(SeenView(n), "online")
  BY OnWatchStreamChangeCases, RaiseWatchSnapshotCases
<1>2. DocumentUpdate(n).unsynced = FALSE
  BY DEF SnapshotFound, NoEntry, Entry
<1>3. ~Accepts(cache, DocumentUpdate(n)) /\ cache' = cache
  BY <1>1, <1>2
<1>4. Seen(n) = view
  BY <1>3 DEF Seen
<1>5. SeenView(n) \in Views /\ SeenView(n).mutated = view.mutated
  BY <1>1, <1>4, SeenViewType
<1>6. view' = WithSyncState(SeenView(n))
  BY <1>1, PublishCases
<1>7. view'.mutated = SeenView(n).mutated
  BY <1>5, <1>6, WithSyncStateType
<1>8. QED
  BY <1>3, <1>5, <1>7

\* What a snapshot makes of a current view and the cache.
LEMMA CurrentSnapshot ==
  ASSUME Typed, Typed', DataInv, StreamInv, TargetInv, CurrentInv, OnWatchStreamChange,
         Head(responses).kind = "snapshot"
  PROVE  CurrentInv'
<1>1. PICK n : n = Head(responses).version
  OBVIOUS
<1>2. n \in 1 .. Now /\ SnapshotFound(n) /\ SnapshotView(n) /\ SnapshotLeft(n)
  BY <1>1, SnapshotLeaves
<1>3. view'.open = view.open /\ view'.since = view.since
  BY <1>2 DEF SnapshotView
<1>4. cache'.unsynced = TRUE => cache' = cache /\ view'.mutated = view.mutated
  BY <1>1, <1>2, SnapshotKeepsView
<1>5. /\ cache.version \in Nat /\ cache'.version \in Nat /\ view.since \in Nat /\ n \in Nat
      /\ cache'.unsynced \in BOOLEAN /\ view.synced \in BOOLEAN
  <2>1. cache \in Entries(0) /\ view \in Views /\ Now \in Nat /\ log \in Seq(Values)
    BY TypedFacts
  <2>2. cache' \in Entries(0)' /\ Now' \in Nat
    BY DEF Typed, DiskTypes, ServerTypes, Now
  <2>3. QED
    BY <1>2, <2>1, <2>2 DEF Entries, Views
<1>6. target.outstanding \in Nat
  BY ActiveTarget
<1>7. CASE IsActiveTarget(target)
  <2>1. /\ cache'.version >= n /\ (cache'.version = n => ~cache'.unsynced)
        /\ view.since <= n /\ view'.current = target.current /\ target.current
        /\ view'.synced = (view.synced \/ target.documents = "added")
        /\ view.open
    BY <1>2, <1>7 DEF SnapshotView, SnapshotLeft, SnapshotFound, Behind, IsActiveTarget
  <2>2. cache'.version >= view.since
    BY <1>5, <2>1
  <2>3. ASSUME ~view'.synced, ~cache'.unsynced PROVE cache'.value = Missing
    <3>1. log[n] = Missing /\ ~view.synced
      BY <1>2, <1>7, <2>1, <2>3 DEF SnapshotFound
    <3>2. n = 1
      BY <1>2, <1>7, <3>1 DEF SnapshotFound
    <3>3. CASE cache' = Entry(n, log[n], FALSE)
      BY <3>1, <3>3 DEF Entry
    <3>4. CASE cache' = cache
      <4>1. cache.version = 1
        <5>1. cache.unsynced \/ cache.version <= n
          BY <1>2 DEF SnapshotFound
        <5>2. QED
          BY <1>5, <2>1, <2>3, <3>2, <3>4, <5>1
      <4>2. cache.value = log[1]
        BY <2>3, <3>4, <4>1 DEF DataInv, CacheTrue
      <4>3. QED
        BY <3>1, <3>2, <3>4, <4>2
    <3>5. QED
      BY <1>2, <3>3, <3>4 DEF SnapshotLeft
  <2>4. CurrentTrue'
    BY <1>3, <2>2, <2>3 DEF CurrentTrue
  <2>5. ASSUME cache'.unsynced, cache'.value # Missing, ~view'.mutated PROVE FALSE
    <3>1. cache' = cache /\ ~view.mutated
      BY <1>4, <1>5, <2>5
    <3>2. cache.version <= view.since
      BY <2>1, <2>5, <3>1 DEF CurrentInv, Estimated
    <3>3. QED
      BY <1>5, <2>1, <2>5, <3>1, <3>2
  <2>6. QED
    BY <2>4, <2>5 DEF CurrentInv, Estimated
<1>8. CASE ~IsActiveTarget(target)
  <2>1. view'.current = view.current /\ view'.synced = view.synced
    BY <1>2, <1>8 DEF SnapshotView
  <2>2. view.open => target.outstanding > 0
    BY <1>6, <1>8 DEF IsActiveTarget
  <2>3. view.open /\ view.current => cache' = cache
    <3> SUFFICES ASSUME view.open, view.current PROVE cache' = cache
      OBVIOUS
    <3>1. update = NoEntry
      BY <2>2 DEF TargetInv, Unread
    <3>2. DocumentUpdate(n) = NoEntry
      BY <1>8, <3>1 DEF DocumentUpdate
    <3>3. QED
      BY <1>2, <3>2 DEF SnapshotLeft
  <2>4. CurrentTrue'
    BY <1>3, <2>1, <2>3 DEF CurrentInv, CurrentTrue
  <2>5. Estimated'
    <3> SUFFICES ASSUME view.open, cache'.unsynced, cache'.value # Missing, ~view'.mutated
                 PROVE  cache'.version <= view.since /\ ~view.current
      BY <1>3, <2>1 DEF Estimated
    <3>1. cache' = cache /\ ~view.mutated
      BY <1>4, <1>5
    <3>2. QED
      BY <3>1 DEF CurrentInv, Estimated
  <2>6. QED
    BY <2>4, <2>5 DEF CurrentInv
<1>9. QED
  BY <1>7, <1>8

\* What being offline makes of the view leaves it pending, or not.
LEMMA BroadcastMutated ==
  ASSUME Typed, NEW t, SetAndBroadcast(t)
  PROVE  view'.mutated = view.mutated
<1>1. view' = WithSyncState(BroadcastView(t))
  BY BroadcastResult, PublishCases
<1>2. BroadcastView(t) \in Views /\ BroadcastView(t).mutated = view.mutated
  BY BroadcastShape
<1>3. QED
  BY <1>1, <1>2, WithSyncStateType

\* A step that leaves the view and the cache alone.
LEMMA CurrentSame ==
  ASSUME CurrentInv, UNCHANGED <<cache, view>>
  PROVE  CurrentInv'
BY DEF CurrentInv, CurrentTrue, Estimated

\* A change of the online state.
LEMMA CurrentBroadcast ==
  ASSUME Typed, CurrentInv, NEW t, SetAndBroadcast(t), cache' = cache
  PROVE  CurrentInv'
BY BroadcastHeld, BroadcastMutated, CurrentKept

\* The tasks of the worker,
LEMMA CurrentRunTask ==
  ASSUME Typed, Typed', ViewInv', CurrentInv, RunTask
  PROVE  CurrentInv'
<1>1. /\ tasks # <<>> /\ TaskKept
      /\ Head(tasks).kind = "listen" => AddQueryListener(Head(tasks).read)
      /\ Head(tasks).kind = "remove" => RemoveQueryListener(Head(tasks).read)
      /\ Head(tasks).kind = "write" => WriteMutations(Head(tasks).write)
  BY RunTaskCases
<1>2. Head(tasks).kind \in {"listen", "remove", "write"}
  BY <1>1, FirstTask DEF Typed
<1>3. cache' = cache /\ made' = made /\ log' = log
  BY <1>1 DEF TaskKept
<1>4. CASE Head(tasks).kind = "listen"
  <2>1. view' = view \/ Opens
    BY <1>1, <1>4, AddListenerCases
  <2>2. CASE Opens
    <3>1. ~view'.current /\ view'.since = Now
      BY <2>2, OpenedView DEF Opens
    <3>2. cache.version <= Now
      BY TypedFacts DEF Entries
    <3>3. QED
      BY <1>3, <3>1, <3>2 DEF CurrentInv, CurrentTrue, Estimated
  <2>3. QED
    BY <1>3, <2>1, <2>2, CurrentSame
<1>5. CASE Head(tasks).kind = "remove"
  <2>1. view' = view \/ Closes
    BY <1>1, <1>5, RemoveListenerCases
  <2>2. Closes => ~view'.open
    BY DEF Closes, NoView
  <2>3. QED
    BY <1>3, <2>1, <2>2, CurrentSame, CurrentClosed
<1>6. CASE Head(tasks).kind = "write"
  <2>1. PICK w : w = Head(tasks).write
    OBVIOUS
  <2>2. /\ queue' = Append(queue, w)
        /\ view' = WithSyncState(WithDocument(view, GetDocument(cache, queue')))
    BY <1>1, <1>6, <2>1, WriteMutationsCases, PublishCases
  <2>3. SameListen(view, view') /\ view'.current = view.current
    BY <1>3, <2>2, DocumentHeld
  <2>4. QED
    BY <1>3, <2>2, <2>3, CurrentWrite
<1>7. QED
  BY <1>2, <1>4, <1>5, <1>6

\* and every step.
LEMMA CurrentStep ==
  ASSUME Typed, Typed', ViewInv, ViewInv', DataInv, StreamInv, TargetInv, CurrentInv, [Next]_vars
  PROVE  CurrentInv'
<1>1. CASE UNCHANGED vars
  <2>1. UNCHANGED <<cache, view>>
    BY <1>1 DEF vars, disk, listening
  <2>2. QED
    BY <2>1, CurrentSame
<1>2. CASE getDocument
  BY <1>2, GetDocumentCases, CurrentSame
<1>3. ASSUME NEW kind \in Kinds, WriteData(kind) PROVE CurrentInv'
  BY <1>3, WriteDataCases, CurrentSame
<1>4. CASE OnEvent
  BY <1>4, OnEventCases, CurrentSame
<1>5. CASE RunTask
  BY <1>5, CurrentRunTask
<1>6. CASE OnWriteResult
  BY <1>6, CurrentOnWriteResult
<1>7. CASE OnlineStateTimeout
  <2>1. PICK t : SetAndBroadcast(t) /\ cache' = cache
    BY <1>7, OnlineStateTimeoutCases
  <2>2. QED
    BY <2>1, CurrentBroadcast
<1>8. CASE StreamOpens
  BY <1>8, StreamOpensCases, CurrentSame
<1>9. CASE StreamFails \/ ConnectionLost \/ IdleTimeout \/ HandleCredentialChange
  <2>1. PICK state \in {"off", "starting"} : \E t : Ends(state, t) /\ results' \in {results, <<>>}
    BY <1>9, StreamEndsCases
  <2>2. PICK t : Ends(state, t)
    BY <2>1
  <2>3. SetAndBroadcast(t) /\ cache' = cache
    BY <2>2 DEF Ends
  <2>4. QED
    BY <2>3, CurrentBroadcast
<1>10. CASE OnWatchStreamChange
  <2>1. CASE Head(responses).kind = "snapshot"
    BY <1>10, <2>1, CurrentSnapshot
  <2>2. CASE Head(responses).kind # "snapshot"
    <3>1. cache' = cache /\ view' = WithSyncState(view)
      BY <1>10, <2>2, OnWatchStreamChangeCases, HandleChangeCases, PublishCases
    <3>2. SameListen(view, view') /\ view'.current = view.current /\ view'.mutated = view.mutated
      BY <3>1, TypedFacts, WithSyncStateType
    <3>3. QED
      BY <3>1, <3>2, CurrentKept
  <2>3. QED
    BY <2>1, <2>2
<1>11. CASE Restart
  <2>1. ~view'.open
    BY <1>11, RestartCases DEF NoView
  <2>2. QED
    BY <2>1, CurrentClosed
<1>12. CASE ServerAnswers \/ ServerSends
  BY <1>12, ServerAnswersCases, ServerSendsCases, CurrentSame
<1>13. CASE ServerWrites
  BY <1>13, ServerWritesKept, CurrentSame
<1>14. ASSUME NEW kind \in Kinds, OtherPhoneWrites(kind) PROVE CurrentInv'
  BY <1>14, OtherPhoneWritesCases, CurrentSame
<1>15. QED
  BY <1>1, <1>2, <1>3, <1>4, <1>5, <1>6, <1>7, <1>8, <1>9, <1>10, <1>11, <1>12, <1>13, <1>14, NextCases

\* Nothing is current at first.
LEMMA CurrentInitially == Init => CurrentInv
BY DEF Init, CurrentInv, CurrentTrue, Estimated, NoView

-----------------------------------------------------------------------------
(* A listener that waits has something to wait for.                        *)

\* With nothing under way the view of a listener is current.
LEMMA HeardView ==
  ASSUME Typed, TargetInv, waiting # {}, requests = <<>>, responses = <<>>, stream # "starting"
  PROVE  view.open /\ view.current
<1>1. view.open
  BY TypedFacts DEF Open
<1>2. stream = "open"
  BY <1>1, TypedFacts DEF Open, WireInv, WireTypes, Asserted
<1>3. Heard
  BY <1>1, <1>2 DEF Heard
<1>4. DOMAIN responses = {}
  OBVIOUS
<1>5. view.current
  BY <1>3, <1>4 DEF TargetInv, Answering
<1>6. QED
  BY <1>1, <1>5

\* A current view is shown as cached only for a document in limbo, and the
\* cache has none that the server has not sent, or not shown pending.
LEMMA CurrentNotWaiting ==
  ASSUME Typed, ViewInv, CurrentInv, view.open, view.current
  PROVE  ~shown.fromCache
<1> SUFFICES ASSUME shown.fromCache PROVE FALSE
  OBVIOUS
<1>1. view.sync = "local"
  BY DEF ViewInv, ViewShape, Shown, SnapshotOf
<1>2. ~view.synced /\ view.state \in {"committed", "synced"} /\ WellFormed(view)
  BY <1>1 DEF ViewInv, ViewShape, SyncState, InLimbo
<1>3. view.value # Missing /\ ~view.mutated /\ view.state # "local"
  BY <1>2 DEF WellFormed
<1>4. PICK doc : doc = GetDocument(cache, queue)
  OBVIOUS
<1>5. view.value = doc.value /\ doc.state # "local"
  BY <1>3, <1>4 DEF ViewInv, Fits, Matches
<1>6. DocumentState(doc, cache, queue)
  BY <1>4, GetDocumentForm
<1>7. cache.value # Missing
  BY <1>3, <1>5, <1>6 DEF DocumentState
<1>8. cache.unsynced
  BY <1>2, <1>7 DEF CurrentInv, CurrentTrue
<1>9. QED
  BY <1>3, <1>7, <1>8 DEF CurrentInv, Estimated

\* So no read is left.
LEMMA ReadsNotLeft ==
  ASSUME Typed, ViewInv, ReadInv, TargetInv, CurrentInv
  PROVE  NoReadLeftWaiting
<1>1. \A r \in DOMAIN reads :
        \/ Answered(r) \/ r \in waiting
        \/ \E i \in DOMAIN tasks : tasks[i] = [kind |-> "listen", read |-> r]
        \/ \E i \in DOMAIN main : main[i].read = r
  BY DEF ReadInv, UnderWay, ListenTask, Event
<1>2. ASSUME waiting # {}
      PROVE  /\ tracker.state # "offline"
             /\ tasks # <<>> \/ requests # <<>> \/ responses # <<>> \/ tracker.timer \/ stream = "starting"
  <2>1. shown.fromCache /\ tracker.state # "offline"
    BY <1>2 DEF ReadInv, Waits
  <2>2. requests # <<>> \/ responses # <<>> \/ stream = "starting"
    BY <1>2, <2>1, HeardView, CurrentNotWaiting
  <2>3. QED
    BY <2>1, <2>2
<1>3. QED
  BY <1>1, <1>2 DEF NoReadLeftWaiting

\* The inductive invariant: what the types say, and what the view, the reads,
\* the data, the stream, the target and the cache say of each other.
ClientInv == Typed /\ ViewInv /\ ReadInv /\ DataInv /\ StreamInv /\ TargetInv /\ CurrentInv

\* It holds at first,
LEMMA ClientInitially == Init => ClientInv
BY InitTyped, ViewInitially, ReadsInitially, FlowInitially, TargetInitially, CurrentInitially DEF ClientInv

\* after every step,
LEMMA ClientStep ==
  ASSUME ClientInv, [Next]_vars
  PROVE  ClientInv'
<1>1. Typed'
  BY StepTyped DEF ClientInv
<1>2. ViewInv' /\ ReadInv'
  BY <1>1, ViewStep, ReadsStep DEF ClientInv
<1>3. DataInv' /\ StreamInv'
  BY FlowStep DEF ClientInv, Flow
<1>4. TargetInv'
  BY <1>1, TargetStep DEF ClientInv
<1>5. CurrentInv'
  BY <1>1, <1>2, CurrentStep DEF ClientInv
<1>6. QED
  BY <1>1, <1>2, <1>3, <1>4, <1>5 DEF ClientInv

\* and so always.
LEMMA ClientInvariant == Spec => []ClientInv
<1>1. Init => ClientInv
  BY ClientInitially
<1>2. ClientInv /\ [Next]_vars => ClientInv'
  BY ClientStep
<1>3. QED
  BY <1>1, <1>2, PTL DEF Spec

(***************************************************************************)
(* No call of getDocument is left waiting: one without an answer has its   *)
(* listener, or its event, under way or waiting, and a listener waits only *)
(* while the client is not offline and the stream is starting or has a     *)
(* message under way.  The timer of OnlineStateTracker is never all that   *)
(* a listener has: a view with no message to come is current, and what a   *)
(* current view shows does not call itself cached.                         *)
(***************************************************************************)
THEOREM NoReadWaitsForNothing == Spec => []NoReadLeftWaiting
<1>1. ClientInv => NoReadLeftWaiting
  BY ReadsNotLeft DEF ClientInv
<1>2. QED
  BY <1>1, ClientInvariant, PTL

-----------------------------------------------------------------------------
(* What an answer shows was there.                                         *)

(***************************************************************************)
(* The phone has seen the document: the cache has it, or the first of its  *)
(* own writes makes it.  It has if there are own writes, for an update is  *)
(* only made of a document that was shown; so no result of a write makes   *)
(* an estimate of nothing, and a setData is not refused.                   *)
(***************************************************************************)
Visible == cache.value # Missing \/ (queue # <<>> /\ made[Head(queue)] = "set")

Queued == queue # <<>> => Visible

UpdateTask(task) == task.kind = "write" /\ made[task.write] = "update"
Updates == \A i \in DOMAIN tasks : UpdateTask(tasks[i]) => Visible

NotUnknown == cache.unsynced => cache.value # Missing

Refused == \A i \in DOMAIN results : ~results[i].ok => made[queue[i]] # "set"

Since == view.open => view.since >= 1

SightInv == Queued /\ Updates /\ NotUnknown /\ Refused /\ Since

(***************************************************************************)
(* A snapshot that is neither cached nor pending shows what the server had *)
(* since the listen, and one with a document is of one the phone has seen. *)
(***************************************************************************)
TrueTo(s) ==
  ~s.fromCache /\ ~s.pending => \E v \in 1 .. Now : s.since <= v /\ s.value = log[v]

Sound(s) == TrueTo(s) /\ (s.value # Missing => Visible)

EventsInv ==
  /\ \A i \in DOMAIN main : Sound(main[i].snapshot)
  /\ \A i \in DOMAIN answers : Sound(answers[i].snapshot)

\* With nothing seen there is no document in the view.
LEMMA NothingSeen ==
  ASSUME Typed, ViewInv, Queued, view.open, view.value # Missing
  PROVE  Visible
<1> SUFFICES ASSUME ~Visible PROVE FALSE
  OBVIOUS
<1>1. queue = <<>> /\ cache.value = Missing
  BY DEF Queued, Visible
<1>2. PICK doc : doc = GetDocument(cache, queue)
  OBVIOUS
<1>3. DocumentState(doc, cache, queue)
  BY <1>2, GetDocumentForm
<1>4. doc.state = "none" /\ doc.value = Missing
  BY <1>1, <1>3 DEF DocumentState
<1>5. QED
  BY <1>2, <1>4 DEF ViewInv, Fits, Matches

\* A current view that is neither cached nor pending shows what the cache has
\* from the server.
LEMMA SyncedView ==
  ASSUME Typed, ViewInv, CurrentInv, NotUnknown, view.open, view.sync # "local", ~view.mutated
  PROVE  view.current /\ ~cache.unsynced /\ view.value = cache.value
<1>1. view.current /\ WellFormed(view)
  BY DEF ViewInv, ViewShape, SyncState
<1>2. view.state # "local"
  BY <1>1 DEF WellFormed
<1>3. PICK doc : doc = GetDocument(cache, queue)
  OBVIOUS
<1>4. view.value = doc.value /\ doc.state # "local"
  BY <1>2, <1>3 DEF ViewInv, Fits, Matches
<1>5. DocumentState(doc, cache, queue) /\ doc.value = Overlay(cache.value, queue)
  BY <1>3, GetDocumentForm, GetDocumentValue
<1>6. CASE doc.state = "none"
  <2>1. Overlay(cache.value, queue) = Missing
    BY <1>5, <1>6 DEF DocumentState
  <2>2. PICK value, ids : value = cache.value /\ ids = queue
    OBVIOUS
  <2>3. /\ made \in Seq(Kinds) /\ Len(made) <= MaxWrites /\ ids \in Seq(DOMAIN made)
        /\ value \in Values
    BY <2>2, TypedFacts DEF Entries
  <2>4. Overlay(value, ids) = Missing
    BY <2>1, <2>2
  <2>5. value = Missing
    BY <2>3, <2>4, OverlayThere
  <2>6. QED
    BY <1>1, <1>4, <1>5, <2>1, <2>2, <2>5 DEF NotUnknown, Typed, DiskTypes, Entries
<1>7. CASE doc.state = "committed"
  <2>1. doc.value = cache.value /\ doc.value # Missing /\ cache.unsynced
    BY <1>5, <1>7 DEF DocumentState
  <2>2. QED
    BY <1>1, <2>1 DEF CurrentInv, Estimated
<1>8. CASE doc.state = "synced"
  BY <1>1, <1>4, <1>5, <1>8 DEF DocumentState
<1>9. QED
  BY <1>4, <1>5, <1>6, <1>7, <1>8 DEF DocumentState

\* So what is shown is sound.
ShownSound == Typed /\ ViewInv /\ DataInv /\ CurrentInv /\ SightInv => Sound(shown)

\* It is now,
LEMMA ShownSoundNow == ShownSound
<1> SUFFICES ASSUME Typed, ViewInv, DataInv, CurrentInv, SightInv PROVE Sound(shown)
  BY DEF ShownSound
<1>1. shown = IF view.open THEN SnapshotOf(view) ELSE NoSnapshot
  BY DEF ViewInv, ViewShape, Shown
<1>2. CASE ~view.open
  <2>1. shown.fromCache = TRUE /\ shown.value = Missing
    BY <1>1, <1>2 DEF NoSnapshot
  <2>2. QED
    BY <2>1 DEF Sound, TrueTo
<1>3. CASE view.open
  <2>1. /\ shown.value = view.value /\ shown.pending = view.mutated
        /\ shown.fromCache = (view.sync = "local")
        /\ view.sync # "local" => shown.since = view.since
    BY <1>1, <1>3 DEF SnapshotOf
  <2>2. shown.value # Missing => Visible
    BY <1>3, <2>1, NothingSeen DEF SightInv
  <2>3. ASSUME ~shown.fromCache, ~shown.pending
        PROVE  \E v \in 1 .. Now : shown.since <= v /\ shown.value = log[v]
    <3>1. view.sync # "local" /\ ~view.mutated
      BY <2>1, <2>3
    <3>2. view.current /\ ~cache.unsynced /\ view.value = cache.value
      BY <1>3, <3>1, SyncedView DEF SightInv
    <3>3. cache.version >= view.since /\ view.since >= 1
      BY <1>3, <3>2 DEF CurrentInv, CurrentTrue, SightInv, Since
    <3>4. cache.version \in 0 .. Now /\ view.since \in 0 .. Now /\ Now \in Nat
      BY TypedFacts DEF Entries, Views
    <3>5. cache.version \in 1 .. Now /\ cache.version > 0
      BY <3>3, <3>4
    <3>6. cache.value = log[cache.version]
      BY <3>2, <3>5 DEF DataInv, CacheTrue
    <3>7. shown.since <= cache.version /\ shown.value = log[cache.version]
      BY <2>1, <3>1, <3>2, <3>3, <3>4, <3>6
    <3>8. QED
      BY <3>5, <3>7
  <2>4. QED
    BY <2>2, <2>3 DEF Sound, TrueTo
<1>4. QED
  BY <1>2, <1>3

\* After a step too.
LEMMA ShownSoundNext == ShownSound'
BY ShownSoundNow, PTL

\* What a snapshot puts into the cache does not make the document unseen: there
\* was none only in the first version, of which there is no estimate.
LEMMA SnapshotVisible ==
  ASSUME Typed, DataInv, NEW n \in 1 .. Now, cache' \in {cache, Entry(n, log[n], FALSE)}, CacheMoves,
         UNCHANGED <<made, queue>>, Visible
  PROVE  Visible'
<1>1. CASE queue # <<>> /\ made[Head(queue)] = "set"
  BY <1>1 DEF Visible
<1>2. CASE cache' = cache
  BY <1>2 DEF Visible
<1>3. CASE cache.value # Missing /\ cache' = Entry(n, log[n], FALSE)
  <2> SUFFICES ASSUME log[n] = Missing PROVE FALSE
    BY <1>3 DEF Visible, Entry
  <2>1. Now \in Nat /\ cache.version \in Nat /\ n \in Nat /\ cache.unsynced \in BOOLEAN
    BY TypedFacts DEF Entries
  <2>2. n \notin 2 .. Now
    BY DEF DataInv, Grows
  <2>3. n = 1
    BY <2>1, <2>2
  <2>4. cache'.version = n /\ cache'.value = Missing
    BY <1>3 DEF Entry
  <2>5. cache.version # 0
    BY <1>3 DEF DataInv, CacheTrue, NoEntry, Entry
  <2>6. cache.version = 1
    <3>1. cache'.version = cache.version \/ cache'.version > cache.version
      BY DEF CacheMoves
    <3>2. QED
      BY <2>1, <2>3, <2>4, <2>5, <3>1
  <2>7. QED
    BY <1>3, <2>1, <2>3, <2>6 DEF DataInv, CacheTrue
<1>4. QED
  BY <1>1, <1>2, <1>3 DEF Visible

\* After the result of a write the cache has the document.
LEMMA ResultVisible ==
  ASSUME Typed, DataInv, SightInv, OnWriteResult
  PROVE  cache'.value # Missing
<1>1. /\ results # <<>> /\ made' = made
      /\ cache' = IF Head(results).ok
                    THEN ApplyBatchResult(cache, Head(queue), Head(results).version) ELSE cache
  BY OnWriteResultCases
<1>2. /\ results \in Seq(Results) /\ Len(results) <= Len(queue) /\ queue \in Seq(DOMAIN made)
      /\ made \in Seq(Kinds) /\ Len(made) <= MaxWrites /\ cache \in Entries(0) /\ Now \in Nat
  BY TypedFacts
<1>3. Len(results) # 0 /\ Len(results) \in Nat /\ Len(queue) \in Nat
  BY <1>1, <1>2, EmptySeq
<1>4. queue # <<>>
  BY <1>2, <1>3
<1>5. PICK r, w : r = Head(results) /\ w = Head(queue)
  OBVIOUS
<1>6. r = results[1] /\ 1 \in DOMAIN results /\ r \in Results /\ w = queue[1]
  BY <1>1, <1>2, <1>4, <1>5, TailFacts
<1>7. w \in DOMAIN made /\ made[w] \in Kinds /\ w \in (-MaxOthers) .. MaxWrites
  <2>1. w \in DOMAIN made
    BY <1>2, <1>4, <1>5, TailFacts
  <2>2. DOMAIN made = 1 .. Len(made) /\ Len(made) \in Nat /\ made[w] \in Kinds
    BY <1>2, <2>1
  <2>3. QED
    BY <1>2, <2>1, <2>2, ReadAssumption
<1>8. ~r.ok => made[w] # "set"
  BY <1>6 DEF SightInv, Refused
<1>9. cache.value # Missing \/ made[w] = "set"
  BY <1>4, <1>5 DEF SightInv, Queued, Visible
<1>10. cache.value \in Values /\ cache.version \in Nat
  BY <1>2 DEF Entries
<1>11. PICK n : n = r.version
  OBVIOUS
<1>12. n \in 1 .. Now /\ (r.ok => log[n] # Missing)
  BY <1>6, <1>11 DEF Results, DataInv, ResultsTrue
<1>13. CASE r.ok /\ cache.version < n
  <2>1. cache' = Entry(n, AppliedTo(made[w], w, cache.value), TRUE)
    BY <1>1, <1>5, <1>11, <1>13 DEF ApplyBatchResult
  <2>2. AppliedTo(made[w], w, cache.value) # Missing
    BY <1>7, <1>9, <1>10, AppliedToThere
  <2>3. QED
    BY <2>1, <2>2 DEF Entry
<1>14. CASE r.ok /\ ~ (cache.version < n)
  <2>1. cache' = cache
    BY <1>1, <1>5, <1>11, <1>14 DEF ApplyBatchResult
  <2> SUFFICES ASSUME cache.value = Missing PROVE FALSE
    BY <2>1
  <2>2. ~cache.unsynced
    BY DEF SightInv, NotUnknown
  <2>3. cache.version \in 1 .. Now /\ cache.version > 0 /\ (cache.version = n \/ cache.version \in 2 .. Now)
    <3>1. cache.version \in 0 .. Now
      BY <1>2 DEF Entries
    <3>2. QED
      BY <1>2, <1>12, <1>14, <3>1
  <2>4. log[cache.version] = Missing
    BY <2>2, <2>3 DEF DataInv, CacheTrue
  <2>5. cache.version # n
    BY <1>12, <1>14, <2>4
  <2>6. QED
    BY <2>3, <2>4, <2>5 DEF DataInv, Grows
<1>15. CASE ~r.ok
  BY <1>1, <1>5, <1>8, <1>9, <1>15
<1>16. QED
  BY <1>13, <1>14, <1>15

\* A step that leaves alone what the writes are made of, and queues none.
LEMMA SightKept ==
  ASSUME Typed, SightInv, UNCHANGED <<cache, queue, made>>, results' \in {results, <<>>},
         \A i \in DOMAIN tasks' : tasks'[i].kind = "write" => \E j \in DOMAIN tasks : tasks'[i] = tasks[j],
         Since'
  PROVE  SightInv' /\ (Visible => Visible')
<1>1. Visible' = Visible
  BY DEF Visible
<1>2. Queued' /\ NotUnknown'
  BY <1>1 DEF SightInv, Queued, NotUnknown
<1>3. Refused'
  BY DEF SightInv, Refused
<1>4. Updates'
  BY <1>1 DEF SightInv, Updates, UpdateTask
<1>5. QED
  BY <1>1, <1>2, <1>3, <1>4 DEF SightInv

\* The listen is kept with the query,
LEMMA SinceKept ==
  ASSUME Since, SameListen(view, view')
  PROVE  Since'
BY DEF Since, SameListen

\* and is none when the query is closed.
LEMMA SinceClosed ==
  ASSUME ~view'.open
  PROVE  Since'
BY DEF Since

\* Another call leaves the kinds of the writes before it.
LEMMA KindsKept ==
  ASSUME Typed, NEW kind \in Kinds, made' = Append(made, kind)
  PROVE  /\ \A w \in DOMAIN made : w \in DOMAIN made' /\ made'[w] = made[w]
         /\ made'[Len(made) + 1] = kind
<1>1. made \in Seq(Kinds)
  BY TypedFacts
<1>2. QED
  BY <1>1

\* setData is always possible, updateData after an answer that has shown the
\* document.
LEMMA SightWriteData ==
  ASSUME Typed, Blind = FALSE, SightInv, EventsInv, NEW kind \in Kinds, WriteData(kind)
  PROVE  SightInv' /\ (Visible => Visible')
<1>1. /\ kind = "set" \/ Blind \/ \E i \in DOMAIN answers : answers[i].snapshot.value # Missing
      /\ made' = Append(made, kind) /\ UNCHANGED <<cache, queue, results, view>>
      /\ tasks' = Append(tasks, [kind |-> "write", write |-> Len(made) + 1])
  BY WriteDataCases
<1>2. /\ queue \in Seq(DOMAIN made) /\ tasks \in Seq(Tasks)
      /\ Len(results) <= Len(queue) /\ results \in Seq(Results)
  BY TypedFacts
<1>3. /\ \A w \in DOMAIN made : made'[w] = made[w]
      /\ made'[Len(made) + 1] = kind
  BY <1>1, KindsKept
<1>4. \A i \in DOMAIN queue : queue[i] \in DOMAIN made
  BY <1>2
<1>5. Visible' = Visible
  <2>1. queue # <<>> => Head(queue) \in DOMAIN made
    BY <1>2
  <2>2. QED
    BY <1>1, <1>3, <2>1 DEF Visible
<1>6. Queued' /\ NotUnknown' /\ Since'
  BY <1>1, <1>5 DEF SightInv, Queued, NotUnknown, Since
<1>7. Refused'
  <2>1. \A i \in DOMAIN results : i \in DOMAIN queue
    BY <1>2
  <2>2. QED
    BY <1>1, <1>3, <1>4, <2>1 DEF SightInv, Refused
<1>8. kind = "update" => Visible
  <2> SUFFICES ASSUME kind = "update" PROVE Visible
    OBVIOUS
  <2>1. PICK i \in DOMAIN answers : answers[i].snapshot.value # Missing
    BY <1>1
  <2>2. QED
    BY <2>1 DEF EventsInv, Sound
<1>9. Updates'
  <2> SUFFICES ASSUME NEW i \in DOMAIN tasks',
                      tasks'[i].kind = "write" /\ made'[tasks'[i].write] = "update"
               PROVE  Visible'
    BY DEF Updates, UpdateTask
  <2>1. PICK task : task = [kind |-> "write", write |-> Len(made) + 1]
    OBVIOUS
  <2>2. tasks'[i] = task \/ \E j \in DOMAIN tasks : tasks'[i] = tasks[j]
    BY <1>1, <2>1, TaskAdded
  <2>3. CASE tasks'[i] = task
    BY <1>3, <1>5, <1>8, <2>1, <2>3
  <2>4. ASSUME NEW j \in DOMAIN tasks, tasks'[i] = tasks[j] PROVE Visible
    <3>1. tasks[j] \in Tasks
      BY <1>2
    <3>2. tasks[j].kind = "write" /\ made'[tasks[j].write] = "update"
      BY <2>4
    <3>3. tasks[j].write \in DOMAIN made
      BY <3>1, <3>2 DEF Tasks
    <3>4. UpdateTask(tasks[j])
      BY <1>3, <3>2, <3>3 DEF UpdateTask
    <3>5. QED
      BY <3>4 DEF SightInv, Updates
  <2>5. QED
    BY <1>5, <2>2, <2>3, <2>4
<1>10. QED
  BY <1>5, <1>6, <1>7, <1>9 DEF SightInv

\* What an update in the queue was made of stays in the queue or the cache.
LEMMA UpdatesKept ==
  ASSUME Updates, made' = made, Visible => Visible',
         \A i \in DOMAIN tasks' : tasks'[i].kind = "write" => \E j \in DOMAIN tasks : tasks'[i] = tasks[j]
  PROVE  Updates'
BY DEF Updates, UpdateTask

\* A write that is queued.
LEMMA SightWrite ==
  ASSUME Typed, SightInv, tasks # <<>>, tasks' = Tail(tasks), NEW w, Head(tasks).write = w,
         Head(tasks).kind = "write", queue' = Append(queue, w), UNCHANGED <<cache, made, results>>,
         Since'
  PROVE  SightInv' /\ (Visible => Visible')
<1>1. /\ queue \in Seq(DOMAIN made) /\ tasks \in Seq(Tasks) /\ made \in Seq(Kinds)
      /\ Len(results) <= Len(queue) /\ results \in Seq(Results)
  BY TypedFacts
<1>2. Head(tasks) = tasks[1] /\ 1 \in DOMAIN tasks /\ tasks[1] \in Tasks
  BY <1>1, TailFacts
<1>3. w \in DOMAIN made /\ made[w] \in Kinds
  BY <1>1, <1>2 DEF Tasks
<1>4. /\ queue' # <<>> /\ \A i \in DOMAIN queue : queue'[i] = queue[i]
      /\ IF queue = <<>> THEN Head(queue') = w ELSE Head(queue') = Head(queue)
  <2>1. /\ queue' \in Seq(DOMAIN made) /\ Len(queue) \in Nat /\ DOMAIN queue = 1 .. Len(queue)
        /\ Len(queue') = Len(queue) + 1 /\ \A i \in DOMAIN queue : queue'[i] = queue[i]
        /\ queue'[Len(queue) + 1] = w
    BY <1>1, <1>3, AppendProperties
  <2>2. queue' # <<>>
    BY <2>1, EmptySeq
  <2>3. Head(queue') = queue'[1]
    BY <2>1, <2>2, TailFacts
  <2>4. CASE queue = <<>>
    BY <2>1, <2>2, <2>3, <2>4, EmptySeq
  <2>5. CASE queue # <<>>
    <3>1. Head(queue) = queue[1] /\ 1 \in DOMAIN queue
      BY <1>1, <2>5, TailFacts
    <3>2. QED
      BY <2>1, <2>2, <2>3, <2>5, <3>1
  <2>6. QED
    BY <2>4, <2>5
<1>5. Visible => Visible'
  BY <1>4 DEF Visible
<1>6. Queued'
  <2>1. CASE queue # <<>>
    BY <1>5, <2>1 DEF SightInv, Queued
  <2>2. CASE queue = <<>> /\ made[w] = "set"
    BY <1>4, <2>2 DEF Queued, Visible
  <2>3. CASE queue = <<>> /\ made[w] = "update"
    <3>1. Visible
      BY <1>2, <2>3 DEF SightInv, Updates, UpdateTask
    <3>2. QED
      BY <1>5, <3>1 DEF Queued
  <2>4. QED
    BY <1>3, <2>1, <2>2, <2>3 DEF Kinds
<1>7. Updates'
  <2>1. \A i \in DOMAIN tasks' : \E j \in DOMAIN tasks : tasks'[i] = tasks[j]
    BY TaskPopped
  <2>2. QED
    BY <1>5, <2>1, UpdatesKept DEF SightInv
<1>8. Refused'
  <2>1. \A i \in DOMAIN results : i \in DOMAIN queue
    BY <1>1
  <2>2. QED
    BY <1>4, <2>1 DEF SightInv, Refused
<1>9. NotUnknown'
  BY DEF SightInv, NotUnknown
<1>10. QED
  BY <1>5, <1>6, <1>7, <1>8, <1>9 DEF SightInv

\* The result of a write.
LEMMA SightOnWriteResult ==
  ASSUME Typed, DataInv, SightInv, OnWriteResult, Since'
  PROVE  SightInv' /\ (Visible => Visible')
<1>1. /\ results # <<>> /\ results' = Tail(results) /\ queue' = Tail(queue) /\ UNCHANGED <<made, tasks>>
  BY OnWriteResultCases
<1>2. cache'.value # Missing
  BY ResultVisible
<1>3. Visible' /\ Queued' /\ NotUnknown' /\ Updates'
  BY <1>2 DEF Visible, Queued, NotUnknown, Updates
<1>4. Refused'
  <2>1. /\ queue \in Seq(DOMAIN made) /\ results \in Seq(Results) /\ Len(results) <= Len(queue)
    BY TypedFacts
  <2>2. Len(results) # 0 /\ Len(results) \in Nat /\ Len(queue) \in Nat
    BY <1>1, <2>1, EmptySeq
  <2>3. queue # <<>>
    BY <2>1, <2>2
  <2>4. /\ DOMAIN results' = 1 .. Len(results) - 1
        /\ \A i \in DOMAIN results' : i + 1 \in DOMAIN results /\ results'[i] = results[i + 1]
    BY <1>1, <2>1, TailFacts
  <2>5. /\ DOMAIN queue' = 1 .. Len(queue) - 1
        /\ \A i \in DOMAIN queue' : i + 1 \in DOMAIN queue /\ queue'[i] = queue[i + 1]
    BY <1>1, <2>1, <2>3, TailFacts
  <2> SUFFICES ASSUME NEW i \in DOMAIN results', ~results'[i].ok PROVE made'[queue'[i]] # "set"
    BY DEF Refused
  <2>6. i \in DOMAIN queue'
    BY <2>1, <2>2, <2>4, <2>5
  <2>7. PICK k \in DOMAIN results : k = i + 1 /\ results'[i] = results[k]
    BY <2>4
  <2>8. queue'[i] = queue[k]
    BY <2>5, <2>6, <2>7
  <2>9. made[queue[k]] # "set"
    BY <2>7 DEF SightInv, Refused
  <2>10. QED
    BY <1>1, <2>8, <2>9
<1>5. QED
  BY <1>3, <1>4 DEF SightInv

\* A snapshot.
LEMMA SightSnapshot ==
  ASSUME Typed, DataInv, SightInv, UNCHANGED <<made, queue, results, tasks>>, CacheMoves,
         NEW n \in 1 .. Now, cache' \in {cache, Entry(n, log[n], FALSE)}, Since'
  PROVE  SightInv' /\ (Visible => Visible')
<1>1. Visible => Visible'
  BY SnapshotVisible
<1>2. Queued' /\ Refused'
  BY <1>1 DEF SightInv, Queued, Refused
<1>3. Updates'
  BY <1>1 DEF SightInv, Updates, UpdateTask
<1>4. NotUnknown'
  BY DEF SightInv, NotUnknown, Entry
<1>5. QED
  BY <1>1, <1>2, <1>3, <1>4 DEF SightInv

\* A write of the queue that the server applies or refuses.
LEMMA SightServerWrites ==
  ASSUME Typed, SightInv, ServerWrites
  PROVE  SightInv' /\ (Visible => Visible')
<1>1. PICK w \in DOMAIN made, ok \in BOOLEAN :
        /\ Len(results) < Len(queue) /\ w = queue[Len(results) + 1]
        /\ ok <=> made[w] = "set" \/ log[Now] # Missing
        /\ results' = Append(results, [ok |-> ok, version |-> Len(log')])
  BY ServerWritesCases
<1>2. UNCHANGED <<made, tasks, queue, cache, view>>
  BY ServerWritesKept
<1>3. Visible' = Visible
  BY <1>2 DEF Visible
<1>4. Queued' /\ NotUnknown' /\ Since'
  BY <1>2, <1>3 DEF SightInv, Queued, NotUnknown, Since
<1>5. Updates'
  BY <1>2, <1>3 DEF SightInv, Updates, UpdateTask
<1>6. Refused'
  <2>1. results \in Seq(Results)
    BY TypedFacts
  <2>2. PICK r : r = [ok |-> ok, version |-> Len(log')]
    OBVIOUS
  <2>3. /\ DOMAIN results' = 1 .. Len(results) + 1 /\ DOMAIN results = 1 .. Len(results) /\ Len(results) \in Nat
        /\ \A i \in DOMAIN results : results'[i] = results[i]
        /\ results'[Len(results) + 1] = r
    BY <1>1, <2>1, <2>2, AppendProperties
  <2> SUFFICES ASSUME NEW i \in DOMAIN results', ~results'[i].ok PROVE made[queue[i]] # "set"
    BY <1>2 DEF Refused
  <2>4. CASE i \in DOMAIN results
    BY <2>3, <2>4 DEF SightInv, Refused
  <2>5. CASE i = Len(results) + 1
    BY <1>1, <2>2, <2>3, <2>5
  <2>6. QED
    BY <2>3, <2>4, <2>5
<1>7. QED
  BY <1>3, <1>4, <1>5, <1>6 DEF SightInv

\* A listener that can be answered: one that waits, or is just added.
Turn(r) ==
  /\ r \in listeners'
  /\ r \in waiting \/ (RunTask /\ Head(tasks).kind = "listen" /\ r = Head(tasks).read)

\* What the events are made of: the snapshots there were, and what is shown.
EventSources ==
  /\ \A i \in DOMAIN main' :
       \/ main'[i].snapshot = shown' /\ Turn(main'[i].read)
       \/ \E j \in DOMAIN main : main'[i] = main[j]
  /\ \A i \in DOMAIN answers' :
       \/ \E j \in DOMAIN answers : answers'[i] = answers[j]
       \/ \E j \in DOMAIN main : answers'[i] = main[j]

\* What the version of a sound snapshot was stays in the log.
LEMMA SoundKept ==
  ASSUME LogExtends, Now \in Nat, Now' \in Nat, Visible => Visible', NEW s, Sound(s)
  PROVE  Sound(s)'
<1>1. s.value # Missing => Visible'
  BY DEF Sound
<1>2. ASSUME ~s.fromCache, ~s.pending PROVE \E v \in 1 .. Now' : s.since <= v /\ s.value = log'[v]
  <2>1. PICK v \in 1 .. Now : s.since <= v /\ s.value = log[v]
    BY <1>2 DEF Sound, TrueTo
  <2>2. v \in 1 .. Now' /\ log'[v] = log[v]
    BY DEF LogExtends
  <2>3. QED
    BY <2>1, <2>2
<1>3. QED
  BY <1>1, <1>2 DEF Sound, TrueTo

\* So events stay sound if those raised are.
LEMMA EventsKept ==
  ASSUME Typed, Typed', EventsInv, EventSources, LogExtends, Visible => Visible', Sound(shown)'
  PROVE  EventsInv'
<1>1. Now \in Nat /\ Now' \in Nat
  <2>1. Now \in Nat
    BY TypedFacts
  <2>2. log' \in Seq(Values)
    BY DEF Typed, ServerTypes, Values
  <2>3. QED
    BY <2>1, <2>2 DEF Now
<1>2. \A s : Sound(s) => Sound(s)'
  BY <1>1, SoundKept
<1>3. ASSUME NEW i \in DOMAIN main' PROVE Sound(main[i].snapshot)'
  <2>1. CASE main'[i].snapshot = shown'
    BY <2>1 DEF Sound, TrueTo
  <2>2. ASSUME NEW j \in DOMAIN main, main'[i] = main[j] PROVE Sound(main[i].snapshot)'
    <3>1. PICK s : s = main[j].snapshot
      OBVIOUS
    <3>2. Sound(s)'
      BY <1>2, <3>1 DEF EventsInv
    <3>3. main'[i].snapshot = s
      BY <2>2, <3>1
    <3>4. QED
      BY <3>2, <3>3 DEF Sound, TrueTo
  <2>3. QED
    BY <2>1, <2>2 DEF EventSources
<1>4. ASSUME NEW i \in DOMAIN answers' PROVE Sound(answers[i].snapshot)'
  <2>1. PICK s : s = answers'[i].snapshot
    OBVIOUS
  <2>2. Sound(s)
    BY <2>1 DEF EventSources, EventsInv
  <2>3. Sound(s)'
    BY <1>2, <2>2
  <2>4. QED
    BY <2>1, <2>3 DEF Sound, TrueTo
<1>5. QED
  BY <1>3, <1>4 DEF EventsInv

\* Events that are raised show what is shown.
LEMMA RaisedSources ==
  ASSUME Typed, Typed', answers' = answers, NEW ready, ready \subseteq DOMAIN reads,
         \A r \in ready : Turn(r), NEW online, RaiseInitialEvents(ready, shown', online)
  PROVE  EventSources
<1>1. reads \in Seq([mine : Nat, after : Nat]) /\ main \in Seq(Events)
  BY TypedFacts
<1>2. PICK s \in Snapshots : s = shown'
  BY DEF Typed, ListenTypes, Snapshots, Values
<1>3. Raised(ready, s) \/ main' = main
  BY <1>1, <1>2, RaiseInitialEventsResult
<1>4. QED
  BY <1>2, <1>3 DEF EventSources, Raised

\* So do those of a view that is published.
LEMMA PublishedSources ==
  ASSUME Typed, Typed', UNCHANGED <<answers, listeners>>, NEW v, NEW online, Publish(v, online)
  PROVE  EventSources
<1>1. RaiseInitialEvents(waiting, shown', online) /\ waiting \subseteq DOMAIN reads
  BY PublishCases, TypedFacts
<1>2. \A r \in waiting : Turn(r)
  BY DEF Typed, ListenTypes, Turn
<1>3. QED
  BY <1>1, <1>2, RaisedSources

\* Without new events, nothing is added.
LEMMA SameSources ==
  ASSUME UNCHANGED <<answers, main>>
  PROVE  EventSources
BY DEF EventSources

\* An event that is run becomes an answer.
LEMMA OnEventSources ==
  ASSUME Typed, OnEvent
  PROVE  EventSources
<1>1. main # <<>> /\ main' = Tail(main) /\ answers' = Append(answers, Head(main))
  BY OnEventCases
<1>2. main \in Seq(Events) /\ answers \in Seq(Events)
  BY TypedFacts
<1>3. /\ Head(main) = main[1] /\ 1 \in DOMAIN main /\ Head(main) \in Events
      /\ \A i \in DOMAIN main' : i + 1 \in DOMAIN main /\ main'[i] = main[i + 1]
  BY <1>1, <1>2, TailFacts
<1>4. /\ DOMAIN answers' = 1 .. Len(answers) + 1 /\ DOMAIN answers = 1 .. Len(answers) /\ Len(answers) \in Nat
      /\ \A i \in DOMAIN answers : answers'[i] = answers[i]
      /\ answers'[Len(answers) + 1] = Head(main)
  BY <1>1, <1>2, <1>3, AppendProperties
<1>5. \A i \in DOMAIN answers' : i \in DOMAIN answers \/ i = Len(answers) + 1
  BY <1>4
<1>6. QED
  BY <1>3, <1>4, <1>5 DEF EventSources

-----------------------------------------------------------------------------
(* What is seen, action by action.                                         *)

\* A step that leaves the tasks as well, and the query.
LEMMA SightSame ==
  ASSUME Typed, SightInv, UNCHANGED <<cache, queue, made, tasks>>, results' \in {results, <<>>},
         SameListen(view, view') \/ ~view'.open
  PROVE  SightInv' /\ (Visible => Visible')
<1>1. Since'
  BY SinceKept, SinceClosed DEF SightInv
<1>2. QED
  BY <1>1, SightKept

\* A task that is no write is added.
LEMMA SightCalled ==
  ASSUME Typed, SightInv, UNCHANGED <<cache, queue, made, results, view>>,
         NEW task, task.kind # "write", tasks' = Append(tasks, task)
  PROVE  SightInv' /\ (Visible => Visible')
<1>1. \A i \in DOMAIN tasks' : tasks'[i] = task \/ \E j \in DOMAIN tasks : tasks'[i] = tasks[j]
  BY TaskAdded
<1>2. \A i \in DOMAIN tasks' : tasks'[i].kind = "write" => \E j \in DOMAIN tasks : tasks'[i] = tasks[j]
  BY <1>1
<1>3. Since'
  BY DEF SightInv, Since
<1>4. QED
  BY <1>2, <1>3, SightKept

\* The tasks of the worker.
LEMMA SightRunTask ==
  ASSUME Typed, Typed', SightInv, RunTask
  PROVE  SightInv' /\ (Visible => Visible')
<1>1. /\ tasks # <<>> /\ tasks' = Tail(tasks) /\ UNCHANGED <<log, made, cache, results>>
      /\ Head(tasks).kind = "listen" => AddQueryListener(Head(tasks).read)
      /\ Head(tasks).kind = "remove" => RemoveQueryListener(Head(tasks).read)
      /\ Head(tasks).kind = "write" => WriteMutations(Head(tasks).write)
  BY RunTaskCases DEF TaskKept
<1>2. Head(tasks).kind \in {"listen", "remove", "write"}
  BY <1>1, FirstTask DEF Typed
<1>3. \A i \in DOMAIN tasks' : \E j \in DOMAIN tasks : tasks'[i] = tasks[j]
  BY <1>1, TaskPopped
<1>4. Since
  BY DEF SightInv
<1>5. CASE Head(tasks).kind = "listen"
  <2>1. queue' = queue /\ (view' = view \/ Opens)
    BY <1>1, <1>5, AddListenerCases
  <2>2. CASE view' = view
    BY <1>1, <1>3, <1>4, <2>1, <2>2, SightKept DEF Since
  <2>3. CASE Opens
    <3>1. view'.since = Now /\ Now >= 1
      BY <2>3, OpenedView, TypedFacts DEF Opens
    <3>2. Since'
      BY <3>1 DEF Since
    <3>3. QED
      BY <1>1, <1>3, <2>1, <3>2, SightKept
  <2>4. QED
    BY <2>1, <2>2, <2>3
<1>6. CASE Head(tasks).kind = "remove"
  <2>1. queue' = queue /\ (view' = view \/ Closes)
    BY <1>1, <1>6, RemoveListenerCases
  <2>2. Since'
    BY <1>4, <2>1 DEF Since, Closes, NoView
  <2>3. QED
    BY <1>1, <1>3, <2>1, <2>2, SightKept
<1>7. CASE Head(tasks).kind = "write"
  <2>1. PICK w : w = Head(tasks).write
    OBVIOUS
  <2>2. /\ queue' = Append(queue, w)
        /\ view' = WithSyncState(WithDocument(view, GetDocument(cache, queue')))
    BY <1>1, <1>7, <2>1, WriteMutationsCases, PublishCases
  <2>3. SameListen(view, view')
    BY <1>1, <2>2, DocumentHeld
  <2>4. Since'
    BY <1>4, <2>3, SinceKept
  <2>5. QED
    BY <1>1, <1>7, <2>1, <2>2, <2>4, SightWrite
<1>8. QED
  BY <1>2, <1>5, <1>6, <1>7

\* A message that is read.
LEMMA SightOnWatchStreamChange ==
  ASSUME Typed, DataInv, StreamInv, TargetInv, SightInv, OnWatchStreamChange
  PROVE  SightInv' /\ (Visible => Visible')
<1>1. UNCHANGED <<made, queue, results, tasks>>
  BY OnWatchStreamChangeCases
<1>2. CASE Head(responses).kind = "snapshot"
  <2>1. PICK n : n = Head(responses).version
    OBVIOUS
  <2>2. n \in 1 .. Now /\ SnapshotView(n) /\ SnapshotLeft(n)
    BY <1>2, <2>1, SnapshotLeaves
  <2>3. cache' \in {cache, Entry(n, log[n], FALSE)} /\ CacheMoves
    BY <2>2 DEF SnapshotLeft
  <2>4. Since'
    BY <2>2 DEF SnapshotView, SightInv, Since
  <2>5. QED
    BY <1>1, <2>2, <2>3, <2>4, SightSnapshot
<1>3. CASE Head(responses).kind # "snapshot"
  <2>1. Publish(view, "online") /\ cache' = cache
    BY <1>3, OnWatchStreamChangeCases, HandleChangeCases
  <2>2. SameListen(view, view')
    BY <2>1, PublishCases, TypedFacts, WithSyncStateType
  <2>3. QED
    BY <1>1, <2>1, <2>2, SightSame
<1>4. QED
  BY <1>2, <1>3

\* So does every step of an app that updates what it has shown.
LEMMA SightStep ==
  ASSUME Typed, Typed', DataInv, StreamInv, TargetInv, SightInv, EventsInv, Blind = FALSE, [Next]_vars
  PROVE  SightInv' /\ (Visible => Visible')
<1>1. CASE UNCHANGED vars
  <2>1. UNCHANGED <<cache, queue, made, tasks, results, view>>
    BY <1>1 DEF vars, app, disk, listening
  <2>2. QED
    BY <2>1, SightSame DEF SameListen
<1>2. CASE getDocument
  <2>1. PICK task : task = [kind |-> "listen", read |-> Len(reads) + 1]
    OBVIOUS
  <2>2. task.kind # "write"
    BY <2>1
  <2>3. QED
    BY <1>2, <2>1, <2>2, GetDocumentCases, SightCalled
<1>3. ASSUME NEW kind \in Kinds, WriteData(kind) PROVE SightInv' /\ (Visible => Visible')
  BY <1>3, SightWriteData
<1>4. CASE OnEvent
  <2>1. PICK task : task = [kind |-> "remove", read |-> Head(main).read]
    OBVIOUS
  <2>2. task.kind # "write"
    BY <2>1
  <2>3. QED
    BY <1>4, <2>1, <2>2, OnEventCases, SightCalled
<1>5. CASE RunTask
  BY <1>5, SightRunTask
<1>6. CASE OnWriteResult
  <2>1. /\ made' = made
        /\ view' = WithSyncState(WithDocument(view, GetDocument(cache', queue')))
    BY <1>6, OnWriteResultCases, PublishCases
  <2>2. SameListen(view, view')
    BY <2>1, DocumentHeld
  <2>3. Since'
    BY <2>2, SinceKept DEF SightInv
  <2>4. QED
    BY <1>6, <2>3, SightOnWriteResult
<1>7. CASE OnlineStateTimeout
  <2>1. PICK t : t = [tracker EXCEPT !.state = "offline", !.timer = FALSE]
    OBVIOUS
  <2>2. SetAndBroadcast(t) /\ UNCHANGED <<cache, queue, made, tasks, results>>
    BY <1>7, <2>1, OnlineStateTimeoutCases
  <2>3. QED
    BY <2>2, BroadcastHeld, SightSame
<1>8. CASE StreamOpens
  BY <1>8, StreamOpensCases, SightSame DEF SameListen
<1>9. CASE StreamFails \/ ConnectionLost \/ IdleTimeout \/ HandleCredentialChange
  <2>1. PICK state \in {"off", "starting"} : \E t : Ends(state, t) /\ results' \in {results, <<>>}
    BY <1>9, StreamEndsCases
  <2>2. PICK t : Ends(state, t)
    BY <2>1
  <2>3. SetAndBroadcast(t) /\ UNCHANGED <<cache, queue, made, tasks>>
    BY <2>2 DEF Ends
  <2>4. QED
    BY <2>1, <2>3, BroadcastHeld, SightSame
<1>10. CASE OnWatchStreamChange
  BY <1>10, SightOnWatchStreamChange
<1>11. CASE Restart
  <2>1. /\ tasks' = <<>> /\ ~view'.open /\ results' = <<>>
        /\ UNCHANGED <<cache, queue, made>>
    BY <1>11, RestartCases DEF NoView
  <2>2. DOMAIN tasks' = {}
    BY <2>1
  <2>3. QED
    BY <2>1, <2>2, SightKept, SinceClosed
<1>12. CASE ServerAnswers \/ ServerSends
  BY <1>12, ServerAnswersCases, ServerSendsCases, SightSame DEF SameListen
<1>13. CASE ServerWrites
  BY <1>13, SightServerWrites
<1>14. ASSUME NEW kind \in Kinds, OtherPhoneWrites(kind) PROVE SightInv' /\ (Visible => Visible')
  BY <1>14, OtherPhoneWritesCases, SightSame DEF SameListen
<1>15. QED
  BY <1>1, <1>2, <1>3, <1>4, <1>5, <1>6, <1>7, <1>8, <1>9, <1>10, <1>11, <1>12, <1>13, <1>14, NextCases

\* There is nothing to be seen at first.
LEMMA SightInitially == Init => SightInv /\ EventsInv
<1> SUFFICES ASSUME Init PROVE SightInv /\ EventsInv
  OBVIOUS
<1>1. /\ queue = <<>> /\ tasks = <<>> /\ main = <<>> /\ answers = <<>> /\ results = <<>>
      /\ cache = NoEntry /\ view = NoView
  BY DEF Init
<1>2. cache.unsynced = FALSE /\ view.open = FALSE
  BY <1>1 DEF NoEntry, Entry, NoView
<1>3. QED
  BY <1>1, <1>2 DEF SightInv, Queued, Updates, NotUnknown, Refused, Since, EventsInv

\* The tasks of the worker raise events with what is shown,
LEMMA SourcesRunTask ==
  ASSUME Typed, Typed', RunTask
  PROVE  EventSources
<1>1. /\ tasks # <<>> /\ answers' = answers
      /\ Head(tasks).kind = "listen" => AddQueryListener(Head(tasks).read)
      /\ Head(tasks).kind = "remove" => RemoveQueryListener(Head(tasks).read)
      /\ Head(tasks).kind = "write" => WriteMutations(Head(tasks).write)
  BY RunTaskCases DEF TaskKept
<1>2. /\ Head(tasks).kind \in {"listen", "remove", "write"}
      /\ Head(tasks).kind \in {"listen", "remove"} => Head(tasks).read \in DOMAIN reads
  BY <1>1, FirstTask DEF Typed
<1>3. CASE Head(tasks).kind = "listen"
  <2>1. PICK r \in DOMAIN reads : r = Head(tasks).read
    BY <1>2, <1>3
  <2>2. AddQueryListener(r)
    BY <1>1, <1>3, <2>1
  <2>3. \/ RaiseInitialEvents(waiting \cup {r}, shown', tracker.state)
        \/ RaiseInitialEvents({r}, shown', tracker.state)
    BY <2>2, AddListenerCases
  <2>4. waiting \cup {r} \subseteq DOMAIN reads /\ {r} \subseteq DOMAIN reads
    BY TypedFacts
  <2>5. listeners' = listeners \cup {r} /\ waiting \subseteq listeners
    BY <2>2, AddListenerCases DEF Typed, ListenTypes
  <2>6. (\A q \in waiting \cup {r} : Turn(q)) /\ \A q \in {r} : Turn(q)
    BY <1>3, <2>1, <2>5 DEF Turn
  <2>7. QED
    BY <1>1, <2>3, <2>4, <2>6, RaisedSources
<1>4. CASE Head(tasks).kind = "remove"
  BY <1>1, <1>4, RemoveListenerCases, SameSources
<1>5. CASE Head(tasks).kind = "write"
  BY <1>1, <1>5, WriteMutationsCases, PublishedSources
<1>6. QED
  BY <1>2, <1>3, <1>4, <1>5

\* and so does every step that raises any.
LEMMA SourcesStep ==
  ASSUME Typed, Typed', [Next]_vars
  PROVE  EventSources
<1>1. CASE UNCHANGED vars
  BY <1>1, SameSources DEF vars
<1>2. CASE getDocument
  BY <1>2, GetDocumentCases, SameSources
<1>3. ASSUME NEW kind \in Kinds, WriteData(kind) PROVE EventSources
  BY <1>3, WriteDataCases, SameSources
<1>4. CASE OnEvent
  BY <1>4, OnEventSources
<1>5. CASE RunTask
  BY <1>5, SourcesRunTask
<1>6. CASE OnWriteResult
  BY <1>6, OnWriteResultCases, PublishedSources
<1>7. CASE OnlineStateTimeout
  <2>1. PICK t : t = [tracker EXCEPT !.state = "offline", !.timer = FALSE]
    OBVIOUS
  <2>2. SetAndBroadcast(t) /\ UNCHANGED <<answers, listeners>>
    BY <1>7, <2>1, OnlineStateTimeoutCases
  <2>3. QED
    BY <2>2, BroadcastResult, PublishedSources
<1>8. CASE StreamOpens
  BY <1>8, StreamOpensCases, SameSources
<1>9. CASE StreamFails \/ ConnectionLost \/ IdleTimeout \/ HandleCredentialChange
  <2>1. PICK state \in {"off", "starting"} : \E t : Ends(state, t)
    BY <1>9, StreamEndsCases
  <2>2. PICK t : Ends(state, t)
    BY <2>1
  <2>3. SetAndBroadcast(t) /\ UNCHANGED <<answers, listeners>>
    BY <2>2 DEF Ends
  <2>4. QED
    BY <2>3, BroadcastResult, PublishedSources
<1>10. CASE OnWatchStreamChange
  <2>1. UNCHANGED <<answers, listeners>>
    BY <1>10, OnWatchStreamChangeCases
  <2>2. \E v : Publish(v, "online")
    BY <1>10, OnWatchStreamChangeCases, RaiseWatchSnapshotCases, HandleChangeCases
  <2>3. QED
    BY <2>1, <2>2, PublishedSources
<1>11. CASE Restart
  BY <1>11, RestartCases DEF EventSources
<1>12. CASE ServerAnswers \/ ServerSends
  BY <1>12, ServerAnswersCases, ServerSendsCases, SameSources
<1>13. CASE ServerWrites
  BY <1>13, ServerWritesKept, SameSources
<1>14. ASSUME NEW kind \in Kinds, OtherPhoneWrites(kind) PROVE EventSources
  BY <1>14, OtherPhoneWritesCases, SameSources
<1>15. QED
  BY <1>1, <1>2, <1>3, <1>4, <1>5, <1>6, <1>7, <1>8, <1>9, <1>10, <1>11, <1>12, <1>13, <1>14, NextCases

\* The inductive invariant, with what the answers show.
AnswersInv == ClientInv /\ SightInv /\ EventsInv

\* It holds in an app that updates what it has shown.
LEMMA AnswersInvariant == Blind = FALSE => (Spec => []AnswersInv)
<1> SUFFICES ASSUME Blind = FALSE PROVE Spec => []AnswersInv
  OBVIOUS
<1>1. Init => AnswersInv
  BY ClientInitially, SightInitially DEF AnswersInv
<1>2. AnswersInv /\ [Next]_vars => AnswersInv'
  <2> SUFFICES ASSUME AnswersInv, [Next]_vars PROVE AnswersInv'
    OBVIOUS
  <2>1. ClientInv'
    BY ClientStep DEF AnswersInv
  <2>2. /\ Typed /\ Typed' /\ ViewInv' /\ DataInv /\ DataInv' /\ StreamInv /\ TargetInv /\ CurrentInv'
    BY <2>1 DEF AnswersInv, ClientInv
  <2>3. SightInv' /\ (Visible => Visible')
    BY <2>2, SightStep DEF AnswersInv
  <2>4. LogExtends
    BY <2>2, FlowStep DEF Flow
  <2>5. Sound(shown)'
    BY <2>2, <2>3, ShownSoundNext DEF ShownSound
  <2>6. EventsInv'
    BY <2>2, <2>3, <2>4, <2>5, SourcesStep, EventsKept DEF AnswersInv
  <2>7. QED
    BY <2>1, <2>3, <2>6 DEF AnswersInv
<1>3. QED
  BY <1>1, <1>2, PTL DEF Spec

(***************************************************************************)
(* In an app that updates a document only where it has shown it, an answer *)
(* that calls itself neither cached nor pending is the document as it was  *)
(* on the server at some time since the listen that serves it.             *)
(***************************************************************************)
THEOREM SyncedReadsAreTrue == Blind = FALSE => (Spec => []SyncedReads)
<1> SUFFICES ASSUME Blind = FALSE PROVE Spec => []SyncedReads
  OBVIOUS
<1>1. AnswersInv => SyncedReads
  <2> SUFFICES ASSUME AnswersInv, NEW i \in DOMAIN answers,
                      NEW s, s = answers[i].snapshot, ~s.fromCache, ~s.pending
               PROVE  \E v \in s.since .. Now : s.value = log[v]
    BY DEF SyncedReads
  <2>1. PICK v \in 1 .. Now : s.since <= v /\ s.value = log[v]
    BY DEF AnswersInv, EventsInv, Sound, TrueTo
  <2>2. s.since \in Nat
    <3>1. answers \in Seq(Events)
      BY TypedFacts DEF AnswersInv, ClientInv
    <3>2. answers[i] \in Events
      BY <3>1
    <3>3. QED
      BY <3>2 DEF Events, Snapshots
  <2>3. v \in s.since .. Now
    BY <2>1, <2>2
  <2>4. QED
    BY <2>1, <2>3
<1>2. QED
  BY <1>1, AnswersInvariant, PTL
=============================================================================
