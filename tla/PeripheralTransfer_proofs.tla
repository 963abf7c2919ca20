---------------------- MODULE PeripheralTransfer_proofs ----------------------
(***************************************************************************)
(* The theorems about PeripheralTransfer, for any messages, frame size,    *)
(* services and faults: the types, that the app does not crash while reads *)
(* are sound, what an ACK means and what is printed.                       *)
(***************************************************************************)
EXTENDS PeripheralTransfer, MessageManager_proofs, FiniteSetTheorems, TLAPS

\* A set of natural numbers has a least one.
LEMMA LeastNatural ==
  ASSUME NEW T, T \subseteq Nat, T # {}
  PROVE  \E b \in T : \A y \in T : b <= y
<1> DEFINE Less == { p \in Nat \X Nat : p[1] < p[2] }
<1>1. IsWellFoundedOn(Less, Nat)
  BY NatLessThanWellFounded DEF OpToRel
<1>2. \A m, n \in Nat : m < n => <<m, n>> \in Less
  OBVIOUS
<1> HIDE DEF Less
<1>3. PICK b \in T : \A y \in T : ~ (<<y, b>> \in Less)
  BY <1>1, WFMin
<1>4. \A y \in T : ~ (y < b)
  BY <1>2, <1>3
<1>5. QED
  BY <1>4


(***************************************************************************)
(* The module has two recursive functions: the manager that is fed a       *)
(* sequence of datagrams, and the readable ones among characteristics.     *)
(* That each exists and is unique is proved once for both.                 *)
(***************************************************************************)
Start(kind) == IF kind = "manager" THEN NewManager ELSE <<>>

Advance(kind, x, item) ==
  IF kind = "manager" THEN Step(x, item)
  ELSE IF item \in Readable THEN Append(x, item) ELSE x

\* f[i] is what the first i items make of the start.
Steps(kind, f, items, n) ==
  /\ f = [i \in 0 .. n |-> f[i]]
  /\ f[0] = Start(kind)
  /\ \A i \in 1 .. n : f[i] = Advance(kind, f[i - 1], items[i])

\* Another item makes another step.
LEMMA StepsExtended ==
  ASSUME NEW kind, NEW items, NEW n \in Nat, NEW f, Steps(kind, f, items, n),
         NEW more, \A i \in 1 .. n : more[i] = items[i]
  PROVE  Steps(kind, [i \in 0 .. n + 1 |-> IF i = n + 1 THEN Advance(kind, f[n], more[n + 1])
                                     ELSE f[i]], more, n + 1)
<1> DEFINE h == [i \in 0 .. n + 1 |-> IF i = n + 1 THEN Advance(kind, f[n], more[n + 1])
                                      ELSE f[i]]
<1>1. h = [i \in 0 .. n + 1 |-> h[i]]
  OBVIOUS
<1>2. h[0] = Start(kind)
  BY DEF Steps
<1>3. ASSUME NEW i \in 1 .. n + 1 PROVE h[i] = Advance(kind, h[i - 1], more[i])
  <2>1. CASE i = n + 1
    <3>1. h[i] = Advance(kind, f[n], more[n + 1]) /\ i - 1 = n /\ n \in 0 .. n + 1 /\ n # n + 1
      BY <2>1
    <3>2. h[n] = f[n]
      BY <3>1
    <3>3. QED
      BY <2>1, <3>1, <3>2
  <2>2. CASE i # n + 1
    <3>1. i \in 1 .. n /\ i \in 0 .. n + 1 /\ i - 1 \in 0 .. n + 1 /\ i - 1 # n + 1
      BY <2>2
    <3>2. h[i] = f[i] /\ h[i - 1] = f[i - 1]
      BY <2>2, <3>1
    <3> HIDE DEF h
    <3>3. f[i] = Advance(kind, f[i - 1], items[i])
      BY <3>1 DEF Steps
    <3>4. QED
      BY <3>1, <3>2, <3>3
  <2>3. QED
    BY <2>1, <2>2
<1> HIDE DEF h
<1>4. Steps(kind, h, more, n + 1)
  BY <1>1, <1>2, <1>3 DEF Steps
<1>5. QED
  BY <1>4 DEF h

\* There is such a function for every number of items.
LEMMA StepsExist ==
  ASSUME NEW kind, NEW items, NEW k \in Nat
  PROVE  \E f : Steps(kind, f, items, k)
<1> DEFINE T == { n \in Nat : ~ \E f : Steps(kind, f, items, n) }
<1> SUFFICES ASSUME T # {} PROVE FALSE
  OBVIOUS
<1>1. PICK n \in T : \A y \in T : n <= y
  <2>1. T \subseteq Nat
    OBVIOUS
  <2> HIDE DEF T
  <2>2. QED
    BY <2>1, LeastNatural
<1>2. n \in Nat /\ ~ \E f : Steps(kind, f, items, n)
  BY <1>1
<1>3. n # 0
  <2>1. Steps(kind, [i \in 0 .. 0 |-> Start(kind)], items, 0)
    BY DEF Steps
  <2>2. QED
    BY <1>2, <2>1
<1>4. PICK b \in Nat : n = b + 1
  <2>1. n - 1 \in Nat /\ n = (n - 1) + 1
    BY <1>2, <1>3
  <2>2. QED
    BY <2>1
<1>5. b \notin T
  BY <1>1, <1>4
<1>6. PICK f : Steps(kind, f, items, b)
  BY <1>5
<1>7. QED
  BY <1>2, <1>4, <1>6, StepsExtended

\* And only one.
LEMMA StepsUnique ==
  ASSUME NEW kind, NEW items, NEW k \in Nat, NEW g, Steps(kind, g, items, k),
         NEW h, Steps(kind, h, items, k)
  PROVE  g = h
<1> DEFINE T == { n \in 0 .. k : g[n] # h[n] }
<1>1. T = {}
  <2> SUFFICES ASSUME T # {} PROVE FALSE
    OBVIOUS
  <2>1. PICK n \in T : \A y \in T : n <= y
    <3>1. T \subseteq Nat
      OBVIOUS
    <3> HIDE DEF T
    <3>2. QED
      BY <3>1, LeastNatural
  <2>2. n \in 0 .. k /\ g[n] # h[n] /\ n # 0
    BY <2>1 DEF Steps
  <2>3. n \in 1 .. k /\ n - 1 \in 0 .. k /\ ~ (n <= n - 1)
    BY <2>2
  <2>4. g[n - 1] = h[n - 1]
    BY <2>1, <2>3
  <2>5. g[n] = Advance(kind, g[n - 1], items[n]) /\ h[n] = Advance(kind, h[n - 1], items[n])
    BY <2>3 DEF Steps
  <2>6. QED
    BY <2>2, <2>4, <2>5
<1>2. g = [i \in 0 .. k |-> g[i]] /\ h = [i \in 0 .. k |-> h[i]]
  BY DEF Steps
<1>3. \A i \in 0 .. k : g[i] = h[i]
  BY <1>1
<1>4. QED
  BY <1>2, <1>3

\* ManagerAfter is where that function ends.
LEMMA ManagerAfterSteps ==
  ASSUME NEW fed, Len(fed) \in Nat, NEW manager, Steps("manager", manager, fed, Len(fed))
  PROVE  ManagerAfter(fed) = manager[Len(fed)]
<1> DEFINE n == Len(fed)
           F(h) == [i \in 0 .. n |->
                     IF i = 0 THEN NewManager
                     ELSE CHOOSE result \in { Step(m, fed[i]) : m \in {h[i - 1]} } : TRUE]
<1>1. \A h : F(h) = [i \in 0 .. n |-> IF i = 0 THEN NewManager ELSE Step(h[i - 1], fed[i])]
  <2>1. \A m, x : (CHOOSE result \in { Step(y, x) : y \in {m} } : TRUE) = Step(m, x)
    OBVIOUS
  <2>2. QED
    BY <2>1
<1>2. manager = F(manager)
  BY <1>1 DEF Steps, Start, Advance
<1>3. ASSUME NEW h, h = F(h) PROVE h = manager
  <2>1. Steps("manager", h, fed, n)
    BY <1>1, <1>3 DEF Steps, Start, Advance
  <2>2. QED
    BY <2>1, StepsUnique
<1>4. ManagerAfter(fed) = (CHOOSE h : h = F(h))[n]
  BY Zenon DEF ManagerAfter
<1> HIDE DEF F
<1>5. (CHOOSE h : h = F(h)) = manager
  BY <1>2, <1>3
<1>6. QED
  BY <1>4, <1>5

\* Before any datagram the manager is new.
LEMMA ManagerOfNone == ManagerAfter(<<>>) = NewManager
<1>1. PICK manager : Steps("manager", manager, <<>>, 0)
  BY StepsExist
<1>2. Len(<<>>) = 0
  OBVIOUS
<1>3. ManagerAfter(<<>>) = manager[0]
  BY <1>1, <1>2, ManagerAfterSteps
<1>4. QED
  BY <1>1, <1>3 DEF Steps, Start, Advance

\* A datagram more is a step more.
LEMMA ManagerOfOneMore ==
  ASSUME NEW S, NEW fed \in Seq(S), NEW d \in S
  PROVE  ManagerAfter(Append(fed, d)) = Step(ManagerAfter(fed), d)
<1> DEFINE n == Len(fed)
           more == Append(fed, d)
<1>1. n \in Nat /\ Len(more) = n + 1 /\ more[n + 1] = d /\ \A i \in 1 .. n : more[i] = fed[i]
  OBVIOUS
<1>2. PICK manager : Steps("manager", manager, fed, n)
  BY <1>1, StepsExist
<1> DEFINE h == [i \in 0 .. n + 1 |-> IF i = n + 1 THEN Advance("manager", manager[n], more[n + 1])
                                      ELSE manager[i]]
<1> HIDE DEF n, more
<1>3. Steps("manager", h, more, n + 1)
  BY <1>1, <1>2, StepsExtended
<1>4. h[n + 1] = Step(manager[n], d)
  BY <1>1 DEF Advance
<1> HIDE DEF h
<1>5. ManagerAfter(fed) = manager[n]
  BY <1>1, <1>2, ManagerAfterSteps DEF n
<1>6. ManagerAfter(more) = h[n + 1]
  BY <1>1, <1>3, ManagerAfterSteps
<1>7. QED
  BY <1>4, <1>5, <1>6 DEF more

\* What ReadableOf picks from a service that names no characteristic twice:
\* characteristics of it that can be read, none twice.
Picked(chosen, items, n) ==
  /\ chosen \in Seq(ToSet(items))
  /\ \A a \in DOMAIN chosen : chosen[a] \in Readable /\ \E k \in 1 .. n : chosen[a] = items[k]
  /\ \A a, b \in DOMAIN chosen : chosen[a] = chosen[b] => a = b

OnceEach(items) == \A a, b \in DOMAIN items : items[a] = items[b] => a = b

\* The next characteristic is picked or left out.
LEMMA PickedOneMore ==
  ASSUME NEW S, NEW items \in Seq(S), OnceEach(items), NEW n \in Nat, n + 1 \in DOMAIN items,
         NEW chosen, Picked(chosen, items, n)
  PROVE  Picked(Advance("reads", chosen, items[n + 1]), items, n + 1)
<1> DEFINE item == items[n + 1]
           more == Append(chosen, item)
<1>1. \A k \in 1 .. n : k \in DOMAIN items /\ k \in 1 .. n + 1 /\ k # n + 1
  OBVIOUS
<1>2. n + 1 \in 1 .. n + 1 /\ item \in ToSet(items)
  BY DEF ToSet
<1>3. \A k \in 1 .. n : items[k] # item
  BY <1>1 DEF OnceEach
<1>4. chosen \in Seq(ToSet(items)) /\ Len(chosen) \in Nat /\ DOMAIN chosen = 1 .. Len(chosen)
  BY DEF Picked
<1>5. \A a \in DOMAIN chosen : chosen[a] # item
  BY <1>3 DEF Picked
<1>6. \A a \in DOMAIN chosen : chosen[a] \in Readable /\ \E k \in 1 .. n + 1 : chosen[a] = items[k]
  BY <1>1 DEF Picked
<1>7. CASE item \notin Readable
  BY <1>4, <1>6, <1>7 DEF Advance, Picked
<1>8. CASE item \in Readable
  <2> DEFINE c == Len(chosen)
  <2>1. more \in Seq(ToSet(items)) /\ DOMAIN more = 1 .. c + 1
    BY <1>2, <1>4
  <2>2. \A a \in DOMAIN more :
          (a \in DOMAIN chosen /\ more[a] = chosen[a]) \/ (a = c + 1 /\ more[a] = item)
    BY <1>2, <1>4
  <2> HIDE DEF more, c, item
  <2>3. \A a \in DOMAIN more : more[a] \in Readable /\ \E k \in 1 .. n + 1 : more[a] = items[k]
    BY <1>2, <1>6, <1>8, <2>2 DEF item
  <2>4. \A a, b \in DOMAIN more : more[a] = more[b] => a = b
    BY <1>5, <2>2 DEF Picked
  <2>5. Picked(more, items, n + 1)
    BY <2>1, <2>3, <2>4 DEF Picked
  <2>6. QED
    BY <1>8, <2>5 DEF Advance, more, item
<1>9. QED
  BY <1>7, <1>8

\* ReadableOf picks from all of a service.
LEMMA ReadableOfProperties ==
  ASSUME NEW S, NEW items \in Seq(S), OnceEach(items)
  PROVE  Picked(ReadableOf(items), items, Len(items))
<1> DEFINE n == Len(items)
           F(h) == [i \in 0 .. n |->
                     IF i = 0 THEN <<>>
                     ELSE IF items[i] \in Readable THEN Append(h[i - 1], items[i])
                     ELSE h[i - 1]]
<1>1. n \in Nat
  OBVIOUS
<1>2. PICK f : Steps("reads", f, items, n)
  BY <1>1, StepsExist
<1>3. f = F(f)
  BY <1>2 DEF Steps, Start, Advance
<1>4. ASSUME NEW h, h = F(h) PROVE h = f
  <2>1. Steps("reads", h, items, n)
    <3>1. h = [i \in 0 .. n |-> h[i]]
      BY <1>4
    <3>2. h[0] = <<>>
      BY <1>1, <1>4
    <3>3. ASSUME NEW i \in 1 .. n PROVE h[i] = Advance("reads", h[i - 1], items[i])
      <4>1. i \in 0 .. n /\ i # 0
        OBVIOUS
      <4>2. h[i] = F(h)[i]
        BY <1>4
      <4> HIDE <1>4
      <4>3. QED
        BY <4>1, <4>2 DEF Advance
    <3>4. QED
      BY <3>1, <3>2, <3>3 DEF Steps, Start
  <2>2. QED
    BY <1>1, <1>2, <2>1, StepsUnique
<1>5. ReadableOf(items) = (CHOOSE h : h = F(h))[n]
  BY Zenon DEF ReadableOf
<1> HIDE DEF F
<1>6. ReadableOf(items) = f[n]
  BY <1>3, <1>4, <1>5
<1> DEFINE T == { k \in 0 .. n : ~ Picked(f[k], items, k) }
<1>7. T = {}
  <2> SUFFICES ASSUME T # {} PROVE FALSE
    OBVIOUS
  <2>1. PICK k \in T : \A y \in T : k <= y
    <3>1. T \subseteq Nat
      OBVIOUS
    <3> HIDE DEF T
    <3>2. QED
      BY <3>1, LeastNatural
  <2>2. k \in 0 .. n /\ ~ Picked(f[k], items, k)
    BY <2>1
  <2>3. k # 0
    <3>1. f[0] = <<>>
      BY <1>2 DEF Steps, Start
    <3>2. Picked(<<>>, items, 0)
      BY DEF Picked
    <3>3. QED
      BY <2>2, <3>1, <3>2
  <2>4. PICK j \in Nat : k = j + 1
    <3>1. k - 1 \in Nat /\ k = (k - 1) + 1
      BY <2>2, <2>3
    <3>2. QED
      BY <3>1
  <2>5. j \in 0 .. n /\ ~ (k <= j) /\ j + 1 \in DOMAIN items /\ k \in 1 .. n /\ k - 1 = j
    BY <1>1, <2>2, <2>4
  <2>6. Picked(f[j], items, j)
    BY <2>1, <2>5
  <2>7. f[k] = Advance("reads", f[j], items[j + 1])
    BY <1>2, <2>4, <2>5 DEF Steps
  <2>8. QED
    BY <2>2, <2>4, <2>5, <2>6, <2>7, PickedOneMore
<1>8. QED
  BY <1>1, <1>6, <1>7

-----------------------------------------------------------------------------
\* The frames of transfer t, and what they are.
FramesOf(t) ==
  [i \in 1 .. EndIndex(Transfers[t], PayloadMaxSize) |->
     Subscript(Transfers[t], PayloadMaxSize, i - 1)]

\* The current transfer's frames, before and after a step.
LEMMA PiFrames == PiDatagrams = FramesOf(transfer) /\ PiDatagrams' = FramesOf(transfer')
BY DEF PiDatagrams, FramesOf

\* The Pi's messages fit the wire format and have key 0.
LEMMA TransferSendable ==
  ASSUME NEW t \in DOMAIN Transfers
  PROVE  Transfers[t] \in Sendable /\ Transfers[t].key = 0 /\ Transfers[t] \in Messages
BY TransferAssumption DEF Sendable

\* A datagram of a message survives the wire and carries some of its bytes.
LEMMA PieceProperties ==
  ASSUME NEW m \in Sendable, m.key = 0, NEW d \in DatagramView(m, PayloadMaxSize)
  PROVE  /\ d \in MessageDatagrams /\ d.key = 0
         /\ encoded(d) \in Seq(Byte) /\ Decodable(encoded(d)) /\ decode(encoded(d)) = d
         /\ Subrange(d) # {} /\ Subrange(d) \subseteq 0 .. Len(m.data) - 1
<1>1. PICK index \in 0 .. EndIndex(m, PayloadMaxSize) - 1 : d = Subscript(m, PayloadMaxSize, index)
  BY DEF DatagramView
<1>2. PayloadMaxSize \in Nat \ {0}
  BY TransferAssumption
<1>3. encoded(d) \in Seq(Byte) /\ Decodable(encoded(d)) /\ decode(encoded(d)) = d
  BY <1>1, <1>2, PieceRoundTrip
<1>4. Subrange(d) # {} /\ Subrange(d) \subseteq 0 .. Len(m.data) - 1
  BY <1>1, <1>2, SubrangeOfPiece
<1>5. d \in Datagrams /\ d.key = m.key
  BY <1>1, <1>2, SubscriptProperties DEF Sendable
<1>6. d \in MessageDatagrams
  BY <1>5 DEF MessageDatagrams, Datagrams
<1>7. QED
  BY <1>3, <1>4, <1>5, <1>6

\* The frames of a transfer carry every byte of its message, each once.
LEMMA FramesOfProperties ==
  ASSUME NEW t \in DOMAIN Transfers
  PROVE  /\ Len(FramesOf(t)) \in Nat \ {0}
         /\ DOMAIN FramesOf(t) = 1 .. Len(FramesOf(t))
         /\ \A i \in 1 .. Len(FramesOf(t)) :
              FramesOf(t)[i] \in DatagramView(Transfers[t], PayloadMaxSize)
         /\ \A i, j \in 1 .. Len(FramesOf(t)) :
              i # j => Subrange(FramesOf(t)[i]) \cap Subrange(FramesOf(t)[j]) = {}
         /\ \A x \in 0 .. Len(Transfers[t].data) - 1 :
              \E i \in 1 .. Len(FramesOf(t)) : x \in Subrange(FramesOf(t)[i])
<1> DEFINE m == Transfers[t]
           P == PayloadMaxSize
           E == EndIndex(m, P)
           L == Len(m.data)
<1>1. m \in Sendable /\ P \in Nat \ {0} /\ L \in Nat \ {0}
  BY TransferSendable, TransferAssumption DEF Sendable, Messages
<1>2. E \in Nat /\ L <= E * P
  BY <1>1, EndIndexBounds
<1>3. E # 0
  <2> SUFFICES ASSUME E = 0 PROVE FALSE
    OBVIOUS
  <2>1. E * P = 0
    BY <1>1
  <2>2. QED
    BY <1>1, <1>2, <2>1
<1>4. FramesOf(t) = [i \in 1 .. E |-> Subscript(m, P, i - 1)]
  BY DEF FramesOf
<1> HIDE DEF E, L, P, m
<1>5. Len(FramesOf(t)) = E /\ DOMAIN FramesOf(t) = 1 .. E
  BY <1>2, <1>4
<1>6. \A i \in 1 .. E : \E index \in 0 .. E - 1 :
        index = i - 1 /\ FramesOf(t)[i] = Subscript(m, P, index)
  BY <1>2, <1>4
<1>7. \A i \in 1 .. E : FramesOf(t)[i] \in DatagramView(m, P)
  BY <1>6 DEF DatagramView, E
<1>8. ASSUME NEW i \in 1 .. E, NEW j \in 1 .. E, i # j
      PROVE  Subrange(FramesOf(t)[i]) \cap Subrange(FramesOf(t)[j]) = {}
  <2>1. PICK a \in 0 .. E - 1 : a = i - 1 /\ FramesOf(t)[i] = Subscript(m, P, a)
    BY <1>6
  <2>2. PICK b \in 0 .. E - 1 : b = j - 1 /\ FramesOf(t)[j] = Subscript(m, P, b)
    BY <1>6
  <2>3. a # b
    BY <1>2, <1>8, <2>1, <2>2
  <2>4. QED
    BY <1>1, <2>1, <2>2, <2>3, PiecesDisjoint DEF E
<1>9. ASSUME NEW x \in 0 .. L - 1 PROVE \E i \in 1 .. E : x \in Subrange(FramesOf(t)[i])
  <2>1. PICK a \in 0 .. E - 1 : x \in Subrange(Subscript(m, P, a))
    BY <1>1, PiecesCover DEF E, L
  <2>2. a + 1 \in 1 .. E /\ (a + 1) - 1 = a
    BY <1>2
  <2>3. FramesOf(t)[a + 1] = Subscript(m, P, a)
    BY <1>4, <2>2
  <2>4. QED
    BY <2>1, <2>2, <2>3
<1>10. QED
  BY <1>2, <1>3, <1>5, <1>7, <1>8, <1>9 DEF L, m, P

-----------------------------------------------------------------------------
\* A manager that has met only datagrams of message m since its builder was new.
Loyal(manager, m) ==
  /\ manager.outcome # "trap" /\ DOMAIN manager.builders \subseteq {0}
  /\ 0 \in DOMAIN manager.builders =>
       /\ manager.builders[0].remainingIndices # {}
       /\ manager.builders[0].remainingIndices \subseteq 0 .. Len(m.data) - 1
       /\ Agrees(manager.builders[0], m)

\* The bytes of m it waits for, a new builder being one that waits for all.
Awaited(manager, m) ==
  IF 0 \in DOMAIN manager.builders
    THEN manager.builders[0].remainingIndices ELSE 0 .. Len(m.data) - 1

\* With a datagram of m it stays loyal; it has the whole message when nothing
\* else was awaited, and waits for the rest otherwise.
LEMMA LoyalStep ==
  ASSUME NEW manager, ManagerOK(manager), NEW m \in Sendable, m.key = 0, Loyal(manager, m),
         NEW d \in DatagramView(m, PayloadMaxSize)
  PROVE  LET after == Step(manager, d)
             left  == Awaited(manager, m) \ Subrange(d)
         IN /\ Loyal(after, m)
            /\ left = {} => /\ 0 \notin DOMAIN after.builders
                            /\ after.received = Append(manager.received, m)
            /\ left # {} => /\ 0 \in DOMAIN after.builders
                            /\ after.builders[0].remainingIndices = left
                            /\ after.received = manager.received
<1> DEFINE after == Step(manager, d)
           left  == Awaited(manager, m) \ Subrange(d)
           a == BuilderFor(manager.builders, d)
           b == insert(a, d)
<1>1. PICK index \in 0 .. EndIndex(m, PayloadMaxSize) - 1 : d = Subscript(m, PayloadMaxSize, index)
  BY DEF DatagramView
<1>2. PayloadMaxSize \in Nat \ {0}
  BY TransferAssumption
<1>3. /\ Decodable(encoded(d)) /\ decode(encoded(d)) = d
      /\ d.key = 0 /\ d.messageLength = Len(m.data)
  BY <1>1, <1>2, PieceProperties, SubscriptProperties DEF Sendable
<1>4. a \in Builders /\ Agrees(a, m) /\ a.remainingIndices = Awaited(manager, m)
  <2>1. CASE 0 \in DOMAIN manager.builders
    <3>1. a = manager.builders[0]
      BY <1>3, <2>1 DEF BuilderFor
    <3>2. manager.builders[0] \in Builders
      BY <2>1 DEF ManagerOK
    <3>3. QED
      BY <2>1, <3>1, <3>2 DEF Loyal, Awaited
  <2>2. CASE 0 \notin DOMAIN manager.builders
    <3>1. a = NewBuilder(Len(m.data))
      BY <1>3, <2>2 DEF BuilderFor
    <3>2. m \in Messages /\ Len(m.data) \in Nat
      BY DEF Sendable, Messages
    <3>3. a \in Builders /\ Agrees(a, m)
      BY <3>1, <3>2, FreshBuilder
    <3>4. NewBuilder(Len(m.data)).remainingIndices = 0 .. Len(m.data) - 1
      BY DEF NewBuilder
    <3>5. QED
      BY <2>2, <3>1, <3>3, <3>4 DEF Awaited
  <2>3. QED
    BY <2>1, <2>2
<1> HIDE DEF a
<1>5. /\ Fits(a, d) /\ b \in Builders /\ Agrees(b, m)
      /\ b.remainingIndices = left
  BY <1>1, <1>2, <1>4, PieceInserted
<1>6. after = Collect(manager, d)
  <2>1. manager.outcome # "trap"
    BY DEF Loyal
  <2>2. after = process(manager, encoded(d))
    BY <2>1 DEF Step
  <2>3. QED
    BY <1>3, <1>5, <2>2 DEF process, a
<1>7. /\ after = IF left = {}
                   THEN [builders |-> Without(manager.builders, 0),
                         received |-> Append(manager.received, [key |-> 0, data |-> b.data]),
                         outcome  |-> "complete"]
                   ELSE [builders |-> With(manager.builders, 0, b),
                         received |-> manager.received,
                         outcome  |-> "incomplete"]
  BY <1>3, <1>5, <1>6 DEF Collect, a
<1> HIDE DEF b, left, after
<1>8. CASE left = {}
  <2>1. DOMAIN after.builders = DOMAIN manager.builders \ {0} /\ after.outcome = "complete"
    BY <1>7, <1>8 DEF Without
  <2>2. DOMAIN after.builders = {}
    BY <2>1 DEF Loyal
  <2>3. [key |-> 0, data |-> b.data] = m
    BY <1>5, <1>8, NothingRemains DEF Sendable
  <2>4. after.received = Append(manager.received, m)
    BY <1>7, <1>8, <2>3
  <2>5. Loyal(after, m)
    BY <2>1, <2>2 DEF Loyal
  <2>6. QED
    BY <1>8, <2>2, <2>4, <2>5 DEF after, left
<1>9. CASE left # {}
  <2>1. /\ after.builders = With(manager.builders, 0, b)
        /\ after.received = manager.received /\ after.outcome = "incomplete"
    BY <1>7, <1>9
  <2>2. DOMAIN after.builders = {0} /\ after.builders[0] = b
    <3>1. manager.builders = [k \in DOMAIN manager.builders |-> manager.builders[k]]
      BY DEF ManagerOK
    <3>2. DOMAIN manager.builders \subseteq {0}
      BY DEF Loyal
    <3>3. QED
      BY <2>1, <3>1, <3>2 DEF With
  <2>3. left \subseteq 0 .. Len(m.data) - 1
    BY DEF left, Awaited, Loyal
  <2>4. Loyal(after, m)
    BY <1>5, <1>9, <2>1, <2>2, <2>3 DEF Loyal
  <2>5. QED
    BY <1>5, <1>9, <2>1, <2>2, <2>4 DEF after, left
<1>10. QED
  BY <1>8, <1>9
-----------------------------------------------------------------------------
AtMostOnce(s, x) == \A a, b \in DOMAIN s : s[a] = x /\ s[b] = x => a = b

\* No characteristic is named twice by these services.
Distinct(offer) ==
  \A i, j \in DOMAIN offer :
    \A a \in DOMAIN offer[i], b \in DOMAIN offer[j] :
      offer[i][a] = offer[j][b] => i = j /\ a = b

\* What Head and Tail leave of a sequence.
LEMMA TailOfSequence ==
  ASSUME NEW S, NEW s \in Seq(S), s # <<>>
  PROVE  /\ 1 \in DOMAIN s /\ Head(s) = s[1] /\ Head(s) \in S /\ Head(s) \in ToSet(s)
         /\ Tail(s) \in Seq(S)
         /\ \A i \in DOMAIN Tail(s) : \E k \in DOMAIN s : k = i + 1 /\ k # 1 /\ Tail(s)[i] = s[k]
         /\ ToSet(Tail(s)) \subseteq ToSet(s)
<1>1. 1 \in DOMAIN s /\ Head(s) = s[1] /\ Head(s) \in S
  BY EmptySeq
<1>2. Tail(s) \in Seq(S)
  OBVIOUS
<1>3. ASSUME NEW i \in DOMAIN Tail(s)
      PROVE  i + 1 \in DOMAIN s /\ i + 1 # 1 /\ Tail(s)[i] = s[i + 1]
  BY EmptySeq
<1>4. \A i \in DOMAIN Tail(s) : \E k \in DOMAIN s : k = i + 1 /\ k # 1 /\ Tail(s)[i] = s[k]
  BY <1>3
<1>5. ToSet(Tail(s)) \subseteq ToSet(s) /\ Head(s) \in ToSet(s)
  BY <1>1, <1>4 DEF ToSet
<1>6. QED
  BY <1>1, <1>2, <1>4, <1>5

\* What is there at most once is gone when it was the head.
LEMMA TailOnce ==
  ASSUME NEW S, NEW s \in Seq(S), s # <<>>, NEW x, AtMostOnce(s, x)
  PROVE  AtMostOnce(Tail(s), x) /\ (Head(s) = x => x \notin ToSet(Tail(s)))
<1> DEFINE t == Tail(s)
<1>1. /\ 1 \in DOMAIN s /\ Head(s) = s[1]
      /\ \A i \in DOMAIN t : \E k \in DOMAIN s : k = i + 1 /\ k # 1 /\ t[i] = s[k]
      /\ t \in Seq(S)
  BY TailOfSequence
<1> HIDE DEF t
<1>2. ASSUME NEW a \in DOMAIN t, NEW b \in DOMAIN t, t[a] = x, t[b] = x PROVE a = b
  <2>1. PICK j \in DOMAIN s : j = a + 1 /\ t[a] = s[j]
    BY <1>1
  <2>2. PICK k \in DOMAIN s : k = b + 1 /\ t[b] = s[k]
    BY <1>1
  <2>3. j = k
    BY <1>2, <2>1, <2>2 DEF AtMostOnce
  <2>4. a \in Nat /\ b \in Nat
    BY <1>1
  <2>5. QED
    BY <2>1, <2>2, <2>3, <2>4
<1>3. ASSUME Head(s) = x, x \in ToSet(t) PROVE FALSE
  <2>1. PICK i \in DOMAIN t : t[i] = x
    BY <1>3 DEF ToSet
  <2>2. PICK k \in DOMAIN s : k # 1 /\ t[i] = s[k]
    BY <1>1
  <2>3. QED
    BY <1>1, <1>3, <2>1, <2>2 DEF AtMostOnce
<1>4. QED
  BY <1>2, <1>3 DEF AtMostOnce, t

\* The elements of a sequence with one more.
LEMMA AppendedIndices ==
  ASSUME NEW S, NEW s \in Seq(S), NEW e \in S
  PROVE  \A i \in DOMAIN Append(s, e) :
           (i \in DOMAIN s /\ Append(s, e)[i] = s[i]) \/ (i = Len(s) + 1 /\ Append(s, e)[i] = e)
OBVIOUS

\* Append puts one element last.
LEMMA AppendedSequence ==
  ASSUME NEW S, NEW s \in Seq(S), NEW e \in S
  PROVE  /\ Append(s, e) \in Seq(S) /\ Append(s, e) # <<>>
         /\ Last(Append(s, e)) = e
         /\ ToSet(Append(s, e)) = ToSet(s) \cup {e}
<1> DEFINE t == Append(s, e)
           n == Len(s)
<1>1. n \in Nat /\ DOMAIN s = 1 .. n /\ t \in Seq(S) /\ DOMAIN t = 1 .. n + 1 /\ Len(t) = n + 1
  OBVIOUS
<1>2. t[n + 1] = e /\ \A i \in 1 .. n : t[i] = s[i]
  OBVIOUS
<1>3. \A i \in DOMAIN t : (i \in DOMAIN s /\ t[i] = s[i]) \/ (i = n + 1 /\ t[i] = e)
  BY AppendedIndices
<1>4. n + 1 \in DOMAIN t /\ \A i \in DOMAIN s : i \in DOMAIN t /\ t[i] = s[i]
  BY <1>1, <1>2
<1>5. ToSet(t) = ToSet(s) \cup {e}
  <2> HIDE DEF t, n
  <2>1. QED
    BY <1>2, <1>3, <1>4 DEF ToSet
<1>6. Last(t) = e
  BY <1>1, <1>2 DEF Last
<1>7. t # <<>>
  BY <1>1
<1>8. QED
  BY <1>1, <1>5, <1>6, <1>7

\* An element put last is there once when it was not there before.
LEMMA AppendOnce ==
  ASSUME NEW S, NEW s \in Seq(S), NEW e \in S, NEW x, AtMostOnce(s, x),
         e = x => x \notin ToSet(s)
  PROVE  AtMostOnce(Append(s, e), x)
<1> DEFINE t == Append(s, e)
<1>1. \A i \in DOMAIN t : (i \in DOMAIN s /\ t[i] = s[i]) \/ (i = Len(s) + 1 /\ t[i] = e)
  BY AppendedIndices
<1> HIDE DEF t
<1>2. CASE e # x
  BY <1>1, <1>2 DEF AtMostOnce
<1>3. CASE e = x
  <2>1. \A i \in DOMAIN s : s[i] # x
    BY <1>3 DEF ToSet
  <2>2. QED
    BY <1>1, <2>1 DEF AtMostOnce
<1>4. QED
  BY <1>2, <1>3 DEF t

\* An element of one of two sequences is not there twice in both.
LEMMA ConcatOnce ==
  ASSUME NEW S, NEW s \in Seq(S), NEW t \in Seq(S), NEW x,
         AtMostOnce(s, x), AtMostOnce(t, x), x \notin ToSet(s) \/ x \notin ToSet(t)
  PROVE  /\ s \o t \in Seq(S)
         /\ ToSet(s \o t) \subseteq ToSet(s) \cup ToSet(t)
         /\ AtMostOnce(s \o t, x)
<1> DEFINE r == s \o t
           n == Len(s)
           m == Len(t)
<1>1. /\ n \in Nat /\ m \in Nat /\ DOMAIN s = 1 .. n /\ DOMAIN t = 1 .. m
      /\ r \in Seq(S) /\ DOMAIN r = 1 .. n + m
  OBVIOUS
<1>2. ASSUME NEW i \in DOMAIN r
      PROVE  (i \in 1 .. n /\ r[i] = s[i])
             \/ (\E a \in 1 .. m : i = a + n /\ r[i] = t[a])
  <2>1. CASE i <= n
    BY <1>1, <2>1
  <2>2. CASE ~ (i <= n)
    <3>1. i - n \in 1 .. m /\ i = (i - n) + n /\ r[i] = t[i - n]
      BY <1>1, <2>2
    <3>2. QED
      BY <3>1
  <2>3. QED
    BY <2>1, <2>2
<1> HIDE DEF r, n, m
<1>3. ASSUME NEW i \in DOMAIN r, NEW j \in DOMAIN r, r[i] = x, r[j] = x PROVE i = j
  <2>1. CASE x \notin ToSet(s)
    <3>1. \A k \in 1 .. n : s[k] # x
      BY <1>1, <2>1 DEF ToSet
    <3>2. PICK a \in 1 .. m : i = a + n /\ r[i] = t[a]
      BY <1>2, <1>3, <3>1
    <3>3. PICK b \in 1 .. m : j = b + n /\ r[j] = t[b]
      BY <1>2, <1>3, <3>1
    <3>4. a = b
      BY <1>1, <1>3, <3>2, <3>3 DEF AtMostOnce
    <3>5. QED
      BY <3>2, <3>3, <3>4
  <2>2. CASE x \notin ToSet(t)
    <3>1. \A k \in 1 .. m : t[k] # x
      BY <1>1, <2>2 DEF ToSet
    <3>2. i \in 1 .. n /\ j \in 1 .. n /\ s[i] = x /\ s[j] = x
      BY <1>2, <1>3, <3>1
    <3>3. QED
      BY <1>1, <3>2 DEF AtMostOnce
  <2>3. QED
    BY <2>1, <2>2
<1>4. ToSet(r) \subseteq ToSet(s) \cup ToSet(t)
  BY <1>1, <1>2 DEF ToSet
<1>5. QED
  BY <1>1, <1>3, <1>4 DEF AtMostOnce, r

\* The last element is an element.
LEMMA LastOfSequence ==
  ASSUME NEW S, NEW s \in Seq(S), s # <<>>
  PROVE  Len(s) \in DOMAIN s /\ Last(s) = s[Len(s)] /\ Last(s) \in S /\ Last(s) \in ToSet(s)
<1>1. Len(s) \in DOMAIN s /\ Last(s) = s[Len(s)]
  BY EmptySeq DEF Last
<1>2. QED
  BY <1>1 DEF ToSet
-----------------------------------------------------------------------------
(***************************************************************************)
(* The inductive invariant.  The datagrams are never cleared, so that a    *)
(* builder may have met frames of an earlier connection: Run says that it  *)
(* awaits none of those read on this one, Sound that it awaits the last,   *)
(* so that it is done with the last frame and not before or after it.      *)
(***************************************************************************)
\* What is under way belongs to a connection, and a connection starts the Pi's
\* transfer anew.
Linked ==
  /\ scanning => connection = "none"
  /\ connection # "discovered" => undiscovered = <<>> /\ reads = <<>> /\ ~acked
  /\ connection = "connected" => next = 1

\* The characteristic of the datagrams is still to be discovered.
Ahead == \E i \in DOMAIN undiscovered : Characteristic \in ToSet(undiscovered[i])

\* No service is asked for twice; the characteristic looked at is a service's
\* last.
Discovery ==
  /\ \A i \in DOMAIN undiscovered : undiscovered[i] \in ToSet(services)
  /\ Distinct(undiscovered)
  /\ Ahead => next = 1 /\ Characteristic \notin ToSet(reads) /\ ~acked
  /\ tempCharacteristic = Nil \/ \E i \in DOMAIN services : tempCharacteristic = Last(services[i])

\* One read at a time of the characteristic of the datagrams, none after FYN.
OneRead ==
  /\ \A a \in DOMAIN reads : reads[a] \in Readable
  /\ AtMostOnce(reads, Characteristic)
  /\ acked => Characteristic \notin ToSet(reads)

\* What a read may find while the Pi has its first transfer.
Values ==
  \A c \in Characteristics :
    \/ value[c] = Nil
    \/ c # Characteristic /\ value[c] = OtherValue
    \/ c = Characteristic /\ (transfer = 1 =>
         \E i \in 1 .. Len(PiDatagrams) + 1 : value[c] = PiFrame(i))

\* The Pi's first transfer is the only message there has been so far.
First ==
  transfer = 1 =>
    /\ Loyal(Reassembled, Transfers[1])
    /\ \A i \in DOMAIN Reassembled.received : Reassembled.received[i] = Transfers[1]

\* The answers to come are taken for the Pi's next frames.
Reading == tempCharacteristic = Characteristic /\ Characteristic \in ToSet(reads)

\* The frames read on this connection are among the datagrams, and the builder
\* awaits none of them; it is done exactly after the last.
Run ==
  /\ \A i \in 1 .. next - 1 :
       /\ PiDatagrams[i] \in ToSet(datagrams)
       /\ 0 \in DOMAIN Reassembled.builders =>
            Reassembled.builders[0].remainingIndices \cap Subrange(PiDatagrams[i]) = {}
  /\ next \in 2 .. Len(PiDatagrams) => 0 \in DOMAIN Reassembled.builders
  /\ next = Len(PiDatagrams) + 1 =>
       /\ 0 \notin DOMAIN Reassembled.builders
       /\ Reassembled.received # <<>>
       /\ Last(Reassembled.received) = Transfers[transfer]

\* While reads are sound a builder is one of the current transfer's message, has
\* its last frame to come, and is gone before the ACK.
Sound ==
  ReadsSound =>
    /\ app = "running"
    /\ Loyal(Reassembled, Transfers[transfer])
    /\ 0 \in DOMAIN Reassembled.builders =>
         /\ ~acked
         /\ Subrange(PiDatagrams[Len(PiDatagrams)]) \subseteq
              Reassembled.builders[0].remainingIndices
    /\ Reading => Run

IInv ==
  /\ TypeOK /\ ManagerOK(Reassembled)
  /\ Linked /\ Discovery /\ OneRead /\ Values /\ First /\ Sound

-----------------------------------------------------------------------------
\* FramesOfProperties for the transfer the Pi is at.
LEMMA CurrentFrames ==
  ASSUME transfer \in DOMAIN Transfers
  PROVE  /\ Len(PiDatagrams) \in Nat \ {0}
         /\ \A i \in 1 .. Len(PiDatagrams) :
              PiDatagrams[i] \in DatagramView(Transfers[transfer], PayloadMaxSize)
         /\ \A i, j \in 1 .. Len(PiDatagrams) :
              i # j => Subrange(PiDatagrams[i]) \cap Subrange(PiDatagrams[j]) = {}
         /\ \A x \in 0 .. Len(Transfers[transfer].data) - 1 :
              \E i \in 1 .. Len(PiDatagrams) : x \in Subrange(PiDatagrams[i])
BY PiFrames, FramesOfProperties

\* Services as PeripheralAssumption has them.
LEMMA Offers ==
  ASSUME NEW offer \in Peripherals
  PROVE  /\ offer \in Seq(Seq(Characteristics))
         /\ \A i \in DOMAIN offer : offer[i] # <<>>
         /\ Distinct(offer)
<1>1. offer \in Seq(Seq(Characteristics) \ {<<>>})
  BY PeripheralAssumption
<1>2. offer \in Seq(Seq(Characteristics)) /\ \A i \in DOMAIN offer : offer[i] # <<>>
  BY <1>1
<1>3. Distinct(offer)
  BY PeripheralAssumption DEF Distinct
<1>4. QED
  BY <1>2, <1>3

\* The invariant holds when the app starts.
LEMMA InitIInv == Init => IInv
<1> SUFFICES ASSUME Init PROVE IInv
  OBVIOUS
<1>1. transfer = 1 /\ next = 1 /\ 1 \in DOMAIN Transfers
  <2>1. Transfers \in Seq(Messages) /\ Transfers # <<>>
    BY TransferAssumption
  <2>2. 1 \in DOMAIN Transfers
    BY <2>1, EmptySeq
  <2>3. QED
    BY <2>2 DEF Init
<1>2. Len(PiDatagrams) \in Nat \ {0}
  BY <1>1, CurrentFrames
<1>3. TypeOK
  <2>1. next \in 1 .. Len(PiDatagrams) + 1
    BY <1>1, <1>2
  <2>2. /\ faults \in [FaultKinds -> Nat]
        /\ \A kind \in FaultKinds : faults[kind] <= MaxFaults[kind]
    BY TransferAssumption DEF Init
  <2>3. value \in [Characteristics -> Seq(Byte) \cup {Nil}]
    BY DEF Init
  <2>4. /\ undiscovered \in Seq(Seq(Characteristics)) /\ reads \in Seq(Characteristics)
        /\ datagrams \in Seq(MessageDatagrams) /\ messages \in Seq(Messages)
    BY DEF Init
  <2>5. QED
    BY <1>1, <2>1, <2>2, <2>3, <2>4 DEF Init, TypeOK
<1>4. Reassembled = NewManager
  BY ManagerOfNone DEF Init, Reassembled
<1>5. /\ NewManager.builders = <<>> /\ NewManager.received = <<>> /\ NewManager.outcome = "none"
      /\ DOMAIN NewManager.builders = {}
  BY DEF NewManager
<1>6. ManagerOK(NewManager)
  BY DEF NewManager, ManagerOK, Outcomes
<1>7. Loyal(NewManager, Transfers[1])
  BY <1>5 DEF Loyal
<1>8. Linked /\ Discovery /\ OneRead /\ Values
  BY <1>1 DEF Init, Linked, Discovery, OneRead, Values, Ahead, Distinct, AtMostOnce, ToSet
<1>9. First
  BY <1>4, <1>5, <1>7 DEF First
<1>10. ~ Reading
  BY DEF Init, Reading, ToSet
<1>11. Sound
  BY <1>1, <1>4, <1>5, <1>7, <1>10 DEF Sound, Init
<1>12. QED
  BY <1>3, <1>4, <1>6, <1>8, <1>9, <1>11 DEF IInv

-----------------------------------------------------------------------------
(***************************************************************************)
(* The steps that leave the datagrams alone.                               *)
(***************************************************************************)
\* What such a step keeps of the invariant.
LEMMA Quiet ==
  ASSUME IInv, UNCHANGED <<datagrams, app, services, transfer>>, acked' => acked,
         faults'.readError = 0 => faults.readError = 0,
         ReadsSound' /\ Reading' => Run',
         \A c \in Characteristics : value'[c] \in {Nil, value[c]}
  PROVE  ManagerOK(Reassembled)' /\ Values' /\ First' /\ Sound'
<1>1. Reassembled' = Reassembled
  BY DEF Reassembled
<1>2. PiDatagrams' = PiDatagrams
  BY DEF PiDatagrams
<1>3. ReadsSound' => ReadsSound
  BY DEF ReadsSound, Misread
<1>4. ManagerOK(Reassembled)'
  BY <1>1 DEF IInv
<1>5. Values'
  BY <1>2 DEF IInv, Values, PiFrame
<1>6. First'
  BY <1>1 DEF IInv, First
<1>7. Sound'
  BY <1>1, <1>2, <1>3 DEF IInv, Sound
<1>8. QED
  BY <1>4, <1>5, <1>6, <1>7

\* With no read under way, no answer is to come.
LEMMA NotReadingNone == reads' = <<>> => ~ Reading'
BY DEF Reading, ToSet

\* A fault happens once more, and not more often than allowed.
LEMMA FaultTypes ==
  ASSUME TypeOK, NEW kind \in FaultKinds, Fault(kind)
  PROVE  /\ faults' \in [FaultKinds -> Nat]
         /\ \A k \in FaultKinds : faults'[k] <= MaxFaults[k]
         /\ \A k \in FaultKinds : k # kind => faults'[k] = faults[k]
         /\ faults'[kind] # 0
<1>1. /\ faults \in [FaultKinds -> Nat] /\ MaxFaults \in [FaultKinds -> Nat]
      /\ \A k \in FaultKinds : faults[k] <= MaxFaults[k]
  BY TransferAssumption DEF TypeOK
<1>2. faults' = [faults EXCEPT ![kind] = @ + 1] /\ faults[kind] < MaxFaults[kind]
  BY DEF Fault
<1> HIDE DEF FaultKinds
<1>3. faults[kind] \in Nat /\ MaxFaults[kind] \in Nat /\ faults'[kind] = faults[kind] + 1
  BY <1>1, <1>2
<1>4. \A k \in FaultKinds : k # kind => faults'[k] = faults[k]
  BY <1>1, <1>2
<1>5. faults' \in [FaultKinds -> Nat]
  BY <1>1, <1>2, <1>3
<1>6. faults'[kind] <= MaxFaults[kind] /\ faults'[kind] # 0
  BY <1>2, <1>3
<1>7. QED
  BY <1>1, <1>4, <1>5, <1>6

\* A connection ends.
LEMMA DisconnectedKeeps ==
  ASSUME IInv, Disconnected, UNCHANGED <<reader, services, transfer, next>>,
         scanning' \in BOOLEAN, power' \in {"unknown", "poweredOff", "poweredOn"},
         \/ UNCHANGED faults
         \/ \E kind \in {"power", "disconnect"} : Fault(kind)
  PROVE  IInv'
<1>1. /\ faults' \in [FaultKinds -> Nat]
      /\ \A k \in FaultKinds : faults'[k] <= MaxFaults[k]
      /\ faults'.readError = faults.readError
  BY FaultTypes DEF IInv, TypeOK, FaultKinds
<1>2. PiDatagrams' = PiDatagrams
  BY DEF PiDatagrams
<1>3. TypeOK'
  <2>1. undiscovered' \in Seq(Seq(Characteristics)) /\ reads' \in Seq(Characteristics)
    BY DEF Disconnected
  <2>2. next' \in 1 .. Len(PiDatagrams)' + 1
    BY <1>2 DEF IInv, TypeOK
  <2>3. QED
    BY <1>1, <2>1, <2>2 DEF IInv, TypeOK, Disconnected, reader
<1>4. Linked' /\ Discovery' /\ OneRead'
  BY DEF IInv, Disconnected, Linked, Discovery, OneRead, Ahead, Distinct, AtMostOnce, ToSet, reader
<1>5. ManagerOK(Reassembled)' /\ Values' /\ First' /\ Sound'
  BY <1>1, Quiet, NotReadingNone DEF Disconnected, reader
<1>6. QED
  BY <1>3, <1>4, <1>5 DEF IInv

\* The steps from a scan to the services.
LEMMA ConnectionStep ==
  ASSUME IInv, didDiscover \/ didConnect \/ didDiscoverServices
  PROVE  IInv'
<1>1. /\ reads = <<>> /\ undiscovered = <<>> /\ ~acked
      /\ UNCHANGED <<power, tempCharacteristic, value, reads, datagrams, messages, app,
                     services, acked, transfer, faults>>
      /\ scanning' \in BOOLEAN
      /\ connection' \in {"connecting", "connected", "discovered"}
  BY DEF IInv, TypeOK, Linked, didDiscover, didConnect, didDiscoverServices,
         central, reader, pi
<1>2. PiDatagrams' = PiDatagrams /\ Len(PiDatagrams) \in Nat \ {0}
  BY <1>1, CurrentFrames DEF PiDatagrams, IInv, TypeOK
<1>3. services \in Seq(Seq(Characteristics)) /\ Distinct(services)
  BY Offers DEF IInv, TypeOK
<1>4. undiscovered' \in {<<>>, services} /\ next' \in {1, next}
  BY <1>1 DEF didDiscover, didConnect, didDiscoverServices, pi
<1>5. TypeOK'
  <2>1. next' \in 1 .. Len(PiDatagrams)' + 1
    BY <1>2, <1>4 DEF IInv, TypeOK
  <2>2. undiscovered' \in Seq(Seq(Characteristics))
    <3>1. <<>> \in Seq(Seq(Characteristics))
      OBVIOUS
    <3>2. QED
      BY <1>3, <1>4, <3>1
  <2>3. QED
    BY <1>1, <2>1, <2>2 DEF IInv, TypeOK
<1>6. Linked'
  BY <1>1 DEF IInv, Linked, didDiscover, didConnect, didDiscoverServices, central, pi
<1>7. Discovery'
  <2>1. \A i \in DOMAIN undiscovered' : undiscovered'[i] \in ToSet(services)
    BY <1>4 DEF ToSet
  <2>2. Distinct(undiscovered')
    BY <1>3, <1>4 DEF Distinct
  <2>3. Ahead' => next' = 1
    <3>1. CASE undiscovered' = <<>>
      BY <3>1 DEF Ahead
    <3>2. CASE undiscovered' # <<>>
      BY <1>1, <3>2 DEF IInv, Linked, didDiscover, didConnect, didDiscoverServices, pi
    <3>3. QED
      BY <3>1, <3>2
  <2>4. Characteristic \notin ToSet(reads')
    BY <1>1 DEF ToSet
  <2>5. QED
    BY <1>1, <2>1, <2>2, <2>3, <2>4 DEF IInv, Discovery
<1>8. OneRead'
  BY <1>1 DEF IInv, OneRead, AtMostOnce, ToSet
<1>9. ManagerOK(Reassembled)' /\ Values' /\ First' /\ Sound'
  BY <1>1, Quiet, NotReadingNone
<1>10. QED
  BY <1>5, <1>6, <1>7, <1>8, <1>9 DEF IInv

\* A service's characteristics are known, and the readable ones read.
LEMMA DiscoveryStep ==
  ASSUME IInv, didDiscoverCharacteristics
  PROVE  IInv'
<1> DEFINE items == Head(undiscovered)
           picked == ReadableOf(items)
<1>1. /\ undiscovered # <<>> /\ connection = "discovered"
      /\ undiscovered' = Tail(undiscovered) /\ tempCharacteristic' = Last(items)
      /\ reads' = reads \o picked
      /\ UNCHANGED <<power, scanning, connection, services, acked, transfer, next, datagrams,
                     messages, app, faults>>
  BY DEF IInv, Linked, didDiscoverCharacteristics, central, pi
<1>2. value' = [c \in Characteristics |-> IF c \in ToSet(items) THEN Nil ELSE value[c]]
  BY DEF didDiscoverCharacteristics
<1>3. undiscovered \in Seq(Seq(Characteristics)) /\ reads \in Seq(Characteristics)
  BY DEF IInv, TypeOK
<1>4. /\ 1 \in DOMAIN undiscovered /\ items = undiscovered[1] /\ items \in Seq(Characteristics)
      /\ Tail(undiscovered) \in Seq(Seq(Characteristics))
      /\ \A i \in DOMAIN Tail(undiscovered) : \E k \in DOMAIN undiscovered :
           k = i + 1 /\ k # 1 /\ Tail(undiscovered)[i] = undiscovered[k]
  BY <1>1, <1>3, TailOfSequence
<1>5. PICK s \in DOMAIN services : items = services[s]
  BY <1>4 DEF IInv, Discovery, ToSet
<1>6. items # <<>>
  BY <1>5, Offers DEF IInv, TypeOK
<1>7. Last(items) \in Characteristics /\ Last(items) \in ToSet(items)
  BY <1>4, <1>6, LastOfSequence
<1>8. OnceEach(items)
  BY <1>4 DEF IInv, Discovery, Distinct, OnceEach
<1>9. Picked(picked, items, Len(items))
  BY <1>4, <1>8, ReadableOfProperties
<1> HIDE DEF picked, items
<1>10. ToSet(items) \subseteq Characteristics
  BY <1>4 DEF ToSet
<1>11. /\ picked \in Seq(Characteristics) /\ AtMostOnce(picked, Characteristic)
       /\ \A a \in DOMAIN picked : picked[a] \in Readable
       /\ ToSet(picked) \subseteq ToSet(items)
  <2>1. picked \in Seq(ToSet(items))
    BY <1>9 DEF Picked
  <2>2. QED
    BY <1>9, <1>10, <2>1 DEF Picked, AtMostOnce, ToSet
<1>12. Characteristic \in ToSet(items) =>
         Ahead /\ next = 1 /\ Characteristic \notin ToSet(reads) /\ ~acked
  BY <1>4 DEF IInv, Discovery, Ahead
<1>13. Characteristic \notin ToSet(reads) \/ Characteristic \notin ToSet(picked)
  BY <1>11, <1>12
<1>14. /\ reads' \in Seq(Characteristics) /\ AtMostOnce(reads', Characteristic)
       /\ ToSet(reads') \subseteq ToSet(reads) \cup ToSet(picked)
  <2>1. AtMostOnce(reads, Characteristic)
    BY DEF IInv, OneRead
  <2>2. AtMostOnce(picked, Characteristic) /\ picked \in Seq(Characteristics)
    BY <1>11
  <2>3. /\ reads \o picked \in Seq(Characteristics)
        /\ AtMostOnce(reads \o picked, Characteristic)
        /\ ToSet(reads \o picked) \subseteq ToSet(reads) \cup ToSet(picked)
    BY <1>3, <1>13, <2>1, <2>2, ConcatOnce
  <2>4. QED
    BY <1>1, <2>3
<1>16. TypeOK'
  <2>1. PiDatagrams' = PiDatagrams
    BY <1>1 DEF PiDatagrams
  <2>2. value' \in [Characteristics -> Seq(Byte) \cup {Nil}]
    BY <1>2 DEF IInv, TypeOK
  <2>3. QED
    BY <1>1, <1>4, <1>7, <1>14, <2>1, <2>2 DEF IInv, TypeOK
<1>17. Linked'
  BY <1>1 DEF IInv, Linked
<1>18. Discovery'
  <2>1. \A i \in DOMAIN undiscovered' : undiscovered'[i] \in ToSet(services)
    BY <1>1, <1>4 DEF IInv, Discovery
  <2>2. Distinct(undiscovered')
    <3> SUFFICES ASSUME NEW i \in DOMAIN undiscovered', NEW j \in DOMAIN undiscovered',
                        NEW a \in DOMAIN undiscovered'[i], NEW b \in DOMAIN undiscovered'[j],
                        undiscovered'[i][a] = undiscovered'[j][b]
                 PROVE  i = j /\ a = b
      BY DEF Distinct
    <3>1. PICK k \in DOMAIN undiscovered : k = i + 1 /\ undiscovered'[i] = undiscovered[k]
      BY <1>1, <1>4
    <3>2. PICK l \in DOMAIN undiscovered : l = j + 1 /\ undiscovered'[j] = undiscovered[l]
      BY <1>1, <1>4
    <3>3. k = l /\ a = b
      BY <3>1, <3>2 DEF IInv, Discovery, Distinct
    <3>4. i \in Nat /\ j \in Nat
      <4>1. undiscovered' \in Seq(Seq(Characteristics))
        BY <1>1, <1>4
      <4>2. DOMAIN undiscovered' \subseteq Nat
        BY <4>1
      <4>3. QED
        BY <4>2
    <3>5. QED
      BY <3>1, <3>2, <3>3, <3>4
  <2>3. ASSUME Ahead' PROVE next' = 1 /\ Characteristic \notin ToSet(reads') /\ ~acked'
    <3>1. PICK i \in DOMAIN undiscovered' : Characteristic \in ToSet(undiscovered'[i])
      BY <2>3 DEF Ahead
    <3>2. PICK k \in DOMAIN undiscovered : k # 1 /\ undiscovered'[i] = undiscovered[k]
      BY <1>1, <1>4
    <3>3. next = 1 /\ Characteristic \notin ToSet(reads) /\ ~acked
      BY <3>1, <3>2 DEF IInv, Discovery, Ahead
    <3>4. Characteristic \notin ToSet(items)
      BY <1>4, <3>1, <3>2 DEF IInv, Discovery, Distinct, ToSet
    <3>5. QED
      BY <1>1, <1>11, <1>14, <3>3, <3>4
  <2>4. tempCharacteristic' = Last(services'[s])
    BY <1>1, <1>5
  <2>5. QED
    BY <1>1, <2>1, <2>2, <2>3, <2>4 DEF Discovery
<1>19. OneRead'
  <2>1. \A a \in DOMAIN reads' : reads'[a] \in Readable
    BY <1>11, <1>14 DEF IInv, OneRead, ToSet
  <2>2. acked' => Characteristic \notin ToSet(reads')
    BY <1>1, <1>11, <1>12, <1>14 DEF IInv, OneRead
  <2>3. QED
    BY <1>14, <2>1, <2>2 DEF OneRead
<1>20. ASSUME Reading' PROVE Run'
  <2>1. Characteristic \in ToSet(items)
    BY <1>1, <1>7, <1>20 DEF Reading
  <2>2. next' = 1
    BY <1>1, <1>12, <2>1
  <2>3. Len(PiDatagrams)' \in Nat \ {0}
    BY <1>1, CurrentFrames DEF IInv, TypeOK, PiDatagrams
  <2>4. next' # Len(PiDatagrams)' + 1
    BY <2>2, <2>3
  <2>5. 1 .. next' - 1 = {} /\ next' \notin 2 .. Len(PiDatagrams)'
    BY <2>2, <2>3
  <2>6. QED
    BY <2>4, <2>5 DEF Run
<1>21. \A c \in Characteristics : value'[c] \in {Nil, value[c]}
  BY <1>2
<1>22. ManagerOK(Reassembled)' /\ Values' /\ First' /\ Sound'
  BY <1>1, <1>20, <1>21, Quiet
<1>23. QED
  BY <1>16, <1>17, <1>18, <1>19, <1>22 DEF IInv

\* Only a whole message brings the ACK: the Pi goes on to the next transfer
\* when no builder is left.
LEMMA AcknowledgedStep ==
  ASSUME IInv, PiAcknowledged
  PROVE  IInv'
<1>1. /\ acked /\ ~acked'
      /\ UNCHANGED <<power, scanning, connection, undiscovered, reads, tempCharacteristic, value,
                     datagrams, messages, app, services, faults>>
  BY DEF PiAcknowledged, central, gatt, reader
<1>2. ~Ahead /\ connection = "discovered" /\ Characteristic \notin ToSet(reads)
  BY <1>1 DEF IInv, Linked, Discovery, OneRead
<1>3. ~Ahead' /\ ~Reading'
  BY <1>1, <1>2 DEF Ahead, Reading
<1>4. Reassembled' = Reassembled
  BY <1>1 DEF Reassembled
<1>5. \/ UNCHANGED <<transfer, next>>
      \/ /\ transfer' \in DOMAIN Transfers /\ transfer' # 1
         /\ next' = 1
  <2>1. /\ transfer \in 1 .. Len(Transfers) /\ Len(Transfers) \in Nat
        /\ DOMAIN Transfers = 1 .. Len(Transfers)
    BY TransferAssumption DEF IInv, TypeOK
  <2>2. QED
    BY <2>1 DEF PiAcknowledged
<1>6. TypeOK'
  <2>1. transfer' \in DOMAIN Transfers /\ next' \in 1 .. Len(PiDatagrams)' + 1
    <3>1. CASE UNCHANGED <<transfer, next>>
      BY <3>1 DEF IInv, TypeOK, PiDatagrams
    <3>2. CASE transfer' \in DOMAIN Transfers /\ next' = 1
      <4>1. Len(PiDatagrams)' \in Nat
        BY <3>2, PiFrames, FramesOfProperties
      <4>2. QED
        BY <3>2, <4>1
    <3>3. QED
      BY <1>5, <3>1, <3>2
  <2>2. acked' \in BOOLEAN
    BY DEF PiAcknowledged
  <2>3. QED
    BY <1>1, <2>1, <2>2 DEF IInv, TypeOK
<1>7. Linked' /\ Discovery' /\ OneRead'
  BY <1>1, <1>2, <1>3 DEF IInv, Linked, Discovery, OneRead
<1>8. Values'
  <2>1. transfer' = 1 => transfer = 1 /\ PiDatagrams' = PiDatagrams
    BY <1>5 DEF PiDatagrams
  <2>2. QED
    BY <1>1, <2>1 DEF IInv, Values, PiFrame
<1>9. First'
  BY <1>4, <1>5 DEF IInv, First
<1>10. Sound'
  <2> SUFFICES ASSUME ReadsSound' PROVE /\ app' = "running"
                                        /\ Loyal(Reassembled', Transfers[transfer'])
                                        /\ 0 \notin DOMAIN Reassembled'.builders
    BY <1>3 DEF Sound
  <2>1. ReadsSound
    BY <1>1 DEF ReadsSound, Misread
  <2>2. /\ app = "running" /\ 0 \notin DOMAIN Reassembled.builders
        /\ Loyal(Reassembled, Transfers[transfer])
    BY <1>1, <2>1 DEF IInv, Sound
  <2>3. QED
    BY <1>1, <1>4, <2>2 DEF Loyal
<1>11. QED
  BY <1>4, <1>6, <1>7, <1>8, <1>9, <1>10 DEF IInv
-----------------------------------------------------------------------------
(***************************************************************************)
(* The answer to a read: what the handler may do with it.                  *)
(***************************************************************************)
Ignored ==
  /\ reads' = Tail(reads) /\ UNCHANGED <<datagrams, messages, acked>>
  /\ app' \in {app, "crashed"}

Taken(c) ==
  /\ value'[c] # Nil /\ Decodable(value'[c]) /\ decode(value'[c]).key = 0
  /\ datagrams' = Append(datagrams, decode(value'[c]))
  /\ reads' = Append(Tail(reads), c)
  /\ UNCHANGED <<messages, app, acked>>

Finished(c) ==
  /\ value'[c] # Nil /\ Decodable(value'[c]) /\ decode(value'[c]).key # 0
  /\ reads' = Tail(reads) /\ datagrams' = datagrams /\ acked' = (c = Characteristic \/ acked)
  /\ IF Reassembled.outcome = "trap" \/ Reassembled.received = <<>>
       THEN app' = "crashed" /\ messages' = messages
       ELSE app' = app /\ messages' = Append(messages, Last(Reassembled.received))

\* didUpdateValueFor ignores the answer, takes it for a datagram or for FYN.
LEMMA HandleCases ==
  ASSUME NEW c, Handle(c)
  PROVE  /\ UNCHANGED <<power, scanning, connection, undiscovered, tempCharacteristic, transfer>>
         /\ IF c = tempCharacteristic
              THEN \/ /\ value'[c] = Nil \/ ~Decodable(value'[c])
                      /\ Ignored
                   \/ Taken(c)
                   \/ Finished(c)
              ELSE Ignored /\ app' = app
<1>1. UNCHANGED <<power, scanning, connection, undiscovered, tempCharacteristic, transfer>>
  BY DEF Handle, central
<1>2. CASE c # tempCharacteristic
  BY <1>1, <1>2 DEF Handle, Ignored
<1>3. CASE c = tempCharacteristic
  <2> DEFINE v == value'[c]
  <2>1. processDatagrams(c)
    BY <1>3 DEF Handle
  <2>2. CASE v = Nil /\ app' = "crashed" /\ reads' = Tail(reads)
             /\ UNCHANGED <<datagrams, messages, acked>>
    BY <1>1, <1>3, <2>2 DEF Ignored
  <2>3. CASE v # Nil /\ ~Decodable(v) /\ reads' = Tail(reads)
             /\ UNCHANGED <<datagrams, messages, app, acked>>
    BY <1>1, <1>3, <2>3 DEF Ignored
  <2>4. CASE v # Nil /\ Decodable(v) /\ InMessage(decode(v)) /\ datagrams' = Collected(v)
             /\ reads' = ReadAgain(Tail(reads), c) /\ UNCHANGED <<messages, app, acked>>
    BY <1>1, <1>3, <2>4 DEF Taken, InMessage, Collected, ReadAgain
  <2>5. CASE v # Nil /\ Decodable(v) /\ ~InMessage(decode(v)) /\ reads' = Tail(reads)
             /\ Acknowledge(c)
    <3>1. decode(v).key # 0
      BY <2>5 DEF InMessage
    <3>2. Finished(c)
      BY <2>5, <3>1 DEF Finished, Acknowledge, Reconstructed
    <3>3. QED
      BY <1>1, <1>3, <3>2
  <2>6. QED
    BY <2>1, <2>2, <2>3, <2>4, <2>5 DEF processDatagrams
<1>4. QED
  BY <1>2, <1>3

\* What the Pi sends is bytes.
LEMMA FrameTypes ==
  ASSUME transfer \in DOMAIN Transfers, NEW i \in 1 .. Len(PiDatagrams) + 1
  PROVE  /\ PiFrame(i) \in Seq(Byte) /\ PiFrame(i) # Nil /\ Decodable(PiFrame(i))
         /\ i = Len(PiDatagrams) + 1 => PiFrame(i) = Fyn /\ decode(PiFrame(i)).key # 0
         /\ i # Len(PiDatagrams) + 1 =>
              /\ i \in 1 .. Len(PiDatagrams)
              /\ decode(PiFrame(i)) = PiDatagrams[i] /\ PiDatagrams[i].key = 0
<1>1. Len(PiDatagrams) \in Nat \ {0}
  BY CurrentFrames
<1>2. CASE i = Len(PiDatagrams) + 1
  <2>1. PiFrame(i) = Fyn
    BY <1>1, <1>2 DEF PiFrame
  <2>2. QED
    BY <1>2, <2>1, TransferAssumption, PeripheralAssumption
<1>3. CASE i # Len(PiDatagrams) + 1
  <2>1. i \in 1 .. Len(PiDatagrams) /\ ~ (i > Len(PiDatagrams))
    BY <1>1, <1>3
  <2>2. PiFrame(i) = encoded(PiDatagrams[i])
    BY <2>1 DEF PiFrame
  <2>3. PiDatagrams[i] \in DatagramView(Transfers[transfer], PayloadMaxSize)
    BY <2>1, CurrentFrames
  <2>4. /\ PiFrame(i) \in Seq(Byte) /\ Decodable(PiFrame(i))
        /\ decode(PiFrame(i)) = PiDatagrams[i] /\ PiDatagrams[i].key = 0
    BY <2>2, <2>3, TransferSendable, PieceProperties
  <2>5. QED
    BY <1>3, <2>1, <2>4, PeripheralAssumption
<1>4. QED
  BY <1>2, <1>3

\* The Pi stays at one of its frames.
LEMMA ServedTypes ==
  ASSUME TypeOK
  PROVE  Served \in 1 .. Len(PiDatagrams) + 1 /\ next \in 1 .. Len(PiDatagrams) + 1
         /\ Len(PiDatagrams) \in Nat \ {0}
<1>1. Len(PiDatagrams) \in Nat \ {0} /\ next \in 1 .. Len(PiDatagrams) + 1
  BY CurrentFrames DEF TypeOK
<1>2. QED
  BY <1>1 DEF Served

\* A datagram taken reaches the manager.
LEMMA TakenManager ==
  ASSUME IInv, NEW v \in Seq(Byte), Decodable(v), decode(v).key = 0,
         datagrams' = Append(datagrams, decode(v))
  PROVE  /\ datagrams' \in Seq(MessageDatagrams)
         /\ ToSet(datagrams') = ToSet(datagrams) \cup {decode(v)}
         /\ Reassembled' = Step(Reassembled, decode(v))
         /\ ManagerOK(Reassembled')
<1> DEFINE d == decode(v)
<1>1. d \in Datagrams /\ d.payload # <<>>
  BY DecodeTypes
<1>2. d \in MessageDatagrams
  BY <1>1 DEF Datagrams, MessageDatagrams
<1>3. encoded(d) \in Seq(Byte)
  BY <1>1, RoundTrip
<1> HIDE DEF d
<1>4. datagrams \in Seq(MessageDatagrams) /\ datagrams' = Append(datagrams, d)
  BY DEF IInv, TypeOK, d
<1>5. ManagerAfter(Append(datagrams, d)) = Step(ManagerAfter(datagrams), d)
  BY <1>2, <1>4, ManagerOfOneMore
<1>6. Reassembled' = Step(Reassembled, d)
  BY <1>4, <1>5 DEF Reassembled
<1>7. ManagerOK(Step(Reassembled, d))
  BY <1>3, ProcessTypes DEF IInv, Step
<1>8. /\ ToSet(Append(datagrams, d)) = ToSet(datagrams) \cup {d}
      /\ Append(datagrams, d) \in Seq(MessageDatagrams)
  BY <1>2, <1>4, AppendedSequence
<1>9. QED
  BY <1>4, <1>6, <1>7, <1>8 DEF d

\* Whatever the answer, types are kept.
LEMMA AnswerTypes ==
  ASSUME IInv, reads # <<>>, NEW c, c = Head(reads), Handle(c), services' = services,
         faults' \in [FaultKinds -> Nat], \A k \in FaultKinds : faults'[k] <= MaxFaults[k],
         next' \in {next, Served},
         value' \in [Characteristics -> Seq(Byte) \cup {Nil}]
  PROVE  TypeOK' /\ ManagerOK(Reassembled)'
<1>1. /\ reads \in Seq(Characteristics) /\ c \in Characteristics
      /\ Tail(reads) \in Seq(Characteristics)
  BY TailOfSequence DEF IInv, TypeOK
<1>2. UNCHANGED <<power, scanning, connection, undiscovered, tempCharacteristic, transfer>>
  BY HandleCases
<1>3. PiDatagrams' = PiDatagrams
  BY <1>2 DEF PiDatagrams
<1>4. next' \in 1 .. Len(PiDatagrams)' + 1
  BY <1>3, ServedTypes DEF IInv
<1>5. Ignored \/ Taken(c) \/ Finished(c)
  BY HandleCases
<1>6. /\ app' \in {"running", "crashed"} /\ acked' \in BOOLEAN
  BY <1>5 DEF IInv, TypeOK, Ignored, Taken, Finished
<1>7. reads' \in Seq(Characteristics)
  <2>1. Append(Tail(reads), c) \in Seq(Characteristics)
    BY <1>1
  <2>2. QED
    BY <1>1, <1>5, <2>1 DEF Ignored, Taken, Finished
<1>8. messages' \in Seq(Messages)
  <2>1. CASE messages' = messages
    BY <2>1 DEF IInv, TypeOK
  <2>2. CASE messages' # messages
    <3>1. messages' = Append(messages, Last(Reassembled.received)) /\ Reassembled.received # <<>>
      BY <1>5, <2>2 DEF Ignored, Taken, Finished
    <3>2. Reassembled.received \in Seq(Messages) /\ messages \in Seq(Messages)
      BY DEF IInv, TypeOK, ManagerOK
    <3>3. Last(Reassembled.received) \in Messages
      BY <3>1, <3>2, LastOfSequence
    <3>4. QED
      BY <3>1, <3>2, <3>3, AppendedSequence
  <2>3. QED
    BY <2>1, <2>2
<1>9. datagrams' \in Seq(MessageDatagrams) /\ ManagerOK(Reassembled')
  <2>1. CASE datagrams' = datagrams
    BY <2>1 DEF IInv, TypeOK, Reassembled
  <2>2. CASE Taken(c)
    <3>1. value'[c] \in Seq(Byte)
      BY <1>1, <2>2 DEF Taken
    <3>2. QED
      BY <2>2, <3>1, TakenManager DEF Taken
  <2>3. QED
    BY <1>5, <2>1, <2>2 DEF Ignored, Finished
<1>10. TypeOK'
  BY <1>2, <1>4, <1>6, <1>7, <1>8, <1>9 DEF IInv, TypeOK
<1>11. QED
  BY <1>9, <1>10

\* Whatever the answer, one read of the datagrams' characteristic at a time.
LEMMA AnswerOrder ==
  ASSUME IInv, reads # <<>>, NEW c, c = Head(reads), Handle(c), services' = services,
         next' = next \/ (c = Characteristic /\ next' = Served)
  PROVE  Linked' /\ Discovery' /\ OneRead'
<1>1. /\ reads \in Seq(Characteristics) /\ c \in Characteristics /\ c \in ToSet(reads)
      /\ Tail(reads) \in Seq(Characteristics) /\ ToSet(Tail(reads)) \subseteq ToSet(reads)
  BY TailOfSequence DEF IInv, TypeOK
<1>2. UNCHANGED <<power, scanning, connection, undiscovered, tempCharacteristic, transfer>>
  BY HandleCases
<1>3. connection = "discovered" /\ AtMostOnce(reads, Characteristic)
  BY DEF IInv, Linked, OneRead
<1>4. AtMostOnce(Tail(reads), Characteristic)
      /\ (c = Characteristic => Characteristic \notin ToSet(Tail(reads)))
  BY <1>1, <1>3, TailOnce
<1> DEFINE again == Append(Tail(reads), c)
<1>5. ToSet(again) = ToSet(Tail(reads)) \cup {c}
  <2> DEFINE rest == Tail(reads)
  <2>1. rest \in Seq(Characteristics) /\ c \in Characteristics
    BY <1>1
  <2> HIDE DEF rest
  <2>2. ToSet(Append(rest, c)) = ToSet(rest) \cup {c}
    BY <2>1, AppendedSequence
  <2>3. QED
    BY <2>2 DEF rest
<1>6. AtMostOnce(again, Characteristic)
  BY <1>1, <1>4, AppendOnce
<1> HIDE DEF again
<1>7. \/ reads' = Tail(reads) /\ acked' = acked
      \/ reads' = again /\ acked' = acked
      \/ reads' = Tail(reads) /\ acked' = (c = Characteristic \/ acked)
  BY HandleCases DEF Ignored, Taken, Finished, again
<1>8. ToSet(reads') \subseteq ToSet(reads) /\ AtMostOnce(reads', Characteristic)
  BY <1>1, <1>4, <1>5, <1>6, <1>7
<1>9. Linked'
  BY <1>2, <1>3 DEF IInv, Linked
<1>10. Discovery'
  <2>1. ASSUME Ahead' PROVE next' = 1 /\ Characteristic \notin ToSet(reads') /\ ~acked'
    <3>1. Ahead
      BY <1>2, <2>1 DEF Ahead
    <3>2. next = 1 /\ Characteristic \notin ToSet(reads) /\ ~acked
      BY <3>1 DEF IInv, Discovery
    <3>3. c # Characteristic
      BY <1>1, <3>2
    <3>4. ~acked'
      BY <1>7, <3>2, <3>3
    <3>5. next' = 1
      BY <3>2, <3>3
    <3>6. QED
      BY <1>8, <3>2, <3>4, <3>5
  <2>2. QED
    BY <1>2, <2>1 DEF IInv, Discovery
<1>11. OneRead'
  <2>1. \A a \in DOMAIN reads' : reads'[a] \in Readable
    <3>1. \A x \in ToSet(reads) : x \in Readable
      BY DEF IInv, OneRead, ToSet
    <3>2. QED
      BY <1>8, <3>1 DEF ToSet
  <2>2. acked' => Characteristic \notin ToSet(reads')
    BY <1>1, <1>4, <1>7, <1>8 DEF IInv, OneRead
  <2>3. QED
    BY <1>8, <2>1, <2>2 DEF OneRead
<1>12. QED
  BY <1>9, <1>10, <1>11

\* Whatever a read finds while the Pi has its first transfer, only a frame of
\* that transfer is taken.
LEMMA AnswerFirst ==
  ASSUME IInv, reads # <<>>, NEW c, c = Head(reads), Handle(c),
         value' \in [Characteristics -> Seq(Byte) \cup {Nil}], Values'
  PROVE  First'
<1> SUFFICES ASSUME transfer' = 1
             PROVE  /\ Loyal(Reassembled', Transfers[1])
                    /\ \A i \in DOMAIN Reassembled'.received :
                         Reassembled'.received[i] = Transfers[1]
  BY DEF First
<1>1. transfer = 1 /\ PiDatagrams' = PiDatagrams
  BY HandleCases DEF PiDatagrams
<1>2. /\ Loyal(Reassembled, Transfers[1])
      /\ \A i \in DOMAIN Reassembled.received : Reassembled.received[i] = Transfers[1]
  BY <1>1 DEF IInv, First
<1>3. 1 \in DOMAIN Transfers
  BY <1>1 DEF IInv, TypeOK
<1>4. CASE datagrams' = datagrams
  BY <1>2, <1>4 DEF Reassembled
<1>5. CASE Taken(c)
  <2> DEFINE v == value'[c]
             m == Transfers[1]
             d == decode(v)
  <2>1. c \in Characteristics
    BY TailOfSequence DEF IInv, TypeOK
  <2>2. v \in Seq(Byte) /\ Decodable(v) /\ d.key = 0 /\ datagrams' = Append(datagrams, d)
    BY <1>5, <2>1 DEF Taken
  <2>3. PICK i \in 1 .. Len(PiDatagrams) + 1 : v = PiFrame(i)
    <3>1. v # Nil
      BY <1>5 DEF Taken
    <3>2. v # OtherValue
      BY <2>2, PeripheralAssumption
    <3>3. \E i \in 1 .. Len(PiDatagrams)' + 1 : v = PiFrame(i)'
      BY <2>1, <3>1, <3>2 DEF Values
    <3>4. QED
      BY <1>1, <3>3 DEF PiFrame
  <2>4. d \in DatagramView(m, PayloadMaxSize)
    <3>1. d = PiDatagrams[i] /\ i \in 1 .. Len(PiDatagrams)
      BY <1>1, <1>3, <2>2, <2>3, FrameTypes
    <3>2. QED
      BY <1>1, <1>3, <3>1, CurrentFrames
  <2>5. m \in Sendable /\ m.key = 0 /\ m \in Messages
    BY <1>3, TransferSendable
  <2>6. Reassembled' = Step(Reassembled, d)
    BY <2>2, TakenManager
  <2>7. Reassembled.received \in Seq(Messages)
    BY DEF IInv, ManagerOK
  <2> HIDE DEF d, v, m
  <2>8. /\ Loyal(Reassembled', m)
        /\ \/ Reassembled'.received = Append(Reassembled.received, m)
           \/ Reassembled'.received = Reassembled.received
    BY <1>2, <2>4, <2>5, <2>6, LoyalStep DEF IInv, m
  <2>9. ASSUME Reassembled'.received = Append(Reassembled.received, m),
               NEW i1 \in DOMAIN Reassembled'.received
        PROVE  Reassembled'.received[i1] = m
    BY <1>2, <2>5, <2>7, <2>9, AppendedIndices DEF m
  <2>10. QED
    BY <1>2, <2>8, <2>9 DEF m
<1>6. QED
  BY <1>4, <1>5, HandleCases DEF Ignored, Finished

-----------------------------------------------------------------------------
(***************************************************************************)
(* An answer while reads are sound.                                        *)
(***************************************************************************)
\* The Pi's frame, when the handler looks at the answer at all.
LEMMA SoundAnswer ==
  ASSUME IInv, didUpdateValue, ReadsSound', Head(reads) = tempCharacteristic
  PROVE  /\ Head(reads) = Characteristic /\ ~acked /\ ReadsSound /\ Reading /\ Run
         /\ next' = Served
         /\ \/ next \in 1 .. Len(PiDatagrams) /\ Taken(Characteristic)
               /\ decode(value'[Characteristic]) = PiDatagrams[next]
               /\ value'[Characteristic] \in Seq(Byte)
            \/ next = Len(PiDatagrams) + 1 /\ Finished(Characteristic)
<1> DEFINE c == Head(reads)
<1>1. reads # <<>> /\ Handle(c) /\ UNCHANGED <<services, faults>>
  BY DEF didUpdateValue
<1>2. c \in Characteristics /\ c \in ToSet(reads) /\ 1 \in DOMAIN reads /\ c = reads[1]
  BY <1>1, TailOfSequence DEF IInv, TypeOK
<1>3. ReadsSound
  BY <1>1 DEF ReadsSound, Misread
<1>4. c = Characteristic
  <2>1. c \in Readable
    BY <1>2 DEF IInv, OneRead
  <2>2. c # Nil
    BY <1>2, PeripheralAssumption
  <2>3. PICK i \in DOMAIN services : c = Last(services[i])
    BY <2>2 DEF IInv, Discovery
  <2>4. QED
    BY <1>3, <2>1, <2>3 DEF ReadsSound, Misread
<1>5. ~acked /\ Reading
  BY <1>2, <1>4 DEF IInv, OneRead, Reading
<1>6. Run
  BY <1>3, <1>5 DEF IInv, Sound
<1>7. next' = Served
  BY <1>4 DEF didUpdateValue
<1>8. value'[Characteristic] = PiFrame(next)
  <2>1. value' = [value EXCEPT ![c] = IF c = Characteristic THEN PiFrame(next) ELSE OtherValue]
    BY DEF didUpdateValue
  <2>2. value \in [Characteristics -> Seq(Byte) \cup {Nil}]
    BY DEF IInv, TypeOK
  <2> HIDE DEF c
  <2>3. QED
    BY <1>2, <1>4, <2>1, <2>2
<1>9. next \in 1 .. Len(PiDatagrams) + 1 /\ transfer \in DOMAIN Transfers
  BY DEF IInv, TypeOK
<1>10. Taken(Characteristic) \/ Finished(Characteristic)
  BY <1>1, <1>4, <1>8, <1>9, FrameTypes, HandleCases
<1>11. CASE next = Len(PiDatagrams) + 1
  <2>1. ~ Taken(Characteristic)
    BY <1>8, <1>9, <1>11, FrameTypes DEF Taken
  <2>2. QED
    BY <1>3, <1>4, <1>5, <1>6, <1>7, <1>10, <1>11, <2>1
<1>12. CASE next # Len(PiDatagrams) + 1
  <2>1. /\ next \in 1 .. Len(PiDatagrams) /\ value'[Characteristic] \in Seq(Byte)
        /\ decode(value'[Characteristic]) = PiDatagrams[next] /\ PiDatagrams[next].key = 0
    BY <1>8, <1>9, <1>12, FrameTypes
  <2>2. ~ Finished(Characteristic)
    BY <2>1 DEF Finished
  <2>3. QED
    BY <1>3, <1>4, <1>5, <1>6, <1>7, <1>10, <2>1, <2>2
<1>13. QED
  BY <1>11, <1>12

\* The next frame is taken.
LEMMA SoundTaken ==
  ASSUME IInv, ReadsSound, Reading, Run, ~acked, next \in 1 .. Len(PiDatagrams), next' = Served,
         Taken(Characteristic), decode(value'[Characteristic]) = PiDatagrams[next],
         value'[Characteristic] \in Seq(Byte), UNCHANGED <<services, transfer>>
  PROVE  Sound'
<1> DEFINE m == Transfers[transfer]
           E == Len(PiDatagrams)
           d == PiDatagrams[next]
           M == Reassembled
           left == Awaited(M, m) \ Subrange(d)
<1>1. transfer \in DOMAIN Transfers
  BY DEF IInv, TypeOK
<1>2. m \in Sendable /\ m.key = 0 /\ m \in Messages
  BY <1>1, TransferSendable
<1>3. /\ E \in Nat \ {0} /\ d \in DatagramView(m, PayloadMaxSize)
      /\ \A i \in 1 .. E : PiDatagrams[i] \in DatagramView(m, PayloadMaxSize)
      /\ \A i, j \in 1 .. E :
              i # j => Subrange(PiDatagrams[i]) \cap Subrange(PiDatagrams[j]) = {}
      /\ \A x \in 0 .. Len(m.data) - 1 : \E i \in 1 .. E : x \in Subrange(PiDatagrams[i])
  BY <1>1, CurrentFrames
<1>4. PiDatagrams' = PiDatagrams /\ app' = app /\ acked' = acked
  BY DEF PiDatagrams, Taken
<1>5. Reassembled' = Step(M, d) /\ ToSet(datagrams') = ToSet(datagrams) \cup {d}
  BY TakenManager DEF Taken
<1>6. /\ app = "running" /\ Loyal(M, m) /\ ManagerOK(M)
      /\ 0 \in DOMAIN M.builders => Subrange(PiDatagrams[E]) \subseteq Awaited(M, m)
  BY DEF IInv, Sound, Awaited
<1> HIDE DEF m, d, M
<1>7. /\ Loyal(Reassembled', m)
      /\ left = {} => /\ 0 \notin DOMAIN Reassembled'.builders
                      /\ Reassembled'.received = Append(M.received, m)
      /\ left # {} => /\ 0 \in DOMAIN Reassembled'.builders
                      /\ Reassembled'.builders[0].remainingIndices = left
  <2>1. /\ m \in Sendable /\ m.key = 0 /\ d \in DatagramView(m, PayloadMaxSize)
        /\ ManagerOK(M) /\ Loyal(M, m)
    BY <1>2, <1>3, <1>6
  <2> DEFINE after == Step(M, d)
  <2>2. /\ Loyal(after, m)
        /\ left = {} => /\ 0 \notin DOMAIN after.builders
                        /\ after.received = Append(M.received, m)
        /\ left # {} => /\ 0 \in DOMAIN after.builders
                        /\ after.builders[0].remainingIndices = left
    BY <2>1, LoyalStep
  <2>3. Reassembled' = after
    BY <1>5
  <2> HIDE DEF after, left
  <2>4. QED
    BY <2>2, <2>3
<1>8. Subrange(PiDatagrams[E]) # {} /\ Subrange(PiDatagrams[E]) \subseteq 0 .. Len(m.data) - 1
  <2>1. E \in 1 .. E
    BY <1>3
  <2> HIDE DEF E
  <2>2. QED
    BY <1>2, <1>3, <2>1, PieceProperties
<1>9. Subrange(PiDatagrams[E]) \subseteq Awaited(M, m)
  BY <1>6, <1>8 DEF Awaited
<1>10. Awaited(M, m) \subseteq 0 .. Len(m.data) - 1
  BY <1>6 DEF Awaited, Loyal
<1>11. \A i \in 1 .. next - 1 : Awaited(M, m) \cap Subrange(PiDatagrams[i]) = {}
  <2>1. CASE 0 \in DOMAIN M.builders
    BY <2>1 DEF Run, Awaited, M
  <2>2. CASE 0 \notin DOMAIN M.builders
    <3>1. next \notin 2 .. E
      BY <2>2 DEF Run, M
    <3>2. next = 1
      BY <1>3, <3>1
    <3>3. QED
      BY <3>2
  <2>3. QED
    BY <2>1, <2>2
<1>12. next' = next + 1
  BY <1>3 DEF Served
<1>13. CASE next = E
  <2>1. left = {}
    <3> SUFFICES ASSUME NEW x \in left PROVE FALSE
      OBVIOUS
    <3>1. PICK i \in 1 .. E : x \in Subrange(PiDatagrams[i])
      BY <1>3, <1>10
    <3>2. i # next
      BY <3>1 DEF d
    <3>3. i \in 1 .. next - 1
      BY <1>3, <1>13, <3>2
    <3>4. QED
      BY <1>11, <3>1, <3>3
  <2> HIDE DEF left
  <2>2. M.received \in Seq(Messages)
    BY <1>6 DEF ManagerOK
  <2>3. Reassembled'.received # <<>> /\ Last(Reassembled'.received) = m
    BY <1>2, <1>7, <2>1, <2>2, AppendedSequence
  <2>4. 0 \notin DOMAIN Reassembled'.builders
    BY <1>7, <2>1
  <2>5. \A i \in 1 .. next' - 1 : PiDatagrams[i] \in ToSet(datagrams')
    <3> SUFFICES ASSUME NEW i \in 1 .. next' - 1 PROVE PiDatagrams[i] \in ToSet(datagrams')
      OBVIOUS
    <3>1. i \in 1 .. next - 1 \/ i = next
      BY <1>3, <1>12
    <3>2. QED
      BY <1>5, <3>1 DEF Run, d
  <2>6. next' \notin 2 .. E
    BY <1>3, <1>12, <1>13
  <2>7. Run'
    BY <1>4, <2>3, <2>4, <2>5, <2>6 DEF Run, m
  <2>8. QED
    BY <1>4, <1>6, <1>7, <2>4, <2>7 DEF Sound, m
<1>14. CASE next # E
  <2>1. Subrange(PiDatagrams[E]) \subseteq left
    <3>1. E \in 1 .. E
      BY <1>3
    <3>2. Subrange(PiDatagrams[E]) \cap Subrange(d) = {}
      BY <1>3, <1>14, <3>1 DEF d
    <3>3. QED
      BY <1>9, <3>2
  <2>2. left # {}
    BY <1>8, <2>1
  <2>3. /\ 0 \in DOMAIN Reassembled'.builders
        /\ Reassembled'.builders[0].remainingIndices = left
    BY <1>7, <2>2
  <2>4. ASSUME NEW i \in 1 .. next' - 1
        PROVE  PiDatagrams[i] \in ToSet(datagrams') /\ left \cap Subrange(PiDatagrams[i]) = {}
    <3>1. i \in 1 .. next - 1 \/ i = next
      BY <1>3, <1>12
    <3>2. CASE i = next
      BY <1>5, <3>2 DEF d
    <3>3. CASE i \in 1 .. next - 1
      BY <1>5, <1>11, <3>3 DEF Run
    <3>4. QED
      BY <3>1, <3>2, <3>3
  <2>5. next' # E + 1
    BY <1>3, <1>12, <1>14
  <2> HIDE DEF left
  <2>6. Run'
    BY <1>4, <2>3, <2>4, <2>5 DEF Run
  <2>7. QED
    BY <1>4, <1>6, <1>7, <2>1, <2>3, <2>6 DEF Sound, m
<1>15. QED
  BY <1>13, <1>14

\* FYN is taken: the message is there, and printed.
LEMMA SoundFinished ==
  ASSUME IInv, ReadsSound, Reading, Run, next = Len(PiDatagrams) + 1, next' = Served,
         Head(reads) = Characteristic, reads # <<>>,
         Finished(Characteristic), UNCHANGED <<services, transfer>>
  PROVE  Sound'
<1>1. PiDatagrams' = PiDatagrams /\ Reassembled' = Reassembled
  BY DEF PiDatagrams, Reassembled, Finished
<1>2. /\ app = "running" /\ Loyal(Reassembled, Transfers[transfer])
      /\ 0 \notin DOMAIN Reassembled.builders /\ Reassembled.received # <<>>
  BY DEF IInv, Sound, Run
<1>3. app' = "running"
  BY <1>2 DEF Finished, Loyal
<1>4. ~Reading'
  <2>1. reads \in Seq(Characteristics) /\ AtMostOnce(reads, Characteristic) /\ reads' = Tail(reads)
    BY DEF IInv, TypeOK, OneRead, Finished
  <2>2. Characteristic \notin ToSet(Tail(reads))
    BY <2>1, TailOnce
  <2>3. QED
    BY <2>1, <2>2 DEF Reading
<1>5. QED
  BY <1>1, <1>2, <1>3, <1>4 DEF Sound

\* The answer of a characteristic that is not looked at.
LEMMA SoundIgnored ==
  ASSUME IInv, ReadsSound, reads # <<>>, Head(reads) # tempCharacteristic,
         next' = next \/ Head(reads) = Characteristic,
         Ignored, app' = app, UNCHANGED <<services, transfer, tempCharacteristic>>
  PROVE  Sound'
<1>1. PiDatagrams' = PiDatagrams /\ Reassembled' = Reassembled
  BY DEF PiDatagrams, Reassembled, Ignored
<1>2. ASSUME Reading' PROVE Run'
  <2>1. reads \in Seq(Characteristics)
    BY DEF IInv, TypeOK
  <2>2. ToSet(reads') \subseteq ToSet(reads)
    BY <2>1, TailOfSequence DEF Ignored
  <2>3. Reading /\ next' = next
    BY <1>2, <2>2 DEF Reading
  <2>4. Run
    BY <2>3 DEF IInv, Sound
  <2>5. QED
    BY <1>1, <2>3, <2>4 DEF Run, Ignored
<1>3. QED
  BY <1>1, <1>2 DEF IInv, Sound, Ignored

\* An answer keeps the invariant.
LEMMA UpdateStep ==
  ASSUME IInv, didUpdateValue
  PROVE  IInv'
<1> DEFINE c == Head(reads)
<1>1. /\ reads # <<>> /\ Handle(c) /\ UNCHANGED <<services, faults>>
      /\ next' = next \/ (c = Characteristic /\ next' = Served)
  BY DEF didUpdateValue
<1>2. c \in Characteristics /\ transfer \in DOMAIN Transfers
  BY <1>1, TailOfSequence DEF IInv, TypeOK
<1>3. UNCHANGED <<tempCharacteristic, transfer>> /\ PiDatagrams' = PiDatagrams
  BY <1>1, HandleCases DEF PiDatagrams
<1>4. next \in 1 .. Len(PiDatagrams) + 1 /\ PiFrame(next) \in Seq(Byte) /\ OtherValue \in Seq(Byte)
  BY <1>2, FrameTypes, PeripheralAssumption DEF IInv, TypeOK
<1>5. value' = [value EXCEPT ![c] = IF c = Characteristic THEN PiFrame(next) ELSE OtherValue]
  BY DEF didUpdateValue
<1>6. value \in [Characteristics -> Seq(Byte) \cup {Nil}]
  BY DEF IInv, TypeOK
<1> HIDE DEF c
<1>7. /\ value' \in [Characteristics -> Seq(Byte) \cup {Nil}]
      /\ value'[c] = IF c = Characteristic THEN PiFrame(next) ELSE OtherValue
      /\ \A x \in Characteristics : x # c => value'[x] = value[x]
  BY <1>2, <1>4, <1>5, <1>6
<1>8. Values'
  <2> SUFFICES ASSUME NEW x \in Characteristics
               PROVE  \/ value'[x] = Nil
                      \/ x # Characteristic /\ value'[x] = OtherValue
                      \/ x = Characteristic /\ (transfer' = 1 =>
                           \E i \in 1 .. Len(PiDatagrams)' + 1 : value'[x] = PiFrame(i)')
    BY DEF Values
  <2>1. \A i : PiFrame(i)' = PiFrame(i)
    BY <1>3 DEF PiFrame
  <2>2. CASE x = c
    BY <1>3, <1>4, <1>7, <2>1, <2>2
  <2>3. CASE x # c
    BY <1>3, <1>7, <2>1, <2>3 DEF IInv, Values
  <2>4. QED
    BY <2>2, <2>3
<1>9. TypeOK' /\ ManagerOK(Reassembled)'
  <2>1. faults' \in [FaultKinds -> Nat] /\ \A k \in FaultKinds : faults'[k] <= MaxFaults[k]
    BY <1>1 DEF IInv, TypeOK
  <2>2. QED
    BY <1>1, <1>7, <2>1, AnswerTypes DEF c
<1>10. Linked' /\ Discovery' /\ OneRead'
  BY <1>1, AnswerOrder DEF c
<1>11. First'
  BY <1>1, <1>7, <1>8, AnswerFirst DEF c
<1>12. Sound'
  <2> SUFFICES ASSUME ReadsSound' PROVE Sound'
    BY DEF Sound
  <2>1. ReadsSound
    BY <1>1 DEF ReadsSound, Misread
  <2>2. CASE c # tempCharacteristic
    <3>1. Ignored /\ app' = app
      BY <1>1, <2>2, HandleCases
    <3>2. QED
      BY <1>1, <1>3, <2>1, <2>2, <3>1, SoundIgnored DEF c
  <2>3. CASE c = tempCharacteristic
    <3>1. /\ c = Characteristic /\ ~acked /\ Reading /\ Run /\ next' = Served
          /\ \/ next \in 1 .. Len(PiDatagrams) /\ Taken(Characteristic)
                /\ decode(value'[Characteristic]) = PiDatagrams[next]
                /\ value'[Characteristic] \in Seq(Byte)
             \/ next = Len(PiDatagrams) + 1 /\ Finished(Characteristic)
      BY <2>3, SoundAnswer DEF c
    <3>2. QED
      BY <1>1, <1>3, <2>1, <3>1, SoundTaken, SoundFinished DEF c
  <2>4. QED
    BY <2>2, <2>3
<1>13. QED
  BY <1>8, <1>9, <1>10, <1>11, <1>12 DEF IInv

\* So does a read that fails, after which reads are not sound.
LEMMA ErrorStep ==
  ASSUME IInv, didUpdateValueError
  PROVE  IInv' /\ ~ReadsSound'
<1> DEFINE c == Head(reads)
<1>1. /\ reads # <<>> /\ Handle(c) /\ UNCHANGED <<services, value>> /\ Fault("readError")
      /\ next' = next \/ (c = Characteristic /\ next' = Served)
  BY DEF didUpdateValueError
<1>2. /\ faults' \in [FaultKinds -> Nat] /\ \A k \in FaultKinds : faults'[k] <= MaxFaults[k]
      /\ faults'.readError # 0
  BY <1>1, FaultTypes DEF IInv, FaultKinds
<1>3. value' \in [Characteristics -> Seq(Byte) \cup {Nil}]
  BY <1>1 DEF IInv, TypeOK
<1>4. transfer' = transfer /\ PiDatagrams' = PiDatagrams
  BY <1>1, HandleCases DEF PiDatagrams
<1>5. Values'
  BY <1>1, <1>4 DEF IInv, Values, PiFrame
<1>6. TypeOK' /\ ManagerOK(Reassembled)'
  BY <1>1, <1>2, <1>3, AnswerTypes
<1>7. Linked' /\ Discovery' /\ OneRead'
  BY <1>1, AnswerOrder
<1>8. First'
  BY <1>1, <1>3, <1>5, AnswerFirst
<1>9. ~ReadsSound'
  BY <1>2 DEF ReadsSound
<1>10. Sound'
  BY <1>9 DEF Sound
<1>11. QED
  BY <1>5, <1>6, <1>7, <1>8, <1>9, <1>10 DEF IInv

\* Every step keeps the invariant.
LEMMA NextIInv == IInv /\ [Next]_vars => IInv'
<1> SUFFICES ASSUME IInv, [Next]_vars PROVE IInv'
  OBVIOUS
<1>1. CASE UNCHANGED vars
  <2>1. UNCHANGED <<power, scanning, connection, undiscovered, tempCharacteristic, value, reads,
                    datagrams, messages, app, acked, services, transfer, next, faults>>
    BY <1>1 DEF vars, central, gatt, pi, reader
  <2>2. Reassembled' = Reassembled /\ PiDatagrams' = PiDatagrams
    BY <2>1 DEF Reassembled, PiDatagrams
  <2>3. TypeOK' /\ ManagerOK(Reassembled)' /\ Linked' /\ Discovery' /\ OneRead'
    BY <2>1, <2>2 DEF IInv, TypeOK, Linked, Discovery, OneRead, Ahead
  <2>4. Values' /\ First' /\ Sound'
    BY <2>1, <2>2 DEF IInv, Values, PiFrame, First, Sound, ReadsSound, Misread, Reading, Run
  <2>5. QED
    BY <2>3, <2>4 DEF IInv
<1>2. ASSUME NEW state \in {"poweredOff", "poweredOn"}, centralManagerDidUpdateState(state)
      PROVE  IInv'
  <2>1. /\ Disconnected /\ UNCHANGED <<reader, services, transfer, next>>
        /\ scanning' \in BOOLEAN /\ power' \in {"unknown", "poweredOff", "poweredOn"}
        /\ UNCHANGED faults \/ Fault("power")
    BY <1>2 DEF centralManagerDidUpdateState
  <2>2. QED
    BY <2>1, DisconnectedKeeps
<1>3. CASE Disconnect
  <2>1. /\ Disconnected /\ UNCHANGED <<reader, services, transfer, next>>
        /\ scanning' \in BOOLEAN /\ power' \in {"unknown", "poweredOff", "poweredOn"}
        /\ Fault("disconnect")
    BY <1>3 DEF Disconnect, central, IInv, TypeOK
  <2>2. QED
    BY <2>1, DisconnectedKeeps
<1>4. CASE didDiscover \/ didConnect \/ didDiscoverServices
  BY <1>4, ConnectionStep
<1>5. CASE didDiscoverCharacteristics
  BY <1>5, DiscoveryStep
<1>6. CASE didUpdateValue
  BY <1>6, UpdateStep
<1>7. CASE didUpdateValueError
  BY <1>7, ErrorStep
<1>8. CASE PiAcknowledged
  BY <1>8, AcknowledgedStep
<1>9. QED
  BY <1>1, <1>2, <1>3, <1>4, <1>5, <1>6, <1>7, <1>8 DEF Next, Callback

\* IInv is an invariant.
THEOREM Invariance == Spec => []IInv
BY InitIInv, NextIInv, PTL DEF Spec

-----------------------------------------------------------------------------
(***************************************************************************)
(* Every variable keeps its type; no fault happens more often than allowed.*)
(***************************************************************************)
THEOREM TypeCorrect == Spec => []TypeOK
<1>1. IInv => TypeOK
  BY DEF IInv
<1>2. QED
  BY <1>1, Invariance, PTL

(***************************************************************************)
(* While reads are sound, none of fatalError, reconstructed! and try! ends *)
(* the app, whenever connections are lost and Bluetooth goes off.          *)
(***************************************************************************)
THEOREM NeverCrashes == Spec => []NoCrash
<1>1. IInv => NoCrash
  BY DEF IInv, Sound, NoCrash
<1>2. QED
  BY <1>1, Invariance, PTL

\* Only the answer FYN has the app print a message and write the ACK.
LEMMA OnlyFinished ==
  ASSUME IInv, [Next]_vars, messages' # messages \/ (acked' /\ ~acked)
  PROVE  /\ didUpdateValue \/ didUpdateValueError
         /\ Head(reads) = tempCharacteristic /\ Finished(Head(reads))
<1>1. didUpdateValue \/ didUpdateValueError
  BY DEF Next, Callback, vars, central, gatt, pi, reader, centralManagerDidUpdateState,
         Disconnect, Disconnected, didDiscover, didConnect, didDiscoverServices,
         didDiscoverCharacteristics, PiAcknowledged
<1>2. Handle(Head(reads))
  BY <1>1 DEF didUpdateValue, didUpdateValueError
<1>3. Head(reads) = tempCharacteristic /\ Finished(Head(reads))
  BY <1>2, HandleCases DEF Ignored, Taken
<1>4. QED
  BY <1>1, <1>3

\* Sound reads: it is the answer after the last frame of the current transfer.
LEMMA FinishedSound ==
  ASSUME IInv, [Next]_vars, messages' # messages \/ (acked' /\ ~acked), ReadsSound'
  PROVE  Run /\ next = Len(PiDatagrams) + 1
<1>1. didUpdateValue /\ Head(reads) = tempCharacteristic /\ Finished(Head(reads))
  BY OnlyFinished, ErrorStep
<1>2. QED
  BY <1>1, SoundAnswer DEF Finished, Taken

(***************************************************************************)
(* While reads are sound an ACK is written only when every datagram of the *)
(* transfer has been read, whatever interrupted the transfer before.       *)
(***************************************************************************)
THEOREM AckedOnlyAfterAllRead == Spec => AckedAfterAllRead
<1>1. ASSUME IInv, [Next]_vars, acked', ~acked, ReadsSound'
      PROVE  ToSet(PiDatagrams) \subseteq ToSet(datagrams)
  <2>1. Run /\ next = Len(PiDatagrams) + 1
    BY <1>1, FinishedSound
  <2>2. Len(PiDatagrams) \in Nat /\ DOMAIN PiDatagrams = 1 .. Len(PiDatagrams)
    BY <1>1, PiFrames, FramesOfProperties DEF IInv, TypeOK
  <2>3. next - 1 = Len(PiDatagrams)
    BY <2>1, <2>2
  <2>4. \A i \in 1 .. Len(PiDatagrams) : PiDatagrams[i] \in ToSet(datagrams)
    BY <2>1, <2>3 DEF Run
  <2>5. ToSet(PiDatagrams) = { PiDatagrams[i] : i \in DOMAIN PiDatagrams }
    BY DEF ToSet
  <2>6. QED
    BY <2>2, <2>4, <2>5
<1>2. IInv /\ [Next]_vars => [acked' /\ ~acked /\ ReadsSound' =>
                                ToSet(PiDatagrams) \subseteq ToSet(datagrams)]_vars
  BY <1>1
<1>3. QED
  BY <1>2, Invariance, PTL DEF Spec, AckedAfterAllRead

(***************************************************************************)
(* What is printed is the message the Pi is transferring: for the first    *)
(* transfer whatever happens, later while reads are sound.                 *)
(***************************************************************************)
THEOREM PrintedIsCurrent == Spec => PrintsCurrentMessage
<1>1. ASSUME IInv, [Next]_vars, messages' # messages, transfer = 1 \/ ReadsSound'
      PROVE  Last(messages') = Transfers[transfer]
  <2>1. Finished(Head(reads))
    BY <1>1, OnlyFinished
  <2>2. messages' = Append(messages, Last(Reassembled.received)) /\ Reassembled.received # <<>>
    BY <1>1, <2>1 DEF Finished
  <2>3. Reassembled.received \in Seq(Messages) /\ messages \in Seq(Messages)
    BY <1>1 DEF IInv, TypeOK, ManagerOK
  <2>4. Last(Reassembled.received) \in Messages
        /\ Last(Reassembled.received) = Reassembled.received[Len(Reassembled.received)]
        /\ Len(Reassembled.received) \in DOMAIN Reassembled.received
    BY <2>2, <2>3, LastOfSequence
  <2>5. Last(messages') = Last(Reassembled.received)
    BY <2>2, <2>3, <2>4, AppendedSequence
  <2>6. CASE transfer = 1
    BY <1>1, <2>4, <2>5, <2>6 DEF IInv, First
  <2>7. CASE ReadsSound'
    BY <1>1, <2>5, <2>7, FinishedSound DEF Run
  <2>8. QED
    BY <1>1, <2>6, <2>7
<1>2. IInv /\ [Next]_vars => [messages' # messages /\ (transfer = 1 \/ ReadsSound') =>
                                Last(messages') = Transfers[transfer]]_vars
  BY <1>1
<1>3. QED
  BY <1>2, Invariance, PTL DEF Spec, PrintsCurrentMessage
=============================================================================
