----------------------- MODULE MessageChannel_proofs -----------------------
(***************************************************************************)
(* MessageChannel keeps its invariants and implements MessageDelivery, for *)
(* every set of messages, payload size, noise and radix.                   *)
(***************************************************************************)
EXTENDS MessageChannel, MessageManager_proofs

\* A frame on the link is a frame of the message its key is used for.
LinkAgrees ==
  /\ \A k \in DOMAIN sending : sending[k].key = k
  /\ \A f \in link : \E k \in DOMAIN sending : f \in Frames(sending[k])

IInv == TypeOK /\ LinkAgrees /\ BuildersAgree /\ NothingLost /\ NoTrap

-----------------------------------------------------------------------------
LEMMA MessagesSendable == Message \subseteq Sendable /\ PayloadMaxSize \in Nat \ {0}
BY MessageAssumption, PayloadAssumption DEF Sendable

\* A frame of a message decodes to the datagram it was made from.
LEMMA FrameProperties ==
  ASSUME NEW m \in Message, NEW f \in Frames(m)
  PROVE  /\ f \in Seq(Byte) /\ Decodable(f) /\ f = encoded(decode(f))
         /\ \E index \in 0 .. EndIndex(m, PayloadMaxSize) - 1 :
              decode(f) = Subscript(m, PayloadMaxSize, index)
         /\ decode(f).key = m.key
<1>1. PICK index \in 0 .. EndIndex(m, PayloadMaxSize) - 1 :
        f = encoded(Subscript(m, PayloadMaxSize, index))
  BY DEF Frames, DatagramView
<1> DEFINE d == Subscript(m, PayloadMaxSize, index)
<1>2. encoded(d) \in Seq(Byte) /\ Decodable(encoded(d)) /\ decode(encoded(d)) = d
  BY MessagesSendable, PieceRoundTrip
<1>3. d.key = m.key
  BY DEF Subscript
<1>4. QED
  BY <1>1, <1>2, <1>3

LEMMA SubrangeOfFrame ==
  ASSUME NEW m \in Message, NEW f \in Frames(m)
  PROVE  /\ Subrange(decode(f)) # {}
         /\ Subrange(decode(f)) \subseteq 0 .. Len(m.data) - 1
<1>1. PICK index \in 0 .. EndIndex(m, PayloadMaxSize) - 1 :
        decode(f) = Subscript(m, PayloadMaxSize, index)
  BY FrameProperties
<1>2. QED
  BY <1>1, MessagesSendable, SubrangeOfPiece

\* Two frames of a message have no index in common.
LEMMA FramesDisjoint ==
  ASSUME NEW m \in Message, NEW f \in Frames(m), NEW g \in Frames(m), f # g
  PROVE  Subrange(decode(f)) \cap Subrange(decode(g)) = {}
<1>1. PICK i \in 0 .. EndIndex(m, PayloadMaxSize) - 1 :
        decode(f) = Subscript(m, PayloadMaxSize, i)
  BY FrameProperties
<1>2. PICK j \in 0 .. EndIndex(m, PayloadMaxSize) - 1 :
        decode(g) = Subscript(m, PayloadMaxSize, j)
  BY FrameProperties
<1>3. i # j
  BY <1>1, <1>2, FrameProperties
<1>4. QED
  BY <1>1, <1>2, <1>3, MessagesSendable, PiecesDisjoint

\* The frames of a message carry every index of its data.
LEMMA FramesCover ==
  ASSUME NEW m \in Message
  PROVE  0 .. Len(m.data) - 1 = UNION { Subrange(decode(f)) : f \in Frames(m) }
<1>1. ASSUME NEW x \in 0 .. Len(m.data) - 1
      PROVE  \E f \in Frames(m) : x \in Subrange(decode(f))
  <2>1. PICK i \in 0 .. EndIndex(m, PayloadMaxSize) - 1 :
          x \in Subrange(Subscript(m, PayloadMaxSize, i))
    BY MessagesSendable, PiecesCover
  <2>2. decode(encoded(Subscript(m, PayloadMaxSize, i))) = Subscript(m, PayloadMaxSize, i)
    BY MessagesSendable, PieceRoundTrip
  <2>3. encoded(Subscript(m, PayloadMaxSize, i)) \in Frames(m)
    BY DEF Frames, DatagramView
  <2>4. QED
    BY <2>1, <2>2, <2>3
<1>2. QED
  BY <1>1, SubrangeOfFrame

-----------------------------------------------------------------------------
\* The frames on the link for a key in use are frames of its message.
LEMMA LinkOfKey ==
  ASSUME TypeOK, LinkAgrees, NEW f \in link
  PROVE  /\ decode(f).key \in DOMAIN sending
         /\ f \in Frames(sending[decode(f).key])
         /\ sending[decode(f).key] \in Message
<1>1. PICK k \in DOMAIN sending : f \in Frames(sending[k])
  BY DEF LinkAgrees
<1>2. sending[k] \in Message /\ sending[k].key = k
  BY DEF TypeOK, LinkAgrees
<1>3. decode(f).key = k
  BY <1>1, <1>2, FrameProperties
<1>4. QED
  BY <1>1, <1>2, <1>3

\* The builder a frame meets, and what process makes of it.
LEMMA ProcessFrame ==
  ASSUME TypeOK, LinkAgrees, BuildersAgree,
         NEW k \in DOMAIN sending, NEW f \in Frames(sending[k])
  PROVE  LET d == decode(f)
             b == insert(BuilderFor(manager.builders, d), d)
         IN /\ d.key = k
            /\ process(manager, f) = Collect(manager, d)
            /\ b \in Builders
            /\ b.remainingIndices = Missing(k) \ Subrange(d)
            /\ Agrees(b, sending[k])
<1> DEFINE m == sending[k]
           a == BuilderFor(manager.builders, decode(f))
<1>1. m \in Message /\ m.key = k /\ m \in Messages /\ m \in Sendable
  BY MessagesSendable DEF TypeOK, LinkAgrees, Sendable
<1> HIDE DEF m
<1>2. PICK d : d = decode(f)
  OBVIOUS
<1>3. PICK index \in 0 .. EndIndex(m, PayloadMaxSize) - 1 :
        d = Subscript(m, PayloadMaxSize, index)
  BY <1>1, <1>2, FrameProperties DEF m
<1>4. Decodable(f) /\ d.key = k /\ d.messageLength = Len(m.data)
  BY <1>1, <1>2, <1>3, FrameProperties DEF m, Subscript
<1>5. a \in Builders /\ a.remainingIndices = Missing(k) /\ Agrees(a, m)
  <2>1. CASE k \in DOMAIN manager.builders
    <3>1. a = manager.builders[k]
      BY <1>2, <1>4, <2>1 DEF BuilderFor
    <3>2. QED
      BY <2>1, <3>1 DEF TypeOK, ManagerOK, BuildersAgree, Missing, m
  <2>2. CASE k \notin DOMAIN manager.builders
    <3>1. a = NewBuilder(Len(m.data)) /\ Len(m.data) \in Nat
      BY <1>1, <1>2, <1>4, <2>2 DEF BuilderFor, Messages
    <3>2. a.remainingIndices = Missing(k)
      BY <2>2, <3>1 DEF NewBuilder, Missing, m
    <3>3. QED
      BY <1>1, <3>1, <3>2, FreshBuilder
  <2>3. QED
    BY <2>1, <2>2
<1> HIDE DEF a
<1>6. /\ Fits(a, d)
      /\ insert(a, d) \in Builders /\ Agrees(insert(a, d), m)
      /\ insert(a, d).remainingIndices = a.remainingIndices \ Subrange(d)
  BY <1>1, <1>3, <1>5, MessagesSendable, PieceInserted
<1>7. process(manager, f) = Collect(manager, d)
  BY <1>2, <1>4, <1>6 DEF process, a
<1>8. QED
  BY <1>2, <1>4, <1>5, <1>6, <1>7 DEF a, m

-----------------------------------------------------------------------------
LEMMA InitIInv == Init => IInv
<1> SUFFICES ASSUME Init PROVE IInv
  OBVIOUS
<1>1. /\ sending = <<>> /\ link = {}
      /\ manager = [builders |-> <<>>, received |-> <<>>, outcome |-> "none"]
  BY DEF Init, NewManager
<1>2. DOMAIN sending = {} /\ DOMAIN manager.builders = {}
  BY <1>1
<1>3. TypeOK
  BY <1>1, <1>2 DEF TypeOK, ManagerOK, Outcomes
<1>4. LinkAgrees /\ BuildersAgree /\ NothingLost /\ NoTrap
  BY <1>1, <1>2 DEF LinkAgrees, BuildersAgree, NothingLost, NoTrap
<1>5. QED
  BY <1>3, <1>4 DEF IInv

LEMMA SendIInv ==
  ASSUME IInv, NEW m \in Message, Send(m)
  PROVE  IInv'
<1> USE DEF IInv
<1>1. m \in Messages /\ m.key \in Byte
  BY MessageAssumption DEF Messages
<1>2. /\ m.key \notin DOMAIN sending
      /\ sending' = [k \in DOMAIN sending \cup {m.key} |->
                       IF k = m.key THEN m ELSE sending[k]]
      /\ link' = link \cup Frames(m)
      /\ manager' = manager
  BY DEF Send
<1>3. /\ DOMAIN sending' = DOMAIN sending \cup {m.key}
      /\ sending'[m.key] = m
      /\ \A k \in DOMAIN sending : k # m.key /\ sending'[k] = sending[k]
  BY <1>2
<1>4. \A f \in Frames(m) : f \in Seq(Byte) /\ decode(f).key = m.key
  BY FrameProperties
<1>5. TypeOK'
  <2>1. sending' \in [DOMAIN sending' -> Message] /\ DOMAIN sending' \subseteq Byte
    BY <1>1, <1>2, <1>3 DEF TypeOK
  <2>2. link' \subseteq Seq(Byte)
    BY <1>2, <1>4 DEF TypeOK
  <2>3. ManagerOK(manager')
    BY <1>2 DEF TypeOK
  <2>4. QED
    BY <2>1, <2>2, <2>3 DEF TypeOK
<1>6. LinkAgrees'
  BY <1>2, <1>3 DEF LinkAgrees
<1>7. BuildersAgree'
  BY <1>2, <1>3 DEF BuildersAgree
<1>8. NothingLost'
  <2> SUFFICES ASSUME NEW k \in DOMAIN sending'
               PROVE  Missing(k)' =
                        UNION { Subrange(decode(f)) : f \in { g \in link' : decode(g).key = k } }
    BY DEF NothingLost
  <2>1. CASE k = m.key
    <3>1. Missing(k)' = 0 .. Len(m.data) - 1
      BY <1>2, <1>3, <2>1 DEF Missing, BuildersAgree
    <3>2. \A f \in link : decode(f).key # k
      BY <1>2, <2>1, LinkOfKey
    <3>3. { g \in link' : decode(g).key = k } = Frames(m)
      BY <1>2, <1>4, <2>1, <3>2
    <3>4. QED
      BY <3>1, <3>3, FramesCover
  <2>2. CASE k # m.key
    <3>1. k \in DOMAIN sending /\ Missing(k)' = Missing(k)
      BY <1>2, <1>3, <2>2 DEF Missing
    <3>2. { g \in link' : decode(g).key = k } = { g \in link : decode(g).key = k }
      BY <1>2, <1>4, <2>2
    <3>3. QED
      BY <3>1, <3>2 DEF NothingLost
  <2>3. QED
    BY <2>1, <2>2
<1>9. NoTrap'
  BY <1>2 DEF NoTrap
<1>10. QED
  BY <1>5, <1>6, <1>7, <1>8, <1>9

LEMMA ShortFrameIInv ==
  ASSUME IInv, NEW f \in Noise, ShortFrame(f)
  PROVE  IInv'
<1> USE DEF IInv
<1>1. manager' = [manager EXCEPT !.outcome = "invalidDatagram"]
  BY NoiseAssumption DEF ShortFrame, process
<1>2. sending' = sending /\ link' = link
  BY DEF ShortFrame
<1>3. /\ manager'.builders = manager.builders
      /\ manager'.received = manager.received
      /\ manager'.outcome = "invalidDatagram"
      /\ ManagerOK(manager')
  BY <1>1 DEF TypeOK, ManagerOK, Outcomes
<1>4. QED
  BY <1>2, <1>3 DEF TypeOK, LinkAgrees, BuildersAgree, NothingLost, NoTrap, Missing

\* What remains of a key's message when a frame of it has been struck off.
LEMMA MissingAfter ==
  ASSUME IInv, NEW k \in DOMAIN sending, NEW f \in Frames(sending[k])
  PROVE  Missing(k) \ Subrange(decode(f)) =
           UNION { Subrange(decode(h)) :
                     h \in { g \in link \ {f} : decode(g).key = k } }
<1> DEFINE S(h) == Subrange(decode(h))
<1>1. sending[k] \in Message
  BY DEF IInv, TypeOK
<1>2. \A g \in link : decode(g).key = k => g \in Frames(sending[k])
  BY LinkOfKey DEF IInv
<1>3. \A g \in link \ {f} : decode(g).key = k => S(g) \cap S(f) = {}
  BY <1>1, <1>2, FramesDisjoint
<1>4. Missing(k) = UNION { S(h) : h \in { g \in link : decode(g).key = k } }
  BY DEF IInv, NothingLost
<1>5. QED
  BY <1>3, <1>4

\* A frame that leaves something missing is collected into k's builder.
LEMMA CollectIncomplete ==
  ASSUME IInv, NEW k \in DOMAIN sending, NEW f \in Frames(sending[k]),
         sending' = sending,
         manager' = process(manager, f),
         Missing(k) \ Subrange(decode(f)) # {}
  PROVE  /\ ManagerOK(manager')
         /\ manager'.received = manager.received
         /\ manager'.outcome = "incomplete"
         /\ BuildersAgree'
         /\ Missing(k)' = Missing(k) \ Subrange(decode(f))
         /\ \A j \in DOMAIN sending \ {k} : Missing(j)' = Missing(j)
<1> USE DEF IInv
<1> DEFINE d == decode(f)
           b == insert(BuilderFor(manager.builders, d), d)
<1>1. /\ d.key = k
      /\ process(manager, f) = Collect(manager, d)
      /\ b \in Builders
      /\ b.remainingIndices = Missing(k) \ Subrange(d)
      /\ Agrees(b, sending[k])
  BY ProcessFrame
<1> DEFINE after == With(manager.builders, k, b)
<1>2. manager' = [builders |-> after, received |-> manager.received,
                  outcome |-> "incomplete"]
  BY <1>1 DEF Collect
<1> HIDE DEF b, d
<1>3. /\ DOMAIN after = DOMAIN manager.builders \cup {k}
      /\ after[k] = b
      /\ \A j \in DOMAIN manager.builders \ {k} : after[j] = manager.builders[j]
      /\ after \in [DOMAIN after -> Builders]
      /\ DOMAIN after \subseteq Byte
  BY <1>1 DEF With, TypeOK, ManagerOK
<1> HIDE DEF after
<1>4. ManagerOK(manager')
  BY <1>2, <1>3 DEF ManagerOK, TypeOK, Outcomes
<1>5. BuildersAgree'
  BY <1>1, <1>2, <1>3 DEF BuildersAgree, Agrees, d
<1>6. /\ Missing(k)' = Missing(k) \ Subrange(d)
      /\ \A j \in DOMAIN sending \ {k} : Missing(j)' = Missing(j)
  BY <1>1, <1>2, <1>3 DEF Missing
<1>7. QED
  BY <1>2, <1>4, <1>5, <1>6 DEF d

\* A frame that leaves nothing missing hands the message on as it was sent.
LEMMA CollectComplete ==
  ASSUME IInv, NEW k \in DOMAIN sending, NEW f \in Frames(sending[k]),
         Missing(k) \ Subrange(decode(f)) = {}
  PROVE  process(manager, f) =
           [builders |-> Without(manager.builders, k),
            received |-> Append(manager.received, sending[k]),
            outcome  |-> "complete"]
<1> DEFINE m == sending[k]
           d == decode(f)
           b == insert(BuilderFor(manager.builders, d), d)
<1>1. /\ d.key = k
      /\ process(manager, f) = Collect(manager, d)
      /\ b \in Builders
      /\ b.remainingIndices = {}
      /\ Agrees(b, m)
  BY ProcessFrame DEF IInv
<1>2. m \in Messages /\ m.key = k
  BY MessageAssumption DEF IInv, TypeOK, LinkAgrees
<1> HIDE DEF b, d, m
<1>4. [key |-> k, data |-> b.data] = m
  BY <1>1, <1>2, NothingRemains
<1>5. Collect(manager, d) = [builders |-> Without(manager.builders, k),
                             received |-> Append(manager.received, m),
                             outcome  |-> "complete"]
  BY <1>1, <1>4 DEF Collect, b, d
<1>6. QED
  BY <1>1, <1>5 DEF m

LEMMA DeliverIncompleteIInv ==
  ASSUME IInv, NEW k \in DOMAIN sending, NEW f \in Frames(sending[k]),
         Deliver(f), Missing(k) \ Subrange(decode(f)) # {}
  PROVE  IInv'
<1> USE DEF IInv
<1>1. link' = link \ {f} /\ manager' = process(manager, f)
  BY DEF Deliver
<1>2. process(manager, f).outcome = "incomplete"
  <2> DEFINE d == decode(f)
             b == insert(BuilderFor(manager.builders, d), d)
  <2>1. process(manager, f) = Collect(manager, d) /\ b.remainingIndices # {}
    BY ProcessFrame
  <2> HIDE DEF d
  <2>2. QED
    BY <2>1 DEF Collect
<1>3. sending' = sending
  BY <1>1, <1>2 DEF Deliver
<1>4. /\ ManagerOK(manager')
      /\ manager'.outcome = "incomplete"
      /\ BuildersAgree'
      /\ Missing(k)' = Missing(k) \ Subrange(decode(f))
      /\ \A j \in DOMAIN sending \ {k} : Missing(j)' = Missing(j)
  BY <1>1, <1>3, CollectIncomplete
<1>5. TypeOK' /\ LinkAgrees' /\ NoTrap'
  BY <1>1, <1>3, <1>4 DEF TypeOK, LinkAgrees, NoTrap
<1>6. decode(f).key = k
  BY ProcessFrame
<1>7. NothingLost'
  <2> SUFFICES ASSUME NEW j \in DOMAIN sending
               PROVE  Missing(j)' =
                        UNION { Subrange(decode(h)) : h \in { g \in link' : decode(g).key = j } }
    BY <1>3 DEF NothingLost
  <2>1. CASE j = k
    BY <1>1, <1>4, <2>1, MissingAfter
  <2>2. CASE j # k
    <3>1. { g \in link' : decode(g).key = j } = { g \in link : decode(g).key = j }
      BY <1>1, <1>6, <2>2
    <3>2. QED
      BY <1>4, <2>2, <3>1 DEF NothingLost
  <2>3. QED
    BY <2>1, <2>2
<1>8. QED
  BY <1>4, <1>5, <1>7

LEMMA DeliverCompleteIInv ==
  ASSUME IInv, NEW k \in DOMAIN sending, NEW f \in Frames(sending[k]),
         Deliver(f), Missing(k) \ Subrange(decode(f)) = {}
  PROVE  IInv'
<1> USE DEF IInv
<1> DEFINE after == Without(manager.builders, k)
<1>1. decode(f).key = k /\ sending[k] \in Message /\ sending[k] \in Messages
  BY ProcessFrame, MessageAssumption DEF TypeOK
<1>2. /\ link' = link \ {f}
      /\ manager' = [builders |-> after,
                     received |-> Append(manager.received, sending[k]),
                     outcome  |-> "complete"]
  BY CollectComplete DEF Deliver
<1>3. sending' = [j \in DOMAIN sending \ {k} |-> sending[j]]
  BY <1>1, <1>2 DEF Deliver
<1>4. /\ DOMAIN sending' = DOMAIN sending \ {k}
      /\ \A j \in DOMAIN sending' : j # k /\ sending'[j] = sending[j]
  BY <1>3
<1>5. /\ DOMAIN after = DOMAIN manager.builders \ {k}
      /\ \A j \in DOMAIN after : after[j] = manager.builders[j]
      /\ after \in [DOMAIN after -> Builders]
  BY DEF Without, TypeOK, ManagerOK
<1> HIDE DEF after
<1>6. \A g \in link' : decode(g).key # k
  <2> SUFFICES ASSUME NEW g \in link', decode(g).key = k PROVE FALSE
    OBVIOUS
  <2>1. g \in link \ {f} /\ g \in Frames(sending[k])
    BY <1>2, LinkOfKey
  <2>2. Subrange(decode(g)) \subseteq Missing(k) \ Subrange(decode(f))
    BY <2>1, MissingAfter
  <2>3. QED
    BY <1>1, <2>1, <2>2, SubrangeOfFrame
<1>7. TypeOK'
  <2>1. sending' \in [DOMAIN sending' -> Message] /\ DOMAIN sending' \subseteq Byte
    BY <1>3, <1>4 DEF TypeOK
  <2>2. link' \subseteq Seq(Byte)
    BY <1>2 DEF TypeOK
  <2>3. Append(manager.received, sending[k]) \in Seq(Messages)
    BY <1>1 DEF TypeOK, ManagerOK
  <2>4. ManagerOK(manager')
    BY <1>2, <1>5, <2>3 DEF ManagerOK, TypeOK, Outcomes
  <2>5. QED
    BY <2>1, <2>2, <2>4 DEF TypeOK
<1>8. LinkAgrees'
  <2>1. \A g \in link' : decode(g).key \in DOMAIN sending' /\ g \in Frames(sending'[decode(g).key])
    BY <1>2, <1>4, <1>6, LinkOfKey
  <2>2. \A j \in DOMAIN sending' : sending'[j].key = j
    BY <1>4 DEF LinkAgrees
  <2>3. QED
    BY <2>1, <2>2 DEF LinkAgrees
<1>9. BuildersAgree'
  BY <1>2, <1>4, <1>5 DEF BuildersAgree
<1>10. NothingLost'
  <2> SUFFICES ASSUME NEW j \in DOMAIN sending'
               PROVE  Missing(j)' =
                        UNION { Subrange(decode(h)) : h \in { g \in link' : decode(g).key = j } }
    BY DEF NothingLost
  <2>1. j \in DOMAIN sending /\ j # k /\ Missing(j)' = Missing(j)
    BY <1>2, <1>4, <1>5 DEF Missing
  <2>2. { g \in link' : decode(g).key = j } = { g \in link : decode(g).key = j }
    BY <1>1, <1>2, <2>1
  <2>3. QED
    BY <2>1, <2>2 DEF NothingLost
<1>11. NoTrap'
  BY <1>2 DEF NoTrap
<1>12. QED
  BY <1>7, <1>8, <1>9, <1>10, <1>11

LEMMA RepeatIncomplete ==
  ASSUME IInv, NEW k \in DOMAIN sending, NEW f \in Frames(sending[k]), f \notin link
  PROVE  Missing(k) \ Subrange(decode(f)) = Missing(k) /\ Missing(k) # {}
<1> USE DEF IInv
<1>1. sending[k] \in Message
  BY DEF TypeOK
<1>2. link \ {f} = link
  OBVIOUS
<1>3. Missing(k) \ Subrange(decode(f)) = Missing(k)
  BY <1>2, MissingAfter DEF NothingLost
<1>4. k \in DOMAIN manager.builders
  <2> SUFFICES ASSUME k \notin DOMAIN manager.builders PROVE FALSE
    OBVIOUS
  <2>1. Subrange(decode(f)) \subseteq Missing(k) /\ Subrange(decode(f)) # {}
    BY <1>1, SubrangeOfFrame DEF Missing
  <2>2. QED
    BY <1>3, <2>1
<1>5. QED
  BY <1>3, <1>4 DEF Missing, BuildersAgree

LEMMA RepeatIInv ==
  ASSUME IInv, NEW k \in DOMAIN sending, NEW f \in Frames(sending[k]), Repeat(f)
  PROVE  IInv'
<1> USE DEF IInv
<1>1. /\ f \notin link /\ manager' = process(manager, f)
      /\ sending' = sending /\ link' = link
  BY DEF Repeat
<1>2. Missing(k) \ Subrange(decode(f)) = Missing(k) /\ Missing(k) # {}
  BY <1>1, RepeatIncomplete
<1>3. /\ ManagerOK(manager')
      /\ manager'.outcome = "incomplete"
      /\ BuildersAgree'
      /\ Missing(k)' = Missing(k) \ Subrange(decode(f))
      /\ \A j \in DOMAIN sending \ {k} : Missing(j)' = Missing(j)
  BY <1>1, <1>2, CollectIncomplete
<1>4. TypeOK' /\ LinkAgrees' /\ NoTrap'
  BY <1>1, <1>3 DEF TypeOK, LinkAgrees, NoTrap
<1>5. NothingLost'
  BY <1>1, <1>2, <1>3 DEF NothingLost
<1>6. QED
  BY <1>3, <1>4, <1>5

-----------------------------------------------------------------------------
LEMMA StepIInv == IInv /\ [Next]_vars => IInv'
<1> SUFFICES ASSUME IInv, [Next]_vars PROVE IInv'
  OBVIOUS
<1>1. ASSUME NEW m \in Message, Send(m) PROVE IInv'
  BY <1>1, SendIInv
<1>2. ASSUME NEW f \in link, Deliver(f) PROVE IInv'
  <2>1. PICK k \in DOMAIN sending : f \in Frames(sending[k])
    BY DEF IInv, LinkAgrees
  <2>2. CASE Missing(k) \ Subrange(decode(f)) = {}
    BY <1>2, <2>1, <2>2, DeliverCompleteIInv
  <2>3. CASE Missing(k) \ Subrange(decode(f)) # {}
    BY <1>2, <2>1, <2>3, DeliverIncompleteIInv
  <2>4. QED
    BY <2>2, <2>3
<1>3. ASSUME NEW k \in DOMAIN sending, NEW f \in Frames(sending[k]), Repeat(f)
      PROVE  IInv'
  BY <1>3, RepeatIInv
<1>4. ASSUME NEW f \in Noise, ShortFrame(f) PROVE IInv'
  BY <1>4, ShortFrameIInv
<1>5. CASE UNCHANGED vars
  BY <1>5 DEF vars, IInv, TypeOK, LinkAgrees, BuildersAgree, NothingLost, NoTrap, Missing
<1>6. QED
  BY <1>1, <1>2, <1>3, <1>4, <1>5 DEF Next

LEMMA Invariance == Spec => []IInv
<1>1. QED
  BY InitIInv, StepIInv, PTL DEF Spec

(***************************************************************************)
(* The receiver, the link and the sender keep their types.                 *)
(***************************************************************************)
THEOREM TypeCorrect == Spec => []TypeOK
<1>1. IInv => TypeOK
  BY DEF IInv
<1>2. QED
  BY <1>1, Invariance, PTL

(***************************************************************************)
(* What MessageBuilder has collected always agrees with what is being      *)
(* sent, whatever the order and repetitions of the datagrams.              *)
(***************************************************************************)
THEOREM BuildersCorrect == Spec => []BuildersAgree
<1>1. IInv => BuildersAgree
  BY DEF IInv
<1>2. QED
  BY <1>1, Invariance, PTL

(***************************************************************************)
(* What MessageBuilder waits for is exactly what is still to arrive.       *)
(***************************************************************************)
THEOREM NothingIsLost == Spec => []NothingLost
<1>1. IInv => NothingLost
  BY DEF IInv
<1>2. QED
  BY <1>1, Invariance, PTL

(***************************************************************************)
(* Data.replaceSubrange is never called with a range past the data.        *)
(***************************************************************************)
THEOREM NeverTraps == Spec => []NoTrap
<1>1. IInv => NoTrap
  BY DEF IInv
<1>2. QED
  BY <1>1, Invariance, PTL

-----------------------------------------------------------------------------
Pending == { sending[k] : k \in DOMAIN sending }

LEMMA SendSubmits ==
  ASSUME IInv, NEW m \in Message, Send(m)
  PROVE  Delivery!Submit(m)
<1>1. /\ m.key \notin DOMAIN sending
      /\ sending' = [k \in DOMAIN sending \cup {m.key} |->
                       IF k = m.key THEN m ELSE sending[k]]
      /\ manager' = manager
  BY DEF Send
<1>2. \A k \in DOMAIN sending : sending[k].key = k
  BY DEF IInv, LinkAgrees
<1>3. \A n \in Pending : n.key # m.key
  BY <1>1, <1>2 DEF Pending
<1>4. Pending' = Pending \cup {m}
  <2>1. DOMAIN sending' = DOMAIN sending \cup {m.key}
    BY <1>1
  <2>2. sending'[m.key] = m /\ \A k \in DOMAIN sending : sending'[k] = sending[k]
    BY <1>1
  <2>3. QED
    BY <2>1, <2>2 DEF Pending
<1>5. QED
  BY <1>1, <1>3, <1>4 DEF Delivery!Submit, Pending

LEMMA DeliverReceives ==
  ASSUME IInv, NEW k \in DOMAIN sending, NEW f \in Frames(sending[k]), Deliver(f)
  PROVE  \/ Delivery!Receive(sending[k])
         \/ Pending' = Pending /\ manager'.received = manager.received
<1>1. manager' = process(manager, f)
  BY DEF Deliver
<1>2. CASE Missing(k) \ Subrange(decode(f)) = {}
  <2>1. decode(f).key = k /\ \A j \in DOMAIN sending : sending[j].key = j
    BY ProcessFrame DEF IInv, LinkAgrees
  <2>2. /\ manager'.outcome = "complete"
        /\ manager'.received = Append(manager.received, sending[k])
    BY <1>1, <1>2, CollectComplete
  <2>3. sending' = [j \in DOMAIN sending \ {k} |-> sending[j]]
    BY <2>1, <2>2 DEF Deliver
  <2>4. /\ DOMAIN sending' = DOMAIN sending \ {k}
        /\ \A j \in DOMAIN sending' : sending'[j] = sending[j]
    BY <2>3
  <2>5. Pending' = Pending \ {sending[k]}
    BY <2>1, <2>4 DEF Pending
  <2>6. sending[k] \in Pending
    BY DEF Pending
  <2>7. QED
    BY <2>2, <2>5, <2>6 DEF Delivery!Receive, Pending
<1>3. CASE Missing(k) \ Subrange(decode(f)) # {}
  <2>1. manager'.outcome = "incomplete" /\ manager'.received = manager.received
    <3> DEFINE d == decode(f)
               b == insert(BuilderFor(manager.builders, d), d)
    <3>1. process(manager, f) = Collect(manager, d) /\ b.remainingIndices # {}
      BY <1>3, ProcessFrame DEF IInv
    <3> HIDE DEF d
    <3>2. QED
      BY <1>1, <3>1 DEF Collect
  <2>2. sending' = sending
    BY <2>1 DEF Deliver
  <2>3. QED
    BY <2>1, <2>2 DEF Pending
<1>4. QED
  BY <1>2, <1>3

(***************************************************************************)
(* Every step of the channel is a step of the abstract delivery or leaves  *)
(* it alone: messages are received once each, with their own bytes.        *)
(***************************************************************************)
THEOREM Refinement == Spec => DeliversOnce
<1>1. Init => Delivery!Init
  BY DEF Init, Delivery!Init, NewManager
<1>2. IInv /\ [Next]_vars => [Delivery!Next]_Delivery!vars
  <2> SUFFICES ASSUME IInv, [Next]_vars PROVE [Delivery!Next]_Delivery!vars
    OBVIOUS
  <2>1. ASSUME NEW m \in Message, Send(m) PROVE Delivery!Next
    BY <2>1, SendSubmits DEF Delivery!Next
  <2>2. ASSUME NEW f \in link, Deliver(f) PROVE [Delivery!Next]_Delivery!vars
    <3>1. PICK k \in DOMAIN sending : f \in Frames(sending[k])
      BY DEF IInv, LinkAgrees
    <3>2. sending[k] \in Message
      BY <3>1 DEF IInv, TypeOK
    <3>3. QED
      <4>1. CASE Delivery!Receive(sending[k])
        <5>1. \E n \in Message : Delivery!Submit(n) \/ Delivery!Receive(n)
          BY <3>2, <4>1 DEF Delivery!Receive
        <5>2. QED
          BY <5>1 DEF Delivery!Next
      <4>2. CASE Pending' = Pending /\ manager'.received = manager.received
        BY <4>2 DEF Delivery!vars, Pending
      <4>3. QED
        BY <2>2, <3>1, <4>1, <4>2, DeliverReceives
  <2>3. ASSUME NEW k \in DOMAIN sending, NEW f \in Frames(sending[k]), Repeat(f)
        PROVE  UNCHANGED Delivery!vars
    <3>1. manager' = process(manager, f) /\ sending' = sending /\ f \notin link
      BY <2>3 DEF Repeat
    <3>2. manager'.received = manager.received
      BY <3>1, RepeatIncomplete, CollectIncomplete
    <3>3. QED
      BY <3>1, <3>2 DEF Delivery!vars
  <2>4. ASSUME NEW f \in Noise, ShortFrame(f) PROVE UNCHANGED Delivery!vars
    <3>1. manager' = [manager EXCEPT !.outcome = "invalidDatagram"] /\ sending' = sending
      BY <2>4, NoiseAssumption DEF ShortFrame, process
    <3>2. manager'.received = manager.received
      BY <3>1 DEF IInv, TypeOK, ManagerOK
    <3>3. QED
      BY <3>1, <3>2 DEF Delivery!vars
  <2>5. CASE UNCHANGED vars
    BY <2>5 DEF vars, Delivery!vars
  <2>6. QED
    BY <2>1, <2>2, <2>3, <2>4, <2>5 DEF Next
<1>3. QED
  BY <1>1, <1>2, Invariance, PTL DEF Spec, DeliversOnce, Delivery!Spec
=============================================================================
