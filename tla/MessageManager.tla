--------------------------- MODULE MessageManager ---------------------------
(***************************************************************************)
(* Models/BLE/MessageReceiver.swift: a MessageBuilder collects the         *)
(* datagrams of one message, a MessageManager keeps one builder for each   *)
(* key and calls onMessage when a builder has every byte.  A manager is a  *)
(* value here: its dictionary of builders, the messages it has handed to   *)
(* onMessage, and how the last call of process(datagramData:) ended.       *)
(***************************************************************************)
EXTENDS Datagram

Builders == [remainingIndices : SUBSET Nat, data : Seq(Byte)]

Outcomes == {"none", "invalidDatagram", "incomplete", "complete", "trap"}

ManagerOK(manager) ==
  /\ manager = [builders |-> manager.builders,
                received |-> manager.received,
                outcome  |-> manager.outcome]
  /\ manager.builders \in [DOMAIN manager.builders -> Builders]
  /\ DOMAIN manager.builders \subseteq Byte
  /\ manager.received \in Seq(Messages)
  /\ manager.outcome \in Outcomes

\* Every byte builder b no longer waits for is the byte of message m.
Agrees(b, m) ==
  /\ Len(b.data) = Len(m.data)
  /\ \A i \in DOMAIN m.data : i - 1 \notin b.remainingIndices => b.data[i] = m.data[i]

NewManager == [builders |-> <<>>, received |-> <<>>, outcome |-> "none"]

-----------------------------------------------------------------------------
NewBuilder(messageLength) ==
  [remainingIndices |-> 0 .. messageLength - 1,
   data             |-> [i \in 1 .. messageLength |-> 0]]

Subrange(d) == d.offset .. d.offset + Len(d.payload) - 1

\* Data.replaceSubrange traps when the range ends past the data.
Fits(b, d) == d.offset + Len(d.payload) <= Len(b.data)

\* Data.replaceSubrange: the payload takes the place of as many bytes.
replaceSubrange(data, offset, payload) ==
  SubSeq(data, 1, offset) \o payload
    \o SubSeq(data, offset + Len(payload) + 1, Len(data))

\* Mutant: the payload is written at the front whatever its offset.
insertAtFront(b, d) ==
  [remainingIndices |-> b.remainingIndices \ Subrange(d),
   data             |-> replaceSubrange(b.data, 0, d.payload)]

\* Mutant: the closed range offset ... offset + count is struck off.
insertClosed(b, d) ==
  [remainingIndices |-> b.remainingIndices \ (d.offset .. d.offset + Len(d.payload)),
   data             |-> replaceSubrange(b.data, d.offset, d.payload)]

insert(b, d) ==
  [remainingIndices |-> b.remainingIndices \ Subrange(d),
   data             |-> replaceSubrange(b.data, d.offset, d.payload)]

\* Mutant: every datagram starts a builder of its own.
BuilderForFresh(builders, d) == NewBuilder(d.messageLength)

\* The length is the first datagram's: later ones meet the builder it made.
BuilderFor(builders, d) ==
  IF d.key \in DOMAIN builders THEN builders[d.key] ELSE NewBuilder(d.messageLength)

\* Mutant: onComplete forgets to clear the builder.
WithoutKept(builders, key) == builders

Without(builders, key) == [k \in DOMAIN builders \ {key} |-> builders[k]]

\* A builder that is registered changes in place; a new one is registered.
With(builders, key, b) ==
  IF key \in DOMAIN builders
    THEN [builders EXCEPT ![key] = b]
    ELSE [k \in DOMAIN builders \cup {key} |-> IF k = key THEN b ELSE builders[k]]

-----------------------------------------------------------------------------
\* The builder takes d. When nothing remains it calls onComplete, which drops
\* the builder and hands the message on; a first datagram that leaves indices
\* to come has its builder registered.
Collect(manager, d) ==
  LET b == insert(BuilderFor(manager.builders, d), d)
  IN IF b.remainingIndices = {}
       THEN [builders |-> Without(manager.builders, d.key),
             received |-> Append(manager.received, [key |-> d.key, data |-> b.data]),
             outcome  |-> "complete"]
       ELSE [builders |-> With(manager.builders, d.key, b),
             received |-> manager.received,
             outcome  |-> "incomplete"]

\* MessageManager.process(datagramData:).
process(manager, data) ==
  CASE ~Decodable(data) ->
         [manager EXCEPT !.outcome = "invalidDatagram"]
    [] Decodable(data) /\ Fits(BuilderFor(manager.builders, decode(data)), decode(data)) ->
         Collect(manager, decode(data))
    [] Decodable(data) /\ ~Fits(BuilderFor(manager.builders, decode(data)), decode(data)) ->
         [manager EXCEPT !.outcome = "trap"]
=============================================================================
