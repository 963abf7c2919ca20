--------------------------- MODULE MessageChannel ---------------------------
(***************************************************************************)
(* Messages cut into datagrams (Message.datagrams), encoded, carried by a  *)
(* link that reorders, repeats and damages, and put together again by a    *)
(* MessageManager.  The sender reuses a key only after the message it used *)
(* the key for has been received; the link repeats a datagram only while   *)
(* its message is incomplete.                                              *)
(***************************************************************************)
EXTENDS MessageManager, FiniteSets

CONSTANTS
  Message,          \* the messages that may be sent
  PayloadMaxSize,   \* datagramMaxSize - Header.byteCount
  Noise,            \* frames too short to hold a datagram
  MaxMessages       \* bound on the messages sent in a behaviour

ASSUME MessageAssumption ==
  /\ Message \subseteq Messages
  /\ \A m \in Message : Len(m.data) \in UInt32 \ {0}

ASSUME PayloadAssumption == PayloadMaxSize \in Nat \ {0}

ASSUME NoiseAssumption == Noise \subseteq { f \in Seq(Byte) : ~Decodable(f) }

VARIABLES
  sending,     \* for each key in use, the message it is used for
  link,        \* encoded datagrams on their way
  manager      \* the receiver

vars == <<sending, link, manager>>

Frames(m) == { encoded(d) : d \in DatagramView(m, PayloadMaxSize) }

TypeOK ==
  /\ sending \in [DOMAIN sending -> Message]
  /\ DOMAIN sending \subseteq Byte
  /\ link \subseteq Seq(Byte)
  /\ ManagerOK(manager)

Init ==
  /\ sending = <<>>
  /\ link = {}
  /\ manager = NewManager

-----------------------------------------------------------------------------
\* The sender takes a free key and hands every datagram of m to the link.
Send(m) ==
  /\ Cardinality(DOMAIN sending) + Len(manager.received) < MaxMessages
  /\ m.key \notin DOMAIN sending
  /\ sending' = [k \in DOMAIN sending \cup {m.key} |->
                   IF k = m.key THEN m ELSE sending[k]]
  /\ link' = link \cup Frames(m)
  /\ UNCHANGED manager

\* A datagram arrives. The one that completes its message frees the key.
Deliver(f) ==
  /\ f \in link
  /\ link' = link \ {f}
  /\ manager' = process(manager, f)
  /\ sending' = IF manager'.outcome = "complete"
                  THEN [k \in DOMAIN sending \ {decode(f).key} |-> sending[k]]
                  ELSE sending

\* A datagram that has arrived arrives once more.
Repeat(f) ==
  /\ f \notin link
  /\ manager' = process(manager, f)
  /\ UNCHANGED <<sending, link>>

\* What arrives is too short: process throws and the caller goes on.
ShortFrame(f) ==
  /\ manager' = process(manager, f)
  /\ UNCHANGED <<sending, link>>

Next ==
  \/ \E m \in Message : Send(m)
  \/ \E f \in link : Deliver(f)
  \/ \E k \in DOMAIN sending : \E f \in Frames(sending[k]) : Repeat(f)
  \/ \E f \in Noise : ShortFrame(f)

Spec == Init /\ [][Next]_vars

\* Every datagram on its way arrives in the end.
Fairness ==
  \A f \in UNION { Frames(m) : m \in Message } : WF_vars(Deliver(f))

FairSpec == Spec /\ Fairness

-----------------------------------------------------------------------------
\* The indices of key's message the receiver still waits for.
Missing(key) ==
  IF key \in DOMAIN manager.builders
    THEN manager.builders[key].remainingIndices
    ELSE 0 .. Len(sending[key].data) - 1

(***************************************************************************)
(* A builder is kept only for a key in use, it still waits for something,  *)
(* and the bytes it has are those of the message being sent, whatever the  *)
(* order in which MessageBuilder.insert saw the datagrams and however      *)
(* often.                                                                  *)
(***************************************************************************)
BuildersAgree ==
  \A key \in DOMAIN manager.builders :
    /\ key \in DOMAIN sending
    /\ manager.builders[key].remainingIndices # {}
    /\ Agrees(manager.builders[key], sending[key])

(***************************************************************************)
(* The datagrams still on the link are, for every key in use, exactly what *)
(* the receiver waits for: no index is forgotten by the cut into datagrams *)
(* or struck off before its byte came, so that no message can be stuck.    *)
(***************************************************************************)
NothingLost ==
  \A key \in DOMAIN sending :
    Missing(key) =
      UNION { Subrange(decode(f)) : f \in { g \in link : decode(g).key = key } }

(***************************************************************************)
(* replaceSubrange never traps: no datagram of a message reaches past the  *)
(* data of the builder it meets.                                           *)
(***************************************************************************)
NoTrap == manager.outcome # "trap"

(***************************************************************************)
(* The transfer implements MessageDelivery: each message sent is received  *)
(* exactly once and with its own bytes, and in the end.                    *)
(***************************************************************************)
Delivery ==
  INSTANCE MessageDelivery
    WITH pending  <- { sending[k] : k \in DOMAIN sending },
         received <- manager.received

DeliversOnce == Delivery!Spec

EveryMessageArrives ==
  \A key \in Byte : (key \in DOMAIN sending) ~> (key \notin DOMAIN sending)
=============================================================================
