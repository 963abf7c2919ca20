------------------------- MODULE PeripheralTransfer -------------------------
(***************************************************************************)
(* Controllers/PeripheralViewController.swift: the app finds the Raspberry *)
(* Pi, reads datagrams from it until one whose key is not 0 (FYN), writes  *)
(* an ACK and puts the message together.  Each action below is one         *)
(* CoreBluetooth callback, all of them on the main queue; the Pi and       *)
(* CoreBluetooth are the environment.  The Pi answers each read with the   *)
(* next frame of its current transfer, begins the transfer anew with every *)
(* connection, and goes on to the next one when it gets an ACK.            *)
(***************************************************************************)
EXTENDS MessageManager, SequencesExt

CONSTANTS
  Transfers,        \* the messages the Pi has to transfer, in order
  PayloadMaxSize,
  Fyn,              \* the frame that follows the last datagram
  Peripherals,      \* what the Pi may offer: services, each a sequence of characteristics
  Readable,         \* the characteristics with the property .read
  Characteristic,   \* the one datagrams are read from
  OtherValue,       \* what a read of any other one answers
  MaxFaults,        \* for each kind of fault, how often it happens at most
  Nil

FaultKinds == {"power", "disconnect", "readError"}

ASSUME TransferAssumption ==
  /\ MaxFaults \in [FaultKinds -> Nat]
  /\ Transfers \in Seq(Messages) \ {<<>>}
  /\ \A i \in DOMAIN Transfers :
       Transfers[i].key = 0 /\ Len(Transfers[i].data) \in UInt32 \ {0}
  /\ Fyn \in Seq(Byte) /\ Decodable(Fyn) /\ decode(Fyn).key # 0
  /\ PayloadMaxSize \in Nat \ {0}

Characteristics == UNION { UNION { ToSet(offer[i]) : i \in DOMAIN offer } : offer \in Peripherals }

\* A service has characteristics, and each of them its own UUID.  The others
\* hold text, which is no datagram of a message.
ASSUME PeripheralAssumption ==
  /\ Peripherals \subseteq Seq(Seq(Characteristics) \ {<<>>})
  /\ \A offer \in Peripherals : \A i, j \in DOMAIN offer :
       \A a \in DOMAIN offer[i], b \in DOMAIN offer[j] :
         offer[i][a] = offer[j][b] => i = j /\ a = b
  /\ OtherValue \in Seq(Byte) /\ (Decodable(OtherValue) => decode(OtherValue).key # 0)
  /\ Nil \notin Characteristics \cup Seq(Byte)

VARIABLES
  power,                \* CBCentralManager.state
  scanning,             \* a scan for the Pi's service is on
  connection,           \* how far the connection to the Pi has come
  undiscovered,         \* services whose characteristics have been asked for
  tempCharacteristic,
  value,                \* CBCharacteristic.value, Nil before the first read
  reads,                \* reads not answered yet, in order
  datagrams,            \* the datagrams read so far
  messages,             \* the messages printed, in order
  app,                  \* "running", or "crashed" by fatalError, ! or try!
  acked,                \* an ACK is on its way to the Pi
  services,             \* Pi: its services
  transfer,             \* Pi: index of the current transfer
  next,                 \* Pi: index of the frame the next read gets
  faults                \* for each kind, how often it has happened

central == <<power, scanning>>
gatt == <<connection, undiscovered, reads>>
pi == <<services, acked, transfer, next>>
reader == <<tempCharacteristic, value, datagrams, messages, app>>
vars == <<central, gatt, pi, reader, faults>>

\* The frames of the current transfer, in the order the Pi sends them.
PiDatagrams ==
  LET m == Transfers[transfer]
  IN [i \in 1 .. EndIndex(m, PayloadMaxSize) |-> Subscript(m, PayloadMaxSize, i - 1)]

\* What the app keeps: all message datagrams have key 0.
MessageDatagrams ==
  [key : {0}, offset : UInt32, messageLength : UInt32, payload : Seq(Byte)]

PiFrame(i) == IF i > Len(PiDatagrams) THEN Fyn ELSE encoded(PiDatagrams[i])

TypeOK ==
  /\ power \in {"unknown", "poweredOff", "poweredOn"}
  /\ scanning \in BOOLEAN
  /\ connection \in {"none", "connecting", "connected", "discovered"}
  /\ undiscovered \in Seq(Seq(Characteristics))
  /\ tempCharacteristic \in Characteristics \cup {Nil}
  /\ value \in [Characteristics -> Seq(Byte) \cup {Nil}]
  /\ reads \in Seq(Characteristics)
  /\ datagrams \in Seq(MessageDatagrams)
  /\ messages \in Seq(Messages)
  /\ app \in {"running", "crashed"}
  /\ acked \in BOOLEAN
  /\ services \in Peripherals
  /\ transfer \in DOMAIN Transfers
  /\ next \in 1 .. Len(PiDatagrams) + 1
  /\ faults \in [FaultKinds -> Nat]
  /\ \A kind \in FaultKinds : faults[kind] <= MaxFaults[kind]

Init ==
  /\ power = "unknown" /\ scanning = FALSE
  /\ connection = "none" /\ undiscovered = <<>> /\ reads = <<>>
  /\ tempCharacteristic = Nil /\ value = [c \in Characteristics |-> Nil]
  /\ datagrams = <<>> /\ messages = <<>> /\ app = "running"
  /\ acked = FALSE /\ services \in Peripherals /\ transfer = 1 /\ next = 1
  /\ faults = [kind \in FaultKinds |-> 0]

Fault(kind) == faults[kind] < MaxFaults[kind] /\ faults' = [faults EXCEPT ![kind] = @ + 1]

\* What is under way on a connection ends with it.
Disconnected ==
  /\ connection' = "none" /\ undiscovered' = <<>> /\ reads' = <<>>
  /\ acked' = FALSE

-----------------------------------------------------------------------------
\* centralManagerDidUpdateState: only .poweredOn makes the handler act.
centralManagerDidUpdateState(state) ==
  /\ app = "running" /\ state # power
  /\ power' = state
  /\ scanning' = (state = "poweredOn")
  /\ Disconnected
  /\ IF power = "poweredOn" THEN Fault("power") ELSE UNCHANGED faults
  /\ UNCHANGED <<reader, services, transfer, next>>

\* The Pi goes out of range: the app implements no callback for it.
Disconnect ==
  /\ Fault("disconnect")
  /\ connection # "none"
  /\ Disconnected
  /\ UNCHANGED <<central, reader, services, transfer, next>>

didDiscover ==
  /\ app = "running" /\ scanning
  /\ scanning' = FALSE
  /\ connection' = "connecting"
  /\ UNCHANGED <<power, undiscovered, reads, pi, reader, faults>>

didConnect ==
  /\ app = "running" /\ connection = "connecting"
  /\ connection' = "connected"
  /\ next' = 1
  /\ UNCHANGED <<central, undiscovered, reads, services, acked, transfer, reader, faults>>

didDiscoverServices ==
  /\ app = "running" /\ connection = "connected"
  /\ connection' = "discovered"
  /\ undiscovered' = services
  /\ UNCHANGED <<central, reads, pi, reader, faults>>

\* The characteristics readValue(for:) is called for, in order.
ReadableOf(characteristics) ==
  LET upto[i \in 0 .. Len(characteristics)] ==
        IF i = 0 THEN <<>>
        ELSE IF characteristics[i] \in Readable THEN Append(upto[i - 1], characteristics[i])
        ELSE upto[i - 1]
  IN upto[Len(characteristics)]

\* Every characteristic in turn becomes tempCharacteristic; the readable ones
\* are read.
didDiscoverCharacteristics ==
  /\ app = "running" /\ undiscovered # <<>>
  /\ LET characteristics == Head(undiscovered)
     IN /\ tempCharacteristic' = Last(characteristics)
        /\ value' = [c \in Characteristics |->
                       IF c \in ToSet(characteristics) THEN Nil ELSE value[c]]
        /\ reads' = reads \o ReadableOf(characteristics)
  /\ undiscovered' = Tail(undiscovered)
  /\ UNCHANGED <<central, connection, pi, datagrams, messages, app, faults>>

-----------------------------------------------------------------------------
Step(manager, d) ==
  IF manager.outcome = "trap" THEN manager ELSE process(manager, encoded(d))

\* A new MessageManager fed these datagrams; a trap ends the app.
\* (The bound manager has TLC evaluate the one before it only once.)
ManagerAfter(fed) ==
  LET after[i \in 0 .. Len(fed)] ==
        IF i = 0 THEN NewManager
        ELSE CHOOSE result \in { Step(manager, fed[i]) : manager \in {after[i - 1]} } : TRUE
  IN after[Len(fed)]

\* Mutant: the last datagram is left out.
ReassembledShort == ManagerAfter(IF datagrams = <<>> THEN <<>> ELSE Front(datagrams))

Reassembled == ManagerAfter(datagrams)

\* Mutant: the first message put together is kept.
ReconstructedFirst(received) == Head(received)

\* Each call of onMessage overwrites reconstructed.
Reconstructed(received) == Last(received)

\* The ACK is written first, then reconstructed! is unwrapped.
Acknowledge(c) ==
  /\ acked' = (c = Characteristic \/ acked)
  /\ UNCHANGED datagrams
  /\ \E manager \in {Reassembled} :
       IF manager.outcome = "trap" \/ manager.received = <<>>
         THEN app' = "crashed" /\ UNCHANGED messages
         ELSE /\ messages' = Append(messages, Reconstructed(manager.received))
              /\ UNCHANGED app

\* Mutant: FYN is collected like any other datagram.
InMessageAlways(d) == TRUE

InMessage(d) == d.key = 0

\* Mutant: the datagram replaces those read before.
CollectedLatest(charVal) == <<decode(charVal)>>

Collected(charVal) == Append(datagrams, decode(charVal))

\* Mutant: the next read is forgotten.
ReadAgainNever(rest, c) == rest

ReadAgain(rest, c) == Append(rest, c)

\* processDatagrams(characteristic, peripheral), called for the first read.
processDatagrams(c) ==
  LET charVal == value'[c]
      rest    == Tail(reads)
  IN \/ /\ charVal = Nil
        /\ app' = "crashed" /\ reads' = rest
        /\ UNCHANGED <<datagrams, messages, acked>>
     \/ /\ charVal # Nil /\ ~Decodable(charVal)
        /\ reads' = rest
        /\ UNCHANGED <<datagrams, messages, app, acked>>
     \/ /\ charVal # Nil /\ Decodable(charVal) /\ InMessage(decode(charVal))
        /\ datagrams' = Collected(charVal)
        /\ reads' = ReadAgain(rest, c)
        /\ UNCHANGED <<messages, app, acked>>
     \/ /\ charVal # Nil /\ Decodable(charVal) /\ ~InMessage(decode(charVal))
        /\ reads' = rest
        /\ Acknowledge(c)

Handle(c) ==
  /\ IF c = tempCharacteristic
       THEN processDatagrams(c)
       ELSE reads' = Tail(reads) /\ UNCHANGED <<datagrams, messages, app, acked>>
  /\ UNCHANGED <<central, connection, undiscovered, tempCharacteristic, transfer>>

Served == IF next > Len(PiDatagrams) THEN next ELSE next + 1

\* didUpdateValueFor, the read having been answered.
didUpdateValue ==
  /\ app = "running" /\ reads # <<>>
  /\ LET c == Head(reads)
     IN /\ value' = [value EXCEPT ![c] =
                       IF c = Characteristic THEN PiFrame(next) ELSE OtherValue]
        /\ next' = IF c = Characteristic THEN Served ELSE next
        /\ Handle(c)
  /\ UNCHANGED <<services, faults>>

\* didUpdateValueFor with an error, which it ignores: the value is the one of
\* the last read. The Pi may have taken the frame for read.
didUpdateValueError ==
  /\ app = "running" /\ reads # <<>>
  /\ Fault("readError")
  /\ next' \in IF Head(reads) = Characteristic THEN {next, Served} ELSE {next}
  /\ UNCHANGED <<value, services>>
  /\ Handle(Head(reads))

\* The Pi gets the ACK and turns to its next transfer.
PiAcknowledged ==
  /\ acked /\ acked' = FALSE
  /\ IF transfer < Len(Transfers)
       THEN transfer' = transfer + 1 /\ next' = 1
       ELSE UNCHANGED <<transfer, next>>
  /\ UNCHANGED <<central, gatt, reader, services, faults>>

Callback ==
  \/ didDiscover \/ didConnect \/ didDiscoverServices
  \/ didDiscoverCharacteristics \/ didUpdateValue

Next ==
  \/ \E state \in {"poweredOff", "poweredOn"} : centralManagerDidUpdateState(state)
  \/ Disconnect
  \/ Callback
  \/ didUpdateValueError
  \/ PiAcknowledged

Spec == Init /\ [][Next]_vars

\* CoreBluetooth answers every request in the end.
FairSpec == Spec /\ WF_vars(Callback) /\ WF_vars(PiAcknowledged)

-----------------------------------------------------------------------------
(***************************************************************************)
(* An ACK is written only when every datagram of the transfer has been     *)
(* read, as the comment on processDatagrams says.                          *)
(***************************************************************************)
AckMeansAllReceived ==
  [][acked' /\ ~acked => ToSet(PiDatagrams) \subseteq ToSet(datagrams)]_vars

\* An answer for the last characteristic of a service is taken for a datagram,
\* whichever characteristic that is.
Misread == \E i \in DOMAIN services : Last(services[i]) \in Readable \ {Characteristic}

\* Every answer the app has taken for a datagram is the Pi's next frame.
ReadsSound == faults.readError = 0 /\ ~Misread

(***************************************************************************)
(* While reads are sound an ACK does mean that, whatever interrupted the   *)
(* transfer before.                                                        *)
(***************************************************************************)
AckedAfterAllRead ==
  [][acked' /\ ~acked /\ ReadsSound' => ToSet(PiDatagrams) \subseteq ToSet(datagrams)]_vars

(***************************************************************************)
(* What is printed is the message the Pi is transferring, although the     *)
(* datagrams array is never cleared and holds those of earlier and         *)
(* interrupted transfers too: for the first transfer whatever happens,     *)
(* later while reads are sound.                                            *)
(***************************************************************************)
PrintsCurrentMessage ==
  [][messages' # messages /\ (transfer = 1 \/ ReadsSound') =>
       Last(messages') = Transfers[transfer]]_vars

(***************************************************************************)
(* While reads are sound, none of fatalError, reconstructed! and try! ends *)
(* the app: connections lost and Bluetooth going off do not.               *)
(***************************************************************************)
NoCrash == ReadsSound => app # "crashed"

\* Bluetooth is off in the middle of transfer i, or before it; lost counts the
\* connections lost so far.
Interrupted(i, lost) == power = "poweredOff" /\ transfer = i /\ faults.disconnect = lost

(***************************************************************************)
(* A transfer that is interrupted by Bluetooth going off, the first or a   *)
(* later one, has its own message printed in the end once Bluetooth stays  *)
(* on and reads are sound.  Of a connection lost from then on the app      *)
(* takes no notice.                                                        *)
(***************************************************************************)
PrintedInTheEnd ==
  <>[](power = "poweredOn" /\ ReadsSound) =>
    \A i \in DOMAIN Transfers, lost \in 0 .. MaxFaults.disconnect :
      Interrupted(i, lost) ~> Transfers[i] \in ToSet(messages) \/ faults.disconnect > lost
=============================================================================
