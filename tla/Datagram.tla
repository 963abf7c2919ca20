------------------------------ MODULE Datagram ------------------------------
(***************************************************************************)
(* The wire format of the Bluetooth transfer, Models/BLE/Datagram.swift,   *)
(* and the way Models/BLE/Message.swift cuts a message into datagrams.     *)
(* Data is a sequence of bytes; the code's index i is position i + 1 here. *)
(* An offset and a length are four bytes, least significant byte first.    *)
(***************************************************************************)
EXTENDS Integers, Sequences

CONSTANT Radix     \* values of a byte: 256 in the code, less in TLC's runs

ASSUME RadixAssumption == Radix \in Nat /\ Radix > 1

Byte == 0 .. Radix - 1
UInt32 == 0 .. Radix * (Radix * (Radix * Radix)) - 1

\* Datagram.Header.byteCount: one byte of key, four of offset, four of length.
ByteCount == 9

Datagrams ==
  [key : Byte, offset : UInt32, messageLength : UInt32, payload : Seq(Byte)]

Messages == [key : Byte, data : Seq(Byte)]

-----------------------------------------------------------------------------
\* Mutant: UInt8(truncatingIfNeeded:) forgotten.
FieldBytesUntruncated(n) ==
  << n, n \div Radix, (n \div Radix) \div Radix, ((n \div Radix) \div Radix) \div Radix >>

\* A UInt32 shifted out byte by byte.
FieldBytes(n) ==
  << n % Radix,
     (n \div Radix) % Radix,
     ((n \div Radix) \div Radix) % Radix,
     (((n \div Radix) \div Radix) \div Radix) % Radix >>

encoded(d) ==
  <<d.key>> \o FieldBytes(d.offset) \o FieldBytes(d.messageLength) \o d.payload

\* decode returns nil, and nothing else of it is used, for data this short.
Decodable(data) == ByteCount < Len(data)

\* The UInt32 whose bytes are data[i + 1 .. i + 4].
FieldValue(data, i) ==
  Radix * (Radix * (Radix * data[i + 4] + data[i + 3]) + data[i + 2]) + data[i + 1]

decode(data) ==
  [key           |-> data[1],
   offset        |-> FieldValue(data, 1),
   messageLength |-> FieldValue(data, 5),
   payload       |-> SubSeq(data, ByteCount + 1, Len(data))]

-----------------------------------------------------------------------------
\* Mutant: a last datagram that is not full is forgotten.
EndIndexFloor(m, payloadMaxSize) == Len(m.data) \div payloadMaxSize

\* Message.DatagramView: the number of datagrams of m, and the one at index.
EndIndex(m, payloadMaxSize) ==
  IF Len(m.data) % payloadMaxSize = 0
    THEN Len(m.data) \div payloadMaxSize
    ELSE 1 + Len(m.data) \div payloadMaxSize

Subscript(m, payloadMaxSize, index) ==
  LET offset == index * payloadMaxSize
      end    == IF offset + payloadMaxSize < Len(m.data)
                  THEN offset + payloadMaxSize ELSE Len(m.data)
  IN [key           |-> m.key,
      offset        |-> offset,
      messageLength |-> Len(m.data),
      payload       |-> SubSeq(m.data, offset + 1, end)]

DatagramView(m, payloadMaxSize) ==
  { Subscript(m, payloadMaxSize, index) : index \in 0 .. EndIndex(m, payloadMaxSize) - 1 }
=============================================================================
