SPECIFICATION FairSpec
CHECK_DEADLOCK FALSE
CONSTANTS
  Radix = 8
  Transfers <- MCTransfers
  PayloadMaxSize = 2
  Fyn <- MCFyn
  Peripherals <- MCPeripherals
  Readable = {"name", "transfer"}
  Characteristic = "transfer"
  OtherValue <- MCOtherValue
  MaxFaults <- MCFaults
  Nil = Nil
INVARIANTS
  TypeOK
  NoCrash
PROPERTIES
  PrintsCurrentMessage
  AckedAfterAllRead
  PrintedInTheEnd
