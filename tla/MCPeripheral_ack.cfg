SPECIFICATION FairSpec
CHECK_DEADLOCK FALSE
CONSTANTS
  Radix = 8
  Transfers <- MCOneTransfer
  PayloadMaxSize = 2
  Fyn <- MCFyn
  Peripherals <- MCOnePeripheral
  Readable = {"name", "transfer"}
  Characteristic = "transfer"
  OtherValue <- MCOtherValue
  MaxFaults <- MCReadError
  Nil = Nil
PROPERTIES
  AckMeansAllReceived
