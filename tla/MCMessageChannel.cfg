SPECIFICATION FairSpec
CONSTANTS
  Radix = 4
  Message <- MCMessage
  PayloadMaxSize = 2
  Noise <- MCNoise
  MaxMessages = 4
INVARIANTS
  TypeOK
  BuildersAgree
  NothingLost
  NoTrap
PROPERTIES
  DeliversOnce
  EveryMessageArrives
