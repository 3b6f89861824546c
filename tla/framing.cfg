CONSTANTS
  Radix = 2
  Ids = {2, 3, 5}
  Payloads <- SomePayloads
  Registered = {2, 3}
  MaxPackets = 3
SPECIFICATION FairSpec
INVARIANTS
  TypeOK
  InStep
  NothingLeftWaiting
  FramingInv
PROPERTIES
  ImplementsChannel
  RoutesEverything
CHECK_DEADLOCK FALSE
