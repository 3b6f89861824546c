CONSTANTS
  ConfigFiles <- ThreadedFiles
  SizeT = 100
  MaxEvents = 2
  MaxPackets = 1
  MaxSignals = 1
SPECIFICATION Spec
INVARIANT NoUseAfterDestroy
