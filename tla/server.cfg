CONSTANTS
  ConfigFiles <- Files
  SizeT = 100
  MaxEvents = 4
  MaxPackets = 1
  MaxSignals = 2
SPECIFICATION FairSpec
INVARIANTS
  TypeOK
  FieldsIndependent
  ReadyBeforeServing
  ThreadsOutlived
  LifeInv
  ConfigInv
PROPERTY StopEnds
