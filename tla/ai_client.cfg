CONSTANTS
  WorldLength = 6
  WorldWidth = 6
  CellSize = 2
  ThreadNum = 2
  SpawnPositions <- Spawns
  MaxStep = 1
  MaxActions = 2
  NoPos = NoPos
SPECIFICATION FairSpec
INVARIANTS
  TypeOK
  RobotHasConnection
  RequestsOnMap
  LoopServesAll
  ClientInv
PROPERTY AllExit
