CONSTANTS
  WorldLength = 4
  WorldWidth = 2
  CellSize = 2
  IoThreads = {t1, t2}
  MaxPlayers = 2
  SpawnPositions <- Corner
  Positions <- TwoGrids
  MaxMoves = 1
  MaxChats = 1
  MaxCloses = 1
  NoThread = NoThread
  NoPos = NoPos
SPECIFICATION FairSpec
PROPERTIES
  CallbacksReturn
  OfflineReleased
  ChatReachesAll
