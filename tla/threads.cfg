CONSTANTS
  WorldLength = 6
  WorldWidth = 2
  CellSize = 2
  IoThreads = {t1, t2}
  MaxPlayers = 2
  SpawnPositions <- Corner
  Positions <- EndGrids
  MaxMoves = 2
  MaxChats = 1
  MaxCloses = 1
  NoThread = NoThread
  NoPos = NoPos
SPECIFICATION Spec
SYMMETRY ThreadSymmetry
INVARIANTS
  TypeOK
  IndInv
  NetworkInv
  MapIsRegistered
  LookupsSucceed
  AssertionsHold
  InPlace
  SyncPlayersNotEmpty
  SyncPidFirst
