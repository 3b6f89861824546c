CONSTANTS
  WorldLength = 2
  WorldWidth = 2
  CellSize = 2
  IoThreads = {t1, t2}
  MaxPlayers = 2
  SpawnPositions <- Corner
  Positions <- OneGrid
  MaxMoves = 1
  MaxChats = 0
  MaxCloses = 0
  NoThread = NoThread
  NoPos = NoPos
SPECIFICATION Spec
SYMMETRY ThreadSymmetry
INVARIANTS
  NoTornPosition
