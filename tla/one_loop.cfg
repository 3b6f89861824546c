CONSTANTS
  WorldLength = 8
  WorldWidth = 4
  CellSize = 2
  IoThreads = {t1}
  MaxPlayers = 3
  SpawnPositions <- Diagonal
  Positions <- TwoRows
  MaxMoves = 3
  MaxChats = 1
  MaxCloses = 1
  NoThread = NoThread
  NoPos = NoPos
SPECIFICATION Spec
INVARIANTS
  NobodyMissing
  NoGhosts
  ViewInv
