CONSTANTS
  WorldLength = 2
  WorldWidth = 2
  CellSize = 2
  IoThreads = {t1, t2}
  MaxPlayers = 3
  SpawnPositions <- Corner
  Positions <- OneGrid
  MaxMoves = 1
  MaxChats = 0
  MaxCloses = 1
  NoThread = NoThread
  NoPos = NoPos
SPECIFICATION Spec
SYMMETRY ThreadSymmetry
INVARIANTS
  NobodyMissing
  MeetingInv
