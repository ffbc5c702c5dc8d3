SPECIFICATION Spec
CONSTANTS
  Nil = Nil
  p1 = p1
  p2 = p2
  p3 = p3
  Puzzles = {p1, p2, p3}
  Difficulty <- MCDifficulty
  Hashes <- MCHashes
  Requests = {r1, r2}
  Names = {n1, n2}
  PuzzleLife = 1
  MaxTime = 2
  MaxCreated = 2
  MaxRestarts = 1
INVARIANTS
  PoWTypeOK
  OneInstancePerPuzzle
  PuzzleInOnePlace
PROPERTY WorkDecides
SYMMETRY Symmetry
CHECK_DEADLOCK FALSE
