SPECIFICATION Spec
CONSTANTS
  Calls = {c1, c2, c3}
  Ids = {a}
  MaxEvents = 2
  NoSnapshot = NoSnapshot
SYMMETRY Symmetry
INVARIANT NoVersionIsSkipped
INVARIANT SnapshotIsBacked
INVARIANT UndisturbedIsExact
INVARIANT AnswersHold
