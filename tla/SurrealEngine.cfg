CONSTANTS
  Calls = {c1, c2, c3}
  Ids = {a, b}
  MaxEvents = 2
  NoSnapshot = NoSnapshot
SPECIFICATION Spec
SYMMETRY Symmetry
INVARIANTS
  StoreConsistent
  UnreadableOnlyAfterFailure
  OneCreator
PROPERTIES
  ImplementsEventLog
  JournalOnlyGrows
