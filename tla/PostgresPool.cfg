CONSTANTS
  Calls = {c1, c2, c3}
  Ids = {a, b}
  MaxEvents = 2
  NoSnapshot = NoSnapshot
  Uses = {"pool", "in_turn", "contended"}
  Client = Client
SPECIFICATION Spec
SYMMETRY Symmetry
INVARIANTS
  ConsistentAsUsed
  CommitIsWhole
PROPERTIES
  CommitImplementsEventLog
