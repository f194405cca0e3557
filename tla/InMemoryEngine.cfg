CONSTANTS
  Calls = {c1, c2, c3}
  Ids = {a, b}
  MaxEvents = 2
  NoSnapshot = NoSnapshot
  Free = Free
SPECIFICATION FairSpec
INVARIANTS
  VersionsContiguous
  SnapshotIsReplay
  SnapshotsAreCurrent
  LoadedIsReplay
  AnswersAreTrue
  DeliveredOnce
  IInv
PROPERTIES
  ImplementsEventLog
  StoreOnlyGrows
  EveryCallAnswered
