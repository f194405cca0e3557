CONSTANTS
  Word = 16
  MaxLength = 4
  FirstPages = {0, 1}
  Stores = {"memory", "postgres", "surrealdb", "mongodb"}
SPECIFICATION Spec
INVARIANTS
  SkipIsExact
