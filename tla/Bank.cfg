CONSTANTS
  Calls = {1, 2, 3, 4, 5}
  Ids = {account}
  MaxEvents = 1
  NoSnapshot = NoSnapshot
  Floats <- MCFloats
  Amounts <- MCAmounts
  Scenarios <- MCScenarios
SPECIFICATION BankSpec
INVARIANTS
  LedgerIsExplained
  MovementsAddUp
  RefusalsAreTrue
