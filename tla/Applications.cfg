CONSTANTS
  Calls = {1, 2, 3, 4}
  Ids = {a}
  MaxEvents = 1
  Dispatchers <- MCDispatchers
  Shown <- MCShown
  MaxLength = 4
  NotHeld = NotHeld
  Scenarios <- MCScenarios
SPECIFICATION AppSpec
INVARIANTS
  LoansAreHonest
  TodosAreThere
