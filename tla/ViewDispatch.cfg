CONSTANTS
  Calls = {c1, c2, c3}
  Ids = {a}
  MaxEvents = 3
  Dispatchers <- MCDispatchers
  Shown <- MCShown
  MaxLength = 3
  NotHeld = NotHeld
SPECIFICATION Spec
SYMMETRY Symmetry
INVARIANTS
  AppliedAtMostOnce
  AcknowledgedIsProjected
  QuietViewIsReplay
