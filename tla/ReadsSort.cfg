CONSTANTS
  MaxI64 = 7
  None = None
  NoRow = NoRow
  Absent = Absent
  ViewIds = {1, 2, 3}
  DefaultLimit = 2
  MaxSaves = 1
  ViewTypes <- MCViewTypes
  Requests <- MCRequests
  Stored <- MCStored
  Contents <- MCContents
SPECIFICATION Spec
INVARIANT SortErrorsAre400
