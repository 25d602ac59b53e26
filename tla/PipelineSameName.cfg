SPECIFICATION Spec
CONSTANTS
  Requests = {"first", "second"}
  Input <- SameNameInput
  Tenants = {"acme", "bolt"}
  FileNames = {"f", "g"}
  Dims = {d1}
  SearchDoc = SearchDoc
  None = None
  Engines = {"e1"}
  MaxDeliver = 2
  MaxFaults = 0
  FaultKinds = {}
INVARIANTS
  RowHasOwnContent
CHECK_DEADLOCK FALSE
