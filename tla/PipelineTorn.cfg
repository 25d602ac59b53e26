SPECIFICATION Spec
CONSTANTS
  Requests = {"file"}
  Input <- FileInput
  Tenants = {"acme", "bolt"}
  FileNames = {"f", "g"}
  Dims = {d1}
  SearchDoc = SearchDoc
  None = None
  Engines = {"e1"}
  MaxDeliver = 2
  MaxFaults = 1
  FaultKinds = {"read"}
INVARIANTS
  AckedFilesAreRead
CHECK_DEADLOCK FALSE
