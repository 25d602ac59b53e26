SPECIFICATION Spec
CONSTANTS
  Requests = {"note"}
  Input <- NoteInput
  Tenants = {"acme", "bolt"}
  FileNames = {"f", "g"}
  Dims = {d1}
  SearchDoc = SearchDoc
  None = None
  Engines = {"e1"}
  MaxDeliver = 2
  MaxFaults = 1
  FaultKinds = {"publish"}
INVARIANTS
  AckConfirmsProcessing
CHECK_DEADLOCK FALSE
