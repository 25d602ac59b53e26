SPECIFICATION Spec
CONSTANTS
  Requests = {"file", "probe"}
  Input <- TopOneInput
  Tenants = {"acme", "bolt"}
  FileNames = {"f", "g"}
  Dims = {d1}
  SearchDoc = SearchDoc
  None = None
  Engines = {"e1"}
  MaxDeliver = 2
  MaxFaults = 0
  FaultKinds = {}
INVARIANTS
  AnswerWithinTopK
CHECK_DEADLOCK FALSE
