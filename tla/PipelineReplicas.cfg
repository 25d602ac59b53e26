SPECIFICATION Spec
CONSTANTS
  Requests = {"note", "query"}
  Input <- ReplicasInput
  Tenants = {"acme", "bolt"}
  FileNames = {"f", "g"}
  Dims = {d1}
  SearchDoc = SearchDoc
  None = None
  Engines = {"e1", "e2"}
  MaxDeliver = 2
  MaxFaults = 0
  FaultKinds = {}
PROPERTIES
  AnyReplicaAnswersCompletely
CHECK_DEADLOCK FALSE
