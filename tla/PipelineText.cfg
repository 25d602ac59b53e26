SPECIFICATION Spec
CONSTANTS
  Requests = {"file", "query"}
  Input <- TextInput
  Tenants = {"acme", "bolt"}
  FileNames = {"f", "g"}
  Dims = {d1, d2}
  SearchDoc = SearchDoc
  None = None
  Engines = {"e1"}
  MaxDeliver = 2
  MaxFaults = 1
  FaultKinds = {"expiry", "ack", "adapter", "silence"}
SYMMETRY LengthSymmetry
INVARIANTS
  EveryEventHasAHandler
  OneRowPerPart
  NothingAckedAway
  TextSearchWithinTopK
PROPERTIES
  ShortAnswerIsComplete
CHECK_DEADLOCK FALSE
