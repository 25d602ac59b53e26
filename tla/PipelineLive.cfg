SPECIFICATION FairSpec
CONSTANTS
  Requests = {"essay", "query", "blank"}
  Input <- LiveInput
  Tenants = {"acme", "bolt"}
  FileNames = {"f", "g"}
  Dims = {d1}
  SearchDoc = SearchDoc
  None = None
  Engines = {"e1", "e2"}
  MaxDeliver = 2
  MaxFaults = 1
  FaultKinds = {"expiry", "ack", "adapter", "silence", "restart", "reboot"}
INVARIANTS
  TypeOK
  SearchNotDropped
  PartsReachEngine
PROPERTIES
  IngestSettles
  SearchSettles
CHECK_DEADLOCK FALSE
