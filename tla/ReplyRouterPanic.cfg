SPECIFICATION Spec
CONSTANTS
  Calls = {"a", "b"}
  Foreign = {"x"}
  MaxCopies = 2
  None = None
INVARIANTS
  NoSendOnClosedChannel
