SPECIFICATION FairSpec
CONSTANTS
  Calls = {"a", "b"}
  Foreign = {"x"}
  MaxCopies = 2
  None = None
INVARIANTS
  TypeOK
  PendingIsActive
  OnlyOwnReply
PROPERTIES
  DropOnlyWhenGone
  RouterNeverStuck
  ImplementsSearchCall
