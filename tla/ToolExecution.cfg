\* Inputs of up to two members.
SPECIFICATION Spec
CONSTANTS
  Fields = {"a", "b", "c"}
  FieldKind <- MCFieldKind
  Others = {"A", "x"}
  FoldsTo <- MCFoldsTo
  MaxMembers = 2
INVARIANTS TypeOK HandlerSeesItsInput OutcomeDeliverable
PROPERTIES RefusedForReason
CHECK_DEADLOCK FALSE
