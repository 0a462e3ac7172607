SPECIFICATION Spec
CONSTANTS
  Thread = {ui}
  MaxEvents = 3
  MaxArgs = 1
  MaxResults = 2
  MaxDepth = 2
  ResultKind = {"nil", "text", "userdata"}
  StackLimit = 5
INVARIANT LegalPopCount
CHECK_DEADLOCK FALSE
