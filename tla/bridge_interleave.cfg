SPECIFICATION Spec
CONSTANTS
  Thread = {ui, background}
  MaxEvents = 2
  MaxArgs = 1
  MaxResults = 2
  MaxDepth = 1
  ResultKind = {"nil", "text", "userdata"}
  StackLimit = 5
INVARIANT CalledAsRaised
CHECK_DEADLOCK FALSE
