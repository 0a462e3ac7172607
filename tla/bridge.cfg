SPECIFICATION Spec
CONSTANTS
  Thread = {ui}
  MaxEvents = 3
  MaxArgs = 1
  MaxResults = 2
  MaxDepth = 2
  ResultKind = {"nil", "text", "userdata"}
  StackLimit = 5
INVARIANTS
  CalledAsRaised
  OnlyResultsLeft
  ResultIsLastValue
PROPERTIES
  BelowBaseKept
CHECK_DEADLOCK FALSE
