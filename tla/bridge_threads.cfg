SPECIFICATION Spec
CONSTANTS
  Thread = {ui, background}
  MaxEvents = 3
  MaxArgs = 0
  MaxResults = 1
  MaxDepth = 2
  ResultKind = {"text"}
  StackLimit = 4
INVARIANTS
  FramesMatchThunks
  
PROPERTIES
  EventsEnd
CHECK_DEADLOCK FALSE
