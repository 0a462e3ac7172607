SPECIFICATION LiveDataSpec
CONSTANTS
  Function = {f}
  Owner = {activity, fragment}
  MaxTranslators = 2
  MaxObservers = 3
  MaxVersion = 2
  None = None
PROPERTY RemovedFunctionQuiet
CHECK_DEADLOCK FALSE
