SPECIFICATION Spec
CONSTANTS
  LGView = LGView
  LuaForm = LuaForm
  Plugin = Plugin
  Class = {LGView, LuaForm, Plugin}
  Annotated = {LGView, LuaForm, Plugin}
  Companion = {LuaForm}
  ClsArr <- MCClsArr
  MaxStartups = 3
  NoJob = NoJob
  Worker = {w1, w2, w3}
  MAX_THREAD_COUNT = 3
INVARIANTS
  RegistersAfterReflection
  MapsQuietWhenRead
  RegisteredCompletely
PROPERTIES
  StartupCompletes
CHECK_DEADLOCK FALSE
