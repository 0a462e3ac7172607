SPECIFICATION LuaSpec
CONSTANTS
  IntKeys = {1, 2, 3}
  StrKeys = {strA}
  StrHash <- MCStrHash
  nil = nil
  MAX_INT = 4
  MAXASIZE = 2
  MaxArray = 3
  strA = strA
  main = main
  str = str
  tab = tab
  weakTab = weakTab
  udata = udata
  fn = fn
  uv = uv
  co = co
  Kind <- MCKind
  Weak <- MCWeak
  Main = main
  None = None
  SweepMax = 1
  MaxStack = 2
  Stacks <- MCStacks
  Indexes <- MCIndexes
  Counts <- MCCounts
  BITRK = 16
  MAXSTACK = 15
  LFIELDS_PER_FLUSH = 2
  Names <- MCNames
  Upvalues <- MCUpvalues
  Programs <- MCPrograms
  Compiled <- MCCompiled
  Inputs <- MCInputs
  Texts <- MCTexts
  Patterns <- MCPatterns
  LUA_MAXCAPTURES = 2
  Functions <- MCFunctions
  PieceSizes = {1, 3, 100}
  LUAI_MAXCCALLS = 3
INVARIANTS
  LengthIsBorder
  LiveIsKept
  FullGCCollects
  
  FindsWhatPatternMeans
  LoadsWhatWasDumped
PROPERTIES
  CodeMeansProgram
  IsMap
  FinalizedOnce
CHECK_DEADLOCK FALSE
