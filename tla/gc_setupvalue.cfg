SPECIFICATION SharedSpec
CONSTANTS
  main = main
  tab = tab
  fn = fn
  fn2 = fn2
  uv = uv
  Kind <- MCKind
  Weak <- MCWeak
  Main = main
  None = None
  SweepMax = 1
  MaxStack = 3
INVARIANT CopiesAreAlive
