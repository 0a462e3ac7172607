SPECIFICATION ViewModelSpec
CONSTANTS
  Thread = {t1, t2, t3}
  MaxScopes = 3
  NoScope = NoScope
INVARIANT GivenIsClosed
CHECK_DEADLOCK FALSE
