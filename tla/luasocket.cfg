SPECIFICATION SocketSpec
CONSTANTS
  Socks = {"p", "q"}
  Stream <- MCStream
  Message <- MCMessage
  Patterns <- MCReceivePatterns
  Timeouts <- MCTimeouts
  BUF_SIZE = 2
  STEPSIZE = 1
  SendRoom = 1
  MaxTime = 2
  MaxCalls = 3
  Objs = {"a", "b"}
  Fds = {3, 4}
  Hosts <- MCHosts
  MaxSockCalls = 4
  Arguments <- MCArguments
  Addresses = {"g", "h"}
  MaxSets = 2
  Texts <- MCMimeTexts
  LineLength = 5
INVARIANTS
  ReceivesCutTheStream
  SendsEachByteOnce
  LimitsHold
  SelectKnowsTheBuffers
  
  ResultsAreTrue
  
  MimeKeepsText
CHECK_DEADLOCK FALSE
