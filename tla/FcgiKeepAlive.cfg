SPECIFICATION Spec
CONSTANTS
  Fds = {f1}
  Ids = {1}
  NoFd = NoFd
  NoId = NoId
  NArenas = 1
  MaxParams = 1
  MaxStdin = 1
  ParamLens = {}
  StdinLens = {}
  SndBuf = 1
  Buckets = 1
  KeepFlags = {TRUE}
  Env = {}
  MaxConnects = 1
  MaxRequests = 1
  MaxWs = 0
PROPERTIES
  KeepConnHonoured
