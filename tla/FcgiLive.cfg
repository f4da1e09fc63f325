SPECIFICATION FairSpec
CONSTANTS
  Fds = {f1, f2}
  Ids = {1}
  NoFd = NoFd
  NoId = NoId
  NArenas = 1
  MaxParams = 1
  MaxStdin = 1
  ParamLens = {}
  StdinLens = {}
  SndBuf = 1
  Buckets = 1
  KeepFlags = {FALSE}
  Env = {}
  MaxConnects = 2
  MaxRequests = 2
  MaxWs = 0
INVARIANTS
  TypeOK
  PoolAccounting
  PausedMeansExhausted
  EntriesAreLive
  WaitingIsListed
  NoArenaLost
  UnsentIsArmed
  WorkersAreCounted
  DispatchedOnce
  WorkersHoldLiveObjects
  PendingLive
PROPERTIES
  ReleaseIsSafe
  OnlyCompleteAnswered
  CompleteAnswered
  AcceptResumes
