SPECIFICATION WsSpec
CONSTANTS
  Fds = {f1}
  NoFd = NoFd
  NArenas = 2
  SndBuf = 1
  Ops = {}
  BodyLens = {0}
  Env = {"close", "http"}
  MaxConnects = 1
  MaxMsgs = 1
  MaxFcgi = 1
INVARIANTS
  HttpOnce
