SPECIFICATION WsFairSpec
CONSTANTS
  Fds = {f1}
  NoFd = NoFd
  NArenas = 2
  SndBuf = 1
  Ops = {"text"}
  BodyLens = {}
  Env = {"close", "fragment", "ping"}
  MaxConnects = 2
  MaxMsgs = 2
  MaxFcgi = 1
INVARIANTS
  AnsweredOnce
  ArenasAreHeld
PROPERTIES
  WsAnswered
