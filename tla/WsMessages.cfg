SPECIFICATION WsSpec
CONSTANTS
  Fds = {f1}
  NoFd = NoFd
  NArenas = 2
  SndBuf = 1
  Ops = {"text", "binary"}
  BodyLens = {0, 2}
  Env = {"close", "goodbye", "http", "interrupt", "fragment", "partial", "ping", "stray"}
  MaxConnects = 1
  MaxMsgs = 2
  MaxFcgi = 1
INVARIANTS
  WsTypeOK
  MessagesAreWhole
  WsNoLostWakeup
  WsUnsentIsArmed
