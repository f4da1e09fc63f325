SPECIFICATION Spec
CONSTANTS
  f1 = f1
  f2 = f2
  NoFd = NoFd
  NoId = NoId
INVARIANTS
  RequestsAreSafe
  NoLostWakeup
  LoopsStayValid
PROPERTIES
  EndsAreSafe
