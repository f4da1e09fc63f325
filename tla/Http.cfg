SPECIFICATION HttpSpec
CONSTANTS
  Sent <- MCSent
CHECK_DEADLOCK FALSE
INVARIANTS
  RequestIsAsSent
  EndpointIsGathered
  SessionIsReadable
