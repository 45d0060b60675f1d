SPECIFICATION FairSpec
CONSTANTS
  QSIZE = 2
  SockRoom = 1
  MaxSessions = 2
  MaxConns = 2
INVARIANTS
  WellSequenced
  OneSender
PROPERTIES
  LoginSettles
  SessionEnds
CHECK_DEADLOCK FALSE
