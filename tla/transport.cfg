SPECIFICATION FairSpec
CONSTANTS
  Clients = {4, 5}
  Ways = {"one"}
  QSIZE = 1
  MAX_QUEUE_SIZE = 1
  SockRoom = 1
  Speakers = {4}
  Fragile = {4}
INVARIANTS
  TypeOK
PROPERTIES
  InOrder
  HandlerFlows
  LeaversForgotten
CHECK_DEADLOCK FALSE
