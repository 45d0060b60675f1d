SPECIFICATION Spec
CONSTANTS
  Ids = {1, 2, 3}
  Me = 2
  Nicks = {1, 2, 3}
  Scores = {0, 1}
  UCHANGE_MAX_UCNT = 2
  MaxChanges = 2
INVARIANTS
  ListShown
  CountRight
  EnterSafe
PROPERTIES
  InvitesListed
CHECK_DEADLOCK FALSE
