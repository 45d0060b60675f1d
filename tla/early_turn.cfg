SPECIFICATION SeatedSpec
CONSTANTS
  Fds = {4, 5}
  Newcomers = {}
  ChIds = {1}
  Nicks = {4, 5}
  Acts = {"B_ROCK", "B_PAPER"}
  MAXHP = 3
  Damages = {2}
  Bonuses = {1}
  Penalties = {1}
  MAX_USER_COUNT = 3
  UINT16_MAX = 65535
  UCHANGE_MAX_UCNT = 2
  FreshIds = FALSE
  MaxTurns = 3
  MaxInvites = 1
  Chatters = {}
  Leavers = {4}
  Fragile = {}
  UnsetActed = {TRUE, FALSE}
  UnsetState = {"UOFFLINE"}
INVARIANTS
  TurnIsExpected
CHECK_DEADLOCK FALSE
