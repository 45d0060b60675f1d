SPECIFICATION SeatedSpec
CONSTANTS
  Fds = {4, 5, 6}
  Newcomers = {}
  ChIds = {1}
  Nicks = {4, 5, 6}
  Acts = {"B_ROCK"}
  MAXHP = 2
  Damages = {1, 2}
  Bonuses = {1}
  Penalties = {1}
  MAX_USER_COUNT = 3
  UINT16_MAX = 65535
  UCHANGE_MAX_UCNT = 2
  FreshIds = FALSE
  MaxTurns = 1
  MaxInvites = 1
  Chatters = {}
  Leavers = {4}
  Fragile = {5}
  UnsetActed = {TRUE, FALSE}
  UnsetState = {"UOFFLINE"}
INVARIANTS
  NoCrash
  BattlePairing
  RosterConverges
CHECK_DEADLOCK FALSE
