SPECIFICATION SeatedSpec
CONSTANTS
  Fds = {4, 5, 6}
  Newcomers = {}
  ChIds = {1, 2}
  Nicks = {4, 5, 6}
  Acts = {"B_ROCK"}
  MAXHP = 2
  Damages = {1, 2}
  Bonuses = {1}
  Penalties = {1}
  MAX_USER_COUNT = 3
  UINT16_MAX = 65535
  UCHANGE_MAX_UCNT = 2
  FreshIds = TRUE
  MaxTurns = 0
  MaxInvites = 2
  Chatters = {}
  Leavers = {}
  Fragile = {}
  UnsetActed = {TRUE, FALSE}
  UnsetState = {"UOFFLINE"}
INVARIANTS
  BattlePairing
  UsersOfTheChallenge
CHECK_DEADLOCK FALSE
