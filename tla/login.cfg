SPECIFICATION FairSeatedSpec
CONSTANTS
  Fds = {4, 5, 6, 7}
  Newcomers = {6, 7}
  ChIds = {1}
  Nicks = {4, 5, 6}
  Acts = {"B_ROCK"}
  MAXHP = 2
  Damages = {1, 2}
  Bonuses = {1}
  Penalties = {1}
  MAX_USER_COUNT = 3
  UINT16_MAX = 65535
  UCHANGE_MAX_UCNT = 2
  FreshIds = FALSE
  MaxTurns = 2
  MaxInvites = 0
  Chatters = {6}
  Leavers = {4}
  Fragile = {5}
  UnsetActed = {TRUE}
  UnsetState = {"UOFFLINE"}
INVARIANTS
  IndexesAgree
  JoinOnce
  RosterConverges
  NamesResolve
PROPERTIES
  JoinAnswered
CHECK_DEADLOCK FALSE
