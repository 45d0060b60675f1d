SPECIFICATION Spec
CONSTANTS
  Samples = {1}
  ShortIn = {"head", "body"}
  UCHANGE_MAX_UCNT = 2
  TextLen = 2
  Junk = {0, 7}
  MaxMsgs = 2
  MaxShort = 1
INVARIANTS
  PacketsStored
CHECK_DEADLOCK FALSE
