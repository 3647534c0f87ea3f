SPECIFICATION Spec
CONSTANTS
  Locks = {la}
  NoLock = NoLock
  Watched = {la}
  Expire = 4
  MinInterval = 1
  Slots = {1}
  NoDog = NoDog
  Delay = 1
  Relock = FALSE
  MaxFaults = 0
PROPERTIES
  UnlockedStaysFree
CHECK_DEADLOCK FALSE
