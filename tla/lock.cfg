SPECIFICATION FairSpec
CONSTANTS
  Locks = {la, lb}
  NoLock = NoLock
  Watched = {la}
  Expire = 4
  MinInterval = 1
  Slots = {1}
  NoDog = NoDog
  Delay = 1
  Relock = FALSE
  MaxFaults = 1
INVARIANTS
  HolderOwnsKey
  WatchdogKeepsLock
PROPERTIES
  LeaseSpec
  AbandonedLockFreed
CHECK_DEADLOCK FALSE
