\* Two lifetimes draw the same holder UUID: uniqueness does not depend on
\* fresh UUIDs, and a stale claim token stays dead.
CONSTANTS
  p1 = p1
  p2 = p2
  p3 = p3
  Process = {p1, p2, p3}
  Holder = {p1, p2}
  HolderOf <- ReusedHolderOf
  NoHolder = NoHolder
  Capacity = 5
  Reservation = 2
  LeaseDuration = 2
SPECIFICATION FairSpec
PROPERTIES StaleClaimNeverRevives ImplementsDispenser NamespaceRecovers
CHECK_DEADLOCK FALSE
