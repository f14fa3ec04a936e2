\* Three jobs on two Zcash parents, a registry of two, and health that may fail.
SPECIFICATION Spec
CONSTANTS
  z1 = z1
  z2 = z2
  Job = {j1, j2, j3}
  NoJob = NoJob
  Descriptor <- TwoParents
  MaximumRecent = 1
  MaximumGenerations = 2
  MaxAge = 1
  RecoveryTail = 1
  MaxRecoveryJobs = 2
  Snapshots <- SmallSnapshots
  Unhealthy = TRUE
  Grace = {1}
  MaxTime = 2
  MaxSeq = 2
  MaxEpoch = 2
  MaxQueue = 1
  MaxInFlight = 1
SYMMETRY Interchangeable
INVARIANT RecoveryIsBounded
PROPERTY AdmissionIsSound
PROPERTY DisruptionsAreOrderly
