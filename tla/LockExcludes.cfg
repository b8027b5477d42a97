\* Owner, recoverer and newcomer; no end inside a probe, no lapsed lease.
CONSTANTS
  Proc = {p1, p2, p3}
  Inode = {i1, i2, i3, i4}
  None = None
  DiesUnderProbe = FALSE
  LeaseLapses = FALSE
SPECIFICATION FairSpec
INVARIANTS TypeOK MutualExclusion
PROPERTIES ImplementsMutex RecoveredOnDemand
CHECK_DEADLOCK FALSE
