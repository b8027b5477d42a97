\* Two processes, everything allowed: recovery still ends.
CONSTANTS
  Proc = {p1, p2}
  Inode = {i1, i2, i3}
  None = None
  DiesUnderProbe = TRUE
  LeaseLapses = TRUE
SPECIFICATION FairSpec
PROPERTIES RecoveredOnDemand
CHECK_DEADLOCK FALSE
