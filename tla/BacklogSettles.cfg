\* One lead and two workers, two handoffs; a rebalance uses the capacity it
\* has found.
CONSTANTS
  None = None
  lead = lead
  w1 = w1
  w2 = w2
  Session <- TwoWorkers
  Root <- Roots
  Handoffs = 2
  MaxParallel = 2
  DrainLimit = 2
  StaleCapacity = FALSE
SPECIFICATION FairSpec
INVARIANTS TypeOK NoTaskIsLost AssignedOnce
PROPERTIES BacklogSettles
CHECK_DEADLOCK FALSE
