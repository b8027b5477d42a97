\* A lead that may have one delegate, and three handoffs, of which one pass defers two.
CONSTANTS
  None = None
  lead = lead
  w1 = w1
  w2 = w2
  Session <- OneWorker
  Root <- Roots
  Handoffs = 3
  MaxParallel = 1
  DrainLimit = 3
  StaleCapacity = FALSE
SPECIFICATION FairSpec
PROPERTIES StuckIsEscalated
CHECK_DEADLOCK FALSE
