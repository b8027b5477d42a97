\* Two processes and two carriers, one recovery at a time, up to three
\* revisions (the first that can be rolled back is the second).
CONSTANTS
  Process = {p1, p2}
  Carrier = {c1, c2}
  None = None
  MaxRevision = 3
  OneRecovery = TRUE
SPECIFICATION FairSpec
INVARIANTS TypeOK OneWriter StateIsComplete Recoverable
PROPERTIES LiveLockIsKept ExpectedIsRespected ImplementsJournal RecoveryEnds
CHECK_DEADLOCK FALSE
