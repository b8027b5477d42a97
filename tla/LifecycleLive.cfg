\* Launches, resumes, crash recovery and the heartbeat check, fair scheduling;
\* the store may refuse any statement of one of the two runners.
CONSTANTS
  None = None
  Session = {s1}
  Runner = {r1, r2}
  daemon = daemon
  dashboard = dashboard
  Controller = {daemon}
  AutoTerminate = FALSE
  Operations <- Together
  Refusable = {r1}
SPECIFICATION FairSpec
PROPERTIES
  RunningSettles
  PendingIsPickedUp
CHECK_DEADLOCK FALSE
