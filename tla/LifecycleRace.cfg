\* One session, two runners, the daemon and the dashboard: stops, pauses, resumes,
\* deletion, crash recovery and the auto-terminating heartbeat check race with the
\* runners on one row, and any statement of a runner may be refused.
CONSTANTS
  None = None
  Session = {s1}
  Runner = {r1, r2}
  daemon = daemon
  dashboard = dashboard
  Controller = {daemon, dashboard}
  AutoTerminate = TRUE
  Operations <- Apart
  Refusable = {r1, r2}
SPECIFICATION Spec
SYMMETRY Symmetry
INVARIANTS
  TypeOK
  RunningHasCustodian
  PendingHasLauncher
  PidIsMinded
  CompletedIsEarned
CHECK_DEADLOCK FALSE
