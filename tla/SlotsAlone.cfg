\* One process at a time, with crashes and fair loops.
CONSTANTS
  None = None
  Session = {s1, s2}
  daemon = daemon
  dashboard = dashboard
  Process = {daemon}
  Runner = {r1, r2}
  MaxWorktrees = 1
  Crashes = TRUE
  Operations <- Alone
SPECIFICATION FairSpec
INVARIANTS
  AttachedWithinLimit
  QueuedIsNotForgotten
PROPERTIES
  QueueIsServed
CHECK_DEADLOCK FALSE
