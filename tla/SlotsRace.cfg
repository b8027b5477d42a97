\* Two sessions, two processes and one slot: creation, activation, stop, clean-up
\* and resume race.
CONSTANTS
  None = None
  Session = {s1, s2}
  daemon = daemon
  dashboard = dashboard
  Process = {daemon, dashboard}
  Runner = {r1, r2}
  MaxWorktrees = 1
  Crashes = FALSE
  Operations <- Apart
SPECIFICATION Spec
SYMMETRY Symmetry
INVARIANTS
  TypeOK
  SlotsBounded
  QueuedIsNotForgotten
  OneRunnerUnlessReset
CHECK_DEADLOCK FALSE
