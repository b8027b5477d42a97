\* Two worktrees, a daemon and an operator, two changes that clash.
CONSTANTS
  None = None
  c1 = c1
  c2 = c2
  Session = {s1, s2}
  Merger = {daemon, operator}
  Queue = {daemon}
  Single = {operator}
  Change <- TwoChanges
  Clash <- TheyClash
SPECIFICATION Spec
INVARIANTS TypeOK WorkIsKept QueueIsSound QueueIsComplete
CHECK_DEADLOCK FALSE
