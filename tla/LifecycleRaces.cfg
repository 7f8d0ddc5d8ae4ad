SPECIFICATION Spec
CONSTANTS
  i1 = i1
  p1 = p1
  p2 = p2
  g1 = g1
  g2 = g2
  NULL = NULL
  Issues = {i1}
  Movers = {p1, p2}
  GitJobs = {g1, g2}
  MaxTime = 0
  ArchiveDays = 0
  SnoozeTimes = {}
SYMMETRY Symmetry
INVARIANT SubscriberSeesStatus
PROPERTIES
  OnlyGitLeavesGraph
  DeletedIsFrozen
