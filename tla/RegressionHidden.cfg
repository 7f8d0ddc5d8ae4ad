SPECIFICATION Spec
CONSTANTS
  i1 = i1
  p1 = p1
  p2 = p2
  g1 = g1
  g2 = g2
  NULL = NULL
  Issues = {i1}
  Movers = {p1}
  GitJobs = {}
  MaxTime = 2
  ArchiveDays = 1
  SnoozeTimes = {1}
INVARIANT LiveWorkStaysVisible
