SPECIFICATION Spec
CONSTANTS
  e1 = e1
  d1 = d1
  h1 = h1
  m1 = m1
  m2 = m2
  Events = {e1, d1}
  Deletions = {d1}
  Hooks = {h1}
  Mentions = {m1, m2}
  Selves = {m2}
  MaxAttempts = 2
  MaxFaults = 1
INVARIANT ExactlyOnce
