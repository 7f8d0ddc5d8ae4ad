\* Two pastes of up to two files, two projects with two changes of their defaults, three
\* project keys, lists of two projects and two reloads or lists, three board pages and two
\* refetches, two expiries, one loss and two visits.
SPECIFICATION Spec
CONSTANTS
  FileNames = {shot, log}
  MaxMarks = 3
  MaxPastes = 2
  Projects = {web, ops}
  Filters = {open, mine}
  NoDefault = NoDefault
  MaxViewEdits = 2
  AllProjects = {web, ops, api}
  NoProject = NoProject
  MaxListed = 2
  MaxListings = 2
  BoardPages = 3
  MaxRefreshes = 2
  MaxExpiries = 2
  MaxLosses = 1
  MaxVisits = 2
INVARIANTS TypeOK PlaceholderPerUpload FailuresBounded KeptSignedIn ChoiceKept
PROPERTIES TypedKept PlaceholdersGo BoardLoads DeadTabGoesQuiet RequestsEnd
CHECK_DEADLOCK FALSE
