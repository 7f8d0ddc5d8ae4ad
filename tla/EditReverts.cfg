\* Two changes of an issue by one person, one of them by the edit form.
SPECIFICATION Spec
CONSTANTS
  Letters = 3
  FirstRank = 2
  Cards = {a, b, c}
  Columns = {todo, done}
  People = {ann}
  MaxDrops = 2
  Texts = {low, high}
  Boxes = {1, 2}
  MaxRequests = 2
  MaxMishaps = 1
  FieldKeys = {severity, browser}
  FieldValues = {old, new}
  MaxSaves = 2
  MaxIncidents = 2
PROPERTY SaveWritesOnlyTyped
CHECK_DEADLOCK FALSE
