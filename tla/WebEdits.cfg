\* Two drops on a board of three cards, two changes of an issue with one
\* mishap, two saves of its custom fields with two incidents.
SPECIFICATION Spec
CONSTANTS
  Letters = 3
  FirstRank = 2
  Cards = {a, b, c}
  Columns = {todo, done}
  People = {ann}
  MaxDrops = 2
  Texts = {low, high}
  Boxes = {1, 2}
  MaxRequests = 2
  MaxMishaps = 1
  FieldKeys = {severity, browser}
  FieldValues = {old, new}
  MaxSaves = 2
  MaxIncidents = 2
INVARIANTS TypeOK RankBetweenFits DropLandsInOrder
PROPERTIES SaveSparesUntouched SettledTickIsAlone SaveSparesSeen
CHECK_DEADLOCK FALSE
