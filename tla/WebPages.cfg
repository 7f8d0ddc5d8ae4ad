\* One query of any page, two mutations that concern it, and two surprises.
SPECIFICATION Spec
CONSTANTS
  MaxWatched = 1
  MaxClicks = 2
  MaxSurprises = 2
INVARIANTS TypeOK PageCatchesUp
PROPERTIES TogglesReadAsHeld OwnWriteShows ButtonsComeBack
CHECK_DEADLOCK FALSE
