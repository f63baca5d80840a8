SPECIFICATION WalkSpec
CONSTANTS
  DayMinutes = 4
  CivilDays <- MCCivilDays
  WallClock <- MCWallClock
  DayBegins <- MCDayBegins
  WalkCases <- MCWalkCases
INVARIANTS
  WalkIsExact
PROPERTIES
  WalkEnds
CHECK_DEADLOCK FALSE
