SPECIFICATION WalkSpec
CONSTANTS
  DayMinutes = 4
  CivilDays <- MCCivilDays
  WallClock <- MCWesternClock
  DayBegins <- MCDayBegins
  WalkCases <- MCWalkCases
PROPERTIES
  WalkEnds
CHECK_DEADLOCK FALSE
