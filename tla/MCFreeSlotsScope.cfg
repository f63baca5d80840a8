SPECIFICATION Spec
CONSTANTS
  calA = calA
  calB = calB
  calD = calD
  c1 = c1
  Calls = {c1}
  CalendarList <- MCCalendarList
  Scope = {calA, calB}
  Worlds <- MCWorlds
  SearchArgs <- MCSearchArgs
  SlotArgs <- MCSlotArgs
  DayMinutes = 4
  CivilDays <- MCCivilDays
  WallClock <- MCWallClock
  Workers = 2
  ReadSlots = 2
  MaxRetries = 1
  MaxResults = 2
  MaxMaterialized = 3
  MaxRows = 1
INVARIANTS
  ReadsStayInScope
