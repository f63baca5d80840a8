SPECIFICATION JobSpec
CONSTANTS
  DayMinutes = 4
  CivilDays <- MCCivilDays
  WallClock <- MCWallClock
  ClockChange = 4
  MaxValues = 2
  MaxCardsScanned = 3
  MaxReportBytes = 6
  MaxResult = 4
  ExpandCases <- MCExpandCases
  SlotCases <- MCSlotCases
  PatchCases <- MCPatchCases
  CreateCases <- MCCreateCases
  NameCases <- MCNameCases
  SearchCases <- MCSearchCases
  Window = 2
  MaxUIDsScanned = 3
  MaxResultBytes = 6
  MaxAttachments = 1
  FitSlack = 1
  MailPageCases <- MCMailPageCases
  MessageCases <- MCMessageCases
  Day = 4
  None = None
  MaxSequence = 2
  EditCases <- MCEditCases
INVARIANTS
  ExpansionIsExact
  OccurrenceEditIsExact
  FreeSlotsAreRight
  CardsAreExact
  ContactSearchIsHonest
  MailPagingIsComplete
  MessageBodyIsAccountedFor
CHECK_DEADLOCK FALSE
