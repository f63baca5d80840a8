\* Three callers and an attempt of two requests, as for the calendar: an owner that
\* fails, a waiter that takes over and one that gives up or comes late.
SPECIFICATION FairSpec
CONSTANTS
  c1 = c1
  c2 = c2
  c3 = c3
  Callers = {c1, c2, c3}
  Steps = 2
  None = None
INVARIANTS
  SingleFlight
  OneCompleteResult
PROPERTIES
  CancelledReturns
  AnsweredReturns
CHECK_DEADLOCK FALSE
