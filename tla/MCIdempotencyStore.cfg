\* Three calls race for one key of each of the two tools with room for a single
\* claim; the clock lets known results expire, also those of a repeated call, and
\* the service may hang for ever.
SPECIFICATION FairSpec
CONSTANTS
  c1 = c1
  c2 = c2
  c3 = c3
  Calls = {c1, c2, c3}
  CallerKeys = {k1}
  p1 = p1
  p2 = p2
  Params = {p1, p2}
  MaxEntries = 1
  TTL = 1
  MaxTime = 2
  None = None
INVARIANTS
  RepeatOnlyAfterKnownExpiry
  ReplayTellsTheTruth
PROPERTIES
  ForgetsOnlyKnownExpired
  ImplementsContract
  KeyedCallAnswered
CHECK_DEADLOCK FALSE
