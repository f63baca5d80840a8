\* Two calls with two keys, or none, and two contents share one submission slot
\* and a cache of one key; every message has two recipients.
SPECIFICATION FairSpec
CONSTANTS
  c1 = c1
  c2 = c2
  c3 = c3
  r1 = r1
  r2 = r2
  m1 = m1
  m2 = m2
  Calls = {c1, c2}
  Keys = {k1, k2}
  Contents = {m1, m2}
  Recipients = {r1, r2}
  MaxEntries = 1
  SendSlots = 1
  None = None
INVARIANTS
  OneSubmissionPerKey
  StatusTellsTheTruth
  NeverASubset
PROPERTIES
  ImplementsContract
  SendAnswered
CHECK_DEADLOCK FALSE
