\* Two calls about one event that other clients edit, delete, move between two
\* paths and replace by another event.
SPECIFICATION Spec
CONSTANTS
  c1 = c1
  c2 = c2
  u1 = u1
  u2 = u2
  direct = direct
  imported = imported
  Calls = {c1, c2}
  Uids = {u1, u2}
  Targets = {u1}
  Hrefs = {direct, imported}
  DirectPath <- MCDirectPath
  MaxLocations = 1
  MaxVersions = 2
  None = None
SYMMETRY Symmetry
INVARIANTS
  ReplacesWhatItRead
  ReplyIsDefinite
CHECK_DEADLOCK FALSE
