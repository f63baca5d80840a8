\* Two calls about one contact, one network place, one retry and one redirect of
\* a read; other clients edit, delete and replace the contact meanwhile.
SPECIFICATION Spec
CONSTANTS
  Calls = {c1, c2}
  Uids = {u1, u2}
  Targets = {u1}
  Hrefs = {h1, h2}
  Slots = 1
  MaxReadAttempts = 2
  MaxRedirects = 1
  MaxVersions = 2
  None = None
SYMMETRY Symmetry
INVARIANTS
  ContactReplacesWhatItRead
  ContactReplyIsDefinite
  ReturnedETagIsFresh
  PlaceOnlyOnline
CHECK_DEADLOCK FALSE
