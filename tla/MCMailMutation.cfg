\* Two mutations of one message that other clients change, mark, expunge and
\* renumber, on servers with every combination of capabilities.
SPECIFICATION Spec
CONSTANTS
  c1 = c1
  c2 = c2
  m1 = m1
  Calls = {c1, c2}
  Msgs = {m1}
  Slots = 1
  MaxMod = 3
  MaxValidity = 2
  None = None
SYMMETRY Symmetry
INVARIANTS
  CopyBeforeRemoval
  NamedMessageOnly
  AnswerIsTrue
CHECK_DEADLOCK FALSE
