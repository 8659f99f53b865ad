CONSTANTS
  p = p
  q = q
  None = None
  Requests = {r1, r2}
  Keys = {k, l}
  Payloads = {p, q}
  Limit <- MCLimit
  Lifetime <- MCLifetime
  Issued <- MCIssued
  MaxRevocations = 2
  MaxTime = 1
SYMMETRY MCSymmetry
CONSTRAINT RaceOrExpiry
SPECIFICATION Spec
INVARIANTS
  HeadsAreLinear
  AnswersDescribeTheEdit
  NothingGoneIsUsed
  CapacitiesHold
CHECK_DEADLOCK FALSE
