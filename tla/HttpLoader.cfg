\* Three calls on a URI whose document changes, with a clock, and on one that is refused.
SPECIFICATION Spec
CONSTANTS
  c1 = c1
  c2 = c2
  c3 = c3
  u1 = u1
  u2 = u2
  None = None
  Call = {c1, c2, c3}
  URI = {u1, u2}
  Rejected = {u2}
  TTL = {0, 1}
  MaxVersion = 2
  MaxTime = 2
INVARIANTS IInv ErrorsShared NeverBack
PROPERTIES EvictsOnlyExpired EveryLoadReturns
CHECK_DEADLOCK FALSE
