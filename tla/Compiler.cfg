\* Single flight of three calls on one URI; copy-on-write registry under two calls and three AddResource invocations.
SPECIFICATION MCSpec
CONSTANTS
  c1 = c1
  c2 = c2
  c3 = c3
  u1 = u1
  u2 = u2
  d1 = d1
  d2 = d2
  bad = bad
  None = None
  Call = {c1, c2, c3}
  URI = {u1, u2}
  Doc = {d1, d2, bad}
  Malformed = {bad}
  MaxAdds = 3
INVARIANTS OneSchemaPerURI NoStaleFailure IInv SeedsOneRegistry OneEntryPerURI
PROPERTIES EveryCallReturns PublishesOnce ArraysImmutable RegistryGrows
CHECK_DEADLOCK FALSE
