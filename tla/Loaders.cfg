\* Five chains, every kind of URI, and a file system that changes twice under the load.
SPECIFICATION Spec
CONSTANTS
  None = None
  file = file
  other = other
  pipe = pipe
  secret = secret
  Chains <- MCChains
  Request <- MCRequest
  Roots <- MCRoots
  Outside = "outside"
  Trees <- MCTrees
  Name <- MCName
  Content <- MCContent
  Kind <- MCKind
  MaxSize = 1
  MaxChanges = 2
  MaxLinks = 2
INVARIANTS OnlyWholeFilesOfRoot FailureSurfaces MetaOffline
PROPERTIES EveryLoadReturns
CHECK_DEADLOCK FALSE
