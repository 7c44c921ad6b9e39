\* The embedded documents against the schemes MetaLoader promises.
SPECIFICATION Spec
CONSTANTS
  None = None
  file = file
  other = other
  pipe = pipe
  secret = secret
  Chains <- MCChains
  Request <- MCRequest
  Roots <- MCRoots
  Outside = "outside"
  Trees <- MCTrees
  Name <- MCName
  Content <- MCContent
  Kind <- MCKind
  MaxSize = 1
  MaxChanges = 2
  MaxLinks = 2
INVARIANTS BothSchemes
CHECK_DEADLOCK FALSE
