\* Pairs of references, dialects, URI rules, failures and collisions.
SPECIFICATION Spec
CONSTANTS
  None = None
  World <- MCWorld
  Alphabet <- MCAlphabet
  Input <- MCInputs
  MaxFaults = 1
INVARIANTS Consistent RefsMeanTheirURI PolicyDecides ValidationReady Sound
PROPERTIES CompileReturns
