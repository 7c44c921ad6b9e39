\* Every assertion keyword over numbers at the edges of the two forms of an exponent, and over lists of look-alikes.
SPECIFICATION Spec
CONSTANTS
  W = 2
  MaxInt = 42
  Keywords <- MCKeywords
  Instances <- MCInstances
INVARIANTS RejectsOnlyMalformed VerdictsExact DuplicatesExact
CHECK_DEADLOCK FALSE
