\* Every list of up to three errors, some with nested causes, and two annotations.
SPECIFICATION Spec
CONSTANTS
  FoundErrors <- MCErrors
  FoundAnnotations <- MCAnnotations
  MaxErrors = 3
  MaxAnnotations = 2
INVARIANTS NothingLost VerdictsAgree Grouped
CHECK_DEADLOCK FALSE
