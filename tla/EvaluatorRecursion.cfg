\* Recursive schemas under small limits, and dynamic references with no limit in the way.
SPECIFICATION Spec
CONSTANTS
  None = None
  Charge = 2
  Sub <- MCSub
  Schema <- MCSchema
  Value <- MCValue
  Instance <- MCInstance
  KeyOrder <- MCKeyOrder
  NameValue <- MCNameValue
  Height <- MCHeight
  Dynamic <- MCDynamic
  Recursive <- MCRecursive
  Validations <- MCValidations
INVARIANTS LimitsHold VerdictCorrect
PROPERTIES RunRestores Terminates
CHECK_DEADLOCK FALSE
