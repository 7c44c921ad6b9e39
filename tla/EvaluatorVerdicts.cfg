\* Combinations of object schemas, of array schemas and of branches in branches, under every way of stopping early.
SPECIFICATION Spec
CONSTANTS
  None = None
  Charge = 1
  Sub <- MCSub
  Schema <- MCSchema
  Value <- MCValue
  Instance <- MCInstance
  KeyOrder <- MCKeyOrder
  NameValue <- MCNameValue
  Height <- MCHeight
  Dynamic <- NoResources
  Recursive <- NoResources
  Validations <- MCValidations
INVARIANTS VerdictCorrect AnnotationsHold
CHECK_DEADLOCK FALSE
