\* WithMaxKeyCount against the error it promises.
SPECIFICATION Spec
CONSTANTS
  None = None
  Charge = 2
  Sub <- MCSub
  Schema <- MCSchema
  Value <- MCValue
  Instance <- MCInstance
  KeyOrder <- MCKeyOrder
  NameValue <- MCNameValue
  Height <- MCHeight
  Dynamic <- MCDynamic
  Recursive <- MCRecursive
  Validations <- LimitedValidations
INVARIANTS KeyCountSurfaces
CHECK_DEADLOCK FALSE
