\* Every type and option of MCGenerator, and values up to two pointers, elements or entries deep.
SPECIFICATION Spec
CONSTANTS
  Decl <- MCDecl
  Root <- MCRoot
  Options <- MCOptions
  Depth = 2
INVARIANTS OwnJSONValid NullsExact FieldsAgree DefinitionsComplete
CHECK_DEADLOCK FALSE
