\* The tag example of the generate package's documentation: an enum on a list of strings.
SPECIFICATION Spec
CONSTANTS
  Decl <- MCDecl
  Root <- RolesRoot
  Options <- MCOptions
  Depth = 2
INVARIANTS OptionListsValid
CHECK_DEADLOCK FALSE
