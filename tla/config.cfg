SPECIFICATION Spec
CONSTANTS
  Paths <- MCPaths
  MaxText = 2
  Default <- MCDefault
  FileOrder <- MCFileOrder
  ItemOrder <- MCItemOrder
  FileContents <- MCFileContents
  ItemContents <- MCItemContents
  EnvContents <- MCEnvContents
  Missing = Missing
  Broken = Broken
  MaxWaiting = 2
  MaxChanges = 2
INVARIANTS
  TypeOK
  SubstitutionConfluent
  FreshAtRest
  ListenersMatch
PROPERTIES
  ComesToRest
CHECK_DEADLOCK FALSE
