CONSTANTS
  Passwords <- MCPasswords
  HashKeys <- MCHashKeys
  Lists <- MCLists
  Handoffs <- MCHandoffs
  Templates <- MCTemplates
  Paths <- MCPaths
  Upper <- MCUpper
  Lower <- MCLower
  Known <- MCKnown
SPECIFICATION Spec
INVARIANTS ObscuringLosesNothing CutListIsPrefix FrontEndReadsHandoff PathIsOneArgument
CHECK_DEADLOCK FALSE
