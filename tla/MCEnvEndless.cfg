SPECIFICATION Spec
CONSTANTS
  a = a
  b = b
  NoName = NoName
  Name <- MCName
  Template <- MCTemplate
  ParserErrors = {"first", "second"}
  Directories <- MCDirectories
  MaxMade = 3
  MaxErrors = 1
  MaxPaths = 4
  MaxChanges = 1
PROPERTY LoadReturns
CHECK_DEADLOCK FALSE
