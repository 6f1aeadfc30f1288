SPECIFICATION Spec
CONSTANTS
  Names = {"a", "b"}
  Sources <- MCSources
  ParseExpr <- MCParseExpr
CHECK_DEADLOCK FALSE
INVARIANT BlocksInTemplate
