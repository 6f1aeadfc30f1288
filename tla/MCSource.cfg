SPECIFICATION SourceSpec
CONSTANTS
  Texts <- MCTexts
  Letter = {"a", "d", "e", "i", "n", "x"}
  Digit = {"0", "1"}
  HexDigit = {"0", "1", "a", "d", "e"}
  Keywords <- MCKeywords
  Names = {"a"}
  NameOf <- MCNameOf
  ParseExpr <- Known
INVARIANTS EveryCharOnce ContentBetweenTags LinesFollow
INVARIANTS HolesReported EveryTokenInTree PrecedenceRespected
INVARIANT TextKept
PROPERTY ReadToTheEnd
CHECK_DEADLOCK FALSE
