SPECIFICATION Spec
CONSTANTS
  Texts <- MCTexts
  Letter = {"a"}
  Digit = {"1"}
  Keywords <- MCKeywords
CHECK_DEADLOCK FALSE
INVARIANT TokensPlaced
