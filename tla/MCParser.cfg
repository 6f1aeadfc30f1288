SPECIFICATION FairSpec
CONSTANTS
  Names = {"a", "b"}
  Sources <- MCSources
  ParseExpr <- MCParseExpr
CHECK_DEADLOCK FALSE
INVARIANTS OwnedOnce EveryTokenOnce ClosingsMatch LatestBlocks AcceptedIffBalanced
PROPERTY ParseEnds
