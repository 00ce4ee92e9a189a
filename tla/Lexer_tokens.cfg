SPECIFICATION Spec
CONSTANTS
  NumChars = 5
  Newline = 1
  NonAscii = {4, 5}
  MinSelfLoopBytes = 2
  RuleSets <- AllRuleSets
  Texts <- SourceTexts
INVARIANTS TokensAsDefined LinesCounted IdenticalRulesReported BacktrackingReported EmptyTextReported
