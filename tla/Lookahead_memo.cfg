CONSTANTS
  Ignored = {"comment"}
  EOI = "EOI"
  State <- LState
  Start = 0
  End = 40
  RuleLen <- LRuleLen
  RuleSymbol <- LRuleSymbol
  LookaheadRule <- LLookaheadRule
  Action <- LAction
  Row <- LRow
  Transition <- LTransition
  Texts <- MCTexts
  CacheSizes = {1, 2, 1000}
  CheckEvery = 3
SPECIFICATION Spec
INVARIANTS MemoTruthful MemoIsTransparent EachRunsOnce
