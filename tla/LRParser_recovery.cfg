CONSTANTS
  EOI = "EOI"
  ErrSym = "error"
  NoToken = "none"
  NoNode = "none"
  Terminals <- GTerminals
  Nonterminals <- GNonterminals
  State <- GState
  Inputs <- GInputs
  Rule <- GRule
  RuleLen <- GRuleLen
  RuleSymbol <- GRuleSymbol
  RuleNode <- GRuleNode
  RuleReports <- GRuleReports
  NodeType <- GNodeType
  ActRow <- StrictActRow
  DefAct <- StrictDefAct
  GotoRow <- GGotoRow
  DefGoto <- GDefGoto
  Transitions <- GTransitions
  Items <- GItems
  AfterErr <- GAfterErr
  RecoveryScope <- GRecoveryScope
  Ignored = {"comment", "invalid"}
  Invalid = {"invalid"}
  CheckEvery = 2
  Gaps = {1}
  MaxTokens = 5
SPECIFICATION FairSpec
INVARIANTS TypeOK StackIsPath IgnoredConserved NothingLeftPending StackRangesOrdered ErrorsKeepApart ErrorFreeIffSentence RecoveredTokenIsConsumed
PROPERTIES ReportsInPostOrder ErrorCoversBrokenCode ParseReturns
