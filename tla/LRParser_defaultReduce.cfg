CONSTANTS
  EOI = "EOI"
  ErrSym = "error"
  NoToken = "none"
  NoNode = "none"
  Terminals <- GTerminals
  Nonterminals <- GNonterminals
  State <- GState
  Inputs <- GInputs
  Rule <- GRule
  RuleLen <- GRuleLen
  RuleSymbol <- GRuleSymbol
  RuleNode <- GRuleNode
  RuleReports <- GRuleReports
  NodeType <- GNodeType
  ActRow <- ReducingActRow
  DefAct <- ReducingDefAct
  GotoRow <- GGotoRow
  DefGoto <- GDefGoto
  Transitions <- GTransitions
  Items <- GItems
  AfterErr <- GAfterErr
  RecoveryScope <- GRecoveryScope
  Ignored = {"invalid"}
  Invalid = {"invalid"}
  CheckEvery = 512
  Gaps = {1}
  MaxTokens = 4
SPECIFICATION Spec
PROPERTY ErrorCoversBrokenCode
