CONSTANTS
  EOI = "EOI"
  ErrSym = "error"
  NoToken = "none"
  NoNode = "none"
  Terminals <- GTerminals
  Nonterminals <- GNonterminals
  State <- GState
  Inputs <- GInputs
  Rule <- GRule
  RuleLen <- GRuleLen
  RuleSymbol <- GRuleSymbol
  RuleNode <- GRuleNode
  RuleReports <- GRuleReports
  NodeType <- GNodeType
  ActRow <- StrictActRow
  DefAct <- StrictDefAct
  GotoRow <- GGotoRow
  DefGoto <- GDefGoto
  Transitions <- GTransitions
  Items <- GItems
  AfterErr <- GAfterErr
  RecoveryScope <- GRecoveryScope
  Ignored = {"invalid"}
  Invalid = {"invalid"}
  CheckEvery = 512
  Gaps = {0, 1}
  MaxTokens = 4
  Width = 4
  MaxNodes = 4
SPECIFICATION MCSpec
INVARIANTS
  AstTypeOK
  TreeMatchesRanges
  SiblingsInOrder
  RootsLieOnStack
  TreeIsComplete
