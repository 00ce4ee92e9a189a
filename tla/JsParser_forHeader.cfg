CONSTANTS
  Texts <- JsTexts
  State <- JsStates
  Start <- JsStart
  End <- JsEnd
  RuleLen <- JsRuleLen
  RuleSymbol <- JsRuleSymbol
  Edges <- JsEdges
  ReduceAlways <- JsReduceAlways
  ReduceOn <- JsReduceOn
  DefGoto <- JsDefGoto
  AfterErr <- JsAfterErr
  RecoveryScope <- JsRecoveryScope
  EmptyStatement <- JsEmptyStatement
  ForSC <- JsForSC
  DoWhile <- JsDoWhile
  NoLineBreak <- JsNoLineBreak
  RestrictedAfter <- JsRestrictedAfter
  RestrictedBefore = {"=>"}
  PostfixTokens = {"++"}
SPECIFICATION Spec
INVARIANT NoSemicolonInForHeader
