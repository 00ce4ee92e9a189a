SPECIFICATION Spec
CONSTANTS
  Grammars <- AllGrammars
  Depths = {1, 2, 3}
  MaxLen = 4
  ExprLen = 7
INVARIANTS
  LookaheadsExact
  TablesRecognizeLanguageApart
  TreesFollowPrecedence
  LookaheadsDecide
  MergedStatesAgreeApart
  PackedTablesAgreeApart
  PackedTablesRecognizeLanguage
