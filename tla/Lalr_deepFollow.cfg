SPECIFICATION Spec
CONSTANTS
  Grammars <- DeepFollow
  Depths = {1, 2, 3}
  MaxLen = 4
  ExprLen = 7
INVARIANT TablesRecognizeLanguage
