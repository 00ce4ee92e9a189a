SPECIFICATION Spec
CONSTANTS
  BufSize = 5
  Grammars <- PassGrammars
INVARIANTS SetsAsDefinedApart OnlyCyclesFail ComponentsInOrder
PROPERTIES RoundsOnlyAdd ClosureSpec
