SPECIFICATION Spec
CONSTANTS
  BufSize = 5
  Grammars <- BufferGrammars
INVARIANTS IntersectionsAsDefined
