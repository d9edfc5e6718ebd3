SPECIFICATION Spec
CONSTANTS
  Names = {n1, n2, n3, n4}
  MaxDepth = 2
  NoAlias = NoAlias
  Broken = Broken
INVARIANTS
  ChainsRight
PROPERTIES
  ChainsEnd
