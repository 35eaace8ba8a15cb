SPECIFICATION FairSpec
CONSTANTS
  Nodes = {"decl", "drop", "{", "if", "while", "break", "continue", "return", "op", "and", "or"}
  MaxTree = 3
  MaxParams = 1
INVARIANTS
  TypeOK
  OneOpenBlock
  ClosedGraph
  LoopsMatch
  UsesDominated
PROPERTIES
  Sealed
  EveryBlockStarted
