SPECIFICATION Spec
CONSTANTS
  Nodes = {"if", "while", "decl", "drop", "and", "op"}
  MaxTree = 4
  MaxParams = 0
INVARIANTS
  PhiNamesPreds
  UsesDominated
