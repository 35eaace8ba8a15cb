SPECIFICATION NamesSpec
CONSTANTS
  Names = {a, b}
  FnTypes = {f, g}
  NoName = NoName
  Uses = {"value", "addr", "call", "sizeof"}
  MaxTree = 5
SYMMETRY Symmetry
INVARIANTS
  LexicalScoping
  OneDeclaration
  SymbolsDistinct
  JumpsInLoops
  UnseenIsItself
  OwnSlots
CHECK_DEADLOCK FALSE
