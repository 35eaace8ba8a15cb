SPECIFICATION NamesSpec
CONSTANTS
  Names = {a, b}
  FnTypes = {f, g}
  NoName = NoName
  Uses = {"value", "addr", "call", "sizeof"}
  MaxTree = 3
INVARIANT EveryNameSeen
CHECK_DEADLOCK FALSE
