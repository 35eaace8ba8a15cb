SPECIFICATION ExecSpec
CONSTANTS
  Nodes = {"decl", "drop", "{", "if", "while", "op", "and", "or"}
  MaxTree = 2
  MaxParams = 1
PROPERTIES
  ImplementsSource
