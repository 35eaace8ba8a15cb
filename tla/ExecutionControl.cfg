SPECIFICATION ExecSpec
CONSTANTS
  Nodes = {"drop", "if", "while", "break", "continue", "return", "and"}
  MaxTree = 3
  MaxParams = 0
PROPERTIES
  ImplementsSource
