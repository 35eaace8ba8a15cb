CONSTANTS
  Lengths = {0, 2, 64}
  MaxParams = 1
  MaxTypes = 7
  SizeModulus = 256
  MaxLayers = 4
SPECIFICATION Spec
INVARIANTS TypesOK Unique Answers DeclaratorsMean SpellingsParse SizesWrap
CHECK_DEADLOCK FALSE
