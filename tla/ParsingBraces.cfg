CONSTANT Sources <- AllSources
SPECIFICATION Spec
INVARIANT BlocksEndAtTheirBrace
