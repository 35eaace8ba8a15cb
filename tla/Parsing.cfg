CONSTANT Sources <- AllSources
SPECIFICATION FairSpec
INVARIANTS TypeOK ReportedOnce BlocksKept MatchesGrammar
PROPERTY Terminates
