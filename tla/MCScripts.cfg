SPECIFICATION ScriptsSpec
\* A registry that has answered a question stops.
CHECK_DEADLOCK FALSE
CONSTANTS
  Numeral <- MCNumeral
  Pairs <- MCPairs
  Nesting <- MCNesting
  Assignments <- MCAssignments
  DescribesPart <- Fits
  PlainPatterns <- MCPlainPatterns
  SamplePart <- MCSamplePart
  MatchPart <- MCMatchPart
  GuardHolds <- LineHolds
  Rank <- MCRank
  Spelling <- MCSpelling
  Sources <- MCSources
  Loadable <- MCLoadable
  Events <- MCEvents
  Queries <- MCQueries
  ApiPatterns <- MCApiPatterns
  GuardCases <- MCGuardCases
  PatternCases <- MCPatternCases
  TokenCases <- MCTokenCases
  MaxScripts = 2
  Clause = {"tui", "headless"}
  NoClause = NoClause
  Name <- MCName
  Builtin = {"x"}
  Bindings <- MCBindings
  Value = {"1"}
  Namespace <- MCNamespace
  Pattern = {"universal", "surface"}
  CoveredBy <- MCCoveredBy
  Handler = {"save", "build"}
  Specs <- MCSpecs
  Fails = {"build"}
  MaxBindings = 2
INVARIANTS
  ReadAsWritten
  MatchesAsWritten
  FoundIsWhatCanRun
  ApiInScope
  GuardPrecedence
  IdsUnique
  OwnNames
