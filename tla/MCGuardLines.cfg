SPECIFICATION Spec
CONSTANTS
  Numeral <- MCNumeral
  Pairs <- MCPairs
  Nesting <- MCNesting
  Assignments <- MCAssignments
  DescribesPart <- Fits
  PlainPatterns <- MCPlainPatterns
  SamplePart <- MCSamplePart
  MatchPart <- MCMatchPart
  GuardHolds <- LineHolds
  Rank <- MCRank
  Spelling <- MCSpelling
  Sources <- MCSources
  Loadable <- MCLoadable
  Events <- MCEvents
  Queries <- MCQueries
  ApiPatterns <- MCApiPatterns
  GuardCases <- MCGuardCases
  PatternCases <- MCPatternCases
  TokenCases <- MCTokenCases
  MaxScripts = 1
INVARIANTS
  GuardLinesAnded
CHECK_DEADLOCK FALSE
