SPECIFICATION Spec
CONSTANTS
  Event <- MCEvent
  Script <- MCScript
  Clause <- MCClause
  ScriptOf <- MCScriptOf
  Matches <- MCMatches
  Bodies <- MCBodies
  Configs <- MCConfigs
  NoEvent = NoEvent
  Synthetic = Synthetic
  MaxDispatches = 2
INVARIANTS
  VisitedIsActiveStack
  DepthBounded
  ReportMatchesTree
  ExhaustionIsFinal
PROPERTIES
  DispatchReturns
