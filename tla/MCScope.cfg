SPECIFICATION EnvSpec
CONSTANTS
  Clause = {"tui", "headless"}
  NoClause = NoClause
  Name <- MCName
  Builtin = {"x"}
  Bindings <- MCBindings
  Value = {"1"}
  Namespace <- MCNamespace
  Pattern = {"universal", "surface"}
  CoveredBy <- MCCoveredBy
  Handler = {"save", "build"}
  Specs <- MCSpecs
  Fails = {"build"}
  MaxBindings = 2
INVARIANT ScopedNamespaces
