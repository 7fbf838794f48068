SPECIFICATION TreeSpec
CONSTANTS
  Names <- MCNames
  Sources <- MCTreeSources
  MayImport <- MCMayImport
  ErrorNames <- MCErrorNames
  Declares <- MCDeclares
  Bounds <- MCBounds
  Rules <- MCRules
  Trees <- MCTrees
INVARIANTS
  ReportsAreCycles
  CleanIsAcyclic
  EveryKnotReported
  PathIsSimple
  OnlyCodeIsKept
  LinesLostInLiterals
  CleanTreeKeepsTables
  RaisedWhereListed
PROPERTIES
  TreeEnds
CHECK_DEADLOCK FALSE
