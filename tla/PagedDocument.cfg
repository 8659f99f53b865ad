CONSTANTS
  Documents <- PassDocuments
  MaxPages = 5
  Shells <- MCShells
  MaxTotal = 3
  CorrectionLimit = 4
SPECIFICATION PagedSpec
INVARIANTS
  LinesInOrder
  RelaxationsReported
  TurnsExplained
  GroupsKept
  TallContentOnly
  TotalsAgree
PROPERTIES
  PagesAreFilled
