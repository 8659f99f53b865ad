CONSTANTS
  Tables <- MCTables
  MaxPages = 3
SPECIFICATION Spec
INVARIANTS
  RowsInOrder
  CellsHaveRoom
  PoliciesHold
  ReportsAreTrue
