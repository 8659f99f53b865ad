CONSTANTS
  plain = plain
  importing = importing
  broken = broken
  r1 = r1
  r2 = r2
  None = None
  Default = Default
  Sources = {plain, importing, broken}
  Importing = {importing}
  Plannable = {plain, importing}
  Imports = {i1, i2}
  Catalogs = {c1, c2}
  Scenarios = {Default, sc}
  Requests = {r1, r2}
  CacheLimit = 1
  MaxWrites = 2
SPECIFICATION Spec
SYMMETRY Symmetry
INVARIANTS
  ReplyDescribesRead
  CacheBounded
  QuietCatalogChangeSeen
