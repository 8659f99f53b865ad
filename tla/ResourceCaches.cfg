CONSTANTS
  Documents = {c1, c2}
  Images = {i}
  Resources = {r}
  Fonts = {f}
  Options = {x}
  MaxVersion = 3
  Size <- MCSize
  MaxBytes = 5
  Nothing = Nothing
SPECIFICATION CachesSpec
CONSTRAINT OneCacheAtATime
SYMMETRY Symmetry
INVARIANTS
  CachesAccounted
  NoneOlderThanItsKey
