CONSTANTS
  a = a
  b = b
  c = c
  g = g
  NoGroup = NoGroup
  Sources <- MCSources
  Groups <- MCGroups
  Size <- MCSize
  GroupBytes <- MCGroupBytes
  DiffBytes <- MCDiffBytes
  SemanticDiffs = {1}
  FileBytes = 1
  MaxSourceBytes = 6
  MaxEntries = 3
  MaxBytes = 32
  MaxSequence = 4
SPECIFICATION Spec
INVARIANTS
  HistoryIsOneLine
  SequencesIncrease
  EntriesBounded
  NewestRestorable
PROPERTIES
  ImplementsHistory
