CONSTANTS
  a = a
  b = b
  c = c
  g = g
  h = h
  NoGroup = NoGroup
  NoContent = NoContent
  Torn = Torn
  FileTexts <- MCSources
  Groups = {NoGroup, g, h}
  Size <- MCSize
  GroupBytes <- MCGroupBytes
  DiffBytes <- MCDiffBytes
  SemanticDiffs = {}
  FileBytes = 1
  MaxSourceBytes = 6
  MaxEntries = 2
  MaxBytes = 23
  MaxSequence = 2
  Rests = {r1, r2}
  MaxExternal = 1
  MaxCrashes = 1
SPECIFICATION HistorySpec
INVARIANTS
  FileIsWhole
  HistoryWasOnDisk
PROPERTIES
  ReplacesWhatTheCallerSaw
  HistoryMovesTheFileOneEntry
