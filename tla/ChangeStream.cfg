CONSTANTS
  MainCount = 3
  ImportCount = 2
  MainSaves <- MCMainSaves
  ImportSaves <- MCImportSaves
  Importers = {1, 2}
  Fetches = {f, g}
  MaxBreaks = 1
  FirstLoadFails = FALSE
  Nothing = Nothing
SPECIFICATION StreamSpec
PROPERTIES
  KeptInformed
  NeverGoesBack
