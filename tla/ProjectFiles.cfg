CONSTANTS
  logo = logo
  photo = photo
  sans = sans
  p1 = p1
  p2 = p2
  p3 = p3
  png = png
  jpg = jpg
  ttf = ttf
  true = true
  r1 = r1
  r2 = r2
  v1 = v1
  v2 = v2
  None = None
  SourceTexts = {"plain", "framed", "printed"}
  Images <- MCImages
  Fonts <- MCFonts
  Paths = {p1, p2, p3}
  Contents = {png, jpg, ttf, true}
  Format <- MCFormat
  FileSystems <- MCFileSystems
  Mutations <- MCMutations
  Manifests <- MCManifests
  Requests = {r1, r2}
  Reviewers = {v1, v2}
  ReviewKinds = {"comment", "reference", "calibration"}
  SidecarLimit = 1
  MaxOutside = 1
  MaxCrashes = 1
SYMMETRY Symmetry
CONSTRAINT TwoRequests
SPECIFICATION FilesSpec
INVARIANTS
  AcknowledgedIsKept
  ProjectIsWhole
CHECK_DEADLOCK FALSE
