CONSTANTS
  stripe = stripe
  Callers = {c1, c2}
  Processes = {x, y}
  Packages = {a, b}
  Stripes = {stripe}
  Stripe <- MCStripe
  Files = {f}
  Manifest = manifest
  NoTree = NoTree
  None = None
SPECIFICATION Spec
INVARIANTS
  BaseIsWhole
  InstallsAgree
PROPERTIES
  CallsReturn
