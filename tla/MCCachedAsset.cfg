SPECIFICATION Spec
CONSTANTS
  Runs = {r1}
  K = 2
  Modes <- EagerAndCached
INVARIANTS
  ManifestComplete
