\* Two filenames with one stem, uploaded before the first is converted.
CONSTANTS
  Imports = {1, 2}
  Tasks = {1, 2}
  Workers = {w1}
  Retriers = {}
  Names = {n1, n2}
  Stem <- SharedStem
  Contents = {c1, c2}
  MaxCrashes = 0
  MaxAdmin = 0
  MaxRetries = 0
  None = None
  Partial = Partial
SPECIFICATION Spec
CHECK_DEADLOCK FALSE
INVARIANT CanonicalKept
