\* Three uploads of the same bytes, a retry, two workers, a crash at any step,
\* a task canceled or requeued.
CONSTANTS
  Imports = {1, 2, 3}
  Tasks = {1, 2}
  Workers = {w1, w2}
  Retriers = {r1}
  Names = {n1}
  Stem <- SharedStem
  Contents = {c1}
  MaxCrashes = 1
  MaxAdmin = 1
  MaxRetries = 1
  None = None
  Partial = Partial
SPECIFICATION Spec
SYMMETRY Alike
CHECK_DEADLOCK FALSE
INVARIANTS LiveContentsDistinct SucceededHasRaw TaskDoneMeansImported NoneForgotten
