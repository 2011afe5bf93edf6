\* Two uploads of the same bytes, three retries, at most two at once, and a
\* worker, with failures but no outage.
CONSTANTS
  Imports = {1, 2}
  Tasks = {1, 2}
  Workers = {w1}
  Retriers = {r1, r2}
  Names = {n1}
  Stem <- SharedStem
  Contents = {c1}
  MaxCrashes = 0
  MaxAdmin = 0
  MaxRetries = 3
  None = None
  Partial = Partial
SPECIFICATION FairSpec
CHECK_DEADLOCK FALSE
PROPERTIES StatusMoves ImportsSettle
