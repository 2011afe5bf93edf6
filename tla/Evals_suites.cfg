\* A job of two attempts over three cases that are switched on and off, two
\* faults.
CONSTANTS
  c1 = c1
  c2 = c2
  c3 = c3
  s1 = s1
  s2 = s2
  Executors = {"worker"}
  Cases = {c1, c2, c3}
  Expected <- Expectations
  Sources = {s1, s2}
  MaxAttempts = 2
  MaxRuns = 4
  MaxFaults = 2
SPECIFICATION Spec
INVARIANTS SucceededIsWhole RunningIsWorkedOn VerdictsMatchScores JobsMatchRuns
CHECK_DEADLOCK FALSE
