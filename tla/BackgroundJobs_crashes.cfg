\* One job, two workers that go down twice, one request at a time.
CONSTANTS
  Jobs = {1}
  Workers = {w1, w2}
  Admins = {a1}
  None = None
  Priorities = {1}
  AttemptLimits = {1, 2}
  StaleAfter = 1
  RetryBase = 1
  RetryMax = 1
  AdminStale = {1}
  AdminDelays = {0}
  MaxOutages = 2
  MaxRequeues = 1
SPECIFICATION Spec
SYMMETRY Interchangeable
INVARIANTS ExclusiveExecution AttemptsCounted RuntimeViewIsTrue
PROPERTY ImplementsLease
