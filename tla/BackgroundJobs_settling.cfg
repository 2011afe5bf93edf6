\* Two jobs, two workers, retries with backoff, expiring locks, one outage.
CONSTANTS
  Jobs = {1, 2}
  Workers = {w1, w2}
  Admins = {}
  None = None
  Priorities = {1}
  AttemptLimits = {2}
  StaleAfter = 1
  RetryBase = 1
  RetryMax = 1
  AdminStale = {}
  AdminDelays = {}
  MaxOutages = 1
  MaxRequeues = 0
SPECIFICATION FairSpec
PROPERTY JobsSettle
