\* Two requests at once, three questions, one change or restart.
CONSTANTS
  t1 = t1
  t2 = t2
  d1 = d1
  d2 = d2
  Threads = {t1, t2}
  Docs = {d1, d2}
  Sections <- TwoSections
  Limit = 2
  Window = 1
  Routers = {TRUE, FALSE}
  Usages <- OneToken
  CallLimit = 2
  TokenLimit = 0
  ErrorLimit = 0
  MaxQuestions = 3
  MaxChanges = 1
SYMMETRY Symmetry
SPECIFICATION Spec
INVARIANTS ExchangesAreWhole AnswersAreGrounded HiddenIsNotCited LogsMatchCalls OverrunIsBounded
CHECK_DEADLOCK FALSE
