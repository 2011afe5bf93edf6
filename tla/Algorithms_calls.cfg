\* Every call within the bounds; a call is the only step of a behaviour.
CONSTANTS
  MaxTokens = 14
  MaxLimit = 7
  Lines <- DocumentLines
  MaxLines = 4
  Stem <- FileStem
  MaxRank = 3
  Boosts <- SomeBoosts
  MaxHits = 3
  MaxWindow = 1
  SectionTokens = {1, 3}
  Budgets = {2, 4, 6}
  Index <- TwoDocuments
SPECIFICATION Spec
INVARIANTS SplitIsLossless SlugsDiffer LinesKept SearchFollowsRanks ContextFits AccessIsProven
CHECK_DEADLOCK FALSE
