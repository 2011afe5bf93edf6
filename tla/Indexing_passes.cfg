\* Two passes that overlap, one change of the directory or by an administrator, one crash.
CONSTANTS
  b1 = b1
  b2 = b2
  Files = {1, 2}
  Slugs = {"intro", "usage"}
  Bodies = {b1, b2}
  Texts <- SmallTexts
  NewTexts <- EditTexts
  Passes = {p1, p2}
  None = None
  FirstStates <- RacedOrMissing
  MaxChanges = 1
  MaxCrashes = 1
SPECIFICATION FairSpec
INVARIANTS ChunksMatchBody SectionsHaveDocuments LoneRebuildIsImage ExportOnlyCommitted
PROPERTIES RebuildKeepsLifecycle PassesEnd
CHECK_DEADLOCK FALSE
