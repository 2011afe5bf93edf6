\* Two extractions, one change of the documents, the dataset, one reader.
CONSTANTS
  d1 = d1
  d2 = d2
  k1 = k1
  Docs = {d1, d2}
  Sections <- OnePerDoc
  Concepts = {1, 2, 3}
  Clusters = {k1}
  Kinds <- OneKind
  Seed <- TwoSeeds
  SeedEdges <- OneSeedEdge
  Mentions <- Topics
  MaxConcepts = 2
  MaxEdges = 1
  MaxChanges = 1
  MaxRuns = 2
  MaxReads = 1
SPECIFICATION Spec
INVARIANTS EdgesAreSimple SealedIsRead ReplyIsClosed
PROPERTIES RunsKeepCuration FailedIsUntouched
CHECK_DEADLOCK FALSE
