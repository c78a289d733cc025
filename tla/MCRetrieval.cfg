\* Index: one batch and one other rebuild, one sweep, two revisions of the sources, two
\* values of the scoring parameters.
\* Deletions: the version at the start and two that may replace it, three writes.
\* Answers: two questions about two documents, two changes of the knowledge base.
\* Reading: three concepts over two sources.
\* No deadlock check: rebuilds, questions and bounds are used up.
SPECIFICATION RetrievalSpec
CONSTANTS
  Batches = {g1}
  Singles = {o1}
  Sweepers = {w1}
  MaxSources = 2
  Scorings = {standard, tuned}
  Standard = standard
  Nobody = nobody
  Chunks = {c1, c2, c3}
  Initial = {c1}
  MaxWrites = 3
  TreeFiles = 2
  Sources = {d1, d2}
  Questions = {1, 2}
  Plans <- TwoPlans
  MaxChanges = 2
  Mids = {m1, m2, m3}
  Handles = {h1, h2}
CONSTRAINT OneAtATime
INVARIANTS
  PublishedIndexServes
  ActiveChunksKeepVectors
  DeletionsResume
  BudgetsSuffice
PROPERTIES
  GapsHaveACause
  AnswersCiteServedSources
CHECK_DEADLOCK FALSE
