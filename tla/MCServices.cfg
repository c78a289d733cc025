\* Settings: two candidates of rebuild keys over two knowledge bases, one reindex of
\* each, two threads that apply the same intent, one plain save, two further events.
\* Vectors: a served and a fresh knowledge base, two schemas, two candidates that may
\* go there and back, one cleanup at a time, one graph bound by ingestion.
\* No deadlock check: candidates and bounds may be used up.
SPECIFICATION ServicesSpec
CONSTANTS
  Candidates = {c1, c2}
  KBs = {k1, k2}
  Base = base
  MaxReindexes = 1
  Attempts = {a1, a2}
  MaxSaves = 1
  MaxVersions = 3
  MaxEvents = 2
  Bases = {v1, v2}
  Fresh = {v2}
  Schemas = {home, other}
  Home = home
  Shadows = {c1, c2}
  Cleaners = {x1}
  Absent = absent
  MaxRebinds = 1
SYMMETRY Interchangeable
INVARIANTS
  PointersFollowPromotions
  OneVersionPerIntent
  SettledSettingsServe
  ServingVectorsExist
  PendingCleanupFencesUse
  RollbacksAreRestorable
CHECK_DEADLOCK FALSE
