SPECIFICATION Spec
CONSTANTS
  CurrentVersion = 2
  CacheMaxBytes = 2
  Files <- MCFiles
  Dirs <- MCDirs
  Contents <- MCContents
  Manifests <- MCManifests
  Recent <- MCRecent
  InlineRead = 1
  Chunk = 1
  PrefetchBudget = 2
  MaxSteps = 4
CHECK_DEADLOCK FALSE
INVARIANTS
  AnswerIsRecent SchemaMatchesVersion RetainedOutlivesRuns
PROPERTIES
  StoredWhole
