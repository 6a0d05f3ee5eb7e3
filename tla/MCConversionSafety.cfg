SPECIFICATION Spec
SYMMETRY BookSymmetry
CONSTANTS
  None = None
  Book = {b1, b2}
  Settings <- BackendSettings
  NumOriginals = 2
  Hints <- TitledHints
  InPlace = {}
  MaxJobs = 2
  MaxRetries = 1
  MaxFaults = 1
  Score <- DistinctTitles
INVARIANTS
  TypeOK
  OlderActiveWasRetried
  CompletedMeansCatalogued
  OriginalsReplaced
  DeletionsAudited
PROPERTIES
  ImplementsLifecycle
  CompletionUndoneOnlyByLateReply
