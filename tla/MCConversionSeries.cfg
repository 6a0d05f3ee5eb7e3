SPECIFICATION Spec
CONSTANTS
  None = None
  Book = {b1, b2}
  Settings <- OperatorSettings
  NumOriginals = 1
  Hints <- TitledHints
  InPlace = {}
  MaxJobs = 2
  MaxRetries = 1
  MaxFaults = 1
  Score <- SeriesTitles
INVARIANT OriginalsReplaced
