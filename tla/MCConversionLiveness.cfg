SPECIFICATION FairSpec
CONSTANTS
  None = None
  Book = {b1}
  Settings <- OperatorSettings
  NumOriginals = 1
  Score <- DistinctTitles
  Hints <- TitleOnly
  InPlace = {}
  MaxJobs = 2
  MaxRetries = 1
  MaxFaults = 1
PROPERTIES
  QueuedIsServed
  RunningIsReaped
