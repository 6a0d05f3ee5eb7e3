\* What is said to exist does: refuted by a deleted book.
SPECIFICATION Spec
CONSTANTS
  Provider <- MCProvider
  Id <- MCId
  Locale <- MCLocale
  Date <- MCDate
  Name <- MCName
  Hits <- MCHits
  Selections <- MCSelections
  ChainLocale = "us"
  LastDay = 2
  BatchSize = 1
  MaxBooks = 2
  MaxEvents = 4
CHECK_DEADLOCK FALSE
PROPERTY ExistsMeansExists
