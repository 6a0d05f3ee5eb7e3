\* Two books ever, two ids, four requests that write.
SPECIFICATION Spec
CONSTANTS
  Provider <- MCProvider
  Id <- MCId
  Locale <- MCLocale
  Date <- MCDate
  Name <- MCName
  Hits <- MCHits
  Selections <- MCSelections
  ChainLocale = "us"
  LastDay = 2
  BatchSize = 1
  MaxBooks = 2
  MaxEvents = 4
INVARIANT TypeOK
PROPERTY AddedNamesItsBook
PROPERTY NoDuplicateCreated
PROPERTY ByItselfOnlyAsFuture
CHECK_DEADLOCK FALSE
