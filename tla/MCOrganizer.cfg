\* Two books, five files, two root folders, four requests or faults.
SPECIFICATION Spec
CONSTANTS
  Book <- MCBook
  File <- MCFile
  Root <- MCRoot
  BookOf <- MCBookOf
  Author <- MCAuthor
  FirstTitle <- MCFirstTitle
  Title <- MCTitle
  FirstPath <- MCFirstPath
  Pattern <- MCPattern
  Clean <- MCClean
  Links <- MCLinks
  MaxEvents = 4
INVARIANT TypeOK
INVARIANT RowsNameOwnFile
PROPERTY NothingDestroyed
CHECK_DEADLOCK FALSE
