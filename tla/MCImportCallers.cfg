SPECIFICATION FairSpec
CONSTANTS
  NoBook = NoBook
  NoItem = NoItem
  Name = {"shelf"}
  Book = {"b1", "b2"}
  Item = {"second", "stray"}
  NumFiles = 1
  Start <- HomeFolder
  Loose = {}
  Hits <- HitsOf
  AsinOf <- AsinInName
  ClientOf <- ClientOfItem
  FolderOf <- FolderOfItem
  Strategies = {"copy"}
  Callers = {"scan", "api", "poll"}
  MaxFaults = 0
PROPERTIES
  OnlyApiCommitsHalves
  LockReleased
  DownloadsSettled
  ImplementsLedger
