SPECIFICATION Spec
CONSTANTS
  NoBook = NoBook
  NoItem = NoItem
  Name = {"shelf"}
  Book = {"b1"}
  Item = {}
  NumFiles = 1
  Start <- LooseFolder
  Loose = {"shelf"}
  Hits <- HitsOf
  AsinOf <- AsinInName
  ClientOf <- ClientOfItem
  FolderOf <- FolderOfItem
  Strategies = {"hardlink"}
  Callers = {"api", "scan"}
  MaxFaults = 1
INVARIANTS
  CataloguedWhole
