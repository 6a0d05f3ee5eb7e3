SPECIFICATION Spec
CONSTANTS
  NoBook = NoBook
  NoItem = NoItem
  Name = {"nested", "shelf"}
  Book = {"b1", "b2"}
  Item = {"torrent"}
  NumFiles = 2
  Start <- TwoFolders
  Loose = {}
  Hits <- HitsOf
  AsinOf <- AsinInName
  ClientOf <- ClientOfItem
  FolderOf <- FolderOfItem
  Strategies = {"move"}
  Callers = {"api", "poll"}
  MaxFaults = 2
INVARIANTS
  TypeOK
  OneBookPerIdentity
  AudioConserved
  RowsNameFiles
PROPERTIES
  ImplementsLedger
