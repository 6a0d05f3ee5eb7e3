\* Two loops, two scripts, two backups at a time, one archive kept, two starts.
SPECIFICATION Spec
CONSTANTS
  MaxTime = 1
  retention_copies = 1
  StopOrder <- MCStopOrder
  Interval = 1
  SCHEMA_VERSION = 2
  Statements <- MCStatements
  Repeatable = {1}
  MaxStarts = 2
INVARIANT TypeOK
INVARIANT RegistryTruthful
INVARIANT ServedOnMigrated
INVARIANT OrderlyEnd
INVARIANT BackupLoopDies
PROPERTY ReportedIsWhole
CHECK_DEADLOCK FALSE
