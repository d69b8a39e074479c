\* One sync, an archive that is up to date, and a pool that was quiet.
SPECIFICATION Spec
CONSTANTS
  t1 = t1
  Tasks = {t1}
  Width = 3
  StartLedger = 1
  MaxLedger = 3
  Retention = 1
  EventsLag = 0
  ScanWindow = 3
  PageSize = 2
  FetchLimit = 2
INVARIANT ResumesAfterHandoff
CHECK_DEADLOCK FALSE
