\* One sync, read from the bootnode first and then from the RPC.
SPECIFICATION Spec
CONSTANTS
  t1 = t1
  Tasks = {t1}
  Width = 3
  StartLedger = 1
  MaxLedger = 3
  Retention = 2
  EventsLag = 0
  ScanWindow = 3
  PageSize = 2
  FetchLimit = 2
INVARIANT ProcessorEnds
CHECK_DEADLOCK FALSE
