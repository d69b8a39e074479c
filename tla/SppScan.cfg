\* One sync on an RPC that scans one ledger for an answer: a quiet ledger, then
\* one with an event.
SPECIFICATION Spec
CONSTANTS
  t1 = t1
  Tasks = {t1}
  Width = 3
  StartLedger = 1
  MaxLedger = 2
  Retention = 2
  EventsLag = 0
  ScanWindow = 1
  PageSize = 2
  FetchLimit = 1
INVARIANT FullyIndexedIsComplete
CHECK_DEADLOCK FALSE
