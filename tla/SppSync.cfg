\* Two syncs on one storage: every interleaving of their steps with the chain,
\* the archive and the processor.
SPECIFICATION Spec
CONSTANTS
  t1 = t1
  t2 = t2
  Tasks = {t1, t2}
  Width = 3
  StartLedger = 1
  MaxLedger = 2
  Retention = 1
  EventsLag = 1
  ScanWindow = 2
  PageSize = 2
  FetchLimit = 1
SYMMETRY TaskSymmetry
INVARIANTS
  TypeOK
  NoEventSkipped
  CompleteUnlessTorn
CHECK_DEADLOCK FALSE
