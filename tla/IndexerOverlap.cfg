\* Two workers overlap and the backfill script runs beside them.
SPECIFICATION Spec
CONSTANTS
  w1 = w1
  w2 = w2
  StreamOrder <- SppStream
  Workers = {w1, w2}
  StartLedger = 1
  MaxLedger = 2
  Width = 3
  Retention = 2
  Malformed = {}
  MaxCopies = 1
  Backfills = TRUE
  DumpSpan = 0
SYMMETRY WorkerSymmetry
INVARIANTS
  NoGap
PROPERTIES
  ImplementsArchive
CHECK_DEADLOCK FALSE
