\* One operation at a time and a refresh beside it, on one record.
SPECIFICATION Spec
CONSTANTS
  a1 = a1
  a2 = a2
  Actors = {a1, a2}
  Operators = {a1}
  Width = 2
  StartLedger = 1
  MaxLedger = 5
  Retention = 2
  SeamMargin = 1
  MaxLag = 1
INVARIANTS
  TypeOK
  Reconciles
  ProvesTheRecord
CHECK_DEADLOCK FALSE
