\* Two operations at a time, in two tabs or in one, on one record.
SPECIFICATION Spec
CONSTANTS
  a1 = a1
  a2 = a2
  Actors = {a1, a2}
  Operators = {a1, a2}
  Width = 2
  StartLedger = 1
  MaxLedger = 5
  Retention = 5
  SeamMargin = 1
  MaxLag = 1
SYMMETRY TabSymmetry
INVARIANT Reconciles
CHECK_DEADLOCK FALSE
