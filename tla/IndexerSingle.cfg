\* One worker that crashes, shuts down and restarts.
SPECIFICATION FairSpec
CONSTANTS
  w1 = w1
  StreamOrder <- AllStreams
  Workers = {w1}
  StartLedger = 1
  MaxLedger = 2
  Width = 2
  Retention = 2
  Malformed <- FirstEvent
  MaxCopies = 2
  Backfills = FALSE
  DumpSpan = 0
INVARIANTS
  ActivityOnce
PROPERTIES
  RpcModeKept
  CtKeepsUp
  SppKeepsUp
