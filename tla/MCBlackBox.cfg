SPECIFICATION Spec
CONSTANTS
  Sectors = 3
  RecordsPerSector = 2
  Snapshots <- BlackBoxSnapshots
  HeartbeatTicks = 1
  OffTailSamples = 2
  SinceCap = 1
  MaxRecords = 8
  MaxFaults = 1
INVARIANTS
  SessionIdsUnique
  FaultSpoilsOneSector
  TailKeepsReason
  DumpedRowsCarryTheirSession
PROPERTIES
  OldestGoesFirst
