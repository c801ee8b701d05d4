SPECIFICATION Spec
CONSTANTS
  Sectors = 3
  RecordsPerSector = 2
  Snapshots <- BlackBoxSnapshots
  HeartbeatTicks = 2
  OffTailSamples = 2
  SinceCap = 3
  MaxRecords = 8
  MaxFaults = 1
PROPERTY NewestOverwritesOldest
