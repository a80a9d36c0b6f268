SPECIFICATION FairSpec
CONSTANTS
  Exporters = {x1, x2}
  BatchSize = 2
  MaxBatches = 2
  MaxBacklog = 2
  MaxCreated = 4
  MaxFaults = 3
  None = None
INVARIANTS
  ExportTypeOK
  NothingIsSkipped
  DeliveredIsDurable
PROPERTIES
  CheckpointAdvances
  AdmissionIsBackedByExport
  EventuallyDelivered
