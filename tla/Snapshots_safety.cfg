CONSTANTS
  Kinds <- MCKinds
  MaxAWS = 1
  MaxGCP = 2
SPECIFICATION Spec
INVARIANTS NoOrphan CompleteIsUsable
PROPERTIES BackupKept
CHECK_DEADLOCK FALSE
