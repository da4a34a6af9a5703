CONSTANTS
  Kinds = {"cloudsql"}
  MaxAWS = 0
  MaxGCP = 1
SPECIFICATION FairSpec
PROPERTY CRGoes
CHECK_DEADLOCK FALSE
