CONSTANTS
  Kinds <- MCKinds
  MaxAWS = 1
  MaxGCP = 1
SPECIFICATION FairSpec
PROPERTIES DeletionCompletes 
CHECK_DEADLOCK FALSE
