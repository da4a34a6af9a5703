SPECIFICATION FairSpec
CONSTANT Resources <- MCResources
INVARIANTS
  NetworkGoesWithLastCR
  InstanceKeepsNetwork
PROPERTIES
  DeletionCompletes
  InstanceCreated
CHECK_DEADLOCK FALSE
