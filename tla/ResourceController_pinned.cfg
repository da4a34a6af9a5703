CONSTANTS
  aws = aws
  gcp = gcp
  Strategies <- MCStrategies
  NoStrategy = none
  NoEntry = missing
  PersistFirst = TRUE
  NeedsParent = TRUE
SPECIFICATION FairSpec

  
PROPERTIES
  ImplementsManagedResource
  DeletionCompletes
