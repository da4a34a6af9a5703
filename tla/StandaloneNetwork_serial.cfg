CONSTANTS
  pg = pg
  redis = redis
  Resources <- MCResources
  Service <- MCService
  Vpcs = {v1, v2}
  NoVpc = none
  Races = FALSE
  MaxFaults = 2
SPECIFICATION FairSpec
INVARIANTS
  
  NetworkGoesWithLastCR
PROPERTIES
  NeverCutOff
  ConnectionCompletes
  TeardownCompletes
