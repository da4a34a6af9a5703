CONSTANTS
  pg = pg
  redis = redis
  Resources <- MCResources
  Service <- MCService
  Vpcs = {v1}
  NoVpc = none
  Races = TRUE
  MaxFaults = 0
SPECIFICATION Spec
INVARIANTS
  TeardownIsExclusive
