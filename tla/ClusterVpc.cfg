CONSTANTS
  z1 = z1
  z2 = z2
  Zones <- MCZones
  Clusters <- MCClusters
  AddrBits = 6
  MinMask = 3
  DefaultMask = 4
  SubnetMask = 5
  GCPMask = 3
  Ranges <- MCRanges
  MaxTrouble = 2
SPECIFICATION FairSpec
INVARIANTS
  PlanClear
  SubnetsExact
  GroupSpansZones
  NoNeedlessSubnet
PROPERTIES
  GroupsReady
