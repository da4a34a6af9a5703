CONSTANTS
  Passwords = {p1}
  NoPassword = none
  MayFail = FALSE
  ListMayMiss = FALSE
SPECIFICATION FairSpec
PROPERTIES
  DeletionCompletes
  ServiceCompletes
