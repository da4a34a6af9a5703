CONSTANTS
  Passwords = {p1, p2}
  NoPassword = none
  MayFail = TRUE
  ListMayMiss = FALSE
SPECIFICATION Spec
SYMMETRY PasswordSymmetry
INVARIANTS
  TypeOK
  PublishedSecretOpensDatabase
PROPERTIES
  ImplementsManagedResource
  NeverRecreatedAfterService
