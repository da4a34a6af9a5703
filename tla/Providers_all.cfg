CONSTANTS
  Provs <- MCProvs
  Passwords = {p1, p2}
  NoPassword = none
SPECIFICATION FairSpec
INVARIANTS
  PublishedSecretWorks
  SettingsBeforePublish
PROPERTIES
  ImplementsManagedResource
  WindowNotLost
  DeletionCompletes
  ServiceCompletes
