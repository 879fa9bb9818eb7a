SPECIFICATION FairSpec
CONSTANTS
  Invoked <- EveryCommand
  Secrets = {s1, s2}
  OwnerSecrets = {o1}
  Keys = {k1, k2}
  Tags = {t1, t2}
INVARIANTS
  TypeOK
  SecretAgreement
  TagKept
  ProvisionedWorks
PROPERTIES
  ImplementsAssetTag
  RetryProvisionsUnlessWedged
