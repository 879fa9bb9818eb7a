SPECIFICATION AttestationSpec
CONSTANTS
  Secrets = {s1, s2}
  OwnerSecrets = {}
  Keys = {k1, k2}
  Tags = {t1}
  Requests = {r1, r2}
  Invoked <- ServedBeside
SYMMETRY Symmetry
INVARIANTS
  ServiceTypeOK
  QuoteVerifies
PROPERTY
  Spec
