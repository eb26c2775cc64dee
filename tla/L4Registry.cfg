SPECIFICATION L4Spec
CONSTANTS
  Tool = {t1, t2}
  Sig = {s1, s2, s3}
  Revoked = Revoked
  Op = {o1}
SYMMETRY Symmetry
INVARIANTS
  ValidatedCallsLand
  RefusalsHaveChurn
