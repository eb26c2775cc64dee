SPECIFICATION L4Spec
CONSTANTS
  Tool = {t1}
  Sig = {s1, s2}
  Revoked = Revoked
  Op = {o1}
INVARIANTS
  NoCallAfterChange
