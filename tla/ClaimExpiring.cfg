SPECIFICATION Spec
CONSTANTS
  Nil = Nil
  BadTTL = BadTTL
  GraceWindow = 1
  Names = {n1}
  Templates <- ReadyTemplate
  Overrides = {}
  Pods = {"ready"}
  MaxTime = 2
  MaxVersions = 6
INVARIANT ExpiringLeadsToExpired
CHECK_DEADLOCK FALSE
