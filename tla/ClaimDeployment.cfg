SPECIFICATION Spec
CONSTANTS
  Nil = Nil
  BadTTL = BadTTL
  GraceWindow = 1
  Names = {n1}
  Templates <- ReadyTemplate
  Overrides = {}
  Pods = {"none"}
  MaxTime = 2
  MaxVersions = 6
INVARIANT CreatingHasItsDeployment
CHECK_DEADLOCK FALSE
