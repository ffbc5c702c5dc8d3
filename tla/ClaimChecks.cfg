SPECIFICATION Spec
CONSTANTS
  Nil = Nil
  BadTTL = BadTTL
  GraceWindow = 2
  Templates <- MCTemplates
  Pods = {"none", "ready", "unready"}
  TransitionDelay = 1
  PendingDelay = 1
  PollDelay = 1
  ExpiredDelay = 2
  MaxFaults = 0
INVARIANT UnhealthyMeansChecksFailed
