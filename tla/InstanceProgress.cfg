SPECIFICATION Spec
CONSTANTS
  Nil = Nil
  BadTTL = BadTTL
  GraceWindow = 2
  Templates <- MCTemplates
  Pods = {"ready", "unready"}
  TransitionDelay = 1
  PendingDelay = 1
  PollDelay = 1
  ExpiredDelay = 2
  MaxFaults = 1
INVARIANTS
  TypeOK
  NeverForgotten
  SleepsOnlyWhenExpiring
PROPERTIES
  ExpiresInTheEnd
  StartsInTheEnd
