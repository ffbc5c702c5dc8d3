SPECIFICATION Spec
CONSTANTS
  Nil = Nil
  BadTTL = BadTTL
  GraceWindow = 1
  Names = {n1}
  Templates <- AnyTemplate
  Overrides = {2, BadTTL}
  Pods = {"ready", "unready"}
  MaxTime = 1
  MaxVersions = 5
INVARIANTS
  TypeOK
  TerminalIsFinal
  ExpiryIsWriteOnce
  NoEarlyExpiry
  EventsTellTheTruth
  EventsOnce
  OneFarewell
  FirstLifeIsFenced
  Strengthening
PROPERTY ImplementsPhases
CHECK_DEADLOCK FALSE
