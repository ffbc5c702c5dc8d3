SPECIFICATION Spec
CONSTANTS
  Nil = Nil
  Senders <- MCSenders
  Urls = {"u1", "u2"}
  Secrets = {"old", "new"}
  Bodies <- MCBodies
  Configs <- MCConfigs
  MaxEvents <- MCMaxEvents
  MaxRestarts = 1
INVARIANTS
  BackendTypeOK
  InOrderOnce
PROPERTIES
  NoneSkipped
  CTFdHears
  NotifyReturns
CHECK_DEADLOCK FALSE
