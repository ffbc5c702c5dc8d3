SPECIFICATION Spec
CONSTANTS
  Nil = Nil
  Ports = {22, 80}
  CIDRs = {"10.0.42.0/24"}
  Templates <- MCTemplates
  Edits <- MCEdits
  MaxFaults = 1
INVARIANT FenceTypeOK
PROPERTIES
  AppliedWasWritten
  
  
  NothingLeft
  RestsInTheEnd
