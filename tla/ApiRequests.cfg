SPECIFICATION Spec
CONSTANTS
  Nil = Nil
  Requests = {r1, r2}
  Key = "Bearer key"
  Tokens = {"Token good"}
  Triples <- MCTriples
  Asks <- MCAsks
  Phases = {"Running"}
INVARIANT ApiTypeOK
PROPERTIES
  ConflictIsReal
  ListExact
SYMMETRY Symmetry
