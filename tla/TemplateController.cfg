SPECIFICATION Spec
CONSTANTS
  Nil = Nil
  TemplateSpecs <- MCSpecs
  Names = {"a", "c"}
  Labelled = {"a"}
  RequeueAfter = 2
  MaxFaults = 1
INVARIANT TemplateTypeOK
PROPERTIES
  ReadyWasValidated
  ReadyFollows
  CountFollows
