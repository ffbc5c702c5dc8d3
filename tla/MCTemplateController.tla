------------------------- MODULE MCTemplateController -------------------------
(***************************************************************************)
(* A good spec, one without an image and one with a policy of bare pods.   *)
(***************************************************************************)
EXTENDS TemplateController

Good == [image |-> TRUE, restartPolicy |-> ""]

MCSpecs == {Good, [Good EXCEPT !.image = FALSE], [Good EXCEPT !.restartPolicy = "Never"]}
===============================================================================
