------------------------- MODULE MCInstanceLifecycle -------------------------
(***************************************************************************)
(* The instances of InstanceLifecycle that TLC checks.                     *)
(***************************************************************************)
EXTENDS InstanceClaims

Ready    == [ready |-> TRUE, ttl |-> 2, unhealthyThreshold |-> 1, exposed |-> FALSE]
NotReady == [Ready EXCEPT !.ready = FALSE]

(* Missing, not ready or ready, with a short life: everything the template *)
(* does to instances.                                                      *)
AnyTemplate == {Nil, [NotReady EXCEPT !.ttl = 1], [Ready EXCEPT !.ttl = 1]}

(* A ready template for good, whose instances are reachable.               *)
ReadyTemplate == {[Ready EXCEPT !.exposed = TRUE]}
=============================================================================
