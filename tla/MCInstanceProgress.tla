-------------------------- MODULE MCInstanceProgress --------------------------
(***************************************************************************)
(* InstanceProgress in ticks of 30 seconds, with the grace window and the  *)
(* delays of the code and a TTL longer than the grace window.              *)
(***************************************************************************)
EXTENDS InstanceProgress

Ready    == [ready |-> TRUE, ttl |-> 3, unhealthyThreshold |-> 2, exposed |-> FALSE]
NotReady == [Ready EXCEPT !.ready = FALSE]

MCTemplates == {Nil, Ready, NotReady}
=============================================================================
