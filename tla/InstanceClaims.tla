---------------------------- MODULE InstanceClaims ----------------------------
(***************************************************************************)
(* What the design document and the code's comments say of the lifecycle   *)
(* and the code does not do.  Each is checked by a run of its own that     *)
(* exhibits the behaviour; none is part of what the project establishes.   *)
(***************************************************************************)
EXTENDS InstanceLifecycle

(* "Running/Unhealthy -> Expiring -> Expired, based on TTL"                *)
(* (lifecycle_controller.go), and the design's phase diagram: from         *)
(* Expiring an instance only goes on to Expired.  The Instance Controller  *)
(* does not treat Expiring apart and moves it back to what its pod shows.  *)
ExpiringLeadsToExpired ==
  \A n \in Names : \A i \in Writes(n) :
    log[n][i].status.phase = "Expiring" =>
      log[n][i + 1].status.phase \in {"Expiring", "Expired"}

(* "Creating: Deployment/Service objects created" (the design): an         *)
(* instance in Creating has a Deployment.  An instance recreated under the *)
(* same name finds the Deployment of its predecessor, creates none, and is *)
(* left without one when the garbage collector takes that one away.        *)
CreatingHasItsDeployment ==
  \A n \in Names :
    store(n) # Nil /\ store(n).status.phase = "Creating" => owned[n]["Deployment"] # 0
=============================================================================
