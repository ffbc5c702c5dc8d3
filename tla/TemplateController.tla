-------------------------- MODULE TemplateController --------------------------
(***************************************************************************)
(* The Template Controller: a ChallengeTemplate is ready while its flag    *)
(* secret exists and its container can be run, and its status counts its   *)
(* instances.  Neither secrets nor instances are watched; the controller   *)
(* looks again after RequeueAfter.  The REST API creates instances of a    *)
(* template it sees as ready.                                              *)
(***************************************************************************)
EXTENDS StatusLoop, FiniteSets

CONSTANTS
  TemplateSpecs,  \* what administrators write to the template's spec
  Names,          \* instances that may exist, in whatever namespace
  Labelled,       \* the ones whose challenge label has the template's name
  RequeueAfter    \* in ticks

TemplateSpec == [image : BOOLEAN, restartPolicy : {"", "Always", "OnFailure", "Never"}]

ASSUME TemplateControllerAssumption ==
  /\ TemplateSpecs \subseteq TemplateSpec
  /\ IsFiniteSet(Names) /\ Labelled \subseteq Names
  /\ RequeueAfter \in Nat \ {0}

VARIABLES
  secret,     \* whether the flag secret exists, as cached
  instances,  \* the instances that exist
  listed      \* the instances in the informer cache

around == <<secret, instances, listed>>
vars   == <<loop, secret, instances, listed>>

Messages == {"", "no flag secret", "no image", "restart policy"}

Statuses == [ready : BOOLEAN, instanceCount : Nat, message : Messages]

TemplateTypeOK ==
  /\ LoopTypeOK(TemplateSpecs, Statuses)
  /\ secret \in BOOLEAN
  /\ instances \subseteq Names
  /\ listed \subseteq Names

Init ==
  /\ \E s \in TemplateSpecs :
       Created(s, [ready |-> FALSE, instanceCount |-> 0, message |-> ""])
  /\ secret \in BOOLEAN
  /\ instances = {}
  /\ listed = {}

(***************************************************************************)
(* Reconcile.                                                              *)
(***************************************************************************)
supported(policy) == policy \in {"", "Always"}

(* Fault: a template that was found invalid is not looked at again.        *)
setStatusForGood(ready, message) ==
  Write([cache.status EXCEPT !.ready = ready, !.message = message], 0)

(* The count stays as it was.                                              *)
setStatus(ready, message) ==
  Write([cache.status EXCEPT !.ready = ready, !.message = message], RequeueAfter)

SecretMissing ==
  /\ Taken
  /\ ~secret
  /\ setStatus(FALSE, "no flag secret")
  /\ UNCHANGED around

ImageMissing ==
  /\ Taken
  /\ secret /\ ~cache.spec.image
  /\ setStatus(FALSE, "no image")
  /\ UNCHANGED around

PolicyUnsupported ==
  /\ Taken
  /\ secret /\ cache.spec.image /\ ~supported(cache.spec.restartPolicy)
  /\ setStatus(FALSE, "restart policy")
  /\ UNCHANGED around

(* Fault: the policy is not looked at.                                     *)
AcceptsAnyPolicy ==
  /\ Taken
  /\ secret /\ cache.spec.image
  /\ Write([ready |-> TRUE, instanceCount |-> Cardinality(listed \cap Labelled),
            message |-> ""], RequeueAfter)
  /\ UNCHANGED around

(* Fault: a template that was found ready is not looked at again.          *)
ValidatedForGood ==
  /\ Taken
  /\ secret /\ cache.spec.image /\ supported(cache.spec.restartPolicy)
  /\ Write([ready |-> TRUE, instanceCount |-> Cardinality(listed \cap Labelled),
            message |-> ""], 0)
  /\ UNCHANGED around

Validated ==
  /\ Taken
  /\ secret /\ cache.spec.image /\ supported(cache.spec.restartPolicy)
  /\ Write([ready |-> TRUE, instanceCount |-> Cardinality(listed \cap Labelled),
            message |-> ""], RequeueAfter)
  /\ UNCHANGED around

Reconcile == SecretMissing \/ ImageMissing \/ PolicyUnsupported \/ Validated

(***************************************************************************)
(* The world.                                                              *)
(***************************************************************************)
Tick == Elapse /\ UNCHANGED around

SpecChange ==
  /\ \E s \in TemplateSpecs \ {spec} : Edit(s)
  /\ UNCHANGED around

SecretChange ==
  /\ secret' = ~secret
  /\ UNCHANGED <<loop, instances, listed>>

(* The API looks at the cached template's readiness only: no cap is kept.  *)
handleCreateInstance(n) ==
  /\ cache.status.ready
  /\ n \in Labelled \ instances
  /\ instances' = instances \cup {n}
  /\ UNCHANGED <<loop, secret, listed>>

(* An instance applied to the cluster directly.                            *)
KubectlCreate(n) ==
  /\ n \in Names \ instances
  /\ instances' = instances \cup {n}
  /\ UNCHANGED <<loop, secret, listed>>

handleDeleteInstance(n) ==
  /\ n \in instances
  /\ instances' = instances \ {n}
  /\ UNCHANGED <<loop, secret, listed>>

(* The instances' informer catches up; this wakes no Template Controller.  *)
ListDelivers ==
  /\ listed # instances
  /\ listed' = instances
  /\ UNCHANGED <<loop, secret, instances>>

Clients ==
  \E n \in Names : handleCreateInstance(n) \/ KubectlCreate(n) \/ handleDeleteInstance(n)

Next ==
  \/ Tick \/ SpecChange \/ SecretChange \/ ListDelivers
  \/ Clients
  \/ Reconcile
  \/ Loop /\ UNCHANGED around

(* Time passes, the informers catch up, a key that is ready is taken and   *)
(* what was begun is ended.                                                *)
Fairness ==
  /\ WF_vars(Tick)
  /\ WF_vars(ListDelivers)
  /\ WF_vars(WatchDelivers /\ UNCHANGED around)
  /\ WF_vars(Reconcile)
  /\ WF_vars(Ends /\ UNCHANGED around)

Spec == Init /\ [][Next]_vars /\ Fairness

(***************************************************************************)
(* Properties.                                                             *)
(***************************************************************************)
Runnable(s) == s.image /\ supported(s.restartPolicy)

(* A status that says ready is stored only next to a spec that can be run, *)
(* though the spec may have been edited after Reconcile validated it (the  *)
(* validation and the resourceVersion of the update).                      *)
ReadyWasValidated ==
  [][status' # status /\ status'.ready => Runnable(spec')]_vars

(* The spec and the secret are left alone from some time on.               *)
Settled == <>[][UNCHANGED <<spec, secret>>]_vars

Valid == secret /\ Runnable(spec)

(* Readiness catches up with the secret and the spec once they are left    *)
(* alone, though nothing tells the controller of a secret (RequeueAfter).  *)
ReadyFollows == Settled => <>[](status.ready <=> Valid)

(* Once instances come and go no more, the count of a template that stays  *)
(* valid is right, though nothing tells the controller of instances.       *)
CountFollows ==
  Settled /\ <>[]Valid /\ <>[][UNCHANGED instances]_vars =>
    <>[](status.instanceCount = Cardinality(instances \cap Labelled))
===============================================================================
