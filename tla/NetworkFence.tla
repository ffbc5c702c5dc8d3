----------------------------- MODULE NetworkFence -----------------------------
(***************************************************************************)
(* The fence of one instance.  The Instance Controller creates a           *)
(* NetworkFence, the NetworkFence Controller keeps a NetworkPolicy that    *)
(* says what it means, and the garbage collector deletes what has lost its *)
(* owner, while instance, fence and policy may be deleted and come back    *)
(* under the same name at any time.  Administrators edit fences and        *)
(* policies, too.                                                          *)
(*                                                                         *)
(* A copy of an object, in an informer cache or in the worker's hands, is  *)
(* known by its age: it is the stored version, an older one, or a version  *)
(* of an object that is gone.                                              *)
(***************************************************************************)
EXTENDS Integers

CONSTANTS
  Nil,        \* no object, no copy, nothing in hand
  Ports,      \* port numbers
  CIDRs,      \* networks a rule may name
  Templates,  \* the container's ports, as templates may have them
  Edits,      \* specs administrators write to the fence
  MaxFaults   \* bound on restarts and failing calls together

NoCIDR == ""  \* of a rule without one

DefaultNamespace == "kimo-system"

AllowRule == [cidr : CIDRs \cup {NoCIDR}, port : Int]

DenyRule == {DefaultNamespace}  \* namespaces

FenceSpec == [allow : SUBSET AllowRule, deny : SUBSET DenyRule, allowEgress : BOOLEAN]

Fence == [owner : {"instance", "gone"}, spec : FenceSpec, applied : BOOLEAN]

PolicySpec == [ports : SUBSET Nat, from : SUBSET CIDRs, egress : BOOLEAN,
               types : SUBSET {"Ingress", "Egress"}]

Policy == [owner : {"fence", "gone", "none"}, spec : PolicySpec]

Ages == {"current", "older", "gone"}

FenceCopy == [spec : FenceSpec, age : Ages]

Work == [pc : {"apply", "status"},
         spec : FenceSpec,              \* of the fence that was read
         age : Ages,                    \* of that copy
         policy : Ages \cup {"none"}]   \* age of the policy that was read

ASSUME FenceAssumption ==
  /\ Ports \subseteq Nat \ {0}
  /\ Templates \subseteq SUBSET [containerPort : Ports, expose : BOOLEAN]
  /\ Edits \subseteq FenceSpec
  /\ MaxFaults \in Nat
ASSUME FenceNil == Nil \notin Fence \cup Policy \cup FenceCopy \cup Work \cup PolicySpec

VARIABLES
  instance,       \* whether the instance exists
  instanceCache,  \* age of the instance in the cache, or "none"
  fence,          \* the stored fence, or Nil
  fenceCache,     \* the fence in the cache, or Nil
  policy,         \* the stored policy, or Nil
  policyCache,    \* age of the policy in the cache, "none", or "due": none,
                  \* and one that came and went is still to be heard of
  queue,          \* whether the fence's key waits
  worker,         \* the reconcile in progress, or Nil
  written,        \* history: what this reconcile left in the policy, or Nil
  faults          \* restarts and failed calls so far

objects == <<instance, fence, policy>>
caches  == <<instanceCache, fenceCache, policyCache>>
control == <<queue, worker, written, faults>>
vars    == <<objects, caches, control>>

FenceTypeOK ==
  /\ instance \in BOOLEAN
  /\ instanceCache \in {"current", "gone", "none"}
  /\ fence \in Fence \cup {Nil}
  /\ fenceCache \in FenceCopy \cup {Nil}
  /\ policy \in Policy \cup {Nil}
  /\ policyCache \in Ages \cup {"none", "due"}
  /\ queue \in BOOLEAN
  /\ worker \in Work \cup {Nil}
  /\ written \in PolicySpec \cup {Nil}
  /\ faults \in 0..MaxFaults

Init ==
  /\ instance = FALSE /\ instanceCache = "none"
  /\ fence = Nil /\ fenceCache = Nil
  /\ policy = Nil /\ policyCache = "none"
  /\ queue = FALSE /\ worker = Nil /\ written = Nil
  /\ faults = 0

(***************************************************************************)
(* What copies become when the object is written or deleted.               *)
(***************************************************************************)
Older(age) == IF age = "current" THEN "older" ELSE age

Gone(age) == IF age = "none" THEN "none" ELSE "gone"

(* The fence was written (Older) or deleted (Gone).                        *)
AgeFence(Age(_)) ==
  /\ fenceCache' = IF fenceCache = Nil THEN Nil ELSE [fenceCache EXCEPT !.age = Age(@)]
  /\ worker' = IF worker = Nil THEN Nil ELSE [worker EXCEPT !.age = Age(@)]

(***************************************************************************)
(* The Instance Controller.                                                *)
(***************************************************************************)
exposed(t) == {p.containerPort : p \in {q \in t : q.expose}}


buildNetworkFence(t) ==
  [allow |-> {[cidr |-> NoCIDR, port |-> p] : p \in exposed(t)},
   deny |-> {DefaultNamespace}, allowEgress |-> FALSE]

(* A fence of that name is left as it is, whoever owns it.  A Create that  *)
(* finds one the cache did not show fails and changes nothing.             *)
ensureNetworkFence ==
  /\ instanceCache # "none" /\ fenceCache = Nil /\ fence = Nil
  /\ \E t \in Templates :
       fence' = [owner |-> IF instanceCache = "current" THEN "instance" ELSE "gone",
                 spec |-> buildNetworkFence(t), applied |-> FALSE]
  /\ UNCHANGED <<instance, policy, caches, control>>

(***************************************************************************)
(* The NetworkFence Controller.                                            *)
(***************************************************************************)

(* The ports of all rules and the peers of all rules make up one ingress   *)
(* rule; an empty list in it stands for everything.                        *)
buildNetworkPolicy(s) ==
  [ports  |-> {r.port : r \in {a \in s.allow : a.port > 0}},
   from   |-> {r.cidr : r \in {a \in s.allow : a.cidr # NoCIDR}},
   egress |-> s.allowEgress,
   types  |-> IF s.allowEgress \/ s.deny # {} THEN {"Ingress", "Egress"} ELSE {"Ingress"}]

(* Fault: Reconcile goes on without a fence.                               *)
ReadAnyway ==
  /\ worker = Nil /\ queue
  /\ queue' = FALSE
  /\ worker' = [pc |-> "apply", spec |-> IF fenceCache = Nil THEN Nil ELSE fenceCache.spec,
                age |-> "current", policy |-> "none"]
  /\ UNCHANGED <<objects, caches, written, faults>>

(* Reconcile reads the fence and the policy; without a fence it returns.   *)
Read ==
  /\ worker = Nil /\ queue
  /\ queue' = FALSE
  /\ worker' = IF fenceCache = Nil THEN Nil
               ELSE [pc |-> "apply", spec |-> fenceCache.spec, age |-> fenceCache.age,
                     policy |-> IF policyCache = "due" THEN "none" ELSE policyCache]
  /\ UNCHANGED <<objects, caches, written, faults>>

Applying == worker # Nil /\ worker.pc = "apply"

(* The policy is stored, and the reconcile goes on to the status.          *)
Applied ==
  /\ worker' = [worker EXCEPT !.pc = "status"]
  /\ written' = policy'.spec
  /\ UNCHANGED <<instance, fence, instanceCache, fenceCache, queue, faults>>

(* Fault: the policy is created without an owner.                          *)
CreateUnowned ==
  /\ Applying /\ worker.policy = "none" /\ policy = Nil
  /\ policy' = [owner |-> "none", spec |-> buildNetworkPolicy(worker.spec)]
  /\ UNCHANGED policyCache
  /\ Applied

Create ==
  /\ Applying /\ worker.policy = "none" /\ policy = Nil
  /\ policy' = [owner |-> IF worker.age = "gone" THEN "gone" ELSE "fence",
                spec |-> buildNetworkPolicy(worker.spec)]
  /\ UNCHANGED policyCache
  /\ Applied

(* The owner stays.  An update that changes nothing stores no version.     *)
Update ==
  /\ Applying /\ worker.policy = "current"
  /\ policy' = [policy EXCEPT !.spec = buildNetworkPolicy(worker.spec)]
  /\ policyCache' = IF policy' = policy THEN policyCache ELSE Older(policyCache)
  /\ Applied

Retry ==
  /\ worker' = Nil /\ queue' = TRUE /\ written' = Nil
  /\ UNCHANGED <<objects, caches>>

(* Fault: a policy that is there already is taken to be the right one.     *)
RefusedIgnored ==
  /\ Applying
  /\ \/ worker.policy \in {"older", "gone"}
     \/ worker.policy = "none" /\ policy # Nil
  /\ worker' = [worker EXCEPT !.pc = "status"]
  /\ UNCHANGED <<objects, caches, queue, written, faults>>

(* Create finds a policy, or Update a newer one or none.                   *)
Refused ==
  /\ Applying
  /\ \/ worker.policy \in {"older", "gone"}
     \/ worker.policy = "none" /\ policy # Nil
  /\ Retry
  /\ UNCHANGED faults

AtStatus == worker # Nil /\ worker.pc = "status"

(* Fault: a reconcile that succeeds asks for another.                      *)
StatusUpdateRequeues ==
  /\ AtStatus /\ worker.age = "current"
  /\ fence' = [fence EXCEPT !.applied = TRUE]
  /\ fenceCache' = IF fence.applied \/ fenceCache = Nil THEN fenceCache
                   ELSE [fenceCache EXCEPT !.age = Older(@)]
  /\ worker' = Nil /\ written' = Nil /\ queue' = TRUE
  /\ UNCHANGED <<instance, policy, instanceCache, policyCache, faults>>

StatusUpdate ==
  /\ AtStatus /\ worker.age = "current"
  /\ fence' = [fence EXCEPT !.applied = TRUE]
  /\ fenceCache' = IF fence.applied \/ fenceCache = Nil THEN fenceCache
                   ELSE [fenceCache EXCEPT !.age = Older(@)]
  /\ worker' = Nil /\ written' = Nil
  /\ UNCHANGED <<instance, policy, instanceCache, policyCache, queue, faults>>

StatusRefused ==
  /\ AtStatus /\ worker.age # "current"
  /\ Retry
  /\ UNCHANGED faults

CallFails ==
  /\ worker # Nil
  /\ faults < MaxFaults
  /\ faults' = faults + 1
  /\ Retry

Reconcile == Read \/ Create \/ Update \/ Refused \/ StatusUpdate \/ StatusRefused

(***************************************************************************)
(* Informers.                                                              *)
(***************************************************************************)
Seen(object) == IF object = Nil THEN "none" ELSE "current"

SeenFence == IF fence = Nil THEN Nil ELSE [spec |-> fence.spec, age |-> "current"]

InstanceDelivers ==
  /\ instanceCache # IF instance THEN "current" ELSE "none"
  /\ instanceCache' = IF instance THEN "current" ELSE "none"
  /\ UNCHANGED <<objects, fenceCache, policyCache, control>>

FenceDelivers ==
  /\ fenceCache # SeenFence
  /\ fenceCache' = SeenFence
  /\ queue' = TRUE
  /\ UNCHANGED <<objects, instanceCache, policyCache, worker, written, faults>>


(* Owns goes by the name of the owner: the fence's key is woken, whichever *)
(* fence of that name the policy belonged to.                              *)
PolicyDelivers ==
  /\ policyCache # Seen(policy)
  /\ policyCache' = Seen(policy)
  /\ queue' = TRUE
  /\ UNCHANGED <<objects, instanceCache, fenceCache, worker, written, faults>>

Informers == InstanceDelivers \/ FenceDelivers \/ PolicyDelivers

Restart ==
  /\ faults < MaxFaults
  /\ faults' = faults + 1
  /\ instanceCache' = IF instance THEN "current" ELSE "none"
  /\ fenceCache' = SeenFence
  /\ policyCache' = Seen(policy)
  /\ queue' = TRUE /\ worker' = Nil /\ written' = Nil
  /\ UNCHANGED objects

(***************************************************************************)
(* Deletions and the garbage collector.                                    *)
(***************************************************************************)
FenceDeleted ==
  /\ fence' = Nil
  /\ policy' = IF policy = Nil \/ policy.owner # "fence" THEN policy
               ELSE [policy EXCEPT !.owner = "gone"]
  /\ AgeFence(Gone)
  /\ UNCHANGED <<instance, instanceCache, policyCache, queue, written, faults>>

PolicyDeleted ==
  /\ policy' = Nil
  /\ policyCache' = IF policyCache \in {"none", "due"} THEN "due" ELSE "gone"
  /\ worker' = IF worker = Nil THEN Nil ELSE [worker EXCEPT !.policy = Gone(@)]
  /\ UNCHANGED <<instance, fence, instanceCache, fenceCache, queue, written, faults>>

CollectFence == fence # Nil /\ fence.owner = "gone" /\ FenceDeleted

CollectPolicy == policy # Nil /\ policy.owner = "gone" /\ PolicyDeleted

(***************************************************************************)
(* Clients and administrators.                                             *)
(***************************************************************************)
CreateInstance ==
  /\ ~instance
  /\ instance' = TRUE
  /\ UNCHANGED <<fence, policy, caches, control>>

DeleteInstance ==
  /\ instance
  /\ instance' = FALSE
  /\ instanceCache' = Gone(instanceCache)
  /\ fence' = IF fence = Nil THEN Nil ELSE [fence EXCEPT !.owner = "gone"]
  /\ UNCHANGED <<policy, fenceCache, policyCache, control>>

EditFence ==
  /\ fence # Nil
  /\ \E s \in Edits \ {fence.spec} : fence' = [fence EXCEPT !.spec = s]
  /\ AgeFence(Older)
  /\ UNCHANGED <<instance, policy, instanceCache, policyCache, queue, written, faults>>

DeleteFence == fence # Nil /\ FenceDeleted

EditPolicy ==
  /\ policy # Nil
  /\ \E s \in Edits :
       /\ policy.spec # buildNetworkPolicy(s)
       /\ policy' = [policy EXCEPT !.spec = buildNetworkPolicy(s)]
  /\ policyCache' = Older(policyCache)
  /\ worker' = IF worker = Nil THEN Nil ELSE [worker EXCEPT !.policy = Older(@)]
  /\ UNCHANGED <<instance, fence, instanceCache, fenceCache, queue, written, faults>>

DeletePolicy == policy # Nil /\ PolicyDeleted

Outside ==
  \/ CreateInstance \/ DeleteInstance
  \/ EditFence \/ DeleteFence
  \/ EditPolicy \/ DeletePolicy

Next ==
  \/ ensureNetworkFence \/ Reconcile \/ CallFails
  \/ Informers \/ CollectFence \/ CollectPolicy
  \/ Restart \/ Outside

(* The Instance Controller comes back every 15 s, a key that waits is      *)
(* taken, calls end, informers and garbage collector catch up.             *)
Fairness ==
  /\ WF_vars(ensureNetworkFence)
  /\ WF_vars(Reconcile)
  /\ WF_vars(InstanceDelivers) /\ WF_vars(FenceDelivers) /\ WF_vars(PolicyDelivers)
  /\ WF_vars(CollectFence) /\ WF_vars(CollectPolicy)

Spec == Init /\ [][Next]_vars /\ Fairness

(***************************************************************************)
(* What a policy means to the pods it selects, by the rules of Kubernetes. *)
(***************************************************************************)
Reachable(p) == policy = Nil \/ policy.spec.ports = {} \/ p \in policy.spec.ports

Reaches == policy = Nil \/ "Egress" \notin policy.spec.types \/ policy.spec.egress

(***************************************************************************)
(* Properties.                                                             *)
(***************************************************************************)

(* A fence becomes applied only if the reconcile that says so has stored   *)
(* the translation of the very spec the fence has at that moment, whatever *)
(* was edited, deleted or recreated between its calls (the order of        *)
(* Reconcile, and the resourceVersion of both updates).                    *)
AppliedWasWritten ==
  [][fence' # Nil /\ fence'.applied /\ (fence = Nil \/ ~fence.applied) =>
       written = buildNetworkPolicy(fence'.spec)]_vars

(* Clients and administrators leave everything alone from some time on.    *)
Settled == <>[][~Outside]_vars

InPlace ==
  /\ fence # Nil /\ fence.owner = "instance" /\ fence.applied
  /\ policy # Nil /\ policy.owner = "fence"
  /\ policy.spec = buildNetworkPolicy(fence.spec)



(* Of an instance that is gone for good nothing is left, though reconciles *)
(* under way create a fence for it, or a policy for its fence, after it    *)
(* was deleted (the owner references).                                     *)
NothingLeft == Settled /\ <>[]~instance => <>[](fence = Nil /\ policy = Nil)

(* The controller comes to rest though every write of its own wakes it.    *)
RestsInTheEnd == Settled => <>[](worker = Nil /\ ~queue)

(***************************************************************************)
(* What a comment says and the code does not do.                           *)
(***************************************************************************)

(* "deny by default, only the template's exposed ports reachable" (the     *)
(* comment on ensureNetworkFence), of a fence that has been applied.       *)
OnlyExposedReachable ==
  \A t \in Templates :
    InPlace /\ fence.spec = buildNetworkFence(t) =>
      \A p \in Ports : Reachable(p) => p \in exposed(t)
===============================================================================
