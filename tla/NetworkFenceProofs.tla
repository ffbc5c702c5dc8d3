-------------------------- MODULE NetworkFenceProofs --------------------------
(***************************************************************************)
(* Proofs about NetworkFence, for any ports, templates and edits.          *)
(***************************************************************************)
EXTENDS NetworkFence, TLAPS

(* Both translations have the types of what they translate to.             *)
LEMMA Exposed == ASSUME NEW t \in Templates PROVE exposed(t) \subseteq Nat \ {0}
<1>1. t \subseteq [containerPort : Ports, expose : BOOLEAN]
  BY FenceAssumption
<1>2. \A q \in t : q.containerPort \in Ports
  BY <1>1
<1> QED
  BY <1>2, FenceAssumption DEF exposed

(* Both translations yield specs.                                          *)
LEMMA FenceBuilt == ASSUME NEW t \in Templates PROVE buildNetworkFence(t) \in FenceSpec
<1> DEFINE allow == {[cidr |-> NoCIDR, port |-> p] : p \in exposed(t)}
<1>1. ASSUME NEW p \in exposed(t) PROVE [cidr |-> NoCIDR, port |-> p] \in AllowRule
  <2>1. p \in Nat
    BY Exposed
  <2> QED
    BY <2>1 DEF AllowRule
<1>2. allow \subseteq AllowRule
  BY <1>1
<1>3. buildNetworkFence(t) = [allow |-> allow, deny |-> {DefaultNamespace}, allowEgress |-> FALSE]
  BY Zenon DEF buildNetworkFence
<1> HIDE DEF allow
<1> QED
  BY <1>2, <1>3 DEF FenceSpec, DenyRule

LEMMA PolicyBuilt == ASSUME NEW s \in FenceSpec PROVE buildNetworkPolicy(s) \in PolicySpec
<1>1. /\ {r.port : r \in {a \in s.allow : a.port > 0}} \subseteq Nat
      /\ {r.cidr : r \in {a \in s.allow : a.cidr # NoCIDR}} \subseteq CIDRs
  BY DEF FenceSpec, AllowRule
<1>2. s.allowEgress \in BOOLEAN
  BY DEF FenceSpec
<1> QED
  BY <1>1, <1>2 DEF buildNetworkPolicy, PolicySpec

(* What a fence of the Instance Controller comes to: its pods are          *)
(* reachable at the exposed ports of the template only, if there are any,  *)
(* and reach nothing (buildNetworkFence and buildNetworkPolicy).           *)
THEOREM TranslationIsolates ==
  ASSUME NEW t \in Templates, exposed(t) # {}, policy # Nil,
         policy.spec = buildNetworkPolicy(buildNetworkFence(t))
  PROVE  ~Reaches /\ \A p \in Ports : Reachable(p) <=> p \in exposed(t)
<1>1. \A p \in exposed(t) : p \in Nat /\ p > 0
  BY Exposed
<1> DEFINE fs == buildNetworkFence(t)
           allow == {[cidr |-> NoCIDR, port |-> p] : p \in exposed(t)}
<1>2. fs = [allow |-> allow, deny |-> {DefaultNamespace}, allowEgress |-> FALSE]
  BY Zenon DEF buildNetworkFence
<1>3. /\ \A r \in allow : r.port \in exposed(t) /\ r.port > 0
      /\ \A p \in exposed(t) : \E r \in allow : r.port = p
  <2>1. ASSUME NEW r \in allow PROVE r.port \in exposed(t) /\ r.port > 0
    <3>1. PICK p \in exposed(t) : r = [cidr |-> NoCIDR, port |-> p]
      OBVIOUS
    <3> QED
      BY <3>1, <1>1
  <2>2. ASSUME NEW p \in exposed(t) PROVE \E r \in allow : r.port = p
    <3>1. [cidr |-> NoCIDR, port |-> p] \in allow /\ [cidr |-> NoCIDR, port |-> p].port = p
      OBVIOUS
    <3> QED
      BY <3>1
  <2> QED
    BY <2>1, <2>2
<1> HIDE DEF allow
<1>4. fs.allow = allow /\ fs.deny # {} /\ fs.allowEgress = FALSE
  BY <1>2
<1> HIDE DEF fs
<1>5. {r.port : r \in {a \in fs.allow : a.port > 0}} = exposed(t)
  BY <1>3, <1>4
<1>6. policy.spec.ports = exposed(t)
  BY <1>5 DEF buildNetworkPolicy, fs
<1>7. policy.spec.egress = FALSE /\ "Egress" \in policy.spec.types
  <2>1. policy.spec = buildNetworkPolicy(fs)
    BY DEF fs
  <2> QED
    BY <2>1, <1>4 DEF buildNetworkPolicy
<1> QED
  BY <1>6, <1>7 DEF Reaches, Reachable

-------------------------------------------------------------------------------

(* A copy that is the stored version says what the stored object says, and *)
(* a reconcile that has come to the status has stored the translation of   *)
(* the spec it read.                                                       *)
CopiesTrue ==
  /\ fenceCache # Nil /\ fenceCache.age = "current" =>
       fence # Nil /\ fenceCache.spec = fence.spec
  /\ worker # Nil /\ worker.age = "current" => fence # Nil /\ worker.spec = fence.spec
  /\ policyCache = "current" => policy # Nil
  /\ worker # Nil /\ worker.policy = "current" => policy # Nil
  /\ AtStatus => written = buildNetworkPolicy(worker.spec)

FenceInv == FenceTypeOK /\ CopiesTrue

(* The invariant holds at the start, and each kind of step keeps it.       *)
LEMMA FenceInit == ASSUME Init PROVE FenceInv
<1>1. 0 \in 0..MaxFaults
  BY FenceAssumption
<1>2. FenceTypeOK
  BY <1>1 DEF Init, FenceTypeOK
<1>3. CopiesTrue
  BY DEF Init, CopiesTrue, AtStatus
<1> QED
  BY <1>2, <1>3 DEF FenceInv

(* Copies of the fence after it was written or deleted are the stored      *)
(* version no longer.                                                      *)
LEMMA FenceAged ==
  ASSUME FenceTypeOK, AgeFence(Older) \/ AgeFence(Gone)
  PROVE  /\ fenceCache' \in FenceCopy \cup {Nil}
         /\ worker' \in Work \cup {Nil}
         /\ fenceCache' # Nil => fenceCache'.age # "current"
         /\ worker' # Nil => /\ worker # Nil
                             /\ worker'.age # "current"
                             /\ worker'.pc = worker.pc /\ worker'.spec = worker.spec
                             /\ worker'.policy = worker.policy
BY DEF FenceTypeOK, AgeFence, FenceCopy, Work, Ages, Older, Gone

(* So are those of the policy.                                             *)
LEMMA PolicyAged ==
  ASSUME FenceTypeOK, NEW a \in {Older(worker.policy), Gone(worker.policy)},
         worker' = IF worker = Nil THEN Nil ELSE [worker EXCEPT !.policy = a]
  PROVE  /\ worker' \in Work \cup {Nil}
         /\ worker' # Nil => /\ worker # Nil
                             /\ worker'.policy # "current"
                             /\ worker'.pc = worker.pc /\ worker'.spec = worker.spec
                             /\ worker'.age = worker.age
BY DEF FenceTypeOK, Work, Ages, Older, Gone

(* The Instance Controller and the informers.                              *)
LEMMA EnsureStep == ASSUME FenceInv, ensureNetworkFence PROVE FenceInv'
<1>1. fence' \in Fence
  BY FenceBuilt DEF ensureNetworkFence, Fence
<1>2. fence = Nil
  BY DEF ensureNetworkFence
<1>3. UNCHANGED <<instance, policy, caches, control>>
  BY DEF ensureNetworkFence
<1> QED
  BY <1>1, <1>2, <1>3 DEF FenceInv, FenceTypeOK, CopiesTrue, AtStatus, caches, control

LEMMA InformerStep == ASSUME FenceInv, Informers PROVE FenceInv'
<1>1. SeenFence \in FenceCopy \cup {Nil}
  BY DEF FenceInv, FenceTypeOK, SeenFence, FenceCopy, Fence, Ages
<1>2. CASE InstanceDelivers
  BY <1>2 DEF InstanceDelivers, FenceInv, FenceTypeOK, CopiesTrue, AtStatus, objects, control
<1>3. CASE FenceDelivers
  BY <1>1, <1>3 DEF FenceDelivers, SeenFence, FenceInv, FenceTypeOK, CopiesTrue, AtStatus, objects
<1>4. CASE PolicyDelivers
  BY <1>4 DEF PolicyDelivers, Seen, Ages, FenceInv, FenceTypeOK, CopiesTrue, AtStatus, objects
<1> QED
  BY <1>2, <1>3, <1>4 DEF Informers

LEMMA RestartStep == ASSUME FenceInv, Restart \/ CallFails PROVE FenceInv'
<1>1. SeenFence \in FenceCopy \cup {Nil}
  BY DEF FenceInv, FenceTypeOK, SeenFence, FenceCopy, Fence, Ages
<1>2. faults' \in 0..MaxFaults
  BY FenceAssumption DEF Restart, CallFails, FenceInv, FenceTypeOK
<1>3. CASE Restart
  BY <1>1, <1>2, <1>3 DEF Restart, SeenFence, Seen, Ages, FenceInv, FenceTypeOK, CopiesTrue,
                          AtStatus, objects
<1>4. CASE CallFails
  BY <1>2, <1>4 DEF CallFails, Retry, FenceInv, FenceTypeOK, CopiesTrue, AtStatus, objects, caches
<1> QED
  BY <1>3, <1>4

(* The reconcile.                                                          *)
LEMMA ReadStep == ASSUME FenceInv, Read PROVE FenceInv'
<1>1. CASE fenceCache = Nil
  BY <1>1, FenceNil DEF Read, FenceInv, FenceTypeOK, CopiesTrue, AtStatus, objects, caches
<1>2. CASE fenceCache # Nil
  <2> DEFINE seen == IF policyCache = "due" THEN "none" ELSE policyCache
  <2>1. worker' = [pc |-> "apply", spec |-> fenceCache.spec, age |-> fenceCache.age,
                   policy |-> seen]
    BY <1>2 DEF Read
  <2>2. fenceCache \in FenceCopy /\ seen \in Ages \cup {"none"}
    BY <1>2 DEF FenceInv, FenceTypeOK
  <2>3. seen = "current" => policyCache = "current"
    OBVIOUS
  <2> HIDE DEF seen
  <2>4. /\ worker' \in Work /\ worker'.pc = "apply" /\ worker'.policy = seen
        /\ worker'.spec = fenceCache.spec /\ worker'.age = fenceCache.age
    BY <2>1, <2>2 DEF Work, FenceCopy
  <2> QED
    BY <1>2, <2>3, <2>4 DEF Read, FenceInv, FenceTypeOK, CopiesTrue, AtStatus, objects, caches
<1> QED
  BY <1>1, <1>2

LEMMA ApplyStep == ASSUME FenceInv, Create \/ Update PROVE FenceInv'
<1>1. worker \in Work /\ worker.pc = "apply"
  BY DEF Create, Update, Applying, FenceInv, FenceTypeOK
<1>2. buildNetworkPolicy(worker.spec) \in PolicySpec
  BY <1>1, PolicyBuilt DEF Work
<1>3. /\ policy' \in Policy /\ policy'.spec = buildNetworkPolicy(worker.spec)
      /\ policyCache' \in Ages \cup {"none", "due"}
      /\ policyCache' = "current" => policyCache = "current"
  <2>1. CASE Create
    BY <2>1, <1>2 DEF Create, Policy, FenceInv, FenceTypeOK
  <2>2. CASE Update
    <3>1. policy \in Policy
      BY <1>1, <2>2 DEF Update, Applying, FenceInv, FenceTypeOK, CopiesTrue
    <3>2. policy' = [policy EXCEPT !.spec = buildNetworkPolicy(worker.spec)]
      BY <2>2 DEF Update
    <3>3. policy' \in Policy /\ policy'.spec = buildNetworkPolicy(worker.spec)
      BY <1>2, <3>1, <3>2 DEF Policy
    <3>4. policyCache' \in {policyCache, Older(policyCache)}
      BY <2>2 DEF Update
    <3> QED
      BY <3>3, <3>4 DEF Older, Ages, FenceInv, FenceTypeOK
  <2> QED
    BY <2>1, <2>2
<1>4. Applied
  BY DEF Create, Update
<1>5. worker' = [worker EXCEPT !.pc = "status"]
  BY <1>4 DEF Applied
<1>6. /\ worker' \in Work /\ worker'.spec = worker.spec /\ worker'.age = worker.age
      /\ worker'.policy = worker.policy
  BY <1>1, <1>5 DEF Work
<1>7. written' = buildNetworkPolicy(worker'.spec)
  BY <1>3, <1>4, <1>6 DEF Applied
<1>8. policy' # Nil /\ worker # Nil
  BY <1>1, <1>3, FenceNil
<1>9. FenceTypeOK'
  BY <1>2, <1>3, <1>4, <1>6, <1>7 DEF Applied, FenceInv, FenceTypeOK
<1>10. CopiesTrue'
  BY <1>4, <1>6, <1>7, <1>8 DEF Applied, FenceInv, CopiesTrue, AtStatus
<1> QED
  BY <1>9, <1>10 DEF FenceInv

LEMMA StatusStep == ASSUME FenceInv, StatusUpdate PROVE FenceInv'
<1>1. fence \in Fence
  BY DEF StatusUpdate, AtStatus, FenceInv, FenceTypeOK, CopiesTrue
<1>2. fence' = [fence EXCEPT !.applied = TRUE]
  BY DEF StatusUpdate
<1>3. fence' \in Fence /\ fence'.spec = fence.spec
  BY <1>1, <1>2 DEF Fence
<1>4. /\ fenceCache' \in FenceCopy \cup {Nil}
      /\ fenceCache' # Nil /\ fenceCache'.age = "current" => fenceCache' = fenceCache
  <2>1. CASE fenceCache' = fenceCache
    BY <2>1 DEF FenceInv, FenceTypeOK
  <2>2. CASE fenceCache \in FenceCopy /\ fenceCache' = [fenceCache EXCEPT !.age = Older(fenceCache.age)]
    BY <2>2 DEF Older, FenceCopy, Ages
  <2> QED
    BY <2>1, <2>2 DEF StatusUpdate, FenceInv, FenceTypeOK
<1>5. fence' # Nil
  BY <1>3, FenceNil
<1> QED
  BY <1>3, <1>4, <1>5 DEF StatusUpdate, FenceInv, FenceTypeOK, CopiesTrue, AtStatus

LEMMA RefusedStep == ASSUME FenceInv, Refused \/ StatusRefused PROVE FenceInv'
<1>1. Retry /\ UNCHANGED faults
  BY DEF Refused, StatusRefused
<1> QED
  BY <1>1 DEF Retry, FenceInv, FenceTypeOK, CopiesTrue, AtStatus, objects, caches

(* Deletions and edits.                                                    *)
LEMMA FenceDeletedStep == ASSUME FenceInv, FenceDeleted PROVE FenceInv'
<1>1. AgeFence(Gone)
  BY DEF FenceDeleted
<1>2. policy' \in Policy \cup {Nil} /\ (policy # Nil => policy' # Nil)
  <2>1. CASE policy' = policy
    BY <2>1 DEF FenceInv, FenceTypeOK
  <2>2. CASE policy \in Policy /\ policy' = [policy EXCEPT !.owner = "gone"]
    <3>1. policy' \in Policy
      BY <2>2 DEF Policy
    <3> QED
      BY <3>1, FenceNil
  <2> QED
    BY <2>1, <2>2 DEF FenceDeleted, FenceInv, FenceTypeOK
<1>3. FenceTypeOK'
  BY <1>1, <1>2, FenceAged DEF FenceDeleted, FenceInv, FenceTypeOK
<1>4. CopiesTrue'
  BY <1>1, <1>2, FenceAged DEF FenceDeleted, FenceInv, CopiesTrue, AtStatus
<1> QED
  BY <1>3, <1>4 DEF FenceInv

LEMMA PolicyDeletedStep == ASSUME FenceInv, PolicyDeleted PROVE FenceInv'
<1>1. worker' = IF worker = Nil THEN Nil ELSE [worker EXCEPT !.policy = Gone(worker.policy)]
  BY DEF PolicyDeleted
<1>2. FenceTypeOK'
  BY <1>1, PolicyAged DEF PolicyDeleted, Ages, FenceInv, FenceTypeOK
<1>3. CopiesTrue'
  BY <1>1, PolicyAged DEF PolicyDeleted, FenceInv, CopiesTrue, AtStatus
<1> QED
  BY <1>2, <1>3 DEF FenceInv

LEMMA EditStep == ASSUME FenceInv, EditFence \/ EditPolicy PROVE FenceInv'
<1>1. CASE EditFence
  <2>1. AgeFence(Older)
    BY <1>1 DEF EditFence
  <2>2. fence' \in Fence
    <3>1. PICK s \in Edits : fence' = [fence EXCEPT !.spec = s]
      BY <1>1 DEF EditFence
    <3>2. fence \in Fence /\ s \in FenceSpec
      BY <1>1, FenceAssumption DEF EditFence, FenceInv, FenceTypeOK
    <3> QED
      BY <3>1, <3>2 DEF Fence
  <2>3. FenceTypeOK'
    BY <1>1, <2>1, <2>2, FenceAged DEF EditFence, FenceInv, FenceTypeOK
  <2>4. CopiesTrue'
    BY <1>1, <2>1, FenceAged DEF EditFence, FenceInv, CopiesTrue, AtStatus
  <2> QED
    BY <2>3, <2>4 DEF FenceInv
<1>2. CASE EditPolicy
  <2>1. worker' = IF worker = Nil THEN Nil ELSE [worker EXCEPT !.policy = Older(worker.policy)]
    BY <1>2 DEF EditPolicy
  <2>2. policy' \in Policy
    <3>1. PICK s \in Edits : policy' = [policy EXCEPT !.spec = buildNetworkPolicy(s)]
      BY <1>2 DEF EditPolicy
    <3>2. policy \in Policy /\ buildNetworkPolicy(s) \in PolicySpec
      BY <1>2, FenceAssumption, PolicyBuilt DEF EditPolicy, FenceInv, FenceTypeOK
    <3> QED
      BY <3>1, <3>2 DEF Policy
  <2>3. FenceTypeOK'
    BY <1>2, <2>1, <2>2, PolicyAged DEF EditPolicy, Older, Ages, FenceInv, FenceTypeOK
  <2>4. policy' # Nil
    BY <2>2, FenceNil
  <2>5. CopiesTrue'
    BY <1>2, <2>1, <2>4, PolicyAged DEF EditPolicy, FenceInv, CopiesTrue, AtStatus
  <2> QED
    BY <2>3, <2>5 DEF FenceInv
<1> QED
  BY <1>1, <1>2

LEMMA InstanceStep == ASSUME FenceInv, CreateInstance \/ DeleteInstance PROVE FenceInv'
<1>1. CASE CreateInstance
  BY <1>1 DEF CreateInstance, FenceInv, FenceTypeOK, CopiesTrue, AtStatus, caches, control
<1>2. CASE DeleteInstance
  <2>1. /\ fence' \in Fence \cup {Nil}
        /\ fence # Nil => fence' # Nil /\ fence'.spec = fence.spec
    <3>1. CASE fence = Nil
      BY <1>2, <3>1 DEF DeleteInstance
    <3>2. CASE fence # Nil
      <4>1. fence \in Fence /\ fence' = [fence EXCEPT !.owner = "gone"]
        BY <1>2, <3>2 DEF DeleteInstance, FenceInv, FenceTypeOK
      <4>2. fence' \in Fence /\ fence'.spec = fence.spec
        BY <4>1 DEF Fence
      <4> QED
        BY <4>2, FenceNil
    <3> QED
      BY <3>1, <3>2
  <2>2. FenceTypeOK'
    BY <1>2, <2>1 DEF DeleteInstance, Gone, FenceInv, FenceTypeOK, control
  <2>3. CopiesTrue'
    BY <1>2, <2>1 DEF DeleteInstance, FenceInv, CopiesTrue, AtStatus, control
  <2> QED
    BY <2>2, <2>3 DEF FenceInv
<1> QED
  BY <1>1, <1>2

LEMMA FenceStutter == ASSUME FenceInv, UNCHANGED vars PROVE FenceInv'
BY DEF vars, objects, caches, control, FenceInv, FenceTypeOK, CopiesTrue, AtStatus

(* Every step is of one of these kinds.                                    *)
LEMMA FenceStep == ASSUME FenceInv, [Next]_vars PROVE FenceInv'
<1>1. CASE Reconcile
  BY <1>1, ReadStep, ApplyStep, StatusStep, RefusedStep DEF Reconcile
<1>2. CASE CollectFence \/ CollectPolicy
  BY <1>2, FenceDeletedStep, PolicyDeletedStep DEF CollectFence, CollectPolicy
<1>3. CASE Outside
  BY <1>3, InstanceStep, EditStep, FenceDeletedStep, PolicyDeletedStep
     DEF Outside, DeleteFence, DeletePolicy
<1> QED
  BY <1>1, <1>2, <1>3, EnsureStep, InformerStep, RestartStep, FenceStutter DEF Next

(* The invariant holds throughout.                                         *)
LEMMA FenceInvariance == Spec => []FenceInv
<1>1. Init => FenceInv
  BY FenceInit
<1>2. FenceInv /\ [Next]_vars => FenceInv'
  BY FenceStep
<1> QED
  BY <1>1, <1>2, PTL DEF Spec

(* Copies, objects and reconciles stay what they are meant to be: a        *)
(* reconcile never works without a fence (Reconcile's early return).       *)
THEOREM FenceTypes == Spec => []FenceTypeOK
<1>1. FenceInv => FenceTypeOK
  BY DEF FenceInv
<1> QED
  BY <1>1, FenceInvariance, PTL

(* Only StatusUpdate turns the status, and what it finds there is what the *)
(* reconcile read, or the update would be refused.                         *)
LEMMA AppliedStep ==
  ASSUME FenceInv, [Next]_vars, fence' # Nil, fence'.applied, fence = Nil \/ ~fence.applied
  PROVE  written = buildNetworkPolicy(fence'.spec)
<1>1. CASE StatusUpdate
  <2>1. /\ fence \in Fence /\ worker.spec = fence.spec
        /\ written = buildNetworkPolicy(worker.spec)
    BY <1>1 DEF StatusUpdate, AtStatus, FenceInv, FenceTypeOK, CopiesTrue
  <2>2. fence' = [fence EXCEPT !.applied = TRUE]
    BY <1>1 DEF StatusUpdate
  <2>3. fence'.spec = fence.spec
    BY <2>1, <2>2 DEF Fence
  <2> QED
    BY <2>1, <2>3
<1>2. CASE ensureNetworkFence
  BY <1>2 DEF ensureNetworkFence
<1>3. CASE EditFence \/ DeleteInstance
  <2>1. fence \in Fence
    BY <1>3 DEF EditFence, DeleteInstance, FenceInv, FenceTypeOK
  <2>2. fence'.applied = fence.applied
    BY <1>3, <2>1 DEF EditFence, DeleteInstance, Fence
  <2> QED
    BY <2>1, <2>2, FenceNil
<1>4. CASE FenceDeleted
  BY <1>4 DEF FenceDeleted
<1>5. CASE UNCHANGED fence
  BY <1>5
<1>6. Read \/ Create \/ Update \/ Refused \/ StatusRefused \/ CallFails => UNCHANGED fence
  BY DEF Read, Create, Update, Applied, Refused, StatusRefused, CallFails, Retry, objects
<1>7. Informers \/ Restart \/ CreateInstance \/ EditPolicy \/ PolicyDeleted => UNCHANGED fence
  BY DEF Informers, InstanceDelivers, FenceDelivers, PolicyDelivers, Restart, CreateInstance,
         EditPolicy, PolicyDeleted, objects
<1>8. UNCHANGED vars => UNCHANGED fence
  BY DEF vars, objects
<1> QED
  BY <1>1, <1>2, <1>3, <1>4, <1>5, <1>6, <1>7, <1>8
     DEF Next, Reconcile, Outside, CollectFence, CollectPolicy, DeleteFence, DeletePolicy

(* The status of a fence is never better than the policy that was stored   *)
(* for it (Reconcile's order, and the versions of its two updates).        *)
THEOREM AppliedSoundness == Spec => AppliedWasWritten
<1>1. FenceInv /\ [Next]_vars =>
        [fence' # Nil /\ fence'.applied /\ (fence = Nil \/ ~fence.applied) =>
           written = buildNetworkPolicy(fence'.spec)]_vars
  BY AppliedStep
<1> QED
  BY <1>1, FenceInvariance, PTL DEF Spec, AppliedWasWritten
===============================================================================
