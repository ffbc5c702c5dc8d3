----------------------- MODULE TemplateControllerProofs -----------------------
(***************************************************************************)
(* Proofs about TemplateController, for any specs and any finite set of    *)
(* instances.                                                              *)
(***************************************************************************)
EXTENDS TemplateController, TLAPS, FiniteSetTheorems

(***************************************************************************)
(* The loop.                                                               *)
(***************************************************************************)

(* Delays in the queue stay natural numbers.                               *)
LEMMA QueueTypes ==
  ASSUME queue \in Nat \cup {Nil}
  PROVE  /\ Less(queue) \in Nat \cup {Nil}
         /\ \A after \in Delays : Requeued(after) \in Nat \cup {Nil}
BY LoopNil DEF Less, Requeued, Delays

(* The steps of the queue, the watch and the API server, and a restart.    *)
LEMMA LoopStep ==
  ASSUME LoopInv(TemplateSpecs, Statuses), Elapse \/ Loop \/ \E s \in TemplateSpecs : Edit(s)
  PROVE  LoopInv(TemplateSpecs, Statuses)'
<1> USE DEF LoopInv, LoopTypeOK, CacheTrue
<1> DEFINE Hands == [status : Statuses, fresh : BOOLEAN, after : Delays]
<1>1. CASE Elapse
  BY <1>1, QueueTypes DEF Elapse
<1>2. CASE \E s \in TemplateSpecs : Edit(s)
  <2>1. PICK s \in TemplateSpecs : Edit(s)
    BY <1>2
  <2>2. worker # Nil => [worker EXCEPT !.fresh = FALSE] \in Hands
    OBVIOUS
  <2> QED
    BY <2>1, <2>2 DEF Edit
<1>3. CASE WatchDelivers
  BY <1>3 DEF WatchDelivers
<1>4. CASE Restart
  BY <1>4, LoopFaults DEF Restart
<1>5. CASE StatusUpdate
  <2>1. worker.status \in Statuses /\ worker.after \in Delays
    BY <1>5 DEF StatusUpdate
  <2>2. queue' \in Nat \cup {Nil}
    BY <1>5, <2>1, QueueTypes DEF StatusUpdate
  <2> QED
    BY <1>5, <2>1, <2>2 DEF StatusUpdate
<1>6. CASE StatusConflict
  BY <1>6 DEF StatusConflict, Retry
<1>7. CASE CallFails
  BY <1>7, LoopFaults DEF CallFails, Retry
<1> QED
  BY <1>1, <1>2, <1>3, <1>4, <1>5, <1>6, <1>7 DEF Loop, Ends

(* A reconcile that decides.                                               *)
LEMMA WriteStep ==
  ASSUME LoopInv(TemplateSpecs, Statuses),
         NEW st \in Statuses, NEW after \in Delays, Write(st, after)
  PROVE  LoopInv(TemplateSpecs, Statuses)'
BY DEF LoopInv, LoopTypeOK, CacheTrue, Write

(* Only an accepted update changes the status.                             *)
LEMMA StatusStays ==
  ASSUME Elapse \/ Loop \/ (\E s : Edit(s)) \/ (\E st, after : Write(st, after))
  PROVE  status' = status \/ StatusUpdate
BY DEF Elapse, Loop, Ends, Edit, Write, WatchDelivers, Restart, StatusConflict, CallFails, Retry

(***************************************************************************)
(* The controller.                                                         *)
(***************************************************************************)

(* What a reconcile that is still up to date is about to write agrees with *)
(* the stored spec.                                                        *)
ReadyIsRunnable ==
  worker # Nil /\ worker.fresh /\ worker.status.ready => Runnable(spec)

TemplateInv ==
  /\ LoopInv(TemplateSpecs, Statuses)
  /\ secret \in BOOLEAN /\ instances \subseteq Names /\ listed \subseteq Names
  /\ ReadyIsRunnable

(* What is counted is a number.                                            *)
LEMMA CountType ==
  ASSUME listed \subseteq Names PROVE Cardinality(listed \cap Labelled) \in Nat
<1>1. IsFiniteSet(listed \cap Labelled)
  BY TemplateControllerAssumption, FS_Subset
<1> QED
  BY <1>1, FS_CardinalityType

(* Every reconcile decides on a status, and on a ready one only if the     *)
(* spec it has read can be run.                                            *)
LEMMA Decision ==
  ASSUME TemplateInv, Reconcile
  PROVE  /\ UNCHANGED around
         /\ \E st \in Statuses, after \in Delays :
              Write(st, after) /\ (st.ready => Runnable(cache.spec))
<1>1. RequeueAfter \in Delays
  BY TemplateControllerAssumption DEF Delays
<1>2. ASSUME NEW m \in Messages, setStatus(FALSE, m)
      PROVE  \E st \in Statuses : Write(st, RequeueAfter) /\ ~st.ready
  <2> DEFINE st == [cache.status EXCEPT !.ready = FALSE, !.message = m]
  <2>1. st \in Statuses /\ ~st.ready
    BY DEF TemplateInv, LoopInv, LoopTypeOK, Statuses
  <2> QED
    BY <1>2, <2>1 DEF setStatus
<1>3. CASE SecretMissing
  BY <1>1, <1>2, <1>3 DEF SecretMissing, Messages
<1>4. CASE ImageMissing
  BY <1>1, <1>2, <1>4 DEF ImageMissing, Messages
<1>5. CASE PolicyUnsupported
  BY <1>1, <1>2, <1>5 DEF PolicyUnsupported, Messages
<1>6. CASE Validated
  <2> DEFINE st == [ready |-> TRUE, instanceCount |-> Cardinality(listed \cap Labelled),
                    message |-> ""]
  <2>1. st \in Statuses
    BY CountType DEF TemplateInv, Statuses, Messages
  <2>2. Write(st, RequeueAfter) /\ Runnable(cache.spec) /\ UNCHANGED around
    BY <1>6 DEF Validated, Runnable
  <2> HIDE DEF st
  <2> QED
    BY <1>1, <2>1, <2>2
<1> QED
  BY <1>3, <1>4, <1>5, <1>6 DEF Reconcile

(* Every step keeps the invariant.                                         *)
LEMMA TemplateStep == ASSUME TemplateInv, [Next]_vars PROVE TemplateInv'
<1>1. CASE Tick
  <2>1. LoopInv(TemplateSpecs, Statuses)'
    BY <1>1, LoopStep DEF Tick, TemplateInv
  <2> QED
    BY <1>1, <2>1 DEF Tick, Elapse, around, TemplateInv, ReadyIsRunnable
<1>2. CASE SpecChange
  <2>1. PICK s \in TemplateSpecs : Edit(s)
    BY <1>2 DEF SpecChange
  <2>2. LoopInv(TemplateSpecs, Statuses)'
    BY <2>1, LoopStep DEF TemplateInv
  <2>3. worker' = Nil \/ worker'.fresh = FALSE
    BY <2>1 DEF Edit, TemplateInv, LoopInv, LoopTypeOK
  <2> QED
    BY <1>2, <2>2, <2>3 DEF SpecChange, around, TemplateInv, ReadyIsRunnable
<1>3. CASE SecretChange \/ ListDelivers \/ Clients
  <2>1. /\ UNCHANGED loop
        /\ secret' \in BOOLEAN /\ instances' \subseteq Names /\ listed' \subseteq Names
    BY <1>3 DEF SecretChange, ListDelivers, Clients, handleCreateInstance, KubectlCreate,
                handleDeleteInstance, TemplateInv
  <2> QED
    BY <2>1 DEF loop, TemplateInv, LoopInv, LoopTypeOK, CacheTrue, ReadyIsRunnable
<1>4. CASE Reconcile
  <2>1. PICK st \in Statuses, after \in Delays :
          Write(st, after) /\ (st.ready => Runnable(cache.spec))
    BY <1>4, Decision
  <2>2. LoopInv(TemplateSpecs, Statuses)' /\ UNCHANGED around
    BY <1>4, <2>1, WriteStep, Decision DEF TemplateInv
  <2>3. ReadyIsRunnable'
    BY <2>1 DEF Write, ReadyIsRunnable, TemplateInv, LoopInv, CacheTrue
  <2> QED
    BY <2>2, <2>3 DEF around, TemplateInv
<1>5. CASE Loop /\ UNCHANGED around
  <2>1. LoopInv(TemplateSpecs, Statuses)'
    BY <1>5, LoopStep DEF TemplateInv
  <2>2. worker' = Nil \/ (worker' = worker /\ spec' = spec)
    BY <1>5 DEF Loop, Ends, WatchDelivers, Restart, StatusUpdate, StatusConflict, CallFails, Retry
  <2> QED
    BY <1>5, <2>1, <2>2 DEF around, TemplateInv, ReadyIsRunnable
<1>6. CASE UNCHANGED vars
  BY <1>6 DEF vars, loop, TemplateInv, LoopInv, LoopTypeOK, CacheTrue, ReadyIsRunnable
<1> QED
  BY <1>1, <1>2, <1>3, <1>4, <1>5, <1>6 DEF Next

(* The invariant of the Template Controller: types, and that what its      *)
(* worker holds agrees with the stored spec as long as that is the one it  *)
(* read.                                                                   *)
THEOREM TemplateInvariance == Spec => []TemplateInv
<1>1. Init => TemplateInv
  <2> SUFFICES ASSUME Init PROVE TemplateInv
    OBVIOUS
  <2> DEFINE st == [ready |-> FALSE, instanceCount |-> 0, message |-> ""]
  <2>1. PICK s \in TemplateSpecs : Created(s, st)
    BY DEF Init
  <2>2. st \in Statuses
    BY DEF Statuses, Messages
  <2> HIDE DEF st
  <2>3. cache \in [spec : TemplateSpecs, status : Statuses] /\ cache.spec = spec
    BY <2>1, <2>2 DEF Created
  <2>4. LoopInv(TemplateSpecs, Statuses) /\ worker = Nil
    BY <2>1, <2>2, <2>3, LoopFaults DEF Created, LoopInv, LoopTypeOK, CacheTrue
  <2> QED
    BY <2>4 DEF Init, TemplateInv, ReadyIsRunnable
<1>2. TemplateInv /\ [Next]_vars => TemplateInv'
  BY TemplateStep
<1> QED
  BY <1>1, <1>2, PTL DEF Spec

(* Types, for every set of specs and every finite set of instances.        *)
THEOREM TemplateTypes == Spec => []TemplateTypeOK
<1>1. TemplateInv => TemplateTypeOK
  BY DEF TemplateInv, LoopInv, TemplateTypeOK
<1> QED
  BY <1>1, TemplateInvariance, PTL

(* Ready is never stored next to a spec that cannot be run, however the    *)
(* spec is edited while it is validated (Reconcile and setStatus).         *)
THEOREM ReadinessIsSound == Spec => ReadyWasValidated
<1>1. TemplateInv /\ [Next]_vars =>
        [status' # status /\ status'.ready => Runnable(spec')]_vars
  <2> SUFFICES ASSUME TemplateInv, Next, status' # status, status'.ready
               PROVE  Runnable(spec')
    BY DEF vars, loop
  <2>1. StatusUpdate
    <3>1. CASE Reconcile
      BY <3>1, Decision DEF Write
    <3>2. CASE Tick
      BY <3>2 DEF Tick, Elapse
    <3>3. CASE SpecChange
      BY <3>3 DEF SpecChange, Edit
    <3>4. CASE SecretChange \/ ListDelivers \/ Clients
      BY <3>4 DEF SecretChange, ListDelivers, Clients, handleCreateInstance, KubectlCreate,
                  handleDeleteInstance, loop
    <3>5. CASE Loop /\ UNCHANGED around
      BY <3>5, StatusStays
    <3> QED
      BY <3>1, <3>2, <3>3, <3>4, <3>5 DEF Next
  <2> QED
    BY <2>1 DEF StatusUpdate, TemplateInv, ReadyIsRunnable
<1> QED
  BY <1>1, TemplateInvariance, PTL DEF Spec, ReadyWasValidated
===============================================================================
