------------------------- MODULE SetControllerProofs -------------------------
(***************************************************************************)
(* Proofs about SetController, for any schedules and delays.               *)
(***************************************************************************)
EXTENDS SetController, TLAPS

(***************************************************************************)
(* The loop.                                                               *)
(***************************************************************************)

(* Delays in the queue stay natural numbers.                               *)
LEMMA QueueTypes ==
  ASSUME queue \in Nat \cup {Nil}
  PROVE  /\ Less(queue) \in Nat \cup {Nil}
         /\ \A after \in Delays : Requeued(after) \in Nat \cup {Nil}
BY LoopNil DEF Less, Requeued, Delays

(* The steps of the queue, the watch and the API server, and a restart.    *)
LEMMA LoopStep ==
  ASSUME LoopInv(Schedules, Statuses), Elapse \/ Loop \/ \E s \in Schedules : Edit(s)
  PROVE  LoopInv(Schedules, Statuses)'
<1> USE DEF LoopInv, LoopTypeOK, CacheTrue
<1> DEFINE Hands == [status : Statuses, fresh : BOOLEAN, after : Delays]
<1>1. CASE Elapse
  BY <1>1, QueueTypes DEF Elapse
<1>2. CASE \E s \in Schedules : Edit(s)
  <2>1. PICK s \in Schedules : Edit(s)
    BY <1>2
  <2>2. worker # Nil => [worker EXCEPT !.fresh = FALSE] \in Hands
    OBVIOUS
  <2> QED
    BY <2>1, <2>2 DEF Edit
<1>3. CASE WatchDelivers
  BY <1>3 DEF WatchDelivers
<1>4. CASE Restart
  BY <1>4, LoopFaults DEF Restart
<1>5. CASE StatusUpdate
  <2>1. worker.status \in Statuses /\ worker.after \in Delays
    BY <1>5 DEF StatusUpdate
  <2>2. queue' \in Nat \cup {Nil}
    BY <1>5, <2>1, QueueTypes DEF StatusUpdate
  <2> QED
    BY <1>5, <2>1, <2>2 DEF StatusUpdate
<1>6. CASE StatusConflict
  BY <1>6 DEF StatusConflict, Retry
<1>7. CASE CallFails
  BY <1>7, LoopFaults DEF CallFails, Retry
<1> QED
  BY <1>1, <1>2, <1>3, <1>4, <1>5, <1>6, <1>7 DEF Loop, Ends

(* A reconcile that decides.                                               *)
LEMMA WriteStep ==
  ASSUME LoopInv(Schedules, Statuses),
         NEW st \in Statuses, NEW after \in Delays, Write(st, after)
  PROVE  LoopInv(Schedules, Statuses)'
BY DEF LoopInv, LoopTypeOK, CacheTrue, Write

(* Only an accepted update changes the status.                             *)
LEMMA StatusStays ==
  ASSUME Elapse \/ Loop \/ (\E s : Edit(s)) \/ (\E st, after : Write(st, after))
  PROVE  status' = status \/ StatusUpdate
BY DEF Elapse, Loop, Ends, Edit, Write, WatchDelivers, Restart, StatusConflict, CallFails, Retry

(***************************************************************************)
(* The controller.                                                         *)
(***************************************************************************)

(* What a reconcile that is still up to date is about to write agrees with *)
(* the stored schedule: time only adds to what has started.                *)
ActiveIsStarted ==
  worker # Nil /\ worker.fresh /\ worker.status.active => Started(spec, now)

SetInv == LoopInv(Schedules, Statuses) /\ now \in 0..MaxTime /\ ActiveIsStarted

(* What has started stays started.                                         *)
LEMMA StartedGrows ==
  ASSUME NEW s \in Schedules, NEW t \in Nat, NEW u \in Nat, t <= u, Started(s, t)
  PROVE  Started(s, u)
<1>1. CASE s = Nil
  BY <1>1 DEF Started
<1>2. CASE s # Nil
  <2>1. s.startAt \in Nat /\ s.startAt <= t
    BY <1>2, SetAssumption DEF Started, Schedule, Times
  <2> QED
    BY <1>2, <2>1, SetAssumption DEF Started
<1> QED
  BY <1>1, <1>2

(* Every reconcile decides on a status, and on an active one only if the   *)
(* schedule it has read has begun.                                         *)
LEMMA Decision ==
  ASSUME SetInv, Reconcile
  PROVE  /\ now' = now
         /\ \E st \in Statuses, after \in Delays :
              Write(st, after) /\ (st.active => Started(cache.spec, now))
<1> USE DEF SetInv, LoopInv, LoopTypeOK
<1> DEFINE St(a, m) == [active |-> a, message |-> m]
<1>n. DefaultSetRequeue \in Delays /\ now \in Nat /\ cache.spec \in Schedules
  BY SetAssumption DEF Delays
<1>s. \A a \in BOOLEAN, m \in Messages : St(a, m) \in Statuses /\ St(a, m).active = a
  BY DEF Statuses
<1>1. CASE Unscheduled
  <2>1. Write(St(TRUE, ""), DefaultSetRequeue) /\ Started(cache.spec, now)
    BY <1>1 DEF Unscheduled, setStatus, Started
  <2> QED
    BY <1>n, <1>s, <1>1, <2>1 DEF Unscheduled, Messages
<1>2. CASE Unparsable
  <2>1. \E m \in Messages : Write(St(FALSE, m), DefaultSetRequeue)
    BY <1>2 DEF Unparsable, setStatus, Messages
  <2> HIDE DEF St
  <2> QED
    BY <1>n, <1>s, <1>2, <2>1 DEF Unparsable
<1>3. ASSUME Scheduled
      PROVE  /\ now' = now
             /\ cache.spec.startAt \in Nat /\ cache.spec.endAt \in Nat
             /\ cache.spec.startAt # BadTime
  BY <1>n, <1>3, SetAssumption DEF Scheduled, Schedule, Times
<1>4. CASE Waits
  <2>1. Scheduled /\ Write(St(FALSE, "not started"), cache.spec.startAt - now)
    BY <1>4, Zenon DEF Waits, setStatus
  <2>2. cache.spec.startAt - now \in Delays
    <3>1. cache.spec.startAt \in Nat
      BY <1>3, <2>1
    <3>2. now < cache.spec.startAt
      BY <1>4, Zenon DEF Waits
    <3> QED
      BY <1>n, <3>1, <3>2 DEF Delays
  <2> HIDE DEF St
  <2> QED
    BY <1>n, <1>s, <1>3, <2>1, <2>2 DEF Messages
<1>5. CASE Runs
  <2>1. Scheduled /\ Write(St(TRUE, ""), cache.spec.endAt - now)
    BY <1>5, Zenon DEF Runs, setStatus
  <2>2. cache.spec.endAt - now \in Delays
    <3>1. cache.spec.endAt \in Nat
      BY <1>3, <2>1
    <3>2. now < cache.spec.endAt
      BY <1>5, Zenon DEF Runs
    <3> QED
      BY <1>n, <3>1, <3>2 DEF Delays
  <2>3. Started(cache.spec, now)
    BY <1>n, <1>3, <1>5, <2>1 DEF Runs, Started
  <2> HIDE DEF St
  <2> QED
    BY <1>n, <1>s, <1>3, <2>1, <2>2, <2>3 DEF Messages
<1>6. CASE Over
  <2>1. Write(St(FALSE, "ended"), DefaultSetRequeue)
    BY <1>6 DEF Over, setStatus
  <2> HIDE DEF St
  <2> QED
    BY <1>n, <1>s, <1>3, <1>6, <2>1 DEF Over, Messages
<1> QED
  BY <1>1, <1>2, <1>4, <1>5, <1>6 DEF Reconcile

(* Every step keeps the invariant.                                         *)
LEMMA SetStep == ASSUME SetInv, [Next]_vars PROVE SetInv'
<1>0. now \in Nat /\ spec \in Schedules
  BY DEF SetInv, LoopInv, LoopTypeOK
<1>1. CASE Tick
  <2>1. LoopInv(Schedules, Statuses)'
    BY <1>1, LoopStep DEF Tick, SetInv
  <2>2. now' \in 0..MaxTime /\ now <= now'
    BY <1>1, SetAssumption DEF Tick, SetInv
  <2>3. ActiveIsStarted'
    BY <1>0, <1>1, <2>2, StartedGrows, SetAssumption DEF Tick, Elapse, ActiveIsStarted, SetInv
  <2> QED
    BY <2>1, <2>2, <2>3 DEF SetInv
<1>2. CASE Reschedule
  <2>1. PICK s \in Schedules : Edit(s)
    BY <1>2 DEF Reschedule
  <2>2. LoopInv(Schedules, Statuses)'
    BY <2>1, LoopStep DEF SetInv
  <2>3. worker' = Nil \/ worker'.fresh = FALSE
    BY <2>1 DEF Edit, SetInv, LoopInv, LoopTypeOK
  <2> QED
    BY <1>2, <2>2, <2>3 DEF Reschedule, SetInv, ActiveIsStarted
<1>3. CASE Reconcile
  <2>1. PICK st \in Statuses, after \in Delays :
          Write(st, after) /\ (st.active => Started(cache.spec, now))
    BY <1>3, Decision
  <2>2. LoopInv(Schedules, Statuses)' /\ now' = now
    BY <1>3, <2>1, WriteStep, Decision DEF SetInv
  <2>3. ActiveIsStarted'
    BY <2>1, <2>2 DEF Write, ActiveIsStarted, SetInv, LoopInv, CacheTrue
  <2> QED
    BY <2>2, <2>3 DEF SetInv
<1>4. CASE Loop /\ UNCHANGED now
  <2>1. LoopInv(Schedules, Statuses)'
    BY <1>4, LoopStep DEF SetInv
  <2>2. worker' = Nil \/ (worker' = worker /\ spec' = spec)
    BY <1>4 DEF Loop, Ends, WatchDelivers, Restart, StatusUpdate, StatusConflict, CallFails, Retry
  <2> QED
    BY <1>4, <2>1, <2>2 DEF SetInv, ActiveIsStarted
<1>5. CASE UNCHANGED vars
  BY <1>5 DEF vars, loop, SetInv, LoopInv, LoopTypeOK, CacheTrue, ActiveIsStarted
<1> QED
  BY <1>1, <1>2, <1>3, <1>4, <1>5 DEF Next

(* The invariant of the Set Controller: its status and its clock have their*)
(* types and what its worker holds agrees with the stored schedule.        *)
THEOREM SetInvariance == Spec => []SetInv
<1>1. Init => SetInv
  <2> SUFFICES ASSUME Init PROVE SetInv
    OBVIOUS
  <2>1. PICK s \in Schedules : Created(s, [active |-> FALSE, message |-> ""])
    BY DEF Init
  <2>2. [active |-> FALSE, message |-> ""] \in Statuses
    BY DEF Statuses, Messages
  <2>3. LoopInv(Schedules, Statuses) /\ worker = Nil
    <3> DEFINE st == [active |-> FALSE, message |-> ""]
    <3>1. st \in Statuses
      BY <2>2
    <3> HIDE DEF st
    <3>2. Created(s, st)
      BY <2>1 DEF st
    <3>3. cache \in [spec : Schedules, status : Statuses] /\ cache.spec = spec
      BY <3>1, <3>2 DEF Created
    <3> QED
      BY <3>1, <3>2, <3>3, LoopFaults DEF Created, LoopInv, LoopTypeOK, CacheTrue
  <2>4. now \in 0..MaxTime
    <3>1. now = 0
      BY DEF Init
    <3> QED
      BY <3>1, SetAssumption
  <2> QED
    BY <2>3, <2>4 DEF SetInv, ActiveIsStarted
<1>2. SetInv /\ [Next]_vars => SetInv'
  BY SetStep
<1> QED
  BY <1>1, <1>2, PTL DEF Spec

(* Types, for every set of schedules.                                      *)
THEOREM SetTypes == Spec => []SetTypeOK
<1>1. SetInv => SetTypeOK
  BY DEF SetInv, LoopInv, SetTypeOK
<1> QED
  BY <1>1, SetInvariance, PTL

(* No set is made active before the schedule stored at that moment has     *)
(* begun (Reconcile and setStatus).                                        *)
THEOREM ActivationOnTime == Spec => ActivatedAfterStart
<1>1. SetInv /\ [Next]_vars =>
        [status'.active /\ ~status.active => Started(spec', now')]_vars
  <2> SUFFICES ASSUME SetInv, Next, status'.active, ~status.active
               PROVE  Started(spec', now')
    BY DEF vars, loop
  <2>1. status' = status \/ (StatusUpdate /\ UNCHANGED now)
    <3>1. CASE Reconcile
      BY <3>1, Decision, StatusStays DEF Write
    <3>2. CASE Tick
      BY <3>2 DEF Tick, Elapse
    <3>3. CASE Reschedule
      BY <3>3 DEF Reschedule, Edit
    <3>4. CASE Loop /\ UNCHANGED now
      BY <3>4, StatusStays
    <3> QED
      BY <3>1, <3>2, <3>3, <3>4 DEF Next
  <2> QED
    BY <2>1 DEF StatusUpdate, SetInv, ActiveIsStarted
<1> QED
  BY <1>1, SetInvariance, PTL DEF Spec, ActivatedAfterStart
===============================================================================
