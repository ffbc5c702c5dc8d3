------------------------ MODULE InstanceProgressProofs ------------------------
(***************************************************************************)
(* Proofs about InstanceProgress, for any templates, pods, delays, grace   *)
(* window and number of faults.                                            *)
(***************************************************************************)
EXTENDS InstanceProgress, TLAPS

(* A fresh cache holds the stored status.                                  *)
CacheTrue == cacheFresh => cache = status

(* A reconcile that has decided has a timer to set when it is over.        *)
TimersAhead == \A c \in Controllers : worker[c].pc # "idle" => worker[c].after > 0

ProgressInv == TypeOK /\ CacheTrue /\ TimersAhead /\ NeverForgotten /\ SleepsOnlyWhenExpiring

(***************************************************************************)
(* The operators.                                                          *)
(***************************************************************************)

(* The delays are positive, and no key waits before it can.                *)
LEMMA Delayed ==
  /\ TransitionDelay \in Nat /\ TransitionDelay > 0
  /\ PendingDelay \in Nat /\ PendingDelay > 0
  /\ PollDelay \in Nat /\ PollDelay > 0
  /\ ExpiredDelay \in Nat /\ ExpiredDelay > 0
BY DelaysAssumption

(* What the queue holds after a tick and after a Requeue.                  *)
LEMMA QueueTimes ==
  /\ \A d \in Nat \cup {Nil} : Less(d) \in Nat \cup {Nil} /\ (d # Nil => Less(d) # Nil)
  /\ \A d \in Int \cup {Nil} : Less(d) \in Int \cup {Nil}
  /\ \A q \in Nat \cup {Nil} : \A d \in Int :
       d > 0 => Sooner(q, d) \in Nat /\ Sooner(q, d) # Nil
BY NilAssumption DEF Less, Sooner

(* Time passes for a status: only the time to its expiry changes.          *)
LEMMA OlderStatus ==
  ASSUME NEW st \in Status
  PROVE  Older(st) \in Status /\ Older(st).phase = st.phase
BY QueueTimes DEF Older, Status

(* A threshold is a number.                                                *)
LEMMA Threshold ==
  ASSUME NEW t \in Template
  PROVE  threshold(t) \in Nat
BY DEF threshold, Template

(* The stored count stops at the threshold.                                *)
LEMMA CappedStatus ==
  ASSUME TypeOK, NEW st \in Status
  PROVE  Capped(st) \in Status
<1>1. tmpl # Nil => threshold(tmpl) \in Nat
  BY Threshold, TemplateAssumption DEF TypeOK
<1> QED
  BY <1>1 DEF Capped, Status

(* Events are events.                                                      *)
LEMMA ProgressEvents ==
  /\ \A p : eventForPhase(p) \in EventTypes \cup {Nil}
  /\ EventOf["Expired"] \in EventTypes /\ EventOf["Expiring"] \in EventTypes
BY DEF eventForPhase, EventTypes, EventOf

(* The status of a new instance is a status.                               *)
LEMMA NewStatusType == NewStatus \in Status
BY DEF NewStatus, Status, Phases, Reasons

(* A worker with nothing in hand.                                          *)
LEMMA IdleType == Idle \in Work /\ Idle.pc = "idle"
BY NewStatusType DEF Idle, Work

(* ensureExpiry yields a status whenever it does not fail.                 *)
LEMMA EnsureExpiry ==
  ASSUME NEW st \in Status, NEW t \in Template, NEW m \in Int, ~expiryInvalid(st, Nil, t)
  PROVE  ensureExpiry(st, Nil, t, m) \in Status
<1>1. CASE st.expiresAt # Nil
  BY <1>1 DEF ensureExpiry
<1>2. CASE st.expiresAt = Nil
  <2>1. effectiveTTL(Nil, t) \in Int
    BY <1>2 DEF expiryInvalid, effectiveTTL, TTL, Template
  <2> DEFINE e == m + effectiveTTL(Nil, t)
  <2>2. e \in Int
    BY <2>1
  <2> HIDE DEF e
  <2>3. ensureExpiry(st, Nil, t, m) = [st EXCEPT !.startedAt = m, !.expiresAt = e]
    BY <1>2 DEF ensureExpiry, e
  <2> QED
    BY <2>2, <2>3 DEF Status
<1> QED
  BY <1>1, <1>2

(* determinePhase yields a status.                                         *)
LEMMA DeterminePhase ==
  ASSUME NEW st \in Status, NEW t \in Template, NEW p \in PodViews
  PROVE  determinePhase(st, t, p) \in Status
<1> DEFINE count == countUnhealthy(st, p)
           At(q, r) == [st EXCEPT !.phase = q, !.reason = r, !.unhealthyCount = count]
<1>1. count \in Nat
  BY DEF countUnhealthy, Status
<1>2. \E q \in Phases, r \in Reasons : determinePhase(st, t, p) = At(q, r)
  BY DEF determinePhase, PodViews, Phases, Reasons
<1> HIDE DEF count
<1>3. \A q \in Phases, r \in Reasons : At(q, r) \in Status
  BY <1>1 DEF Status
<1> QED
  BY <1>2, <1>3

(***************************************************************************)
(* The steps.                                                              *)
(***************************************************************************)

(* What Hand does to the workers.                                          *)
LEMMA HandFacts ==
  ASSUME TypeOK, NEW c \in Controllers, NEW w \in Work, Hand(c, w)
  PROVE  /\ worker' \in [Controllers -> Work] /\ worker'[c] = w
         /\ \A d \in Controllers : d # c => worker'[d] = worker[d]
BY DEF TypeOK, Hand

(* A tick changes no phase and takes nothing out of a queue.               *)
LEMMA TickStep ==
  ASSUME ProgressInv, Tick
  PROVE  ProgressInv'
<1>1. TypeOK
  BY DEF ProgressInv
<1>2. status' \in Status /\ cache' \in Status
      /\ status'.phase = status.phase /\ cache'.phase = cache.phase
  BY <1>1, OlderStatus DEF Tick, TypeOK
<1>3. ASSUME NEW c \in Controllers
      PROVE  /\ worker'[c] \in Work /\ worker'[c].pc = worker[c].pc
             /\ worker'[c].after = worker[c].after
  <2> DEFINE st == Older(worker[c].status)
  <2>1. worker[c] \in Work /\ worker[c].status \in Status
    BY <1>1, <1>3 DEF TypeOK, Work
  <2>2. st \in Status
    BY <2>1, OlderStatus
  <2>3. worker'[c] = [worker[c] EXCEPT !.status = st]
    BY <1>3 DEF Tick
  <2> HIDE DEF st
  <2> QED
    BY <2>1, <2>2, <2>3 DEF Work
<1>4. worker' \in [Controllers -> Work]
  <2>1. worker' = [c \in Controllers |-> worker'[c]]
    BY DEF Tick
  <2> QED
    BY <1>3, <2>1
<1>5. /\ queue' \in [Controllers -> Nat \cup {Nil}]
      /\ \A c \in Controllers : queue[c] # Nil => queue'[c] # Nil
  BY <1>1, QueueTimes DEF Tick, TypeOK
<1>6. TypeOK'
  BY <1>1, <1>2, <1>4, <1>5 DEF Tick, TypeOK
<1>7. CacheTrue' /\ TimersAhead'
  BY <1>3 DEF ProgressInv, CacheTrue, TimersAhead, Tick
<1>8. NeverForgotten' /\ SleepsOnlyWhenExpiring'
  BY <1>2, <1>3, <1>5
     DEF ProgressInv, NeverForgotten, SleepsOnlyWhenExpiring, Tick, terminal, Controllers
<1> QED
  BY <1>6, <1>7, <1>8 DEF ProgressInv

(* The other steps of the world only wake controllers.                     *)
LEMMA WorldStep ==
  ASSUME ProgressInv, TemplateChange \/ PodChange \/ CheckFails \/ WatchDelivers \/ Restart
  PROVE  ProgressInv'
<1> USE DEF ProgressInv, TypeOK, CacheTrue, TimersAhead, NeverForgotten, SleepsOnlyWhenExpiring
<1>1. CASE TemplateChange
  BY <1>1 DEF TemplateChange
<1>2. CASE PodChange
  <2>1. /\ queue' \in [Controllers -> Nat \cup {Nil}] /\ pod' \in PodViews
        /\ queue'["challengeinstance"] = 0 /\ queue'["lifecycle"] = queue["lifecycle"]
        /\ 0 # Nil /\ failures' \in Nat
    BY <1>2, NilAssumption, PodAssumption DEF PodChange, Woken, Controllers
  <2> QED
    BY <1>2, <2>1 DEF PodChange
<1>3. CASE CheckFails
  BY <1>3 DEF CheckFails
<1>4. ASSUME queue' = Woken(Controllers)
      PROVE  /\ queue' \in [Controllers -> Nat \cup {Nil}]
             /\ queue'["challengeinstance"] # Nil /\ queue'["lifecycle"] # Nil
  BY <1>4, NilAssumption DEF Woken, Controllers
<1>5. CASE WatchDelivers
  BY <1>4, <1>5 DEF WatchDelivers
<1>6. CASE Restart
  <2>1. worker' \in [Controllers -> Work] /\ \A c \in Controllers : worker'[c].pc = "idle"
    BY <1>6, IdleType DEF Restart
  <2>2. faults' \in 0..MaxFaults
    BY <1>6, MaxFaultsAssumption DEF Restart
  <2> QED
    BY <1>4, <1>6, <2>1, <2>2 DEF Restart
<1> QED
  BY <1>1, <1>2, <1>3, <1>5, <1>6

(* A reconcile that decides to write holds the delay to set afterwards.    *)
LEMMA WriteStep ==
  ASSUME ProgressInv, NEW c \in Controllers, worker[c].pc = "idle",
         NEW st \in Status, NEW evt \in EventTypes \cup {Nil},
         NEW after \in Int, after > 0, Write(c, st, evt, after), workload' \in BOOLEAN
  PROVE  ProgressInv'
<1> DEFINE w == [pc |-> "update", status |-> Capped(st), fresh |-> cacheFresh,
                 changed |-> st # cache, event |-> evt, after |-> after]
<1>1. w \in Work /\ w.pc = "update" /\ w.after = after
  BY CappedStatus DEF ProgressInv, TypeOK, Work
<1>2. Hand(c, w) /\ queue' = [queue EXCEPT ![c] = Nil]
      /\ UNCHANGED <<tmpl, pod, failures, status, cache, cacheFresh, faults>>
  BY DEF Write
<1> HIDE DEF w
<1>3. /\ worker' \in [Controllers -> Work] /\ worker'[c] = w
      /\ \A d \in Controllers : d # c => worker'[d] = worker[d]
  BY <1>1, <1>2, HandFacts DEF ProgressInv
<1>4. /\ queue' \in [Controllers -> Nat \cup {Nil}]
      /\ \A d \in Controllers : d # c => queue'[d] = queue[d]
  BY <1>2 DEF ProgressInv, TypeOK
<1> QED
  BY <1>1, <1>2, <1>3, <1>4
     DEF ProgressInv, TypeOK, CacheTrue, TimersAhead, NeverForgotten,
         SleepsOnlyWhenExpiring, Controllers

(* A reconcile that returns leaves its key there, unless the instance is   *)
(* finished, or Expiring and still within its time.                        *)
LEMMA ReturnStep ==
  ASSUME ProgressInv, NEW c \in Controllers, NEW after \in Int, Return(c, after),
         UNCHANGED workload,
         c = "challengeinstance" => terminal(cache.phase),
         c = "lifecycle" => after > 0 \/ cache.phase = "Expiring"
  PROVE  ProgressInv'
<1>1. queue' = [queue EXCEPT ![c] = IF after > 0 THEN after ELSE Nil]
      /\ UNCHANGED <<tmpl, pod, failures, workload, status, cache, cacheFresh, worker, faults>>
  BY DEF Return
<1>2. /\ queue' \in [Controllers -> Nat \cup {Nil}]
      /\ \A d \in Controllers : d # c => queue'[d] = queue[d]
      /\ after > 0 => queue'[c] # Nil
  BY <1>1, NilAssumption DEF ProgressInv, TypeOK
<1> QED
  BY <1>1, <1>2
     DEF ProgressInv, TypeOK, CacheTrue, TimersAhead, NeverForgotten,
         SleepsOnlyWhenExpiring, Controllers

(* The Instance Controller always sets a timer when it writes.             *)
LEMMA InstanceStep ==
  ASSUME ProgressInv,
         InstanceReturns \/ TemplateMissing \/ InstanceWaits \/ InstanceReconciles
  PROVE  ProgressInv'
<1> DEFINE c == "challengeinstance"
<1>1. c \in Controllers /\ worker[c].pc = "idle"
  BY DEF Controllers, InstanceReturns, TemplateMissing, InstanceWaits, InstanceReconciles, Taken
<1>2. TypeOK /\ cache \in Status /\ (tmpl # Nil => tmpl \in Template) /\ pod \in PodViews
  BY TemplateAssumption DEF ProgressInv, TypeOK
<1>3. ASSUME NEW st \in Status, NEW after \in Int, after > 0, transition(st, after),
             workload' \in BOOLEAN
      PROVE  ProgressInv'
  <2> DEFINE evt == IF st.phase # cache.phase THEN eventForPhase(st.phase) ELSE Nil
  <2>1. evt \in EventTypes \cup {Nil}
    BY ProgressEvents
  <2>2. Write(c, st, evt, after)
    BY <1>3 DEF transition
  <2> HIDE DEF evt
  <2> QED
    BY <1>1, <1>3, <2>1, <2>2, WriteStep
<1>4. CASE InstanceReturns
  <2>1. Return(c, 0) /\ UNCHANGED workload /\ terminal(cache.phase)
    BY <1>4 DEF InstanceReturns, Finished
  <2> QED
    BY <1>1, <2>1, ReturnStep
<1>5. CASE InstanceWaits
  <2> DEFINE st == [cache EXCEPT !.phase = "Pending", !.reason = "template not ready"]
  <2>1. st \in Status
    BY <1>2 DEF Status, Phases, Reasons
  <2>2. transition(st, PendingDelay) /\ workload' \in BOOLEAN
    BY <1>2, <1>5 DEF InstanceWaits, TypeOK
  <2> HIDE DEF st
  <2> QED
    BY <1>3, <2>1, <2>2, Delayed
<1>6. CASE InstanceReconciles
  <2> DEFINE failed == [cache EXCEPT !.phase = "Failed", !.reason = "invalid TTL"]
             seen   == determinePhase(ensureExpiry(cache, Nil, tmpl, 0), tmpl, pod)
             st     == IF expiryInvalid(cache, Nil, tmpl) THEN failed ELSE seen
  <2>1. failed \in Status
    BY <1>2 DEF Status, Phases, Reasons
  <2>2. ~expiryInvalid(cache, Nil, tmpl) => seen \in Status
    BY <1>2, <1>6, EnsureExpiry, DeterminePhase DEF InstanceReconciles
  <2>3. transition(st, TransitionDelay) /\ workload' \in BOOLEAN
    BY <1>6 DEF InstanceReconciles
  <2> HIDE DEF failed, seen
  <2>4. st \in Status
    BY <2>1, <2>2
  <2> HIDE DEF st
  <2> QED
    BY <1>3, <2>3, <2>4, Delayed
<1>7. CASE TemplateMissing
  <2> DEFINE st == [cache EXCEPT !.phase = "Failed", !.reason = "no template"]
  <2>1. st \in Status
    BY <1>2 DEF Status, Phases, Reasons
  <2>2. transition(st, TransitionDelay) /\ workload' \in BOOLEAN
    BY <1>2, <1>7 DEF TemplateMissing, TypeOK
  <2> HIDE DEF st
  <2> QED
    BY <1>3, <2>1, <2>2, Delayed
<1> QED
  BY <1>4, <1>5, <1>6, <1>7

(* A call that fails before the status is written leaves the key there.    *)
LEMMA EnsureStep ==
  ASSUME ProgressInv, EnsureFails
  PROVE  ProgressInv'
<1>1. workload' \in BOOLEAN
  BY Zenon DEF ProgressInv, TypeOK, EnsureFails
<1>2. faults' \in 0..MaxFaults
  BY MaxFaultsAssumption DEF ProgressInv, TypeOK, EnsureFails
<1> QED
  BY <1>1, <1>2
     DEF EnsureFails, ProgressInv, TypeOK, CacheTrue, TimersAhead, NeverForgotten,
         SleepsOnlyWhenExpiring

(* The Lifecycle Controller sets one too, or returns with one, except      *)
(* within the grace window of an Expiring instance.                        *)
LEMMA LifecycleStep ==
  ASSUME ProgressInv, LifecyclePolls \/ LifecycleExpires \/ LifecycleWarns \/ LifecycleSleeps
  PROVE  ProgressInv'
<1> DEFINE c == "lifecycle"
           after == remaining(cache, 0)
<1>1. c \in Controllers /\ worker[c].pc = "idle" /\ c # "challengeinstance"
  BY DEF Controllers, LifecyclePolls, LifecycleExpires, LifecycleWarns, LifecycleSleeps, Taken
<1>2. cache \in Status /\ workload \in BOOLEAN
  BY DEF ProgressInv, TypeOK
<1>3. Expirable => after \in Int
  BY <1>2 DEF Expirable, remaining, Status
<1>4. CASE LifecyclePolls
  BY <1>1, <1>4, Delayed, ReturnStep DEF LifecyclePolls
<1>5. CASE LifecycleExpires
  <2> DEFINE st == [cache EXCEPT !.phase = "Expired", !.reason = "TTL expired"]
  <2>1. st \in Status
    BY <1>2 DEF Status, Phases, Reasons
  <2>2. Write(c, st, EventOf["Expired"], ExpiredDelay) /\ workload' \in BOOLEAN
    BY <1>2, <1>5 DEF LifecycleExpires, notifyAndSetPhase
  <2> HIDE DEF st
  <2> QED
    BY <1>1, <2>1, <2>2, Delayed, ProgressEvents, WriteStep
<1>6. CASE LifecycleWarns
  <2> DEFINE st == [cache EXCEPT !.phase = "Expiring", !.reason = "grace window"]
  <2>1. st \in Status
    BY <1>2 DEF Status, Phases, Reasons
  <2>2. Write(c, st, EventOf["Expiring"], after) /\ workload' \in BOOLEAN
    BY <1>2, <1>6 DEF LifecycleWarns, notifyAndSetPhase
  <2>3. after \in Int /\ after > 0
    BY <1>3, <1>6 DEF LifecycleWarns, mustWarn
  <2> HIDE DEF st, after
  <2> QED
    BY <1>1, <2>1, <2>2, <2>3, ProgressEvents, WriteStep
<1>7. CASE LifecycleSleeps
  <2>1. Return(c, after - GraceWindow) /\ UNCHANGED workload /\ after \in Int
    BY <1>3, <1>7 DEF LifecycleSleeps
  <2>2. after > 0 /\ (after > GraceWindow \/ cache.phase = "Expiring")
    BY <1>3, <1>7, GraceAssumption DEF LifecycleSleeps, mustExpire, mustWarn
  <2>3. after - GraceWindow \in Int /\ (after - GraceWindow > 0 \/ cache.phase = "Expiring")
    BY <2>1, <2>2, GraceAssumption
  <2> HIDE DEF after
  <2> QED
    BY <1>1, <2>1, <2>3, ReturnStep
<1> QED
  BY <1>4, <1>5, <1>6, <1>7

(* What ends a reconcile: a retry, or the timer it was to set.             *)
LEMMA EndStep ==
  ASSUME ProgressInv, NEW c \in Controllers,
         StatusUpdate(c) \/ StatusConflict(c) \/ CallFails(c) \/ Notify(c)
  PROVE  ProgressInv'
<1>0. TypeOK /\ worker[c] \in Work
  BY DEF ProgressInv, TypeOK
<1>1. ASSUME NEW after \in Int, after > 0, Requeue(c, after)
      PROVE  /\ queue' \in [Controllers -> Nat \cup {Nil}] /\ queue'[c] # Nil
             /\ \A d \in Controllers : d # c => queue'[d] = queue[d]
  <2>1. queue' = [queue EXCEPT ![c] = Sooner(queue[c], after)]
    BY <1>0, <1>1 DEF Requeue, TypeOK
  <2>2. Sooner(queue[c], after) \in Nat /\ Sooner(queue[c], after) # Nil
    BY <1>0, <1>1, QueueTimes DEF TypeOK
  <2> QED
    BY <1>0, <2>1, <2>2 DEF TypeOK
<1>2. worker[c].pc # "idle" => worker[c].after \in Int /\ worker[c].after > 0
  BY <1>0 DEF ProgressInv, TimersAhead, Work
<1>3. ASSUME Retry(c), faults' \in 0..MaxFaults
      PROVE  ProgressInv'
  <2>1. /\ worker' \in [Controllers -> Work] /\ worker'[c].pc = "idle"
        /\ \A d \in Controllers : d # c => worker'[d] = worker[d]
    BY <1>0, <1>3, IdleType, HandFacts DEF Retry
  <2>2. /\ queue' \in [Controllers -> Nat \cup {Nil}] /\ queue'[c] # Nil
        /\ \A d \in Controllers : d # c => queue'[d] = queue[d]
    BY <1>0, <1>3, NilAssumption DEF Retry, TypeOK
  <2> QED
    BY <1>3, <2>1, <2>2
       DEF Retry, ProgressInv, TypeOK, CacheTrue, TimersAhead, NeverForgotten,
           SleepsOnlyWhenExpiring, Controllers
<1>4. CASE StatusConflict(c)
  BY <1>0, <1>3, <1>4 DEF StatusConflict, TypeOK
<1>5. CASE CallFails(c)
  BY <1>0, <1>3, <1>5, MaxFaultsAssumption DEF CallFails, TypeOK
<1>6. CASE Notify(c)
  <2>1. /\ worker' \in [Controllers -> Work] /\ worker'[c].pc = "idle"
        /\ \A d \in Controllers : d # c => worker'[d] = worker[d]
    BY <1>0, <1>6, IdleType, HandFacts DEF Notify
  <2>2. /\ queue' \in [Controllers -> Nat \cup {Nil}] /\ queue'[c] # Nil
        /\ \A d \in Controllers : d # c => queue'[d] = queue[d]
    BY <1>1, <1>2, <1>6 DEF Notify
  <2> QED
    BY <1>6, <2>1, <2>2
       DEF Notify, ProgressInv, TypeOK, CacheTrue, TimersAhead, NeverForgotten,
           SleepsOnlyWhenExpiring, Controllers
<1>7. CASE StatusUpdate(c)
  <2> DEFINE w == worker[c]
             done == IF w.event = Nil THEN Idle
                     ELSE [Idle EXCEPT !.pc = "notify", !.event = w.event, !.after = w.after]
  <2>1. /\ w.pc = "update" /\ w.status \in Status /\ w.event \in EventTypes \cup {Nil}
        /\ w.after \in Int /\ w.after > 0
    BY <1>0, <1>2, <1>7 DEF StatusUpdate, Work
  <2>2. /\ done \in Work
        /\ IF w.event = Nil THEN done.pc = "idle" ELSE done.pc = "notify" /\ done.after = w.after
    BY <2>1, IdleType, NewStatusType DEF Idle, Work
  <2>3. /\ w.changed => /\ status' = w.status /\ cacheFresh' = FALSE
                         /\ worker' = [d \in Controllers |->
                               IF d = c THEN done ELSE [worker[d] EXCEPT !.fresh = FALSE]]
        /\ ~w.changed => UNCHANGED <<status, cacheFresh>> /\ Hand(c, done)
        /\ IF w.event = Nil THEN Requeue(c, w.after) ELSE UNCHANGED queue
        /\ UNCHANGED <<tmpl, pod, failures, workload, cache, faults>>
    BY <1>7 DEF StatusUpdate
  <2>4. w.changed \in BOOLEAN
    BY <1>0 DEF Work
  <2> HIDE DEF done
  <2>5. ASSUME NEW d \in Controllers
        PROVE  LET v == [worker[d] EXCEPT !.fresh = FALSE]
               IN  v \in Work /\ v.pc = worker[d].pc /\ v.after = worker[d].after
    BY <1>0 DEF TypeOK, Work
  <2>6. /\ worker' \in [Controllers -> Work] /\ worker'[c] = done
        /\ \A d \in Controllers : d # c =>
             worker'[d].pc = worker[d].pc /\ worker'[d].after = worker[d].after
    <3>1. CASE w.changed
      BY <2>2, <2>3, <2>5, <3>1
    <3>2. CASE ~w.changed
      BY <1>0, <2>2, <2>3, <3>2, HandFacts
    <3> QED
      BY <3>1, <3>2
  <2>7. /\ queue' \in [Controllers -> Nat \cup {Nil}]
        /\ queue'[c] # Nil \/ worker'[c].pc # "idle"
        /\ \A d \in Controllers : d # c => queue'[d] = queue[d]
    <3>1. CASE w.event = Nil
      BY <1>1, <2>1, <2>3, <3>1
    <3>2. CASE w.event # Nil
      BY <1>0, <2>2, <2>3, <2>6, <3>2 DEF TypeOK
    <3> QED
      BY <3>1, <3>2
  <2>8. status' \in Status /\ cacheFresh' \in BOOLEAN
    BY <1>0, <2>1, <2>3, <2>4 DEF TypeOK
  <2>9. TypeOK'
    BY <1>0, <2>3, <2>6, <2>7, <2>8 DEF TypeOK
  <2>10. CacheTrue'
    BY <2>3, <2>4 DEF ProgressInv, CacheTrue
  <2>11. TimersAhead'
    BY <2>1, <2>2, <2>6 DEF ProgressInv, TimersAhead
  <2>12. NeverForgotten' /\ SleepsOnlyWhenExpiring'
    BY <2>3, <2>4, <2>6, <2>7
       DEF ProgressInv, NeverForgotten, SleepsOnlyWhenExpiring, Controllers
  <2> QED
    BY <2>9, <2>10, <2>11, <2>12 DEF ProgressInv
<1> QED
  BY <1>4, <1>5, <1>6, <1>7

(***************************************************************************)
(* The theorems.                                                           *)
(***************************************************************************)

(* The invariant holds of every behaviour of the two queues.               *)
THEOREM ProgressInvariance == Spec => []ProgressInv
<1>1. Init => ProgressInv
  <2> SUFFICES ASSUME Init PROVE ProgressInv
    OBVIOUS
  <2>1. TypeOK
    <3>1. /\ worker \in [Controllers -> Work] /\ queue \in [Controllers -> Nat \cup {Nil}]
          /\ status \in Status /\ cache \in Status
      BY NewStatusType, IdleType DEF Init
    <3>2. /\ tmpl \in Templates /\ pod \in PodViews /\ failures \in Nat
          /\ faults \in 0..MaxFaults
      BY MaxFaultsAssumption DEF Init, PodViews
    <3>3. workload \in BOOLEAN /\ cacheFresh \in BOOLEAN
      BY Zenon DEF Init
    <3> QED
      BY <3>1, <3>2, <3>3 DEF TypeOK
  <2>2. \A c \in Controllers : worker[c].pc = "idle" /\ queue[c] # Nil
    BY IdleType, NilAssumption DEF Init
  <2> QED
    BY <2>1, <2>2
       DEF Init, ProgressInv, CacheTrue, TimersAhead, NeverForgotten,
           SleepsOnlyWhenExpiring, Controllers
<1>2. ProgressInv /\ [Next]_vars => ProgressInv'
  <2> SUFFICES ASSUME ProgressInv, [Next]_vars PROVE ProgressInv'
    OBVIOUS
  <2>1. CASE World
    BY <2>1, TickStep, WorldStep DEF World
  <2>5. CASE EnsureFails
    BY <2>5, EnsureStep
  <2>2. ASSUME NEW c \in Controllers, Reconcile(c)
        PROVE  ProgressInv'
    BY <2>2, InstanceStep, LifecycleStep DEF Reconcile
  <2>3. ASSUME NEW c \in Controllers,
               StatusUpdate(c) \/ StatusConflict(c) \/ CallFails(c) \/ Notify(c)
        PROVE  ProgressInv'
    BY <2>3, EndStep
  <2>4. CASE UNCHANGED vars
    BY <2>4
       DEF vars, ProgressInv, TypeOK, CacheTrue, TimersAhead, NeverForgotten,
           SleepsOnlyWhenExpiring
  <2> QED
    BY <2>1, <2>2, <2>3, <2>4, <2>5 DEF Next
<1> QED
  BY <1>1, <1>2, PTL DEF Spec

(* Every variable keeps its type, whatever the templates and delays.       *)
THEOREM ProgressTypes == Spec => []TypeOK
<1>1. ProgressInv => TypeOK
  BY DEF ProgressInv
<1> QED
  BY <1>1, ProgressInvariance, PTL

(* The Instance Controller never loses the key of a living instance: each  *)
(* way out of a reconcile sets a timer, retries, or has stored what the    *)
(* watch will bring (the Results of Reconcile and transition).             *)
THEOREM NoWakeUpLost == Spec => []NeverForgotten
<1>1. ProgressInv => NeverForgotten
  BY DEF ProgressInv
<1> QED
  BY <1>1, ProgressInvariance, PTL

(* The Lifecycle Controller is without a timer only for an instance it has *)
(* already warned of, whatever the grace window and the TTL are            *)
(* (LifecycleReconciler.Reconcile).                                        *)
THEOREM WarnedBeforeForgotten == Spec => []SleepsOnlyWhenExpiring
<1>1. ProgressInv => SleepsOnlyWhenExpiring
  BY DEF ProgressInv
<1> QED
  BY <1>1, ProgressInvariance, PTL
===============================================================================
