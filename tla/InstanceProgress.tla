--------------------------- MODULE InstanceProgress ---------------------------
(***************************************************************************)
(* What makes one ChallengeInstance go on: the work queues of the two      *)
(* controllers, their timers and the watch events that wake them.          *)
(*                                                                         *)
(* Each controller has one worker and a queue in which the instance's key  *)
(* is at most once, ready now or when a timer runs out.  A reconcile ends  *)
(* in a new timer (RequeueAfter), in a retry (an error) or in neither; a   *)
(* stored write wakes both controllers and a change of the pod wakes the   *)
(* Instance Controller.  The queue keeps one entry per key, so being woken *)
(* also cancels the timer (the priority queue of controller-runtime).      *)
(*                                                                         *)
(* Times are relative: a status holds the ticks left until its expiry, and *)
(* Tick takes one off everywhere.  Versions are not numbered: it is enough *)
(* to know whether a copy of the object is still the stored version.       *)
(***************************************************************************)
EXTENDS InstanceTypes

CONSTANTS
  Templates,         \* what the cache may hold of the template; Nil for nothing
  Pods,              \* what pods.Items[0] may show
  TransitionDelay,   \* RequeueAfter of transition
  PendingDelay,      \* RequeueAfter while the template is not ready
  PollDelay,         \* RequeueAfter of the Lifecycle Controller without expiry
  ExpiredDelay,      \* RequeueAfter once an instance was expired
  MaxFaults          \* bound on restarts and failing calls together

ASSUME DelaysAssumption ==
  {TransitionDelay, PendingDelay, PollDelay, ExpiredDelay} \subseteq Nat \ {0}
ASSUME MaxFaultsAssumption == MaxFaults \in Nat
ASSUME TemplateAssumption == Templates \subseteq Template \cup {Nil}
ASSUME PodAssumption == Pods \subseteq PodViews

VARIABLES
  tmpl,        \* the instance's template, as cached, or Nil
  pod,         \* what the cached pod list shows
  failures,    \* readiness checks the pod has failed in a row (up to threshold)
  workload,    \* whether the Deployment exists
  status,      \* the stored status
  cache,       \* the status in the informer cache
  cacheFresh,  \* whether that is the stored version
  queue,       \* queue[c]: ticks until c's key is ready, or Nil
  worker,      \* worker[c]: what c's worker has in hand
  faults       \* restarts and failed calls so far

vars == <<tmpl, pod, failures, workload, status, cache, cacheFresh, queue, worker, faults>>

Controllers == {"challengeinstance", "lifecycle"}

Idle == [pc |-> "idle", status |-> NewStatus, fresh |-> FALSE, changed |-> FALSE,
         event |-> Nil, after |-> 0]

Work == [pc : {"idle", "update", "notify"}, status : Status, fresh : BOOLEAN,
         changed : BOOLEAN, event : EventTypes \cup {Nil}, after : Int]

TypeOK ==
  /\ tmpl \in Templates
  /\ pod \in PodViews
  /\ failures \in Nat
  /\ workload \in BOOLEAN
  /\ status \in Status
  /\ cache \in Status
  /\ cacheFresh \in BOOLEAN
  /\ queue \in [Controllers -> Nat \cup {Nil}]
  /\ worker \in [Controllers -> Work]
  /\ faults \in 0..MaxFaults

(* An instance that was just created: both controllers are told of it.     *)
Init ==
  /\ tmpl \in Templates
  /\ pod = "none"
  /\ failures = 0
  /\ workload = FALSE
  /\ status = NewStatus
  /\ cache = NewStatus
  /\ cacheFresh = TRUE
  /\ queue = [c \in Controllers |-> 0]
  /\ worker = [c \in Controllers |-> Idle]
  /\ faults = 0

(***************************************************************************)
(* The work queues.                                                        *)
(***************************************************************************)

(* A key that is there already becomes ready at the earlier of two times.  *)
Sooner(q, d) == IF q = Nil \/ d < q THEN d ELSE q

Woken(cs) == [c \in Controllers |-> IF c \in cs THEN 0 ELSE queue[c]]

(* A reconcile's result: RequeueAfter counts only if it is positive.       *)
Requeue(c, after) ==
  queue' = [queue EXCEPT ![c] = IF after > 0 THEN Sooner(@, after) ELSE @]

Hand(c, w) == worker' = [worker EXCEPT ![c] = w]

(***************************************************************************)
(* The world.                                                              *)
(***************************************************************************)
Less(d) == IF d = Nil \/ d = 0 THEN d ELSE d - 1

(* Nothing tells an expiry that has passed from one that passed long ago.  *)
Older(st) == [st EXCEPT !.expiresAt = Less(@)]

Tick ==
  /\ status' = Older(status)
  /\ cache' = Older(cache)
  /\ worker' = [c \in Controllers |-> [worker[c] EXCEPT !.status = Older(@)]]
  /\ queue' = [c \in Controllers |-> Less(queue[c])]
  /\ UNCHANGED <<tmpl, pod, failures, workload, cacheFresh, faults>>

(* Nobody watches templates.                                               *)
TemplateChange ==
  /\ tmpl' \in Templates \ {tmpl}
  /\ UNCHANGED <<pod, failures, workload, status, cache, cacheFresh, queue, worker, faults>>

(* The pod of an existing Deployment changes; mapPodToInstance wakes the   *)
(* Instance Controller.  A pod becomes unready by failing a check.         *)
PodChange ==
  /\ workload
  /\ pod' \in Pods \ {pod}
  /\ failures' = IF pod' = "unready" THEN 1 ELSE 0
  /\ queue' = Woken({"challengeinstance"})
  /\ UNCHANGED <<tmpl, workload, status, cache, cacheFresh, worker, faults>>

(* The kubelet finds the pod unready again, which changes nothing it       *)
(* reports.                                                                *)
CheckFails ==
  /\ pod = "unready" /\ tmpl # Nil /\ failures < threshold(tmpl)
  /\ failures' = failures + 1
  /\ UNCHANGED <<tmpl, pod, workload, status, cache, cacheFresh, queue, worker, faults>>

(* The watch brings the stored version and wakes both controllers.         *)
WatchDelivers ==
  /\ ~cacheFresh
  /\ cache' = status
  /\ cacheFresh' = TRUE
  /\ queue' = Woken(Controllers)
  /\ UNCHANGED <<tmpl, pod, failures, workload, status, worker, faults>>

(* The manager restarts: timers and work in hand are lost, and the first   *)
(* list wakes both controllers.                                            *)
Restart ==
  /\ faults < MaxFaults
  /\ faults' = faults + 1
  /\ worker' = [c \in Controllers |-> Idle]
  /\ cache' = status
  /\ cacheFresh' = TRUE
  /\ queue' = Woken(Controllers)
  /\ UNCHANGED <<tmpl, pod, failures, workload, status>>

(***************************************************************************)
(* Reconciles.  A reconcile takes the key, reads the cache and decides in  *)
(* one step; its update and its notification are steps of their own.       *)
(***************************************************************************)
Taken(c) == worker[c].pc = "idle" /\ queue[c] = 0

(* The reconcile returns without a write.                                  *)
Return(c, after) ==
  /\ queue' = [queue EXCEPT ![c] = IF after > 0 THEN after ELSE Nil]
  /\ UNCHANGED <<tmpl, pod, failures, status, cache, cacheFresh, worker, faults>>

(* Counts above the threshold behave alike: the stored count stops there.  *)
Capped(st) ==
  [st EXCEPT !.unhealthyCount = IF tmpl # Nil /\ @ > threshold(tmpl) THEN threshold(tmpl) ELSE @]

Write(c, st, evt, after) ==
  /\ Hand(c, [pc |-> "update", status |-> Capped(st), fresh |-> cacheFresh,
              changed |-> st # cache, event |-> evt, after |-> after])
  /\ queue' = [queue EXCEPT ![c] = Nil]
  /\ UNCHANGED <<tmpl, pod, failures, status, cache, cacheFresh, faults>>

(* Fault: an instance that is Expiring is left to the Lifecycle Controller.*)
FinishedOrExpiring == terminal(cache.phase) \/ cache.phase = "Expiring"

(* What the Instance Controller leaves alone.                              *)
Finished == terminal(cache.phase)

InstanceReturns ==
  /\ Taken("challengeinstance")
  /\ Finished
  /\ Return("challengeinstance", 0)
  /\ UNCHANGED workload

transition(st, after) ==
  Write("challengeinstance", st,
        IF st.phase # cache.phase THEN eventForPhase(st.phase) ELSE Nil, after)

(* A template that is not in the cache, be it only not yet, ends the       *)
(* instance for good.                                                      *)
TemplateMissing ==
  /\ Taken("challengeinstance")
  /\ ~Finished
  /\ tmpl = Nil
  /\ transition([cache EXCEPT !.phase = "Failed", !.reason = "no template"], TransitionDelay)
  /\ UNCHANGED workload

(* Fault: the wait for the template sets no timer.                         *)
InstanceWaitsForever ==
  /\ Taken("challengeinstance")
  /\ ~Finished
  /\ tmpl # Nil /\ ~tmpl.ready
  /\ transition([cache EXCEPT !.phase = "Pending", !.reason = "template not ready"], 0)
  /\ UNCHANGED workload

InstanceWaits ==
  /\ Taken("challengeinstance")
  /\ ~Finished
  /\ tmpl # Nil /\ ~tmpl.ready
  /\ transition([cache EXCEPT !.phase = "Pending", !.reason = "template not ready"],
                PendingDelay)
  /\ UNCHANGED workload

InstanceReconciles ==
  /\ Taken("challengeinstance")
  /\ ~Finished
  /\ tmpl # Nil /\ tmpl.ready
  /\ workload' = TRUE
  /\ transition(
       IF expiryInvalid(cache, Nil, tmpl)
       THEN [cache EXCEPT !.phase = "Failed", !.reason = "invalid TTL"]
       ELSE determinePhase(ensureExpiry(cache, Nil, tmpl, 0), tmpl, pod),
       TransitionDelay)

(* One of the calls after the template was read fails, perhaps with the    *)
(* Deployment created, and the key goes back into the queue at once.       *)
EnsureFails ==
  /\ Taken("challengeinstance")
  /\ ~Finished
  /\ tmpl # Nil /\ tmpl.ready
  /\ faults < MaxFaults
  /\ faults' = faults + 1
  /\ workload' \in {workload, TRUE}
  /\ UNCHANGED <<tmpl, pod, failures, status, cache, cacheFresh, queue, worker>>

LifecyclePolls ==
  /\ Taken("lifecycle")
  /\ terminal(cache.phase) \/ cache.expiresAt = Nil
  /\ Return("lifecycle", PollDelay)
  /\ UNCHANGED workload

Expirable == ~terminal(cache.phase) /\ cache.expiresAt # Nil

notifyAndSetPhase(p, r, after) ==
  Write("lifecycle", [cache EXCEPT !.phase = p, !.reason = r], EventOf[p], after)

LifecycleExpires ==
  /\ Taken("lifecycle")
  /\ Expirable
  /\ mustExpire(cache, 0)
  /\ notifyAndSetPhase("Expired", "TTL expired", ExpiredDelay)
  /\ UNCHANGED workload

LifecycleWarns ==
  /\ Taken("lifecycle")
  /\ Expirable
  /\ mustWarn(cache, 0)
  /\ notifyAndSetPhase("Expiring", "grace window", remaining(cache, 0))
  /\ UNCHANGED workload

(* Within the grace window this delay is not positive: no timer is left.   *)
LifecycleSleeps ==
  /\ Taken("lifecycle")
  /\ Expirable
  /\ ~mustExpire(cache, 0) /\ ~mustWarn(cache, 0)
  /\ Return("lifecycle", remaining(cache, 0) - GraceWindow)
  /\ UNCHANGED workload

(* The update is accepted: whatever else has been read is stale now.       *)
StatusUpdate(c) ==
  LET w == worker[c]
      done == IF w.event = Nil THEN Idle
              ELSE [Idle EXCEPT !.pc = "notify", !.event = w.event, !.after = w.after]
  IN  /\ w.pc = "update" /\ w.fresh
      /\ IF w.changed
         THEN /\ status' = w.status
              /\ cacheFresh' = FALSE
              /\ worker' = [d \in Controllers |->
                              IF d = c THEN done ELSE [worker[d] EXCEPT !.fresh = FALSE]]
         ELSE /\ UNCHANGED <<status, cacheFresh>>
              /\ Hand(c, done)
      /\ IF w.event = Nil THEN Requeue(c, w.after) ELSE UNCHANGED queue
      /\ UNCHANGED <<tmpl, pod, failures, workload, cache, faults>>

(* An error puts the key back at once (the rate limiter's delay is less    *)
(* than a tick).                                                           *)
Retry(c) ==
  /\ Hand(c, Idle)
  /\ queue' = [queue EXCEPT ![c] = 0]
  /\ UNCHANGED <<tmpl, pod, failures, workload, status, cache, cacheFresh>>

StatusConflict(c) ==
  /\ worker[c].pc = "update" /\ ~worker[c].fresh
  /\ Retry(c)
  /\ UNCHANGED faults

CallFails(c) ==
  /\ worker[c].pc = "update"
  /\ faults < MaxFaults
  /\ faults' = faults + 1
  /\ Retry(c)

(* The backend answers, or fails to: either way the reconcile is over.     *)
Notify(c) ==
  /\ worker[c].pc = "notify"
  /\ Hand(c, Idle)
  /\ Requeue(c, worker[c].after)
  /\ UNCHANGED <<tmpl, pod, failures, workload, status, cache, cacheFresh, faults>>

Reconcile(c) ==
  \/ /\ c = "challengeinstance"
     /\ InstanceReturns \/ TemplateMissing \/ InstanceWaits \/ InstanceReconciles
  \/ c = "lifecycle" /\ (LifecyclePolls \/ LifecycleExpires \/ LifecycleWarns \/ LifecycleSleeps)

World == Tick \/ TemplateChange \/ PodChange \/ CheckFails \/ WatchDelivers \/ Restart

Next ==
  \/ World
  \/ EnsureFails
  \/ \E c \in Controllers :
       Reconcile(c) \/ StatusUpdate(c) \/ StatusConflict(c) \/ CallFails(c) \/ Notify(c)

(***************************************************************************)
(* Time passes, the watch delivers, a worker takes a key that is ready and *)
(* ends what it has begun.  Nothing is assumed of pods, of templates, of   *)
(* faults or of the order in which these happen.                           *)
(***************************************************************************)
Fairness ==
  /\ WF_vars(Tick)
  /\ WF_vars(WatchDelivers)
  /\ \A c \in Controllers :
       /\ WF_vars(Reconcile(c))
       /\ WF_vars(StatusUpdate(c) \/ StatusConflict(c))
       /\ WF_vars(Notify(c))

Spec == Init /\ [][Next]_vars /\ Fairness

(***************************************************************************)
(* Liveness.                                                               *)
(***************************************************************************)

(* The pod and the template stop changing, with the pod not unready.       *)
Settles == <>[](pod # "unready") /\ <>[][UNCHANGED <<pod, tmpl>>]_vars

(* An instance whose time has come is ended once its surroundings settle.  *)
(* (While they do not, or a pod stays unready, which makes every reconcile *)
(* store a new count, each update of the Lifecycle Controller may be       *)
(* overtaken.)  The timer of notifyAndSetPhase is lost to the watch event  *)
(* of its own write, so this rests on the Instance Controller moving an    *)
(* Expiring instance back, which wakes the Lifecycle Controller again.     *)
ExpiresInTheEnd == Settles => (status.expiresAt = 0 ~> terminal(status.phase))

(* An instance whose template becomes ready for good is started, through   *)
(* restarts and conflicts, though nothing wakes the Instance Controller    *)
(* when a template changes.                                                *)
StartsInTheEnd ==
  <>[](tmpl # Nil /\ tmpl.ready) => <>(status.expiresAt # Nil \/ terminal(status.phase))

(* No wake-up is lost: as long as an instance lives, the Instance          *)
(* Controller works on it, has its key or a timer for it, or is about to   *)
(* be woken by the watch (the Results of Reconcile and transition).        *)
NeverForgotten ==
  terminal(status.phase) \/ ~cacheFresh
    \/ queue["challengeinstance"] # Nil \/ worker["challengeinstance"].pc # "idle"

(* The one gap in the Lifecycle Controller's timers: it is left without    *)
(* its key only while the cache shows an Expiring instance, never before   *)
(* the warning, and never by an instance that has no expiry yet (the       *)
(* Results of LifecycleReconciler.Reconcile, in which a delay of zero is   *)
(* none).                                                                  *)
SleepsOnlyWhenExpiring ==
  \/ cache.phase = "Expiring"
  \/ queue["lifecycle"] # Nil \/ worker["lifecycle"].pc # "idle"

(***************************************************************************)
(* What a comment says and the code does not do.                           *)
(***************************************************************************)

(* unhealthyCount is the number of "consecutive failed readiness checks"   *)
(* (challengeinstance_types.go): an Unhealthy instance failed as many as   *)
(* the threshold.  It counts reconciles, and each count triggers the next. *)
UnhealthyMeansChecksFailed ==
  status.phase = "Unhealthy" /\ pod = "unready" /\ tmpl # Nil => failures >= threshold(tmpl)
=============================================================================
