---------------------------- MODULE SetController ----------------------------
(***************************************************************************)
(* The Set Controller: a ChallengeSet is active while the clock is within  *)
(* its schedule.  Every reconcile asks to be called again at the next      *)
(* boundary of the schedule it has read.                                   *)
(***************************************************************************)
EXTENDS StatusLoop

CONSTANTS
  BadTime,            \* a string time.Parse rejects
  Schedules,          \* what administrators write to spec.schedule; Nil for none
  DefaultSetRequeue,  \* defaultSetRequeue, in ticks
  MaxTime             \* the clock stops here

Times == Nat \cup {BadTime}

Schedule == [startAt : Times, endAt : Times]

ASSUME SetAssumption ==
  /\ BadTime \notin Int
  /\ Schedules \subseteq Schedule \cup {Nil}
  /\ DefaultSetRequeue \in Nat \ {0}
  /\ MaxTime \in Nat

VARIABLE now

vars == <<loop, now>>

Messages == {"", "invalid startAt", "invalid endAt", "not started", "ended"}

Statuses == [active : BOOLEAN, message : Messages]

SetTypeOK == LoopTypeOK(Schedules, Statuses) /\ now \in 0..MaxTime

Init ==
  /\ \E s \in Schedules : Created(s, [active |-> FALSE, message |-> ""])
  /\ now = 0

setStatus(active, message, requeueAfter) ==
  Write([active |-> active, message |-> message], requeueAfter)

Unscheduled ==
  /\ Taken
  /\ cache.spec = Nil
  /\ setStatus(TRUE, "", DefaultSetRequeue)
  /\ UNCHANGED now

(* Both times are parsed before either is looked at.                       *)
Unparsable ==
  /\ Taken
  /\ cache.spec # Nil
  /\ \/ cache.spec.startAt = BadTime /\ setStatus(FALSE, "invalid startAt", DefaultSetRequeue)
     \/ /\ cache.spec.startAt # BadTime /\ cache.spec.endAt = BadTime
        /\ setStatus(FALSE, "invalid endAt", DefaultSetRequeue)
  /\ UNCHANGED now

(* A reconcile of a schedule whose times are times.                        *)
Scheduled ==
  /\ Taken
  /\ cache.spec # Nil /\ BadTime \notin {cache.spec.startAt, cache.spec.endAt}
  /\ UNCHANGED now

(* Fault: the delay is computed the wrong way round, and is not positive.  *)
WaitsBackwards ==
  /\ Scheduled
  /\ now < cache.spec.startAt
  /\ setStatus(FALSE, "not started", now - cache.spec.startAt)

Waits ==
  /\ Scheduled
  /\ now < cache.spec.startAt
  /\ setStatus(FALSE, "not started", cache.spec.startAt - now)

(* Fault: the end is looked at before the start.                           *)
RunsUntilEnd ==
  /\ Scheduled
  /\ now < cache.spec.endAt
  /\ setStatus(TRUE, "", cache.spec.endAt - now)

Runs ==
  /\ Scheduled
  /\ now >= cache.spec.startAt /\ now < cache.spec.endAt
  /\ setStatus(TRUE, "", cache.spec.endAt - now)

Over ==
  /\ Scheduled
  /\ now >= cache.spec.startAt /\ now >= cache.spec.endAt
  /\ setStatus(FALSE, "ended", DefaultSetRequeue)

Reconcile == Unscheduled \/ Unparsable \/ Waits \/ Runs \/ Over

Tick ==
  /\ now' = IF now < MaxTime THEN now + 1 ELSE now
  /\ Elapse

Reschedule ==
  /\ \E s \in Schedules \ {spec} : Edit(s)
  /\ UNCHANGED now

Next == Tick \/ Reschedule \/ Reconcile \/ (Loop /\ UNCHANGED now)

(* Time passes, the watch delivers, a key that is ready is taken and what  *)
(* was begun is ended.                                                     *)
Fairness ==
  /\ WF_vars(Tick)
  /\ WF_vars(WatchDelivers /\ UNCHANGED now)
  /\ WF_vars(Reconcile)
  /\ WF_vars(Ends /\ UNCHANGED now)

Spec == Init /\ [][Next]_vars /\ Fairness

(***************************************************************************)
(* Properties.                                                             *)
(***************************************************************************)
Started(s, t) == s = Nil \/ (s.startAt # BadTime /\ s.startAt <= t)

Open(s, t) == Started(s, t) /\ (s # Nil => s.endAt # BadTime /\ t < s.endAt)

(* A set is made active only once the schedule that is stored then has     *)
(* begun, even if it was moved to a later time while the reconcile was     *)
(* under way (Reconcile's switch and the resourceVersion of setStatus's    *)
(* update).  It may still be made active late, after its end.              *)
ActivatedAfterStart ==
  [][status'.active /\ ~status.active => Started(spec', now')]_vars

(* A set follows its schedule without being told: once administrators let  *)
(* it be, its status ends up at what the schedule says and stays there     *)
(* (the requeue delays: "so the set flips active/inactive without needing  *)
(* external triggers").                                                    *)
FollowsSchedule ==
  <>[][UNCHANGED spec]_vars => <>[](status.active <=> Open(spec, now))
===============================================================================
