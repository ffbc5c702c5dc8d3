---------------------------- MODULE InstanceTypes ----------------------------
(***************************************************************************)
(* The vocabulary of a ChallengeInstance's lifecycle (its phases, the      *)
(* events sent to the scoring backend, its status) and the decisions the   *)
(* two reconcilers take from what they have read, as operators without     *)
(* state: every module that runs a reconciler uses these.                  *)
(***************************************************************************)
EXTENDS Integers

CONSTANTS
  Nil,          \* a nil pointer, an absent object, an empty ttlOverride
  BadTTL,       \* a TTL string time.ParseDuration rejects
  GraceWindow   \* expiringGraceWindow, in clock ticks

ASSUME NilAssumption == Nil \notin Int /\ BadTTL \notin Int /\ Nil # BadTTL
ASSUME GraceAssumption == GraceWindow \in Nat

Phases == {"", "Pending", "Creating", "Running", "Unhealthy",
           "Expiring", "Expired", "Terminating", "Failed"}

terminal(p) == p \in {"Expired", "Failed"}

(* Event types, keyed by the phase they announce.                          *)
EventOf ==
  [Creating  |-> "instance.creating",  Running |-> "instance.running",
   Unhealthy |-> "instance.unhealthy", Failed  |-> "instance.failed",
   Expiring  |-> "instance.expiring",  Expired |-> "instance.expired"]

EventTypes == {EventOf[p] : p \in DOMAIN EventOf}

ASSUME EventsAssumption == Nil \notin EventTypes

(* Fault: eventForPhase's second result is ignored.                        *)
eventForAnyPhase(p) ==
  IF p \in {"Creating", "Running", "Unhealthy", "Failed"} THEN EventOf[p] ELSE ""

(* The event the Instance Controller sends on entering a phase, if any.    *)
eventForPhase(p) ==
  IF p \in {"Creating", "Running", "Unhealthy", "Failed"} THEN EventOf[p] ELSE Nil

Reasons == {"", "no template", "template not ready", "invalid TTL",
            "pod unscheduled", "pod starting", "pod unready", "pod failing",
            "pod failed", "grace window", "TTL expired"}

TTL == Int \cup {BadTTL}

(* What a reconciler uses of a ChallengeTemplate.                          *)
Template == [ready : BOOLEAN, ttl : TTL, unhealthyThreshold : Nat, exposed : BOOLEAN]

Status == [phase : Phases, reason : Reasons, startedAt : Int \cup {Nil},
           expiresAt : Int \cup {Nil}, unhealthyCount : Nat]

NewStatus == [phase |-> "", reason |-> "", startedAt |-> Nil,
              expiresAt |-> Nil, unhealthyCount |-> 0]

(***************************************************************************)
(* The Instance Controller's decisions.                                    *)
(***************************************************************************)

(* The TTL an instance runs with, as written in its spec and its template. *)
effectiveTTL(ttlOverride, tmpl) == IF ttlOverride # Nil THEN ttlOverride ELSE tmpl.ttl

(* ensureExpiry fails only while there is no expiry yet.                   *)
expiryInvalid(st, ttlOverride, tmpl) ==
  st.expiresAt = Nil /\ effectiveTTL(ttlOverride, tmpl) = BadTTL

(* Fault: the expiry is stamped again by every reconcile.                  *)
ensureExpiryAgain(st, ttlOverride, tmpl, t) ==
  [st EXCEPT !.startedAt = t, !.expiresAt = t + effectiveTTL(ttlOverride, tmpl)]

(* ensureExpiry stamps the start and the end of the instance's life once.  *)
ensureExpiry(st, ttlOverride, tmpl, t) ==
  IF st.expiresAt # Nil THEN st
  ELSE [st EXCEPT !.startedAt = t, !.expiresAt = t + effectiveTTL(ttlOverride, tmpl)]

(* What pods.Items[0] may show: no pod at all, or one pod's condition.     *)
PodViews == {"none", "pending", "unready", "ready", "failed"}

threshold(tmpl) == IF tmpl.unhealthyThreshold = 0 THEN 3 ELSE tmpl.unhealthyThreshold

(* The count of readiness failures after looking at the pod.               *)
countUnhealthy(st, pod) ==
  CASE pod = "ready"   -> 0
    [] pod = "unready" -> st.unhealthyCount + 1
    [] OTHER           -> st.unhealthyCount

determinePhase(st, tmpl, pod) ==
  LET count   == countUnhealthy(st, pod)
      To(p,r) == [st EXCEPT !.phase = p, !.reason = r, !.unhealthyCount = count]
  IN  CASE pod = "none"    -> To("Creating", "pod unscheduled")
        [] pod = "failed"  -> To("Failed", "pod failed")
        [] pod = "ready"   -> To("Running", "")
        [] pod = "pending" -> To("Creating", "pod starting")
        [] pod = "unready" -> IF count >= threshold(tmpl)
                              THEN To("Unhealthy", "pod failing")
                              ELSE To("Creating", "pod unready")

(***************************************************************************)
(* The Lifecycle Controller's decisions, on a live instance with an expiry.*)
(***************************************************************************)
remaining(st, t) == st.expiresAt - t

(* Fault: the instance is ended as soon as the grace window opens.         *)
mustExpireEarly(st, t) == remaining(st, t) <= GraceWindow

mustExpire(st, t) == remaining(st, t) <= 0

(* Fault: the warning is repeated as long as the grace window lasts.       *)
mustWarnAgain(st, t) == remaining(st, t) > 0 /\ remaining(st, t) <= GraceWindow

(* Fault: the last moment of the sleep before the window is not yet in it. *)
mustWarnLate(st, t) ==
  remaining(st, t) > 0 /\ remaining(st, t) < GraceWindow /\ st.phase # "Expiring"

mustWarn(st, t) ==
  remaining(st, t) > 0 /\ remaining(st, t) <= GraceWindow /\ st.phase # "Expiring"
=============================================================================
