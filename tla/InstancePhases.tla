---------------------------- MODULE InstancePhases ----------------------------
(***************************************************************************)
(* What the lifecycle of ChallengeInstances promises, with no caches, no   *)
(* workers and no resourceVersions: each instance has one current phase,   *)
(* every step of it is taken from that phase in one piece, an ended one    *)
(* takes none, and each step is announced to the scoring backend at most   *)
(* once, after it was taken.                                               *)
(***************************************************************************)
EXTENDS InstanceTypes

CONSTANT Names

VARIABLES
  now,      \* the clock
  object,   \* object[n]: Nil, or the instance's identity, phase and expiry
  writes,   \* writes[n]: how many writes of n there have been
  pending,  \* announcements still on their way
  heard     \* announcements the backend has received

vars == <<now, object, writes, pending, heard>>

Object == [uid : Nat, phase : Phases, expiresAt : Int \cup {Nil}]

Announcement == [name : Names, uid : Nat, write : Nat, type : EventTypes]

PhasesTypeOK ==
  /\ now \in Nat
  /\ object \in [Names -> Object \cup {Nil}]
  /\ writes \in [Names -> Nat]
  /\ pending \subseteq Announcement
  /\ heard \subseteq Announcement

Init ==
  /\ now = 0
  /\ object = [n \in Names |-> Nil]
  /\ writes = [n \in Names |-> 1]
  /\ pending = {}
  /\ heard = {}

Write(n, o) ==
  /\ writes' = [writes EXCEPT ![n] = @ + 1]
  /\ object' = [object EXCEPT ![n] = o]

Create(n) ==
  /\ object[n] = Nil
  /\ Write(n, [uid |-> writes[n] + 1, phase |-> "", expiresAt |-> Nil])
  /\ UNCHANGED <<now, pending, heard>>

Delete(n) ==
  /\ object[n] # Nil
  /\ Write(n, Nil)
  /\ UNCHANGED <<now, pending, heard>>

(* A write of what phase and expiry do not depend on.                      *)
Touch(n) ==
  /\ object[n] # Nil
  /\ Write(n, object[n])
  /\ UNCHANGED <<now, pending, heard>>

(* Where an instance may go from where it is, at what time.                *)
MayBecome(old, new) ==
  /\ new.uid = old.uid
  /\ ~terminal(old.phase) /\ new.phase # old.phase
  /\ new.phase \in {"Pending", "Failed"} \/ new.expiresAt # Nil
  /\ old.expiresAt # Nil => new.expiresAt = old.expiresAt
  /\ new.expiresAt # old.expiresAt =>
       new.phase \in {"Creating", "Running", "Unhealthy", "Failed"}
  /\ new.phase = "Expiring" => new.expiresAt <= now + GraceWindow
  /\ new.phase = "Expired" => new.expiresAt <= now
  /\ new.phase \notin {"", "Terminating"}

(* Every phase but Pending has an announcement.                            *)
Announce(n, p) ==
  IF p = "Pending" THEN {}
  ELSE {[name |-> n, uid |-> object[n].uid, write |-> writes[n] + 1, type |-> EventOf[p]]}

(* The instance takes a step that MayBecome allows.                        *)
Become(n) ==
  /\ object[n] # Nil /\ object'[n] # Nil
  /\ Write(n, object'[n])
  /\ MayBecome(object[n], object'[n])
  /\ pending' = pending \cup Announce(n, object'[n].phase)
  /\ UNCHANGED <<now, heard>>

Deliver(a) ==
  /\ a \in pending \ heard
  /\ pending' = pending \ {a}
  /\ heard' = heard \cup {a}
  /\ UNCHANGED <<now, object, writes>>

Lose ==
  /\ UNCHANGED <<now, writes, object, heard>>
  /\ pending' \in SUBSET pending

Advance ==
  /\ now' = now + 1
  /\ UNCHANGED <<object, writes, pending, heard>>

Next ==
  \/ Lose
  \/ Advance
  \/ \E a \in pending : Deliver(a)
  \/ \E n \in Names :
       \/ Become(n)
       \/ Touch(n)
       \/ Create(n)
       \/ Delete(n)

Spec == Init /\ [][Next]_vars
=============================================================================
