------------------------------ MODULE StatusLoop ------------------------------
(***************************************************************************)
(* The loop every controller of one object runs: its key waits in a queue, *)
(* a reconcile reads the object from the informer cache, decides on a      *)
(* status and a delay, and updates the status, which the API server        *)
(* refuses if the object changed since it was read.  A stored write is     *)
(* brought by the watch and wakes the controller; an error puts the key    *)
(* back at once.  The decision is left to the modules that extend this one.*)
(*                                                                         *)
(* As in InstanceProgress the queue has one entry for the key, in ticks,   *)
(* and copies of the object are known only as fresh or not.                *)
(***************************************************************************)
EXTENDS Integers

CONSTANTS
  Nil,        \* nothing in the queue or in hand
  MaxFaults   \* bound on restarts and failing calls together

ASSUME LoopNil == Nil \notin Int
ASSUME LoopFaults == MaxFaults \in Nat

VARIABLES
  spec,        \* the stored spec
  status,      \* the stored status
  cache,       \* the spec and the status in the informer cache
  cacheFresh,  \* whether these are the stored ones
  queue,       \* ticks until the key is ready, or Nil
  worker,      \* the status about to be written, or Nil
  faults       \* restarts and failed calls so far

loop == <<spec, status, cache, cacheFresh, queue, worker, faults>>

(* Every reconcile asks to be called again.                                *)
Delays == Nat \ {0}

LoopTypeOK(Specs, Statuses) ==
  /\ spec \in Specs
  /\ status \in Statuses
  /\ cache \in [spec : Specs, status : Statuses]
  /\ cacheFresh \in BOOLEAN
  /\ queue \in Nat \cup {Nil}
  /\ worker \in [status : Statuses, fresh : BOOLEAN, after : Delays] \cup {Nil}
  /\ faults \in 0..MaxFaults

(* The object was just created.                                            *)
Created(s, st) ==
  /\ spec = s /\ status = st
  /\ cache = [spec |-> s, status |-> st] /\ cacheFresh = TRUE
  /\ queue = 0
  /\ worker = Nil
  /\ faults = 0

Less(d) == IF d = Nil \/ d = 0 THEN d ELSE d - 1

(* A tick of the clock, as the queue sees it.                              *)
Elapse ==
  /\ queue' = Less(queue)
  /\ UNCHANGED <<spec, status, cache, cacheFresh, worker, faults>>

(* Somebody else writes the object's spec.                                 *)
Edit(s) ==
  /\ spec' = s
  /\ cacheFresh' = FALSE
  /\ worker' = IF worker = Nil THEN Nil ELSE [worker EXCEPT !.fresh = FALSE]
  /\ UNCHANGED <<status, cache, queue, faults>>

WatchDelivers ==
  /\ ~cacheFresh
  /\ cache' = [spec |-> spec, status |-> status]
  /\ cacheFresh' = TRUE
  /\ queue' = 0
  /\ UNCHANGED <<spec, status, worker, faults>>

Restart ==
  /\ faults < MaxFaults
  /\ faults' = faults + 1
  /\ cache' = [spec |-> spec, status |-> status]
  /\ cacheFresh' = TRUE
  /\ queue' = 0
  /\ worker' = Nil
  /\ UNCHANGED <<spec, status>>

(* A reconcile begins.                                                     *)
Taken == worker = Nil /\ queue = 0

(* It has decided on a status and on the delay of the next one.            *)
Write(st, after) ==
  /\ worker' = [status |-> st, fresh |-> cacheFresh, after |-> after]
  /\ queue' = Nil
  /\ UNCHANGED <<spec, status, cache, cacheFresh, faults>>

(* A key that is there already becomes ready at the earlier of two times;  *)
(* RequeueAfter counts only if it is positive.                             *)
Requeued(after) ==
  IF after > 0 /\ (queue = Nil \/ after < queue) THEN after ELSE queue

(* An update that changes nothing stores no new version.                   *)
StatusUpdate ==
  /\ worker # Nil /\ worker.fresh
  /\ status' = worker.status
  /\ cacheFresh' = (cacheFresh /\ worker.status = status)
  /\ queue' = Requeued(worker.after)
  /\ worker' = Nil
  /\ UNCHANGED <<spec, cache, faults>>

Retry ==
  /\ worker' = Nil
  /\ queue' = 0
  /\ UNCHANGED <<spec, status, cache, cacheFresh>>

StatusConflict ==
  /\ worker # Nil /\ ~worker.fresh
  /\ Retry
  /\ UNCHANGED faults

CallFails ==
  /\ worker # Nil
  /\ faults < MaxFaults
  /\ faults' = faults + 1
  /\ Retry

(* What ends a reconcile.                                                  *)
Ends == StatusUpdate \/ StatusConflict

(* What happens to any controller.                                         *)
Loop == WatchDelivers \/ Restart \/ Ends \/ CallFails

(* What these steps keep, whatever is decided: a fresh cache holds the     *)
(* stored spec, though perhaps not the stored status.                      *)
CacheTrue == cacheFresh => cache.spec = spec

LoopInv(Specs, Statuses) == LoopTypeOK(Specs, Statuses) /\ CacheTrue
===============================================================================
