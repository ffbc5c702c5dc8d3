----------------------- MODULE InstanceLifecycleProofs -----------------------
(***************************************************************************)
(* Proofs about InstanceLifecycle, for any names, templates, overrides,    *)
(* pods, grace window and bounds.                                          *)
(***************************************************************************)
EXTENDS InstanceLifecycle, TLAPS

(* The status of a new instance is a status.                               *)
LEMMA NewStatusType == NewStatus \in Status
BY DEF NewStatus, Status, Phases, Reasons

(* A worker with nothing in hand.                                          *)
LEMMA IdleType == Idle \in Work
BY NewStatusType DEF Idle, Work

(* What transition may send is an event or nothing.                        *)
LEMMA EventTypesOf ==
  /\ \A p \in DOMAIN EventOf : EventOf[p] \in EventTypes
  /\ \A p \in Phases : eventForPhase(p) \in EventTypes \cup {Nil}
BY DEF eventForPhase, EventTypes, EventOf

(* ensureExpiry yields a status whenever it does not fail, keeps an expiry *)
(* that is there, and touches nothing but startedAt and expiresAt.         *)
LEMMA EnsureExpiry ==
  ASSUME NEW st \in Status, NEW ttlOverride \in TTL \cup {Nil}, NEW t \in Template,
         NEW m \in Int, ~expiryInvalid(st, ttlOverride, t)
  PROVE  LET st2 == ensureExpiry(st, ttlOverride, t, m)
         IN  /\ st2 \in Status
             /\ st2.expiresAt # Nil
             /\ st.expiresAt # Nil => st2 = st
             /\ st2.phase = st.phase
<1> DEFINE ttl == effectiveTTL(ttlOverride, t)
<1>1. CASE st.expiresAt # Nil
  BY <1>1 DEF ensureExpiry
<1>2. CASE st.expiresAt = Nil
  <2>1. ttl \in Int
    BY <1>2 DEF expiryInvalid, effectiveTTL, TTL, Template
  <2>2. m + ttl \in Int /\ m + ttl # Nil
    BY <2>1, NilAssumption
  <2> HIDE DEF ttl
  <2>3. ensureExpiry(st, ttlOverride, t, m) =
          [st EXCEPT !.startedAt = m, !.expiresAt = m + ttl]
    BY <1>2 DEF ensureExpiry, ttl
  <2> QED
    BY <1>2, <2>2, <2>3 DEF Status
<1> QED
  BY <1>1, <1>2

(* determinePhase yields a status, keeps both times, and never ends an     *)
(* instance for its age.                                                   *)
LEMMA DeterminePhase ==
  ASSUME NEW st \in Status, NEW t \in Template, NEW pod \in PodViews
  PROVE  LET st2 == determinePhase(st, t, pod)
         IN  /\ st2 \in Status
             /\ st2.expiresAt = st.expiresAt
             /\ st2.startedAt = st.startedAt
             /\ st2.phase \in {"Creating", "Running", "Unhealthy", "Failed"}
<1> DEFINE count == countUnhealthy(st, pod)
<1>1. count \in Nat
  BY DEF countUnhealthy, Status
<1> HIDE DEF count
<1> DEFINE At(p, r) == [st EXCEPT !.phase = p, !.reason = r, !.unhealthyCount = count]
<1>2. ASSUME NEW p \in {"Creating", "Running", "Unhealthy", "Failed"}, NEW r \in Reasons
      PROVE  /\ At(p, r) \in Status
             /\ At(p, r).expiresAt = st.expiresAt
             /\ At(p, r).startedAt = st.startedAt
             /\ At(p, r).phase = p
  BY <1>1 DEF Status, Phases
<1>3. \/ determinePhase(st, t, pod) = At("Creating", "pod unscheduled")
      \/ determinePhase(st, t, pod) = At("Failed", "pod failed")
      \/ determinePhase(st, t, pod) = At("Running", "")
      \/ determinePhase(st, t, pod) = At("Creating", "pod starting")
      \/ determinePhase(st, t, pod) = At("Unhealthy", "pod failing")
      \/ determinePhase(st, t, pod) = At("Creating", "pod unready")
  BY DEF determinePhase, PodViews, count
<1> HIDE DEF At
<1>4. PICK p \in {"Creating", "Running", "Unhealthy", "Failed"}, r \in Reasons :
        determinePhase(st, t, pod) = At(p, r)
  BY <1>3 DEF Reasons
<1> QED
  BY <1>2, <1>4

(***************************************************************************)
(* The inductive invariant.                                                *)
(***************************************************************************)
History == TerminalIsFinal /\ ExpiryIsWriteOnce /\ NoEarlyExpiry

Inv == TypeOK /\ WorkersRemember /\ History

(* Versions are only added to a log.                                       *)
LogGrows == \A n \in Names : /\ last(n) <= Len(log'[n])
                             /\ \A i \in 1..last(n) : log'[n][i] = log[n][i]

(* A write that a living or finished instance may take.                    *)
AllowedWrite(old, new) ==
  old # Nil /\ new # Nil =>
    /\ terminal(old.status.phase) => new.status = old.status
    /\ old.status.expiresAt # Nil =>
         /\ new.status.expiresAt = old.status.expiresAt
         /\ new.status.startedAt = old.status.startedAt

OnTime(v, t) == v # Nil /\ v.status.phase = "Expired" =>
                  v.status.expiresAt # Nil /\ v.status.expiresAt <= t

(* What Put does to the logs.                                              *)
LEMMA PutFacts ==
  ASSUME TypeOK, NEW n \in Names, NEW v \in Versions \cup {Nil}, Put(n, v)
  PROVE  /\ log' \in [Names -> Seq(Versions \cup {Nil})]
         /\ LogGrows
         /\ Len(log'[n]) = last(n) + 1
         /\ log'[n][last(n) + 1] = v
         /\ \A m \in Names \ {n} : log'[m] = log[m]
<1>1. log \in [Names -> Seq(Versions \cup {Nil})]
  BY DEF TypeOK
<1> HIDE DEF Versions
<1>2. log'[n] = Append(log[n], v) /\ \A m \in Names \ {n} : log'[m] = log[m]
  BY <1>1 DEF Put
<1>3. log' \in [Names -> Seq(Versions \cup {Nil})]
  BY <1>1 DEF Put
<1>4. Len(log'[n]) = Len(log[n]) + 1 /\ log'[n][Len(log[n]) + 1] = v
      /\ \A i \in 1..Len(log[n]) : log'[n][i] = log[n][i]
  BY <1>1, <1>2
<1>5. ASSUME NEW m \in Names
      PROVE  /\ Len(log[m]) <= Len(log'[m])
             /\ \A i \in 1..Len(log[m]) : log'[m][i] = log[m][i]
  BY <1>1, <1>2, <1>4
<1> QED
  BY <1>2, <1>3, <1>4, <1>5 DEF LogGrows, last

(* The history stays right when the logs do not change.                    *)
LEMMA HistoryStutter ==
  ASSUME TypeOK, History, UNCHANGED log, now' >= now, now' \in Int
  PROVE  History'
<1>1. \A n \in Names : \A i \in 1..last(n) :
        log[n][i] # Nil => log[n][i].status.expiresAt \in Int \cup {Nil}
  BY DEF TypeOK, last, Versions, Status
<1>2. now \in Int
  BY DEF TypeOK
<1>3. TerminalIsFinal' /\ ExpiryIsWriteOnce'
  BY DEF History, TerminalIsFinal, ExpiryIsWriteOnce, Writes, last
<1>4. NoEarlyExpiry'
  BY <1>1, <1>2 DEF History, NoEarlyExpiry, last
<1> QED
  BY <1>3, <1>4 DEF History

(* The history stays right when an allowed version is added to one log.    *)
LEMMA HistoryPut ==
  ASSUME TypeOK, InRange, History, UNCHANGED now,
         NEW n \in Names, NEW v \in Versions \cup {Nil}, Put(n, v),
         AllowedWrite(store(n), v), OnTime(v, now)
  PROVE  History'
<1>1. /\ LogGrows /\ Len(log'[n]) = last(n) + 1 /\ log'[n][last(n) + 1] = v
      /\ \A m \in Names \ {n} : log'[m] = log[m]
  BY PutFacts
<1>2. last(n) \in Nat /\ last(n) >= 1
  BY DEF TypeOK, InRange, last
<1>3. \A i \in Writes(n)' : \/ i \in Writes(n) /\ log'[n][i] = log[n][i]
                                              /\ log'[n][i + 1] = log[n][i + 1]
                            \/ i = last(n) /\ log'[n][i] = store(n) /\ log'[n][i + 1] = v
                               /\ store(n) # Nil /\ v # Nil
  BY <1>1, <1>2 DEF Writes, last, store, LogGrows
<1>4. \A m \in Names \ {n} : Writes(m)' = Writes(m)
  BY <1>1 DEF Writes, last
<1>5. ASSUME NEW m \in Names, NEW i \in Writes(m)'
      PROVE  AllowedWrite(log'[m][i], log'[m][i + 1])
  <2>1. \A j \in Writes(m) : AllowedWrite(log[m][j], log[m][j + 1])
    BY DEF History, TerminalIsFinal, ExpiryIsWriteOnce, AllowedWrite
  <2> QED
    BY <1>1, <1>3, <1>4, <2>1
<1>6. \A m \in Names : \A i \in Writes(m)' : log'[m][i] # Nil /\ log'[m][i + 1] # Nil
  BY DEF Writes
<1>7. TerminalIsFinal' /\ ExpiryIsWriteOnce'
  BY <1>5, <1>6 DEF TerminalIsFinal, ExpiryIsWriteOnce, AllowedWrite
<1>8. ASSUME NEW m \in Names, NEW i \in 1..Len(log'[m])
      PROVE  OnTime(log'[m][i], now')
  <2>1. \A j \in 1..last(m) : OnTime(log[m][j], now)
    BY DEF History, NoEarlyExpiry, OnTime
  <2>2. CASE i \in 1..last(m)
    BY <1>1, <2>1, <2>2 DEF LogGrows
  <2>3. CASE m = n /\ i = last(n) + 1
    BY <1>1, <2>3
  <2> QED
    BY <1>1, <1>2, <2>2, <2>3 DEF last
<1>9. NoEarlyExpiry'
  BY <1>8 DEF NoEarlyExpiry, OnTime, last
<1> QED
  BY <1>7, <1>9 DEF History

(* What the invariant says of work w of controller c on version v.         *)
SoundWork(c, w, v, t) ==
  /\ v # Nil
  /\ w.pc = "notify" => w.event # Nil
  /\ w.pc \in {"read", "update"} =>
       /\ ~terminal(v.status.phase)
       /\ c = "lifecycle" => v.status.expiresAt # Nil
  /\ w.pc = "update" =>
       /\ v.status.expiresAt # Nil =>
            /\ w.status.expiresAt = v.status.expiresAt
            /\ w.status.startedAt = v.status.startedAt
       /\ w.status.phase = "Expired" =>
            w.status.expiresAt # Nil /\ w.status.expiresAt <= t

SoundHand(c) ==
  worker[c].pc # "idle" =>
    /\ worker[c].name \in Names
    /\ worker[c].rv \in 1..last(worker[c].name)
    /\ SoundWork(c, worker[c], read(c), now)

(* The invariant, one worker at a time.                                    *)
LEMMA WorkersRememberSplit ==
  WorkersRemember <=> /\ \A n \in Names : cached[n] \in 1..last(n)
                      /\ \A c \in Controllers : SoundHand(c)
<1>1. ASSUME NEW c \in Controllers
      PROVE  worker[c].pc \in {"read", "update"} => worker[c].pc # "idle"
  OBVIOUS
<1> QED
  BY <1>1 DEF WorkersRemember, InRange, ReadAlive, KeepsWhatItRead, SoundHand, SoundWork

(* A worker that is not touched keeps a sound hand while logs and time go  *)
(* on.                                                                     *)
LEMMA HandKept ==
  ASSUME TypeOK, LogGrows, now' \in Int, now' >= now, NEW c \in Controllers,
         SoundHand(c), worker'[c] = worker[c]
  PROVE  SoundHand(c)'
<1>1. CASE worker[c].pc = "idle"
  BY <1>1 DEF SoundHand
<1>2. CASE worker[c].pc # "idle"
  <2>1. read(c)' = read(c)
    BY <1>2 DEF SoundHand, LogGrows, read, last
  <2>2. worker[c].rv \in 1..Len(log'[worker[c].name])
    BY <1>2 DEF SoundHand, LogGrows, last, TypeOK
  <2>3. worker[c].status.expiresAt \in Int \cup {Nil} /\ now \in Int
    BY DEF TypeOK, Work, Status
  <2>4. SoundWork(c, worker[c], read(c), now')
    BY <1>2, <2>3 DEF SoundHand, SoundWork
  <2> QED
    BY <1>2, <2>1, <2>2, <2>4 DEF SoundHand, last
<1> QED
  BY <1>1, <1>2

(* Nobody touches a worker.                                                *)
LEMMA WorkersStutter ==
  ASSUME TypeOK, WorkersRemember, LogGrows, UNCHANGED worker, now' \in Int, now' >= now,
         \A n \in Names : cached'[n] \in 1..Len(log'[n])
  PROVE  WorkersRemember'
<1>1. \A c \in Controllers : SoundHand(c)
  BY WorkersRememberSplit
<1>2. \A c \in Controllers : SoundHand(c)'
  BY <1>1, HandKept
<1>3. (WorkersRemember <=> /\ \A n \in Names : cached[n] \in 1..last(n)
                           /\ \A c \in Controllers : SoundHand(c))'
  BY DEF WorkersRemember, InRange, ReadAlive, KeepsWhatItRead, SoundHand, SoundWork
<1> QED
  BY <1>2, <1>3 DEF last

(* One worker takes up work that is sound.                                 *)
LEMMA WorkersHand ==
  ASSUME TypeOK, WorkersRemember, LogGrows, UNCHANGED <<now, cached>>,
         NEW c \in Controllers, NEW w \in Work, Hand(c, w),
         w.pc # "idle" =>
           /\ w.name \in Names
           /\ w.rv \in 1..Len(log'[w.name])
           /\ SoundWork(c, w, log'[w.name][w.rv], now)
  PROVE  WorkersRemember'
<1>0. worker'[c] = w /\ \A d \in Controllers \ {c} : worker'[d] = worker[d]
  BY DEF Hand, TypeOK
<1>1. \A d \in Controllers : SoundHand(d)
  BY WorkersRememberSplit
<1>2. \A d \in Controllers \ {c} : SoundHand(d)'
  BY <1>0, <1>1, HandKept DEF TypeOK
<1>3. SoundHand(c)'
  BY <1>0 DEF SoundHand, last, read
<1>4. (WorkersRemember <=> /\ \A n \in Names : cached[n] \in 1..last(n)
                           /\ \A d \in Controllers : SoundHand(d))'
  BY DEF WorkersRemember, InRange, ReadAlive, KeepsWhatItRead, SoundHand, SoundWork
<1>5. \A n \in Names : cached'[n] \in 1..Len(log'[n])
  BY DEF WorkersRemember, InRange, LogGrows, TypeOK, last
<1> QED
  BY <1>2, <1>3, <1>4, <1>5 DEF last

(* What a busy worker has read is an instance.                             *)
LEMMA ReadType ==
  ASSUME Inv, NEW c \in Controllers, worker[c].pc # "idle"
  PROVE  /\ worker[c].name \in Names
         /\ read(c) \in Versions
         /\ read(c).status \in Status
<1> USE DEF Inv
<1>1. worker[c].name \in Names /\ worker[c].rv \in 1..Len(log[worker[c].name])
      /\ read(c) # Nil
  BY DEF WorkersRemember, InRange, last
<1>2. read(c) \in Versions \cup {Nil}
  BY <1>1 DEF TypeOK, read
<1> QED
  BY <1>1, <1>2 DEF Versions

(* Every log has a last version.                                           *)
LEMMA StoreType ==
  ASSUME Inv, NEW n \in Names
  PROVE  last(n) \in Nat /\ last(n) >= 1 /\ store(n) \in Versions \cup {Nil}
<1>1. Len(log[n]) \in Nat /\ Len(log[n]) >= 1
  BY DEF Inv, TypeOK, WorkersRemember, InRange, last
<1> QED
  BY <1>1 DEF Inv, TypeOK, last, store

(* Steps of the world: no log and no worker changes.                       *)
LEMMA QuietStep ==
  ASSUME Inv, TypeOK', UNCHANGED <<log, worker>>, now' >= now,
         \A n \in Names : cached'[n] \in 1..last(n)
  PROVE  Inv'
<1>1. now' \in Int
  BY BoundsAssumption DEF TypeOK
<1>2. LogGrows
  BY DEF Inv, LogGrows, TypeOK, last
<1>3. WorkersRemember'
  BY <1>1, <1>2, WorkersStutter DEF Inv, last
<1>4. History'
  BY <1>1, HistoryStutter DEF Inv
<1> QED
  BY <1>3, <1>4 DEF Inv

(* A step that changes nothing.                                            *)
LEMMA StutterStep == ASSUME Inv, UNCHANGED vars PROVE Inv'
<1>1. TypeOK' /\ now' >= now
  BY DEF Inv, TypeOK, vars
<1>2. \A n \in Names : cached'[n] \in 1..last(n)
  BY DEF Inv, WorkersRemember, InRange, vars
<1> QED
  BY <1>1, <1>2, QuietStep DEF vars

(* A client's write.                                                       *)
LEMMA ClientStep ==
  ASSUME Inv, NEW n \in Names, NEW v \in Versions \cup {Nil}, Put(n, v),
         AllowedWrite(store(n), v), OnTime(v, now),
         UNCHANGED <<now, tmpl, cached, owned, worker, delivered>>
  PROVE  Inv'
<1>1. TypeOK /\ WorkersRemember /\ History /\ InRange
  BY DEF Inv, WorkersRemember
<1>2. LogGrows /\ log' \in [Names -> Seq(Versions \cup {Nil})]
  BY <1>1, PutFacts
<1>3. TypeOK'
  BY <1>1, <1>2 DEF TypeOK
<1>4. History'
  BY <1>1, HistoryPut
<1>5. \A m \in Names : cached'[m] \in 1..Len(log'[m])
  BY <1>1, <1>2 DEF InRange, LogGrows, last, TypeOK
<1>6. now' \in Int /\ now' >= now
  BY <1>1 DEF TypeOK
<1>7. WorkersRemember'
  BY <1>1, <1>2, <1>5, <1>6, WorkersStutter
<1> QED
  BY <1>3, <1>4, <1>7 DEF Inv

(* A worker changes hands and no log changes.                              *)
LEMMA HandStep ==
  ASSUME Inv, NEW c \in Controllers, NEW w \in Work, Hand(c, w),
         UNCHANGED <<now, tmpl, log, cached>>,
         owned' \in [Names -> [Kinds -> Nat]],
         delivered' \in [Names -> Seq(Notification)],
         w.pc # "idle" =>
           /\ w.name \in Names
           /\ w.rv \in 1..Len(log[w.name])
           /\ SoundWork(c, w, log[w.name][w.rv], now)
  PROVE  Inv'
<1>1. TypeOK /\ WorkersRemember /\ History
  BY DEF Inv
<1>2. worker' \in [Controllers -> Work]
  BY <1>1 DEF TypeOK, Hand
<1>3. TypeOK'
  BY <1>1, <1>2 DEF TypeOK
<1>4. LogGrows
  BY <1>1 DEF LogGrows, TypeOK, last
<1>5. WorkersRemember'
  BY <1>1, <1>4, WorkersHand
<1>6. now' \in Int /\ now' >= now
  BY <1>1 DEF TypeOK
<1>7. History'
  BY <1>1, <1>6, HistoryStutter
<1> QED
  BY <1>3, <1>5, <1>7 DEF Inv

(* A reconcile ends, with or without an error.                             *)
LEMMA DropStep ==
  ASSUME Inv, NEW c \in Controllers, Hand(c, Idle),
         UNCHANGED <<now, tmpl, log, cached>>,
         owned' \in [Names -> [Kinds -> Nat]],
         delivered' \in [Names -> Seq(Notification)]
  PROVE  Inv'
<1>1. Idle.pc = "idle"
  BY DEF Idle
<1> QED
  BY <1>1, IdleType, HandStep

(* A reconcile has decided what to write.                                  *)
LEMMA PrepareStep ==
  ASSUME Inv, NEW c \in Controllers, InHand(c),
         NEW st \in Status, NEW evt \in EventTypes \cup {Nil}, Prepare(c, st, evt),
         read(c).status.expiresAt # Nil =>
           /\ st.expiresAt = read(c).status.expiresAt
           /\ st.startedAt = read(c).status.startedAt,
         st.phase = "Expired" => st.expiresAt # Nil /\ st.expiresAt <= now,
         UNCHANGED <<now, tmpl, log, cached, delivered>>,
         owned' \in [Names -> [Kinds -> Nat]]
  PROVE  Inv'
<1> DEFINE w == [worker[c] EXCEPT !.pc = "update", !.status = st, !.event = evt]
<1>1. worker[c] \in Work
  BY DEF Inv, TypeOK
<1>2. w \in Work
  BY <1>1 DEF Work
<1>3. /\ w.pc = "update" /\ w.name = worker[c].name /\ w.rv = worker[c].rv
      /\ w.status = st
  BY <1>1 DEF Work
<1>4. Hand(c, w)
  BY DEF Prepare
<1> HIDE DEF w
<1>5. SoundHand(c)
  BY WorkersRememberSplit DEF Inv
<1>6. worker[c].name \in Names /\ worker[c].rv \in 1..Len(log[worker[c].name])
  BY <1>5 DEF SoundHand, last, InHand
<1>7. SoundWork(c, w, read(c), now)
  BY <1>3, <1>5 DEF SoundHand, SoundWork, InHand
<1>8. SoundWork(c, w, log[w.name][w.rv], now)
  BY <1>3, <1>7 DEF read
<1>9. delivered' \in [Names -> Seq(Notification)]
  BY DEF Inv, TypeOK
<1> QED
  BY <1>2, <1>3, <1>4, <1>6, <1>8, <1>9, HandStep

(***************************************************************************)
(* One lemma per group of actions.                                         *)
(***************************************************************************)

(* Time, the template, the garbage collector, the watch and a restart.     *)
LEMMA WorldStep == ASSUME Inv, World PROVE Inv'
<1> USE DEF Inv
<1>0. TypeOK /\ \A n \in Names : cached[n] \in 1..last(n)
  BY DEF WorkersRemember, InRange
<1>1. CASE Tick
  <2>1. TypeOK' /\ now' >= now
    BY <1>0, <1>1, BoundsAssumption DEF Tick, TypeOK
  <2> QED
    BY <1>0, <1>1, <2>1, QuietStep DEF Tick
<1>2. CASE TemplateChange
  <2>1. TypeOK' /\ now' >= now
    BY <1>0, <1>2 DEF TemplateChange, TypeOK
  <2> QED
    BY <1>0, <1>2, <2>1, QuietStep DEF TemplateChange
<1>3. ASSUME NEW n \in Names, NEW k \in Kinds, GarbageCollect(n, k)
      PROVE  Inv'
  <2>1. owned' \in [Names -> [Kinds -> Nat]]
    BY <1>0, <1>3 DEF GarbageCollect, TypeOK
  <2>2. TypeOK' /\ now' >= now
    BY <1>0, <1>3, <2>1 DEF GarbageCollect, TypeOK
  <2> QED
    BY <1>0, <1>3, <2>2, QuietStep DEF GarbageCollect
<1>4. ASSUME NEW n \in Names, WatchDelivers(n)
      PROVE  Inv'
  <2>1. cached' \in [Names -> Nat] /\ \A m \in Names : cached'[m] \in 1..last(m)
    BY <1>0, <1>4 DEF WatchDelivers, TypeOK, last
  <2>2. TypeOK' /\ now' >= now
    BY <1>0, <1>4, <2>1 DEF WatchDelivers, TypeOK
  <2> QED
    BY <1>0, <1>4, <2>1, <2>2, QuietStep DEF WatchDelivers
<1>5. CASE Restart
  <2>1. TypeOK'
    BY <1>0, <1>5, IdleType DEF Restart, TypeOK
  <2>2. \A c \in Controllers : worker'[c].pc = "idle"
    BY <1>5 DEF Restart, Idle
  <2>3. WorkersRemember'
    BY <1>0, <1>5, <2>2
       DEF Restart, WorkersRemember, InRange, ReadAlive, KeepsWhatItRead, last
  <2>4. now' \in Int /\ now' >= now
    BY <1>0, <1>5 DEF Restart, TypeOK
  <2>5. History'
    BY <1>0, <1>5, <2>4, HistoryStutter DEF Restart
  <2> QED
    BY <2>1, <2>3, <2>5
<1> QED
  BY <1>1, <1>2, <1>3, <1>4, <1>5 DEF World

(* Creating, deleting and extending an instance.                           *)
LEMMA ClientsStep == ASSUME Inv, Clients PROVE Inv'
<1>1. ASSUME NEW n \in Names, NEW ttl \in TTL \cup {Nil}, NewInstance(n, ttl)
      PROVE  Inv'
  <2> DEFINE v == [uid |-> last(n) + 1, ttlOverride |-> ttl, status |-> NewStatus]
  <2>1. v \in Versions
    BY StoreType, NewStatusType DEF Versions
  <2>2. AllowedWrite(store(n), v)
    BY <1>1 DEF NewInstance, AllowedWrite
  <2>3. OnTime(v, now)
    BY DEF OnTime, NewStatus
  <2>4. Put(n, v) /\ UNCHANGED <<now, tmpl, cached, owned, worker, delivered>>
    BY <1>1 DEF NewInstance
  <2> HIDE DEF v
  <2> QED
    BY <2>1, <2>2, <2>3, <2>4, ClientStep
<1>2. ASSUME NEW n \in Names, handleDeleteInstance(n)
      PROVE  Inv'
  BY <1>2, ClientStep DEF handleDeleteInstance, AllowedWrite, OnTime
<1>3. ASSUME NEW n \in Names, NEW ttl \in TTL, store(n) # Nil,
             Update(n, [store(n) EXCEPT !.ttlOverride = ttl]),
             UNCHANGED <<now, tmpl, cached, owned, worker, delivered>>
      PROVE  Inv'
  <2> DEFINE v == [store(n) EXCEPT !.ttlOverride = ttl]
  <2>1. store(n) \in Versions
    BY <1>3, StoreType
  <2>2. v \in Versions /\ v.status = store(n).status
    BY <2>1 DEF Versions
  <2>3. AllowedWrite(store(n), v)
    BY <2>2 DEF AllowedWrite
  <2>4. OnTime(v, now)
    <3>1. last(n) \in 1..last(n)
      BY StoreType
    <3>2. OnTime(store(n), now)
      BY <3>1 DEF Inv, History, NoEarlyExpiry, store, OnTime
    <3> QED
      BY <1>3, <2>2, <3>2 DEF OnTime
  <2>5. CASE Put(n, v)
    <3> HIDE DEF v
    <3> QED
      BY <1>3, <2>2, <2>3, <2>4, <2>5, ClientStep
  <2>6. CASE UNCHANGED log
    BY <1>3, <2>6, StutterStep DEF vars
  <2> QED
    BY <1>3, <2>5, <2>6 DEF Update
<1> QED
  BY <1>1, <1>2, <1>3, OverridesAssumption
     DEF Clients, handleCreateInstance, KubectlCreate, handleExtendInstance

(* The steps the two reconcilers share.                                    *)
LEMMA ReconcilersStep == ASSUME Inv, Reconcilers PROVE Inv'
<1>0. /\ owned \in [Names -> [Kinds -> Nat]]
      /\ delivered \in [Names -> Seq(Notification)]
      /\ \A n \in Names : cached[n] \in 1..last(n)
      /\ log \in [Names -> Seq(Versions \cup {Nil})]
  BY DEF Inv, TypeOK, WorkersRemember, InRange
<1>1. ASSUME NEW c \in Controllers, NEW n \in Names, Get(c, n)
      PROVE  Inv'
  <2> DEFINE w == [Idle EXCEPT !.pc = "read", !.name = n, !.rv = cached[n]]
  <2>1. cached[n] \in Nat
    BY DEF Inv, TypeOK
  <2>2. w \in Work /\ w.pc = "read" /\ w.name = n /\ w.rv = cached[n]
    BY <2>1, NewStatusType DEF Idle, Work
  <2>3. Hand(c, w) /\ UNCHANGED <<now, tmpl, log, cached, owned, delivered>>
        /\ Proceeds(c, log[n][cached[n]])
    BY <1>1 DEF Get
  <2> HIDE DEF w
  <2>4. SoundWork(c, w, log[n][cached[n]], now)
    BY <2>2, <2>3 DEF SoundWork, Proceeds
  <2> QED
    BY <1>0, <2>2, <2>3, <2>4, HandStep DEF last
<1>2. ASSUME NEW c \in Controllers,
             CallFails(c) \/ StatusConflict(c) \/ NotifyLost(c)
      PROVE  Inv'
  BY <1>0, <1>2, DropStep DEF CallFails, StatusConflict, NotifyLost
<1>3. ASSUME NEW c \in Controllers, Notify(c)
      PROVE  Inv'
  <2> DEFINE e == [rv |-> worker[c].rv, uid |-> read(c).uid, type |-> worker[c].event]
  <2>1. worker[c].pc = "notify" /\ worker[c] \in Work
    BY <1>3 DEF Notify, Inv, TypeOK
  <2>2. read(c) \in Versions /\ worker[c].name \in Names
    BY <2>1, ReadType
  <2>3. worker[c].event # Nil
    BY <2>1 DEF Inv, WorkersRemember, InRange
  <2>4. e \in Notification
    BY <2>1, <2>2, <2>3 DEF Notification, Work, Versions
  <2> HIDE DEF e
  <2>5. delivered' \in [Names -> Seq(Notification)]
    BY <1>0, <1>3, <2>2, <2>4 DEF Notify, e
  <2> QED
    BY <1>0, <1>3, <2>5, DropStep DEF Notify
<1>4. ASSUME NEW c \in Controllers, StatusUpdate(c)
      PROVE  Inv'
  <2> DEFINE w == worker[c]
             n == w.name
             v == [store(n) EXCEPT !.status = w.status]
             w2 == IF w.event = Nil THEN Idle
                   ELSE [Idle EXCEPT !.pc = "notify", !.name = n,
                                     !.rv = Len(log'[n]), !.event = w.event]
  <2>1. /\ w.pc = "update" /\ w.rv = last(n) /\ Update(n, v) /\ Hand(c, w2)
        /\ UNCHANGED <<now, tmpl, cached, owned, delivered>>
    BY <1>4 DEF StatusUpdate, Fresh
  <2>2. w \in Work /\ n \in Names /\ read(c) \in Versions
    BY <2>1, ReadType DEF Inv, TypeOK
  <2>3. store(n) = read(c)
    BY <2>1 DEF store, read
  <2>4. SoundWork(c, w, store(n), now)
    BY <2>1, <2>3, WorkersRememberSplit DEF Inv, SoundHand
  <2>5. v \in Versions /\ v.status = w.status /\ v # Nil
    BY <2>2, <2>3, VersionsAssumption DEF Versions, Work
  <2>6. AllowedWrite(store(n), v) /\ OnTime(v, now)
    BY <2>1, <2>4, <2>5 DEF SoundWork, AllowedWrite, OnTime
  <2>7. TypeOK /\ WorkersRemember /\ History /\ InRange
    BY DEF Inv, WorkersRemember
  <2>8. /\ LogGrows /\ log' \in [Names -> Seq(Versions \cup {Nil})] /\ History'
        /\ Len(log'[n]) \in Nat /\ Len(log'[n]) >= 1 /\ log'[n][Len(log'[n])] # Nil
    <3>1. CASE Put(n, v)
      <4> HIDE DEF v, n, w, w2
      <4>1. /\ LogGrows /\ log' \in [Names -> Seq(Versions \cup {Nil})]
            /\ Len(log'[n]) = last(n) + 1 /\ log'[n][last(n) + 1] = v
        BY <2>2, <2>5, <2>7, <3>1, PutFacts
      <4>2. History'
        BY <2>1, <2>2, <2>5, <2>6, <2>7, <3>1, HistoryPut
      <4>3. last(n) \in Nat
        BY <2>2, StoreType
      <4> QED
        BY <2>5, <4>1, <4>2, <4>3
    <3>2. CASE UNCHANGED log
      <4>1. LogGrows /\ log' \in [Names -> Seq(Versions \cup {Nil})]
        BY <2>7, <3>2 DEF LogGrows, TypeOK, last
      <4>2. History'
        BY <2>1, <2>7, <3>2, HistoryStutter DEF TypeOK
      <4>3. last(n) \in Nat /\ last(n) >= 1 /\ store(n) # Nil
        BY <2>2, <2>4, StoreType DEF SoundWork
      <4> QED
        BY <3>2, <4>1, <4>2, <4>3 DEF last, store
    <3> QED
      BY <2>1, <3>1, <3>2 DEF Update
  <2>9. /\ w2 \in Work
        /\ w2.pc # "idle" =>
             w2.pc = "notify" /\ w2.name = n /\ w2.rv = Len(log'[n]) /\ w2.event # Nil
    <3>1. CASE w.event = Nil
      BY <3>1, IdleType DEF Idle
    <3>2. CASE w.event # Nil
      BY <2>2, <2>8, <3>2, NewStatusType DEF Idle, Work
    <3> QED
      BY <3>1, <3>2
  <2> HIDE DEF w2
  <2>10. w2.pc # "idle" => /\ w2.name \in Names /\ w2.rv \in 1..Len(log'[w2.name])
                           /\ SoundWork(c, w2, log'[w2.name][w2.rv], now)
    BY <2>2, <2>8, <2>9 DEF SoundWork
  <2>11. WorkersRemember'
    BY <2>1, <2>7, <2>8, <2>9, <2>10, WorkersHand
  <2>12. TypeOK'
    BY <2>1, <2>7, <2>8, <2>9 DEF TypeOK, Hand
  <2> QED
    BY <2>8, <2>11, <2>12 DEF Inv
<1> QED
  BY <1>1, <1>2, <1>3, <1>4 DEF Reconcilers

(* The objects of an instance, after some were created.                    *)
LEMMA EnsuredType ==
  ASSUME Inv, InHand("challengeinstance"), NEW i
  PROVE  Ensured(i) \in [Names -> [Kinds -> Nat]]
<1>1. "challengeinstance" \in Controllers /\ worker["challengeinstance"].pc # "idle"
  BY DEF Controllers, InHand
<1>2. read("challengeinstance").uid \in Nat /\ worker["challengeinstance"].name \in Names
  BY <1>1, ReadType DEF Versions
<1>3. owned \in [Names -> [Kinds -> Nat]]
  BY DEF Inv, TypeOK
<1> QED
  BY <1>2, <1>3 DEF Ensured

(* transition, whatever status it is given.                                *)
LEMMA TransitionStep ==
  ASSUME Inv, InHand("challengeinstance"), NEW st \in Status, transition(st),
         read("challengeinstance").status.expiresAt # Nil =>
           /\ st.expiresAt = read("challengeinstance").status.expiresAt
           /\ st.startedAt = read("challengeinstance").status.startedAt,
         st.phase # "Expired",
         UNCHANGED <<now, tmpl, log, cached, delivered>>,
         owned' \in [Names -> [Kinds -> Nat]]
  PROVE  Inv'
<1> DEFINE c == "challengeinstance"
           evt == IF st.phase # read(c).status.phase THEN eventForPhase(st.phase) ELSE Nil
<1>1. evt \in EventTypes \cup {Nil}
  BY EventTypesOf DEF Status
<1>2. Prepare(c, st, evt)
  BY DEF transition
<1>3. c \in Controllers
  BY DEF Controllers
<1> HIDE DEF evt
<1> QED
  BY <1>1, <1>2, <1>3, PrepareStep

(* The Instance Controller's part of a reconcile.                          *)
LEMMA InstanceControllerStep == ASSUME Inv, InstanceController PROVE Inv'
<1> DEFINE c == "challengeinstance"
<1>1. InHand(c)
  BY DEF InstanceController, TemplateMissing, TemplateNotReady, EnsureFails, TTLInvalid,
         PodObserved
<1>2. c \in Controllers /\ worker[c].pc # "idle"
  BY <1>1 DEF Controllers, InHand
<1>3. read(c) \in Versions /\ read(c).status \in Status
  BY <1>2, ReadType
<1>4. /\ owned \in [Names -> [Kinds -> Nat]]
      /\ delivered \in [Names -> Seq(Notification)]
      /\ tmpl \in Template \cup {Nil} /\ now \in Int
  BY TemplatesAssumption DEF Inv, TypeOK
<1>5. ASSUME NEW p \in Phases, NEW r \in Reasons
      PROVE  /\ To(c, p, r) \in Status
             /\ To(c, p, r).expiresAt = read(c).status.expiresAt
             /\ To(c, p, r).startedAt = read(c).status.startedAt
             /\ To(c, p, r).phase = p
  BY <1>3 DEF To, Status
<1>6. CASE TemplateMissing
  <2>1. "Failed" \in Phases /\ "no template" \in Reasons
    BY DEF Phases, Reasons
  <2> QED
    BY <1>1, <1>4, <1>5, <1>6, <2>1, TransitionStep DEF TemplateMissing
<1>7. CASE TemplateNotReady
  <2>1. "Pending" \in Phases /\ "template not ready" \in Reasons
    BY DEF Phases, Reasons
  <2> QED
    BY <1>1, <1>4, <1>5, <1>7, <2>1, TransitionStep DEF TemplateNotReady
<1>8. CASE EnsureFails
  BY <1>1, <1>2, <1>4, <1>8, EnsuredType, DropStep DEF EnsureFails
<1>9. CASE TTLInvalid
  <2>1. "Failed" \in Phases /\ "invalid TTL" \in Reasons
    BY DEF Phases, Reasons
  <2> QED
    BY <1>1, <1>5, <1>9, <2>1, EnsuredType, TransitionStep DEF TTLInvalid
<1>10. CASE PodObserved
  <2> DEFINE st1 == ensureExpiry(read(c).status, read(c).ttlOverride, tmpl, now)
  <2>1. PICK pod \in Pods : transition(determinePhase(st1, tmpl, pod))
    BY <1>10 DEF PodObserved
  <2>2. read(c).ttlOverride \in TTL \cup {Nil}
    BY <1>3 DEF Versions
  <2>3. tmpl \in Template
    BY <1>4, <1>10 DEF PodObserved
  <2>4. /\ st1 \in Status
        /\ read(c).status.expiresAt # Nil => st1 = read(c).status
    BY <1>3, <1>4, <1>10, <2>2, <2>3, EnsureExpiry DEF PodObserved
  <2> HIDE DEF st1
  <2> DEFINE st2 == determinePhase(st1, tmpl, pod)
  <2>5. /\ st2 \in Status
        /\ st2.expiresAt = st1.expiresAt /\ st2.startedAt = st1.startedAt
        /\ st2.phase \in {"Creating", "Running", "Unhealthy", "Failed"}
    BY <2>3, <2>4, DeterminePhase, PodsAssumption
  <2>6. owned' \in [Names -> [Kinds -> Nat]] /\ UNCHANGED <<now, tmpl, log, cached, delivered>>
    BY <1>1, <1>10, EnsuredType DEF PodObserved
  <2> HIDE DEF st2
  <2> QED
    BY <1>1, <2>1, <2>4, <2>5, <2>6, TransitionStep DEF st2
<1> QED
  BY <1>6, <1>7, <1>8, <1>9, <1>10 DEF InstanceController

(* The Lifecycle Controller's part of a reconcile.                         *)
LEMMA LifecycleControllerStep == ASSUME Inv, LifecycleController PROVE Inv'
<1> DEFINE c == "lifecycle"
<1>1. InHand(c)
  BY DEF LifecycleController, Expire, EnterGrace, Later
<1>2. c \in Controllers /\ worker[c].pc # "idle"
  BY <1>1 DEF Controllers, InHand
<1>3. read(c).status \in Status
  BY <1>2, ReadType
<1>4. /\ owned \in [Names -> [Kinds -> Nat]]
      /\ delivered \in [Names -> Seq(Notification)] /\ now \in Int
  BY DEF Inv, TypeOK
<1>5. read(c).status.expiresAt # Nil
  BY <1>1, <1>2 DEF Inv, WorkersRemember, ReadAlive, InHand
<1>6. ASSUME NEW p \in Phases, NEW r \in Reasons
      PROVE  /\ To(c, p, r) \in Status
             /\ To(c, p, r).expiresAt = read(c).status.expiresAt
             /\ To(c, p, r).startedAt = read(c).status.startedAt
             /\ To(c, p, r).phase = p
  BY <1>3 DEF To, Status
<1>7. EventOf["Expired"] \in EventTypes /\ EventOf["Expiring"] \in EventTypes
  BY EventTypesOf DEF EventOf
<1>8. CASE Expire
  <2>1. "Expired" \in Phases /\ "TTL expired" \in Reasons
    BY DEF Phases, Reasons
  <2>2. read(c).status.expiresAt <= now
    <3>1. read(c).status.expiresAt \in Int
      BY <1>3, <1>5 DEF Status
    <3>2. read(c).status.expiresAt - now <= 0
      BY <1>8 DEF Expire, mustExpire, remaining
    <3> QED
      BY <1>4, <3>1, <3>2
  <2>3. Prepare(c, To(c, "Expired", "TTL expired"), EventOf["Expired"])
    BY <1>8 DEF Expire, notifyAndSetPhase
  <2>4. UNCHANGED <<now, tmpl, log, cached, owned, delivered>>
    BY <1>8 DEF Expire
  <2> QED
    BY <1>1, <1>2, <1>4, <1>5, <1>6, <1>7, <2>1, <2>2, <2>3, <2>4, PrepareStep
<1>9. CASE EnterGrace
  <2>1. "Expiring" \in Phases /\ "grace window" \in Reasons
    BY DEF Phases, Reasons
  <2>2. Prepare(c, To(c, "Expiring", "grace window"), EventOf["Expiring"])
    BY <1>9 DEF EnterGrace, notifyAndSetPhase
  <2>3. UNCHANGED <<now, tmpl, log, cached, owned, delivered>>
    BY <1>9 DEF EnterGrace
  <2> QED
    BY <1>1, <1>2, <1>4, <1>6, <1>7, <2>1, <2>2, <2>3, PrepareStep
<1>10. CASE Later
  BY <1>2, <1>4, <1>10, DropStep DEF Later
<1> QED
  BY <1>8, <1>9, <1>10 DEF LifecycleController

(***************************************************************************)
(* The first layer.                                                        *)
(***************************************************************************)

(* The invariant holds of every behaviour of the two controllers, the      *)
(* clients and the API server.                                             *)
THEOREM Invariance == Spec => []Inv
<1>1. Init => Inv
  <2> SUFFICES ASSUME Init PROVE Inv
    OBVIOUS
  <2>1. \A n \in Names : log[n] = <<Nil>> /\ Len(log[n]) = 1 /\ cached[n] = 1
    BY DEF Init
  <2>2. log \in [Names -> Seq(Versions \cup {Nil})]
    <3>1. <<Nil>> \in Seq(Versions \cup {Nil})
      OBVIOUS
    <3> QED
      BY <3>1 DEF Init
  <2>3. TypeOK
    BY <2>2, IdleType, BoundsAssumption DEF Init, TypeOK
  <2>4. WorkersRemember
    BY <2>1 DEF Init, Idle, WorkersRemember, InRange, ReadAlive, KeepsWhatItRead, last
  <2>5. History
    BY <2>1 DEF History, TerminalIsFinal, ExpiryIsWriteOnce, NoEarlyExpiry, Writes, last
  <2> QED
    BY <2>3, <2>4, <2>5 DEF Inv
<1>2. Inv /\ [Next]_vars => Inv'
  BY WorldStep, ClientsStep, ReconcilersStep, InstanceControllerStep,
     LifecycleControllerStep, StutterStep DEF Next
<1> QED
  BY <1>1, <1>2, PTL DEF Spec

(***************************************************************************)
(* What the steps do, for every later proof.                               *)
(***************************************************************************)

(* What a client may store after the last version of n.                    *)
ClientWrite(n, v) ==
  /\ store(n) # Nil \/ v # Nil
  /\ v # Nil => IF store(n) = Nil
                THEN v.uid = last(n) + 1 /\ v.status = NewStatus
                ELSE v.uid = store(n).uid /\ v.status = store(n).status

(* A client stores at most one version of one name and touches nothing     *)
(* else.                                                                   *)
LEMMA ClientsWrite ==
  ASSUME Inv, Clients
  PROVE  /\ UNCHANGED <<now, tmpl, cached, owned, worker, delivered>>
         /\ \/ UNCHANGED log
            \/ \E n \in Names, v \in Versions \cup {Nil} : Put(n, v) /\ ClientWrite(n, v)
<1> DEFINE Quiet == UNCHANGED <<now, tmpl, cached, owned, worker, delivered>>
           Wrote == \/ UNCHANGED log
                    \/ \E n \in Names, v \in Versions \cup {Nil} : Put(n, v) /\ ClientWrite(n, v)
<1>1. ASSUME NEW n \in Names, NEW ttl \in TTL \cup {Nil}, NewInstance(n, ttl)
      PROVE  Quiet /\ Wrote
  <2> DEFINE v == [uid |-> last(n) + 1, ttlOverride |-> ttl, status |-> NewStatus]
  <2>1. v \in Versions
    BY StoreType, NewStatusType DEF Versions
  <2>2. v # Nil /\ v.uid = last(n) + 1 /\ v.status = NewStatus
    BY <2>1, VersionsAssumption
  <2>3. store(n) = Nil /\ Put(n, v) /\ Quiet
    BY <1>1 DEF NewInstance
  <2> HIDE DEF v
  <2> QED
    BY <2>1, <2>2, <2>3 DEF ClientWrite
<1>2. ASSUME NEW n \in Names, handleDeleteInstance(n)
      PROVE  Quiet /\ Wrote
  BY <1>2 DEF handleDeleteInstance, ClientWrite
<1>3. ASSUME NEW n \in Names, handleExtendInstance(n)
      PROVE  Quiet /\ Wrote
  <2>1. PICK ttl \in TTL : Update(n, [store(n) EXCEPT !.ttlOverride = ttl])
    BY <1>3, OverridesAssumption DEF handleExtendInstance
  <2> DEFINE v == [store(n) EXCEPT !.ttlOverride = ttl]
  <2>2. store(n) # Nil /\ store(n) \in Versions /\ Quiet
    BY <1>3, StoreType DEF handleExtendInstance
  <2>3. v \in Versions /\ v.uid = store(n).uid /\ v.status = store(n).status
    BY <2>2 DEF Versions
  <2>4. Put(n, v) \/ UNCHANGED log
    BY <2>1 DEF Update
  <2> HIDE DEF v
  <2> QED
    BY <2>2, <2>3, <2>4, VersionsAssumption DEF ClientWrite
<1> QED
  BY <1>1, <1>2, <1>3, OverridesAssumption DEF Clients, handleCreateInstance, KubectlCreate

(* An accepted update stores the status in hand as the next version of the *)
(* one that was read, or changes nothing because it is the same.           *)
LEMMA StatusUpdateWrites ==
  ASSUME Inv, NEW c \in Controllers, StatusUpdate(c)
  PROVE  LET w == worker[c]
             n == worker[c].name
             v == [store(n) EXCEPT !.status = w.status]
         IN  /\ w.pc = "update" /\ n \in Names /\ w.status \in Status
             /\ w.rv = last(n) /\ store(n) = read(c)
             /\ store(n) \in Versions /\ store(n) # Nil
             /\ v \in Versions /\ v # Nil /\ v.uid = store(n).uid /\ v.status = w.status
             /\ AllowedWrite(store(n), v)
             /\ Put(n, v) \/ (UNCHANGED log /\ w.status = store(n).status)
             /\ Hand(c, IF w.event = Nil THEN Idle
                        ELSE [Idle EXCEPT !.pc = "notify", !.name = n,
                                          !.rv = Len(log'[n]), !.event = w.event])
             /\ UNCHANGED <<now, tmpl, cached, owned, delivered>>
<1> DEFINE w == worker[c]
           n == w.name
           v == [store(n) EXCEPT !.status = w.status]
<1>1. /\ w.pc = "update" /\ w.rv = last(n) /\ Update(n, v)
      /\ UNCHANGED <<now, tmpl, cached, owned, delivered>>
  BY DEF StatusUpdate, Fresh
<1>2. w \in Work /\ n \in Names /\ read(c) \in Versions
  BY <1>1, ReadType DEF Inv, TypeOK
<1>3. store(n) = read(c)
  BY <1>1 DEF store, read
<1>4. SoundWork(c, w, store(n), now)
  BY <1>1, <1>3, WorkersRememberSplit DEF Inv, SoundHand
<1>5. w.status \in Status
  BY <1>2 DEF Work
<1>6. v \in Versions /\ v.uid = store(n).uid /\ v.status = w.status /\ v # Nil
  BY <1>2, <1>3, <1>5, VersionsAssumption DEF Versions
<1>7. AllowedWrite(store(n), v)
  BY <1>1, <1>4, <1>6 DEF SoundWork, AllowedWrite
<1>8. Put(n, v) \/ (UNCHANGED log /\ w.status = store(n).status)
  BY <1>1, <1>6 DEF Update
<1> QED
  BY <1>1, <1>2, <1>3, <1>4, <1>5, <1>6, <1>7, <1>8 DEF StatusUpdate, SoundWork

(* The other steps store nothing and tell nothing: each worker is left     *)
(* alone, or comes to rest, or decides what to store.                      *)
Keeps(c) == worker'[c] = worker[c]

Rests(c) == worker'[c].pc \in {"idle", "read"}

Decides(c) ==
  /\ worker[c].pc = "read" /\ worker'[c].pc = "update"
  /\ worker'[c].name = worker[c].name /\ worker'[c].rv = worker[c].rv
  /\ MayFollow(read(c).status, worker'[c].status, now)
  /\ worker'[c].event = eventOfChange(read(c).status.phase, worker'[c].status.phase)

HandsOnly ==
  /\ UNCHANGED <<log, delivered>> /\ now' >= now
  /\ \A c \in Controllers : Keeps(c) \/ Rests(c) \/ Decides(c)

(* What Hand does to the workers.                                          *)
LEMMA HandFacts ==
  ASSUME TypeOK, NEW c \in Controllers, NEW w, Hand(c, w)
  PROVE  worker'[c] = w /\ \A d \in Controllers \ {c} : worker'[d] = worker[d]
BY DEF TypeOK, Hand

(* One worker decides.                                                     *)
LEMMA PrepareDecides ==
  ASSUME Inv, NEW c \in Controllers, InHand(c), NEW st, NEW evt, Prepare(c, st, evt),
         MayFollow(read(c).status, st, now),
         evt = eventOfChange(read(c).status.phase, st.phase)
  PROVE  \A d \in Controllers : Keeps(d) \/ Decides(d)
<1> DEFINE w == [worker[c] EXCEPT !.pc = "update", !.status = st, !.event = evt]
<1>1. /\ w.pc = "update" /\ w.name = worker[c].name /\ w.rv = worker[c].rv
      /\ w.status = st /\ w.event = evt
  BY DEF Inv, TypeOK, Work
<1>2. worker'[c] = w /\ \A d \in Controllers \ {c} : worker'[d] = worker[d]
  BY HandFacts DEF Prepare, Inv
<1> HIDE DEF w
<1> QED
  BY <1>1, <1>2 DEF Keeps, Decides, InHand

(* One worker comes to rest.                                               *)
LEMMA DropRests ==
  ASSUME Inv, NEW c \in Controllers, Hand(c, Idle)
  PROVE  \A d \in Controllers : Keeps(d) \/ Rests(d)
<1>1. Idle.pc = "idle"
  BY DEF Idle
<1> QED
  BY <1>1, HandFacts DEF Keeps, Rests, Inv

(* A status in hand follows the one that was read.                         *)
LEMMA TransitionDecides ==
  ASSUME Inv, InHand("challengeinstance"), NEW st, transition(st),
         MayFollow(read("challengeinstance").status, st, now),
         st.phase \in {"Pending", "Creating", "Running", "Unhealthy", "Failed"}
  PROVE  \A d \in Controllers : Keeps(d) \/ Decides(d)
<1> DEFINE c == "challengeinstance"
           evt == IF st.phase # read(c).status.phase THEN eventForPhase(st.phase) ELSE Nil
<1>1. evt = eventOfChange(read(c).status.phase, st.phase)
  BY DEF eventForPhase, eventOfChange
<1>2. Prepare(c, st, evt)
  BY DEF transition
<1>3. c \in Controllers
  BY DEF Controllers
<1> HIDE DEF evt
<1> QED
  BY <1>1, <1>2, <1>3, PrepareDecides

(* The Instance Controller decides, or gives up.                           *)
LEMMA InstanceControllerDecides ==
  ASSUME Inv, ExpiryComesFirst, InstanceController
  PROVE  HandsOnly
<1> DEFINE c == "challengeinstance"
           old == read(c).status
<1>1. InHand(c) /\ UNCHANGED <<log, delivered, now>> /\ c \in Controllers
  BY DEF InstanceController, TemplateMissing, TemplateNotReady, EnsureFails, TTLInvalid,
         PodObserved, Controllers
<1>2. worker[c].pc # "idle" /\ worker[c].pc \in {"read", "update"}
  BY <1>1 DEF InHand
<1>3. read(c) \in Versions /\ old \in Status /\ worker[c].name \in Names
  BY <1>1, <1>2, ReadType
<1>4. ~terminal(old.phase)
  BY <1>1, <1>2 DEF Inv, WorkersRemember, ReadAlive
<1>5. old.expiresAt = Nil => old.phase \in {"", "Pending"}
  <2>1. worker[c].rv \in 1..last(worker[c].name) /\ read(c) # Nil
    BY <1>1, <1>2 DEF Inv, WorkersRemember, InRange
  <2> QED
    BY <1>3, <1>4, <2>1 DEF ExpiryComesFirst, read, terminal
<1>6. now \in Int /\ tmpl \in Template \cup {Nil}
  BY TemplatesAssumption DEF Inv, TypeOK
<1> SUFFICES \A d \in Controllers : Keeps(d) \/ Rests(d) \/ Decides(d)
  BY <1>1, <1>6 DEF HandsOnly
<1>7. ASSUME NEW p \in Phases, NEW r \in Reasons
      PROVE  To(c, p, r).expiresAt = old.expiresAt /\ To(c, p, r).phase = p
  BY <1>3 DEF To, Status
<1>8. "Failed" \in Phases /\ "Pending" \in Phases
      /\ {"no template", "template not ready", "invalid TTL"} \subseteq Reasons
  BY DEF Phases, Reasons
<1>9. ASSUME NEW p \in {"Failed", "Pending"}, NEW r \in Reasons, transition(To(c, p, r))
      PROVE  \A d \in Controllers : Keeps(d) \/ Decides(d)
  <2>1. MayFollow(old, To(c, p, r), now)
    BY <1>7, <1>8 DEF MayFollow
  <2>2. To(c, p, r).phase \in {"Pending", "Creating", "Running", "Unhealthy", "Failed"}
    BY <1>7, <1>8
  <2> QED
    BY <1>1, <1>9, <2>1, <2>2, TransitionDecides
<1>10. CASE TemplateMissing
  BY <1>8, <1>9, <1>10 DEF TemplateMissing
<1>11. CASE TemplateNotReady
  BY <1>8, <1>9, <1>11 DEF TemplateNotReady
<1>12. CASE TTLInvalid
  BY <1>8, <1>9, <1>12 DEF TTLInvalid
<1>13. CASE EnsureFails
  BY <1>1, <1>13, DropRests DEF EnsureFails
<1>14. CASE PodObserved
  <2> DEFINE st1 == ensureExpiry(old, read(c).ttlOverride, tmpl, now)
  <2>1. PICK pod \in Pods : transition(determinePhase(st1, tmpl, pod))
    BY <1>14 DEF PodObserved
  <2>2. tmpl \in Template /\ read(c).ttlOverride \in TTL \cup {Nil}
    BY <1>3, <1>6, <1>14 DEF PodObserved, Versions
  <2>3. /\ st1 \in Status /\ st1.expiresAt # Nil
        /\ old.expiresAt # Nil => st1 = old
    BY <1>3, <1>6, <1>14, <2>2, EnsureExpiry DEF PodObserved
  <2> HIDE DEF st1
  <2> DEFINE st2 == determinePhase(st1, tmpl, pod)
  <2>4. /\ st2 \in Status /\ st2.expiresAt = st1.expiresAt
        /\ st2.phase \in {"Creating", "Running", "Unhealthy", "Failed"}
    BY <2>2, <2>3, DeterminePhase, PodsAssumption
  <2> HIDE DEF st2
  <2>5. MayFollow(old, st2, now)
    BY <1>5, <2>3, <2>4 DEF MayFollow
  <2>6. st2.phase \in {"Pending", "Creating", "Running", "Unhealthy", "Failed"}
    BY <2>4
  <2>7. transition(st2)
    BY <2>1 DEF st2
  <2> QED
    BY <1>1, <2>5, <2>6, <2>7, TransitionDecides
<1> QED
  BY <1>10, <1>11, <1>12, <1>13, <1>14 DEF InstanceController

(* The Lifecycle Controller decides, or has nothing to do.                 *)
LEMMA LifecycleControllerDecides ==
  ASSUME Inv, LifecycleController
  PROVE  HandsOnly
<1> DEFINE c == "lifecycle"
           old == read(c).status
<1>1. InHand(c) /\ UNCHANGED <<log, delivered, now>> /\ c \in Controllers
  BY DEF LifecycleController, Expire, EnterGrace, Later, Controllers
<1>2. worker[c].pc # "idle" /\ worker[c].pc \in {"read", "update"}
  BY <1>1 DEF InHand
<1>3. old \in Status
  BY <1>1, <1>2, ReadType
<1>4. ~terminal(old.phase) /\ old.expiresAt # Nil
  BY <1>1, <1>2 DEF Inv, WorkersRemember, ReadAlive
<1>5. now \in Int /\ old.expiresAt \in Int
  BY <1>3, <1>4 DEF Inv, TypeOK, Status
<1> SUFFICES \A d \in Controllers : Keeps(d) \/ Rests(d) \/ Decides(d)
  BY <1>1, <1>5 DEF HandsOnly
<1>6. ASSUME NEW p \in {"Expired", "Expiring"}, NEW r
      PROVE  To(c, p, r).expiresAt = old.expiresAt /\ To(c, p, r).phase = p
  BY <1>3 DEF To, Status
<1>7. ASSUME NEW p \in {"Expired", "Expiring"}, NEW r, notifyAndSetPhase(p, r),
             p # old.phase, p = "Expiring" => old.expiresAt <= now + GraceWindow
      PROVE  \A d \in Controllers : Keeps(d) \/ Decides(d)
  <2>1. MayFollow(old, To(c, p, r), now)
    BY <1>4, <1>6, <1>7 DEF MayFollow
  <2>2. EventOf[p] = eventOfChange(old.phase, To(c, p, r).phase)
    BY <1>6, <1>7 DEF eventOfChange
  <2> QED
    BY <1>1, <1>7, <2>1, <2>2, PrepareDecides DEF notifyAndSetPhase
<1>8. CASE Expire
  BY <1>4, <1>7, <1>8 DEF Expire, terminal
<1>9. CASE EnterGrace
  <2>1. old.expiresAt - now <= GraceWindow /\ old.phase # "Expiring"
    BY <1>9 DEF EnterGrace, mustWarn, remaining
  <2>2. old.expiresAt <= now + GraceWindow
    BY <1>5, <2>1, GraceAssumption
  <2> QED
    BY <1>7, <1>9, <2>1, <2>2 DEF EnterGrace
<1>10. CASE Later
  BY <1>1, <1>10, DropRests DEF Later
<1> QED
  BY <1>8, <1>9, <1>10 DEF LifecycleController

(* So do the world, reads, refused and failing calls, and lost events.     *)
Interrupts(c) ==
  \/ \E n \in Names : Get(c, n)
  \/ CallFails(c) \/ StatusConflict(c) \/ NotifyLost(c)

(* The other steps let time or the world move on, take a new object in     *)
(* hand or end a reconcile, and decide nothing.                            *)
LEMMA OthersRest ==
  ASSUME Inv, World \/ (\E c \in Controllers : Interrupts(c)) \/ UNCHANGED vars
  PROVE  HandsOnly
<1>1. now \in Int
  BY DEF Inv, TypeOK
<1>2. CASE World
  BY <1>1, <1>2
     DEF World, Tick, TemplateChange, GarbageCollect, WatchDelivers, Restart, HandsOnly,
         Keeps, Rests, Idle
<1>3. ASSUME NEW c \in Controllers, Interrupts(c)
      PROVE  HandsOnly
  <2>1. ASSUME NEW n \in Names, Get(c, n)
        PROVE  HandsOnly
    <3> DEFINE w == [Idle EXCEPT !.pc = "read", !.name = n, !.rv = cached[n]]
    <3>1. w.pc = "read"
      BY DEF Idle
    <3>2. Hand(c, w) /\ UNCHANGED <<now, log, delivered>>
      BY <2>1 DEF Get
    <3> HIDE DEF w
    <3> QED
      BY <1>1, <3>1, <3>2, HandFacts DEF HandsOnly, Keeps, Rests, Inv
  <2>2. CASE CallFails(c) \/ StatusConflict(c) \/ NotifyLost(c)
    BY <1>1, <2>2, DropRests DEF CallFails, StatusConflict, NotifyLost, HandsOnly
  <2> QED
    BY <1>3, <2>1, <2>2 DEF Interrupts
<1>4. CASE UNCHANGED vars
  BY <1>1, <1>4 DEF vars, HandsOnly, Keeps
<1> QED
  BY <1>2, <1>3, <1>4

(* Every step is one of these.                                             *)
LEMMA StepKinds ==
  ASSUME Inv, ExpiryComesFirst, [Next]_vars
  PROVE  \/ HandsOnly
         \/ Clients
         \/ \E c \in Controllers : StatusUpdate(c) \/ Notify(c)
BY InstanceControllerDecides, LifecycleControllerDecides, OthersRest
   DEF Next, Reconcilers, Interrupts

(* Where the versions of a log come from after Put.                        *)
LEMMA PutVersions ==
  ASSUME Inv, NEW n \in Names, NEW v \in Versions \cup {Nil}, Put(n, v)
  PROVE  /\ LogGrows /\ Len(log'[n]) = last(n) + 1 /\ log'[n][last(n) + 1] = v
         /\ \A m \in Names \ {n} : log'[m] = log[m]
         /\ \A m \in Names : \A i \in 1..Len(log'[m]) :
              \/ i \in 1..last(m) /\ log'[m][i] = log[m][i]
              \/ m = n /\ i = last(n) + 1 /\ log'[m][i] = v
<1>1. /\ LogGrows /\ Len(log'[n]) = last(n) + 1 /\ log'[n][last(n) + 1] = v
      /\ \A m \in Names \ {n} : log'[m] = log[m]
  BY PutFacts DEF Inv
<1>2. \A m \in Names : last(m) \in Nat
  BY StoreType
<1> QED
  BY <1>1, <1>2 DEF LogGrows, last

(* A log that does not change has what it had.                             *)
LEMMA LogStays ==
  ASSUME Inv, UNCHANGED log
  PROVE  LogGrows /\ (ExpiryComesFirst => ExpiryComesFirst')
<1>1. LogGrows
  BY StoreType DEF LogGrows, last
<1>2. ExpiryComesFirst => ExpiryComesFirst'
  BY DEF ExpiryComesFirst, last
<1> QED
  BY <1>1, <1>2

(* A worker's read is of a version that stays.                             *)
LEMMA ReadStays ==
  ASSUME Inv, LogGrows, NEW c \in Controllers, worker[c].pc # "idle",
         worker'[c].name = worker[c].name, worker'[c].rv = worker[c].rv
  PROVE  read(c)' = read(c)
BY DEF Inv, WorkersRemember, InRange, LogGrows, read

(***************************************************************************)
(* The second layer: events.                                               *)
(***************************************************************************)
Events == WorkersAnnounce /\ EventsTellTheTruth /\ EventsOnce

(* Versions that are stored stay, and so does what they announce.          *)
LEMMA AnnouncesStays ==
  ASSUME Inv, Inv', LogGrows, NEW n \in Names, NEW i, NEW type, Announces(type, log[n], i)
  PROVE  i \in 2..last(n) /\ log'[n][i] = log[n][i] /\ Announces(type, log'[n], i)
<1>1. i \in 2..last(n) /\ last(n) \in Nat
  BY StoreType DEF Announces, last
<1>2. i \in 1..last(n) /\ i - 1 \in 1..last(n)
  BY <1>1
<1>3. last(n) <= Len(log'[n]) /\ log'[n][i] = log[n][i] /\ log'[n][i - 1] = log[n][i - 1]
  BY <1>2 DEF LogGrows
<1>4. Len(log'[n]) \in Nat
  BY DEF Inv, TypeOK
<1>5. i \in 2..Len(log'[n])
  BY <1>1, <1>3, <1>4
<1> QED
  BY <1>1, <1>3, <1>5 DEF Announces

(* What was delivered stays true.                                          *)
LEMMA DeliveredStays ==
  ASSUME Inv, Inv', Events, LogGrows, UNCHANGED delivered
  PROVE  EventsTellTheTruth' /\ EventsOnce'
<1>1. EventsTellTheTruth'
  BY AnnouncesStays DEF Events, EventsTellTheTruth
<1> QED
  BY <1>1 DEF Events, EventsOnce

(* A decision stays right as time goes on.                                 *)
LEMMA FollowsLater ==
  ASSUME NEW old, NEW new \in Status, NEW t \in Int, NEW u \in Int, t <= u,
         MayFollow(old, new, t)
  PROVE  MayFollow(old, new, u)
<1>1. new.phase = "Expiring" => new.expiresAt \in Int /\ new.expiresAt <= t + GraceWindow
  BY DEF MayFollow, Status
<1>2. new.phase = "Expiring" => new.expiresAt <= u + GraceWindow
  BY <1>1, GraceAssumption
<1> QED
  BY <1>2 DEF MayFollow

(* What Decided says of one worker.                                        *)
DecidedBy(c) ==
  worker[c].pc = "update" =>
    /\ MayFollow(read(c).status, worker[c].status, now)
    /\ worker[c].event = eventOfChange(read(c).status.phase, worker[c].status.phase)

(* Decisions stay right in workers nobody touches.                         *)
LEMMA DecidedStays ==
  ASSUME Inv, Inv', Decided, LogGrows, now <= now', NEW c \in Controllers, Keeps(c)
  PROVE  DecidedBy(c)'
<1> SUFFICES ASSUME worker[c].pc = "update" PROVE DecidedBy(c)'
  BY DEF DecidedBy, Keeps
<1>1. read(c)' = read(c) /\ worker'[c] = worker[c]
  BY ReadStays DEF Keeps
<1>2. now \in Int /\ now' \in Int /\ worker[c].status \in Status
  BY DEF Inv, TypeOK, Work
<1>3. MayFollow(read(c).status, worker[c].status, now')
  BY <1>2, FollowsLater DEF Decided
<1> QED
  BY <1>1, <1>3 DEF Decided, DecidedBy

(* Steps that only change hands.                                           *)
LEMMA EventsHands ==
  ASSUME Inv, Inv', Events, HandsOnly
  PROVE  Events'
<1>1. UNCHANGED <<log, delivered>> /\ now <= now'
  BY DEF HandsOnly, Inv, TypeOK
<1>2. LogGrows
  BY <1>1, LogStays
<1>3. ExpiryComesFirst'
  BY <1>1, LogStays DEF Events, WorkersAnnounce
<1>4. Decided'
  <2>1. ASSUME NEW c \in Controllers
        PROVE  DecidedBy(c)'
    <3>1. CASE Keeps(c)
      BY <1>1, <1>2, <3>1, DecidedStays DEF Events, WorkersAnnounce
    <3>2. CASE Rests(c)
      BY <3>2 DEF Rests, DecidedBy
    <3>3. CASE Decides(c)
      <4>1. read(c)' = read(c)
        BY <1>2, <3>3, ReadStays DEF Decides
      <4>2. now \in Int /\ now' \in Int /\ worker'[c].status \in Status
        BY DEF Inv, TypeOK, Work
      <4>3. MayFollow(read(c).status, worker'[c].status, now')
        BY <1>1, <3>3, <4>2, FollowsLater DEF Decides
      <4> QED
        BY <3>3, <4>1, <4>3 DEF Decides, DecidedBy
    <3> QED
      BY <3>1, <3>2, <3>3 DEF HandsOnly
  <2> QED
    BY <2>1 DEF Decided, DecidedBy
<1>5. News'
  <2>1. \A c \in Controllers : worker'[c].pc = "notify" => worker'[c] = worker[c]
    BY DEF HandsOnly, Keeps, Rests, Decides
  <2> QED
    BY <1>1, <2>1 DEF Events, WorkersAnnounce, News, Notifying
<1>6. EventsTellTheTruth' /\ EventsOnce'
  BY <1>1, <1>2, DeliveredStays
<1> QED
  BY <1>3, <1>4, <1>5, <1>6 DEF Events, WorkersAnnounce

(* A stored version does not lack an expiry it needs.                      *)
LEMMA ExpiryPut ==
  ASSUME Inv, ExpiryComesFirst, NEW n \in Names, NEW v \in Versions \cup {Nil}, Put(n, v),
         v # Nil => v.status.phase \in {"", "Pending", "Failed"} \/ v.status.expiresAt # Nil
  PROVE  ExpiryComesFirst'
<1> SUFFICES ASSUME NEW m \in Names, NEW i \in 1..Len(log'[m]), log'[m][i] # Nil
             PROVE  \/ log'[m][i].status.phase \in {"", "Pending", "Failed"}
                    \/ log'[m][i].status.expiresAt # Nil
  BY DEF ExpiryComesFirst, last
<1>1. \/ i \in 1..last(m) /\ log'[m][i] = log[m][i]
      \/ log'[m][i] = v
  BY PutVersions
<1> QED
  BY <1>1 DEF ExpiryComesFirst

(* A client's write.                                                       *)
LEMMA EventsClients ==
  ASSUME Inv, Inv', Events, Clients
  PROVE  Events'
<1>0. now \in Int
  BY DEF Inv, TypeOK
<1>1. UNCHANGED <<now, worker, delivered>> /\ now <= now'
  BY <1>0, ClientsWrite
<1>2. LogGrows /\ ExpiryComesFirst'
  <2>1. CASE UNCHANGED log
    BY <2>1, LogStays DEF Events, WorkersAnnounce
  <2>2. ASSUME NEW n \in Names, NEW v \in Versions \cup {Nil}, Put(n, v), ClientWrite(n, v)
        PROVE  LogGrows /\ ExpiryComesFirst'
    <3>1. last(n) \in 1..last(n)
      BY StoreType
    <3>2. store(n) # Nil => \/ store(n).status.phase \in {"", "Pending", "Failed"}
                            \/ store(n).status.expiresAt # Nil
      BY <3>1 DEF Events, WorkersAnnounce, ExpiryComesFirst, store
    <3>3. NewStatus.phase = ""
      BY DEF NewStatus
    <3>4. v # Nil => v.status.phase \in {"", "Pending", "Failed"} \/ v.status.expiresAt # Nil
      BY <2>2, <3>2, <3>3 DEF ClientWrite
    <3>5. ExpiryComesFirst
      BY DEF Events, WorkersAnnounce
    <3>6. ExpiryComesFirst'
      BY <2>2, <3>4, <3>5, ExpiryPut
    <3> QED
      BY <2>2, <3>6, PutVersions
  <2> QED
    BY <2>1, <2>2, ClientsWrite
<1>3. Decided'
  <2>1. \A c \in Controllers : DecidedBy(c)'
    BY <1>1, <1>2, DecidedStays DEF Events, WorkersAnnounce, Keeps
  <2> QED
    BY <2>1 DEF Decided, DecidedBy
<1>4. News'
  BY <1>1, <1>2, AnnouncesStays DEF Events, WorkersAnnounce, News, Notifying
<1>5. EventsTellTheTruth' /\ EventsOnce'
  BY <1>1, <1>2, DeliveredStays
<1> QED
  BY <1>2, <1>3, <1>4, <1>5 DEF Events, WorkersAnnounce

(* An event is about a version that is stored.                             *)
LEMMA NewsInRange ==
  ASSUME Inv, Events, NEW n \in Names
  PROVE  /\ \A i \in DOMAIN delivered[n] : delivered[n][i].rv \in 2..last(n)
         /\ \A c \in Controllers : Notifying(c, n) => worker[c].rv \in 2..last(n)
BY DEF Events, EventsTellTheTruth, WorkersAnnounce, News, Announces, last

(* An accepted update.                                                     *)
LEMMA EventsUpdate ==
  ASSUME Inv, Inv', Events, NEW c \in Controllers, StatusUpdate(c)
  PROVE  Events'
<1> DEFINE w == worker[c]
           n == worker[c].name
           old == store(n).status
           v == [store(n) EXCEPT !.status = w.status]
           w2 == [Idle EXCEPT !.pc = "notify", !.name = n,
                              !.rv = Len(log'[n]), !.event = w.event]
<1>1. /\ w.pc = "update" /\ n \in Names /\ w.status \in Status
      /\ store(n) = read(c) /\ store(n) # Nil
      /\ v \in Versions /\ v # Nil /\ v.status = w.status
      /\ Put(n, v) \/ (UNCHANGED log /\ w.status = old)
      /\ Hand(c, IF w.event = Nil THEN Idle ELSE w2)
      /\ UNCHANGED <<now, delivered>>
  BY StatusUpdateWrites
<1>0. now <= now'
  BY <1>1 DEF Inv, TypeOK
<1>2. MayFollow(old, w.status, now) /\ w.event = eventOfChange(old.phase, w.status.phase)
  BY <1>1 DEF Events, WorkersAnnounce, Decided
<1>3. /\ worker'[c] = IF w.event = Nil THEN Idle ELSE w2
      /\ \A d \in Controllers \ {c} : Keeps(d)
  BY <1>1, HandFacts DEF Keeps, Inv
<1>4. Idle.pc = "idle" /\ w2.pc = "notify" /\ w2.name = n /\ w2.rv = Len(log'[n])
      /\ w2.event = w.event
  BY DEF Idle
<1> HIDE DEF w2
<1>5. LogGrows /\ ExpiryComesFirst'
  <2>1. CASE Put(n, v)
    <3>1. v.status.phase \in {"", "Pending", "Failed"} \/ v.status.expiresAt # Nil
      BY <1>1, <1>2 DEF MayFollow
    <3>2. ExpiryComesFirst
      BY DEF Events, WorkersAnnounce
    <3> HIDE DEF v, n
    <3>3. ExpiryComesFirst'
      BY <1>1, <2>1, <3>1, <3>2, ExpiryPut
    <3> QED
      BY <1>1, <2>1, <3>3, PutVersions
  <2>2. CASE UNCHANGED log
    BY <2>2, LogStays DEF Events, WorkersAnnounce
  <2> QED
    BY <1>1, <2>1, <2>2
<1>6. Decided'
  <2>1. ASSUME NEW d \in Controllers \ {c}
        PROVE  DecidedBy(d)'
    BY <1>0, <1>3, <1>5, DecidedStays DEF Events, WorkersAnnounce
  <2>2. DecidedBy(c)'
    BY <1>3, <1>4 DEF DecidedBy
  <2> QED
    BY <2>1, <2>2 DEF Decided, DecidedBy
<1>7. ASSUME w.event # Nil
      PROVE  /\ Len(log'[n]) = last(n) + 1
             /\ Announces(w.event, log'[n], last(n) + 1)
  <2>1. /\ w.status.phase # old.phase /\ w.status.phase # "Pending"
        /\ w.event = EventOf[w.status.phase]
    BY <1>2, <1>7 DEF eventOfChange
  <2>2. w.status.phase \in DOMAIN EventOf
    BY <1>1, <1>2, <2>1 DEF MayFollow, Status, Phases, EventOf
  <2>3. Put(n, v)
    BY <1>1, <2>1
  <2>4. last(n) \in Nat /\ last(n) >= 1
    BY <1>1, StoreType
  <2> HIDE DEF v, n
  <2>5. LogGrows /\ Len(log'[n]) = last(n) + 1 /\ log'[n][last(n) + 1] = v
    BY <1>1, <2>3, PutVersions
  <2>6. log'[n][last(n)] = store(n)
    BY <1>1, <2>4, <2>5 DEF LogGrows, store
  <2> QED
    BY <1>1, <2>1, <2>2, <2>4, <2>5, <2>6 DEF Announces
<1>8. News'
  <2> SUFFICES ASSUME NEW m \in Names, NEW d \in Controllers, Notifying(d, m)'
               PROVE  /\ Announces(worker'[d].event, log'[m], worker'[d].rv)
                      /\ \A i \in DOMAIN delivered[m] : delivered[m][i].rv # worker'[d].rv
                      /\ \A e \in Controllers \ {d} :
                           Notifying(e, m)' => worker'[e].rv # worker'[d].rv
    BY <1>1 DEF News
  <2>1. ASSUME NEW e \in Controllers \ {c}, Notifying(e, m)'
        PROVE  Notifying(e, m) /\ worker'[e] = worker[e]
    BY <1>3, <2>1 DEF Notifying, Keeps
  <2>2. Notifying(c, m)' =>
          /\ m = n /\ w.event # Nil /\ worker'[c].rv = last(n) + 1
          /\ worker'[c].event = w.event
    BY <1>3, <1>4, <1>7 DEF Notifying
  <2>3. CASE d = c
    <3>1. last(n) \in Nat
      BY <1>1, StoreType
    <3> QED
      BY <1>7, <2>1, <2>2, <2>3, <3>1, NewsInRange
  <2>4. CASE d # c
    <3>1. Notifying(d, m) /\ worker'[d] = worker[d]
      BY <2>1, <2>4
    <3>2. /\ Announces(worker[d].event, log[m], worker[d].rv)
          /\ \A i \in DOMAIN delivered[m] : delivered[m][i].rv # worker[d].rv
          /\ \A e \in Controllers \ {d} : Notifying(e, m) => worker[e].rv # worker[d].rv
      BY <3>1 DEF Events, WorkersAnnounce, News
    <3>3. Announces(worker[d].event, log'[m], worker[d].rv)
      BY <1>5, <3>2, AnnouncesStays
    <3>4. last(m) \in Nat /\ worker[d].rv \in 2..last(m)
      BY <3>1, StoreType, NewsInRange
    <3>5. Notifying(c, m)' => worker'[c].rv # worker[d].rv
      BY <2>2, <3>4
    <3> QED
      BY <2>1, <3>1, <3>2, <3>3, <3>5
  <2> QED
    BY <2>3, <2>4
<1>9. EventsTellTheTruth' /\ EventsOnce'
  BY <1>1, <1>5, DeliveredStays
<1> QED
  BY <1>5, <1>6, <1>8, <1>9 DEF Events, WorkersAnnounce

(* What a notification changes.                                            *)
LEMMA NotifyFacts ==
  ASSUME Inv, NEW c \in Controllers, Notify(c)
  PROVE  LET n == worker[c].name
             e == [rv |-> worker[c].rv, uid |-> read(c).uid, type |-> worker[c].event]
         IN  /\ n \in Names /\ Notifying(c, n)
             /\ Len(delivered[n]) \in Nat /\ Len(delivered'[n]) = Len(delivered[n]) + 1
             /\ DOMAIN delivered[n] = 1..Len(delivered[n])
             /\ DOMAIN delivered'[n] = 1..(Len(delivered[n]) + 1)
             /\ \A i \in DOMAIN delivered[n] : delivered'[n][i] = delivered[n][i]
             /\ delivered'[n][Len(delivered[n]) + 1] = e
             /\ \A m \in Names \ {n} : delivered'[m] = delivered[m]
             /\ \A d \in Controllers \ {c} : Keeps(d)
             /\ worker'[c].pc = "idle"
             /\ UNCHANGED <<now, log>> /\ now <= now' /\ LogGrows
<1> DEFINE n == worker[c].name
           e == [rv |-> worker[c].rv, uid |-> read(c).uid, type |-> worker[c].event]
<1>1. /\ worker[c].pc = "notify" /\ Hand(c, Idle) /\ UNCHANGED <<now, log>>
      /\ delivered' = [delivered EXCEPT ![n] = Append(@, e)]
  BY DEF Notify
<1>2. n \in Names
  BY <1>1, ReadType
<1>3. /\ delivered \in [Names -> Seq(Notification)] /\ now \in Int /\ log = log'
  BY <1>1 DEF Inv, TypeOK
<1> HIDE DEF e
<1>4. delivered'[n] = Append(delivered[n], e) /\ \A m \in Names \ {n} : delivered'[m] = delivered[m]
  BY <1>1, <1>2, <1>3
<1>5. delivered[n] \in Seq(Notification)
  BY <1>2, <1>3
<1>6. /\ Len(delivered[n]) \in Nat /\ Len(delivered'[n]) = Len(delivered[n]) + 1
      /\ DOMAIN delivered[n] = 1..Len(delivered[n])
      /\ DOMAIN delivered'[n] = 1..(Len(delivered[n]) + 1)
      /\ \A i \in DOMAIN delivered[n] : delivered'[n][i] = delivered[n][i]
      /\ delivered'[n][Len(delivered[n]) + 1] = e
  BY <1>4, <1>5
<1>7. worker'[c].pc = "idle" /\ \A d \in Controllers \ {c} : Keeps(d)
  BY <1>1, HandFacts DEF Idle, Keeps, Inv
<1>8. LogGrows /\ now <= now'
  BY <1>1, <1>3, LogStays
<1> QED
  BY <1>1, <1>2, <1>4, <1>6, <1>7, <1>8 DEF Notifying, e

(* A notification.                                                         *)
LEMMA EventsNotify ==
  ASSUME Inv, Inv', Events, NEW c \in Controllers, Notify(c)
  PROVE  Events'
<1> DEFINE n == worker[c].name
           last_ == Len(delivered[n])
           e == [rv |-> worker[c].rv, uid |-> read(c).uid, type |-> worker[c].event]
<1>1. /\ n \in Names /\ Notifying(c, n) /\ last_ \in Nat
      /\ DOMAIN delivered[n] = 1..last_ /\ DOMAIN delivered'[n] = 1..(last_ + 1)
      /\ \A i \in DOMAIN delivered[n] : delivered'[n][i] = delivered[n][i]
      /\ delivered'[n][last_ + 1] = e
      /\ \A m \in Names \ {n} : delivered'[m] = delivered[m]
      /\ \A d \in Controllers \ {c} : Keeps(d)
      /\ worker'[c].pc = "idle" /\ UNCHANGED log /\ now <= now' /\ LogGrows
  BY NotifyFacts
<1>2. e.rv = worker[c].rv /\ e.uid = read(c).uid /\ e.type = worker[c].event
  OBVIOUS
<1> HIDE DEF e, last_
<1>3. ASSUME NEW m \in Names, NEW i \in DOMAIN delivered'[m]
      PROVE  \/ i \in DOMAIN delivered[m] /\ delivered'[m][i] = delivered[m][i]
             \/ m = n /\ i = last_ + 1 /\ delivered'[m][i] = e
  <2>1. CASE m # n
    BY <1>1, <2>1
  <2>2. CASE m = n
    BY <1>1, <2>2
  <2> QED
    BY <2>1, <2>2
<1>4. /\ Announces(worker[c].event, log[n], worker[c].rv)
      /\ \A i \in DOMAIN delivered[n] : delivered[n][i].rv # worker[c].rv
      /\ \A d \in Controllers \ {c} : Notifying(d, n) => worker[d].rv # worker[c].rv
  BY <1>1 DEF Events, WorkersAnnounce, News
<1>5. ExpiryComesFirst'
  BY <1>1, LogStays DEF Events, WorkersAnnounce
<1>6. Decided'
  <2>1. ASSUME NEW d \in Controllers \ {c}
        PROVE  DecidedBy(d)'
    BY <1>1, DecidedStays DEF Events, WorkersAnnounce
  <2>2. DecidedBy(c)'
    BY <1>1 DEF DecidedBy
  <2> QED
    BY <2>1, <2>2 DEF Decided, DecidedBy
<1>7. News'
  <2> SUFFICES ASSUME NEW m \in Names, NEW d \in Controllers, Notifying(d, m)'
               PROVE  /\ Announces(worker'[d].event, log'[m], worker'[d].rv)
                      /\ \A i \in DOMAIN delivered'[m] : delivered'[m][i].rv # worker'[d].rv
                      /\ \A f \in Controllers \ {d} :
                           Notifying(f, m)' => worker'[f].rv # worker'[d].rv
    BY DEF News
  <2>1. ASSUME NEW f \in Controllers, Notifying(f, m)'
        PROVE  f # c /\ Notifying(f, m) /\ worker'[f] = worker[f]
    BY <1>1, <2>1 DEF Notifying, Keeps
  <2>2. d # c /\ Notifying(d, m) /\ worker'[d] = worker[d]
    BY <2>1
  <2>3. /\ Announces(worker[d].event, log[m], worker[d].rv)
        /\ \A i \in DOMAIN delivered[m] : delivered[m][i].rv # worker[d].rv
        /\ \A f \in Controllers \ {d} : Notifying(f, m) => worker[f].rv # worker[d].rv
    BY <2>2 DEF Events, WorkersAnnounce, News
  <2>4. m = n => worker[d].rv # worker[c].rv
    BY <1>4, <2>2
  <2>5. \A i \in DOMAIN delivered'[m] : delivered'[m][i].rv # worker[d].rv
    BY <1>2, <1>3, <2>3, <2>4
  <2> QED
    BY <1>1, <2>1, <2>2, <2>3, <2>5
<1>8. EventsTellTheTruth'
  <2> SUFFICES ASSUME NEW m \in Names, NEW i \in DOMAIN delivered'[m]
               PROVE  /\ Announces(delivered'[m][i].type, log'[m], delivered'[m][i].rv)
                      /\ log'[m][delivered'[m][i].rv].uid = delivered'[m][i].uid
    BY DEF EventsTellTheTruth
  <2>1. CASE i \in DOMAIN delivered[m] /\ delivered'[m][i] = delivered[m][i]
    BY <1>1, <2>1 DEF Events, EventsTellTheTruth
  <2>2. CASE m = n /\ delivered'[m][i] = e
    BY <1>1, <1>2, <1>4, <2>2 DEF read
  <2> QED
    BY <1>3, <2>1, <2>2
<1>9. EventsOnce'
  <2> SUFFICES ASSUME NEW m \in Names, NEW i \in DOMAIN delivered'[m],
                      NEW j \in DOMAIN delivered'[m],
                      delivered'[m][i].rv = delivered'[m][j].rv
               PROVE  i = j
    BY DEF EventsOnce
  <2>1. \A k, l \in DOMAIN delivered[m] : delivered[m][k].rv = delivered[m][l].rv => k = l
    BY DEF Events, EventsOnce
  <2> QED
    BY <1>2, <1>3, <1>4, <2>1
<1> QED
  BY <1>5, <1>6, <1>7, <1>8, <1>9 DEF Events, WorkersAnnounce

(* Every event is tied to the one write it announces, from the decision to *)
(* the delivery.                                                           *)
LEMMA EventsInvariance == Spec => []Events
<1>1. Init => Events
  <2> SUFFICES ASSUME Init PROVE Events
    OBVIOUS
  <2>0. \A n \in Names : Len(log[n]) = 1 /\ log[n][1] = Nil
    BY DEF Init
  <2>1. ExpiryComesFirst
    <3>1. \A n \in Names : \A i \in 1..last(n) : log[n][i] = Nil
      BY <2>0 DEF last
    <3> QED
      BY <3>1 DEF ExpiryComesFirst
  <2>2. \A c \in Controllers : worker[c].pc = "idle"
    BY DEF Init, Idle
  <2>3. \A n \in Names : DOMAIN delivered[n] = {}
    BY DEF Init
  <2> QED
    BY <2>1, <2>2, <2>3
       DEF Events, WorkersAnnounce, Decided, News, Notifying, EventsTellTheTruth, EventsOnce
<1>2. Inv /\ Inv' /\ Events /\ [Next]_vars => Events'
  <2> SUFFICES ASSUME Inv, Inv', Events, [Next]_vars
               PROVE  Events'
    OBVIOUS
  <2>1. ExpiryComesFirst
    BY DEF Events, WorkersAnnounce
  <2> QED
    BY <2>1, StepKinds, EventsHands, EventsClients, EventsUpdate, EventsNotify
<1> QED
  BY <1>1, <1>2, Invariance, PTL DEF Spec

(***************************************************************************)
(* The third layer: lives.                                                 *)
(***************************************************************************)

(* Every write is an allowed one, of the instance that is there or of a    *)
(* new one.                                                                *)
LEMMA Writing ==
  ASSUME Inv, ExpiryComesFirst, [Next]_vars
  PROVE  \/ UNCHANGED log
         \/ \E n \in Names, v \in Versions \cup {Nil} :
              /\ Put(n, v) /\ AllowedWrite(store(n), v)
              /\ v # Nil => v.uid = IF store(n) = Nil THEN last(n) + 1 ELSE store(n).uid
<1>1. CASE HandsOnly
  BY <1>1 DEF HandsOnly
<1>2. CASE Clients
  <2>1. ASSUME NEW n \in Names, NEW v, ClientWrite(n, v)
        PROVE  /\ AllowedWrite(store(n), v)
               /\ v # Nil => v.uid = IF store(n) = Nil THEN last(n) + 1 ELSE store(n).uid
    BY <2>1 DEF ClientWrite, AllowedWrite
  <2> QED
    BY <1>2, <2>1, ClientsWrite
<1>3. ASSUME NEW c \in Controllers, StatusUpdate(c)
      PROVE  \/ UNCHANGED log
             \/ \E n \in Names, v \in Versions \cup {Nil} :
                  /\ Put(n, v) /\ AllowedWrite(store(n), v)
                  /\ v # Nil => v.uid = IF store(n) = Nil THEN last(n) + 1 ELSE store(n).uid
  <2> DEFINE n == worker[c].name
             v == [store(n) EXCEPT !.status = worker[c].status]
  <2>1. /\ n \in Names /\ store(n) # Nil /\ v \in Versions /\ v.uid = store(n).uid
        /\ AllowedWrite(store(n), v) /\ (Put(n, v) \/ UNCHANGED log)
    BY <1>3, StatusUpdateWrites
  <2> HIDE DEF n, v
  <2> QED
    BY <2>1
<1>4. ASSUME NEW c \in Controllers, Notify(c)
      PROVE  UNCHANGED log
  BY <1>4 DEF Notify
<1> QED
  BY <1>1, <1>2, <1>3, <1>4, StepKinds

(* What the versions of one name say, whatever their number.               *)
LifeOf(versions) ==
  /\ versions[1] = Nil
  /\ \A i \in 1..(Len(versions) - 1) :
       versions[i] # Nil /\ versions[i + 1] # Nil => versions[i + 1].uid = versions[i].uid
  /\ \A i \in 1..Len(versions) : versions[i] # Nil => versions[i].uid \in 2..i
  /\ \A j \in 1..Len(versions) : \A i \in 1..j :
       versions[i] # Nil /\ versions[j] # Nil =>
         /\ versions[i].uid <= versions[j].uid
         /\ terminal(versions[i].status.phase) /\ versions[i].uid = versions[j].uid =>
              versions[j].status = versions[i].status

(* OneLifeEach speaks of one name at a time.                               *)
LEMMA OneLifeSplit == OneLifeEach <=> \A n \in Names : LifeOf(log[n])
BY DEF OneLifeEach, LifeOf, Writes, last

(* A write that continues a life or begins one.                            *)
LEMMA LifePut ==
  ASSUME Inv, NEW n \in Names, LifeOf(log[n]), NEW v \in Versions \cup {Nil},
         Put(n, v), AllowedWrite(store(n), v),
         v # Nil => v.uid = IF store(n) = Nil THEN last(n) + 1 ELSE store(n).uid
  PROVE  LifeOf(log'[n])
<1> DEFINE L == last(n)
           l == log[n]
           k == log'[n]
<1>1. /\ LogGrows /\ Len(k) = L + 1 /\ k[L + 1] = v
  BY PutVersions
<1>2. L \in Nat /\ L >= 1 /\ L = Len(l) /\ l[L] = store(n)
  BY StoreType DEF last, store
<1>3. \A i \in 1..L : k[i] = l[i]
  BY <1>1 DEF LogGrows
<1> HIDE DEF L, l, k
<1>4. LifeOf(l)
  BY DEF l
<1>5. \A i \in 1..L : l[i] # Nil => l[i].uid \in 2..i
  BY <1>2, <1>4 DEF LifeOf
<1>6. \A i \in 1..L : l[i] # Nil /\ store(n) # Nil =>
        /\ l[i].uid <= store(n).uid
        /\ terminal(l[i].status.phase) /\ l[i].uid = store(n).uid =>
             store(n).status = l[i].status
  BY <1>2, <1>4 DEF LifeOf
<1>7. k[1] = Nil
  BY <1>2, <1>3, <1>4 DEF LifeOf
<1>8. ASSUME NEW i \in 1..(Len(k) - 1), k[i] # Nil, k[i + 1] # Nil
      PROVE  k[i + 1].uid = k[i].uid
  <2>1. CASE i = L
    BY <1>1, <1>2, <1>3, <1>8, <2>1
  <2>2. CASE i \in 1..(L - 1)
    BY <1>2, <1>3, <1>4, <1>8, <2>2 DEF LifeOf
  <2> QED
    BY <1>1, <1>2, <2>1, <2>2
<1>9. v # Nil => v.uid \in 2..(L + 1)
  <2>1. CASE store(n) = Nil
    BY <1>2, <2>1 DEF L
  <2>2. CASE store(n) # Nil
    BY <1>2, <1>5, <2>2
  <2> QED
    BY <2>1, <2>2
<1>10. ASSUME NEW i \in 1..Len(k), k[i] # Nil
       PROVE  k[i].uid \in 2..i
  <2>1. CASE i = L + 1
    BY <1>1, <1>9, <1>10, <2>1
  <2>2. CASE i \in 1..L
    BY <1>3, <1>5, <1>10, <2>2
  <2> QED
    BY <1>1, <1>2, <2>1, <2>2
<1>11. ASSUME NEW j \in 1..Len(k), NEW i \in 1..j, k[i] # Nil, k[j] # Nil
       PROVE  /\ k[i].uid <= k[j].uid
              /\ terminal(k[i].status.phase) /\ k[i].uid = k[j].uid => k[j].status = k[i].status
  <2>1. CASE j \in 1..L
    <3>1. k[i] = l[i] /\ k[j] = l[j] /\ j \in 1..Len(l)
      BY <1>2, <1>3, <2>1
    <3> QED
      BY <1>4, <1>11, <3>1 DEF LifeOf
  <2>2. CASE i = L + 1 /\ j = L + 1
    BY <1>1, <1>2, <1>9, <1>11, <2>2
  <2>3. CASE i \in 1..L /\ j = L + 1 /\ store(n) = Nil
    <3>1. k[j] = v /\ v # Nil /\ v.uid = L + 1
      BY <1>1, <1>11, <2>3 DEF L
    <3>2. k[i] = l[i] /\ l[i].uid \in 2..i
      BY <1>3, <1>5, <1>11, <2>3
    <3> QED
      BY <1>2, <2>3, <3>1, <3>2
  <2>4. CASE i \in 1..L /\ j = L + 1 /\ store(n) # Nil
    <3>1. v # Nil /\ v.uid = store(n).uid /\ k[i] = l[i]
      BY <1>1, <1>3, <1>11, <2>4
    <3>2. terminal(store(n).status.phase) => v.status = store(n).status
      BY <2>4, <3>1 DEF AllowedWrite
    <3> QED
      BY <1>1, <1>6, <1>11, <2>4, <3>1, <3>2
  <2> QED
    BY <1>1, <1>2, <2>1, <2>2, <2>3, <2>4
<1> QED
  BY <1>7, <1>8, <1>10, <1>11 DEF LifeOf, k

(* The lives of a name follow one another.                                 *)
THEOREM LivesApart == Spec => []OneLifeEach
<1>1. Init => OneLifeEach
  <2> SUFFICES ASSUME Init PROVE OneLifeEach
    OBVIOUS
  <2>1. \A n \in Names : Len(log[n]) = 1 /\ log[n][1] = Nil
    BY DEF Init
  <2>2. \A i \in 1..1 : i = 1
    OBVIOUS
  <2>3. ASSUME NEW l, Len(l) = 1, l[1] = Nil
        PROVE  LifeOf(l)
    <3>1. 1..Len(l) = {1} /\ 1..(Len(l) - 1) = {}
      BY <2>3
    <3> QED
      BY <2>2, <2>3, <3>1 DEF LifeOf
  <2> QED
    BY <2>1, <2>3, OneLifeSplit
<1>2. Inv /\ Events /\ OneLifeEach /\ [Next]_vars => OneLifeEach'
  <2> SUFFICES ASSUME Inv, Events, OneLifeEach, [Next]_vars
               PROVE  \A n \in Names : LifeOf(log'[n])
    BY DEF OneLifeEach, LifeOf, Writes, last
  <2>1. \A n \in Names : LifeOf(log[n])
    BY OneLifeSplit
  <2>2. CASE UNCHANGED log
    BY <2>1, <2>2
  <2>3. ASSUME NEW n \in Names, NEW v \in Versions \cup {Nil},
               Put(n, v), AllowedWrite(store(n), v),
               v # Nil => v.uid = IF store(n) = Nil THEN last(n) + 1 ELSE store(n).uid
        PROVE  \A m \in Names : LifeOf(log'[m])
    BY <2>1, <2>3, LifePut, PutVersions
  <2>4. ExpiryComesFirst
    BY DEF Events, WorkersAnnounce
  <2> QED
    BY <2>2, <2>3, <2>4, Writing
<1> QED
  BY <1>1, <1>2, Invariance, EventsInvariance, PTL DEF Spec

(* Two farewells of one instance would be two ends of it.                  *)
LEMMA Farewells ==
  ASSUME Inv, Events, OneLifeEach
  PROVE  OneFarewell
<1> SUFFICES ASSUME NEW n \in Names,
                    NEW i \in DOMAIN delivered[n], NEW j \in DOMAIN delivered[n],
                    delivered[n][i].uid = delivered[n][j].uid,
                    {delivered[n][i].type, delivered[n][j].type} \subseteq
                      {EventOf["Failed"], EventOf["Expired"]}
             PROVE  i = j
  BY DEF OneFarewell
<1> DEFINE d == delivered[n][i]
           e == delivered[n][j]
<1>1. /\ Announces(d.type, log[n], d.rv) /\ log[n][d.rv].uid = d.uid
      /\ Announces(e.type, log[n], e.rv) /\ log[n][e.rv].uid = e.uid
  BY DEF Events, EventsTellTheTruth
<1>2. LifeOf(log[n])
  BY OneLifeSplit
<1>3. d.rv = e.rv => i = j
  BY DEF Events, EventsOnce
<1>4. d.uid = e.uid /\ d.type \in {EventOf["Failed"], EventOf["Expired"]}
      /\ e.type \in {EventOf["Failed"], EventOf["Expired"]}
  OBVIOUS
<1>5. \A p \in DOMAIN EventOf :
        EventOf[p] \in {EventOf["Failed"], EventOf["Expired"]} => terminal(p)
  BY DEF EventOf, terminal
<1> HIDE DEF d, e
<1>6. Len(log[n]) \in Nat
  BY DEF Inv, TypeOK
<1>7. ASSUME NEW a, NEW b, NEW s, NEW t,
             s \in {EventOf["Failed"], EventOf["Expired"]}, Announces(s, log[n], a),
             t \in {EventOf["Failed"], EventOf["Expired"]}, Announces(t, log[n], b),
             log[n][a].uid = log[n][b].uid, a < b
      PROVE  FALSE
  <2>1. /\ a \in 2..Len(log[n]) /\ b \in 2..Len(log[n])
        /\ log[n][a] # Nil /\ log[n][b] # Nil /\ log[n][b - 1] # Nil
        /\ log[n][b].status.phase # log[n][b - 1].status.phase
        /\ terminal(log[n][a].status.phase)
    BY <1>5, <1>7 DEF Announces
  <2>2. /\ b - 1 \in 1..(Len(log[n]) - 1) /\ b - 1 \in 1..Len(log[n])
        /\ a \in 1..(b - 1) /\ a \in 1..b /\ (b - 1) + 1 = b /\ b \in 1..Len(log[n])
    BY <1>6, <1>7, <2>1
  <2>3. log[n][b].uid = log[n][b - 1].uid
    BY <1>2, <2>1, <2>2 DEF LifeOf
  <2>4. log[n][b - 1].status = log[n][a].status
    BY <1>2, <1>7, <2>1, <2>2, <2>3 DEF LifeOf
  <2>5. log[n][b].status = log[n][a].status
    BY <1>2, <1>7, <2>1, <2>2 DEF LifeOf
  <2> QED
    BY <2>1, <2>4, <2>5
<1>8. d.rv \in Int /\ e.rv \in Int
  BY <1>1, <1>6 DEF Announces
<1> QED
  BY <1>1, <1>3, <1>4, <1>7, <1>8

(***************************************************************************)
(* The fourth layer: what a first life owns.                               *)
(***************************************************************************)
ci == "challengeinstance"

(* A reconcile in hand is about a name that has been used, and about its   *)
(* first life while that lives.                                            *)
LEMMA ReadLife ==
  ASSUME Inv, OneLifeEach, NEW c \in Controllers, worker[c].pc # "idle"
  PROVE  /\ worker[c].name \in Names
         /\ last(worker[c].name) # 1
         /\ Live(worker[c].name, 2) => read(c).uid = 2
         /\ worker[c].rv \in 1..last(worker[c].name) /\ read(c) # Nil
<1> DEFINE n == worker[c].name
           i == worker[c].rv
<1>1. n \in Names /\ i \in 1..last(n) /\ log[n][i] # Nil
  BY DEF Inv, WorkersRemember, InRange, read
<1>2. last(n) \in Nat /\ last(n) >= 1
  BY <1>1, StoreType
<1>3. log[n][1] = Nil /\ log[n][i].uid \in 2..i
      /\ (store(n) # Nil => log[n][i].uid <= store(n).uid)
  BY <1>1, <1>2 DEF OneLifeEach, store
<1>4. Live(n, 2) => log[n][i].uid = 2
  BY <1>3 DEF Live
<1> QED
  BY <1>1, <1>3, <1>4 DEF read

(* What a step may do to the objects of a name.                            *)
OwnedStays(n) ==
  /\ last(n) = 1 /\ (\A k \in Kinds : owned[n][k] = 0) => \A k \in Kinds : owned'[n][k] = 0
  /\ Live(n, 2) /\ (\A k \in Kinds : owned[n][k] \in {0, 2}) =>
       /\ \A k \in Kinds : owned'[n][k] \in {0, 2}
       /\ Fenced(n) => Fenced(n)'

(* The kinds an instance always needs.                                     *)
LEMMA WantedKinds ==
  ASSUME NEW i \in 1..Len(Wanted)
  PROVE  /\ {Wanted[j] : j \in 1..i} \subseteq Kinds
         /\ i = Len(Wanted) =>
              {"Deployment", "NetworkFence"} \subseteq {Wanted[j] : j \in 1..i}
<1>1. CASE tmpl.exposed
  <2>1. Wanted = <<"Deployment", "Service", "NetworkFence">>
    BY <1>1 DEF Wanted
  <2>2. Len(Wanted) = 3 /\ Wanted[1] = "Deployment" /\ Wanted[2] = "Service"
        /\ Wanted[3] = "NetworkFence"
    BY <2>1
  <2> QED
    BY <2>2 DEF Kinds
<1>2. CASE ~tmpl.exposed
  <2>1. Wanted = <<"Deployment", "NetworkFence">>
    BY <1>2 DEF Wanted
  <2>2. Len(Wanted) = 2 /\ Wanted[1] = "Deployment" /\ Wanted[2] = "NetworkFence"
    BY <2>1
  <2> QED
    BY <2>2 DEF Kinds
<1> QED
  BY <1>1, <1>2

(* Creating the objects takes none from a first life, and all of them make *)
(* it fenced.                                                              *)
LEMMA EnsuredOwned ==
  ASSUME Inv, OneLifeEach, InHand(ci), NEW i \in 1..Len(Wanted), owned' = Ensured(i)
  PROVE  /\ \A n \in Names : OwnedStays(n)
         /\ \A n \in Names :
              /\ i = Len(Wanted) /\ n = worker[ci].name /\ Live(n, 2)
              /\ \A k \in Kinds : owned[n][k] \in {0, 2}
              => Fenced(n)'
<1> DEFINE m == worker[ci].name
           made == {Wanted[j] : j \in 1..i}
<1>1. ci \in Controllers /\ worker[ci].pc # "idle"
  BY DEF Controllers, InHand, ci
<1>2. m \in Names /\ last(m) # 1 /\ (Live(m, 2) => read(ci).uid = 2)
  BY <1>1, ReadLife
<1>3. owned \in [Names -> [Kinds -> Nat]]
  BY DEF Inv, TypeOK
<1>4. i = Len(Wanted) => {"Deployment", "NetworkFence"} \subseteq made
  BY WantedKinds
<1>5. /\ \A k \in Kinds : owned'[m][k] = IF k \in made /\ owned[m][k] = 0 THEN read(ci).uid
                                        ELSE owned[m][k]
      /\ \A n \in Names \ {m} : owned'[n] = owned[n]
  BY <1>2, <1>3 DEF Ensured, ci
<1>6. "Deployment" \in Kinds /\ "NetworkFence" \in Kinds
  BY DEF Kinds
<1> HIDE DEF made, m
<1>7. ASSUME NEW n \in Names
      PROVE  OwnedStays(n)
  <2>1. CASE n = m
    BY <1>2, <1>5, <1>6, <2>1 DEF OwnedStays, Fenced
  <2>2. CASE n # m
    BY <1>5, <2>2 DEF OwnedStays, Fenced
  <2> QED
    BY <2>1, <2>2
<1>8. ASSUME NEW n \in Names, i = Len(Wanted), n = m, Live(n, 2),
             \A k \in Kinds : owned[n][k] \in {0, 2}
      PROVE  owned'[n]["Deployment"] = 2 /\ owned'[n]["NetworkFence"] = 2
  BY <1>2, <1>4, <1>5, <1>6, <1>8
<1> QED
  BY <1>7, <1>8 DEF m, Fenced

(* The other steps that touch objects: none takes one from a living owner. *)
LEMMA OwnedStep ==
  ASSUME Inv, OneLifeEach, [Next]_vars, NEW n \in Names
  PROVE  OwnedStays(n)
<1>1. CASE UNCHANGED owned
  BY <1>1 DEF OwnedStays, Fenced
<1>2. ASSUME NEW m \in Names, NEW k \in Kinds, GarbageCollect(m, k)
      PROVE  OwnedStays(n)
  <2>1. owned \in [Names -> [Kinds -> Nat]]
    BY DEF Inv, TypeOK
  <2>2. owned' = [owned EXCEPT ![m][k] = 0] /\ ~Live(m, owned[m][k])
    BY <1>2 DEF GarbageCollect
  <2>3. \A l \in Kinds : \/ owned'[n][l] = owned[n][l]
                         \/ owned'[n][l] = 0 /\ ~Live(n, owned[n][l])
    BY <2>1, <2>2
  <2>4. "Deployment" \in Kinds /\ "NetworkFence" \in Kinds
    BY DEF Kinds
  <2> QED
    BY <2>3, <2>4 DEF OwnedStays, Fenced
<1>3. CASE InstanceController
  <2>1. InHand(ci) /\ (UNCHANGED owned \/ \E i \in 1..Len(Wanted) : owned' = Ensured(i))
    <3>1. Len(Wanted) \in 1..Len(Wanted)
      BY DEF Wanted
    <3> QED
      BY <1>3, <3>1
         DEF InstanceController, TemplateMissing, TemplateNotReady, EnsureFails, TTLInvalid,
             PodObserved, ci
  <2> QED
    BY <1>1, <2>1, EnsuredOwned
<1>4. CASE World \/ Clients \/ Reconcilers \/ LifecycleController \/ UNCHANGED vars
  <2>1. CASE World
    BY <1>1, <1>2, <2>1 DEF World, Tick, TemplateChange, WatchDelivers, Restart
  <2>2. CASE Clients
    BY <1>1, <2>2, ClientsWrite
  <2>3. CASE Reconcilers
    BY <1>1, <2>3
       DEF Reconcilers, Get, CallFails, StatusUpdate, StatusConflict, Notify, NotifyLost
  <2>4. CASE LifecycleController
    BY <1>1, <2>4 DEF LifecycleController, Expire, EnterGrace, Later
  <2>5. CASE UNCHANGED vars
    BY <1>1, <2>5 DEF vars
  <2> QED
    BY <1>4, <2>1, <2>2, <2>3, <2>4, <2>5
<1> QED
  BY <1>3, <1>4 DEF Next

(* An expiry a worker is about to store was there when it read, or all     *)
(* objects are there.                                                      *)
LEMMA PreparedExpiry ==
  ASSUME Inv, [Next]_vars, NEW c \in Controllers, worker'[c].pc = "update", ~Keeps(c)
  PROVE  /\ UNCHANGED log /\ worker[c].pc = "read" /\ worker'[c].name = worker[c].name
         /\ \/ worker'[c].status.expiresAt = read(c).status.expiresAt
            \/ c = ci /\ InHand(ci) /\ owned' = Ensured(Len(Wanted))
<1> DEFINE Result ==
      /\ UNCHANGED log /\ worker[c].pc = "read" /\ worker'[c].name = worker[c].name
      /\ \/ worker'[c].status.expiresAt = read(c).status.expiresAt
         \/ c = ci /\ InHand(ci) /\ owned' = Ensured(Len(Wanted))
<1>1. ASSUME NEW d \in Controllers, NEW w, Hand(d, w), w.pc # "update"
      PROVE  FALSE
  BY <1>1, HandFacts DEF Keeps, Inv
<1>2. ASSUME NEW d \in Controllers, NEW st, NEW evt, Prepare(d, st, evt), InHand(d),
             UNCHANGED log
      PROVE  /\ c = d /\ UNCHANGED log /\ worker[c].pc = "read"
             /\ worker'[c].name = worker[c].name /\ worker'[c].status = st
  <2>1. worker[d] \in Work
    BY DEF Inv, TypeOK
  <2> DEFINE w == [worker[d] EXCEPT !.pc = "update", !.status = st, !.event = evt]
  <2>2. w.name = worker[d].name /\ w.status = st
    BY <2>1 DEF Work
  <2>3. Hand(d, w)
    BY <1>2 DEF Prepare
  <2> HIDE DEF w
  <2>4. worker'[d] = w /\ \A e \in Controllers \ {d} : worker'[e] = worker[e]
    BY <2>3, HandFacts DEF Inv
  <2> QED
    BY <1>2, <2>2, <2>4 DEF Keeps, InHand
<1>3. ASSUME NEW d \in Controllers, NEW p, NEW r, NEW evt, Prepare(d, To(d, p, r), evt),
             InHand(d), UNCHANGED log
      PROVE  Result
  <2>1. c = d /\ worker[c].pc = "read" /\ worker'[c].name = worker[c].name
        /\ worker'[c].status = To(d, p, r)
    BY <1>2, <1>3
  <2>2. read(d).status \in Status
    BY <2>1, ReadType
  <2>3. To(d, p, r).expiresAt = read(d).status.expiresAt
    BY <2>2 DEF To, Status
  <2> QED
    BY <1>3, <2>1, <2>3
<1>4. Idle.pc = "idle"
  BY DEF Idle
<1>5. ci \in Controllers /\ "lifecycle" \in Controllers
  BY DEF Controllers, ci
<1>6. CASE World
  BY <1>6, <1>4 DEF World, Tick, TemplateChange, GarbageCollect, WatchDelivers, Restart, Keeps
<1>7. CASE Clients
  BY <1>7, ClientsWrite DEF Keeps
<1>8. CASE Reconcilers
  <2>1. ASSUME NEW d \in Controllers, NEW n \in Names, Get(d, n)
        PROVE  FALSE
    <3> DEFINE w == [Idle EXCEPT !.pc = "read", !.name = n, !.rv = cached[n]]
    <3>1. w.pc = "read" /\ Hand(d, w)
      BY <2>1 DEF Idle, Get
    <3> HIDE DEF w
    <3> QED
      BY <1>1, <3>1
  <2>2. ASSUME NEW d \in Controllers,
               CallFails(d) \/ StatusConflict(d) \/ Notify(d) \/ NotifyLost(d)
        PROVE  FALSE
    BY <1>1, <1>4, <2>2 DEF CallFails, StatusConflict, Notify, NotifyLost
  <2>3. ASSUME NEW d \in Controllers, StatusUpdate(d)
        PROVE  FALSE
    <3> DEFINE w == IF worker[d].event = Nil THEN Idle
                    ELSE [Idle EXCEPT !.pc = "notify", !.name = worker[d].name,
                                      !.rv = Len(log'[worker[d].name]),
                                      !.event = worker[d].event]
    <3>1. Hand(d, w)
      BY <2>3 DEF StatusUpdate
    <3>2. w.pc # "update"
      BY DEF Idle
    <3> HIDE DEF w
    <3> QED
      BY <1>1, <3>1, <3>2
  <2> QED
    BY <1>8, <2>1, <2>2, <2>3 DEF Reconcilers
<1>9. CASE InstanceController
  <2>1. CASE TemplateMissing \/ TemplateNotReady \/ TTLInvalid
    BY <1>3, <1>5, <2>1 DEF TemplateMissing, TemplateNotReady, TTLInvalid, transition, ci
  <2>2. CASE EnsureFails
    BY <1>1, <1>4, <1>5, <2>2 DEF EnsureFails, ci
  <2>3. CASE PodObserved
    BY <1>2, <1>5, <2>3 DEF PodObserved, transition, ci
  <2> QED
    BY <1>9, <2>1, <2>2, <2>3 DEF InstanceController
<1>10. CASE LifecycleController
  <2>1. CASE Expire \/ EnterGrace
    BY <1>3, <1>5, <2>1 DEF Expire, EnterGrace, notifyAndSetPhase
  <2>2. CASE Later
    BY <1>1, <1>4, <1>5, <2>2 DEF Later
  <2> QED
    BY <1>10, <2>1, <2>2 DEF LifecycleController
<1>11. CASE UNCHANGED vars
  BY <1>11 DEF vars, Keeps
<1> QED
  BY <1>6, <1>7, <1>8, <1>9, <1>10, <1>11 DEF Next

(* A log only grows.                                                       *)
LEMMA LogOnlyGrows ==
  ASSUME Inv, ExpiryComesFirst, [Next]_vars
  PROVE  LogGrows
<1>1. CASE UNCHANGED log
  BY <1>1, LogStays
<1>2. ASSUME NEW n \in Names, NEW v \in Versions \cup {Nil}, Put(n, v)
      PROVE  LogGrows
  BY <1>2, PutVersions
<1> QED
  BY <1>1, <1>2, Writing

(* What FenceComesFirst says of one name.                                  *)
FenceOf(n) ==
  /\ last(n) = 1 => \A k \in Kinds : owned[n][k] = 0
  /\ Live(n, 2) =>
       /\ \A k \in Kinds : owned[n][k] \in {0, 2}
       /\ \A i \in 1..last(n) :
            log[n][i] # Nil /\ log[n][i].status.expiresAt # Nil => Fenced(n)
       /\ \A c \in Controllers :
            /\ worker[c].pc = "update" /\ worker[c].name = n
            /\ worker[c].status.expiresAt # Nil
            => Fenced(n)

(* FenceComesFirst speaks of one name at a time.                           *)
LEMMA FenceSplit == FenceComesFirst <=> \A n \in Names : FenceOf(n)
BY DEF FenceComesFirst, FenceOf

(* A first life begins with a client's write, and owns nothing.            *)
LEMMA FenceBegins ==
  ASSUME Inv, ExpiryComesFirst, OneLifeEach, [Next]_vars, NEW n \in Names, FenceOf(n),
         ~Live(n, 2), Live(n, 2)'
  PROVE  FenceOf(n)'
<1>1. last(n) \in Nat /\ last(n) >= 1 /\ log[n][1] = Nil
  BY StoreType DEF OneLifeEach
<1>2. ~(log'[n] = log[n])
  BY DEF Live, store, last
<1>3. CASE Clients
  <2>1. PICK v \in Versions \cup {Nil} : Put(n, v) /\ ClientWrite(n, v)
    <3>1. PICK m \in Names, v \in Versions \cup {Nil} : Put(m, v) /\ ClientWrite(m, v)
      BY <1>2, <1>3, ClientsWrite
    <3>2. m = n
      BY <1>2, <3>1, PutVersions
    <3> QED
      BY <3>1, <3>2
  <2>2. /\ Len(log'[n]) = last(n) + 1 /\ log'[n][last(n) + 1] = v
        /\ \A i \in 1..Len(log'[n]) : \/ i \in 1..last(n) /\ log'[n][i] = log[n][i]
                                      \/ i = last(n) + 1 /\ log'[n][i] = v
    BY <2>1, PutVersions
  <2>3. v # Nil /\ v.uid = 2
    BY <2>2 DEF Live, store, last
  <2>4. store(n) = Nil /\ last(n) = 1
    BY <1>1, <2>1, <2>3 DEF ClientWrite, Live
  <2>5. v.status.expiresAt = Nil
    <3>1. NewStatus.expiresAt = Nil
      BY DEF NewStatus
    <3> QED
      BY <2>1, <2>3, <2>4, <3>1 DEF ClientWrite
  <2>6. \A i \in 1..Len(log'[n]) : log'[n][i] # Nil => log'[n][i].status.expiresAt = Nil
    BY <1>1, <2>2, <2>4, <2>5
  <2>7. \A k \in Kinds : owned'[n][k] = 0
    BY <1>3, <2>4, ClientsWrite DEF FenceOf
  <2>8. \A c \in Controllers : ~(worker'[c].pc = "update" /\ worker'[c].name = n)
    BY <1>3, <2>4, ClientsWrite, ReadLife
  <2> QED
    BY <2>6, <2>7, <2>8 DEF FenceOf, last
<1>4. ASSUME NEW c \in Controllers, StatusUpdate(c)
      PROVE  FALSE
  <2> DEFINE m == worker[c].name
             v == [store(m) EXCEPT !.status = worker[c].status]
  <2>1. /\ m \in Names /\ store(m) # Nil /\ v \in Versions /\ v.uid = store(m).uid
        /\ Put(m, v) \/ UNCHANGED log
    BY <1>4, StatusUpdateWrites
  <2> HIDE DEF m, v
  <2>2. m = n /\ Put(n, v)
    BY <1>2, <2>1, PutVersions
  <2>3. Len(log'[n]) = last(n) + 1 /\ log'[n][last(n) + 1] = v
    BY <2>1, <2>2, PutVersions
  <2>4. v.uid = 2
    BY <2>3 DEF Live, store, last
  <2> QED
    BY <2>1, <2>2, <2>4 DEF Live
<1>5. ASSUME NEW c \in Controllers, Notify(c)
      PROVE  FALSE
  BY <1>2, <1>5 DEF Notify
<1> QED
  BY <1>2, <1>3, <1>4, <1>5, StepKinds DEF HandsOnly

(* While a first life goes on, only what is fenced gets an expiry.         *)
LEMMA FenceGoesOn ==
  ASSUME Inv, ExpiryComesFirst, OneLifeEach, [Next]_vars, NEW n \in Names, FenceOf(n),
         Live(n, 2), Live(n, 2)'
  PROVE  FenceOf(n)'
<1>0. last(n) \in Nat /\ last(n) >= 1
  BY StoreType
<1>1. /\ \A k \in Kinds : owned[n][k] \in {0, 2}
      /\ \A i \in 1..last(n) : log[n][i] # Nil /\ log[n][i].status.expiresAt # Nil => Fenced(n)
      /\ \A c \in Controllers :
           worker[c].pc = "update" /\ worker[c].name = n /\ worker[c].status.expiresAt # Nil
           => Fenced(n)
  BY DEF FenceOf
<1>2. (\A k \in Kinds : owned'[n][k] \in {0, 2}) /\ (Fenced(n) => Fenced(n)')
  BY <1>1, OwnedStep DEF OwnedStays
<1>3. Len(log'[n]) # 1
  <2>1. log[n][1] = Nil /\ store(n) # Nil
    BY DEF OneLifeEach, Live
  <2>2. last(n) # 1
    BY <2>1 DEF store
  <2> SUFFICES ASSUME Len(log'[n]) = 1 PROVE FALSE
    OBVIOUS
  <2>3. last(n) <= 1
    BY LogOnlyGrows DEF LogGrows
  <2> QED
    BY <1>0, <2>2, <2>3
<1>4. ASSUME NEW i \in 1..Len(log'[n]), log'[n][i] # Nil, log'[n][i].status.expiresAt # Nil
      PROVE  Fenced(n)
  <2>1. CASE log'[n] = log[n]
    BY <1>1, <1>4, <2>1 DEF last
  <2>2. ASSUME NEW v \in Versions \cup {Nil}, Put(n, v),
               v # Nil /\ v.status.expiresAt # Nil => Fenced(n)
        PROVE  Fenced(n)
    <3>1. \/ i \in 1..last(n) /\ log'[n][i] = log[n][i]
          \/ log'[n][i] = v
      BY <2>2, PutVersions
    <3> QED
      BY <1>1, <1>4, <2>2, <3>1
  <2>3. CASE Clients /\ log'[n] # log[n]
    <3>1. PICK v \in Versions \cup {Nil} : Put(n, v) /\ ClientWrite(n, v)
      <4>1. PICK m \in Names, v \in Versions \cup {Nil} : Put(m, v) /\ ClientWrite(m, v)
        BY <2>3, ClientsWrite
      <4>2. m = n
        BY <2>3, <4>1, PutVersions
      <4> QED
        BY <4>1, <4>2
    <3>2. v # Nil => v.status = log[n][last(n)].status /\ log[n][last(n)] # Nil
      BY <3>1 DEF ClientWrite, Live, store
    <3>3. last(n) \in 1..last(n)
      BY <1>0
    <3> QED
      BY <1>1, <2>2, <3>1, <3>2, <3>3
  <2>4. ASSUME NEW c \in Controllers, StatusUpdate(c), log'[n] # log[n]
        PROVE  Fenced(n)
    <3> DEFINE m == worker[c].name
               v == [store(m) EXCEPT !.status = worker[c].status]
    <3>1. /\ m \in Names /\ v \in Versions /\ v.status = worker[c].status
          /\ worker[c].pc = "update" /\ (Put(m, v) \/ UNCHANGED log)
      BY <2>4, StatusUpdateWrites
    <3> HIDE DEF v
    <3>2. m = n /\ Put(n, v)
      BY <2>4, <3>1, PutVersions
    <3>3. v # Nil /\ v.status.expiresAt # Nil => Fenced(n)
      BY <1>1, <2>4, <3>1, <3>2
    <3> QED
      BY <2>2, <3>1, <3>2, <3>3
  <2>5. ASSUME NEW c \in Controllers, Notify(c)
        PROVE  log'[n] = log[n]
    BY <2>5 DEF Notify
  <2> QED
    BY <2>1, <2>3, <2>4, <2>5, StepKinds DEF HandsOnly
<1>5. ASSUME NEW c \in Controllers, worker'[c].pc = "update", worker'[c].name = n,
             worker'[c].status.expiresAt # Nil
      PROVE  Fenced(n)'
  <2>1. CASE Keeps(c)
    BY <1>1, <1>2, <1>5, <2>1 DEF Keeps
  <2>2. CASE ~Keeps(c)
    <3>1. /\ UNCHANGED log /\ worker[c].pc = "read" /\ worker[c].name = n
          /\ \/ worker'[c].status.expiresAt = read(c).status.expiresAt
             \/ c = ci /\ InHand(ci) /\ owned' = Ensured(Len(Wanted))
      BY <1>5, <2>2, PreparedExpiry
    <3>2. CASE worker'[c].status.expiresAt = read(c).status.expiresAt
      <4>1. worker[c].rv \in 1..last(n) /\ read(c) # Nil /\ read(c).status.expiresAt # Nil
        BY <1>5, <3>1, <3>2, ReadLife
      <4> QED
        BY <1>1, <1>2, <3>1, <4>1 DEF read
    <3>3. CASE c = ci /\ InHand(ci) /\ owned' = Ensured(Len(Wanted))
      <4>1. Len(Wanted) \in 1..Len(Wanted)
        BY DEF Wanted
      <4> QED
        BY <1>1, <3>1, <3>3, <4>1, EnsuredOwned
    <3> QED
      BY <3>1, <3>2, <3>3
  <2> QED
    BY <2>1, <2>2
<1>6. Len(log'[n]) # 1 /\ (\A i \in 1..Len(log'[n]) :
        log'[n][i] # Nil /\ log'[n][i].status.expiresAt # Nil => Fenced(n)')
  BY <1>2, <1>3, <1>4
<1> QED
  BY <1>2, <1>5, <1>6 DEF FenceOf, last

(* A first life owns its objects before it has an expiry.                  *)
THEOREM FenceOrder == Spec => []FenceComesFirst
<1>1. Init => FenceComesFirst
  <2> SUFFICES ASSUME Init PROVE FenceComesFirst
    OBVIOUS
  <2>1. \A n \in Names : Len(log[n]) = 1 /\ log[n][1] = Nil
    BY DEF Init
  <2>2. \A n \in Names : ~Live(n, 2) /\ \A k \in Kinds : owned[n][k] = 0
    BY <2>1 DEF Init, Live, store, last
  <2> QED
    BY <2>2 DEF FenceComesFirst
<1>2. Inv /\ Events /\ OneLifeEach /\ FenceComesFirst /\ [Next]_vars => FenceComesFirst'
  <2> SUFFICES ASSUME Inv, Events, OneLifeEach, FenceComesFirst, [Next]_vars,
                      NEW n \in Names
               PROVE  FenceOf(n)'
    BY DEF FenceComesFirst, FenceOf
  <2>1. FenceOf(n) /\ ExpiryComesFirst
    BY FenceSplit DEF Events, WorkersAnnounce
  <2>2. CASE ~Live(n, 2)'
    <3>1. last(n) \in Nat /\ last(n) >= 1 /\ Len(log'[n]) = 1 => last(n) = 1
      <4>1. last(n) <= Len(log'[n])
        BY <2>1, LogOnlyGrows DEF LogGrows
      <4> QED
        BY <4>1, StoreType
    <3>2. Len(log'[n]) = 1 => \A k \in Kinds : owned'[n][k] = 0
      BY <2>1, <3>1, OwnedStep, StoreType DEF FenceOf, OwnedStays
    <3> QED
      BY <2>2, <3>2 DEF FenceOf, last
  <2>3. CASE Live(n, 2)'
    BY <2>1, <2>3, FenceBegins, FenceGoesOn
  <2> QED
    BY <2>2, <2>3
<1> QED
  BY <1>1, <1>2, Invariance, EventsInvariance, LivesApart, PTL DEF Spec

(***************************************************************************)
(* The promise, step by step.                                              *)
(***************************************************************************)
Promised == [Promise!Next]_(Promise!vars)

(* What worker c is about to tell, and what delivery d told of n.          *)
AnnouncementOf(c) ==
  [name |-> worker[c].name, uid |-> read(c).uid, write |-> worker[c].rv,
   type |-> worker[c].event]

Told(n, d) ==
  [name |-> n, uid |-> d.uid, write |-> d.rv, type |-> d.type]

(* The announcements on their way, by their workers.                       *)
LEMMA PendingSet ==
  \A a : a \in PendingNow <=>
    \E c \in Controllers : worker[c].pc = "notify" /\ a = AnnouncementOf(c)
BY DEF PendingNow, AnnouncementOf

(* The announcements that were heard, by their place in delivered.         *)
LEMMA HeardSet ==
  \A a : a \in HeardNow <=>
    \E n \in Names : \E i \in DOMAIN delivered[n] : a = Told(n, delivered[n][i])
BY DEF HeardNow, Told

(* The same of the state after a step.                                     *)
LEMMA PendingSetNext ==
  \A a : a \in PendingNow' <=>
    \E c \in Controllers : worker'[c].pc = "notify" /\ a = AnnouncementOf(c)'
BY DEF PendingNow, AnnouncementOf

(* And of what was heard.                                                  *)
LEMMA HeardSetNext ==
  \A a : a \in HeardNow' <=>
    \E n \in Names : \E i \in DOMAIN delivered'[n] : a = Told(n, delivered'[n][i])
BY DEF HeardNow, Told

(* A worker nobody touches tells the same.                                 *)
LEMMA AnnouncementStays ==
  ASSUME Inv, LogGrows, NEW c \in Controllers, worker[c].pc # "idle", Keeps(c)
  PROVE  AnnouncementOf(c)' = AnnouncementOf(c)
BY ReadStays DEF Keeps, AnnouncementOf

(* Only a worker that updates begins to tell.                              *)
LEMMA PendingShrinks ==
  ASSUME Inv, LogGrows,
         \A c \in Controllers : worker'[c].pc = "notify" => Keeps(c)
  PROVE  PendingNow' \subseteq PendingNow
BY PendingSet, PendingSetNext, AnnouncementStays DEF Keeps

(* What the promise sees of a write.                                       *)
LEMMA SeenPut ==
  ASSUME Inv, NEW n \in Names, NEW v \in Versions \cup {Nil}, Put(n, v)
  PROVE  /\ WritesNow' = [WritesNow EXCEPT ![n] = @ + 1]
         /\ ObjectNow' = [ObjectNow EXCEPT ![n] = Seen(v)]
         /\ WritesNow[n] = last(n) /\ ObjectNow[n] = Seen(store(n))
         /\ ObjectNow'[n] = Seen(v)
<1>1. /\ Len(log'[n]) = last(n) + 1 /\ log'[n][last(n) + 1] = v
      /\ \A m \in Names \ {n} : log'[m] = log[m]
  BY PutVersions
<1>2. WritesNow' = [m \in Names |-> Len(log'[m])]
  BY DEF WritesNow, last
<1>3. WritesNow = [m \in Names |-> Len(log[m])]
  BY DEF WritesNow, last
<1>4. ObjectNow' = [m \in Names |-> Seen(log'[m][Len(log'[m])])]
  BY DEF ObjectNow, store, last, Seen
<1>5. ObjectNow = [m \in Names |-> Seen(log[m][Len(log[m])])]
  BY DEF ObjectNow, store, last
<1>6. WritesNow' = [WritesNow EXCEPT ![n] = @ + 1]
  BY <1>1, <1>2, <1>3 DEF last
<1>7. ObjectNow' = [ObjectNow EXCEPT ![n] = Seen(v)]
  BY <1>1, <1>4, <1>5
<1> QED
  BY <1>3, <1>5, <1>6, <1>7 DEF last, store

(* What it sees when nothing is written or told.                           *)
LEMMA SeenStays ==
  /\ UNCHANGED log => UNCHANGED <<ObjectNow, WritesNow>>
  /\ UNCHANGED delivered => UNCHANGED HeardNow
<1>1. UNCHANGED log => UNCHANGED <<ObjectNow, WritesNow>>
  BY DEF ObjectNow, WritesNow, Seen, store, last
<1>2. UNCHANGED delivered => UNCHANGED HeardNow
  BY DEF HeardNow
<1> QED
  BY <1>1, <1>2

(* The same vocabulary on both sides.                                      *)
LEMMA SameWords ==
  /\ \A p : Promise!terminal(p) <=> terminal(p)
  /\ Promise!EventOf = EventOf
BY DEF Promise!terminal, terminal, Promise!EventOf, EventOf

(* A version that is an object is seen as one.                             *)
LEMMA SeenObject ==
  ASSUME NEW v \in Versions
  PROVE  Seen(v) # Nil
<1>1. v # Nil /\ v.uid \in Nat /\ v.status.phase \in Phases
      /\ v.status.expiresAt \in Int \cup {Nil}
  BY VersionsAssumption DEF Versions, Status
<1> QED
  BY <1>1, SeenAssumption DEF Seen

(* Time is the only thing that changes when it does.                       *)
LEMMA TimeStep ==
  ASSUME Inv, [Next]_vars
  PROVE  Tick \/ UNCHANGED now
<1>1. CASE World
  BY <1>1 DEF World, TemplateChange, GarbageCollect, WatchDelivers, Restart
<1>2. CASE Clients
  BY <1>2, ClientsWrite
<1>3. CASE Reconcilers
  BY <1>3
     DEF Reconcilers, Get, CallFails, StatusUpdate, StatusConflict, Notify, NotifyLost
<1>4. CASE InstanceController \/ LifecycleController
  BY <1>4 DEF InstanceController, TemplateMissing, TemplateNotReady, EnsureFails, TTLInvalid,
              PodObserved, LifecycleController, Expire, EnterGrace, Later
<1> QED
  BY <1>1, <1>2, <1>3, <1>4 DEF Next, vars

(* Steps that only change hands let time pass or forget announcements.     *)
LEMMA PromisedHands ==
  ASSUME Inv, [Next]_vars, HandsOnly
  PROVE  Promised
<1>1. UNCHANGED <<log, delivered>> /\ LogGrows
  BY LogStays DEF HandsOnly
<1>2. UNCHANGED <<ObjectNow, WritesNow, HeardNow>>
  BY <1>1, SeenStays
<1>3. CASE Tick
  <2>1. now' = now + 1 /\ UNCHANGED <<log, worker>>
    BY <1>3 DEF Tick
  <2>2. UNCHANGED PendingNow
    BY <2>1 DEF PendingNow, read
  <2> QED
    BY <1>2, <2>1, <2>2 DEF Promised, Promise!Next, Promise!Advance
<1>4. CASE UNCHANGED now
  <2>1. PendingNow' \subseteq PendingNow
    BY <1>1, PendingShrinks DEF HandsOnly, Rests, Decides
  <2>2. Promise!Lose
    BY <1>2, <1>4, <2>1 DEF Promise!Lose
  <2> QED
    BY <2>2 DEF Promised, Promise!Next
<1> QED
  BY <1>3, <1>4, TimeStep

(* A client's write creates, deletes or touches an instance.               *)
LEMMA PromisedClients ==
  ASSUME Inv, Clients
  PROVE  Promised
<1>1. UNCHANGED <<now, worker, delivered>>
  BY ClientsWrite
<1>2. UNCHANGED HeardNow
  BY <1>1, SeenStays
<1>3. CASE UNCHANGED log
  <2>1. UNCHANGED <<ObjectNow, WritesNow, PendingNow>>
    BY <1>1, <1>3, SeenStays DEF PendingNow, read
  <2> QED
    BY <1>1, <1>2, <2>1 DEF Promised, Promise!vars
<1>4. ASSUME NEW n \in Names, NEW v \in Versions \cup {Nil}, Put(n, v), ClientWrite(n, v)
      PROVE  Promised
  <2>1. LogGrows
    BY <1>4, PutVersions
  <2>2. \A a : a \in PendingNow' <=> a \in PendingNow
    BY <1>1, <2>1, PendingSet, PendingSetNext, AnnouncementStays DEF Keeps
  <2>3. UNCHANGED <<now, PendingNow, HeardNow>>
    BY <1>1, <1>2, <2>2
  <2>4. /\ WritesNow' = [WritesNow EXCEPT ![n] = @ + 1]
        /\ ObjectNow' = [ObjectNow EXCEPT ![n] = Seen(v)]
        /\ WritesNow[n] = last(n) /\ ObjectNow[n] = Seen(store(n))
    BY <1>4, SeenPut
  <2>5. store(n) # Nil => Seen(store(n)) # Nil
    BY StoreType, SeenObject
  <2>6. CASE v = Nil
    <3>1. store(n) # Nil /\ Seen(v) = Nil
      BY <1>4, <2>6 DEF ClientWrite, Seen
    <3>2. Promise!Delete(n)
      BY <2>3, <2>4, <2>5, <3>1 DEF Promise!Delete, Promise!Write
    <3> QED
      BY <3>2 DEF Promised, Promise!Next
  <2>7. CASE v # Nil /\ store(n) = Nil
    <3>1. v.uid = last(n) + 1 /\ v.status = NewStatus
      BY <1>4, <2>7 DEF ClientWrite
    <3>2. NewStatus.phase = "" /\ NewStatus.expiresAt = Nil
      BY DEF NewStatus
    <3>3. Seen(v) = [uid |-> last(n) + 1, phase |-> "", expiresAt |-> Nil]
      BY <2>7, <3>1, <3>2 DEF Seen
    <3>4. Seen(store(n)) = Nil
      BY <2>7 DEF Seen
    <3>5. Promise!Create(n)
      BY <2>3, <2>4, <3>3, <3>4 DEF Promise!Create, Promise!Write
    <3> QED
      BY <3>5 DEF Promised, Promise!Next
  <2>8. CASE v # Nil /\ store(n) # Nil
    <3>1. Seen(v) = Seen(store(n))
      BY <1>4, <2>8 DEF ClientWrite, Seen
    <3>2. Promise!Touch(n)
      BY <2>3, <2>4, <2>5, <2>8, <3>1 DEF Promise!Touch, Promise!Write
    <3> QED
      BY <3>2 DEF Promised, Promise!Next
  <2> QED
    BY <2>6, <2>7, <2>8
<1> QED
  BY <1>3, <1>4, ClientsWrite

(* A notification delivers one announcement that was never delivered.      *)
LEMMA PromisedNotify ==
  ASSUME Inv, Events, NEW c \in Controllers, Notify(c)
  PROVE  Promised
<1> DEFINE n == worker[c].name
           l == Len(delivered[n])
           a == AnnouncementOf(c)
<1>1. /\ n \in Names /\ Notifying(c, n) /\ l \in Nat
      /\ DOMAIN delivered[n] = 1..l /\ DOMAIN delivered'[n] = 1..(l + 1)
      /\ \A i \in DOMAIN delivered[n] : delivered'[n][i] = delivered[n][i]
      /\ delivered'[n][l + 1] =
           [rv |-> worker[c].rv, uid |-> read(c).uid, type |-> worker[c].event]
      /\ \A m \in Names \ {n} : delivered'[m] = delivered[m]
      /\ \A d \in Controllers \ {c} : Keeps(d)
      /\ worker'[c].pc = "idle" /\ UNCHANGED <<now, log>> /\ LogGrows
  BY NotifyFacts
<1>2. a.name = n /\ a.write = worker[c].rv
  BY DEF AnnouncementOf
<1>3. a \in PendingNow
  BY <1>1, PendingSet DEF Notifying
<1>4. a \notin HeardNow
  <2> SUFFICES ASSUME NEW m \in Names, NEW i \in DOMAIN delivered[m], a = Told(m, delivered[m][i])
               PROVE  FALSE
    BY HeardSet
  <2>1. m = n /\ delivered[n][i].rv = worker[c].rv
    BY <1>2 DEF Told
  <2> QED
    BY <1>1, <2>1 DEF Events, WorkersAnnounce, News
<1>5. ASSUME NEW d \in Controllers \ {c}, worker[d].pc = "notify"
      PROVE  AnnouncementOf(d) # a
  <2>1. worker[d].name = n => worker[d].rv # worker[c].rv
    BY <1>1, <1>5 DEF Events, WorkersAnnounce, News, Notifying
  <2>2. AnnouncementOf(d).name = worker[d].name /\ AnnouncementOf(d).write = worker[d].rv
    BY DEF AnnouncementOf
  <2> QED
    BY <1>2, <2>1, <2>2
<1>6. \A d \in Controllers : worker'[d].pc = "notify" <=> d # c /\ worker[d].pc = "notify"
  BY <1>1 DEF Keeps
<1>7. \A d \in Controllers \ {c} : worker[d].pc = "notify" => AnnouncementOf(d)' = AnnouncementOf(d)
  BY <1>1, AnnouncementStays
<1>8. ASSUME NEW i \in 1..l
      PROVE  Told(n, delivered'[n][i]) = Told(n, delivered[n][i])
  BY <1>1 DEF Told
<1>9. Told(n, delivered'[n][l + 1]) = a
  BY <1>1 DEF Told, AnnouncementOf
<1>10. \A m \in Names \ {n} : \A i \in DOMAIN delivered[m] : Told(m, delivered'[m][i]) = Told(m, delivered[m][i])
  BY <1>1 DEF Told
<1> HIDE DEF a, l, n
<1>11. \A b : b \in PendingNow' <=> b \in PendingNow /\ b # a
  <2>1. ASSUME NEW b, b \in PendingNow'
        PROVE  b \in PendingNow /\ b # a
    BY <1>5, <1>6, <1>7, <2>1, PendingSet, PendingSetNext
  <2>2. ASSUME NEW b, b \in PendingNow, b # a
        PROVE  b \in PendingNow'
    <3>1. PICK d \in Controllers : worker[d].pc = "notify" /\ b = AnnouncementOf(d)
      BY <2>2, PendingSet
    <3>2. d # c
      BY <2>2, <3>1 DEF a
    <3> QED
      BY <1>6, <1>7, <3>1, <3>2, PendingSetNext
  <2> QED
    BY <2>1, <2>2
<1>12. \A b : b \in HeardNow' <=> b \in HeardNow \/ b = a
  <2>1. ASSUME NEW b, b \in HeardNow'
        PROVE  b \in HeardNow \/ b = a
    <3>1. PICK m \in Names : \E i \in DOMAIN delivered'[m] : b = Told(m, delivered'[m][i])
      BY <2>1, HeardSetNext
    <3>2. PICK i \in DOMAIN delivered'[m] : b = Told(m, delivered'[m][i])
      BY <3>1
    <3>3. CASE m = n /\ i = l + 1
      BY <1>9, <3>2, <3>3
    <3>4. CASE m = n /\ i \in 1..l
      BY <1>1, <1>8, <3>2, <3>4, HeardSet
    <3>5. CASE m # n
      BY <1>1, <1>10, <3>2, <3>5, HeardSet
    <3> QED
      BY <1>1, <3>3, <3>4, <3>5
  <2>2. ASSUME NEW b, b \in HeardNow
        PROVE  b \in HeardNow'
    <3>1. PICK m \in Names : \E i \in DOMAIN delivered[m] : b = Told(m, delivered[m][i])
      BY <2>2, HeardSet
    <3>2. PICK i \in DOMAIN delivered[m] : b = Told(m, delivered[m][i])
      BY <3>1
    <3>3. i \in DOMAIN delivered'[m] /\ Told(m, delivered'[m][i]) = Told(m, delivered[m][i])
      <4>1. CASE m = n
        BY <1>1, <1>8, <4>1
      <4>2. CASE m # n
        BY <1>1, <1>10, <4>2
      <4> QED
        BY <4>1, <4>2
    <3> QED
      BY <3>2, <3>3, HeardSetNext
  <2>3. a \in HeardNow'
    <3>1. l + 1 \in DOMAIN delivered'[n]
      BY <1>1
    <3> QED
      BY <1>1, <1>9, <3>1, HeardSetNext
  <2> QED
    BY <2>1, <2>2, <2>3
<1>13. PendingNow' = PendingNow \ {a} /\ HeardNow' = HeardNow \cup {a}
  BY <1>11, <1>12
<1>14. UNCHANGED <<now, ObjectNow, WritesNow>>
  BY <1>1, SeenStays
<1>15. Promise!Deliver(a)
  BY <1>3, <1>4, <1>13, <1>14 DEF Promise!Deliver
<1> QED
  BY <1>3, <1>15 DEF Promised, Promise!Next

(* An accepted update leaves the other announcements and adds the one it   *)
(* calls for.                                                              *)
LEMMA PendingUpdate ==
  ASSUME Inv, Inv', Events, NEW c \in Controllers, StatusUpdate(c)
  PROVE  LET w == worker[c]
             n == worker[c].name
         IN  /\ w.event = Nil => PendingNow' = PendingNow
             /\ w.event # Nil =>
                  /\ Put(n, [store(n) EXCEPT !.status = w.status])
                  /\ PendingNow' = PendingNow \cup
                       {[name |-> n, uid |-> store(n).uid, write |-> last(n) + 1, type |-> w.event]}
<1> DEFINE w == worker[c]
           n == worker[c].name
           v == [store(n) EXCEPT !.status = w.status]
           w2 == [Idle EXCEPT !.pc = "notify", !.name = n,
                              !.rv = Len(log'[n]), !.event = w.event]
           a == [name |-> n, uid |-> store(n).uid, write |-> last(n) + 1, type |-> w.event]
<1>1. /\ w.pc = "update" /\ n \in Names /\ store(n) = read(c)
      /\ v \in Versions /\ v # Nil /\ v.uid = store(n).uid
      /\ Put(n, v) \/ (UNCHANGED log /\ w.status = store(n).status)
      /\ Hand(c, IF w.event = Nil THEN Idle ELSE w2)
  BY StatusUpdateWrites
<1>2. w.event = eventOfChange(store(n).status.phase, w.status.phase)
  BY <1>1 DEF Events, WorkersAnnounce, Decided
<1>3. /\ worker'[c] = IF w.event = Nil THEN Idle ELSE w2
      /\ \A d \in Controllers \ {c} : Keeps(d)
  BY <1>1, HandFacts DEF Keeps, Inv
<1>4. Idle.pc = "idle" /\ w2.pc = "notify" /\ w2.name = n /\ w2.rv = Len(log'[n])
      /\ w2.event = w.event
  BY DEF Idle
<1>5. w.event # Nil => Put(n, v)
  BY <1>1, <1>2 DEF eventOfChange
<1>6. LogGrows
  BY <1>1, PutVersions, LogStays
<1>7. ASSUME w.event # Nil
      PROVE  AnnouncementOf(c)' = a
  <2>1. Len(log'[n]) = last(n) + 1 /\ log'[n][last(n) + 1] = v
    <3> HIDE DEF v, n
    <3> QED
      BY <1>1, <1>5, <1>7, PutVersions
  <2>2. worker'[c] = w2
    BY <1>3, <1>7
  <2> HIDE DEF w2, v
  <2>3. worker'[c].name = n /\ worker'[c].rv = last(n) + 1 /\ worker'[c].event = w.event
    BY <1>4, <2>1, <2>2
  <2>4. read(c)' = v
    BY <2>1, <2>3 DEF read
  <2> QED
    BY <1>1, <2>3, <2>4 DEF AnnouncementOf
<1> HIDE DEF v, n, w2, a
<1>8. \A d \in Controllers : worker'[d].pc = "notify" <=>
        \/ d # c /\ worker[d].pc = "notify"
        \/ d = c /\ w.event # Nil
  BY <1>3, <1>4 DEF Keeps
<1>9. \A d \in Controllers \ {c} : worker[d].pc = "notify" => AnnouncementOf(d)' = AnnouncementOf(d)
  BY <1>3, <1>6, AnnouncementStays
<1>10. \A b : b \in PendingNow' <=> b \in PendingNow \/ (w.event # Nil /\ b = a)
  <2>1. ASSUME NEW b, b \in PendingNow'
        PROVE  b \in PendingNow \/ (w.event # Nil /\ b = a)
    BY <1>7, <1>8, <1>9, <2>1, PendingSet, PendingSetNext
  <2>2. ASSUME NEW b, b \in PendingNow
        PROVE  b \in PendingNow'
    <3>1. PICK d \in Controllers : worker[d].pc = "notify" /\ b = AnnouncementOf(d)
      BY <2>2, PendingSet
    <3>2. d # c
      BY <1>1, <3>1
    <3> QED
      BY <1>8, <1>9, <3>1, <3>2, PendingSetNext
  <2>3. ASSUME w.event # Nil
        PROVE  a \in PendingNow'
    BY <1>7, <1>8, <2>3, PendingSetNext
  <2> QED
    BY <2>1, <2>2, <2>3
<1>11. w.event = Nil => PendingNow' = PendingNow
  BY <1>10
<1>12. w.event # Nil => PendingNow' = PendingNow \cup {a}
  BY <1>10
<1> QED
  BY <1>5, <1>11, <1>12 DEF v, n, a

(* An accepted update takes one step of the life it was decided for.       *)
LEMMA PromisedUpdate ==
  ASSUME Inv, Inv', Events, NEW c \in Controllers, StatusUpdate(c)
  PROVE  Promised
<1> DEFINE w == worker[c]
           n == worker[c].name
           v == [store(n) EXCEPT !.status = w.status]
           old == store(n).status
           o == Seen(store(n))
           p == Seen(v)
<1>1. /\ w.pc = "update" /\ n \in Names /\ w.status \in Status /\ store(n) = read(c)
      /\ store(n) \in Versions /\ store(n) # Nil
      /\ v \in Versions /\ v # Nil /\ v.uid = store(n).uid /\ v.status = w.status
      /\ AllowedWrite(store(n), v)
      /\ Put(n, v) \/ (UNCHANGED log /\ w.status = old)
      /\ UNCHANGED <<now, delivered>>
  BY StatusUpdateWrites
<1>2. /\ MayFollow(old, w.status, now)
      /\ w.event = eventOfChange(old.phase, w.status.phase)
  BY <1>1 DEF Events, WorkersAnnounce, Decided
<1>3. /\ ~terminal(old.phase)
      /\ w.status.phase = "Expired" => w.status.expiresAt # Nil /\ w.status.expiresAt <= now
      /\ old.expiresAt # Nil => w.status.expiresAt = old.expiresAt
  BY <1>1 DEF Inv, WorkersRemember, ReadAlive, KeepsWhatItRead
<1>4. UNCHANGED <<now, HeardNow>>
  BY <1>1, SeenStays
<1>5. /\ w.event = Nil => PendingNow' = PendingNow
      /\ w.event # Nil =>
           /\ Put(n, v)
           /\ PendingNow' = PendingNow \cup
                {[name |-> n, uid |-> store(n).uid, write |-> last(n) + 1, type |-> w.event]}
  BY PendingUpdate
<1>6. /\ o # Nil /\ p # Nil
      /\ o = [uid |-> store(n).uid, phase |-> old.phase, expiresAt |-> old.expiresAt]
      /\ p = [uid |-> store(n).uid, phase |-> w.status.phase, expiresAt |-> w.status.expiresAt]
  <2>1. o # Nil /\ p # Nil
    BY <1>1, SeenObject
  <2> QED
    BY <1>1, <2>1 DEF Seen
<1>7. /\ o.uid = store(n).uid /\ o.phase = old.phase /\ o.expiresAt = old.expiresAt
      /\ p.uid = store(n).uid /\ p.phase = w.status.phase /\ p.expiresAt = w.status.expiresAt
  BY <1>6
<1>8. CASE ~Put(n, v)
  <2>1. UNCHANGED <<ObjectNow, WritesNow>> /\ PendingNow' = PendingNow
    BY <1>1, <1>5, <1>8, SeenStays
  <2>2. Promise!Lose
    BY <1>4, <2>1 DEF Promise!Lose
  <2> QED
    BY <2>2 DEF Promised, Promise!Next
<1>9. CASE Put(n, v)
  <2>1. /\ WritesNow' = [WritesNow EXCEPT ![n] = @ + 1]
        /\ ObjectNow' = [ObjectNow EXCEPT ![n] = p]
        /\ WritesNow[n] = last(n) /\ ObjectNow[n] = o /\ ObjectNow'[n] = p
    <3> HIDE DEF v, n
    <3> QED
      BY <1>1, <1>9, SeenPut
  <2> HIDE DEF n, v, old, o, p
  <2>2. Promise!Write(n, p)
    BY <2>1 DEF Promise!Write
  <2>3. CASE w.status.phase = old.phase
    <3>1. w.event = Nil /\ w.status.expiresAt = old.expiresAt
      BY <1>2, <2>3 DEF eventOfChange, MayFollow
    <3>2. o = p
      BY <1>6, <2>3, <3>1
    <3>3. Promise!Touch(n)
      BY <1>4, <1>5, <1>6, <2>1, <2>2, <3>1, <3>2 DEF Promise!Touch
    <3> QED
      BY <1>1, <3>3 DEF Promised, Promise!Next
  <2>4. CASE w.status.phase # old.phase
    <3>1. Promise!MayBecome(o, p)
      BY <1>2, <1>3, <1>7, <2>4, SameWords DEF MayFollow, Promise!MayBecome
    <3>2. p.phase = "Pending" => w.event = Nil
      BY <1>2, <1>7 DEF eventOfChange
    <3>3. p.phase # "Pending" => w.event = EventOf[p.phase] /\ w.event # Nil
      <4>1. ASSUME p.phase # "Pending"
            PROVE  p.phase \in DOMAIN EventOf
        BY <1>1, <1>2, <1>7, <4>1 DEF MayFollow, Status, Phases, EventOf
      <4> QED
        BY <1>2, <1>7, <2>4, <4>1, EventTypesOf, EventsAssumption DEF eventOfChange
    <3>4. PendingNow' = PendingNow \cup Promise!Announce(n, p.phase)
      BY <1>5, <1>7, <2>1, <3>2, <3>3, SameWords DEF Promise!Announce
    <3>5. Promise!Become(n)
      BY <1>4, <1>6, <2>1, <2>2, <3>1, <3>4 DEF Promise!Become
    <3> QED
      BY <1>1, <3>5 DEF Promised, Promise!Next
  <2> QED
    BY <2>3, <2>4
<1> QED
  BY <1>8, <1>9

(* The initial state keeps it.                                             *)
LEMMA PromisedInit == Init => Promise!Init
<1> SUFFICES ASSUME Init PROVE Promise!Init
  OBVIOUS
<1>1. \A n \in Names : Len(log[n]) = 1 /\ log[n][1] = Nil
  BY DEF Init
<1>2. ObjectNow = [n \in Names |-> Nil]
  BY <1>1 DEF ObjectNow, Seen, store, last
<1>3. WritesNow = [n \in Names |-> 1]
  BY <1>1 DEF WritesNow, last
<1>4. \A c \in Controllers : worker[c].pc = "idle"
  BY DEF Init, Idle
<1>5. PendingNow = {}
  BY <1>4, PendingSet
<1>6. \A n \in Names : DOMAIN delivered[n] = {}
  BY DEF Init
<1>7. HeardNow = {}
  BY <1>6, HeardSet
<1> QED
  BY <1>2, <1>3, <1>5, <1>7 DEF Init, Promise!Init

(***************************************************************************)
(* The theorems.                                                           *)
(***************************************************************************)

(* Every variable keeps its type, whatever the templates, TTLs and bounds. *)
THEOREM TypeCorrectness == Spec => []TypeOK
<1>1. Inv => TypeOK
  BY DEF Inv
<1> QED
  BY <1>1, Invariance, PTL

(* What a worker has in hand is tied to a version of the log that was read *)
(* when the instance was there (Reconcile's Get and early returns).        *)
THEOREM WorkersMemory == Spec => []WorkersRemember
<1>1. Inv => WorkersRemember
  BY DEF Inv
<1> QED
  BY <1>1, Invariance, PTL

(* No reconcile, however stale the cache it read, moves an instance that   *)
(* has expired or failed (Reconcile's terminal checks, Status().Update).   *)
THEOREM TerminalFinality == Spec => []TerminalIsFinal
<1>1. Inv => TerminalIsFinal
  BY DEF Inv, History
<1> QED
  BY <1>1, Invariance, PTL

(* The expiry of an instance is stored once and never changes after that   *)
(* (ensureExpiry, Status().Update).                                        *)
THEOREM ExpiryStability == Spec => []ExpiryIsWriteOnce
<1>1. Inv => ExpiryIsWriteOnce
  BY DEF Inv, History
<1> QED
  BY <1>1, Invariance, PTL

(* No instance is Expired before its expiry has passed                     *)
(* (LifecycleReconciler.Reconcile).                                        *)
THEOREM ExpiryOnTime == Spec => []NoEarlyExpiry
<1>1. Inv => NoEarlyExpiry
  BY DEF Inv, History
<1> QED
  BY <1>1, Invariance, PTL

(* A worker that decides, and one that is about to tell, is tied to one    *)
(* write and to the event that announces it (transition,                   *)
(* notifyAndSetPhase).                                                     *)
THEOREM WorkersAnnouncements == Spec => []WorkersAnnounce
<1>1. Events => WorkersAnnounce
  BY DEF Events
<1> QED
  BY <1>1, EventsInvariance, PTL

(* The backend is told only of phases that were stored, with the uid of    *)
(* the instance they belong to (Notify comes after Status().Update).       *)
THEOREM EventTruth == Spec => []EventsTellTheTruth
<1>1. Events => EventsTellTheTruth
  BY DEF Events
<1> QED
  BY <1>1, EventsInvariance, PTL

(* No change of phase is told twice, through conflicts, retries, stale     *)
(* caches and restarts (transition's "changed", the Expiring case).        *)
THEOREM EventUniqueness == Spec => []EventsOnce
<1>1. Events => EventsOnce
  BY DEF Events
<1> QED
  BY <1>1, EventsInvariance, PTL

(* Never both instance.failed and instance.expired for one instance,       *)
(* though each controller sends one of them.                               *)
THEOREM FarewellUniqueness == Spec => []OneFarewell
<1>1. Inv /\ Events /\ OneLifeEach => OneFarewell
  BY Farewells
<1> QED
  BY <1>1, Invariance, EventsInvariance, LivesApart, PTL

(* A first life that has an expiry has its Deployment and its NetworkFence *)
(* (ensureWorkload, ensureNetworkFence).                                   *)
THEOREM FirstLifeFence == Spec => []FirstLifeIsFenced
<1>1. Inv /\ FenceComesFirst => FirstLifeIsFenced
  <2> SUFFICES ASSUME Inv, FenceComesFirst, NEW n \in Names,
                      Live(n, 2), store(n).status.expiresAt # Nil
               PROVE  Fenced(n)
    BY DEF FirstLifeIsFenced, Fenced
  <2>1. last(n) \in 1..last(n)
    BY StoreType
  <2> QED
    BY <2>1 DEF FenceComesFirst, Live, store
<1> QED
  BY <1>1, Invariance, FenceOrder, PTL

(* Hands, events and fences fit together in every reachable state (both    *)
(* Reconciles, from their Get to Notify).                                  *)
THEOREM StrengtheningHolds == Spec => []Strengthening
<1>1. WorkersRemember /\ WorkersAnnounce /\ FenceComesFirst => Strengthening
  BY DEF Strengthening
<1> QED
  BY <1>1, WorkersMemory, WorkersAnnouncements, FenceOrder, PTL

(* What is stored and told, seen from outside, is always a step of the     *)
(* atomic lifecycle, though the workers that take it act on stale copies   *)
(* and tell later (the two Reconciles, Status().Update, Notify).           *)
THEOREM Refinement == Spec => ImplementsPhases
<1>1. Init => Promise!Init
  BY PromisedInit
<1>2. Inv /\ Inv' /\ Events /\ [Next]_vars => Promised
  <2> SUFFICES ASSUME Inv, Inv', Events, [Next]_vars
               PROVE  Promised
    OBVIOUS
  <2> QED
    BY StepKinds, PromisedHands, PromisedClients, PromisedUpdate, PromisedNotify
       DEF Events, WorkersAnnounce
<1> QED
  BY <1>1, <1>2, Invariance, EventsInvariance, PTL
     DEF Spec, ImplementsPhases, Promise!Spec, Promised
=============================================================================
