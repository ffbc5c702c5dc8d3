-------------------------- MODULE InstanceLifecycle --------------------------
(***************************************************************************)
(* The life of ChallengeInstances as two reconcilers, the REST API and the *)
(* Kubernetes API server drive it together.                                *)
(*                                                                         *)
(* The Instance Controller and the Lifecycle Controller each run one       *)
(* worker and write the same status.phase of the same objects.  They read  *)
(* them from an informer cache that lags behind the API server, and a      *)
(* status update carries the resourceVersion that was read, so that the    *)
(* API server refuses one computed from a stale read.  Between the read,   *)
(* the update and the notification of the scoring backend anything else    *)
(* may happen: the clock, the other controller, a client, a restart.       *)
(***************************************************************************)
EXTENDS InstanceTypes, Sequences

CONSTANTS
  Names,        \* instance names (one namespace)
  Templates,    \* what the cache may hold of the template; Nil for nothing
  Overrides,    \* values clients write to spec.ttlOverride
  Pods,         \* what pods.Items[0] may show
  MaxTime,      \* bound on the clock
  MaxVersions   \* bound on the versions of one object

ASSUME NamesAssumption == Nil \notin Names
ASSUME TemplatesAssumption == Templates \subseteq Template \cup {Nil}
ASSUME OverridesAssumption == Overrides \subseteq TTL
ASSUME PodsAssumption == Pods \subseteq PodViews
ASSUME BoundsAssumption == MaxTime \in Nat /\ MaxVersions \in Nat

VARIABLES
  now,        \* the clock
  tmpl,       \* the template the instances refer to, as cached
  log,        \* log[n]: every version of object n the API server has stored
  cached,     \* cached[n]: the version of n the informer cache has reached
  owned,      \* owned[n][k]: uid of the owner of n's object of kind k, or 0
  worker,     \* worker[c]: what controller c's worker has in hand
  delivered   \* delivered[n]: the events about n the backend has received

vars == <<now, tmpl, log, cached, owned, worker, delivered>>

(***************************************************************************)
(* The API server's store.  A version is an object or Nil (deleted); its   *)
(* resourceVersion is its place in the log, and the uid of an object is    *)
(* the resourceVersion it was created with.                                *)
(***************************************************************************)
Versions == [uid : Nat, ttlOverride : TTL \cup {Nil}, status : Status]

ASSUME VersionsAssumption == Nil \notin Versions

last(n)  == Len(log[n])
store(n) == log[n][last(n)]

Live(n, uid) == store(n) # Nil /\ store(n).uid = uid

Put(n, v) == log' = [log EXCEPT ![n] = Append(@, v)]

(* An update that changes nothing is accepted and stores no new version.   *)
Update(n, v) == IF v = store(n) THEN UNCHANGED log ELSE Put(n, v)

Room(n) == last(n) < MaxVersions

(***************************************************************************)
(* The workers.                                                            *)
(***************************************************************************)
Controllers == {"challengeinstance", "lifecycle"}

Kinds == {"Deployment", "Service", "NetworkFence"}

Work == [pc : {"idle", "read", "update", "notify"}, name : Names \cup {Nil},
         rv : Nat, status : Status, event : EventTypes \cup {Nil}]

Idle == [pc |-> "idle", name |-> Nil, rv |-> 0, status |-> NewStatus, event |-> Nil]

Hand(c, w) == worker' = [worker EXCEPT ![c] = w]

(* The object controller c has read and works on.                          *)
read(c) == log[worker[c].name][worker[c].rv]

Notification == [rv : Nat, uid : Nat, type : EventTypes]

TypeOK ==
  /\ now \in 0..MaxTime
  /\ tmpl \in Templates
  /\ log \in [Names -> Seq(Versions \cup {Nil})]
  /\ cached \in [Names -> Nat]
  /\ owned \in [Names -> [Kinds -> Nat]]
  /\ worker \in [Controllers -> Work]
  /\ delivered \in [Names -> Seq(Notification)]

Init ==
  /\ now = 0
  /\ tmpl \in Templates
  /\ log = [n \in Names |-> <<Nil>>]
  /\ cached = [n \in Names |-> 1]
  /\ owned = [n \in Names |-> [k \in Kinds |-> 0]]
  /\ worker = [c \in Controllers |-> Idle]
  /\ delivered = [n \in Names |-> <<>>]

(***************************************************************************)
(* The world around the controllers.                                       *)
(***************************************************************************)
Tick ==
  /\ now < MaxTime
  /\ now' = now + 1
  /\ UNCHANGED <<tmpl, log, cached, owned, worker, delivered>>

(* An administrator or the Template Controller changes the template.       *)
TemplateChange ==
  /\ tmpl' \in Templates \ {tmpl}
  /\ UNCHANGED <<now, log, cached, owned, worker, delivered>>

(* The garbage collector deletes objects whose owner is gone.              *)
GarbageCollect(n, k) ==
  /\ owned[n][k] # 0
  /\ ~Live(n, owned[n][k])
  /\ owned' = [owned EXCEPT ![n][k] = 0]
  /\ UNCHANGED <<now, tmpl, log, cached, worker, delivered>>

(* The informer receives the next version of n.                            *)
WatchDelivers(n) ==
  /\ cached[n] < last(n)
  /\ cached' = [cached EXCEPT ![n] = @ + 1]
  /\ UNCHANGED <<now, tmpl, log, owned, worker, delivered>>

(* The manager process stops between two calls and is started again.       *)
Restart ==
  /\ \E c \in Controllers : worker[c] # Idle
  /\ worker' = [c \in Controllers |-> Idle]
  /\ UNCHANGED <<now, tmpl, log, cached, owned, delivered>>

(***************************************************************************)
(* Clients: the REST API's handlers, and kubectl.                          *)
(***************************************************************************)
NewInstance(n, ttl) ==
  /\ store(n) = Nil
  /\ Put(n, [uid |-> last(n) + 1, ttlOverride |-> ttl, status |-> NewStatus])
  /\ UNCHANGED <<now, tmpl, cached, owned, worker, delivered>>

handleCreateInstance(n) ==
  /\ tmpl # Nil /\ tmpl.ready
  /\ Room(n)
  /\ NewInstance(n, Nil)

(* An instance applied to the cluster directly, with any TTL or none,      *)
(* whatever the template is.  (So is one whose template changed after      *)
(* handleCreateInstance had read it.)                                      *)
KubectlCreate(n) == Room(n) /\ \E ttl \in Overrides \cup {Nil} : NewInstance(n, ttl)

handleDeleteInstance(n) ==
  /\ store(n) # Nil
  /\ Room(n)
  /\ Put(n, Nil)
  /\ UNCHANGED <<now, tmpl, cached, owned, worker, delivered>>

(* The handler reads the cache too: a stale read is refused, and changes   *)
(* nothing.                                                                *)
handleExtendInstance(n) ==
  /\ cached[n] = last(n)
  /\ store(n) # Nil
  /\ Room(n)
  /\ \E ttl \in Overrides \ {BadTTL} : Update(n, [store(n) EXCEPT !.ttlOverride = ttl])
  /\ UNCHANGED <<now, tmpl, cached, owned, worker, delivered>>

(***************************************************************************)
(* Both reconcilers: the read that starts a reconcile and the status       *)
(* update and notification that end it.                                    *)
(***************************************************************************)

(* Fault: only the Instance Controller leaves a finished instance alone.   *)
ProceedsOnFinished(c, v) ==
  /\ v # Nil
  /\ c = "challengeinstance" => ~terminal(v.status.phase)
  /\ c = "lifecycle" => v.status.expiresAt # Nil

(* What a reconcile goes on with; the others return at once.               *)
Proceeds(c, v) ==
  /\ v # Nil
  /\ ~terminal(v.status.phase)
  /\ c = "lifecycle" => v.status.expiresAt # Nil

Get(c, n) ==
  /\ worker[c] = Idle
  /\ Proceeds(c, log[n][cached[n]])
  /\ Hand(c, [Idle EXCEPT !.pc = "read", !.name = n, !.rv = cached[n]])
  /\ UNCHANGED <<now, tmpl, log, cached, owned, delivered>>

(* The status to write and the event to send after it.                     *)
Prepare(c, st, evt) ==
  Hand(c, [worker[c] EXCEPT !.pc = "update", !.status = st, !.event = evt])

(* A call to the API server fails: an error ends the reconcile.            *)
CallFails(c) ==
  /\ worker[c].pc \in {"read", "update"}
  /\ Hand(c, Idle)
  /\ UNCHANGED <<now, tmpl, log, cached, owned, delivered>>

(* Fault: the update carries no resourceVersion and always wins, unless    *)
(* the object is gone.                                                     *)
FreshAlways(c) == store(worker[c].name) # Nil

(* The API server accepts an update of the version that was read only.     *)
Fresh(c) == worker[c].rv = last(worker[c].name)

(* Fault: the backend is notified even when the update was refused.        *)
StatusConflictNotifies(c) ==
  /\ worker[c].pc = "update"
  /\ ~Fresh(c)
  /\ Hand(c, IF worker[c].event = Nil THEN Idle
             ELSE [worker[c] EXCEPT !.pc = "notify", !.status = NewStatus])
  /\ UNCHANGED <<now, tmpl, log, cached, owned, delivered>>

(* Status().Update succeeds; there is a notification unless the phase is   *)
(* the one that was read or has no event.  (The update whose answer is     *)
(* lost is this one followed by NotifyLost.)                               *)
StatusUpdate(c) ==
  LET w == worker[c]
      n == w.name
  IN  /\ w.pc = "update"
      /\ Fresh(c)
      /\ Room(n)
      /\ Update(n, [store(n) EXCEPT !.status = w.status])
      /\ Hand(c, IF w.event = Nil THEN Idle
                 ELSE [Idle EXCEPT !.pc = "notify", !.name = n,
                                   !.rv = Len(log'[n]), !.event = w.event])
      /\ UNCHANGED <<now, tmpl, cached, owned, delivered>>

StatusConflict(c) ==
  /\ worker[c].pc = "update"
  /\ ~Fresh(c)
  /\ Hand(c, Idle)
  /\ UNCHANGED <<now, tmpl, log, cached, owned, delivered>>

Notify(c) ==
  LET w == worker[c]
  IN  /\ w.pc = "notify"
      /\ delivered' = [delivered EXCEPT ![w.name] =
                         Append(@, [rv |-> w.rv, uid |-> read(c).uid, type |-> w.event])]
      /\ Hand(c, Idle)
      /\ UNCHANGED <<now, tmpl, log, cached, owned>>

(* Notify's error is discarded: the event is lost.                         *)
NotifyLost(c) ==
  /\ worker[c].pc = "notify"
  /\ Hand(c, Idle)
  /\ UNCHANGED <<now, tmpl, log, cached, owned, delivered>>

(***************************************************************************)
(* The Instance Controller, between its read and its status update.        *)
(***************************************************************************)
transition(st) ==
  Prepare("challengeinstance", st,
          IF st.phase # read("challengeinstance").status.phase
          THEN eventForPhase(st.phase) ELSE Nil)

InHand(c) == worker[c].pc = "read"

(* Moving the status that was read to a phase, nothing else changing.      *)
To(c, p, r) == [read(c).status EXCEPT !.phase = p, !.reason = r]

TemplateMissing ==
  LET c == "challengeinstance"
  IN  /\ InHand(c)
      /\ tmpl = Nil
      /\ transition(To(c, "Failed", "no template"))
      /\ UNCHANGED <<now, tmpl, log, cached, owned, delivered>>

TemplateNotReady ==
  LET c == "challengeinstance"
  IN  /\ InHand(c)
      /\ tmpl # Nil /\ ~tmpl.ready
      /\ transition(To(c, "Pending", "template not ready"))
      /\ UNCHANGED <<now, tmpl, log, cached, owned, delivered>>

(* The kinds an instance of this template needs, in creation order.        *)
Wanted == IF tmpl.exposed THEN <<"Deployment", "Service", "NetworkFence">>
                          ELSE <<"Deployment", "NetworkFence">>

(* ensureWorkload and ensureNetworkFence, up to the i-th object: an object *)
(* of that name is left alone, whoever owns it.                            *)
Ensured(i) ==
  LET c    == "challengeinstance"
      n    == worker[c].name
      made == {Wanted[j] : j \in 1..i}
  IN  [owned EXCEPT ![n] = [k \in Kinds |->
         IF k \in made /\ owned[n][k] = 0 THEN read(c).uid ELSE owned[n][k]]]

(* Fault: a failed creation is swallowed and the reconcile goes on.        *)
EnsureFailsSilently ==
  LET c == "challengeinstance"
  IN  /\ InHand(c)
      /\ tmpl # Nil /\ tmpl.ready
      /\ ~expiryInvalid(read(c).status, read(c).ttlOverride, tmpl)
      /\ \E i \in 1..Len(Wanted) : owned' = Ensured(i)
      /\ transition(determinePhase(
           ensureExpiry(read(c).status, read(c).ttlOverride, tmpl, now), tmpl, "none"))
      /\ UNCHANGED <<now, tmpl, log, cached, delivered>>

(* One of the calls after the template was read fails.                     *)
EnsureFails ==
  LET c == "challengeinstance"
  IN  /\ InHand(c)
      /\ tmpl # Nil /\ tmpl.ready
      /\ \E i \in 1..Len(Wanted) : owned' = Ensured(i)
      /\ Hand(c, Idle)
      /\ UNCHANGED <<now, tmpl, log, cached, delivered>>

TTLInvalid ==
  LET c == "challengeinstance"
  IN  /\ InHand(c)
      /\ tmpl # Nil /\ tmpl.ready
      /\ owned' = Ensured(Len(Wanted))
      /\ expiryInvalid(read(c).status, read(c).ttlOverride, tmpl)
      /\ transition(To(c, "Failed", "invalid TTL"))
      /\ UNCHANGED <<now, tmpl, log, cached, delivered>>

PodObserved ==
  LET c == "challengeinstance"
  IN  /\ InHand(c)
      /\ tmpl # Nil /\ tmpl.ready
      /\ owned' = Ensured(Len(Wanted))
      /\ ~expiryInvalid(read(c).status, read(c).ttlOverride, tmpl)
      /\ \E pod \in Pods :
           transition(determinePhase(
             ensureExpiry(read(c).status, read(c).ttlOverride, tmpl, now), tmpl, pod))
      /\ UNCHANGED <<now, tmpl, log, cached, delivered>>

(***************************************************************************)
(* The Lifecycle Controller, between its read and its status update.       *)
(***************************************************************************)
notifyAndSetPhase(p, r) == Prepare("lifecycle", To("lifecycle", p, r), EventOf[p])

Expire ==
  /\ InHand("lifecycle")
  /\ mustExpire(read("lifecycle").status, now)
  /\ notifyAndSetPhase("Expired", "TTL expired")
  /\ UNCHANGED <<now, tmpl, log, cached, owned, delivered>>

EnterGrace ==
  /\ InHand("lifecycle")
  /\ mustWarn(read("lifecycle").status, now)
  /\ notifyAndSetPhase("Expiring", "grace window")
  /\ UNCHANGED <<now, tmpl, log, cached, owned, delivered>>

(* Nothing to do yet: come back later.                                     *)
Later ==
  /\ InHand("lifecycle")
  /\ ~mustExpire(read("lifecycle").status, now)
  /\ ~mustWarn(read("lifecycle").status, now)
  /\ Hand("lifecycle", Idle)
  /\ UNCHANGED <<now, tmpl, log, cached, owned, delivered>>

(***************************************************************************)
(* The specification.                                                      *)
(***************************************************************************)
World ==
  \/ Tick
  \/ TemplateChange
  \/ \E n \in Names, k \in Kinds : GarbageCollect(n, k)
  \/ \E n \in Names : WatchDelivers(n)
  \/ Restart

Clients == \E n \in Names :
  \/ handleCreateInstance(n)
  \/ KubectlCreate(n)
  \/ handleDeleteInstance(n)
  \/ handleExtendInstance(n)

Reconcilers == \E c \in Controllers :
  \/ \E n \in Names : Get(c, n)
  \/ CallFails(c)
  \/ StatusUpdate(c)
  \/ StatusConflict(c)
  \/ Notify(c)
  \/ NotifyLost(c)

InstanceController ==
  \/ TemplateMissing
  \/ TemplateNotReady
  \/ EnsureFails
  \/ TTLInvalid
  \/ PodObserved

LifecycleController ==
  \/ Expire
  \/ EnterGrace
  \/ Later

Next == World \/ Clients \/ Reconcilers \/ InstanceController \/ LifecycleController

Spec == Init /\ [][Next]_vars

(***************************************************************************)
(* Safety.  The log of an object is what every watcher of it sees: two     *)
(* versions that follow each other are one object before and after a write.*)
(***************************************************************************)
Writes(n) == {i \in 1..(last(n) - 1) : log[n][i] # Nil /\ log[n][i + 1] # Nil}

(* A finished instance stays as it ended: no reconcile that read it before *)
(* it expired or failed can move it again, or change its reason, expiry or *)
(* count (Reconcile's terminal checks and the resourceVersion of           *)
(* Status().Update).                                                       *)
TerminalIsFinal ==
  \A n \in Names : \A i \in Writes(n) :
    terminal(log[n][i].status.phase) => log[n][i + 1].status = log[n][i].status

(* The expiry of an instance is decided once: two reconciles that both     *)
(* found none cannot both store theirs, and no later write of either       *)
(* controller moves or loses it (ensureExpiry, Status().Update).           *)
ExpiryIsWriteOnce ==
  \A n \in Names : \A i \in Writes(n) :
    log[n][i].status.expiresAt # Nil =>
      /\ log[n][i + 1].status.expiresAt = log[n][i].status.expiresAt
      /\ log[n][i + 1].status.startedAt = log[n][i].status.startedAt

(* No instance is Expired before its time, whichever version of it the     *)
(* Lifecycle Controller looked at (LifecycleReconciler.Reconcile).         *)
NoEarlyExpiry ==
  \A n \in Names : \A i \in 1..last(n) :
    log[n][i] # Nil /\ log[n][i].status.phase = "Expired" =>
      log[n][i].status.expiresAt # Nil /\ log[n][i].status.expiresAt <= now

(* Version i of an object came with a change of phase that events of this  *)
(* type announce.                                                          *)
Announces(type, versions, i) ==
  /\ i \in 2..Len(versions) /\ versions[i - 1] # Nil /\ versions[i] # Nil
  /\ versions[i].status.phase # versions[i - 1].status.phase
  /\ versions[i].status.phase \in DOMAIN EventOf
  /\ EventOf[versions[i].status.phase] = type

(* What the backend is told has happened: the event names a phase the      *)
(* object really entered, with the write the event stands for (transition  *)
(* and notifyAndSetPhase notify after the update).                         *)
EventsTellTheTruth ==
  \A n \in Names : \A i \in DOMAIN delivered[n] :
    LET e == delivered[n][i]
    IN  Announces(e.type, log[n], e.rv) /\ log[n][e.rv].uid = e.uid

(* One phase change is told at most once, through conflicts, retries and   *)
(* restarts (transition's "changed", the Expiring case of the switch).     *)
EventsOnce ==
  \A n \in Names : \A i, j \in DOMAIN delivered[n] :
    delivered[n][i].rv = delivered[n][j].rv => i = j

(* The backend hears of at most one end of an instance: never both         *)
(* instance.failed and instance.expired, though each controller sends one. *)
OneFarewell ==
  \A n \in Names : \A i, j \in DOMAIN delivered[n] :
    /\ delivered[n][i].uid = delivered[n][j].uid
    /\ {delivered[n][i].type, delivered[n][j].type} \subseteq
         {EventOf["Failed"], EventOf["Expired"]}
    => i = j

(* An instance whose name was never used before has its Deployment and its *)
(* NetworkFence from the moment its expiry is stored, whatever failed on   *)
(* the way (ensureWorkload and ensureNetworkFence come before transition). *)
FirstLifeIsFenced ==
  \A n \in Names :
    Live(n, 2) /\ store(n).status.expiresAt # Nil =>
      owned[n]["Deployment"] = 2 /\ owned[n]["NetworkFence"] = 2

(***************************************************************************)
(* Why these hold: what a worker has in hand is tied to a version of the   *)
(* log, however old, and not to whatever is stored when it writes.         *)
(***************************************************************************)
InRange ==
  /\ \A n \in Names : cached[n] \in 1..last(n)
  /\ \A c \in Controllers : worker[c].pc # "idle" =>
       /\ worker[c].name \in Names
       /\ worker[c].rv \in 1..last(worker[c].name)
       /\ read(c) # Nil
       /\ worker[c].pc = "notify" => worker[c].event # Nil

(* A worker that goes on has read a living instance.                       *)
ReadAlive ==
  \A c \in Controllers : worker[c].pc \in {"read", "update"} =>
    /\ ~terminal(read(c).status.phase)
    /\ c = "lifecycle" => read(c).status.expiresAt # Nil

(* What it will write keeps the expiry it has read, and ends an instance   *)
(* only after that.                                                        *)
KeepsWhatItRead ==
  \A c \in Controllers : worker[c].pc = "update" =>
    /\ read(c).status.expiresAt # Nil =>
         /\ worker[c].status.expiresAt = read(c).status.expiresAt
         /\ worker[c].status.startedAt = read(c).status.startedAt
    /\ worker[c].status.phase = "Expired" =>
         /\ worker[c].status.expiresAt # Nil
         /\ worker[c].status.expiresAt <= now

(* Every worker in the middle of a reconcile acts on an instance that was  *)
(* alive in the version it read, and what it is about to write keeps the   *)
(* expiry of that version (the two Reconciles, up to Status().Update).     *)
WorkersRemember == InRange /\ ReadAlive /\ KeepsWhatItRead

(* The event that goes with a change of phase, if any.                     *)
eventOfChange(p, q) == IF q = p \/ q = "Pending" THEN Nil ELSE EventOf[q]

(* What a status may be written as after it was read.                      *)
MayFollow(old, new, t) ==
  /\ new.phase \notin {"", "Terminating"}
  /\ new.phase \in {"Pending", "Failed"} \/ new.expiresAt # Nil
  /\ new.expiresAt # old.expiresAt =>
       /\ new.phase # old.phase
       /\ new.phase \in {"Creating", "Running", "Unhealthy", "Failed"}
  /\ new.phase = "Expiring" => new.expiresAt <= t + GraceWindow

(* The expiry is there before anything that needs it.                      *)
ExpiryComesFirst ==
  \A n \in Names : \A i \in 1..last(n) :
    log[n][i] # Nil => \/ log[n][i].status.phase \in {"", "Pending", "Failed"}
                       \/ log[n][i].status.expiresAt # Nil

(* A worker is about to store a step from what it has read, with the event *)
(* that announces it.                                                      *)
Decided ==
  \A c \in Controllers : worker[c].pc = "update" =>
    /\ MayFollow(read(c).status, worker[c].status, now)
    /\ worker[c].event = eventOfChange(read(c).status.phase, worker[c].status.phase)

Notifying(c, n) == worker[c].pc = "notify" /\ worker[c].name = n

(* A worker is about to tell what was stored, and what nobody else tells   *)
(* or has told.                                                            *)
News ==
  \A n \in Names : \A c \in Controllers : Notifying(c, n) =>
    /\ Announces(worker[c].event, log[n], worker[c].rv)
    /\ \A i \in DOMAIN delivered[n] : delivered[n][i].rv # worker[c].rv
    /\ \A d \in Controllers \ {c} : Notifying(d, n) => worker[d].rv # worker[c].rv

(* From the decision to the notification, an event stays tied to the one   *)
(* write it announces (transition and notifyAndSetPhase: phase and event   *)
(* are chosen together, and sent only after the update was accepted).      *)
WorkersAnnounce == ExpiryComesFirst /\ Decided /\ News

(* The versions of a name tell its instances apart, and an instance that   *)
(* has ended stays so through every later write of either controller, not  *)
(* only the next (the uid of an object, Reconcile's terminal checks).      *)
OneLifeEach ==
  \A n \in Names :
    /\ log[n][1] = Nil
    /\ \A i \in Writes(n) : log[n][i + 1].uid = log[n][i].uid
    /\ \A i \in 1..last(n) : log[n][i] # Nil => log[n][i].uid \in 2..i
    /\ \A j \in 1..last(n) : \A i \in 1..j : log[n][i] # Nil /\ log[n][j] # Nil =>
         /\ log[n][i].uid <= log[n][j].uid
         /\ terminal(log[n][i].status.phase) /\ log[n][i].uid = log[n][j].uid =>
              log[n][j].status = log[n][i].status

Fenced(n) == owned[n]["Deployment"] = 2 /\ owned[n]["NetworkFence"] = 2

(* Nobody else owns the objects of a first life, and they are there before *)
(* its expiry is stored or about to be (ensureWorkload and                 *)
(* ensureNetworkFence end the reconcile unless they succeed).              *)
FenceComesFirst ==
  \A n \in Names :
    /\ last(n) = 1 => \A k \in Kinds : owned[n][k] = 0
    /\ Live(n, 2) =>
         /\ \A k \in Kinds : owned[n][k] \in {0, 2}
         /\ \A i \in 1..last(n) :
              log[n][i] # Nil /\ log[n][i].status.expiresAt # Nil => Fenced(n)
         /\ \A c \in Controllers :
              /\ worker[c].pc = "update" /\ worker[c].name = n
              /\ worker[c].status.expiresAt # Nil
              => Fenced(n)

(* What the properties above rest on: what is in a worker's hand, between  *)
(* its read and its update and between the update and Notify, fits what    *)
(* was stored, told and created (both Reconciles, transition,              *)
(* notifyAndSetPhase and the ensure functions).                            *)
Strengthening == WorkersRemember /\ WorkersAnnounce /\ FenceComesFirst

(***************************************************************************)
(* The promise: all of the above looks, to those who watch the instances   *)
(* and those who hear of them, like the one-piece steps of InstancePhases. *)
(***************************************************************************)
ASSUME SeenAssumption == Nil \notin [uid : Nat, phase : Phases, expiresAt : Int \cup {Nil}]

Seen(v) == IF v = Nil THEN Nil
           ELSE [uid |-> v.uid, phase |-> v.status.phase, expiresAt |-> v.status.expiresAt]

ObjectNow == [n \in Names |-> Seen(store(n))]

WritesNow == [n \in Names |-> last(n)]

(* What the workers are about to tell.                                     *)
PendingNow ==
  {[name |-> worker[c].name, uid |-> read(c).uid, write |-> worker[c].rv,
    type |-> worker[c].event] : c \in {d \in Controllers : worker[d].pc = "notify"}}

HeardNow ==
  UNION {{[name |-> n, uid |-> delivered[n][i].uid, write |-> delivered[n][i].rv,
           type |-> delivered[n][i].type] : i \in DOMAIN delivered[n]} : n \in Names}

Promise == INSTANCE InstancePhases WITH
  object <- ObjectNow, writes <- WritesNow, pending <- PendingNow, heard <- HeardNow

(* The two controllers, though each acts on what a lagging cache showed it *)
(* and writes later, implement the atomic lifecycle: a phase is always     *)
(* left for the next one from the phase that was current, at a time that   *)
(* allows it, and is announced after it was stored, at most once.          *)
ImplementsPhases == Promise!Spec
=============================================================================
