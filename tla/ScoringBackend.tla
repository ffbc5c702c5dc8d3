---------------------------- MODULE ScoringBackend ----------------------------
(***************************************************************************)
(* The scoring backends.  The generic one has webhooks, registered through *)
(* the REST API, and its Notify posts an event to each of them in turn;    *)
(* the one for CTFd has the webhook of its configuration, if any.  The     *)
(* configuration is read when the process starts, which ends at once if    *)
(* it makes no backend.  Both controllers notify, one event at a time      *)
(* each, while hooks are being registered.                                 *)
(***************************************************************************)
EXTENDS Integers, Sequences

CONSTANTS
  Nil,         \* no hook, no call
  Senders,     \* the controllers that notify
  Urls,
  Secrets,
  Bodies,      \* what clients ask to be registered: URL and secret
  Configs,     \* configurations the process may be started with
  MaxEvents,   \* bound on the events of each sender
  MaxRestarts  \* bound on restarts

Config == [name : {"", "generic", "ctfd", "other"},  \* KIMO_BACKEND
           parses : BOOLEAN,                           \* KIMO_BACKEND_CONFIG
           baseUrl : BOOLEAN,                          \* whether it is set
           webhookUrl : Urls \cup {Nil}, apiKey : Secrets]

ASSUME BackendAssumption ==
  /\ Nil \notin Secrets \cup Urls
  /\ Configs \subseteq Config
  /\ Bodies \subseteq Urls \X Secrets
  /\ MaxEvents \in [Senders -> Nat] /\ MaxRestarts \in Nat

VARIABLES
  config,   \* what the process was started with
  hooks,    \* the secret of each registered hook
  call,     \* the call of Notify a sender is in, or Nil
  sent,     \* how many events a sender has begun to send
  inbox,    \* what each URL has received
  restarts

vars == <<config, hooks, call, sent, inbox, restarts>>

Hooks == [Urls -> Secrets \cup {Nil}]

Call == [event : Nat,            \* the number of the event at its sender
         hooks : Hooks,          \* the copy
         todo : SUBSET Urls,     \* hooks still to be called
         errs : SUBSET Urls]     \* hooks whose post returned an error

ASSUME CallAssumption == Nil \notin Call

Post == [from : Senders, event : Nat, secret : Secrets]

BackendTypeOK ==
  /\ config \in Configs
  /\ hooks \in Hooks
  /\ call \in [Senders -> Call \cup {Nil}]
  /\ sent \in [Senders -> Nat]
  /\ inbox \in [Urls -> Seq(Post)]
  /\ restarts \in 0..MaxRestarts

NoHooks == [u \in Urls |-> Nil]

newGenericBackend(cfg) == IF cfg.parses THEN "generic" ELSE Nil

newCTFdBackend(cfg) == IF cfg.parses /\ cfg.baseUrl THEN "ctfd" ELSE Nil

(* The backend that is made; Nil: an error, and the process exits.         *)
New(cfg) ==
  CASE cfg.name \in {"", "generic"} -> newGenericBackend(cfg)
    [] cfg.name = "ctfd"            -> newCTFdBackend(cfg)
    [] OTHER                        -> Nil

Init ==
  /\ config \in Configs
  /\ hooks = NoHooks
  /\ call = [c \in Senders |-> Nil]
  /\ sent = [c \in Senders |-> 0]
  /\ inbox = [u \in Urls |-> << >>]
  /\ restarts = 0

registered(h) == {u \in Urls : h[u] # Nil}

RegisterWebhook(u, secret) ==
  /\ hooks' = [hooks EXCEPT ![u] = secret]
  /\ UNCHANGED <<config, call, sent, inbox, restarts>>

(* For a body that can be decoded.  CTFd's backend registers nothing.      *)
handleConfigureWebhook ==
  /\ New(config) = "generic"
  /\ \E b \in Bodies : RegisterWebhook(b[1], b[2])

(* Fault: CTFd's backend goes by the registered hooks.                     *)
targetsRegistered == hooks

(* The hooks an event goes to.                                             *)
targets ==
  IF New(config) = "ctfd" THEN [u \in Urls |-> IF u = config.webhookUrl THEN config.apiKey ELSE Nil]
  ELSE hooks

(* Fault: hooks that are not registered are called, too.                   *)
NotifyEvery(c) ==
  /\ New(config) # Nil
  /\ call[c] = Nil
  /\ sent[c] < MaxEvents[c]
  /\ sent' = [sent EXCEPT ![c] = @ + 1]
  /\ call' = [call EXCEPT ![c] = [event |-> sent[c] + 1, hooks |-> targets,
                                  todo |-> Urls, errs |-> {}]]
  /\ UNCHANGED <<config, hooks, inbox, restarts>>

(* Hooks that may change are copied under the lock.                        *)
Notify(c) ==
  /\ New(config) # Nil
  /\ call[c] = Nil
  /\ sent[c] < MaxEvents[c]
  /\ sent' = [sent EXCEPT ![c] = @ + 1]
  /\ call' = [call EXCEPT ![c] = [event |-> sent[c] + 1, hooks |-> targets,
                                  todo |-> registered(targets), errs |-> {}]]
  /\ UNCHANGED <<config, hooks, inbox, restarts>>

(* The post of c's event reaches u.                                        *)
Received(c, u) ==
  inbox' = [inbox EXCEPT ![u] =
    Append(@, [from |-> c, event |-> call[c].event, secret |-> call[c].hooks[u]])]

postSigned(c, u) ==
  /\ call[c] # Nil
  /\ u \in call[c].todo
  /\ Received(c, u)
  /\ call' = [call EXCEPT ![c].todo = @ \ {u}]
  /\ UNCHANGED <<config, hooks, sent, restarts>>

(* Fault: the loop ends with the first error.                              *)
postFailsAndStops(c, u) ==
  /\ call[c] # Nil
  /\ u \in call[c].todo
  /\ UNCHANGED inbox
  /\ call' = [call EXCEPT ![c] = [call[c] EXCEPT !.todo = {}, !.errs = @ \cup {u}]]
  /\ UNCHANGED <<config, hooks, sent, restarts>>

(* Fault: a post that was not answered is tried again.                     *)
postFailsAndRepeats(c, u) ==
  /\ call[c] # Nil
  /\ u \in call[c].todo
  /\ u \notin call[c].errs /\ Received(c, u)
  /\ call' = [call EXCEPT ![c].errs = @ \cup {u}]
  /\ UNCHANGED <<config, hooks, sent, restarts>>

(* No answer, or a status of 300 and above: u may have seen the event.     *)
postFails(c, u) ==
  /\ call[c] # Nil
  /\ u \in call[c].todo
  /\ UNCHANGED inbox \/ Received(c, u)
  /\ call' = [call EXCEPT ![c] = [call[c] EXCEPT !.todo = @ \ {u}, !.errs = @ \cup {u}]]
  /\ UNCHANGED <<config, hooks, sent, restarts>>

(* Fault: a call waits for the hooks that failed.                          *)
ReturnDelivered(c) ==
  /\ call[c] # Nil
  /\ call[c].todo = {} /\ call[c].errs = {}
  /\ call' = [call EXCEPT ![c] = Nil]
  /\ UNCHANGED <<config, hooks, sent, inbox, restarts>>

Return(c) ==
  /\ call[c] # Nil
  /\ call[c].todo = {}
  /\ call' = [call EXCEPT ![c] = Nil]
  /\ UNCHANGED <<config, hooks, sent, inbox, restarts>>

(* Hooks live in memory only; the configuration may have been changed.     *)
Restart ==
  /\ restarts < MaxRestarts
  /\ restarts' = restarts + 1
  /\ config' \in Configs
  /\ hooks' = NoHooks
  /\ call' = [c \in Senders |-> Nil]
  /\ UNCHANGED <<sent, inbox>>

Next ==
  \/ handleConfigureWebhook
  \/ \E c \in Senders :
       \/ Notify(c) \/ Return(c)
       \/ \E u \in Urls : postSigned(c, u) \/ postFails(c, u)
  \/ Restart

(* A post ends, one way or the other, and the loop goes on.                *)
Proceeds(c) == Return(c) \/ \E u \in Urls : postSigned(c, u) \/ postFails(c, u)

Spec == Init /\ [][Next]_vars /\ \A c \in Senders : WF_vars(Proceeds(c))

(***************************************************************************)
(* Properties.                                                             *)
(***************************************************************************)

(* u has received the event of c's call, signed with the secret that was   *)
(* registered when the call began.                                         *)
Reached(c, u) ==
  \E i \in DOMAIN inbox[u] :
    inbox[u][i] = [from |-> c, event |-> call[c].event, secret |-> call[c].hooks[u]]

(* The error Notify returns accounts for every hook that was registered    *)
(* when it began: a hook that is not in it has received the event, though  *)
(* other hooks failed before it and secrets were replaced meanwhile (the   *)
(* copy and the loop of Notify).                                           *)
NoneSkipped ==
  [][\A c \in Senders :
       call[c] # Nil /\ call'[c] = Nil /\ restarts' = restarts =>
         \A u \in registered(call[c].hooks) \ call[c].errs : Reached(c, u)]_vars

(* An event that Notify ends without an error has been heard at the        *)
(* webhook of CTFd's configuration, under its key, whichever restarts and  *)
(* registrations there were before (New, newCTFdBackend and its Notify).   *)
CTFdHears ==
  [][\A c \in Senders :
       /\ call[c] # Nil /\ call'[c] = Nil /\ restarts' = restarts
       /\ New(config) = "ctfd" /\ config.webhookUrl # Nil
       /\ call[c].errs = {}
       => \E i \in DOMAIN inbox[config.webhookUrl] :
            inbox[config.webhookUrl][i] =
              [from |-> c, event |-> call[c].event, secret |-> config.apiKey]]_vars

(* A hook hears of no event twice and of the events of one controller in   *)
(* their order, whatever fails (Notify's posts are sequential and are not  *)
(* repeated).                                                              *)
InOrderOnce ==
  \A u \in Urls : \A i, j \in DOMAIN inbox[u] :
    i < j /\ inbox[u][i].from = inbox[u][j].from => inbox[u][i].event < inbox[u][j].event

(* If posts end, so does Notify, and the controller's worker is free again:*)
(* neither failing hooks nor new registrations prolong the loop.           *)
NotifyReturns == \A c \in Senders : call[c] # Nil ~> call[c] = Nil
===============================================================================
