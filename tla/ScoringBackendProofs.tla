------------------------- MODULE ScoringBackendProofs -------------------------
(***************************************************************************)
(* Proofs about ScoringBackend, for any senders, hooks, secrets and        *)
(* configurations.                                                         *)
(***************************************************************************)
EXTENDS ScoringBackend, TLAPS

(* A hook of a running call is still to be called, has failed or has the   *)
(* event.                                                                  *)
Accounted ==
  \A c \in Senders : call[c] # Nil =>
    /\ call[c].todo \subseteq registered(call[c].hooks)
    /\ \A u \in registered(call[c].hooks) : u \in call[c].todo \cup call[c].errs \/ Reached(c, u)

(* Nothing was received that was not begun to be sent, and a hook that is  *)
(* still to be called has seen earlier events of that sender only.         *)
Numbered ==
  /\ \A u \in Urls : \A i \in DOMAIN inbox[u] : inbox[u][i].event <= sent[inbox[u][i].from]
  /\ \A c \in Senders : call[c] # Nil =>
       /\ call[c].event = sent[c]
       /\ \A u \in call[c].todo : \A i \in DOMAIN inbox[u] :
            inbox[u][i].from = c => inbox[u][i].event < sent[c]

BackendInv == BackendTypeOK /\ Accounted /\ Numbered /\ InOrderOnce

(* An inbox holds posts, and a call's hooks are URLs.                      *)
LEMMA Parts ==
  ASSUME BackendTypeOK
  PROVE  /\ \A u \in Urls : inbox[u] \in Seq(Post)
         /\ \A u \in Urls : \A i \in DOMAIN inbox[u] :
              inbox[u][i].from \in Senders /\ inbox[u][i].event \in Nat
         /\ \A c \in Senders : call[c] # Nil => call[c] \in Call
         /\ \A c \in Senders : sent[c] \in Nat
<1>1. \A u \in Urls : inbox[u] \in Seq(Post)
  BY DEF BackendTypeOK
<1>2. ASSUME NEW s \in Seq(Post), NEW i \in DOMAIN s
      PROVE  s[i].from \in Senders /\ s[i].event \in Nat
  <2>1. s[i] \in Post
    OBVIOUS
  <2> QED
    BY <2>1 DEF Post
<1>3. /\ \A c \in Senders : call[c] # Nil => call[c] \in Call
      /\ \A c \in Senders : sent[c] \in Nat
  BY DEF BackendTypeOK
<1> QED
  BY <1>1, <1>2, <1>3

(* Registering a hook, returning and restarting touch no inbox.            *)
LEMMA QuietStep ==
  ASSUME BackendInv,
         \/ handleConfigureWebhook
         \/ \E c \in Senders : Return(c)
         \/ Restart
  PROVE  BackendInv'
<1> USE DEF BackendInv
<1>1. ASSUME NEW b \in Bodies, RegisterWebhook(b[1], b[2]) PROVE BackendInv'
  <2>1. b[1] \in Urls /\ b[2] \in Secrets
    BY BackendAssumption
  <2>2. BackendTypeOK'
    BY <1>1, <2>1 DEF RegisterWebhook, BackendTypeOK, Hooks
  <2>3. Accounted' /\ Numbered' /\ InOrderOnce'
    BY <1>1 DEF RegisterWebhook, Accounted, Numbered, InOrderOnce, Reached, registered
  <2> QED
    BY <2>2, <2>3
<1>2. ASSUME NEW c \in Senders, Return(c) PROVE BackendInv'
  <2>1. \A d \in Senders : call'[d] = IF d = c THEN Nil ELSE call[d]
    BY <1>2 DEF Return, BackendTypeOK
  <2>2. BackendTypeOK'
    BY <1>2 DEF Return, BackendTypeOK
  <2>3. Accounted'
    BY <1>2, <2>1 DEF Return, Accounted, Reached, registered
  <2>4. Numbered' /\ InOrderOnce'
    BY <1>2, <2>1 DEF Return, Numbered, InOrderOnce
  <2> QED
    BY <2>2, <2>3, <2>4
<1>3. ASSUME Restart PROVE BackendInv'
  <2>1. BackendTypeOK'
    BY <1>3, BackendAssumption DEF Restart, BackendTypeOK, NoHooks, Hooks
  <2>2. Accounted' /\ Numbered' /\ InOrderOnce'
    BY <1>3 DEF Restart, Accounted, Numbered, InOrderOnce
  <2> QED
    BY <2>1, <2>2
<1> QED
  BY <1>1, <1>2, <1>3 DEF handleConfigureWebhook

(* A call begins with the hooks that are registered, all of them to do.    *)
LEMMA NotifyStep ==
  ASSUME BackendInv, NEW c \in Senders, Notify(c)
  PROVE  BackendInv'
<1> USE DEF BackendInv
<1> DEFINE new == [event |-> sent[c] + 1, hooks |-> targets,
                   todo |-> registered(targets), errs |-> {}]
<1>1. new \in Call
  <2>1. targets \in Hooks
    BY BackendAssumption DEF BackendTypeOK, targets, Hooks, Config
  <2> QED
    BY <2>1 DEF BackendTypeOK, Call, registered
<1>2. /\ \A d \in Senders : call'[d] = IF d = c THEN new ELSE call[d]
      /\ \A d \in Senders : sent'[d] = IF d = c THEN sent[c] + 1 ELSE sent[d]
      /\ inbox' = inbox
  BY DEF Notify, BackendTypeOK
<1>3. BackendTypeOK'
  <2>1. sent' \in [Senders -> Nat]
    BY DEF Notify, BackendTypeOK
  <2>2. call' \in [Senders -> Call \cup {Nil}]
    BY <1>1 DEF Notify, BackendTypeOK
  <2> QED
    BY <2>1, <2>2 DEF Notify, BackendTypeOK
<1>4. Accounted'
  <2> SUFFICES ASSUME NEW d \in Senders, call'[d] # Nil
               PROVE  /\ call'[d].todo \subseteq registered(call'[d].hooks)
                      /\ \A u \in registered(call'[d].hooks) :
                           u \in call'[d].todo \cup call'[d].errs \/ Reached(d, u)'
    BY DEF Accounted, registered
  <2>1. CASE d = c
    BY <1>2, <2>1
  <2>2. CASE d # c
    BY <1>2, <2>2 DEF Accounted, Reached
  <2> QED
    BY <2>1, <2>2
<1>5. Numbered' /\ InOrderOnce'
  <2>1. registered(targets) \subseteq Urls
    BY DEF registered
  <2>2. \A d \in Senders : call[d] # Nil => call[d].todo \subseteq Urls
    BY Parts DEF Call
  <2> QED
    BY <1>2, <2>1, <2>2, Parts DEF Numbered, InOrderOnce
<1> QED
  BY <1>3, <1>4, <1>5

(* What a post of c's event to u consists of.                              *)
PostOf(c, u) == [from |-> c, event |-> call[c].event, secret |-> call[c].hooks[u]]

(* A post reaches its hook or not; the hook is done with, and is among the *)
(* errors if it was not reached.                                           *)
LEMMA PostEffect ==
  ASSUME BackendTypeOK, NEW c \in Senders, NEW u \in Urls, postSigned(c, u) \/ postFails(c, u)
  PROVE  /\ call[c] # Nil /\ call[c] \in Call /\ u \in call[c].todo
         /\ sent' = sent /\ UNCHANGED <<config, hooks, restarts>>
         /\ \E after \in Call :
              /\ after.event = call[c].event /\ after.hooks = call[c].hooks
              /\ after.todo = call[c].todo \ {u} /\ call[c].errs \subseteq after.errs
              /\ call' = [call EXCEPT ![c] = after]
              /\ \/ inbox' = [inbox EXCEPT ![u] = Append(@, PostOf(c, u))]
                 \/ inbox' = inbox /\ u \in after.errs
<1>0. /\ call[c] # Nil /\ call[c] \in Call /\ u \in call[c].todo
      /\ sent' = sent /\ UNCHANGED <<config, hooks, restarts>>
  BY Parts DEF postSigned, postFails
<1>1. CASE postSigned(c, u)
  <2> DEFINE n == [call[c] EXCEPT !.todo = @ \ {u}]
  <2>1. /\ n \in Call /\ n.event = call[c].event /\ n.hooks = call[c].hooks
        /\ n.todo = call[c].todo \ {u} /\ n.errs = call[c].errs
    BY <1>0 DEF Call
  <2>2. call' = [call EXCEPT ![c] = n] /\ inbox' = [inbox EXCEPT ![u] = Append(@, PostOf(c, u))]
    BY <1>1 DEF postSigned, Received, PostOf
  <2> HIDE DEF n
  <2> QED
    BY <1>0, <2>1, <2>2
<1>2. CASE postFails(c, u)
  <2> DEFINE n == [call[c] EXCEPT !.todo = @ \ {u}, !.errs = @ \cup {u}]
  <2>1. /\ n \in Call /\ n.event = call[c].event /\ n.hooks = call[c].hooks
        /\ n.todo = call[c].todo \ {u} /\ n.errs = call[c].errs \cup {u}
    BY <1>0 DEF Call
  <2>2. /\ call' = [call EXCEPT ![c] = n]
        /\ inbox' = inbox \/ inbox' = [inbox EXCEPT ![u] = Append(@, PostOf(c, u))]
    <3>1. call' = [call EXCEPT ![c] = n]
      BY <1>2, Zenon DEF postFails
    <3>2. inbox' = inbox \/ inbox' = [inbox EXCEPT ![u] = Append(@, PostOf(c, u))]
      BY <1>2, Zenon DEF postFails, Received, PostOf
    <3> QED
      BY <3>1, <3>2
  <2> HIDE DEF n
  <2> QED
    BY <1>0, <2>1, <2>2
<1> QED
  BY <1>0, <1>1, <1>2

(* A post keeps the invariant.                                             *)
LEMMA PostStep ==
  ASSUME BackendInv, NEW c \in Senders, NEW u \in Urls, postSigned(c, u) \/ postFails(c, u)
  PROVE  BackendInv'
<1> USE DEF BackendInv
<1> DEFINE post == PostOf(c, u)
<1>1. /\ call[c] # Nil /\ call[c] \in Call /\ u \in call[c].todo
      /\ sent' = sent /\ UNCHANGED <<config, hooks, restarts>>
  BY PostEffect
<1>2. PICK after \in Call :
        /\ after.event = call[c].event /\ after.hooks = call[c].hooks
        /\ after.todo = call[c].todo \ {u} /\ call[c].errs \subseteq after.errs
        /\ call' = [call EXCEPT ![c] = after]
        /\ \/ inbox' = [inbox EXCEPT ![u] = Append(@, post)]
           \/ inbox' = inbox /\ u \in after.errs
  BY PostEffect
<1>3. \A d \in Senders : call'[d] = IF d = c THEN after ELSE call[d]
  BY <1>2 DEF BackendTypeOK
<1>4. /\ \A d \in Senders : call[d] # Nil => call[d].todo \subseteq Urls
      /\ sent[c] \in Nat
  BY Parts DEF Call
<1>5. post \in Post /\ post.from = c /\ post.event = sent[c]
  <2>1. u \in registered(call[c].hooks) /\ call[c].event = sent[c]
    BY <1>1, Parts DEF Accounted, Numbered
  <2>2. call[c].hooks[u] \in Secrets /\ call[c].event \in Nat
    BY <1>1, <2>1 DEF registered, Call, Hooks
  <2> QED
    BY <2>1, <2>2 DEF Post, PostOf
<1> HIDE DEF post
<1>6. \A v \in Urls :
        \/ inbox'[v] = inbox[v]
        \/ v = u /\ inbox'[v] = Append(inbox[v], post)
  BY <1>2 DEF BackendTypeOK
<1>7. BackendTypeOK'
  <2>1. Append(inbox[u], post) \in Seq(Post)
    BY <1>5, Parts
  <2>2. inbox' \in [Urls -> Seq(Post)]
    BY <1>2, <2>1 DEF BackendTypeOK
  <2>3. call' \in [Senders -> Call \cup {Nil}]
    BY <1>2 DEF BackendTypeOK
  <2> QED
    BY <1>1, <2>2, <2>3 DEF BackendTypeOK
<1>8. \A v \in Urls : \A i \in DOMAIN inbox'[v] :
        \/ i \in DOMAIN inbox[v] /\ inbox'[v][i] = inbox[v][i]
        \/ v = u /\ i = Len(inbox[v]) + 1 /\ inbox'[v][i] = post
  BY <1>5, <1>6, Parts
<1>9. \A v \in Urls : \A i \in DOMAIN inbox[v] :
        i \in DOMAIN inbox'[v] /\ inbox'[v][i] = inbox[v][i]
  <2>1. ASSUME NEW s \in Seq(Post), NEW i \in DOMAIN s
        PROVE  i \in DOMAIN Append(s, post) /\ Append(s, post)[i] = s[i]
    BY <1>5
  <2> QED
    BY <1>6, <2>1, Parts
<1>10. Accounted'
  <2> SUFFICES ASSUME NEW d \in Senders, call'[d] # Nil
               PROVE  /\ call'[d].todo \subseteq registered(call'[d].hooks)
                      /\ \A v \in registered(call'[d].hooks) :
                           v \in call'[d].todo \cup call'[d].errs \/ Reached(d, v)'
    BY DEF Accounted, registered
  <2>1. call[d] # Nil /\ call'[d].hooks = call[d].hooks /\ call'[d].event = call[d].event
    BY <1>1, <1>2, <1>3
  <2>2. \A v \in Urls : Reached(d, v) => Reached(d, v)'
    BY <1>9, <2>1 DEF Reached
  <2>3. u \in call'[c].errs \/ Reached(c, u)'
    <3>1. CASE inbox' = inbox /\ u \in after.errs
      BY <1>3, <3>1
    <3>2. CASE inbox' = [inbox EXCEPT ![u] = Append(@, post)]
      <4>1. inbox'[u] = Append(inbox[u], post) /\ inbox[u] \in Seq(Post)
        BY <3>2, Parts DEF BackendTypeOK
      <4>2. Len(inbox[u]) + 1 \in DOMAIN inbox'[u] /\ inbox'[u][Len(inbox[u]) + 1] = post
        BY <1>5, <4>1
      <4>3. post = [from |-> c, event |-> call'[c].event, secret |-> call'[c].hooks[u]]
        BY <1>2, <1>3 DEF post, PostOf
      <4> QED
        BY <4>2, <4>3 DEF Reached
    <3> QED
      BY <1>2, <3>1, <3>2
  <2>4. registered(call[d].hooks) \subseteq Urls
    BY DEF registered
  <2>5. CASE d # c
    BY <1>3, <2>1, <2>2, <2>4, <2>5 DEF Accounted
  <2>6. CASE d = c
    BY <1>2, <1>3, <2>1, <2>2, <2>3, <2>4, <2>6 DEF Accounted
  <2> QED
    BY <2>5, <2>6
<1>11. Numbered'
  <2>1. ASSUME NEW v \in Urls, NEW i \in DOMAIN inbox'[v]
        PROVE  inbox'[v][i].event <= sent'[inbox'[v][i].from]
    BY <1>1, <1>4, <1>5, <1>8, <2>1 DEF Numbered
  <2>2. ASSUME NEW d \in Senders, call'[d] # Nil
        PROVE  /\ call'[d].event = sent'[d]
               /\ \A v \in call'[d].todo : \A i \in DOMAIN inbox'[v] :
                    inbox'[v][i].from = d => inbox'[v][i].event < sent'[d]
    BY <1>1, <1>2, <1>3, <1>4, <1>5, <1>8, <2>2 DEF Numbered
  <2> QED
    BY <2>1, <2>2 DEF Numbered
<1>12. InOrderOnce'
  <2> SUFFICES ASSUME NEW v \in Urls, NEW i \in DOMAIN inbox'[v], NEW j \in DOMAIN inbox'[v],
                      i < j, inbox'[v][i].from = inbox'[v][j].from
               PROVE  inbox'[v][i].event < inbox'[v][j].event
    BY DEF InOrderOnce
  <2>1. CASE j \in DOMAIN inbox[v] /\ inbox'[v][j] = inbox[v][j]
    <3>1. i \in DOMAIN inbox[v] /\ inbox'[v][i] = inbox[v][i]
      BY <1>8, <2>1, Parts
    <3> QED
      BY <2>1, <3>1 DEF InOrderOnce
  <2>2. CASE v = u /\ j = Len(inbox[v]) + 1 /\ inbox'[v][j] = post
    <3>1. i \in DOMAIN inbox[v] /\ inbox'[v][i] = inbox[v][i]
      BY <1>8, <2>2, Parts
    <3> QED
      BY <1>1, <1>5, <2>2, <3>1 DEF Numbered
  <2> QED
    BY <1>8, <2>1, <2>2
<1> QED
  BY <1>7, <1>10, <1>11, <1>12

(* Nothing is under way at first, and every step keeps the accounts.       *)
LEMMA BackendInit == ASSUME Init PROVE BackendInv
BY BackendAssumption
DEF Init, NoHooks, BackendInv, BackendTypeOK, Hooks, Accounted, Numbered, InOrderOnce

(* Every step keeps both parts of the invariant.                           *)
LEMMA BackendStep == ASSUME BackendInv, [Next]_vars PROVE BackendInv'
<1>1. CASE UNCHANGED vars
  BY <1>1 DEF vars, BackendInv, BackendTypeOK, Accounted, Numbered, InOrderOnce, Reached, registered
<1> QED
  BY <1>1, QuietStep, NotifyStep, PostStep DEF Next

(* The invariant of the backend: every hook of a call is accounted for and *)
(* every inbox agrees with what was begun.                                 *)
THEOREM BackendInvariance == Spec => []BackendInv
<1>1. Init => BackendInv
  BY BackendInit
<1>2. BackendInv /\ [Next]_vars => BackendInv'
  BY BackendStep
<1> QED
  BY <1>1, <1>2, PTL DEF Spec

(* Hooks, calls and inboxes keep their types: no hook without a secret is  *)
(* called (Notify of both backends).                                       *)
THEOREM BackendTypes == Spec => []BackendTypeOK
<1>1. BackendInv => BackendTypeOK
  BY DEF BackendInv
<1> QED
  BY <1>1, BackendInvariance, PTL

(* A hook hears the events of a controller in order and once, for any      *)
(* number of hooks, senders and events (Notify, postSigned).               *)
THEOREM EventsInOrder == Spec => []InOrderOnce
<1>1. BackendInv => InOrderOnce
  BY DEF BackendInv
<1> QED
  BY <1>1, BackendInvariance, PTL

(* A call that ends other than by a restart has no hook left to call.      *)
LEMMA ReturnStep ==
  ASSUME BackendInv, Next, NEW c \in Senders,
         call[c] # Nil, call'[c] = Nil, restarts' = restarts
  PROVE  \A u \in registered(call[c].hooks) \ call[c].errs : Reached(c, u)
<1>1. call[c].todo = {}
  <2>t. BackendTypeOK /\ call[c] \in Call
    BY Parts DEF BackendInv
  <2>1. CASE \E d \in Senders : Return(d)
    BY <2>t, <2>1 DEF Return, BackendTypeOK
  <2>2. CASE Restart
    BY <2>t, <2>2 DEF Restart, BackendTypeOK
  <2>3. CASE handleConfigureWebhook
    BY <2>3 DEF handleConfigureWebhook, RegisterWebhook
  <2>4. ASSUME NEW d \in Senders, Notify(d) PROVE FALSE
    <3>1. d # c /\ call'[c] = call[c]
      BY <2>t, <2>4 DEF Notify, BackendTypeOK
    <3> QED
      BY <3>1
  <2>5. ASSUME NEW d \in Senders, NEW u \in Urls, postSigned(d, u) \/ postFails(d, u)
        PROVE  FALSE
    <3>1. CASE d # c
      BY <2>t, <2>5, <3>1 DEF postSigned, postFails, BackendTypeOK
    <3>2. CASE d = c
      <4>1. call'[c] \in Call
        BY <2>t, <2>5, <3>2, PostEffect DEF BackendTypeOK
      <4> QED
        BY <4>1, CallAssumption
    <3> QED
      BY <3>1, <3>2
  <2> QED
    BY <2>1, <2>2, <2>3, <2>4, <2>5 DEF Next
<1> QED
  BY <1>1 DEF BackendInv, Accounted

(* Notify skips no hook: what it returns accounts for all that were        *)
(* registered when it began.                                               *)
THEOREM NotifySkipsNone == Spec => NoneSkipped
<1>1. BackendInv /\ [Next]_vars =>
        [\A c \in Senders :
           call[c] # Nil /\ call'[c] = Nil /\ restarts' = restarts =>
             \A u \in registered(call[c].hooks) \ call[c].errs : Reached(c, u)]_vars
  BY ReturnStep
<1> QED
  BY <1>1, BackendInvariance, PTL DEF Spec, NoneSkipped

(* With CTFd's backend a call goes to the configured webhook.              *)
Configured == New(config) = "ctfd" => \A c \in Senders : call[c] # Nil => call[c].hooks = targets

(* The configuration lasts as long as the calls.                           *)
LEMMA ConfiguredStep == ASSUME BackendInv, Configured, [Next]_vars PROVE Configured'
<1> USE DEF BackendInv
<1>1. CASE handleConfigureWebhook
  BY <1>1 DEF handleConfigureWebhook, RegisterWebhook, Configured, New, newGenericBackend, newCTFdBackend
<1>2. ASSUME NEW c \in Senders, Notify(c) PROVE Configured'
  <2>1. \A d \in Senders : call'[d] # Nil => call'[d].hooks = IF d = c THEN targets ELSE call[d].hooks
    BY <1>2 DEF Notify, BackendTypeOK
  <2>2. \A d \in Senders : d # c => call'[d] = call[d]
    BY <1>2 DEF Notify, BackendTypeOK
  <2>3. UNCHANGED <<config, hooks>>
    BY <1>2 DEF Notify
  <2> QED
    BY <2>1, <2>2, <2>3 DEF Configured, New, targets
<1>3. ASSUME NEW c \in Senders, Return(c) PROVE Configured'
  BY <1>3 DEF Return, BackendTypeOK, Configured, New, targets
<1>4. ASSUME NEW c \in Senders, NEW u \in Urls, postSigned(c, u) \/ postFails(c, u)
      PROVE  Configured'
  <2>1. PICK after \in Call : after.hooks = call[c].hooks /\ call' = [call EXCEPT ![c] = after]
    BY <1>4, PostEffect
  <2>2. call[c] # Nil /\ UNCHANGED <<config, hooks>>
    BY <1>4, PostEffect
  <2>3. \A d \in Senders : call'[d] # Nil => call[d] # Nil /\ call'[d].hooks = call[d].hooks
    BY <2>1, <2>2 DEF BackendTypeOK
  <2> QED
    BY <2>2, <2>3 DEF Configured, New, targets
<1>5. CASE Restart
  BY <1>5 DEF Restart, Configured
<1>6. CASE UNCHANGED vars
  BY <1>6 DEF vars, Configured, New, targets
<1> QED
  BY <1>1, <1>2, <1>3, <1>4, <1>5, <1>6 DEF Next

(* What Notify ends without an error has reached CTFd's webhook, for any   *)
(* number of restarts and any other hooks (newCTFdBackend, Notify).        *)
THEOREM CTFdIsTold == Spec => CTFdHears
<1>1. Init => BackendInv /\ Configured
  BY BackendInit DEF Init, Configured
<1>2. BackendInv /\ Configured /\ [Next]_vars => (BackendInv /\ Configured)'
  BY BackendStep, ConfiguredStep
<1>3. BackendInv /\ Configured /\ [Next]_vars =>
        [\A c \in Senders :
           /\ call[c] # Nil /\ call'[c] = Nil /\ restarts' = restarts
           /\ New(config) = "ctfd" /\ config.webhookUrl # Nil
           /\ call[c].errs = {}
           => \E i \in DOMAIN inbox[config.webhookUrl] :
                inbox[config.webhookUrl][i] =
                  [from |-> c, event |-> call[c].event, secret |-> config.apiKey]]_vars
  <2> SUFFICES ASSUME BackendInv, Configured, Next, NEW c \in Senders,
                      call[c] # Nil, call'[c] = Nil, restarts' = restarts,
                      New(config) = "ctfd", config.webhookUrl # Nil, call[c].errs = {}
               PROVE  \E i \in DOMAIN inbox[config.webhookUrl] :
                        inbox[config.webhookUrl][i] =
                          [from |-> c, event |-> call[c].event, secret |-> config.apiKey]
    OBVIOUS
  <2> DEFINE u == config.webhookUrl
  <2>1. u \in Urls /\ config.apiKey \in Secrets
    BY BackendAssumption DEF BackendInv, BackendTypeOK, Config
  <2>2. call[c].hooks[u] = config.apiKey
    BY <2>1 DEF Configured, targets
  <2>3. u \in registered(call[c].hooks) \ call[c].errs
    BY <2>1, <2>2, BackendAssumption DEF registered
  <2>4. Reached(c, u)
    BY <2>3, ReturnStep
  <2> QED
    BY <2>2, <2>4 DEF Reached
<1> QED
  BY <1>1, <1>2, <1>3, PTL DEF Spec, CTFdHears
===============================================================================
