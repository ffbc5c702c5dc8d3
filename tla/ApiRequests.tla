------------------------------ MODULE ApiRequests ------------------------------
(***************************************************************************)
(* Requests to the REST API about instances, from authMiddleware to the    *)
(* answer.  Every request runs in a goroutine of its own; reads are served *)
(* from a cache that lags behind, writes go to the API server, and a write *)
(* that fails may have been carried out.                                   *)
(*                                                                         *)
(* A string is the sequence of its words, the parts between dashes: ""     *)
(* is << >>, and to join two strings with a dash is to concatenate them.   *)
(***************************************************************************)
EXTENDS Naturals, Sequences, SequencesExt

CONSTANTS
  Nil,       \* no instance, no filter
  Requests,  \* goroutines
  Key,       \* the header the generic backend accepts
  Tokens,    \* headers CTFd may accept
  Triples,   \* template, team and player of instances
  Asks,      \* what clients ask
  Phases     \* phases the controllers give them

(* Fault: the player is left out.                                          *)
teamName(t) == t.template \o t.team

(* A player may be absent.                                                 *)
instanceName(t) == t.template \o t.team \o t.player

Names == {instanceName(t) : t \in Triples}

Instance == [of : Triples, phase : Phases \cup {""}]

(* op is the handler the request is routed to.                             *)
Ask ==
       [op : {"create"}, triple : Triples]
  \cup [op : {"get", "delete"}, name : Names]
  \cup [op : {"list"}, team : Seq(STRING), challenge : Seq(STRING), status : Phases \cup {Nil}]

(* The answers, by their meaning.                                          *)
Answers == {"unauthorized", "bad request", "no template", "not ready", "no work",
            "created", "exists", "listed", "found", "not found", "deleted", "error"}

ASSUME ApiAssumption ==
  /\ Triples \subseteq [template : Seq(STRING), team : Seq(STRING), player : Seq(STRING)]
  /\ Asks \subseteq Ask
  /\ Nil \notin Instance

VARIABLES
  backend,    \* the backend in use
  valid,      \* the tokens CTFd accepts now
  instances,  \* the stored instance of each name
  cache,      \* and the one in the cache
  request     \* what each goroutine is doing

vars == <<backend, valid, instances, cache, request>>

Request ==
       [pc : {"auth"}, ask : Asks, header : Tokens \cup {Key, ""}]
  \cup [pc : {"handle", "create"}, ask : Asks]
  \cup [pc : {"answered"}, ask : Asks, answer : Answers, items : Seq(Instance)]

ApiTypeOK ==
  /\ backend \in {"generic", "ctfd"}
  /\ valid \subseteq Tokens
  /\ instances \in [Names -> Instance \cup {Nil}]
  /\ cache \in [Names -> Instance \cup {Nil}]
  /\ request \in [Requests -> Request \cup {Nil}]

Init ==
  /\ backend \in {"generic", "ctfd"}
  /\ valid = Tokens
  /\ instances = [n \in Names |-> Nil]
  /\ cache = [n \in Names |-> Nil]
  /\ request = [r \in Requests |-> Nil]

At(r, pc) == request[r] # Nil /\ request[r].pc = pc

Goes(r, pc) == request' = [request EXCEPT ![r] = [pc |-> pc, ask |-> request[r].ask]]

AnswerItems(r, a, items) ==
  request' = [request EXCEPT ![r] =
                [pc |-> "answered", ask |-> request[r].ask, answer |-> a, items |-> items]]

Answer(r, a) == AnswerItems(r, a, << >>)

Arrive(r) ==
  /\ request[r] = Nil
  /\ \E h \in Tokens \cup {Key, ""}, a \in Asks :
       request' = [request EXCEPT ![r] = [pc |-> "auth", header |-> h, ask |-> a]]
  /\ UNCHANGED <<backend, valid, instances, cache>>

Leave(r) ==
  /\ At(r, "answered")
  /\ request' = [request EXCEPT ![r] = Nil]
  /\ UNCHANGED <<backend, valid, instances, cache>>

(***************************************************************************)
(* Authentication.                                                         *)
(***************************************************************************)
genericAuthenticate(h) == h = Key

ctfdAuthenticate(h) == h # "" /\ h \in valid

Authenticate(h) == IF backend = "generic" THEN genericAuthenticate(h) ELSE ctfdAuthenticate(h)

(* CTFd is asked for the owner of the token; it may not answer.            *)
authMiddleware(r) ==
  /\ At(r, "auth")
  /\ \/ Authenticate(request[r].header) /\ Goes(r, "handle")
     \/ /\ backend = "ctfd" \/ ~Authenticate(request[r].header)
        /\ Answer(r, "unauthorized")
  /\ UNCHANGED <<backend, valid, instances, cache>>

(***************************************************************************)
(* The handlers.                                                           *)
(***************************************************************************)
Handles(r, ops) == At(r, "handle") /\ request[r].ask.op \in ops

(* handleCreateInstance, up to the call of Create: the template is         *)
(* whatever the cache says, and the proof of work good or bad.  A body     *)
(* that cannot be decoded is refused like one without a team.              *)
handleCreateInstance(r) ==
  LET t == request[r].ask.triple
      incomplete == t.template = << >> \/ t.team = << >>
  IN  /\ Handles(r, {"create"})
      /\ IF incomplete THEN Answer(r, "bad request")
         ELSE \/ Goes(r, "create")
              \/ \E a \in {"no template", "not ready", "no work", "error"} : Answer(r, a)
      /\ UNCHANGED <<backend, valid, instances, cache>>

Store(t) == instances' = [instances EXCEPT ![instanceName(t)] = [of |-> t, phase |-> ""]]

Create(r) ==
  LET t == request[r].ask.triple
      n == instanceName(t)
  IN  /\ At(r, "create")
      /\ \/ instances[n] = Nil /\ Store(t) /\ Answer(r, "created")
         \/ instances[n] # Nil /\ Answer(r, "exists") /\ UNCHANGED instances
         \/ /\ (instances[n] = Nil /\ Store(t)) \/ UNCHANGED instances
            /\ Answer(r, "error")
      /\ UNCHANGED <<backend, valid, cache>>

(* Fault: the array is filtered, but not cut.                              *)
filteredUncut(items, status) ==
  LET loop[i \in 0..Len(items)] ==
        IF i = 0 THEN [array |-> items, len |-> 0]
        ELSE LET s == loop[i - 1]
             IN  IF s.array[i].phase # status THEN s
                 ELSE [array |-> [s.array EXCEPT ![s.len + 1] = s.array[i]], len |-> s.len + 1]
  IN  loop[Len(items)].array

(* Fault: filtered is made with a length and appended to.                  *)
filteredZeroed(items, status) ==
  [i \in 1..Len(items) |-> Nil] \o SelectSeq(items, LAMBDA i : i.phase = status)

(* The loop writes to the array it reads: filtered is a prefix of it.      *)
filtered(items, status) ==
  LET loop[i \in 0..Len(items)] ==
        IF i = 0 THEN [array |-> items, len |-> 0]
        ELSE LET s == loop[i - 1]
             IN  IF s.array[i].phase # status THEN s
                 ELSE [array |-> [s.array EXCEPT ![s.len + 1] = s.array[i]], len |-> s.len + 1]
  IN  SubSeq(loop[Len(items)].array, 1, loop[Len(items)].len)

(* Labels say what an instance is of; the cache has no order.              *)
handleListInstances(r) ==
  LET f == request[r].ask
      labelled == {i \in Range(cache) \ {Nil} : /\ f.team \in {<< >>, i.of.team}
                                               /\ f.challenge \in {<< >>, i.of.template}}
  IN  /\ Handles(r, {"list"})
      /\ \/ \E items \in SetToSeqs(labelled) :
              AnswerItems(r, "listed",
                          IF f.status = Nil THEN items ELSE filtered(items, f.status))
         \/ Answer(r, "error")
      /\ UNCHANGED <<backend, valid, instances, cache>>

handleGetInstance(r) ==
  /\ Handles(r, {"get"})
  /\ \/ Answer(r, IF cache[request[r].ask.name] = Nil THEN "not found" ELSE "found")
     \/ Answer(r, "error")
  /\ UNCHANGED <<backend, valid, instances, cache>>

handleDeleteInstance(r) ==
  LET n == request[r].ask.name
  IN  /\ Handles(r, {"delete"})
      /\ \/ /\ instances' = [instances EXCEPT ![n] = Nil]
            /\ Answer(r, IF instances[n] = Nil THEN "not found" ELSE "deleted")
         \/ /\ UNCHANGED instances \/ instances' = [instances EXCEPT ![n] = Nil]
            /\ Answer(r, "error")
      /\ UNCHANGED <<backend, valid, cache>>

(***************************************************************************)
(* Everything else.                                                        *)
(***************************************************************************)
Delivers ==
  /\ cache # instances
  /\ cache' = instances
  /\ UNCHANGED <<backend, valid, instances, request>>

SetPhase(n) ==
  /\ instances[n] # Nil
  /\ \E p \in Phases : instances' = [instances EXCEPT ![n].phase = p]
  /\ UNCHANGED <<backend, valid, cache, request>>

Revoke(h) ==
  /\ valid' = valid \ {h}
  /\ UNCHANGED <<backend, instances, cache, request>>

Next ==
  \/ \E r \in Requests :
       \/ Arrive(r) \/ authMiddleware(r) \/ Leave(r)
       \/ handleCreateInstance(r) \/ Create(r)
       \/ handleListInstances(r) \/ handleGetInstance(r) \/ handleDeleteInstance(r)
  \/ \E n \in Names : SetPhase(n)
  \/ \E h \in Tokens : Revoke(h)
  \/ Delivers

Spec == Init /\ [][Next]_vars

(***************************************************************************)
(* Properties.                                                             *)
(***************************************************************************)

(* No part of the triple has a dash in it.                                 *)
Plain(t) == Len(t.template) = 1 /\ Len(t.team) = 1 /\ Len(t.player) <= 1

(* A create that is answered "created" or "instance already exists" leaves *)
(* an instance of that template, team and player, not another one that has *)
(* its name, whichever requests race with it and though an earlier try of  *)
(* the client's may have ended with an error.  It takes names without      *)
(* dashes: web-red-blue is red-blue's instance and that of blue in red     *)
(* (instanceName and handleCreateInstance).                                *)
ConflictIsReal ==
  [][\A r \in Requests :
       At(r, "create") /\ request'[r].pc = "answered" /\ request'[r].answer # "error" =>
         LET t == request[r].ask.triple
             i == instances'[instanceName(t)]
         IN  i # Nil /\ (Plain(t) /\ Plain(i.of) => i.of = t)]_vars

(* A list has each instance of the cache that matches the query, and each  *)
(* once, though the items are filtered in place (handleListInstances).     *)
ListExact ==
  [][\A r \in Requests :
       Handles(r, {"list"}) /\ request'[r].pc = "answered" /\ request'[r].answer = "listed" =>
         LET f == request[r].ask
             items == request'[r].items
         IN  /\ IsInjective(items)
             /\ Range(items) = {i \in Range(cache) \ {Nil} :
                                  /\ f.team \in {<< >>, i.of.team}
                                  /\ f.challenge \in {<< >>, i.of.template}
                                  /\ f.status \in {Nil, i.phase}}]_vars
================================================================================
