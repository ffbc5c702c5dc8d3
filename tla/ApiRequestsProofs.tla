-------------------------- MODULE ApiRequestsProofs --------------------------
(***************************************************************************)
(* Proofs about ApiRequests, for any requests, triples and tokens.         *)
(***************************************************************************)
EXTENDS ApiRequests, SequenceTheorems, FiniteSetTheorems, TLAPS

(* The places of the words of two sequences in the two of them together.   *)
LEMMA Places ==
  ASSUME NEW S, NEW a \in Seq(S), NEW b \in Seq(S)
  PROVE  /\ a \o b \in Seq(S) /\ Len(a \o b) = Len(a) + Len(b)
         /\ \A i \in 1..Len(a) + Len(b) : (a \o b)[i] = IF i <= Len(a) THEN a[i] ELSE b[i - Len(a)]
BY ConcatProperties, Zenon

(* Two sequences that are single words, and a third.                       *)
LEMMA Joined ==
  ASSUME NEW S, NEW a \in Seq(S), NEW b \in Seq(S), NEW c \in Seq(S), Len(a) = 1, Len(b) = 1
  PROVE  /\ (a \o b \o c)[1] = a[1] /\ (a \o b \o c)[2] = b[1]
         /\ Len(a \o b \o c) = 2 + Len(c)
         /\ Len(c) = 1 => (a \o b \o c)[3] = c[1]
<1> DEFINE two == a \o b
           all == two \o c
<1>1. two \in Seq(S)
  BY Places, Zenon
<1>2. \A i \in 1..Len(a) + Len(b) : two[i] = IF i <= Len(a) THEN a[i] ELSE b[i - Len(a)]
  BY Places, Zenon
<1>3. Len(two) = 2
  BY Places
<1> HIDE DEF two
<1>4. \A i \in 1..2 : two[i] = IF i <= 1 THEN a[i] ELSE b[i - 1]
  BY <1>2
<1>5. \A i \in 1..Len(two) + Len(c) : all[i] = IF i <= Len(two) THEN two[i] ELSE c[i - Len(two)]
  BY <1>1, Places, Zenon
<1>6. Len(all) = Len(two) + Len(c)
  BY <1>1, Places, Zenon
<1> HIDE DEF all
<1>7. Len(c) \in Nat
  OBVIOUS
<1>8. \A i \in 1..2 + Len(c) : all[i] = IF i <= 2 THEN two[i] ELSE c[i - 2]
  BY <1>3, <1>5
<1>9. all[1] = a[1] /\ all[2] = b[2 - 1]
  BY <1>4, <1>7, <1>8
<1>10. Len(c) = 1 => all[3] = c[3 - 2]
  BY <1>8
<1>11. 2 - 1 = 1 /\ 3 - 2 = 1
  OBVIOUS
<1>12. /\ all[1] = a[1] /\ all[2] = b[1] /\ Len(all) = 2 + Len(c)
       /\ Len(c) = 1 => all[3] = c[1]
  BY <1>3, <1>6, <1>9, <1>10, <1>11
<1> QED
  BY <1>12, Zenon DEF all, two

(* The words of a name without dashes are told apart by their places.      *)
LEMMA Words ==
  ASSUME NEW t \in Triples, Plain(t)
  PROVE  /\ instanceName(t)[1] = t.template[1] /\ instanceName(t)[2] = t.team[1]
         /\ Len(instanceName(t)) = 2 + Len(t.player)
         /\ Len(t.player) = 1 => instanceName(t)[3] = t.player[1]
<1> DEFINE a == t.template
           b == t.team
           c == t.player
<1>1. a \in Seq(STRING) /\ b \in Seq(STRING) /\ c \in Seq(STRING)
  BY ApiAssumption
<1>2. Len(a) = 1 /\ Len(b) = 1
  BY DEF Plain
<1>3. instanceName(t) = a \o b \o c
  BY Zenon DEF instanceName
<1> HIDE DEF a, b, c
<1>4. /\ (a \o b \o c)[1] = a[1] /\ (a \o b \o c)[2] = b[1]
      /\ Len(a \o b \o c) = 2 + Len(c)
      /\ Len(c) = 1 => (a \o b \o c)[3] = c[1]
  BY <1>1, <1>2, Joined
<1> QED
  BY <1>3, <1>4, Zenon DEF a, b, c

(* instanceName tells triples apart that have no dashes in them.           *)
THEOREM NamesApart ==
  ASSUME NEW s \in Triples, NEW t \in Triples, Plain(s), Plain(t),
         instanceName(s) = instanceName(t)
  PROVE  s = t
<1>1. /\ s.template[1] = t.template[1] /\ s.team[1] = t.team[1]
      /\ Len(s.player) = Len(t.player)
      /\ Len(s.player) = 1 => s.player[1] = t.player[1]
  <2>1. Len(s.player) \in Nat /\ Len(t.player) \in Nat
    BY ApiAssumption
  <2> QED
    BY <2>1, Words
<1>2. ASSUME NEW a \in Seq(STRING), NEW b \in Seq(STRING), Len(a) = Len(b),
             Len(a) <= 1, Len(a) = 1 => a[1] = b[1]
      PROVE  a = b
  <2>1. \A i \in 1..Len(a) : a[i] = b[i]
    BY <1>2
  <2> QED
    BY <1>2, <2>1
<1>3. s.template = t.template /\ s.team = t.team /\ s.player = t.player
  BY <1>1, <1>2, ApiAssumption DEF Plain
<1> QED
  BY <1>3, ApiAssumption

-------------------------------------------------------------------------------

(* An instance is stored under the name of what it is of, and a request    *)
(* that creates one has a triple.                                          *)
Stored ==
  /\ instances \in [Names -> Instance \cup {Nil}]
  /\ \A n \in Names : instances[n] # Nil => instanceName(instances[n].of) = n

Asked ==
  /\ request = [r \in Requests |-> request[r]]
  /\ \A r \in Requests : request[r] # Nil =>
       /\ request[r].pc \in {"auth", "handle", "create"} => request[r].ask \in Asks
       /\ request[r].pc = "create" => request[r].ask.op = "create"

(* What a request to create asks for.                                      *)
LEMMA Triple ==
  ASSUME Asked, NEW r \in Requests, At(r, "create")
  PROVE  request[r].ask.triple \in Triples
BY ApiAssumption DEF Asked, At, Ask

(* Only Create stores an instance, under its name.                         *)
LEMMA StoredStep ==
  ASSUME Stored, Asked, [Next]_vars
  PROVE  Stored'
<1>1. ASSUME NEW r \in Requests, Create(r) PROVE Stored'
  <2> DEFINE t == request[r].ask.triple
             new == [of |-> t, phase |-> ""]
  <2>1. t \in Triples
    BY <1>1, Triple DEF Create
  <2>2. new \in Instance /\ new.of = t
    BY <2>1 DEF Instance
  <2>3. instances' = [instances EXCEPT ![instanceName(t)] = new] \/ instances' = instances
    BY <1>1 DEF Create, Store
  <2> HIDE DEF new
  <2> QED
    BY <2>2, <2>3 DEF Stored
<1>2. ASSUME NEW n \in Names, SetPhase(n) PROVE Stored'
  <2>1. PICK p \in Phases : instances' = [instances EXCEPT ![n].phase = p]
    BY <1>2 DEF SetPhase
  <2>2. instances[n] \in Instance
    BY <1>2 DEF SetPhase, Stored
  <2> DEFINE new == [instances[n] EXCEPT !.phase = p]
  <2>3. new \in Instance /\ new.of = instances[n].of
    BY <2>2 DEF Instance
  <2>4. instances' = [instances EXCEPT ![n] = new]
    BY <2>1
  <2> HIDE DEF new
  <2>5. \A m \in Names : instances'[m] = IF m = n THEN new ELSE instances[m]
    BY <2>4 DEF Stored
  <2>6. instances' \in [Names -> Instance \cup {Nil}]
    BY <2>3, <2>4 DEF Stored
  <2>7. instances[n] # Nil
    BY <1>2 DEF SetPhase
  <2> QED
    BY <2>3, <2>5, <2>6, <2>7 DEF Stored
<1>3. ASSUME NEW r \in Requests, handleDeleteInstance(r) PROVE Stored'
  <2>1. \/ instances' = [instances EXCEPT ![request[r].ask.name] = Nil]
        \/ instances' = instances
    BY <1>3 DEF handleDeleteInstance
  <2> QED
    BY <2>1 DEF Stored
<1>4. CASE UNCHANGED instances
  BY <1>4 DEF Stored
<1>5. ASSUME NEW r \in Requests,
             \/ Arrive(r) \/ authMiddleware(r) \/ Leave(r)
             \/ handleCreateInstance(r) \/ handleListInstances(r) \/ handleGetInstance(r)
      PROVE  UNCHANGED instances
  BY <1>5 DEF Arrive, authMiddleware, Leave, handleCreateInstance, handleListInstances,
              handleGetInstance
<1>6. ASSUME Delivers \/ (\E h \in Tokens : Revoke(h)) \/ UNCHANGED vars PROVE UNCHANGED instances
  BY <1>6 DEF Delivers, Revoke, vars
<1> QED
  BY <1>1, <1>2, <1>3, <1>4, <1>5, <1>6 DEF Next

(* A request is replaced by one with the same question, or answered.       *)
LEMMA AskedStep ==
  ASSUME Asked, [Next]_vars
  PROVE  Asked'
<1>1. ASSUME NEW r \in Requests, NEW v, request' = [request EXCEPT ![r] = v],
             v # Nil => /\ v.pc \in {"auth", "handle", "create"} => v.ask \in Asks
                        /\ v.pc = "create" => v.ask.op = "create"
      PROVE  Asked'
  BY <1>1 DEF Asked
<1>2. ASSUME NEW r \in Requests, NEW a, NEW items, AnswerItems(r, a, items) PROVE Asked'
  <2> DEFINE v == [pc |-> "answered", ask |-> request[r].ask, answer |-> a, items |-> items]
  <2>1. v.pc = "answered"
    OBVIOUS
  <2>2. request' = [request EXCEPT ![r] = v]
    BY <1>2 DEF AnswerItems
  <2> HIDE DEF v
  <2> QED
    BY <1>1, <2>1, <2>2
<1>3. ASSUME NEW r \in Requests, NEW pc \in {"handle", "create"}, Goes(r, pc),
             request[r].ask \in Asks, pc = "create" => request[r].ask.op = "create"
      PROVE  Asked'
  <2> DEFINE v == [pc |-> pc, ask |-> request[r].ask]
  <2>1. v.pc = pc /\ v.ask = request[r].ask
    OBVIOUS
  <2>2. request' = [request EXCEPT ![r] = v]
    BY <1>3 DEF Goes
  <2> HIDE DEF v
  <2> QED
    BY <1>1, <1>3, <2>1, <2>2
<1>4. ASSUME NEW r \in Requests, Arrive(r) PROVE Asked'
  <2>1. PICK h \in Tokens \cup {Key, ""}, a \in Asks :
          request' = [request EXCEPT ![r] = [pc |-> "auth", header |-> h, ask |-> a]]
    BY <1>4 DEF Arrive
  <2> DEFINE v == [pc |-> "auth", header |-> h, ask |-> a]
  <2>2. v.pc = "auth" /\ v.ask = a
    OBVIOUS
  <2>3. request' = [request EXCEPT ![r] = v]
    BY <2>1
  <2> HIDE DEF v
  <2> QED
    BY <1>1, <2>2, <2>3
<1>5. ASSUME NEW r \in Requests, Leave(r) PROVE Asked'
  BY <1>1, <1>5 DEF Leave
<1>6. ASSUME NEW r \in Requests, authMiddleware(r) PROVE Asked'
  <2>1. request[r].ask \in Asks
    BY <1>6 DEF authMiddleware, At, Asked
  <2>2. Goes(r, "handle") \/ AnswerItems(r, "unauthorized", << >>)
    BY <1>6 DEF authMiddleware, Answer
  <2> QED
    BY <1>2, <1>3, <2>1, <2>2
<1>7. ASSUME NEW r \in Requests, handleCreateInstance(r) PROVE Asked'
  <2>1. request[r].ask \in Asks /\ request[r].ask.op = "create"
    BY <1>7 DEF handleCreateInstance, Handles, At, Asked
  <2>2. Goes(r, "create") \/ \E a \in Answers : AnswerItems(r, a, << >>)
    BY <1>7 DEF handleCreateInstance, Answer, Answers
  <2> QED
    BY <1>2, <1>3, <2>1, <2>2
<1>8. ASSUME NEW r \in Requests,
             Create(r) \/ handleListInstances(r) \/ handleGetInstance(r) \/ handleDeleteInstance(r)
      PROVE  Asked'
  <2>1. \E a, items : AnswerItems(r, a, items)
    BY <1>8, Zenon DEF Create, handleListInstances, handleGetInstance, handleDeleteInstance, Answer
  <2> QED
    BY <1>2, <2>1
<1>9. ASSUME \/ \E n \in Names : SetPhase(n)
             \/ \E h \in Tokens : Revoke(h)
             \/ Delivers
             \/ UNCHANGED vars
      PROVE  Asked'
  BY <1>9 DEF SetPhase, Revoke, Delivers, vars, Asked
<1> QED
  BY <1>4, <1>5, <1>6, <1>7, <1>8, <1>9 DEF Next

(* What changes a request is the next step of its own goroutine.           *)
LEMMA OwnStep ==
  ASSUME Asked, [Next]_vars, NEW r \in Requests, request'[r] # request[r]
  PROVE  \/ Arrive(r) \/ authMiddleware(r) \/ Leave(r)
         \/ handleCreateInstance(r) \/ Create(r)
         \/ handleListInstances(r) \/ handleGetInstance(r) \/ handleDeleteInstance(r)
<1>1. ASSUME NEW s \in Requests, s # r, NEW v, request' = [request EXCEPT ![s] = v]
      PROVE  FALSE
  BY <1>1 DEF Asked
<1>2. ASSUME NEW s \in Requests, s # r,
             \/ Arrive(s) \/ authMiddleware(s) \/ Leave(s)
             \/ handleCreateInstance(s) \/ Create(s)
             \/ handleListInstances(s) \/ handleGetInstance(s) \/ handleDeleteInstance(s)
      PROVE  FALSE
  <2>1. \E v : request' = [request EXCEPT ![s] = v]
    BY <1>2, Zenon DEF Arrive, authMiddleware, Leave, handleCreateInstance, Create,
                       handleListInstances, handleGetInstance, handleDeleteInstance,
                       Goes, Answer, AnswerItems
  <2> QED
    BY <1>1, <1>2, <2>1
<1>3. ASSUME \/ \E n \in Names : SetPhase(n)
             \/ \E h \in Tokens : Revoke(h)
             \/ Delivers
             \/ UNCHANGED vars
      PROVE  FALSE
  BY <1>3 DEF SetPhase, Revoke, Delivers, vars
<1> QED
  BY <1>2, <1>3 DEF Next

(* The step that answers a create is Create's.                             *)
LEMMA CreateAnswers ==
  ASSUME Asked, [Next]_vars, NEW r \in Requests, At(r, "create"), request'[r].pc = "answered"
  PROVE  Create(r)
<1>1. request'[r] # request[r]
  BY DEF At
<1>2. ASSUME \/ Arrive(r) \/ authMiddleware(r) \/ Leave(r)
             \/ handleCreateInstance(r)
             \/ handleListInstances(r) \/ handleGetInstance(r) \/ handleDeleteInstance(r)
      PROVE  FALSE
  BY <1>2 DEF Arrive, authMiddleware, Leave, handleCreateInstance, handleListInstances,
              handleGetInstance, handleDeleteInstance, Handles, At
<1> QED
  BY <1>1, <1>2, OwnStep

(* What the answer to a create says is true of what is stored after it.    *)
LEMMA ConflictStep ==
  ASSUME Stored, Asked, [Next]_vars, NEW r \in Requests, At(r, "create"),
         request'[r].pc = "answered", request'[r].answer # "error"
  PROVE  LET t == request[r].ask.triple
             i == instances'[instanceName(t)]
         IN  i # Nil /\ (Plain(t) /\ Plain(i.of) => i.of = t)
<1> DEFINE t == request[r].ask.triple
           n == instanceName(t)
<1>1. Create(r)
  BY CreateAnswers
<1>2. t \in Triples /\ n \in Names
  BY Triple DEF Names
<1>3. ~Answer(r, "error")
  <2>1. ASSUME Answer(r, "error") PROVE request'[r].answer = "error"
    BY <2>1 DEF Answer, AnswerItems, Asked
  <2> QED
    BY <2>1
<1>4. CASE instances[n] = Nil
  <2> DEFINE new == [of |-> t, phase |-> ""]
  <2>1. instances' = [instances EXCEPT ![n] = new]
    BY <1>1, <1>3, <1>4 DEF Create, Store
  <2>2. new \in Instance /\ new.of = t
    BY <1>2 DEF Instance
  <2> HIDE DEF new
  <2>3. instances'[n] = new
    BY <1>2, <2>1 DEF Stored
  <2> QED
    BY <2>2, <2>3, ApiAssumption
<1>5. CASE instances[n] # Nil
  <2>1. instances' = instances
    BY <1>1, <1>3, <1>5 DEF Create
  <2>2. instances[n].of \in Triples /\ instanceName(instances[n].of) = n
    BY <1>2, <1>5 DEF Stored, Instance
  <2> QED
    BY <1>2, <1>5, <2>1, <2>2, NamesApart
<1> QED
  BY <1>4, <1>5

(* A create that is told of a conflict, or of success, leaves what it      *)
(* asked for, however many requests race (handleCreateInstance).           *)
THEOREM ConflictsAreReal == Spec => ConflictIsReal
<1>1. Init => Stored /\ Asked
  BY DEF Init, Stored, Asked
<1>2. Stored /\ Asked /\ [Next]_vars => (Stored /\ Asked)'
  BY StoredStep, AskedStep
<1>3. Stored /\ Asked /\ [Next]_vars =>
        [\A r \in Requests :
           At(r, "create") /\ request'[r].pc = "answered" /\ request'[r].answer # "error" =>
             LET t == request[r].ask.triple
                 i == instances'[instanceName(t)]
             IN  i # Nil /\ (Plain(t) /\ Plain(i.of) => i.of = t)]_vars
  BY ConflictStep
<1> QED
  BY <1>1, <1>2, <1>3, PTL DEF Spec, ConflictIsReal

-------------------------------------------------------------------------------

(* What holds of 0, and of n + 1 if it does of n, holds of every number: a *)
(* set of numbers without it would have a least one.                       *)
LEMMA Induction ==
  ASSUME NEW S, 0 \in S, \A n \in Nat : n \in S => n + 1 \in S
  PROVE  Nat \subseteq S
<1> DEFINE T == Nat \ S
           R == OpToRel(<, Nat)
<1>1. IsWellFoundedOn(R, Nat)
  BY NatLessThanWellFounded
<1>2. \A x, y \in Nat : <<y, x>> \in R <=> y < x
  BY DEF OpToRel
<1> HIDE DEF R
<1>3. SUFFICES ASSUME T # {} PROVE FALSE
  OBVIOUS
<1>4. PICK x \in T : \A y \in T : ~ (<<y, x>> \in R)
  <2> T \subseteq Nat
    OBVIOUS
  <2> HIDE DEF T
  <2> QED
    BY <1>1, <1>3, WFMin
<1>5. x # 0 /\ x - 1 \in Nat /\ x - 1 < x /\ (x - 1) + 1 = x
  BY <1>4
<1>6. x - 1 \in S
  BY <1>2, <1>4, <1>5
<1> QED
  BY <1>4, <1>5, <1>6

Looked(s, i, status) ==
  IF s.array[i].phase # status THEN s
  ELSE [array |-> [s.array EXCEPT ![s.len + 1] = s.array[i]], len |-> s.len + 1]

Loops(f, items, status, n) ==
  f = [i \in 0..n |-> IF i = 0 THEN [array |-> items, len |-> 0]
                      ELSE Looked(f[i - 1], i, status)]

(* filtered is what its loop ends with.                                    *)
LEMMA FilteredLoops ==
  ASSUME NEW items, NEW status
  PROVE  LET loop == CHOOSE f : Loops(f, items, status, Len(items))
         IN  filtered(items, status)
               = SubSeq(loop[Len(items)].array, 1, loop[Len(items)].len)
BY Zenon DEF filtered, Loops, Looked

(* The loop has a result for every length.                                 *)
LEMMA LoopExists ==
  ASSUME NEW items, NEW status, NEW m \in Nat
  PROVE  \E f : Loops(f, items, status, m)
<1> DEFINE S == {n \in Nat : \E f : Loops(f, items, status, n)}
<1>1. 0 \in S
  <2> DEFINE f == [i \in 0..0 |-> [array |-> items, len |-> 0]]
  <2>1. Loops(f, items, status, 0)
    BY DEF Loops
  <2> QED
    BY <2>1
<1>2. ASSUME NEW n \in Nat, n \in S PROVE n + 1 \in S
  <2>1. PICK f : Loops(f, items, status, n)
    BY <1>2
  <2> DEFINE next == Looked(f[n], n + 1, status)
             g == [i \in 0..n + 1 |-> IF i = n + 1 THEN next ELSE f[i]]
  <2>2. \A i \in 0..n : g[i] = f[i]
    OBVIOUS
  <2>3. g[n + 1] = next
    OBVIOUS
  <2>4. g = [i \in 0..n + 1 |-> g[i]]
    OBVIOUS
  <2> HIDE DEF g
  <2>5. \A i \in 0..n : f[i] = IF i = 0 THEN [array |-> items, len |-> 0]
                               ELSE Looked(f[i - 1], i, status)
    BY <2>1, Zenon DEF Loops
  <2>6. \A i \in 0..n + 1 : g[i] = IF i = 0 THEN [array |-> items, len |-> 0]
                                   ELSE Looked(g[i - 1], i, status)
    <3>1. ASSUME NEW i \in 1..n + 1 PROVE g[i] = Looked(g[i - 1], i, status)
      <4>1. CASE i = n + 1
        BY <2>2, <2>3, <4>1
      <4>2. CASE i \in 1..n
        BY <2>2, <2>5, <4>2
      <4> QED
        BY <4>1, <4>2
    <3>2. g[0] = [array |-> items, len |-> 0]
      BY <2>2, <2>5
    <3> QED
      BY <3>1, <3>2
  <2>7. Loops(g, items, status, n + 1)
    BY <2>4, <2>6, Zenon DEF Loops
  <2> QED
    BY <2>7
<1> HIDE DEF S
<1>3. Nat \subseteq S
  BY <1>1, <1>2, Induction
<1> QED
  BY <1>3 DEF S

(* Before item i + 1: what is kept comes first, and the rest is unread. *)
Kept(s, i, items, status) ==
  /\ s.array \in Seq(Instance) /\ Len(s.array) = Len(items)
  /\ s.len \in 0..i
  /\ \A j \in i + 1..Len(items) : s.array[j] = items[j]
  /\ \A j \in 1..s.len : \E k \in 1..i : items[k].phase = status /\ s.array[j] = items[k]
  /\ \A k \in 1..i : items[k].phase = status => \E j \in 1..s.len : s.array[j] = items[k]
  /\ \A j, k \in 1..s.len : s.array[j] = s.array[k] => j = k

(* One item on: it is skipped, or moved to the end of what is kept.        *)
LEMMA KeptStep ==
  ASSUME NEW items \in Seq(Instance), NEW status, NEW s, NEW i \in Nat,
         i + 1 <= Len(items), Kept(s, i, items, status),
         \A j, k \in 1..Len(items) : items[j] = items[k] => j = k
  PROVE  Kept(Looked(s, i + 1, status), i + 1, items, status)
<1>1. s.array[i + 1] = items[i + 1]
  BY DEF Kept
<1>2. CASE items[i + 1].phase # status
  <2>1. Looked(s, i + 1, status) = s
    BY <1>1, <1>2, Zenon DEF Looked
  <2>2. Kept(s, i + 1, items, status)
    BY <1>2 DEF Kept
  <2> QED
    BY <2>1, <2>2
<1>3. CASE items[i + 1].phase = status
  <2> DEFINE t == Looked(s, i + 1, status)
             l == s.len
             a == s.array
  <2>1. t = [array |-> [a EXCEPT ![l + 1] = items[i + 1]], len |-> l + 1]
    BY <1>1, <1>3, Zenon DEF Looked
  <2>2. t.array = [a EXCEPT ![l + 1] = items[i + 1]] /\ t.len = l + 1
    BY <2>1
  <2> HIDE DEF t
  <2>3. /\ a \in Seq(Instance) /\ Len(a) = Len(items) /\ l \in 0..i
        /\ \A j \in i + 1..Len(items) : a[j] = items[j]
        /\ \A j \in 1..l : \E k \in 1..i : items[k].phase = status /\ a[j] = items[k]
        /\ \A k \in 1..i : items[k].phase = status => \E j \in 1..l : a[j] = items[k]
        /\ \A j, k \in 1..l : a[j] = a[k] => j = k
    BY Zenon DEF Kept
  <2> HIDE DEF a, l
  <2>4. items[i + 1] \in Instance
    OBVIOUS
  <2>5. t.array \in Seq(Instance) /\ Len(t.array) = Len(items)
    BY <2>2, <2>3, <2>4
  <2>6. /\ t.array[l + 1] = items[i + 1]
        /\ \A j \in 1..Len(items) : j # l + 1 => t.array[j] = a[j]
    BY <2>2, <2>3
  <2>7. \A j \in i + 2..Len(items) : t.array[j] = items[j]
    BY <2>3, <2>6
  <2>8. \A j \in 1..t.len : \E k \in 1..i + 1 : items[k].phase = status /\ t.array[j] = items[k]
    BY <1>3, <2>2, <2>3, <2>6
  <2>9. \A k \in 1..i + 1 : items[k].phase = status => \E j \in 1..t.len : t.array[j] = items[k]
    BY <2>2, <2>3, <2>6
  <2>10. \A j \in 1..l : a[j] # items[i + 1]
    BY <2>3
  <2>11. \A j, k \in 1..t.len : t.array[j] = t.array[k] => j = k
    BY <2>2, <2>3, <2>6, <2>10
  <2>12. t.len \in 0..i + 1
    BY <2>2, <2>3
  <2>13. i + 2 = (i + 1) + 1
    OBVIOUS
  <2> QED
    BY <2>5, <2>7, <2>8, <2>9, <2>11, <2>12, <2>13 DEF Kept, t
<1> QED
  BY <1>2, <1>3

(* filtered keeps the items in the status asked for, each once.            *)
LEMMA FilteredExactly ==
  ASSUME NEW items \in Seq(Instance), NEW status, IsInjective(items)
  PROVE  /\ filtered(items, status) \in Seq(Instance)
         /\ IsInjective(filtered(items, status))
         /\ Range(filtered(items, status)) = {i \in Range(items) : i.phase = status}
<1> DEFINE n == Len(items)
           loop == CHOOSE f : Loops(f, items, status, n)
           last == loop[n]
           kept == SubSeq(last.array, 1, last.len)
<1>1. Loops(loop, items, status, n)
  BY LoopExists
<1>2. filtered(items, status) = kept
  BY FilteredLoops, Zenon
<1> HIDE DEF loop
<1>3. \A i \in 0..n : loop[i] = IF i = 0 THEN [array |-> items, len |-> 0]
                                ELSE Looked(loop[i - 1], i, status)
  BY <1>1, Zenon DEF Loops
<1>4. \A j, k \in 1..n : items[j] = items[k] => j = k
  BY DEF IsInjective
<1> DEFINE S == {i \in Nat : i <= n => Kept(loop[i], i, items, status)}
<1>5. 0 \in S
  <2>1. loop[0] = [array |-> items, len |-> 0]
    BY <1>3
  <2>2. loop[0].array = items /\ loop[0].len = 0
    BY <2>1
  <2>3. Kept(loop[0], 0, items, status)
    BY <2>2 DEF Kept
  <2> QED
    BY <2>3
<1>6. ASSUME NEW i \in Nat, i \in S PROVE i + 1 \in S
  <2>1. SUFFICES ASSUME i + 1 <= n PROVE Kept(loop[i + 1], i + 1, items, status)
    OBVIOUS
  <2>2. loop[i + 1] = Looked(loop[i], i + 1, status)
    BY <1>3, <2>1
  <2>3. Kept(loop[i], i, items, status)
    BY <1>6, <2>1
  <2> QED
    BY <1>4, <2>1, <2>2, <2>3, KeptStep
<1> HIDE DEF S
<1>7. n \in S
  BY <1>5, <1>6, Induction
<1>8. Kept(last, n, items, status)
  BY <1>7 DEF S
<1> HIDE DEF last
<1> DEFINE a == last.array
           l == last.len
<1>9. /\ a \in Seq(Instance) /\ Len(a) = n /\ l \in 0..n
      /\ \A j \in 1..l : \E k \in 1..n : items[k].phase = status /\ a[j] = items[k]
      /\ \A k \in 1..n : items[k].phase = status => \E j \in 1..l : a[j] = items[k]
      /\ \A j, k \in 1..l : a[j] = a[k] => j = k
  BY <1>8, Zenon DEF Kept
<1>10. kept = SubSeq(a, 1, l)
  OBVIOUS
<1> HIDE DEF a, l, kept
<1>11. kept \in Seq(Instance) /\ Len(kept) = l /\ \A j \in 1..l : kept[j] = a[j]
  BY <1>9, <1>10
<1>12. DOMAIN kept = 1..l /\ DOMAIN items = 1..n
  BY <1>11
<1>13. IsInjective(kept)
  BY <1>9, <1>11, <1>12 DEF IsInjective
<1>14. Range(kept) = {i \in Range(items) : i.phase = status}
  <2>1. ASSUME NEW x \in Range(kept) PROVE x \in Range(items) /\ x.phase = status
    <3>1. PICK j \in 1..l : x = kept[j]
      BY <1>12 DEF Range
    <3>2. PICK k \in 1..n : items[k].phase = status /\ a[j] = items[k]
      BY <1>9
    <3> QED
      BY <1>11, <1>12, <3>1, <3>2 DEF Range
  <2>2. ASSUME NEW x \in Range(items), x.phase = status PROVE x \in Range(kept)
    <3>1. PICK k \in 1..n : x = items[k]
      BY <1>12 DEF Range
    <3>2. PICK j \in 1..l : a[j] = items[k]
      BY <1>9, <2>2, <3>1
    <3> QED
      BY <1>11, <1>12, <3>1, <3>2 DEF Range
  <2> QED
    BY <2>1, <2>2
<1> QED
  BY <1>2, <1>11, <1>13, <1>14

-------------------------------------------------------------------------------

(* Instances come one at a time, and so there are finitely many of them:   *)
(* a list has a last item.                                                 *)
Held(f) == {n \in Names : f[n] # Nil}

Few == IsFiniteSet(Held(instances)) /\ IsFiniteSet(Held(cache))

(* One name more or less leaves them finitely many.                        *)
LEMMA HeldStep ==
  ASSUME NEW f \in [Names -> Instance \cup {Nil}], NEW n \in Names, NEW v,
         IsFiniteSet(Held(f))
  PROVE  IsFiniteSet(Held([f EXCEPT ![n] = v]))
<1>1. Held([f EXCEPT ![n] = v]) \subseteq Held(f) \cup {n}
  BY DEF Held
<1>2. IsFiniteSet(Held(f) \cup {n})
  BY FS_AddElement
<1> QED
  BY <1>1, <1>2, FS_Subset, Zenon

(* Each step stores or deletes one instance at most, or copies them.       *)
LEMMA FewStep ==
  ASSUME ApiTypeOK, Stored, Asked, Few, [Next]_vars
  PROVE  Few'
<1> USE DEF Few
<1>1. ASSUME NEW n \in Names, NEW v, instances' = [instances EXCEPT ![n] = v], UNCHANGED cache
      PROVE  Few'
  <2>1. IsFiniteSet(Held([instances EXCEPT ![n] = v]))
    BY HeldStep DEF ApiTypeOK
  <2>2. instances \in [Names -> Instance \cup {Nil}]
    BY DEF ApiTypeOK
  <2>3. Held(instances') = Held([instances EXCEPT ![n] = v]) /\ Held(cache') = Held(cache)
    BY <1>1
  <2> QED
    BY <2>1, <2>3 DEF Held
<1>2. CASE UNCHANGED <<instances, cache>>
  <2>1. Held(instances)' = Held(instances) /\ Held(cache)' = Held(cache)
    BY <1>2 DEF Held
  <2> QED
    BY <2>1
<1>3. ASSUME NEW r \in Requests, Create(r) PROVE Few'
  <2>1. request[r].ask.triple \in Triples
    BY <1>3, Triple DEF Create
  <2>2. instanceName(request[r].ask.triple) \in Names
    BY <2>1 DEF Names
  <2>3. /\ UNCHANGED cache
        /\ \/ instances' = instances
           \/ \E v : instances' = [instances EXCEPT ![instanceName(request[r].ask.triple)] = v]
    BY <1>3, Zenon DEF Create, Store
  <2> QED
    BY <1>1, <1>2, <2>2, <2>3
<1>4. ASSUME NEW r \in Requests, handleDeleteInstance(r) PROVE Few'
  <2>1. request[r].ask.name \in Names
    BY <1>4, ApiAssumption DEF handleDeleteInstance, Handles, At, Asked, Ask
  <2>2. /\ UNCHANGED cache
        /\ \/ instances' = instances
           \/ instances' = [instances EXCEPT ![request[r].ask.name] = Nil]
    BY <1>4, Zenon DEF handleDeleteInstance
  <2> QED
    BY <1>1, <1>2, <2>1, <2>2
<1>5. ASSUME NEW n \in Names, SetPhase(n) PROVE Few'
  <2>1. PICK p \in Phases : instances' = [instances EXCEPT ![n].phase = p]
    BY <1>5 DEF SetPhase
  <2>2. instances' = [instances EXCEPT ![n] = [instances[n] EXCEPT !.phase = p]]
    BY <2>1
  <2>3. UNCHANGED cache
    BY <1>5 DEF SetPhase
  <2> QED
    BY <1>1, <2>2, <2>3
<1>6. CASE Delivers
  <2>1. Held(instances)' = Held(instances) /\ Held(cache)' = Held(instances)
    BY <1>6 DEF Delivers, Held
  <2> QED
    BY <2>1
<1>7. ASSUME \/ \E r \in Requests :
                  \/ Arrive(r) \/ authMiddleware(r) \/ Leave(r) \/ handleCreateInstance(r)
                  \/ handleListInstances(r) \/ handleGetInstance(r)
             \/ \E h \in Tokens : Revoke(h)
             \/ UNCHANGED vars
      PROVE  UNCHANGED <<instances, cache>>
  BY <1>7 DEF Arrive, authMiddleware, Leave, handleCreateInstance, handleListInstances,
              handleGetInstance, Revoke, vars
<1> QED
  BY <1>2, <1>3, <1>4, <1>5, <1>6, <1>7 DEF Next

(* What the list is filtered from: each instance that matches, once.       *)
LEMMA Listing ==
  ASSUME ApiTypeOK, Few, NEW matching, matching \subseteq Range(cache) \ {Nil},
         NEW items \in SetToSeqs(matching)
  PROVE  /\ items \in Seq(Instance) /\ IsInjective(items)
         /\ Range(items) = matching
<1> DEFINE H == Held(cache)
           f == [n \in H |-> cache[n]]
           all == Range(cache) \ {Nil}
           D == 1..Cardinality(matching)
<1>1. cache \in [Names -> Instance \cup {Nil}] /\ IsFiniteSet(H)
  BY DEF ApiTypeOK, Few
<1>2. f \in Surjection(H, all)
  BY <1>1 DEF Surjection, Held, Range
<1>3. IsFiniteSet(all)
  BY <1>1, <1>2, FS_Surjection
<1>4. matching \subseteq Instance
  BY <1>1 DEF Range
<1> HIDE DEF H, f, all
<1>5. IsFiniteSet(matching)
  BY <1>3, FS_Subset DEF all
<1>6. Cardinality(matching) \in Nat
  BY <1>5, FS_CardinalityType
<1>7. items \in [D -> matching] /\ \A i, j \in D : i # j => items[i] # items[j]
  BY DEF SetToSeqs
<1>8. items \in Injection(D, matching)
  BY <1>7 DEF Injection, IsInjective
<1>9. IsFiniteSet(D) /\ Cardinality(D) = Cardinality(matching)
  BY <1>6, FS_Interval
<1>10. items \in Surjection(D, matching)
  BY <1>5, <1>8, <1>9, FS_Injection
<1>11. Range(items) = matching
  BY <1>7, <1>10 DEF Surjection, Range
<1>12. items \in Seq(Instance)
  BY <1>4, <1>6, <1>7
<1> QED
  BY <1>8, <1>11, <1>12 DEF Injection

(* The instances whose labels are those asked for.                         *)
Labelled(f) == {i \in Range(cache) \ {Nil} : /\ f.team \in {<< >>, i.of.team}
                                             /\ f.challenge \in {<< >>, i.of.template}}

(* What the handler lists.                                                 *)
LEMMA Listed ==
  ASSUME ApiTypeOK, Few, NEW f, NEW items \in SetToSeqs(Labelled(f)),
         NEW answer, answer = IF f.status = Nil THEN items ELSE filtered(items, f.status)
  PROVE  /\ answer \in Seq(Instance) /\ IsInjective(answer)
         /\ Range(answer) = {i \in Labelled(f) : f.status \in {Nil, i.phase}}
<1>1. Labelled(f) \subseteq Range(cache) \ {Nil}
  BY DEF Labelled
<1>2. items \in Seq(Instance) /\ IsInjective(items) /\ Range(items) = Labelled(f)
  BY <1>1, Listing
<1>3. CASE f.status = Nil
  BY <1>2, <1>3
<1>4. CASE f.status # Nil
  <2>1. answer = filtered(items, f.status)
    BY <1>4
  <2>2. /\ filtered(items, f.status) \in Seq(Instance)
        /\ IsInjective(filtered(items, f.status))
        /\ Range(filtered(items, f.status)) = {i \in Range(items) : i.phase = f.status}
    BY <1>2, FilteredExactly
  <2> QED
    BY <1>2, <1>4, <2>1, <2>2
<1> QED
  BY <1>3, <1>4

(* handleListInstances answers with an error or with the labelled          *)
(* instances, filtered.                                                    *)
LEMMA HandlesList ==
  ASSUME NEW r \in Requests, handleListInstances(r)
  PROVE  \/ Answer(r, "error")
         \/ \E items, answer :
              /\ items \in SetToSeqs(Labelled(request[r].ask))
              /\ answer = IF request[r].ask.status = Nil THEN items
                          ELSE filtered(items, request[r].ask.status)
              /\ AnswerItems(r, "listed", answer)
BY Zenon DEF handleListInstances, Labelled

(* Every answer is one of the answers, and its items are instances.        *)
LEMMA Typed ==
  ASSUME ApiTypeOK, NEW r \in Requests, NEW a \in Answers, NEW items \in Seq(Instance),
         request[r] # Nil, request[r].ask \in Asks, AnswerItems(r, a, items)
  PROVE  request' \in [Requests -> Request \cup {Nil}]
<1> DEFINE v == [pc |-> "answered", ask |-> request[r].ask, answer |-> a, items |-> items]
<1>1. v \in Request
  BY DEF Request
<1>2. request' = [request EXCEPT ![r] = v]
  BY Zenon DEF AnswerItems
<1> HIDE DEF v
<1> QED
  BY <1>1, <1>2 DEF ApiTypeOK

(* Each handler leaves its request typed.                                  *)
LEMMA TypedStep ==
  ASSUME ApiTypeOK, Asked, Few, [Next]_vars
  PROVE  request' \in [Requests -> Request \cup {Nil}]
<1>1. ASSUME NEW r \in Requests, NEW a \in Answers, Answer(r, a), request[r] # Nil,
             request[r].ask \in Asks
      PROVE  request' \in [Requests -> Request \cup {Nil}]
  <2>1. << >> \in Seq(Instance)
    OBVIOUS
  <2> QED
    BY <1>1, <2>1, Typed, Zenon DEF Answer
<1>2. ASSUME NEW r \in Requests, NEW pc \in {"handle", "create"}, Goes(r, pc),
             request[r].ask \in Asks
      PROVE  request' \in [Requests -> Request \cup {Nil}]
  <2> DEFINE v == [pc |-> pc, ask |-> request[r].ask]
  <2>1. v \in Request
    BY <1>2 DEF Request
  <2>2. request' = [request EXCEPT ![r] = v]
    BY <1>2, Zenon DEF Goes
  <2> HIDE DEF v
  <2> QED
    BY <2>1, <2>2 DEF ApiTypeOK
<1>3. ASSUME NEW r \in Requests, Arrive(r) PROVE request' \in [Requests -> Request \cup {Nil}]
  <2>1. PICK h \in Tokens \cup {Key, ""}, a \in Asks :
          request' = [request EXCEPT ![r] = [pc |-> "auth", header |-> h, ask |-> a]]
    BY <1>3 DEF Arrive
  <2> DEFINE v == [pc |-> "auth", header |-> h, ask |-> a]
  <2>2. v \in Request
    BY DEF Request
  <2>3. request' = [request EXCEPT ![r] = v]
    BY <2>1, Zenon
  <2> HIDE DEF v
  <2> QED
    BY <2>2, <2>3 DEF ApiTypeOK
<1>4. ASSUME NEW r \in Requests, Leave(r) PROVE request' \in [Requests -> Request \cup {Nil}]
  BY <1>4 DEF Leave, ApiTypeOK
<1>5. ASSUME NEW r \in Requests, authMiddleware(r)
      PROVE  request' \in [Requests -> Request \cup {Nil}]
  <2>1. Goes(r, "handle") \/ Answer(r, "unauthorized")
    BY <1>5, Zenon DEF authMiddleware
  <2>2. request[r] # Nil /\ request[r].ask \in Asks
    BY <1>5 DEF authMiddleware, At, Asked
  <2> QED
    BY <1>1, <1>2, <2>1, <2>2 DEF Answers
<1>6. ASSUME NEW r \in Requests,
             \/ handleCreateInstance(r) \/ Create(r) \/ handleListInstances(r)
             \/ handleGetInstance(r) \/ handleDeleteInstance(r)
      PROVE  request[r] # Nil /\ request[r].ask \in Asks
  BY <1>6 DEF handleCreateInstance, Create, handleListInstances, handleGetInstance,
              handleDeleteInstance, Handles, At, Asked
<1>7. ASSUME NEW r \in Requests, handleListInstances(r)
      PROVE  request' \in [Requests -> Request \cup {Nil}]
  <2>1. request[r] # Nil /\ request[r].ask \in Asks
    BY <1>6, <1>7
  <2>2. CASE Answer(r, "error")
    BY <1>1, <2>1, <2>2 DEF Answers
  <2>3. ASSUME NEW items \in SetToSeqs(Labelled(request[r].ask)), NEW answer,
               answer = IF request[r].ask.status = Nil THEN items
                        ELSE filtered(items, request[r].ask.status),
               AnswerItems(r, "listed", answer)
        PROVE  request' \in [Requests -> Request \cup {Nil}]
    <3>1. answer \in Seq(Instance)
      BY <2>3, Listed
    <3>2. "listed" \in Answers
      BY DEF Answers
    <3> QED
      BY <2>1, <2>3, <3>1, <3>2, Typed
  <2> QED
    BY <1>7, <2>2, <2>3, HandlesList
<1>8. ASSUME NEW r \in Requests,
             \/ handleCreateInstance(r) \/ Create(r)
             \/ handleGetInstance(r) \/ handleDeleteInstance(r)
      PROVE  request' \in [Requests -> Request \cup {Nil}]
  <2>1. Goes(r, "create") \/ \E a \in Answers : Answer(r, a)
    BY <1>8 DEF handleCreateInstance, Create, handleGetInstance, handleDeleteInstance, Answers
  <2>2. request[r] # Nil /\ request[r].ask \in Asks
    BY <1>6, <1>8
  <2> QED
    BY <1>1, <1>2, <2>1, <2>2
<1>9. ASSUME \/ \E n \in Names : SetPhase(n)
             \/ \E h \in Tokens : Revoke(h)
             \/ Delivers
             \/ UNCHANGED vars
      PROVE  request' \in [Requests -> Request \cup {Nil}]
  BY <1>9 DEF SetPhase, Revoke, Delivers, vars, ApiTypeOK
<1> QED
  BY <1>3, <1>4, <1>5, <1>7, <1>8, <1>9 DEF Next

(* The backend stays, and tokens are only withdrawn.                       *)
LEMMA RestTyped ==
  ASSUME ApiTypeOK, [Next]_vars
  PROVE  backend' \in {"generic", "ctfd"} /\ valid' \subseteq Tokens
<1>1. backend' = backend /\ valid' \subseteq valid
  BY DEF Next, vars, Arrive, authMiddleware, Leave, handleCreateInstance, Create,
         handleListInstances, handleGetInstance, handleDeleteInstance, SetPhase, Revoke, Delivers
<1> QED
  BY <1>1 DEF ApiTypeOK

(* The cache stays, or is what is stored.                                  *)
LEMMA CacheTyped ==
  ASSUME ApiTypeOK, [Next]_vars
  PROVE  cache' \in [Names -> Instance \cup {Nil}]
<1>1. cache' \in {cache, instances}
  BY DEF Next, vars, Arrive, authMiddleware, Leave, handleCreateInstance, Create,
         handleListInstances, handleGetInstance, handleDeleteInstance, SetPhase, Revoke, Delivers
<1> QED
  BY <1>1 DEF ApiTypeOK

(* The inductive invariant.                                                *)
ApiInv == ApiTypeOK /\ Stored /\ Asked /\ Few

(* The parts need each other: a list is typed because the cache is finite. *)
LEMMA ApiInvStep ==
  ASSUME ApiInv, [Next]_vars
  PROVE  ApiInv'
<1>1. ApiTypeOK /\ Stored /\ Asked /\ Few
  BY DEF ApiInv
<1>2. Stored' /\ Asked' /\ Few'
  BY <1>1, StoredStep, AskedStep, FewStep
<1>3. ApiTypeOK'
  BY <1>1, <1>2, TypedStep, RestTyped, CacheTyped DEF ApiTypeOK, Stored
<1> QED
  BY <1>2, <1>3 DEF ApiInv

(* The invariant holds of every interleaving of requests, writes of the    *)
(* controllers and deliveries to the cache (the handlers of internal/api). *)
THEOREM ApiInvariance == Spec => []ApiInv
<1>1. Init => ApiInv
  <2> SUFFICES ASSUME Init PROVE ApiInv
    OBVIOUS
  <2>1. Held(instances) = {} /\ Held(cache) = {}
    BY DEF Init, Held
  <2>2. Few
    BY <2>1, FS_EmptySet DEF Few
  <2> QED
    BY <2>2 DEF Init, ApiInv, ApiTypeOK, Stored, Asked
<1>2. ApiInv /\ [Next]_vars => ApiInv'
  BY ApiInvStep
<1> QED
  BY <1>1, <1>2, PTL DEF Spec

(* Every request is in a state of its handler, and every list is made of   *)
(* instances (authMiddleware and the handlers).                            *)
THEOREM ApiTypes == Spec => []ApiTypeOK
<1>1. ApiInv => ApiTypeOK
  BY DEF ApiInv
<1> QED
  BY <1>1, ApiInvariance, PTL

(* A list that is answered is what its handler made of the cache.          *)
LEMMA ListStep ==
  ASSUME ApiInv, [Next]_vars, NEW r \in Requests, Handles(r, {"list"}),
         request'[r].pc = "answered", request'[r].answer = "listed"
  PROVE  LET f == request[r].ask
             items == request'[r].items
         IN  /\ IsInjective(items)
             /\ Range(items) = {i \in Range(cache) \ {Nil} :
                                  /\ f.team \in {<< >>, i.of.team}
                                  /\ f.challenge \in {<< >>, i.of.template}
                                  /\ f.status \in {Nil, i.phase}}
<1> USE DEF ApiInv
<1>1. /\ At(r, "handle") /\ request[r].ask.op = "list"
  BY DEF Handles
<1>2. request'[r] # request[r]
  BY <1>1 DEF At
<1>3. handleListInstances(r)
  <2>1. \/ Arrive(r) \/ authMiddleware(r) \/ Leave(r)
        \/ handleCreateInstance(r) \/ Create(r)
        \/ handleListInstances(r) \/ handleGetInstance(r) \/ handleDeleteInstance(r)
    BY <1>2, OwnStep
  <2> QED
    BY <1>1, <2>1 DEF Arrive, authMiddleware, Leave, handleCreateInstance, Create,
                      handleGetInstance, handleDeleteInstance, Handles, At
<1>4. ASSUME NEW a, NEW items, AnswerItems(r, a, items)
      PROVE  request'[r].answer = a /\ request'[r].items = items
  BY <1>4 DEF AnswerItems, Asked
<1>5. ~Answer(r, "error")
  BY <1>4 DEF Answer
<1>6. PICK items, answer :
        /\ items \in SetToSeqs(Labelled(request[r].ask))
        /\ answer = IF request[r].ask.status = Nil THEN items
                    ELSE filtered(items, request[r].ask.status)
        /\ AnswerItems(r, "listed", answer)
  BY <1>3, <1>5, HandlesList
<1>7. request'[r].items = answer
  BY <1>4, <1>6
<1>8. /\ IsInjective(answer)
      /\ Range(answer) = {i \in Labelled(request[r].ask) : request[r].ask.status \in {Nil, i.phase}}
  BY <1>6, Listed
<1> QED
  BY <1>7, <1>8 DEF Labelled

(* A list has every instance of the cache that is asked for, and each      *)
(* once, however many there are (handleListInstances).                     *)
THEOREM ListsAreExact == Spec => ListExact
<1>1. ApiInv /\ [Next]_vars =>
        [\A r \in Requests :
           Handles(r, {"list"}) /\ request'[r].pc = "answered" /\ request'[r].answer = "listed" =>
             LET f == request[r].ask
                 items == request'[r].items
             IN  /\ IsInjective(items)
                 /\ Range(items) = {i \in Range(cache) \ {Nil} :
                                      /\ f.team \in {<< >>, i.of.team}
                                      /\ f.challenge \in {<< >>, i.of.template}
                                      /\ f.status \in {Nil, i.phase}}]_vars
  BY ListStep
<1> QED
  BY <1>1, ApiInvariance, PTL DEF Spec, ListExact
===============================================================================
