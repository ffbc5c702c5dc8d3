----------------------------- MODULE ProofOfWork -----------------------------
(***************************************************************************)
(* Proof-of-work puzzles of the REST API: a puzzle is issued, kept in a    *)
(* map guarded by powMu, and pays for the creation of an instance.  Every  *)
(* request runs in a goroutine of its own; consumePoW takes the puzzle out *)
(* of the map under the lock and checks it after releasing the lock.  The  *)
(* puzzles live in the memory of one process and are lost with it.         *)
(***************************************************************************)
EXTENDS Integers, Sequences

CONSTANTS
  Nil,          \* no puzzle, no name
  Puzzles,      \* the random challenges that may be drawn
  Difficulty,   \* Difficulty[p]: what the template p is drawn for asks
  Hashes,       \* hashes of a challenge and a nonce, as bytes
  Requests,     \* goroutines serving POST /api/v1/instances
  Names,        \* instance names
  PuzzleLife,   \* the five minutes a puzzle is good for, in ticks
  MaxTime,      \* bound on the clock
  MaxCreated,   \* bound on the instances created
  MaxRestarts   \* bound on restarts of the process

ASSUME PuzzleNil == Nil \notin Int \cup Puzzles \cup Names \cup Hashes
ASSUME PuzzleWork == Difficulty \in [Puzzles -> Int] /\ Hashes \subseteq Seq(0..255)
ASSUME PuzzleBounds == {PuzzleLife, MaxTime, MaxCreated, MaxRestarts} \subseteq Nat

VARIABLES
  now,        \* the clock
  issued,     \* issued[p]: when p expires, or Nil if p was never issued
  puzzles,    \* the challenges in the server's map
  request,    \* request[r]: what goroutine r is doing
  instances,  \* names of the instances that exist
  paid,       \* paid[p]: how many instances p has paid for
  restarts    \* restarts so far

vars == <<now, issued, puzzles, request, instances, paid, restarts>>

Free == [pc |-> "free", puzzle |-> Nil, hash |-> Nil, name |-> Nil]

PoWTypeOK ==
  /\ now \in 0..MaxTime
  /\ issued \in [Puzzles -> Nat \cup {Nil}]
  /\ puzzles \subseteq Puzzles
  /\ request \in [Requests -> [pc : {"free", "consume", "verify", "create"},
                               puzzle : Puzzles \cup {Nil}, hash : Hashes \cup {Nil},
                               name : Names \cup {Nil}]]
  /\ instances \subseteq Names
  /\ paid \in [Puzzles -> Nat]
  /\ restarts \in 0..MaxRestarts

Init ==
  /\ now = 0
  /\ issued = [p \in Puzzles |-> Nil]
  /\ puzzles = {}
  /\ request = [r \in Requests |-> Free]
  /\ instances = {}
  /\ paid = [p \in Puzzles |-> 0]
  /\ restarts = 0

Serve(r, q) == request' = [request EXCEPT ![r] = q]

Tick ==
  /\ now < MaxTime
  /\ now' = now + 1
  /\ UNCHANGED <<issued, puzzles, request, instances, paid, restarts>>

(* Fault: the puzzle is born expired.                                      *)
GenerateExpired(p) ==
  /\ issued[p] = Nil
  /\ issued' = [issued EXCEPT ![p] = now - PuzzleLife]

(* A random challenge, which nobody has drawn before.                      *)
GeneratePoWPuzzle(p) ==
  /\ issued[p] = Nil
  /\ issued' = [issued EXCEPT ![p] = now + PuzzleLife]

storePoW(p) == puzzles' = puzzles \cup {p}

(* For a template that asks for work.                                      *)
handlePoWChallenge(p) ==
  /\ GeneratePoWPuzzle(p)
  /\ storePoW(p)
  /\ UNCHANGED <<now, request, instances, paid, restarts>>

(* handleCreateInstance, up to consumePoW: a request for a ready template  *)
(* that asks for work, with a challenge and a nonce of the client's        *)
(* choice.                                                                 *)
Accept(r) ==
  /\ request[r] = Free
  /\ \E p \in Puzzles, h \in Hashes, n \in Names :
       Serve(r, [pc |-> "consume", puzzle |-> p, hash |-> h, name |-> n])
  /\ UNCHANGED <<now, issued, puzzles, instances, paid, restarts>>

(* Fault: the critical section only looks the puzzle up.                   *)
LookUp(r) ==
  LET q == request[r]
  IN  /\ q.pc = "consume"
      /\ Serve(r, IF q.puzzle \in puzzles THEN [q EXCEPT !.pc = "verify"] ELSE Free)
      /\ UNCHANGED <<now, issued, puzzles, instances, paid, restarts>>

(* The critical section of consumePoW; an unknown puzzle is refused.       *)
Take(r) ==
  LET q == request[r]
  IN  /\ q.pc = "consume"
      /\ Serve(r, IF q.puzzle \in puzzles THEN [q EXCEPT !.pc = "verify"] ELSE Free)
      /\ puzzles' = puzzles \ {q.puzzle}
      /\ UNCHANGED <<now, issued, instances, paid, restarts>>

Bit(b, i) == (b \div 2^i) % 2

(* The inner loop, for a byte that is not zero: from bit 7 down.           *)
ByteZeroBits(b) ==
  LET scan[i \in -1..7] == IF i >= 0 /\ Bit(b, i) = 0 THEN 1 + scan[i - 1] ELSE 0
  IN  scan[7]

(* Fault: a bit that is set ends the count in its own byte only.           *)
countOnward(hash) ==
  LET scan[k \in 1..Len(hash) + 1] ==
        IF k > Len(hash) THEN 0
        ELSE IF hash[k] = 0 THEN 8 + scan[k + 1]
        ELSE ByteZeroBits(hash[k]) + scan[k + 1]
  IN  scan[1]

(* scan[k] counts from byte k on.                                          *)
countLeadingZeroBits(hash) ==
  LET scan[k \in 1..Len(hash) + 1] ==
        IF k > Len(hash) THEN 0
        ELSE IF hash[k] = 0 THEN 8 + scan[k + 1]
        ELSE ByteZeroBits(hash[k])
  IN  scan[1]

VerifyPoW(q) == countLeadingZeroBits(q.hash) >= Difficulty[q.puzzle]

Good(q) == now <= issued[q.puzzle] /\ VerifyPoW(q)

(* The rest of consumePoW, without the lock.                               *)
Verify(r) ==
  LET q == request[r]
  IN  /\ q.pc = "verify"
      /\ Serve(r, IF Good(q) THEN [q EXCEPT !.pc = "create"] ELSE Free)
      /\ UNCHANGED <<now, issued, puzzles, instances, paid, restarts>>

Create(r) ==
  LET q == request[r]
  IN  /\ q.pc = "create"
      /\ q.name \notin instances
      /\ paid[q.puzzle] < MaxCreated
      /\ instances' = instances \cup {q.name}
      /\ paid' = [paid EXCEPT ![q.puzzle] = @ + 1]
      /\ Serve(r, Free)
      /\ UNCHANGED <<now, issued, puzzles, restarts>>

(* AlreadyExists, or another error of the API server: the puzzle is gone.  *)
CreateFails(r) ==
  /\ request[r].pc = "create"
  /\ Serve(r, Free)
  /\ UNCHANGED <<now, issued, puzzles, instances, paid, restarts>>

handleDeleteInstance(n) ==
  /\ n \in instances
  /\ instances' = instances \ {n}
  /\ UNCHANGED <<now, issued, puzzles, request, paid, restarts>>

Restart ==
  /\ restarts < MaxRestarts
  /\ restarts' = restarts + 1
  /\ puzzles' = {}
  /\ request' = [r \in Requests |-> Free]
  /\ UNCHANGED <<now, issued, instances, paid>>

Next ==
  \/ Tick
  \/ \E p \in Puzzles : handlePoWChallenge(p)
  \/ \E r \in Requests : Accept(r) \/ Take(r) \/ Verify(r) \/ Create(r) \/ CreateFails(r)
  \/ \E n \in Names : handleDeleteInstance(n)
  \/ Restart

Spec == Init /\ [][Next]_vars

(***************************************************************************)
(* Safety.                                                                 *)
(***************************************************************************)

(* A puzzle pays for one instance at most, however many requests present   *)
(* it at the same time and though the instance it paid for may be deleted  *)
(* and asked for again (consumePoW: "so it can't be replayed").            *)
OneInstancePerPuzzle == \A p \in Puzzles : paid[p] <= 1

(* The hash as a number, big-endian.                                       *)
Value(hash) ==
  LET value[k \in 0..Len(hash)] == IF k = 0 THEN 0 ELSE 256 * value[k - 1] + hash[k]
  IN  value[Len(hash)]

(* Whether the hash is below the target of a difficulty.  One of zero or   *)
(* below asks for no work, and one above the bits of a hash for too much.  *)
Solves(hash, difficulty) ==
  \/ difficulty <= 0
  \/ /\ difficulty <= 8 * Len(hash)
     /\ Value(hash) < 2^(8 * Len(hash) - difficulty)

(* The check passes on exactly the nonces that solve the puzzle, those     *)
(* whose hash is below the target of its difficulty, and while the puzzle  *)
(* lasts: hashes of zeros only and difficulties at a byte's end included.  *)
(* A template may have any difficulty (VerifyPoW and countLeadingZeroBits).*)
WorkDecides ==
  [][\A r \in Requests :
       LET q == request[r]
       IN  q.pc = "verify" /\ request'[r] # q /\ restarts' = restarts =>
             (request'[r].pc = "create" <=>
                now <= issued[q.puzzle] /\ Solves(q.hash, Difficulty[q.puzzle]))]_vars

(* The requests that have p in hand.                                       *)
Holders(p) == {r \in Requests : request[r].pc \in {"verify", "create"}
                                /\ request[r].puzzle = p}

(* A puzzle is in the map, in the hands of one request, or spent, and in   *)
(* one of these only; nobody holds what was not issued (storePoW and the   *)
(* critical section of consumePoW).                                        *)
PuzzleInOnePlace ==
  \A p \in Puzzles :
    /\ p \in puzzles => Holders(p) = {} /\ paid[p] = 0
    /\ Holders(p) # {} => paid[p] = 0
    /\ \A r, s \in Holders(p) : r = s
    /\ issued[p] = Nil => p \notin puzzles /\ Holders(p) = {} /\ paid[p] = 0
=============================================================================
