-------------------------- MODULE ProofOfWorkProofs --------------------------
(***************************************************************************)
(* Proofs about ProofOfWork, for any puzzles, requests, names and bounds.  *)
(***************************************************************************)
EXTENDS ProofOfWork, FiniteSetTheorems, FunctionTheorems, TLAPS

(* A request being served has a challenge, a hash and a name.              *)
Served == \A r \in Requests : request[r].pc # "free" =>
            /\ request[r].puzzle \in Puzzles /\ request[r].hash \in Hashes
            /\ request[r].name \in Names

Inv == PoWTypeOK /\ Served /\ PuzzleInOnePlace /\ OneInstancePerPuzzle

(* Whether request r has puzzle p in hand.                                 *)
Holds(r, p) == request[r].pc \in {"verify", "create"} /\ request[r].puzzle = p

(* The invariant, without the set of holders.                              *)
OnePlace ==
  \A p \in Puzzles :
    /\ p \in puzzles => (\A r \in Requests : ~Holds(r, p)) /\ paid[p] = 0
    /\ \A r \in Requests : Holds(r, p) => paid[p] = 0
    /\ \A r, s \in Requests : Holds(r, p) /\ Holds(s, p) => r = s
    /\ issued[p] = Nil => p \notin puzzles /\ (\A r \in Requests : ~Holds(r, p)) /\ paid[p] = 0

(* The two ways to put it are the same.                                    *)
LEMMA OnePlaceEquiv == PuzzleInOnePlace <=> OnePlace
BY DEF PuzzleInOnePlace, OnePlace, Holders, Holds

(* A puzzle leaves the map when a request takes it, is handed on by the    *)
(* checks, and is spent when the request is done.                          *)
LEMMA PuzzleStep == ASSUME Inv, [Next]_vars PROVE Inv'
<1> USE DEF Inv
<1>1. PoWTypeOK /\ Served /\ OnePlace /\ OneInstancePerPuzzle
  BY OnePlaceEquiv
<1>2. (PuzzleInOnePlace <=> OnePlace)'
  BY DEF PuzzleInOnePlace, OnePlace, Holders, Holds
<1> SUFFICES PoWTypeOK' /\ Served' /\ OnePlace' /\ OneInstancePerPuzzle'
  BY <1>2
<1> USE DEF PoWTypeOK, Served, OnePlace, OneInstancePerPuzzle, Holds
<1>3. CASE Tick
  BY <1>1, <1>3, PuzzleBounds DEF Tick
<1>4. ASSUME NEW p \in Puzzles, handlePoWChallenge(p)
      PROVE  PoWTypeOK' /\ Served' /\ OnePlace' /\ OneInstancePerPuzzle'
  <2>1. now + PuzzleLife \in Nat /\ now + PuzzleLife # Nil
    BY <1>1, PuzzleNil, PuzzleBounds
  <2> QED
    BY <1>1, <1>4, <2>1, PuzzleBounds DEF handlePoWChallenge, GeneratePoWPuzzle, storePoW
<1>5. ASSUME NEW r \in Requests, Accept(r)
      PROVE  PoWTypeOK' /\ Served' /\ OnePlace' /\ OneInstancePerPuzzle'
  BY <1>1, <1>5 DEF Accept, Serve
<1>6. ASSUME NEW r \in Requests, Take(r)
      PROVE  PoWTypeOK' /\ Served' /\ OnePlace' /\ OneInstancePerPuzzle'
  BY <1>1, <1>6 DEF Take, Serve, Free
<1>7. ASSUME NEW r \in Requests, Verify(r)
      PROVE  PoWTypeOK' /\ Served' /\ OnePlace' /\ OneInstancePerPuzzle'
  <2> DEFINE q == request[r]
             q2 == IF Good(q) THEN [q EXCEPT !.pc = "create"] ELSE Free
  <2>1. q.pc = "verify" /\ q.puzzle \in Puzzles \cup {Nil} /\ request' = [request EXCEPT ![r] = q2]
        /\ UNCHANGED <<now, issued, puzzles, instances, paid, restarts>>
    BY <1>1, <1>7 DEF Verify, Serve
  <2>2. /\ q2 \in [pc : {"free", "consume", "verify", "create"},
                  puzzle : Puzzles \cup {Nil}, hash : Hashes \cup {Nil}, name : Names \cup {Nil}]
        /\ q2.pc = "create" => q2.puzzle = q.puzzle /\ q2.hash = q.hash /\ q2.name = q.name
        /\ q2.pc \in {"create", "free"}
    BY <1>1, <2>1 DEF Free
  <2> HIDE DEF q2
  <2>3. \A s \in Requests, p \in Puzzles : Holds(s, p)' => Holds(s, p)
    BY <1>1, <2>1, <2>2
  <2>4. PoWTypeOK'
    BY <1>1, <2>1, <2>2
  <2>5. Served'
    BY <1>1, <2>1, <2>2
  <2>6. OnePlace' /\ OneInstancePerPuzzle'
    BY <1>1, <2>1, <2>3
  <2> QED
    BY <2>4, <2>5, <2>6
<1>8. ASSUME NEW r \in Requests, Create(r)
      PROVE  PoWTypeOK' /\ Served' /\ OnePlace' /\ OneInstancePerPuzzle'
  <2> DEFINE q == request[r]
  <2>1. /\ q.pc = "create" /\ request' = [request EXCEPT ![r] = Free]
        /\ paid' = [paid EXCEPT ![q.puzzle] = @ + 1]
        /\ instances' = instances \cup {q.name}
        /\ UNCHANGED <<now, issued, puzzles, restarts>>
    BY <1>8 DEF Create, Serve
  <2>2. q.puzzle \in Puzzles /\ q.name \in Names
    BY <1>1, <2>1 DEF Served
  <2>3. Holds(r, q.puzzle) /\ paid[q.puzzle] = 0 /\ q.puzzle \notin puzzles
        /\ issued[q.puzzle] # Nil
    BY <1>1, <2>1, <2>2
  <2>4. \A s \in Requests : \A p \in Puzzles : Holds(s, p)' => Holds(s, p) /\ p # q.puzzle
    BY <1>1, <2>1, <2>3 DEF Free
  <2>5. paid' \in [Puzzles -> Nat] /\ paid'[q.puzzle] = 1
        /\ \A p \in Puzzles \ {q.puzzle} : paid'[p] = paid[p]
    BY <1>1, <2>1, <2>2, <2>3
  <2>6. PoWTypeOK'
    BY <1>1, <2>1, <2>2, <2>5 DEF Free
  <2>7. OneInstancePerPuzzle'
    BY <1>1, <2>5
  <2>8. OnePlace'
    BY <1>1, <2>1, <2>3, <2>4, <2>5
  <2>9. Served'
    BY <1>1, <2>1 DEF Free
  <2> QED
    BY <2>6, <2>7, <2>8, <2>9
<1>9. ASSUME NEW r \in Requests, CreateFails(r)
      PROVE  PoWTypeOK' /\ Served' /\ OnePlace' /\ OneInstancePerPuzzle'
  BY <1>1, <1>9 DEF CreateFails, Serve, Free
<1>10. ASSUME NEW n \in Names, handleDeleteInstance(n)
       PROVE  PoWTypeOK' /\ Served' /\ OnePlace' /\ OneInstancePerPuzzle'
  BY <1>1, <1>10 DEF handleDeleteInstance
<1>11. CASE Restart
  BY <1>1, <1>11, PuzzleBounds DEF Restart, Free
<1>12. CASE UNCHANGED vars
  BY <1>1, <1>12 DEF vars
<1> QED
  BY <1>3, <1>4, <1>5, <1>6, <1>7, <1>8, <1>9, <1>10, <1>11, <1>12 DEF Next

(* The invariant holds of every interleaving of requests and restarts.     *)
THEOREM PuzzleInvariance == Spec => []Inv
<1>1. Init => Inv
  BY PuzzleBounds
     DEF Init, Inv, PoWTypeOK, Served, PuzzleInOnePlace, OneInstancePerPuzzle, Holders, Free
<1>2. Inv /\ [Next]_vars => Inv'
  BY PuzzleStep
<1> QED
  BY <1>1, <1>2, PTL DEF Spec

(* Puzzles and requests keep their types (handlePoWChallenge, consumePoW). *)
THEOREM PuzzleTypes == Spec => []PoWTypeOK
<1>1. Inv => PoWTypeOK
  BY DEF Inv
<1> QED
  BY <1>1, PuzzleInvariance, PTL

(* A puzzle is always in one place only (storePoW, consumePoW).            *)
THEOREM PuzzleHasOnePlace == Spec => []PuzzleInOnePlace
<1>1. Inv => PuzzleInOnePlace
  BY DEF Inv
<1> QED
  BY <1>1, PuzzleInvariance, PTL

(* No puzzle is replayed: it pays for one instance at most (consumePoW,    *)
(* handleCreateInstance).                                                  *)
THEOREM NoReplay == Spec => []OneInstancePerPuzzle
<1>1. Inv => OneInstancePerPuzzle
  BY DEF Inv
<1> QED
  BY <1>1, PuzzleInvariance, PTL

-----------------------------------------------------------------------------

(* What holds of 0, and of n + 1 if it does of n, holds of every number:   *)
(* a set of numbers without it would have a least one.                     *)
LEMMA Induction ==
  ASSUME NEW S, 0 \in S, \A n \in Nat : n \in S => n + 1 \in S
  PROVE  Nat \subseteq S
<1> DEFINE T == Nat \ S
           R == OpToRel(<, Nat)
<1>1. IsWellFoundedOn(R, Nat)
  BY NatLessThanWellFounded
<1>2. \A x, y \in Nat : <<y, x>> \in R <=> y < x
  BY DEF OpToRel
<1> HIDE DEF R
<1>3. SUFFICES ASSUME T # {} PROVE FALSE
  OBVIOUS
<1>4. PICK x \in T : \A y \in T : ~ (<<y, x>> \in R)
  <2> T \subseteq Nat
    OBVIOUS
  <2> HIDE DEF T
  <2> QED
    BY <1>1, <1>3, WFMin
<1>5. x # 0 /\ x - 1 \in Nat /\ x - 1 < x /\ (x - 1) + 1 = x
  BY <1>4
<1>6. x - 1 \in S
  BY <1>2, <1>4, <1>5
<1> QED
  BY <1>4, <1>5, <1>6

(* 2^n counts the subsets of 1..n: one more number doubles them.           *)
LEMMA PowerDoubles ==
  ASSUME NEW n \in Nat
  PROVE  2^n \in Nat /\ 2^(n + 1) = 2 * 2^n
<1> DEFINE A == SUBSET (1..n)
           B == SUBSET (1..n + 1)
           f == [z \in A \X {0, 1} |-> IF z[2] = 0 THEN z[1] ELSE z[1] \cup {n + 1}]
<1>1. /\ IsFiniteSet(1..n) /\ Cardinality(1..n) = n
      /\ IsFiniteSet(1..n + 1) /\ Cardinality(1..n + 1) = n + 1
  BY FS_Interval
<1>2. IsFiniteSet(A) /\ Cardinality(A) = 2^n /\ IsFiniteSet(B) /\ Cardinality(B) = 2^(n + 1)
  BY <1>1, FS_SUBSET
<1>3. IsFiniteSet({0, 1}) /\ Cardinality({0, 1}) = 2
  <2>1. {0, 1} = {0} \cup {1} /\ 1 \notin {0}
    OBVIOUS
  <2>2. IsFiniteSet({0}) /\ Cardinality({0}) = 1
    BY FS_Singleton
  <2>3. IsFiniteSet({0} \cup {1}) /\ Cardinality({0} \cup {1}) = 1 + 1
    BY <2>1, <2>2, FS_AddElement
  <2> QED
    BY <2>1, <2>3
<1>4. IsFiniteSet(A \X {0, 1}) /\ Cardinality(A \X {0, 1}) = 2^n * 2
  <2> HIDE DEF A
  <2>1. /\ IsFiniteSet(A \X {0, 1})
        /\ Cardinality(A \X {0, 1}) = Cardinality(A) * Cardinality({0, 1})
    BY <1>2, <1>3, FS_Product, Zenon
  <2> QED
    BY <1>2, <1>3, <2>1, Zenon
<1>5. f \in Bijection(A \X {0, 1}, B)
  <2>1. f \in [A \X {0, 1} -> B]
    OBVIOUS
  <2>2. ASSUME NEW s \in A PROVE f[<<s, 0>>] = s /\ f[<<s, 1>>] = s \cup {n + 1}
    <3>1. ASSUME NEW i \in {0, 1}
          PROVE  f[<<s, i>>] = IF i = 0 THEN s ELSE s \cup {n + 1}
      OBVIOUS
    <3> HIDE DEF f
    <3> QED
      BY <3>1
  <2>3. \A s \in A : n + 1 \notin s
    OBVIOUS
  <2>4. ASSUME NEW u \in B PROVE \E z \in A \X {0, 1} : f[z] = u
    <3>1. CASE n + 1 \in u
      <4> DEFINE s == u \ {n + 1}
      <4>1. s \in A /\ u = s \cup {n + 1}
        BY <3>1
      <4> HIDE DEF s
      <4> QED
        BY <2>2, <4>1
    <3>2. CASE n + 1 \notin u
      <4>1. u \in A
        BY <3>2
      <4> QED
        BY <2>2, <4>1
    <3> QED
      BY <3>1, <3>2
  <2> HIDE DEF f, A, B
  <2>5. ASSUME NEW s \in A, NEW i \in {0, 1}
        PROVE  f[<<s, i>>] \ {n + 1} = s /\ (n + 1 \in f[<<s, i>>] <=> i = 1)
    BY <2>2, <2>3
  <2>6. ASSUME NEW y \in A \X {0, 1}, NEW z \in A \X {0, 1}, f[y] = f[z] PROVE y = z
    <3>1. PICK s \in A, i \in {0, 1} : y = <<s, i>>
      OBVIOUS
    <3>2. PICK t \in A, j \in {0, 1} : z = <<t, j>>
      OBVIOUS
    <3>3. f[y] \ {n + 1} = s /\ (n + 1 \in f[y] <=> i = 1)
      BY <2>5, <3>1
    <3>4. f[z] \ {n + 1} = t /\ (n + 1 \in f[z] <=> j = 1)
      BY <2>5, <3>2
    <3>5. s = t
      BY <2>6, <3>3, <3>4, Zenon
    <3>6. i = j
      BY <2>6, <3>3, <3>4
    <3> QED
      BY <3>1, <3>2, <3>5, <3>6, Zenon
  <2> QED
    BY <2>1, <2>4, <2>6, Fun_IsBij
<1>6. ExistsBijection(A \X {0, 1}, B)
  BY <1>5 DEF ExistsBijection
<1>7. 2^(n + 1) = 2^n * 2
  BY <1>2, <1>4, <1>6, FS_Bijection
<1>8. 2^n \in Nat
  BY <1>2, FS_CardinalityType
<1> QED
  BY <1>7, <1>8

(* A power of two is a number, and not zero.                               *)
LEMMA PowerPositive == \A n \in Nat : 2^n \in Nat /\ 2^n >= 1
<1> DEFINE S == {n \in Nat : 2^n >= 1}
<1>1. 0 \in S
  <2>1. 2^0 = 1
    OBVIOUS
  <2> QED
    BY <2>1
<1>2. ASSUME NEW n \in Nat, n \in S PROVE n + 1 \in S
  BY <1>2, PowerDoubles
<1> HIDE DEF S
<1>3. Nat \subseteq S
  BY <1>1, <1>2, Induction
<1> QED
  BY <1>3, PowerDoubles DEF S

(* Exponents add up.                                                       *)
LEMMA PowerAdds == \A a, b \in Nat : 2^(a + b) = 2^a * 2^b
<1> SUFFICES ASSUME NEW a \in Nat PROVE \A b \in Nat : 2^(a + b) = 2^a * 2^b
  OBVIOUS
<1> DEFINE S == {b \in Nat : 2^(a + b) = 2^a * 2^b}
<1>1. 0 \in S
  <2>1. 2^0 = 1 /\ a + 0 = a /\ 2^a \in Nat
    BY PowerDoubles
  <2> QED
    BY <2>1
<1>2. ASSUME NEW b \in Nat, b \in S PROVE b + 1 \in S
  <2> DEFINE x == 2^a
             y == 2^b
  <2>1. x \in Nat /\ y \in Nat /\ 2^(b + 1) = 2 * y
    BY PowerDoubles
  <2>2. a + b \in Nat /\ a + (b + 1) = (a + b) + 1
    OBVIOUS
  <2>3. 2^(a + (b + 1)) = 2 * 2^(a + b)
    BY <2>2, PowerDoubles
  <2>4. 2^(a + b) = x * y
    BY <1>2
  <2> HIDE DEF x, y
  <2>5. 2 * (x * y) = x * (2 * y)
    BY <2>1
  <2>6. 2^(a + (b + 1)) = x * 2^(b + 1)
    BY <2>1, <2>3, <2>4, <2>5
  <2> QED
    BY <2>6 DEF x
<1> HIDE DEF S
<1>3. Nat \subseteq S
  BY <1>1, <1>2, Induction
<1> QED
  BY <1>3 DEF S

(* Powers grow with the exponent.                                          *)
LEMMA PowerGrows ==
  ASSUME NEW a \in Nat, NEW b \in Nat, a <= b
  PROVE  2^a <= 2^b
<1> DEFINE c == b - a
           x == 2^a
           y == 2^c
<1>1. c \in Nat /\ a + c = b
  OBVIOUS
<1>2. 2^b = x * y
  BY <1>1, PowerAdds
<1>3. x \in Nat /\ y \in Nat /\ y >= 1
  BY <1>1, PowerPositive
<1> HIDE DEF x, y
<1>4. x <= x * y
  BY <1>3
<1> QED
  BY <1>2, <1>4 DEF x

(* Bit i of a byte, from its size.                                         *)
LEMMA Bits ==
  ASSUME NEW b \in 0..255, NEW i \in 0..7
  PROVE  /\ b < 2^i => Bit(b, i) = 0
         /\ 2^i <= b /\ b < 2^(i + 1) => Bit(b, i) = 1
<1>1. 2^0 = 1 /\ 2^1 = 2 /\ 2^2 = 4 /\ 2^3 = 8 /\ 2^4 = 16 /\ 2^5 = 32 /\ 2^6 = 64 /\ 2^7 = 128
      /\ 2^8 = 256
  OBVIOUS
<1>2. i \in {0, 1, 2, 3, 4, 5, 6, 7}
  OBVIOUS
<1>3. CASE i = 0
  BY <1>1, <1>3 DEF Bit
<1>4. CASE i = 1
  BY <1>1, <1>4 DEF Bit
<1>5. CASE i = 2
  BY <1>1, <1>5 DEF Bit
<1>6. CASE i = 3
  BY <1>1, <1>6 DEF Bit
<1>7. CASE i = 4
  BY <1>1, <1>7 DEF Bit
<1>8. CASE i = 5
  BY <1>1, <1>8 DEF Bit
<1>9. CASE i = 6
  BY <1>1, <1>9 DEF Bit
<1>10. CASE i = 7
  BY <1>1, <1>10 DEF Bit
<1> QED
  BY <1>2, <1>3, <1>4, <1>5, <1>6, <1>7, <1>8, <1>9, <1>10

(* One byte that is not zero has its highest bit at 7 - z.                 *)
LEMMA Highest ==
  ASSUME NEW b \in 1..255
  PROVE  \E z \in 0..7 : 2^(7 - z) <= b /\ b < 2^(8 - z)
<1>1. 2^0 = 1 /\ 2^1 = 2 /\ 2^2 = 4 /\ 2^3 = 8 /\ 2^4 = 16 /\ 2^5 = 32 /\ 2^6 = 64 /\ 2^7 = 128
      /\ 2^8 = 256
  OBVIOUS
<1>2. ASSUME NEW i \in 0..7, 2^i <= b, b < 2^(i + 1)
      PROVE  \E z \in 0..7 : 2^(7 - z) <= b /\ b < 2^(8 - z)
  <2>1. 7 - i \in 0..7 /\ 7 - (7 - i) = i /\ 8 - (7 - i) = i + 1
    OBVIOUS
  <2> QED
    BY <1>2, <2>1, Zenon
<1>3. \E i \in 0..7 : 2^i <= b /\ b < 2^(i + 1)
  <2>1. \/ (1 <= b /\ b < 2) \/ (2 <= b /\ b < 4) \/ (4 <= b /\ b < 8)
        \/ (8 <= b /\ b < 16) \/ (16 <= b /\ b < 32) \/ (32 <= b /\ b < 64)
        \/ (64 <= b /\ b < 128) \/ (128 <= b /\ b < 256)
    OBVIOUS
  <2>2. /\ 0 + 1 = 1 /\ 1 + 1 = 2 /\ 2 + 1 = 3 /\ 3 + 1 = 4 /\ 4 + 1 = 5 /\ 5 + 1 = 6 /\ 6 + 1 = 7
        /\ 7 + 1 = 8 /\ {0, 1, 2, 3, 4, 5, 6, 7} \subseteq 0..7
    OBVIOUS
  <2> QED
    BY <1>1, <2>1, <2>2
<1> QED
  BY <1>2, <1>3

-------------------------------------------------------------------------------

(* There is a function of the numbers up to m that begins with a and goes  *)
(* on as h says.                                                           *)
LEMMA Recursion ==
  ASSUME NEW m \in Nat, NEW a \in Nat, NEW h \in [1..m -> [Nat -> Nat]]
  PROVE  \E f \in [0..m -> Nat] : f[0] = a /\ \A n \in 1..m : f[n] = h[n][f[n - 1]]
<1> DEFINE Upto(f, k) == f[0] = a /\ \A n \in 1..k : n <= m => f[n] = h[n][f[n - 1]]
           S == {k \in Nat : \E f \in [0..m -> Nat] : Upto(f, k)}
<1>1. 0 \in S
  <2> DEFINE f == [n \in 0..m |-> a]
  <2>1. f \in [0..m -> Nat] /\ Upto(f, 0)
    OBVIOUS
  <2> QED
    BY <2>1
<1>2. ASSUME NEW k \in Nat, k \in S PROVE k + 1 \in S
  <2>1. PICK f \in [0..m -> Nat] : Upto(f, k)
    BY <1>2
  <2>2. k + 1 \in Nat /\ (k + 1 <= m \/ k + 1 > m)
    OBVIOUS
  <2> SUFFICES \E g \in [0..m -> Nat] : Upto(g, k + 1)
    BY <2>2, Zenon
  <2>3. CASE k + 1 <= m
    <3> DEFINE v == h[k + 1][f[k]]
               g == [n \in 0..m |-> IF n = k + 1 THEN v ELSE f[n]]
    <3>1. v \in Nat
      <4>1. k + 1 \in 1..m /\ k \in 0..m /\ (k + 1) - 1 = k
        BY <2>3
      <4>2. h[k + 1] \in [Nat -> Nat] /\ f[k] \in Nat
        BY <4>1
      <4> QED
        BY <4>2
    <3> HIDE DEF v
    <3>2. g \in [0..m -> Nat] /\ g[k + 1] = v /\ \A n \in 0..m : n # k + 1 => g[n] = f[n]
      BY <2>3, <3>1
    <3> HIDE DEF g
    <3>3. g[k + 1] = h[k + 1][g[(k + 1) - 1]]
      <4>1. (k + 1) - 1 = k /\ k \in 0..m /\ k # k + 1
        BY <2>3
      <4>2. g[k] = f[k]
        BY <3>2, <4>1
      <4> QED
        BY <3>2, <4>1, <4>2, Zenon DEF v
    <3>4. ASSUME NEW n \in 1..k, n <= m PROVE g[n] = h[n][g[n - 1]]
      <4>1. n \in 0..m /\ n # k + 1 /\ n - 1 \in 0..m /\ n - 1 # k + 1
        BY <3>4
      <4>2. g[n] = f[n] /\ g[n - 1] = f[n - 1]
        BY <3>2, <4>1
      <4>3. f[n] = h[n][f[n - 1]]
        BY <2>1, <3>4
      <4> QED
        BY <4>2, <4>3, Zenon
    <3>5. Upto(g, k + 1)
      <4>1. g[0] = a
        BY <2>1, <3>2
      <4>2. \A n \in 1..k + 1 : n \in 1..k \/ n = k + 1
        OBVIOUS
      <4> QED
        BY <3>3, <3>4, <4>1, <4>2, Zenon
    <3> QED
      BY <3>2, <3>5, Zenon
  <2>4. CASE k + 1 > m
    <3>1. \A n \in 1..k + 1 : n <= m => n \in 1..k
      BY <2>4
    <3>2. Upto(f, k + 1)
      BY <2>1, <3>1, Zenon
    <3> QED
      BY <3>2, Zenon
  <2> QED
    BY <2>3, <2>4, <2>2, Zenon
<1> HIDE DEF S
<1>3. m \in S
  BY <1>1, <1>2, Induction
<1>4. PICK f \in [0..m -> Nat] : Upto(f, m)
  BY <1>3, Zenon DEF S
<1>5. \A n \in 1..m : n <= m
  OBVIOUS
<1> QED
  BY <1>4, <1>5, Zenon

(* The loops, step by step.                                                *)
ByteScans(f, b) ==
  f = [i \in -1..7 |-> IF i >= 0 /\ Bit(b, i) = 0 THEN 1 + f[i - 1] ELSE 0]

Scans(f, hash) ==
  f = [k \in 1..Len(hash) + 1 |->
         IF k > Len(hash) THEN 0
         ELSE IF hash[k] = 0 THEN 8 + f[k + 1]
         ELSE ByteZeroBits(hash[k])]

Values(f, hash) ==
  f = [k \in 0..Len(hash) |-> IF k = 0 THEN 0 ELSE 256 * f[k - 1] + hash[k]]

(* The three loops are what they end with.                                 *)
LEMMA Loops ==
  ASSUME NEW x
  PROVE  /\ ByteZeroBits(x) = (CHOOSE f : ByteScans(f, x))[7]
         /\ countLeadingZeroBits(x) = (CHOOSE f : Scans(f, x))[1]
         /\ Value(x) = (CHOOSE f : Values(f, x))[Len(x)]
<1>1. ByteZeroBits(x) = (CHOOSE f : ByteScans(f, x))[7]
  BY Zenon DEF ByteZeroBits, ByteScans
<1>2. countLeadingZeroBits(x) = (CHOOSE f : Scans(f, x))[1]
  BY Zenon DEF countLeadingZeroBits, Scans
<1>3. Value(x) = (CHOOSE f : Values(f, x))[Len(x)]
  BY Zenon DEF Value, Values
<1> QED
  BY <1>1, <1>2, <1>3

(* The loop over bits has a result.                                        *)
LEMMA ByteScanExists == ASSUME NEW b PROVE \E f : ByteScans(f, b)
<1> DEFINE h == [n \in 1..8 |-> [v \in Nat |-> IF Bit(b, n - 1) = 0 THEN 1 + v ELSE 0]]
<1>1. h \in [1..8 -> [Nat -> Nat]]
  OBVIOUS
<1>2. \A n \in 1..8 : \A v \in Nat : h[n][v] = IF Bit(b, n - 1) = 0 THEN 1 + v ELSE 0
  OBVIOUS
<1> HIDE DEF h
<1>3. PICK f \in [0..8 -> Nat] : f[0] = 0 /\ \A n \in 1..8 : f[n] = h[n][f[n - 1]]
  <2>1. 8 \in Nat /\ 0 \in Nat
    OBVIOUS
  <2> QED
    BY <1>1, <2>1, Recursion, Zenon
<1>4. \A n \in 1..8 : f[n] = IF Bit(b, n - 1) = 0 THEN 1 + f[n - 1] ELSE 0
  BY <1>2, <1>3
<1> DEFINE g == [i \in -1..7 |-> f[i + 1]]
<1>5. \A i \in -1..7 : g[i] = IF i >= 0 /\ Bit(b, i) = 0 THEN 1 + g[i - 1] ELSE 0
  <2>1. g[-1] = 0
    BY <1>3
  <2>2. ASSUME NEW i \in 0..7 PROVE g[i] = IF Bit(b, i) = 0 THEN 1 + g[i - 1] ELSE 0
    <3>1. g[i] = f[i + 1] /\ g[i - 1] = f[i] /\ i + 1 \in 1..8 /\ (i + 1) - 1 = i
      OBVIOUS
    <3> HIDE DEF g
    <3> QED
      BY <1>4, <3>1
  <2> HIDE DEF g
  <2> QED
    BY <2>1, <2>2
<1>6. g = [i \in -1..7 |-> g[i]]
  OBVIOUS
<1> HIDE DEF g
<1>7. ByteScans(g, b)
  BY <1>5, <1>6, Zenon DEF ByteScans
<1> QED
  BY <1>7

(* A byte that is not zero begins with as many zeros as it is small.       *)
LEMMA ByteZeros ==
  ASSUME NEW b \in 1..255
  PROVE  /\ ByteZeroBits(b) \in 0..7
         /\ 2^(7 - ByteZeroBits(b)) <= b /\ b < 2^(8 - ByteZeroBits(b))
<1> DEFINE f == CHOOSE g : ByteScans(g, b)
<1>1. ByteScans(f, b)
  BY ByteScanExists
<1>2. ByteZeroBits(b) = f[7]
  BY Loops, Zenon
<1> HIDE DEF f
<1>3. \A i \in -1..7 : f[i] = IF i >= 0 /\ Bit(b, i) = 0 THEN 1 + f[i - 1] ELSE 0
  BY <1>1, Zenon DEF ByteScans
<1>4. PICK z \in 0..7 : 2^(7 - z) <= b /\ b < 2^(8 - z)
  BY Highest
<1>5. b \in 0..255
  OBVIOUS
<1>6. f[7 - z] = 0
  <2>1. 7 - z \in 0..7 /\ (7 - z) + 1 = 8 - z
    OBVIOUS
  <2>2. Bit(b, 7 - z) = 1
    BY <1>4, <1>5, <2>1, Bits, Zenon
  <2> QED
    BY <1>3, <2>1, <2>2
<1> DEFINE S == {n \in Nat : n <= z => f[7 - z + n] = n}
<1>7. 0 \in S
  BY <1>6
<1>8. ASSUME NEW n \in Nat, n \in S PROVE n + 1 \in S
  <2>1. SUFFICES ASSUME n + 1 <= z PROVE f[7 - z + (n + 1)] = n + 1
    OBVIOUS
  <2> DEFINE i == 7 - z + (n + 1)
  <2>2. i \in 0..7 /\ i - 1 = 7 - z + n /\ 8 - z <= i /\ 8 - z \in Nat
    BY <2>1
  <2>3. 2^(8 - z) <= 2^i /\ 2^i \in Nat /\ 2^(8 - z) \in Nat
    BY <2>2, PowerGrows, PowerPositive
  <2>4. Bit(b, i) = 0
    <3>1. b < 2^i
      BY <1>4, <2>3
    <3> QED
      BY <1>5, <2>2, <3>1, Bits, Zenon
  <2>5. f[i - 1] = n
    BY <1>8, <2>1, <2>2
  <2> HIDE DEF i
  <2>6. f[i] = 1 + n
    BY <1>3, <2>2, <2>4, <2>5
  <2> QED
    BY <2>6 DEF i
<1> HIDE DEF S
<1>9. z \in S
  BY <1>7, <1>8, Induction
<1>10. f[7] = z
  <2>1. f[7 - z + z] = z
    BY <1>9 DEF S
  <2>2. 7 - z + z = 7
    OBVIOUS
  <2> QED
    BY <2>1, <2>2
<1> QED
  BY <1>2, <1>4, <1>10

(* The elements of a sequence, and those of a hash.                        *)
LEMMA Element ==
  ASSUME NEW S, NEW s \in Seq(S), NEW k \in 1..Len(s)
  PROVE  s[k] \in S
OBVIOUS

LEMMA Bytes ==
  ASSUME NEW hash \in Seq(0..255), NEW k \in 1..Len(hash)
  PROVE  hash[k] \in 0..255
BY Element, Zenon

(* A byte that is not zero has at most seven leading zeros.                *)
LEMMA BytesCounted ==
  ASSUME NEW hash \in Seq(0..255), NEW k \in 1..Len(hash), hash[k] # 0
  PROVE  ByteZeroBits(hash[k]) \in 0..7
<1>1. hash[k] \in 0..255
  BY Bytes
<1>2. hash[k] \in 1..255
  BY <1>1
<1> QED
  BY <1>2, ByteZeros

(* The loop over bytes has a result.                                       *)
LEMMA ScanExists ==
  ASSUME NEW hash \in Seq(0..255)
  PROVE  \E f : Scans(f, hash)
<1> DEFINE m == Len(hash)
           h == [n \in 1..m |-> [v \in Nat |-> IF hash[m + 1 - n] = 0 THEN 8 + v
                                             ELSE ByteZeroBits(hash[m + 1 - n])]]
<1>1. m \in Nat /\ 0 \in Nat
  OBVIOUS
<1>2. h \in [1..m -> [Nat -> Nat]]
  <2>1. ASSUME NEW n \in 1..m
        PROVE  hash[m + 1 - n] # 0 => ByteZeroBits(hash[m + 1 - n]) \in Nat
    <3>1. m + 1 - n \in 1..Len(hash)
      OBVIOUS
    <3> HIDE DEF m
    <3> QED
      BY <3>1, BytesCounted
  <2> HIDE DEF m
  <2> QED
    BY <2>1
<1>3. \A n \in 1..m : \A v \in Nat :
        h[n][v] = IF hash[m + 1 - n] = 0 THEN 8 + v ELSE ByteZeroBits(hash[m + 1 - n])
  OBVIOUS
<1> HIDE DEF h
<1>4. PICK f \in [0..m -> Nat] : f[0] = 0 /\ \A n \in 1..m : f[n] = h[n][f[n - 1]]
  BY <1>1, <1>2, Recursion, Zenon
<1> DEFINE g == [k \in 1..m + 1 |-> f[m + 1 - k]]
<1>5. \A k \in 1..m + 1 : g[k] = IF k > m THEN 0
                                 ELSE IF hash[k] = 0 THEN 8 + g[k + 1]
                                 ELSE ByteZeroBits(hash[k])
  <2>1. g[m + 1] = 0
    BY <1>4
  <2>2. ASSUME NEW k \in 1..m
        PROVE  g[k] = IF hash[k] = 0 THEN 8 + g[k + 1] ELSE ByteZeroBits(hash[k])
    <3> DEFINE n == m + 1 - k
    <3>1. /\ n \in 1..m /\ n - 1 \in 0..m /\ m + 1 - n = k
          /\ g[k] = f[n] /\ g[k + 1] = f[n - 1]
      OBVIOUS
    <3> HIDE DEF n, g
    <3>2. f[n - 1] \in Nat
      BY <3>1
    <3>3. f[n] = IF hash[m + 1 - n] = 0 THEN 8 + f[n - 1] ELSE ByteZeroBits(hash[m + 1 - n])
      BY <1>3, <1>4, <3>1, <3>2
    <3> QED
      BY <3>1, <3>3, Zenon
  <2>3. \A k \in 1..m + 1 : (k > m => k = m + 1) /\ (~(k > m) => k \in 1..m)
    OBVIOUS
  <2> HIDE DEF g, m
  <2> QED
    BY <2>1, <2>2, <2>3, Zenon
<1>6. g = [k \in 1..m + 1 |-> g[k]]
  OBVIOUS
<1> HIDE DEF g
<1>7. Scans(g, hash)
  BY <1>5, <1>6, Zenon DEF Scans
<1> QED
  BY <1>7

(* A hash has a value.                                                     *)
LEMMA ValueExists ==
  ASSUME NEW hash \in Seq(0..255)
  PROVE  \E f : Values(f, hash)
<1> DEFINE m == Len(hash)
           h == [n \in 1..m |-> [v \in Nat |-> 256 * v + hash[n]]]
<1>1. m \in Nat /\ 0 \in Nat
  OBVIOUS
<1>2. h \in [1..m -> [Nat -> Nat]] /\ \A n \in 1..m : \A v \in Nat : h[n][v] = 256 * v + hash[n]
  <2>1. \A n \in 1..m : hash[n] \in Nat
    <3>1. \A n \in 1..m : hash[n] \in 0..255
      BY Bytes, Zenon
    <3>2. \A b \in 0..255 : b \in Nat
      OBVIOUS
    <3> QED
      BY <3>1, <3>2, Zenon
  <2> HIDE DEF m
  <2> QED
    BY <2>1
<1> HIDE DEF h
<1>3. h \in [1..m -> [Nat -> Nat]]
  BY <1>2
<1>4. PICK f \in [0..m -> Nat] : f[0] = 0 /\ \A n \in 1..m : f[n] = h[n][f[n - 1]]
  BY <1>1, <1>3, Recursion, Zenon
<1>5. \A k \in 0..m : f[k] = IF k = 0 THEN 0 ELSE 256 * f[k - 1] + hash[k]
  <2>1. ASSUME NEW k \in 1..m PROVE f[k] = 256 * f[k - 1] + hash[k]
    <3>1. k - 1 \in 0..m
      OBVIOUS
    <3>2. f[k - 1] \in Nat
      BY <3>1
    <3> QED
      BY <1>2, <1>4, <3>2, Zenon
  <2>2. \A k \in 0..m : k = 0 \/ (k # 0 /\ k \in 1..m)
    OBVIOUS
  <2> QED
    BY <1>4, <2>1, <2>2, Zenon
<1>6. f = [k \in 0..m |-> f[k]]
  OBVIOUS
<1>7. Values(f, hash)
  BY <1>5, <1>6, Zenon DEF Values
<1> QED
  BY <1>7

(* The count, c, after k bytes with value v, of which left(k) are to go:   *)
(* nothing but zeros so far, or the first bit that is set is c bits in.    *)
Counted(c, k, v, rest) ==
  \/ v = 0 /\ c = 8 * k + rest
  \/ /\ c \in 0..8 * k - 1
     /\ 2^(8 * k - c - 1) <= v /\ v < 2^(8 * k - c)

(* One byte on: zeros after zeros, the first bit that is set, or a byte    *)
(* after it, which only scales the bounds.                                 *)
LEMMA CountedStep ==
  ASSUME NEW c \in Nat, NEW k \in Nat, NEW v \in Nat, NEW rest \in Nat, NEW b \in 0..255,
         NEW next \in Nat, b = 0 => rest = 8 + next, b # 0 => rest = ByteZeroBits(b),
         Counted(c, k, v, rest)
  PROVE  Counted(c, k + 1, 256 * v + b, next)
<1>1. CASE v = 0 /\ c = 8 * k + rest /\ b = 0
  BY <1>1 DEF Counted
<1>2. CASE v = 0 /\ c = 8 * k + rest /\ b # 0
  <2> DEFINE z == ByteZeroBits(b)
             w == 256 * v + b
  <2>1. b \in 1..255 /\ w = b
    BY <1>2
  <2>2. z \in 0..7 /\ 2^(7 - z) <= b /\ b < 2^(8 - z)
    BY <2>1, ByteZeros
  <2>3. rest = z
    BY <1>2
  <2> HIDE DEF z, w
  <2>4. /\ c \in 0..8 * (k + 1) - 1
        /\ 8 * (k + 1) - c - 1 = 7 - z /\ 8 * (k + 1) - c = 8 - z
    BY <1>2, <2>2, <2>3
  <2>5. Counted(c, k + 1, w, next)
    BY <2>1, <2>2, <2>4, Zenon DEF Counted
  <2> QED
    BY <2>5 DEF w
<1>3. CASE c \in 0..8 * k - 1 /\ 2^(8 * k - c - 1) <= v /\ v < 2^(8 * k - c)
  <2> DEFINE e == 8 * k - c
             x == 2^(e - 1)
             y == 2^e
             w == 256 * v + b
  <2>1. e \in Nat /\ e - 1 \in Nat
    BY <1>3
  <2>2. x \in Nat /\ y \in Nat /\ x <= v /\ v < y
    BY <1>3, <2>1, PowerPositive
  <2>3. 2^8 = 256
    OBVIOUS
  <2>4. 2^(e + 8) = y * 256 /\ 2^((e - 1) + 8) = x * 256
    <3>1. 8 \in Nat
      OBVIOUS
    <3>2. 2^(e + 8) = 2^e * 2^8
      BY <2>1, <3>1, PowerAdds, Zenon
    <3>3. 2^((e - 1) + 8) = 2^(e - 1) * 2^8
      BY <2>1, <3>1, PowerAdds, Zenon
    <3> QED
      BY <2>3, <3>2, <3>3, Zenon
  <2>5. /\ c \in 0..8 * (k + 1) - 1
        /\ 8 * (k + 1) - c - 1 = (e - 1) + 8 /\ 8 * (k + 1) - c = e + 8
    BY <1>3
  <2> HIDE DEF e, x, y
  <2>6. x * 256 <= w /\ w < y * 256
    BY <2>2
  <2> HIDE DEF w
  <2>7. Counted(c, k + 1, w, next)
    BY <2>4, <2>5, <2>6, Zenon DEF Counted
  <2> QED
    BY <2>7 DEF w
<1> QED
  BY <1>1, <1>2, <1>3 DEF Counted

(* The leading zeros of a hash say how large it is, to the bit.            *)
LEMMA CountBounds ==
  ASSUME NEW hash \in Seq(0..255)
  PROVE  /\ countLeadingZeroBits(hash) \in Nat /\ Value(hash) \in Nat
         /\ Counted(countLeadingZeroBits(hash), Len(hash), Value(hash), 0)
<1> DEFINE m == Len(hash)
           s == CHOOSE f : Scans(f, hash)
           v == CHOOSE f : Values(f, hash)
           c == s[1]
<1>1. Scans(s, hash) /\ Values(v, hash)
  BY ScanExists, ValueExists
<1>2. countLeadingZeroBits(hash) = s[1] /\ Value(hash) = v[m]
  BY Loops, Zenon
<1> HIDE DEF s, v
<1>3. /\ s[m + 1] = 0
      /\ \A k \in 1..m : s[k] = IF hash[k] = 0 THEN 8 + s[k + 1] ELSE ByteZeroBits(hash[k])
  <2>1. \A k \in 1..m + 1 : s[k] = IF k > m THEN 0
                                   ELSE IF hash[k] = 0 THEN 8 + s[k + 1]
                                   ELSE ByteZeroBits(hash[k])
    BY <1>1, Zenon DEF Scans
  <2> QED
    BY <2>1
<1>4. v[0] = 0 /\ \A k \in 1..m : v[k] = 256 * v[k - 1] + hash[k]
  <2>1. \A k \in 0..m : v[k] = IF k = 0 THEN 0 ELSE 256 * v[k - 1] + hash[k]
    BY <1>1, Zenon DEF Values
  <2> QED
    BY <2>1
<1>5. \A k \in 1..m + 1 : s[k] \in Nat
  <2> DEFINE S == {n \in Nat : n <= m => s[m + 1 - n] \in Nat}
  <2>1. 0 \in S
    BY <1>3
  <2>2. ASSUME NEW n \in Nat, n \in S PROVE n + 1 \in S
    <3>1. SUFFICES ASSUME n + 1 <= m PROVE s[m + 1 - (n + 1)] \in Nat
      OBVIOUS
    <3> DEFINE k == m + 1 - (n + 1)
    <3>2. k \in 1..m /\ k + 1 = m + 1 - n
      BY <3>1
    <3>3. s[k + 1] \in Nat
      BY <2>2, <3>1, <3>2
    <3> HIDE DEF k
    <3>4. s[k] = IF hash[k] = 0 THEN 8 + s[k + 1] ELSE ByteZeroBits(hash[k])
      BY <1>3, <3>2
    <3>5. hash[k] # 0 => ByteZeroBits(hash[k]) \in Nat
      BY <3>2, BytesCounted
    <3>6. s[k] \in Nat
      BY <3>3, <3>4, <3>5
    <3> QED
      BY <3>6 DEF k
  <2> HIDE DEF S
  <2>3. Nat \subseteq S
    BY <2>1, <2>2, Induction
  <2>4. ASSUME NEW k \in 1..m + 1 PROVE s[k] \in Nat
    <3>1. m + 1 - k \in Nat /\ m + 1 - k <= m /\ m + 1 - (m + 1 - k) = k
      OBVIOUS
    <3>2. m + 1 - k \in S
      BY <2>3, <3>1
    <3>3. s[m + 1 - (m + 1 - k)] \in Nat
      BY <3>1, <3>2, Zenon DEF S
    <3> QED
      BY <3>1, <3>3
  <2> QED
    BY <2>4
<1> DEFINE S == {k \in Nat : k <= m => v[k] \in Nat /\ Counted(c, k, v[k], s[k + 1])}
<1>6. 0 \in S
  <2>1. Counted(c, 0, v[0], s[0 + 1])
    <3>1. 0 + 1 = 1 /\ 8 * 0 = 0 /\ s[1] \in Nat
      BY <1>5
    <3>2. s[1] = 0 + s[1]
      BY <3>1
    <3> QED
      BY <1>4, <3>1, <3>2, Zenon DEF Counted
  <2> QED
    BY <1>4, <2>1
<1>7. ASSUME NEW k \in Nat, k \in S PROVE k + 1 \in S
  <2>1. SUFFICES ASSUME k + 1 <= m
                 PROVE  v[k + 1] \in Nat /\ Counted(c, k + 1, v[k + 1], s[(k + 1) + 1])
    OBVIOUS
  <2>2. v[k] \in Nat /\ Counted(c, k, v[k], s[k + 1])
    BY <1>7, <2>1
  <2>3. k + 1 \in 1..m /\ (k + 1) - 1 = k
    BY <2>1
  <2>4. hash[k + 1] \in 0..255
    BY <2>3, Bytes
  <2>5. v[k + 1] = 256 * v[k] + hash[k + 1]
    BY <1>4, <2>3
  <2>6. c \in Nat /\ s[k + 1] \in Nat /\ s[(k + 1) + 1] \in Nat
    BY <1>5, <2>3
  <2>7. s[k + 1] = IF hash[k + 1] = 0 THEN 8 + s[(k + 1) + 1] ELSE ByteZeroBits(hash[k + 1])
    BY <1>3, <2>3
  <2> DEFINE b == hash[k + 1]
             w == v[k]
             rest == s[k + 1]
             next == s[(k + 1) + 1]
  <2> HIDE DEF c, b, w, rest, next
  <2>8. Counted(c, k + 1, 256 * w + b, next)
    <3>1. /\ b \in 0..255 /\ w \in Nat /\ rest \in Nat /\ next \in Nat /\ c \in Nat
          /\ b = 0 => rest = 8 + next
          /\ b # 0 => rest = ByteZeroBits(b)
          /\ Counted(c, k, w, rest)
      BY <2>2, <2>4, <2>6, <2>7, Zenon DEF b, w, rest, next
    <3> HIDE DEF S, m
    <3> QED
      BY <3>1, CountedStep, Zenon
  <2>9. 256 * w + b \in Nat
    <3>1. w \in Nat /\ b \in 0..255
      BY <2>2, <2>4 DEF b, w
    <3> QED
      BY <3>1
  <2> QED
    BY <2>5, <2>8, <2>9, Zenon DEF b, w, next
<1> HIDE DEF S
<1>8. m \in S
  BY <1>6, <1>7, Induction
<1>9. v[m] \in Nat /\ Counted(c, m, v[m], s[m + 1])
  BY <1>8 DEF S
<1>10. c \in Nat
  BY <1>5
<1> QED
  BY <1>2, <1>3, <1>9, <1>10, Zenon

(* countLeadingZeroBits decides, for every hash and every difficulty.      *)
THEOREM CountDecides ==
  ASSUME NEW hash \in Seq(0..255), NEW difficulty \in Int
  PROVE  countLeadingZeroBits(hash) >= difficulty <=> Solves(hash, difficulty)
<1> DEFINE c == countLeadingZeroBits(hash)
           v == Value(hash)
           bits == 8 * Len(hash)
<1>1. c \in Nat /\ v \in Nat /\ Counted(c, Len(hash), v, 0) /\ bits \in Nat
  BY CountBounds
<1>2. \/ v = 0 /\ c = bits + 0
      \/ c \in 0..bits - 1 /\ 2^(bits - c - 1) <= v /\ v < 2^(bits - c)
  BY <1>1, Zenon DEF Counted
<1>3. Solves(hash, difficulty) <=>
        \/ difficulty <= 0
        \/ difficulty <= bits /\ v < 2^(bits - difficulty)
  BY Zenon DEF Solves
<1> SUFFICES c >= difficulty <=> Solves(hash, difficulty)
  BY Zenon
<1> HIDE DEF c, v, bits
<1>4. CASE difficulty <= 0
  BY <1>1, <1>3, <1>4
<1>5. CASE difficulty > bits
  BY <1>1, <1>2, <1>3, <1>5
<1>6. CASE 0 < difficulty /\ difficulty <= bits
  <2> DEFINE d == bits - difficulty
             y == 2^d
  <2>1. d \in Nat
    BY <1>1, <1>6
  <2>2. y \in Nat /\ y >= 1
    BY <2>1, PowerPositive
  <2>3. CASE v = 0 /\ c = bits + 0
    BY <1>1, <1>3, <1>6, <2>2, <2>3
  <2>4. CASE c \in 0..bits - 1 /\ 2^(bits - c - 1) <= v /\ v < 2^(bits - c)
    <3> DEFINE x == 2^(bits - c)
               u == 2^(bits - c - 1)
    <3>1. bits - c \in Nat /\ bits - c - 1 \in Nat
      BY <1>1, <2>4
    <3>2. x \in Nat /\ u \in Nat
      BY <3>1, PowerPositive
    <3>3. c >= difficulty => x <= y
      BY <1>1, <2>1, <3>1, PowerGrows
    <3>4. c < difficulty => y <= u
      <4>1. c < difficulty => d <= bits - c - 1
        BY <1>1
      <4> QED
        BY <2>1, <3>1, <4>1, PowerGrows
    <3>5. u <= v /\ v < x
      BY <2>4
    <3>6. Solves(hash, difficulty) <=> v < y
      BY <1>3, <1>6
    <3> HIDE DEF x, y, u, d
    <3> QED
      BY <1>1, <2>2, <3>2, <3>3, <3>4, <3>5, <3>6
  <2> QED
    BY <1>2, <2>3, <2>4
<1> QED
  BY <1>1, <1>4, <1>5, <1>6

-----------------------------------------------------------------------------

(* A request in the middle of consumePoW goes on by Verify, unless the     *)
(* process restarts.                                                       *)
LEMMA VerifyGoesOn ==
  ASSUME Inv, [Next]_vars, NEW r \in Requests, request[r].pc = "verify",
         request'[r] # request[r], restarts' = restarts
  PROVE  Verify(r)
<1>1. request = [s \in Requests |-> request[s]]
  BY DEF Inv, PoWTypeOK
<1>2. ASSUME NEW s \in Requests, s # r,
             Accept(s) \/ Take(s) \/ Verify(s) \/ Create(s) \/ CreateFails(s)
      PROVE  FALSE
  <2>1. \E v : request' = [request EXCEPT ![s] = v]
    BY <1>2, Zenon DEF Accept, Take, Verify, Create, CreateFails, Serve
  <2> QED
    BY <1>1, <1>2, <2>1
<1>3. ASSUME Accept(r) \/ Take(r) \/ Create(r) \/ CreateFails(r) PROVE FALSE
  BY <1>3 DEF Accept, Take, Create, CreateFails, Free
<1>4. ASSUME \/ Tick
             \/ \E p \in Puzzles : handlePoWChallenge(p)
             \/ \E n \in Names : handleDeleteInstance(n)
             \/ UNCHANGED vars
      PROVE  FALSE
  BY <1>4 DEF Tick, handlePoWChallenge, handleDeleteInstance, vars
<1>5. ~Restart
  BY DEF Inv, PoWTypeOK, Restart
<1> QED
  BY <1>2, <1>3, <1>4, <1>5 DEF Next

(* What Verify decides, in terms of the target.                            *)
LEMMA VerifyStep ==
  ASSUME Inv, [Next]_vars, NEW r \in Requests, request[r].pc = "verify",
         request'[r] # request[r], restarts' = restarts
  PROVE  request'[r].pc = "create" <=>
           /\ now <= issued[request[r].puzzle]
           /\ Solves(request[r].hash, Difficulty[request[r].puzzle])
<1> DEFINE q == request[r]
           q2 == IF Good(q) THEN [q EXCEPT !.pc = "create"] ELSE Free
<1>1. Verify(r)
  BY VerifyGoesOn
<1>2. request'[r] = q2
  BY <1>1 DEF Verify, Serve, Inv, PoWTypeOK
<1>3. /\ q.hash \in Hashes /\ q.puzzle \in Puzzles
      /\ q \in [pc : {"free", "consume", "verify", "create"}, puzzle : Puzzles \cup {Nil},
                hash : Hashes \cup {Nil}, name : Names \cup {Nil}]
  BY DEF Inv, Served, PoWTypeOK
<1>4. q2.pc = "create" <=> Good(q)
  BY <1>3 DEF Free
<1>5. q.hash \in Seq(0..255) /\ Difficulty[q.puzzle] \in Int
  BY <1>3, PuzzleWork
<1>6. VerifyPoW(q) <=> Solves(q.hash, Difficulty[q.puzzle])
  BY <1>5, CountDecides, Zenon DEF VerifyPoW
<1> QED
  BY <1>2, <1>4, <1>6, Zenon DEF Good

(* The check of the work decides, for any hashes and difficulties, and so  *)
(* does the age of the puzzle (consumePoW, VerifyPoW).                     *)
THEOREM WorkIsDecisive == Spec => WorkDecides
<1>1. Inv /\ [Next]_vars =>
        [\A r \in Requests :
           LET q == request[r]
           IN  q.pc = "verify" /\ request'[r] # q /\ restarts' = restarts =>
                 (request'[r].pc = "create" <=>
                    now <= issued[q.puzzle] /\ Solves(q.hash, Difficulty[q.puzzle]))]_vars
  BY VerifyStep
<1> QED
  BY <1>1, PuzzleInvariance, PTL DEF Spec, WorkDecides
=============================================================================
