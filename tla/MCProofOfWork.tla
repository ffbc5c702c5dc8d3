---------------------------- MODULE MCProofOfWork ----------------------------
(***************************************************************************)
(* The instances of ProofOfWork that TLC checks: hashes of two bytes, and  *)
(* an easy puzzle, a hard one, and one whose template has a difficulty     *)
(* below zero.  Requests and names are interchangeable.                    *)
(***************************************************************************)
EXTENDS ProofOfWork, TLC

CONSTANTS p1, p2, p3

MCDifficulty == p1 :> 9 @@ p2 :> 16 @@ p3 :> -1

MCHashes == {<<1, 0>>, <<0, 64>>, <<0, 0>>}  \* with 7, 9 and 16 leading zeros

Symmetry == Permutations(Requests) \cup Permutations(Names)
=============================================================================
