------------------------ MODULE MCProofOfPossession ------------------------
(***************************************************************************)
(* Small instances of ProofOfPossession: two devices, one of which may be  *)
(* registered with a key that is not Ed25519, and two request threads.     *)
(***************************************************************************)
EXTENDS ProofOfPossession, TLC

(* Threads and nonces are only compared for equality. *)
Symmetry == Permutations(Threads) \cup Permutations(Nonces)
=============================================================================
