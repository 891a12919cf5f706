------------------------ MODULE MCEnforcementPoint --------------------------
(***************************************************************************)
(* Small instances of EnforcementPoint with a long-lived, a short-lived    *)
(* and a terminating action.                                               *)
(***************************************************************************)
EXTENDS EnforcementPoint, TLC

MCTtl == ("ALLOW" :> 1) @@ ("STEP_UP_AUTHENTICATION" :> 0) @@ ("DENY" :> 0)
Symmetry == Permutations(Devices) \cup Permutations(Threads)
=============================================================================
