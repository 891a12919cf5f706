---------------------------- MODULE MCBaselines -----------------------------
(***************************************************************************)
(* A small instance of Baselines.  As in the shipped configuration a proof *)
(* outlives the transition window.  No binding is ever built: neither      *)
(* baseline reads one, so a request states its domain.  Nor does either    *)
(* read the failures, so that a rejected proof, which leads to DEGRADED as *)
(* a missing one does, is left to the proofs.                              *)
(***************************************************************************)
EXTENDS Baselines

MCDomains == {"NR", "WLAN"}
MCStatuses == {"ACTIVE", "REVOKED"}
Usual == {"absent", "valid"}
MCTtl == [a \in Actions |-> IF a \in TerminatingActions THEN 0 ELSE 1]

(* What the last instant may do is left out; the grants of the earlier     *)
(* ones are looked at there.                                               *)
EarlierInstants == clock < MaxClock
=============================================================================
