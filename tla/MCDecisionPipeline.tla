------------------------ MODULE MCDecisionPipeline --------------------------
(***************************************************************************)
(* A small instance of DecisionPipeline.  As in the shipped configuration  *)
(* decisions outlive the freshness of a binding that was fresh when they   *)
(* were taken, and terminating decisions do not live at all.               *)
(***************************************************************************)
EXTENDS DecisionPipeline

MCDomains == {"NR", "WLAN"}
FromEvidence == {None}
Usual == {"absent", "valid"}
MCTtl == [a \in Actions |-> IF a \in TerminatingActions THEN 0 ELSE 1]

(* What the last instant may do is left out; the grants of the earlier     *)
(* ones are looked at there.                                               *)
EarlierInstants == clock < MaxClock
=============================================================================
