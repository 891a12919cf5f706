--------------------------- MODULE MCMqttGateway ----------------------------
(***************************************************************************)
(* Small instances of MqttGateway: a decision lives for one instant, a     *)
(* terminating one not at all.                                             *)
(***************************************************************************)
EXTENDS MqttGateway

MCTtl == [a \in Actions |-> IF a \in TerminatingActions THEN 0 ELSE 1]
=============================================================================
