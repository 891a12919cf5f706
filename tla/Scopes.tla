------------------------------- MODULE Scopes -------------------------------
(***************************************************************************)
(* The scopes of config/policy/topic_scopes.yaml and what they let         *)
(* through, the same for MemoryPEP.check and for scope_permits of the MQTT *)
(* gateway.                                                                *)
(*                                                                         *)
(* The topics a device addresses are reduced to the classes the patterns   *)
(* tell apart: its own namespace (telemetry, status, the rest of dev),     *)
(* cmd, shared, the control topics, q, and everything else ("foreign").    *)
(***************************************************************************)

Production == {"telemetry", "status", "dev", "cmd", "shared"}
Topics == Production \cup {"challenge", "response", "q", "foreign"}

ScopeAllow == [full |-> Production,
               restricted |-> {"telemetry", "status"},
               step_up_pending |-> {"challenge", "response"},
               quarantine |-> {"q"},
               none |-> {}]

ScopeDeny == [full |-> {}, restricted |-> {"cmd", "shared"}, step_up_pending |-> {},
              quarantine |-> {}, none |-> {}]

(* deny is consulted first, then allow; the default is to refuse. *)
ScopePermits(scope, topic) == topic \notin ScopeDeny[scope] /\ topic \in ScopeAllow[scope]

(* After these no session continues. *)
TerminatingActions == {"REAUTHENTICATE", "DENY"}
=============================================================================
