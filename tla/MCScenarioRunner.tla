-------------------------- MODULE MCScenarioRunner --------------------------
(***************************************************************************)
(* Small runs of ScenarioRunner and ValidationFlows: two devices in a free *)
(* scenario, three in the outline of E15, two of them legitimate, the      *)
(* three flows, and the integration flow after an earlier user.  The       *)
(* thresholds keep the order of the shipped configuration: a single move   *)
(* is not yet a repeated one, and a proof and the rate window outlive the  *)
(* transition window.                                                      *)
(***************************************************************************)
EXTENDS ValidationFlows

MCDevices == 1..6
MCDomains == {"NR", "WLAN"}
MCDeclared == MCDomains \cup {None}
MCPeer == <<0, "both">>
MCAddresses == (MCDevices \X MCDomains) \cup {MCPeer}
Established == [d \in MCDevices |-> "established"]
LiveSources == {[Established EXCEPT ![2] = seen] : seen \in {"released", "unseen", "no path"}}
Setup(strategies, events, sources, stations, registered, devices) ==
  [strategy : strategies, outline : {events}, source : sources, station : stations,
   registered : registered, devices : {devices}, initial : {"NR"}]
Present == {"established"}
Any(n) == [i \in 1..n |-> "any"]
MCSetups ==
  Setup({"ca_ztcf"}, Any(3), {Established}, Present, {TRUE}, 2)
    \cup Setup({"independent", "static_continuity"}, Any(3), {Established}, Present, {TRUE}, 1)
    \cup Setup({"ca_ztcf"}, Any(2), LiveSources, Present, {TRUE}, 2)
    \cup Setup({"ca_ztcf"}, Any(2), {Established}, {"released", "unseen"}, {TRUE}, 2)
    \cup Setup({"ca_ztcf"}, Any(2), {Established}, Present, {FALSE}, 1)
    \cup UNION {Setup({"ca_ztcf"}, flow, {Established}, Present, {FALSE}, 6) :
                 flow \in {<<"dev_flow">>, <<"tier2_flow">>, <<"leftover", "mqtt_flow">>}}
    \cup Setup({"ca_ztcf"}, E15, {Established}, Present, {TRUE}, 3)
MCTtl == [a \in Actions |-> IF a \in TerminatingActions THEN 0 ELSE 1]
=============================================================================
