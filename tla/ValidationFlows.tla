-------------------------- MODULE ValidationFlows ---------------------------
(***************************************************************************)
(* The end-to-end flows that validate a running service:                   *)
(* scripts/dev_validation_flow.py, scripts/mqtt_integration_flow.py and    *)
(* testbed/tier2/scripts/tier2_validation.py.  Each is a script with an    *)
(* expectation after every decision it causes; ScenarioRunner works such   *)
(* scripts off, and this module adds what the flows do and scenarios do    *)
(* not: enrolment on the way, events for an address that devices share,    *)
(* releases, positions that are reported, and events, positions and        *)
(* decisions dated by the flow instead of the clock.                       *)
(*                                                                         *)
(* Durations keep the order the flows rely on.  The gateway states no      *)
(* domain, and the agent answers a challenge with a proof.                 *)
(***************************************************************************)
EXTENDS ScenarioRunner

CONSTANT Peer    \* the address every agent on the host is seen at

FlowKinds == {"dev_flow", "mqtt_flow", "tier2_flow", "leftover"}

(* The flows run against a service that decides by CA-ZTCF, and one after  *)
(* the other; no scenario contains one.  They state no lifetimes and need  *)
(* not state domains.                                                      *)
ASSUME FlowAssumption ==
  /\ Peer \in Addresses /\ 1..6 \subseteq Devices
  /\ "REVOKED" \in Statuses /\ Domains \cup {None} \subseteq DeclaredDomains /\ None \in Lifetimes
  /\ \A r \in Setups :
       /\ r.outline \in Seq(STRING)
       /\ (\E i \in DOMAIN r.outline : r.outline[i] \in FlowKinds)
            => r.strategy = "ca_ztcf" /\ \A i \in DOMAIN r.outline : r.outline[i] \in FlowKinds

(* What each mark expects of the decision that carries it: the trust       *)
(* states and the actions that pass.                                       *)
AnyState == {"UNKNOWN", "UNTRUSTED", "SUSPICIOUS", "DEGRADED", "TRANSITIONAL", "STABLE"}
Accepting == Actions \ TerminatingActions
Expectation ==
  [accepted |-> [states |-> AnyState, actions |-> Accepting],
   refused |-> [states |-> AnyState, actions |-> TerminatingActions],
   stable |-> [states |-> {"STABLE"}, actions |-> {"ALLOW"}],
   transitional |-> [states |-> {"TRANSITIONAL"}, actions |-> {"ALLOW_WITH_RESTRICTIONS"}],
   held |-> [states |-> AnyState, actions |-> {"STEP_UP_AUTHENTICATION"}],
   suspicious |-> [states |-> {"SUSPICIOUS"}, actions |-> Accepting],
   mismatch |-> [states |-> {"UNTRUSTED"}, actions |-> {"DENY"}],
   unregistered |-> [states |-> {"UNKNOWN"}, actions |-> {"DENY"}]]

-----------------------------------------------------------------------------
(* What the flows are made of, next to the steps of a scenario *)

Enrol(d) == [op |-> "enrol", device |-> d]
Revoke(d) == [op |-> "status", device |-> d]
Bind(a, dom, posture, at) ==
  [op |-> "bind", address |-> a, domain |-> dom, posture |-> posture, at |-> at]
Release(addresses) == [op |-> "release", addresses |-> addresses]
Report(d, dom, a, at) ==
  [op |-> "report", device |-> d, domain |-> dom, address |-> a, at |-> at]

(* The request states the instant it is to be judged at. *)
Dated(ask, at) == [ask EXCEPT !.at = at]

(* Every call takes its time, which the dates a flow states do not show. *)
Slowly(pause, script) ==
  InTurn(Len(script), [i \in DOMAIN script |-> <<Advance(pause), script[i]>>])

(* An agent connects: the gateway asks without a domain. *)
AgentConnects(d, a, proof, mark) == Ask(d, None, a, proof, TRUE, mark)

(* pump, on a session that is held: the challenge is answered. *)
AgentAnswers(d, a) == AgentConnects(d, a, TRUE, "none")

-----------------------------------------------------------------------------
(* The devices of a flow contest their addresses. *)
Load(flow, script) == /\ Begin(flow, script)
                      /\ contested' = Members
                      /\ UNCHANGED workload

(* dev_validation_flow.py: two addresses, and a timeline of its own.  The  *)
(* events and the decisions are dated by it, ahead of the clock the proofs *)
(* are verified by.                                                        *)
DevFlow(pause) ==
  LET nr == AddressOf(1, "NR")
      wlan == AddressOf(1, "WLAN")
      t0 == clock
      t1 == t0 + 1
      t2 == t1 + TransitionWindow + 1
  IN Load("dev_flow", Slowly(pause,
       <<Enrol(1), Bind(nr, "NR", TRUE, t0), Dated(AskFrom(1, "NR", "stable"), t0),
         Bind(wlan, "WLAN", TRUE, t1), Dated(AskFrom(1, "WLAN", "transitional"), t1),
         Bind(wlan, "WLAN", TRUE, t2), Dated(AskFrom(1, "WLAN", "stable"), t2),
         Enrol(2), Dated(Ask(2, "WLAN", wlan, TRUE, TRUE, "mismatch"), t2),
         Dated(Ask(3, "NR", nr, FALSE, TRUE, "unregistered"), t2)>>))

(* Mutant: what an earlier run left behind is not cleared. *)
NothingReset == << >>

(* reset_bindings: "independent of what ran before it". *)
ResetBindings == <<Release(Addresses)>>

(* discover_peer_address, with a probe of its own *)
Probe == <<Enrol(2), AgentConnects(2, Peer, FALSE, "accepted"), AgentAnswers(2, Peer)>>

(* Sections 1 and 2: the second event is dated ahead of the clock the      *)
(* gateway decides by.                                                     *)
SteadyThenTransition(now) ==
  <<Enrol(1), Bind(Peer, "NR", TRUE, now), AgentConnects(1, Peer, TRUE, "stable"),
    Check(1, "cmd", TRUE),
    Bind(Peer, "WLAN", TRUE, now + 1), Report(1, "WLAN", Peer, now + 1),
    AgentConnects(1, Peer, TRUE, "transitional"),
    Check(1, "cmd", FALSE), Check(1, "telemetry", TRUE)>>

(* Section 3 *)
StepUp == <<Enrol(3), Release({Peer}), AgentConnects(3, Peer, FALSE, "held"),
            AgentAnswers(3, Peer)>>

(* Section 4 *)
Refusals == <<AgentConnects(4, Peer, FALSE, "refused"),
              Revoke(1), AgentConnects(1, Peer, TRUE, "refused")>>

(* Section 5 *)
Quarantine(base) ==
  <<Enrol(5), Bind(Peer, "NR", TRUE, base), Report(5, "NR", Peer, base),
    Bind(Peer, "WLAN", FALSE, base + 1), Report(5, "WLAN", Peer, base + 1),
    AgentConnects(5, Peer, TRUE, "suspicious"),
    Check(5, "telemetry", FALSE), Check(5, "q", TRUE)>>

(* mqtt_integration_flow.py: all devices behind one address, and done      *)
(* before the clock reaches the dates that lie ahead                       *)
MqttFlow ==
  Load("mqtt_flow", ResetBindings \o Probe \o SteadyThenTransition(clock) \o StepUp
                       \o Refusals \o Quarantine(clock))

(* settle: evidence is held fresh, then a steady state is expected. *)
Settle(dom, hold) ==
  LET a == AddressOf(1, dom)
  IN InTurn(hold, [i \in 1..hold |-> <<Bind(a, dom, TRUE, None), Advance(1)>>])
       \o <<AgentConnects(1, a, TRUE, "stable"), Check(1, "cmd", TRUE)>>

(* transition: the collector reports the new path, the agent reconnects    *)
(* over it, and one more decision is timed.                                *)
PathSwitch(dom) ==
  LET a == AddressOf(1, dom)
  IN <<Bind(a, dom, TRUE, None), AgentConnects(1, a, TRUE, "transitional"),
       Ask(1, dom, a, FALSE, TRUE, "transitional"),
       Check(1, "cmd", FALSE), Check(1, "telemetry", TRUE)>>

(* hold_s of the two legs: past the transition window, and past the rate   *)
(* window, lest the return count as a repeated transition.                 *)
ShortHold == TransitionWindow + 1
LongHold == RateWindow + 1

(* tier2_validation.py: one device with both access paths *)
Tier2Flow ==
  Load("tier2_flow",
        <<Enrol(1), Bind(AddressOf(1, "NR"), "NR", TRUE, None),
          AgentConnects(1, AddressOf(1, "NR"), TRUE, "accepted")>>
          \o Settle("NR", ShortHold) \o PathSwitch("WLAN") \o Settle("WLAN", LongHold)
          \o PathSwitch("NR") \o Settle("NR", ShortHold))

(* What an earlier user of the service left: a device with a binding at    *)
(* one of the addresses.                                                   *)
Leftover(a, dom) ==
  Load("leftover", <<Enrol(6), Bind(a, dom, TRUE, None), Ask(6, dom, a, TRUE, TRUE, "none")>>)

-----------------------------------------------------------------------------
Still == UNCHANGED <<evidence, phase, results>>

DoEnrol == Step("enrol") /\ Register(Head(todo).device) /\ Still

DoStatus == Step("status") /\ SetStatus(Head(todo).device, "REVOKED") /\ Still

DoBind ==
  /\ Step("bind")
  /\ LET s == Head(todo)
     IN CollectorEvent(s.address, s.domain, clock - Instant(s.at), None, s.posture)
  /\ Still

DoRelease ==
  /\ Step("release")
  /\ store' = [a \in Addresses |-> IF a \in Head(todo).addresses THEN None ELSE store[a]]
  /\ UNCHANGED <<clock, registry, nextId, track, grants, history>>
  /\ Still

(* POST /transitions with an instant of its own *)
DoReport ==
  /\ Step("report")
  /\ LET s == Head(todo)
         at == Instant(s.at)
     IN track' = [track EXCEPT ![s.device] = Counted(Observed(@, s.domain, s.address, at), at)]
  /\ UNCHANGED <<clock, registry, store, nextId, grants, history>>
  /\ Still

FlowNext ==
  \/ RunnerNext
  \/ \E pause \in Intervals : DevFlow(pause)
  \/ MqttFlow \/ Tier2Flow
  \/ \E a \in Addresses, dom \in Domains : Leftover(a, dom)
  \/ DoEnrol \/ DoStatus \/ DoBind \/ DoRelease \/ DoReport

FlowSpec == RunnerInit /\ [][FlowNext]_runnerVars

-----------------------------------------------------------------------------
IsFlow == \A i \in DOMAIN run.outline : run.outline[i] \in FlowKinds

(* Every expectation of a flow is met: what the flows record as "ok" is    *)
(* what the service does, with the dates the flows state and the clock     *)
(* behind them or past them, on an address their devices share and, for    *)
(* the integration flow, whatever an earlier user of the service left.     *)
ExpectationsMet ==
  IsFlow /\ scored # None =>
    IF scored.mark = "check" THEN scored.outcome["LEGITIMATE_ALLOW"] = "correct_acceptance"
    ELSE LET want == Expectation[scored.mark]
         IN last[scored.device].state \in want.states /\ last[scored.device].action \in want.actions
=============================================================================
