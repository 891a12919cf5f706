--------------------------- MODULE ScenarioRunner ---------------------------
(***************************************************************************)
(* experiments/runner/controller.py: one scenario executed against one     *)
(* strategy, in process.  The runner registers the devices, feeds access   *)
(* events from its source, asks the strategy for decisions, hands them to  *)
(* MemoryPEP, checks operations there, moves the clock, and scores what it *)
(* gets by the labels of experiments/schemas/scenario.py.                  *)
(*                                                                         *)
(* An event of a scenario is an action that writes its script, the feeds,  *)
(* decisions, checks and advances of the clock it consists of; the runner  *)
(* then works the script off.  The outline of a scenario gives the kinds   *)
(* of its events, or leaves one open ("any", of every kind but a mixed     *)
(* workload); their parameters are open.                                   *)
(* Latencies, counters and the records of the events are left out.         *)
(***************************************************************************)
EXTENDS Baselines

CONSTANTS
  Setups,             \* the runs: strategy, outline, sources, registered, devices, initial
  Intervals,          \* interval_s and advance_s
  LegitimatePercent,  \* legitimate_fraction of a mixed workload
  WorkloadRepeat      \* repeat of a mixed workload

(* What the access source last observed of the 5G session of a device, or  *)
(* of the one station that carries the WLAN addresses of all of them.      *)
Observations == {"established", "released", "unseen", "no path"}

ASSUME RunnerAssumption ==
  /\ \A r \in Setups :
       /\ r.strategy \in {"ca_ztcf", "independent", "static_continuity"}
       /\ r.source \in [Devices -> Observations] /\ r.station \in Observations \ {"no path"}
       /\ r.registered \in BOOLEAN /\ r.initial \in Domains
       /\ r.devices \in Nat \ {0} /\ 1..r.devices \subseteq Devices
       /\ (1..r.devices) \X Domains \subseteq Addresses
  /\ "WLAN" \in Domains /\ None \notin Domains /\ Domains \subseteq DeclaredDomains
  /\ {"absent", "valid"} \subseteq Verdicts /\ 0 \in Delays
  /\ Sessions = BOOLEAN /\ Postures = BOOLEAN
  /\ Intervals \subseteq Nat /\ LegitimatePercent \in 0..100 /\ WorkloadRepeat \in Nat

VARIABLES
  run,         \* the parameters of ScenarioRunner.__init__; they do not change
  outline,     \* the kinds of the events that are left
  todo,        \* the script of the event in hand
  workload,    \* where a mixed workload stands, or None
  phase,       \* "new", "running" or "failed": result.errors is not empty
  domain,      \* current_domain
  last,        \* the last decision of each device, with last_state
  scored,      \* the last step the event in hand has scored
  contested    \* history: devices whose address another device has presented itself from

scenario == <<run, outline, todo, workload, phase>>
results == <<domain, last, scored, contested>>
runnerVars == <<baselineVars, scenario, results>>

RunnerInit ==
  /\ BaselineInit
  /\ run \in Setups
  /\ outline = run.outline
  /\ todo = << >> /\ workload = None /\ phase = "new"
  /\ domain = [d \in Devices |-> None]
  /\ last = [d \in Devices |-> None]
  /\ scored = None
  /\ contested = {}

Members == 1..run.devices

(* Mutant: the devices share an address, as with a stride of zero. *)
AddressShared(d, dom) == <<1, dom>>

(* address of the access source: one of its own for each device and domain. *)
AddressOf(d, dom) == <<d, dom>>

(* prepare: the live source refuses a device it has no path for. *)
Prepare ==
  /\ phase = "new"
  /\ phase' = IF \E d \in Members : run.source[d] = "no path" THEN "failed" ELSE "running"
  /\ domain' = [d \in Devices |-> IF d \in Members THEN run.initial ELSE None]
  /\ LET known == IF run.registered /\ phase' = "running" THEN Members ELSE {}
     IN /\ status' = [d \in Devices |-> IF d \in known THEN "ACTIVE" ELSE None]
        /\ activeAt' = [d \in Devices |-> IF d \in known THEN clock ELSE None]
  /\ UNCHANGED <<clock, verified, failures, access, grants, provenAt, evidence, run, outline,
                 todo, workload, last, scored, contested>>

-----------------------------------------------------------------------------
(* What a script is made of *)

Feed(d, dom, posture) == [op |-> "feed", device |-> d, domain |-> dom, posture |-> posture]

(* _decide, with the move before it and the scoring after it; the runner   *)
(* states no instant.                                                      *)
Ask(d, dom, a, proof, session, mark) ==
  [op |-> "ask", device |-> d, domain |-> dom, address |-> a, proof |-> proof,
   session |-> session, mark |-> mark, at |-> None]

(* A device asks from the address it has in the domain. *)
AskFrom(d, dom, mark) == Ask(d, dom, AddressOf(d, dom), TRUE, TRUE, mark)

Check(d, topic, expected) ==
  [op |-> "check", device |-> d, topic |-> topic, expected |-> expected]

Advance(seconds) == [op |-> "advance", seconds |-> seconds]

Visit(d, dom, mark) == <<Feed(d, dom, TRUE), AskFrom(d, dom, mark)>>

DomainAt(i) == IF i % 2 = 0 THEN "NR" ELSE "WLAN"

(* The scripts s[1], ..., s[n] in a row; each has the length of s[1]. *)
InTurn(n, s) ==
  LET k == Len(s[1])
  IN [j \in 1..(n * k) |-> LET i == (j - 1) \div k IN s[i + 1][j - i * k]]

-----------------------------------------------------------------------------
(* The events *)

(* The kinds an open event may be of. *)
OpenKinds ==
  {"advance_time", "session", "mqtt_connect", "transition", "identity_mismatch",
   "unauthorized_context", "session_mismatch", "rapid_transitions", "concurrent_transition",
   "device_sweep", "mqtt_publish", "mqtt_disconnect"}

Begin(kind, script) ==
  /\ phase = "running" /\ todo = << >> /\ workload = None
  /\ outline # << >>
  /\ Head(outline) = kind \/ (Head(outline) = "any" /\ kind \in OpenKinds)
  /\ outline' = Tail(outline)
  /\ todo' = script
  /\ scored' = None
  /\ UNCHANGED <<baselineVars, run, phase, domain, last>>

Plain(kind, script) == Begin(kind, script) /\ UNCHANGED <<workload, contested>>

(* STALE_EVIDENCE does the same. *)
AdvanceTime(seconds) == Plain("advance_time", <<Advance(seconds)>>)

Session(d, dom) == Plain("session", <<Feed(d, dom, TRUE)>>)

(* MQTT_CONNECT comes with a proof, EXPECT_DECISION without. *)
Connect(d, proof) ==
  Plain("mqtt_connect",
        <<Ask(d, domain[d], AddressOf(d, domain[d]), proof, TRUE, "score")>>)

MoveTo(d, dom) == Plain("transition", <<AskFrom(d, dom, "score")>>)

(* The other device presents itself from the address of this one. *)
IdentityMismatch(d, other) ==
  /\ Begin("identity_mismatch",
           <<Ask(other, domain[other], AddressOf(d, domain[d]), TRUE, TRUE, "score")>>)
  /\ contested' = contested \cup {d, other}
  /\ UNCHANGED workload

UnauthorizedContext(d, dom) ==
  Plain("unauthorized_context", <<Feed(d, dom, FALSE), AskFrom(d, dom, "score")>>)

SessionMismatch(d) ==
  Plain("session_mismatch",
        <<Ask(d, domain[d], AddressOf(d, domain[d]), TRUE, FALSE, "score")>>)

(* The length of a burst that breaches the limit, whatever came before: the *)
(* first visit need not be a move.  A shorter repeat is so many visits,     *)
(* which sessions, moves and advances make up as well.                      *)
BurstLength == MaxTransitions + 2

(* Every repetition is fed, decided and followed by the interval; only the *)
(* last decision is scored.                                                *)
RapidTransitions(d, interval) ==
  LET MarkOf(i) == IF i # BurstLength THEN "none"
                   ELSE IF interval * MaxTransitions <= RateWindow THEN "burst" ELSE "score"
  IN Plain("rapid_transitions",
           InTurn(BurstLength, [i \in 1..BurstLength |->
             Append(Visit(d, DomainAt(i - 1), MarkOf(i)), Advance(interval))]))

ConcurrentTransition(dom, interval) ==
  Plain("concurrent_transition",
        InTurn(run.devices, [d \in Members |->
          Append(Visit(d, dom, "score"), Advance(interval))]))

DeviceSweep(interval) ==
  LET pause == Advance(IF interval = 0 THEN 1 ELSE interval)
  IN Plain("device_sweep",
           InTurn(run.devices, [d \in Members |->
             Visit(d, "NR", "none") \o <<pause>> \o Visit(d, "WLAN", "score")]))

(* MQTT_PUBLISH and MQTT_SUBSCRIBE; a scored one states what it expects. *)
Operation(d, topic, expected) == Plain("mqtt_publish", <<Check(d, topic, expected)>>)

Disconnect(d) == Plain("mqtt_disconnect", <<[op |-> "revoke", device |-> d]>>)

-----------------------------------------------------------------------------
(* MIXED_WORKLOAD.  The plan is drawn before it is executed, from a seed   *)
(* and from nothing else; drawing each entry when its turn comes gives the *)
(* same runs.                                                              *)

(* Mutant: the adversaries are drawn from all devices. *)
AdversarialSizeAll == run.devices

(* max(1, round(count * (1 - fraction))), halves to the even side *)
AdversarialSize ==
  LET share == run.devices * (100 - LegitimatePercent)
      whole == share \div 100
      rest == share % 100
      rounded == IF rest > 50 \/ (rest = 50 /\ whole % 2 = 1) THEN whole + 1 ELSE whole
  IN IF rounded < 1 THEN 1 ELSE rounded

LegitimateSize == run.devices - AdversarialSize

(* Without a device left over, all of them are legitimate. *)
LegitimateMember(index) ==
  (index % (IF LegitimateSize = 0 THEN run.devices ELSE LegitimateSize)) + 1

AdversarialMember(index) == LegitimateSize + (index % AdversarialSize) + 1

MixedWorkload(interval) ==
  /\ Begin("mixed_workload", << >>)
  /\ workload' = [index |-> 0, interval |-> interval]
  /\ UNCHANGED contested

AdversarialKinds == {"stale", "identity", "context", "rapid", "session"}

(* The script of an adversarial entry.  rapid feeds both domains in turn   *)
(* and asks once, at the end.                                              *)
Adversarial(kind, d, victim) ==
  LET shuttle == [i \in 1..BurstLength |-> <<Feed(d, DomainAt(i - 1), TRUE), Advance(1)>>]
      Here(proof, session) ==
        Ask(d, domain[d], AddressOf(d, domain[d]), proof, session, "adversarial")
  IN CASE kind = "stale" -> <<Advance(FreshMax + 1), Here(FALSE, TRUE)>>
       [] kind = "identity" ->
            <<Ask(d, domain[d], AddressOf(victim, domain[victim]), TRUE, TRUE, "adversarial")>>
       [] kind = "context" -> <<Feed(d, "WLAN", FALSE), AskFrom(d, "WLAN", "adversarial")>>
       [] kind = "rapid" ->
            Append(InTurn(BurstLength, shuttle),
                   AskFrom(d, DomainAt(BurstLength - 1), "adversarial"))
       [] kind = "session" -> <<Here(TRUE, FALSE)>>

Entry(script) ==
  /\ phase = "running" /\ todo = << >>
  /\ workload # None /\ workload.index < WorkloadRepeat
  /\ todo' = Append(script, Advance(workload.interval))
  /\ workload' = [workload EXCEPT !.index = @ + 1]
  /\ scored' = None
  /\ UNCHANGED <<baselineVars, run, outline, phase, domain, last>>

LegitimateEntry ==
  /\ LegitimatePercent > 0
  /\ Entry(Visit(LegitimateMember(workload.index), DomainAt(workload.index), "legitimate"))
  /\ UNCHANGED contested

AdversarialEntry(kind) ==
  /\ LegitimatePercent < 100
  /\ LET d == AdversarialMember(workload.index)
         victim == LegitimateMember(workload.index)
     IN /\ Entry(Adversarial(kind, d, victim))
        /\ contested' = IF kind = "identity" THEN contested \cup {d, victim} ELSE contested

WorkloadDone ==
  /\ todo = << >> /\ workload # None /\ workload.index = WorkloadRepeat
  /\ workload' = None
  /\ UNCHANGED <<baselineVars, run, outline, todo, phase, results>>

-----------------------------------------------------------------------------
(* The runner at work *)

Step(op) == /\ phase = "running" /\ todo # << >> /\ Head(todo).op = op
            /\ todo' = Tail(todo)
            /\ UNCHANGED <<run, outline, workload>>

(* _feed_nr and _feed_wlan.  What the live testbed observed last of the    *)
(* session or of the station is replayed: a release takes the binding      *)
(* away, and nothing that makes a binding or ends one fails the run.       *)
DoFeed ==
  /\ Step("feed")
  /\ LET s == Head(todo)
         a == AddressOf(s.device, s.domain)
         seen == IF s.domain = "NR" THEN run.source[s.device] ELSE run.station
     IN \/ /\ seen = "established"
           /\ \E lifetime \in Lifetimes : CollectorEvent(a, s.domain, 0, lifetime, s.posture)
           /\ UNCHANGED phase
        \/ /\ seen = "released"
           /\ store' = [store EXCEPT ![a] = None]
           /\ UNCHANGED <<clock, registry, nextId, track, grants, history, phase>>
        \/ /\ seen = "unseen"
           /\ phase' = "failed"
           /\ UNCHANGED vars
  /\ UNCHANGED <<evidence, results>>

(* What a step counts as under a label: record_ground_truth. *)
Labels == {"LEGITIMATE_ALLOW", "LEGITIMATE_RESTRICT", "LEGITIMATE_STEP_UP", "MALICIOUS"}

(* ACCEPTABLE_ACTIONS; the two malicious labels accept the same. *)
Acceptable(label) ==
  CASE label = "LEGITIMATE_ALLOW" -> {"ALLOW"}
    [] label = "LEGITIMATE_RESTRICT" -> {"ALLOW", "ALLOW_WITH_RESTRICTIONS"}
    [] label = "LEGITIMATE_STEP_UP" ->
         {"ALLOW", "ALLOW_WITH_RESTRICTIONS", "STEP_UP_AUTHENTICATION"}
    [] label = "MALICIOUS" -> {"DENY", "REAUTHENTICATE", "QUARANTINE"}

ScoreAs(label, satisfied) ==
  IF label = "MALICIOUS"
  THEN IF satisfied THEN "correct_rejection" ELSE "false_acceptance"
  ELSE IF satisfied THEN "correct_acceptance" ELSE "false_rejection"

PermittingActions == {"ALLOW", "ALLOW_WITH_RESTRICTIONS"}

Score(d, mark, permitted, satisfied) ==
  [device |-> d, mark |-> mark, permitted |-> permitted,
   outcome |-> [label \in Labels |-> ScoreAs(label, satisfied[label])]]

(* strategy.decide and pep.apply *)
StrategyDecides(d, a, dom, verdict, session, now) ==
  \/ /\ run.strategy = "ca_ztcf"
     /\ Decide(d, a, dom, verdict, session, now, TRUE)
     /\ UNCHANGED evidence
  \/ run.strategy = "independent" /\ Independent(d, a, dom, verdict, now)
  \/ run.strategy = "static_continuity" /\ StaticContinuity(d, a, dom, verdict, now)

(* The trust state and the context the new decision was looked up with. *)
Judged(d) == IF run.strategy = "ca_ztcf" THEN decided'[d] ELSE answered'[d]

DoAsk ==
  /\ Step("ask")
  /\ LET s == Head(todo)
     IN /\ StrategyDecides(s.device, s.address, s.domain,
                           IF s.proof THEN "valid" ELSE "absent", s.session, Instant(s.at))
        /\ domain' = [domain EXCEPT ![s.device] = s.domain]
        /\ LET j == Judged(s.device)
               action == Lookup(j.state, j.context).action
           IN /\ last' = [last EXCEPT ![s.device] =
                            [state |-> j.state, action |-> action]]
              /\ scored' = IF s.mark = "none" THEN scored
                           ELSE Score(s.device, s.mark, action \in PermittingActions,
                                      [label \in Labels |-> action \in Acceptable(label)])
  /\ UNCHANGED <<phase, contested>>

(* MemoryPEP.check: an expired decision is forgotten, the scope decides. *)
DoCheck ==
  /\ Step("check")
  /\ LET s == Head(todo)
         permitted == InForce(s.device) /\ ScopePermits(active[s.device].scope, s.topic)
     IN /\ active' = IF InForce(s.device) THEN active ELSE [active EXCEPT ![s.device] = None]
        /\ scored' = Score(s.device, "check", permitted, [label \in Labels |-> permitted = s.expected])
  /\ UNCHANGED <<clock, registry, access, decided, history, evidence, phase, domain, last,
                 contested>>

DoAdvance ==
  /\ Step("advance")
  /\ clock' = clock + Head(todo).seconds
  /\ activeAt' = [d \in Devices |-> IF status[d] = "ACTIVE" THEN clock' ELSE activeAt[d]]
  /\ UNCHANGED <<registry, access, grants, provenAt, evidence, phase, results>>

DoRevoke ==
  /\ Step("revoke")
  /\ active' = [active EXCEPT ![Head(todo).device] = None]
  /\ UNCHANGED <<clock, registry, access, decided, history, evidence, phase, results>>

-----------------------------------------------------------------------------
Event ==
  \/ \E seconds \in Intervals : AdvanceTime(seconds) \/ DeviceSweep(seconds)
                                  \/ MixedWorkload(seconds)
  \/ \E dom \in Domains, seconds \in Intervals : ConcurrentTransition(dom, seconds)
  \/ \E d \in Members :
       \/ \E dom \in Domains : Session(d, dom) \/ MoveTo(d, dom) \/ UnauthorizedContext(d, dom)
       \/ \E proof \in BOOLEAN : Connect(d, proof)
       \/ \E other \in Members : IdentityMismatch(d, other)
       \/ SessionMismatch(d)
       \/ \E seconds \in Intervals : RapidTransitions(d, seconds)
       \/ \E expected \in BOOLEAN : Operation(d, "telemetry", expected)
       \/ Disconnect(d)

RunnerNext ==
  \/ Prepare \/ Event
  \/ LegitimateEntry \/ (\E kind \in AdversarialKinds : AdversarialEntry(kind)) \/ WorkloadDone
  \/ DoFeed \/ DoAsk \/ DoCheck \/ DoAdvance \/ DoRevoke

RunnerSpec == RunnerInit /\ [][RunnerNext]_runnerVars

-----------------------------------------------------------------------------
(* experiments/scenarios/E15.yaml *)
E15 == <<"concurrent_transition", "mixed_workload">>

(* Whatever the scenario makes the devices claim, CA-ZTCF never serves two *)
(* of them on the strength of the same access binding.                     *)
BindingServesOne == run.strategy = "ca_ztcf" => OneDevicePerBinding

(* "Each device gets its own address in each domain": a device is judged   *)
(* UNTRUSTED, and its address is attributed to another device, only when   *)
(* the scenario made a device present itself from that address; E12 adds   *)
(* that no device inherits another's binding.  The harness causes none.    *)
OwnEvidence ==
  \A d \in Members \ contested :
    /\ last[d] # None => last[d].state # "UNTRUSTED"
    /\ \A dom \in Domains : LET b == store[AddressOf(d, dom)]
                            IN b # None => b.device_ref \in {None, d}

(* RAPID_TRANSITIONS drives "transitions faster than the configured rate   *)
(* limit permits": when it repeats for two more than the limit within the  *)
(* rate window, the last decision is a rejection the malicious label       *)
(* accepts, and no mere step-up, wherever the device was before.  Static   *)
(* continuity does not look.                                               *)
BurstRefused ==
  (scored # None /\ scored.mark = "burst" /\ run.strategy # "static_continuity")
    => scored.outcome["MALICIOUS"] = "correct_rejection"

(* The cohorts of a mixed workload keep "every label answerable": whatever *)
(* the adversaries do, CA-ZTCF answers a legitimate entry of E15 with an   *)
(* action its label accepts.                                               *)
LabelsAnswerable ==
  (run.strategy = "ca_ztcf" /\ run.outline = E15 /\ scored # None /\ scored.mark = "legitimate")
    => scored.outcome["LEGITIMATE_RESTRICT"] = "correct_acceptance"

-----------------------------------------------------------------------------
(* What the documentation says and the code does not keep; the README      *)
(* tells the behaviours that show it.                                      *)

(* M15, "Steps labelled illegitimate that were allowed": a step is counted *)
(* as a false acceptance only when it was permitted.                       *)
FalseAcceptanceWasAllowed ==
  scored # None /\ scored.outcome["MALICIOUS"] = "false_acceptance" => scored.permitted

(* "a device correctly quarantined for a rapid-transition burst": the      *)
(* burst of a mixed workload is answered as one.                           *)
AdversarialNotPermitted ==
  (run.strategy = "ca_ztcf" /\ scored # None /\ scored.mark = "adversarial") => ~scored.permitted
=============================================================================
