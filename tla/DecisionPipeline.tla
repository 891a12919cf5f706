-------------------------- MODULE DecisionPipeline --------------------------
(***************************************************************************)
(* The CA-ZTCF service as the enforcement point uses it: the registry, the *)
(* proof store, the binding store, the transition tracks, the failure      *)
(* counters, the trust state and the decision installed at MemoryPEP, with *)
(* CAZTCFStrategy.decide composing them.                                   *)
(*                                                                         *)
(* A request runs to its end before the next one starts.  That is how      *)
(* LocalDecisionClient.decide runs on the event loop of the gateway, for   *)
(* it awaits nothing; what concurrent HTTP requests do inside the single   *)
(* components is the subject of the component modules.                     *)
(*                                                                         *)
(* A request may state the instant it is judged at, in the past or in the  *)
(* future; otherwise it is judged at the clock.  That instant dates the    *)
(* decision, the observation, the failure and the age of the evidence; the *)
(* verification of a proof, the expiry of a binding where it is claimed    *)
(* and the expiry of the decision at MemoryPEP go by the clock.  Time      *)
(* starts wherever the first request puts it, so an instant is a natural   *)
(* number.                                                                 *)
(*                                                                         *)
(* A proof a request carries is reduced to the verdict of                  *)
(* ProofVerifier.verify, whose nonces and signatures ProofOfPossession     *)
(* models.                                                                 *)
(***************************************************************************)
EXTENDS TrustPolicy, TransitionRules

CONSTANTS
  Devices,
  Addresses,
  Domains,          \* "NR" and "WLAN"
  Statuses,         \* administrative statuses a device may be given
  DeclaredDomains,  \* domains a request states; None leaves it to the evidence
  Verdicts,         \* what ProofVerifier.verify may answer, or "absent"
  Sessions,         \* whether the session identity of a request matches the device
  Postures,         \* whether the attributes of a binding satisfy the allow-lists
  Lifetimes,        \* values of binding_lifetime_s
  Delays,           \* how old a collector event is when it arrives; negative when dated ahead
  Dates,            \* what a request may carry in "at"; None leaves it to the clock
  FailureWindow,    \* security.authn_failure_window_s
  Ttl,              \* policy.ttl_ms, by action
  MaxClock,         \* bound on the clock
  MaxBindings,      \* bound on the number of bindings ever built
  MaxHistory        \* bound on the transitions and failures held for a device

Actions == {"ALLOW", "ALLOW_WITH_RESTRICTIONS", "STEP_UP_AUTHENTICATION", "REAUTHENTICATE",
            "QUARANTINE", "DENY"}

ASSUME PipelineAssumption ==
  /\ None \notin Devices
  /\ Statuses \subseteq {"ACTIVE", "SUSPENDED", "REVOKED"}
  /\ "NR" \in Domains /\ DeclaredDomains \subseteq Domains \cup {None}
  /\ Verdicts \subseteq {"absent", "valid", "invalid"}
  /\ Sessions \subseteq BOOLEAN /\ Postures \subseteq BOOLEAN
  /\ Lifetimes \subseteq Nat \cup {None} /\ Delays \subseteq Int
  /\ Dates \subseteq Nat \cup {None}
  /\ FailureWindow \in Nat /\ Ttl \in [Actions -> Nat]
  /\ MaxClock \in Nat /\ MaxBindings \in Nat /\ MaxHistory \in Nat

(* The address of an observation: POST /transitions need not state one. *)
Stated == Addresses \cup {None}

VARIABLES
  clock,
  status,     \* DeviceIdentityRegistry: the status of each registered device
  verified,   \* ProofStore._verified: when the stored proof was verified
  failures,   \* SecurityCounters._authn_failures
  store,      \* BindingStore._by_address
  nextId,
  track,      \* TransitionCollector._tracks
  decided,    \* TrustStateManager._current, with the context and the rule of the decision
  active,     \* MemoryPEP._decisions
  provenAt,   \* history: when a proof of each device was last verified
  activeAt    \* history: the latest instant at which each device was ACTIVE

registry == <<status, verified, failures>>
access == <<store, nextId, track>>
grants == <<decided, active>>
history == <<provenAt, activeAt>>
vars == <<clock, registry, access, grants, history>>

NewTrack == [position |-> NoPosition, history |-> << >>, last |-> None]

Init == /\ clock = 0
        /\ status = [d \in Devices |-> None]
        /\ verified = [d \in Devices |-> None]
        /\ failures = [d \in Devices |-> << >>]
        /\ store = [a \in Addresses |-> None]
        /\ nextId = 0
        /\ track = [d \in Devices |-> NewTrack]
        /\ decided = [d \in Devices |-> None]
        /\ active = [d \in Devices |-> None]
        /\ provenAt = [d \in Devices |-> None]
        /\ activeAt = [d \in Devices |-> None]

(* DecisionStrategy.now, and the same rule in POST /transitions. *)
Instant(at) == IF at = None THEN clock ELSE at

(* How far an instant lies ahead of the clock, and how far behind it. *)
Ahead(now) == IF now > clock THEN now - clock ELSE 0
Behind(now) == IF now < clock THEN clock - now ELSE 0

Tick == /\ clock < MaxClock
        /\ clock' = clock + 1
        /\ activeAt' = [d \in Devices |-> IF status[d] = "ACTIVE" THEN clock + 1 ELSE activeAt[d]]
        /\ UNCHANGED <<registry, access, grants, provenAt>>

-----------------------------------------------------------------------------
(* Administration and collectors *)

Register(d) == /\ status[d] = None
               /\ status' = [status EXCEPT ![d] = "ACTIVE"]
               /\ activeAt' = [activeAt EXCEPT ![d] = clock]
               /\ UNCHANGED <<clock, verified, failures, access, grants, provenAt>>

(* Nothing but the registry learns of the new status. *)
SetStatus(d, s) == /\ status[d] # None
                   /\ status' = [status EXCEPT ![d] = s]
                   /\ activeAt' = IF s = "ACTIVE" THEN [activeAt EXCEPT ![d] = clock]
                                  ELSE activeAt
                   /\ UNCHANGED <<clock, verified, failures, access, grants, provenAt>>

CollectorEvent(a, dom, delay, lifetime, posture) ==
  LET observed == clock - delay
      new == [id |-> nextId, domain |-> dom, device_ref |-> None, last_seen |-> observed,
              expires_at |-> Expiry(observed, lifetime), posture |-> posture]
  IN /\ observed >= 0
     /\ nextId < MaxBindings
     /\ nextId' = nextId + 1
     /\ store' = [store EXCEPT ![a] = Merged(new, @)]
     /\ UNCHANGED <<clock, registry, track, grants, history>>

ReleaseEvent(a) == /\ store[a] # None
                   /\ store' = [store EXCEPT ![a] = None]
                   /\ UNCHANGED <<clock, registry, nextId, track, grants, history>>

-----------------------------------------------------------------------------
(* TransitionCollector.observe and the queries, as a request sees them *)

Observed(tr, dom, a, now) ==
  LET p == tr.position
      changed == DomainChanged(p, dom) \/ AddressChanged(p, dom, a)
  IN IF Stale(p, now) \/ Duplicate(p, dom, a, now) THEN tr
     ELSE [position |-> [domain |-> dom, address |-> a, at |-> now],
           history |-> IF changed THEN Append(Pruned(tr.history, now), now) ELSE tr.history,
           last |-> IF changed THEN Transition(p, dom, now) ELSE tr.last]

(* Mutant: the context lapses an instant before C7 does. *)
ContextLapsesEarly(tr, now) ==
  IF tr.last # None /\ now - tr.last.detected_at < TransitionWindow
  THEN ContextOf(tr.last, Len(Pruned(tr.history, now))) ELSE "NONE"

ContextFor(tr, now) ==
  IF Recent(tr.last, now) THEN ContextOf(tr.last, Len(Pruned(tr.history, now))) ELSE "NONE"

(* transitions_in_window comes last and prunes at the same instant. *)
Counted(tr, now) == [tr EXCEPT !.history = Pruned(@, now)]

(* POST /transitions reports where a device is seen, perhaps without an    *)
(* address; no decision is taken.                                          *)
ObserveTransition(d, dom, a, now) ==
  /\ track' = [track EXCEPT ![d] = Counted(Observed(@, dom, a, now), now)]
  /\ Len(track'[d].history) <= MaxHistory
  /\ UNCHANGED <<clock, registry, store, nextId, grants, history>>

(* GET /devices/{id}/state only asks, but asking prunes. *)
DeviceState(d) ==
  /\ track' = [track EXCEPT ![d] = Counted(@, clock)]
  /\ UNCHANGED <<clock, registry, store, nextId, grants, history>>

-----------------------------------------------------------------------------
(* MemoryPEP *)

(* apply: a terminating decision drops the grant, any other replaces it. *)
Installed(dec) == IF dec.action \in TerminatingActions THEN None ELSE dec

(* Mutant: a decision lives an instant longer. *)
DecisionExpiresLate(dec, now) ==
  \/ Ttl[dec.action] = 0
  \/ now > dec.created_at + Ttl[dec.action] + 1

DecisionExpired(dec, now) ==
  \/ Ttl[dec.action] = 0
  \/ now > dec.created_at + Ttl[dec.action]

-----------------------------------------------------------------------------
(* CAZTCFStrategy.decide *)

(* The stored proof, unless its lifetime has passed: ProofStore.get. *)
StoredProof(d, now) ==
  IF verified[d] # None /\ now - verified[d] > ProofTtl THEN None ELSE verified[d]

(* The proof C2 is judged by: the one presented, which is verified by the  *)
(* clock, else the stored one.                                             *)
ProofOf(d, verdict, now) ==
  IF status[d] = None THEN None
  ELSE CASE verdict = "valid" -> clock
         [] verdict = "invalid" -> None
         [] verdict = "absent" -> StoredProof(d, now)

(* A failure is recorded, and the count prunes. *)
FailuresOf(d, verdict, now) ==
  LET bucket == IF verdict = "invalid" /\ status[d] # None THEN Append(failures[d], now)
                ELSE failures[d]
  IN PrunedBy(bucket, now - FailureWindow)

(* The domain a request is about: stated, else the binding's, else NR. *)
RequestDomain(a, declared) ==
  IF declared # None THEN declared
  ELSE IF Live(store[a], clock) # None THEN store[a].domain ELSE "NR"

EvidenceOf(d, binding, tr, verdict, session, now) ==
  [at |-> now, identity |-> status[d], pop |-> ProofOf(d, verdict, now), binding |-> binding,
   consistent |-> Consistent(binding, d), recent |-> Recent(tr.last, now),
   count |-> Len(Pruned(tr.history, now)), failures |-> Len(FailuresOf(d, verdict, now)),
   session |-> session]

(* A Decision: PolicyEvaluator.evaluate dates it by the evidence.  Added   *)
(* as history are how far ahead of the clock that is, and the identity and *)
(* the last sighting of the binding it rests on.                           *)
DecisionOf(e, outcome) ==
  [action |-> outcome.action, scope |-> outcome.scope, created_at |-> e.at,
   ahead |-> Ahead(e.at),
   binding |-> IF e.binding = None THEN None ELSE e.binding.id,
   seen |-> IF e.binding = None THEN None ELSE e.binding.last_seen]

(* What decide makes of a request, and what it leaves in the stores.  The  *)
(* decision itself is handed to MemoryPEP, or not.                         *)
Decide(d, a, declared, verdict, session, now, apply) ==
  LET tr == Observed(track[d], RequestDomain(a, declared), a, now)
      live == Live(store[a], clock)
      binding == IF live # None /\ live.device_ref = None THEN Claimed(live, d) ELSE live
      e == EvidenceOf(d, binding, tr, verdict, session, now)
      context == ContextFor(tr, now)
      outcome == Outcome(e, context)
  IN /\ active' = [active EXCEPT ![d] = IF apply THEN Installed(DecisionOf(e, outcome)) ELSE @]
     /\ verified' = [verified EXCEPT ![d] =
                       IF verdict = "invalid" THEN @ ELSE IF status[d] = None THEN @
                       ELSE ProofOf(d, verdict, now)]
     /\ provenAt' = IF verdict = "valid" /\ status[d] # None
                    THEN [provenAt EXCEPT ![d] = clock] ELSE provenAt
     /\ failures' = [failures EXCEPT ![d] = FailuresOf(d, verdict, now)]
     /\ track' = [track EXCEPT ![d] = Counted(tr, now)]
     /\ store' = IF binding = None THEN store ELSE [store EXCEPT ![a] = binding]
     /\ decided' = [decided EXCEPT ![d] = [state |-> TrustState(e), context |-> context,
                                           rule |-> outcome.rule]]
     /\ Len(track'[d].history) <= MaxHistory /\ Len(failures'[d]) <= MaxHistory
     /\ UNCHANGED <<clock, status, nextId, activeAt>>

(* POST /decisions/evaluate, POST /devices/{id}/step-up, and the gateway,  *)
(* which states no instant.                                                *)
EvaluateDecision(d, a, declared, verdict, session, now) ==
  Decide(d, a, declared, verdict, session, now, TRUE)

(* POST /evidence/evaluate runs the whole pipeline and installs nothing. *)
EvaluateEvidence(d, a, declared, verdict, session, now) ==
  Decide(d, a, declared, verdict, session, now, FALSE)

(* active_decision, by itself or in check, forgets an expired decision. *)
ActiveDecision(d) ==
  /\ active[d] # None
  /\ DecisionExpired(active[d], clock)
  /\ active' = [active EXCEPT ![d] = None]
  /\ UNCHANGED <<clock, registry, access, decided, history>>

-----------------------------------------------------------------------------
Request(d) ==
  \E a \in Addresses, declared \in DeclaredDomains, verdict \in Verdicts, session \in Sessions,
     at \in Dates :
    \/ EvaluateDecision(d, a, declared, verdict, session, Instant(at))
    \/ EvaluateEvidence(d, a, declared, verdict, session, Instant(at))

Next ==
  \/ Tick
  \/ \E a \in Addresses : ReleaseEvent(a)
  \/ \E a \in Addresses, dom \in Domains, delay \in Delays, lifetime \in Lifetimes,
        posture \in Postures : CollectorEvent(a, dom, delay, lifetime, posture)
  \/ \E d \in Devices :
       \/ Register(d)
       \/ \E s \in Statuses : SetStatus(d, s)
       \/ \E dom \in Domains, a \in Stated, at \in Dates :
            ObserveTransition(d, dom, a, Instant(at))
       \/ DeviceState(d)
       \/ Request(d)
       \/ ActiveDecision(d)

Spec == Init /\ [][Next]_vars

-----------------------------------------------------------------------------
Bindings == [id : Nat, domain : Domains, device_ref : Devices \cup {None}, last_seen : Nat,
             expires_at : Nat \cup {None}, posture : BOOLEAN]

TrustStates == {"UNKNOWN", "UNTRUSTED", "SUSPICIOUS", "DEGRADED", "TRANSITIONAL", "STABLE"}

Judgements == [state : TrustStates, context : TransitionContexts, rule : 0..11]

Decisions == [action : Actions, scope : DOMAIN ScopeAllow, created_at : Nat, ahead : Nat,
              binding : Nat \cup {None}, seen : Nat \cup {None}]

Positions == [domain : Domains \cup {None}, address : Addresses \cup {None}, at : Nat \cup {None}]

Transitions == [from : Domains \cup {None}, to : Domains, detected_at : Nat, cross_domain : BOOLEAN]

Tracks == [position : Positions, history : Seq(Nat), last : Transitions \cup {None}]

ASSUME RecordAssumption == None \notin Transitions

(* The stores hold what the components declare. *)
TypeOK ==
  /\ clock \in Nat /\ nextId \in Nat
  /\ status \in [Devices -> {"ACTIVE", "SUSPENDED", "REVOKED", None}]
  /\ verified \in [Devices -> Nat \cup {None}]
  /\ failures \in [Devices -> Seq(Nat)]
  /\ store \in [Addresses -> Bindings \cup {None}]
  /\ track \in [Devices -> Tracks]
  /\ decided \in [Devices -> Judgements \cup {None}]
  /\ active \in [Devices -> Decisions \cup {None}]
  /\ provenAt \in [Devices -> Nat \cup {None}]
  /\ activeAt \in [Devices -> Nat \cup {None}]

(* The decision the enforcement point acts on, if there is one. *)
InForce(d) == active[d] # None /\ ~DecisionExpired(active[d], clock)

(* Whether d reaches any production topic now. *)
Served(d) == InForce(d) /\ \E t \in Production : ScopePermits(active[d].scope, t)

(* How long a grant can survive what it was granted for, whatever instant  *)
(* its request stated.  The key of a device that reaches a production      *)
(* topic was proven no longer ago than the lifetimes of the decision and   *)
(* of the proof, and the access domain had seen its binding no longer ago  *)
(* than that lifetime and the freshness bound: dating a request ahead      *)
(* gains nothing.  It was ACTIVE no longer ago than the lifetime of the    *)
(* decision, although revoking it touches the registry only; what its      *)
(* request was dated ahead comes on top, for the registry keeps no times.  *)
GrantStaleness ==
  \A d \in Devices : Served(d) =>
    LET life == Ttl[active[d].action]
    IN /\ activeAt[d] # None /\ clock <= activeAt[d] + active[d].ahead + life
       /\ provenAt[d] # None /\ clock <= provenAt[d] + ProofTtl + life
       /\ active[d].seen # None /\ clock <= active[d].seen + FreshMax + life

(* C5 carried through to enforcement: two devices are never served on the  *)
(* strength of the same access binding.                                    *)
OneDevicePerBinding ==
  \A d, e \in Devices : Served(d) /\ Served(e) /\ d # e =>
                          active[d].binding # active[e].binding

(* Context and C7 are derived by different calls from the same track, so   *)
(* they agree: the matrix never falls to its default, TRANSITIONAL never   *)
(* meets NONE (P09), and STABLE never meets a context other than NONE      *)
(* ("should be unreachable", P11).                                         *)
DefensiveRulesUnreachable ==
  \A d \in Devices : decided[d] # None =>
    /\ decided[d].rule \notin {DefaultRule, 9, 11}
    /\ decided[d].state = "STABLE" => decided[d].context = "NONE"

-----------------------------------------------------------------------------
(* What the documentation says and the code does not keep; the README      *)
(* tells the behaviours that show it.                                      *)

(* "attribution is made only in the service domain, by                     *)
(* proof-of-possession": a binding is attributed to a device only once the *)
(* device has proven possession of its key.                                *)
AttributionRestsOnProof ==
  \A a \in Addresses : (store[a] # None /\ store[a].device_ref # None) =>
                         provenAt[store[a].device_ref] # None

(* "a decision cannot outlive its evidence": while a decision serves a     *)
(* device, the sighting of the binding it rests on is fresh.               *)
DecisionWithinEvidence ==
  \A d \in Devices : Served(d) => clock <= active[d].seen + FreshMax

(* "the enforcement point must re-consult CA-ZTCF when the TTL expires or  *)
(* when a transition is observed, whichever comes first": no decision that *)
(* serves a device is older than a transition of that device.              *)
TransitionEndsDecision ==
  \A d \in Devices : Served(d) /\ track[d].last # None =>
                       track[d].last.detected_at <= active[d].created_at
=============================================================================
