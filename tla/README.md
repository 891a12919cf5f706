# CA-ZTCF: a TLA+ verification of the trust function and its enforcement

CA-ZTCF (`src/src/ca_ztcf`) decides, request by request, what a device may do
on an MQTT broker when it moves between a 5G (NR) and a WLAN access. A service
keeps evidence about each device; an ordered set of rules turns the evidence
into a trust state; a policy matrix turns trust state and transition context
into an action with a scope and a lifetime; an enforcement point applies it.

Around the package stands the apparatus of an experiment: a runner that plays
scenarios against CA-ZTCF and two baselines, flows that validate a running
service, a campaign that works through hundreds of runs and can be interrupted
at any point, and an analysis that turns the runs into findings.

The modules here model the parts of both that keep state or decide, the TLC
runs check them on small instances, and TLAPS proves the results listed
under *Proofs* for every value of the constants.

## 1. Inventory

| part | state | operations | module |
|---|---|---|---|
| proof of possession, `identity/proof.py` | `_issued` nonces, `_verified` proofs | issue (with purge), verify (consume, check signature), record, get | `ProofOfPossession` |
| registry, `identity/registry.py` | status of each device | register, set status | `ProofOfPossession`, `DecisionPipeline` |
| binding store and collectors, `collectors/base.py`, `nr.py`, `wlan.py` | `_by_address` | upsert, get, claim, release | `BindingRules`, `BindingStore` |
| event sources, `collectors/nr_open5gs.py`, `wlan_hwsim.py`, `wlan_hostapd.py` | the offset of each source | read_new | `EventSource` |
| transition collector, `collectors/transition.py` | a track per device: position, history, last transition | observe, context_for, is_transition_recent, transitions_in_window | `TransitionRules`, `TransitionCollector` |
| evidence, predicates, trust rules, `evidence/`, `trust_engine/` | failure counters | evaluate (pure) | `TrustPolicy` |
| policy matrix and scopes, `policy/`, `config/policy/` | none | lookup (pure) | `TrustPolicy`, `Scopes` |
| decision pipeline, `strategies/ca_ztcf.py`, `api/routes_research.py` | all of the above, trust states | the routes that change state | `DecisionPipeline` |
| baselines, `strategies/independent.py`, `static_continuity.py` | session tokens | decide | `Baselines` |
| in-memory enforcement point, `enforcement/memory_pep.py` | `_decisions`, `_last` | apply, check, active_decision, revoke | `EnforcementPoint` |
| MQTT gateway, `enforcement/mqtt_gateway.py`, `decision_client.py` | per connection: decision, pump, what the broker holds | handler, client loop, pump | `MqttGateway` |
| device agent, `device/agent.py`, on `enforcement/mqtt_stream.py` | writer, reader, last return code, subscription results | connect, subscribe, ping, pump, disconnect | `DeviceAgent` |
| experiment runner, `experiments/runner/`, `experiments/schemas/` | devices, addresses, domains, all of the pipeline, scores | the events of a scenario | `ScenarioRunner` |
| validation flows, `scripts/dev_validation_flow.py`, `mqtt_integration_flow.py`, `testbed/tier2/scripts/tier2_validation.py` | what they leave in the service | scripts with expectations | `ValidationFlows` |
| campaign, `scripts/run_final_campaign.py` | the ledger, the raw output, the session | start, attempt, write, append, retry, stop | `Campaign`, `CampaignContract`, `CampaignProofs` |
| analysis, `experiments/analysis/statistics.py`, `final_report.py`, `final_findings.py` | none | load, pair, test, adjust, report (pure) | `Analysis` |
| API wiring, telemetry, tables and figures, release scripts | | | not modelled, section 8 |

How the parts interact. A collector event goes through `POST /collectors/...`
to the binding store. A device is challenged with a nonce, signs it, and the
answer reaches `CAZTCFStrategy.decide` with the next request. `decide` verifies
the proof or looks up the stored one, observes the position of the device,
claims the binding of its address whatever the proof was worth, assembles the
evidence, applies rules and matrix, and hands the decision to `MemoryPEP`. The
request may state the instant it is judged at; without one the clock counts. The
gateway, which states none, calls the same pipeline, in process or over HTTP,
and keeps its own copy of the decision for as long as it lives.

What is hard in this code:

- The endpoints are synchronous functions, which FastAPI runs in a thread pool,
  and none of the dictionaries has a lock. Every read followed by a write, and
  every test followed by a deletion, can be cut in two by another request.
- Lifetimes are everywhere: nonce, proof, binding, freshness, rate window,
  transition window, failure window, decision, token. Each is compared at
  another moment, most of them inclusively, and a decision outlives the moment
  at which its evidence was judged. Some go by the clock and some by the instant
  a request states, which may lie behind the clock or ahead of it.
- `context_for`, `is_transition_recent` and `transitions_in_window` are
  separate calls on a track that each of them may prune, and the policy matrix
  has rules that rely on their agreement.
- The gateway awaits between the arrival of a packet and its handling; the
  clock moves, the pump relays, the service may fail.
- The rules and the matrix are ordered: the first match wins.
- The agent's reads are cancelled by deadlines wherever they are, and it takes
  the next packet of the right kind for its answer.
- The campaign's only memory is a ledger that is appended to after the output
  has been written; it can be killed between any two files, and its
  configuration can be edited while it runs, and the edit be undone before
  anything compares it.
- The runner feeds the very stores the strategies decide from, so that a slip
  in the harness (a shared address, a cohort too large, a leftover binding)
  looks like a result about a strategy.

`PROJECT.json` lists these hazards one by one, with the line and the properties
that watch it.

## 2. Modules

`Vocabulary` has the names that several modules share, among them the two
deployments (section 3). `BindingRules`, `TransitionRules`, `TrustPolicy` and
`Scopes` are pure: they hold the functions that the state machines use, so
that a component module and the pipeline use the same definition. Definitions
keep the names of the source where there is one; `map` in `PROJECT.json` gives
the lines. A definition whose comment starts with *Mutant* is a plausible bug:
it stands before the definition it can take the place of, and a property
listed with it fails when it does. Nothing else uses it.

- **`ProofOfPossession`**. One action is one dictionary operation or one clock
  read of one thread: `Issue`, `PurgeScan`, `PurgeDelete`; `BeginVerify`,
  `ConsumeClock`, `ConsumePop`, `CheckSignature`, `RecordProof`; `BeginLookup`,
  `LookupGet`, `LookupDrop`. A signature is the key that made it. `origin` and
  `accepted` are history.
- **`BindingStore`**. `upsert` and `claim` are a read and a write each;
  `release` is one `pop`. Events may be delivered late (`observed` is any
  instant up to the clock). `granted` and `released` are history.
- **`TransitionCollector`**. `observe_detailed` is five steps, `_prune_history`
  a test and a pop per iteration, the queries one read each. `changes` and
  `latest` are history.
- **`TrustPolicy`**, **`Scopes`**. Evidence is what the assembler is given,
  instants and counts, so that freshness and thresholds are computed and not
  assumed; the eleven matrix rules are those of `policy_matrix.yaml`.
  **`EvidenceEvolution`** lets the evidence change one item at a time
  (`EvidenceSpec`), so that statements about two pieces of evidence become
  action properties.
- **`DecisionPipeline`**. The whole service with one request at a time.
  `Decide` is `CAZTCFStrategy.decide` with everything it leaves in the stores;
  the verdict of the verifier is an input, because `ProofOfPossession` has the
  verifier. A request, and a position reported by `POST /transitions`, is judged
  at the instant it states or at the clock (`Instant`), and the report need not
  state an address (`Stated`): then the next change of address is not seen.
  `provenAt`, `activeAt` and the fields `ahead`, `binding` and `seen` of a
  decision are history.
- **`Baselines`** extends it with the two strategies CA-ZTCF is compared with.
  They judge by the instant of the request and date the decision by the clock.
  `answered` and `basis`, what the last decision was looked up with and what it
  was granted on, are history, as are `movedAt` and `provenIn`.
- **`EnforcementPoint`**. `MemoryPEP` with its two dictionaries and threads; a
  decision is any action, since `DecisionPipeline` says which.
- **`MqttGateway`**. An action is what a handler does from one await to the
  next; the pump, the service and the broker act in between. The service
  answers with any action it could have. Topics are the classes the scopes
  distinguish.
- **`EventSource`**. The file, its writer and `read_new`, which parses the
  whole file again and skips as many events as it has returned before.
- **`DeviceAgent`**. One operation at a time, each a write followed by reads of
  whole packets. A deadline (`DeadlinePasses`) is noticed between two packets
  (`GoOn`) or cancels the read (`TimesOut`); a header that was taken by then is
  lost and the framing is `torn`, after which a read returns anything or
  raises. The other end is the gateway as the agent sees it, with the broker's
  answers relayed by the pump. `granted`, `reported` and `slipped` are history.
- **`ScenarioRunner`** extends `Baselines`. An event writes a script of feeds,
  decisions, checks and advances of the clock, which the runner works off; a
  decision is the `Decide` of the pipeline or that of a baseline. The outline of
  a scenario fixes the kinds of its events or leaves them open; the plan of a
  mixed workload is drawn entry by entry. A feed replays what the source shows:
  established, released, not seen (which fails the run) or, for NR, a session
  without a path; WLAN has one station for all devices. `contested` is history.
- **`ValidationFlows`** extends it with the three flows, written as the
  sequences of calls they are, each decision marked with what the flow expects.
  `DevFlow` dates its events and its requests by a timeline of its own that runs
  ahead of the clock; the clock advances by what the calls take.
- **`Campaign`**. The disk (`ledger`, `raw`) survives the process; `pc`,
  `session` and `attempt` are the locals of `main`. The files of a run are
  written one by one. A configuration is what the code compares: the commit that
  is checked out and what `config/` holds. `Edit` puts anything there, what was
  there before included, `Commit` and `Checkout` move `head`; none of the three
  is code of the repository. `timeline` lists the configurations that have been
  in force; it, `past`, and in a row `ran` and `session`, are history.
  **`CampaignContract`** is the abstract specification: every condition obtains
  one result, and none a second. `KeepsContract` is the refinement, with the
  result of a condition read off the ledger (`ResultOf`).
- **`Analysis`**. Load, pairing, Friedman and Wilcoxon (SciPy's p-values are any
  of a set, and Wilcoxon may refuse a pair), Cochran's Q (computed exactly) and McNemar, Holm, findings and
  non-findings. The binomial test of McNemar's is SciPy's: the constants
  `Binomtest` and `Parts` are its table, of which the module assumes only that
  it is symmetric; `MCComputations` gives it by the exact two-sided formula.
  Holm's adjustment is written as what its loop leaves: for each comparison the
  greatest product among those that are not tested after it. `MCComputations`
  puts the module beside `EvidenceEvolution`: both are computations whose
  inputs grow step by step.

`TypeOK` in a module says which values its variables take. It is proved where
section 5 says so; the runs spend their properties on other things.

The proofs stand in eight modules of their own: `ProofOfPossessionProofs`,
`CollectorProofs` (binding store and event sources), `TransitionCollectorProofs`,
`PipelineProofs` (rules, matrix and scopes; pipeline; baselines),
`RunnerProofs` (scenario runner and flows, on top of `PipelineProofs`),
`EnforcementPointProofs`, `MqttProofs` (device agent and gateway) and
`CampaignProofs` (campaign and analysis).

Modules `MC...` give values to constants that need an expression.

## 3. Concurrency and time

Two deployments are named in `enforcement/decision_client.py`. In a single
process (`LocalDecisionClient`) a decision awaits nothing on the event loop, so
a request ends before the next one starts. Behind HTTP, "the deployed
arrangement", requests run in threads. The component modules choose the
deployment in `Init` (variable `deployment`) and never change it: `Starts(t)`
lets a second request in only behind HTTP. Among the properties of these modules
those that say "in a single process" carry `deployment = "local"`, and the others
hold for both deployments. A property with that condition does not watch the
races of threads behind HTTP. Those races are hazards without a property in
`PROJECT.json`: the code has them, and TLC shows each as soon as the condition
is dropped (section 7).

`DecisionPipeline`, `Baselines`, `ScenarioRunner` and `ValidationFlows` take one
request at a time, so nothing they show speaks of requests that overlap inside
the service.

One dictionary or deque operation is taken as atomic, which CPython's
interpreter lock gives. The clock is a natural number that never goes back and
may advance between any two steps; the gateway and the service are taken to
read the same clock. In `DecisionPipeline` a request runs at one reading of the
clock and is judged at one instant, the one it states or that reading: `decide`
takes it once and passes it on. The instant dates the observation, the failure,
the age of the evidence and the decision of CA-ZTCF. Proofs are verified,
bindings claimed and decisions expire by the clock.

## 4. Runs

| run | instance | what it shows |
|---|---|---|
| `proof_of_possession` | two devices, one without an Ed25519 key, two nonces, two threads, lifetimes of 1, clock to 2 | `NonceSingleUse`, `ProofWithinNonceLife` and `LiveNonceLeavesByUse` whatever the threads do; `ProofKept` in a single process |
| `binding_store` | one address, two devices, two domains, two threads, bindings with and without expiry, clock to 2, four bindings | `AttributionWasGranted` for both deployments; `ClaimExclusive`, `AttributionPreserved`, `ReleasedStaysReleased` in a single process |
| `transition_collector` | one device, two addresses, both domains, two threads, observations with and without an address, windows that end with their instant, clock to 1, requests dated now or 0, two accepted changes | `NoPhantomTransition` for both deployments; `CountExact`, `LastTransitionNotReplacedByOlder` in a single process |
| `computations` | every item of the evidence over two instants and two counts, every context; ledgers of three strategies and three seeds with a failed row and two missing values, rank tests that reject, do not reject or refuse; all outcome tables of up to ten paired runs | `FullScopeIffComplete`, `ProofNeverOverridesContradiction`, `WorseEvidenceNeverWidens`; `PairsStayPairs`, `ReportIsHonest`, `NoRanking` |
| `pipeline` | one device with and without proofs, one address, both domains, revocation, lifetimes of 1, clock to 3, requests and reports dated now or 1, so ahead, at and behind the clock | `GrantStaleness`, `DefensiveRulesUnreachable` |
| `baselines` | one device, one address, both domains, both strategies in turn, revocation and reinstatement, a token and a proof that live for 1, clock to 3, requests and reports dated now or 1 | `BaselineStaleness`, `SettledBeforeGrant` |
| `enforcement_point` | one device, two threads, a long-lived, a short-lived and a terminating action, three decisions, clock to 3 | `DenialStands`, `LiveDecisionKept` in a single process |
| `gateway` | one connection, four actions, three topics, a failing service, clock to 2 | `PublishAuthorised`, `SubscriptionsWereGranted`, `AnswerNeverRelayed`, and `PublishSettles` under fairness |
| `event_source` | five lines of four kinds, two truncations | `ReadOnceInOrder`, `NothingSkipped` |
| `device_agent` | lists of one and of two filters, up to two packets under way to the agent | `MisreportExplained`, and `OperationsEnd` under fairness |
| `scenario_runner` | scenarios of two or three open events for each strategy, with unregistered devices and with live sessions or stations that are released, unseen or (sessions) without a path; E15 with three devices and four entries; the three flows, the integration flow after any leftover binding | `BindingServesOne`, `OwnEvidence`, `BurstRefused`, `LabelsAnswerable`, `ExpectationsMet` |
| `campaign` | two conditions, one retry, five runs with output, two contents of `config/`, three troubles of any kind, edits, undone edits and checkouts among them | `ValidRowHasOutput`, `DriftBounded`, the refinement `KeepsContract`, and `CampaignCompletes` under fairness |

Why the bounds are enough. Every race in the components is between two
requests about one device, one nonce or one address, so two threads and two of
what they compete for reach it. Comparisons are of the form `now > t + life`;
with a life of 0 or 1 and a clock that goes past it, TLC visits the instants
before, at and after every boundary, and the clock in `pipeline` and
`baselines` is long enough for a proof to age, a decision to be taken on it,
with its instant ahead of the clock or behind it, and that decision to expire;
what the last instant is for is to look at the grants that are left, so the
constraint `EarlierInstants` explores no further steps from it. In `scenario_runner` the thresholds keep the order of
the shipped configuration and the clock moves only as the scripts say. In
`campaign` three troubles are a failure, the failure of its retry and a kill or
an edit on top, or an edit, its undoing and another; two conditions are enough
for one to be left behind and for two rows of a session to be drifted. Ten paired
runs are enough for McNemar's test to be significant after Holm's adjustment
and for tied p-values on either side of the level. The bounds that only keep the state space finite are
named: `MaxClock`, `MaxBindings`, `MaxMoves`, `MaxHistory`, `MaxDecisions`,
`MaxSubscribes`, `MaxLines`, `MaxTruncations`, `MaxInbox`, `MaxRequests`,
`MaxDue`, `MaxRuns`, `MaxTroubles`, `MaxFailed`, `MaxMissing`, `MaxPairs`. Connections of the gateway share
no state, so one is enough. Symmetry is used for identifiers that are only
compared.

Deadlock is checked except where the system stops: a closed connection of the
gateway, a scenario that is worked off, a campaign that is complete, inputs
that are as large as their bounds allow.

Fairness is assumed in three places.

- `FairSpec` of `MqttGateway`: the service answers or fails (`WF` of
  `ServiceDecides \/ ServiceFails`), because the HTTP client has a timeout and
  the local client awaits nothing; a handler whose answer has come goes on
  (`WF` of `PacketAnswered`), because the event loop resumes it. Nothing is
  assumed of the clients or of the broker.
- `AgentFairSpec` of `DeviceAgent`: time passes (`WF` of `DeadlinePasses`) and the
  event loop runs a timer that is due (`WF` of `TimesOut`). Nothing is assumed
  of the gateway, which may send for ever or never.
- `CampaignFairness`: the process goes on while it is up (`WF` of `Work`), and
  whoever runs it commits an edited tree and starts it again (`WF` of `Commit`
  and `Start`), which is what the messages of the script ask for. Troubles may
  come in any order and are not fair; they end because they are bounded.

## 5. Proofs

Everything in this section holds for every value of the constants: any sets of
devices, addresses, threads, actions or connections, any lifetimes and bounds.
What is assumed of the constants is the same throughout: lifetimes, thresholds
and bounds are natural numbers, a set of inputs is a subset of the values the
input can have, and `None` is none of the values it stands in for. What goes
beyond that is named below. "In a single process" is part of a property, as in
section 3; the proofs never assume a deployment.

Each proof of an invariant has a lemma or a step per action, and under it one
per conjunct that the action can disturb. Where a property is not inductive as
it stands, the text says which facts make it so. These were checked as
invariants of the component's run before they were proved.

### `ProofOfPossessionProofs`

Beyond the above: Ed25519 devices are devices (`KeyAssumption`).

- `TypeCorrect`: `Spec => []TypeOK`.
- `SingleUse`: `Spec => []NonceSingleUse`.
- `ProofDatedWithinNonceLife`: `Spec => []ProofWithinNonceLife`.
- `InductiveInvariant`: `Spec => []IInv`, from which the three follow.
- `LiveNonceStays`: `Spec => LiveNonceLeavesByUse`.
- `ProofStays`: `Spec => ProofKept`.

That a nonce is accepted once rests on `IssuedAsRecorded`: whatever `_issued`
holds has not been accepted yet, and accepting pops it. That a stored proof is
dated within the life of its nonce rests on `ThreadsKnow`: the clock reading a
thread took before `consume` lies between the issue of its nonce and the
reading inside `consume`, and what it has found out about the record stays
true, because `origin` never changes. The type invariant itself needs
`ThreadsKnow`, for a thread stores the nonce it holds.

That a live nonce leaves only by use needs `PurgesKnow`: what a purge has put on
its list was expired by its own reading of the clock, and an expired nonce is
expired for good. This holds with any number of purges under way. That a stored
proof is replaced only by a younger one and dropped only when expired is true
in a single process; `LocalProofs` says that no stored proof is younger than
the one being verified (`NoneYounger`), and that the proof about to be dropped
is still the one that was looked at, both because no second request runs
(`OneRequest`).

### `CollectorProofs`

Of the binding store:

- `TypeCorrect`: `Spec => []TypeOK`.
- `AttributionEarned`: `Spec => []AttributionWasGranted`.
- `ClaimsExclude`: `Spec => []ClaimExclusive`.
- `ReleaseIsFinal`: `Spec => []ReleasedStaysReleased`.
- `AttributionKept`: `Spec => AttributionPreserved`.

`AttributionWasGranted` is about every interleaving: a refresh may write an
attribution that it read long ago. It holds because of what the thread carries
(`LocalsGranted`: a granted attribution or none), and because `granted` never
shrinks. The other three are about a single process and need more: that
identifiers are never handed out twice (`IdsHandedOut`), that one request is
under way at most (`OneAtATime`), and from these `LocalStore`: a binding sits at
one address, one without attribution was granted to nobody, and what a request
has read is still there when it writes.

Of the event sources, for any kinds of lines and any numbers of lines and
truncations:

- `SourceTypeCorrect`: `SourceSpec => []SourceTypeOK`.
- `EventsReadOnce`: `SourceSpec => []ReadOnceInOrder`.
- `NothingElseSkipped`: `SourceSpec => []NothingSkipped`.

`read_new` parses the whole file again, so both are about what a recursion over
lines returns. The library's induction theorems take an operator as parameter,
which the provers cannot instantiate. `SetInduction`, derived from the fact that
every set of natural numbers that is not empty has a least element, speaks of a
set instead, and what is to be shown of the parsing is that the set of prefixes
for which it holds is closed under one more line. `SourceInv` is inductive:
the lines stand in the order in which they were written (`InFileOrder`), what
was delivered precedes what stands behind the offset (`Behind`), and whatever
stands before the offset was delivered, unless a truncation put it there
(`Accounted`).

### `TransitionCollectorProofs`

Beyond the above: the pool of threads is finite (`PoolAssumption`), which FastAPI
gives; the proof counts requests.

- `TypeCorrect`: `Spec => []TypeOK`.
- `NothingIsInvented`: `Spec => []NoPhantomTransition`.
- `LastTransitionIsLatest`: `Spec => LastTransitionNotReplacedByOlder`.
- `RateIsExact`: `Spec => []CountExact`.

`NoPhantomTransition` (an instant stands in the history no more often than a
change was accepted at it) holds for every interleaving, and is inductive only
when the requests that have been accepted and have not appended yet are counted
too: `Counted` says that what is appended and what is still owed together do
not exceed what was accepted. An append moves one from the second number to the
first, a pop only lowers the first.

The other two are about a single process. `InOrder`: the accepted changes are in
the order of their instants and none is later than the position, because
`observe` refuses a request that is older than the position and nothing moves
the position between its test and its move (`Abreast`). `ExactHistory`: the
history is the end of the sequence of accepted changes, less the one not yet
appended, and every change that was pruned lies before the window of the latest
request (`SuffixOf`); a request that counts has pruned everything old first
(`Pruning`). Hence a request that counts at the latest instant used for its
device finds a history as long as there are changes in the window.

### `PipelineProofs`

Of the rules, the matrix and the scopes:

- `EvidenceTyped`: `EvidenceSpec => []EvidenceTypeOK`.
- `FullScope`: `EvidenceSpec => []FullScopeIffComplete`: rules and matrix, with
  all their orders of evaluation, amount to one conjunction over the evidence.
- `NoOverride`: `EvidenceSpec => []ProofNeverOverridesContradiction`.
- `NeverWidens`: `EvidenceSpec => WorseEvidenceNeverWidens`.

`FirstMatch` and `Rows` reduce the matrix to `DecisionTable`, a table of action
and scope by trust state and context; `OpensTable` says which production topics
each row opens; `StableIffComplete` turns the nested conditions of the trust
rules into `CompleteEvidence`; `StableAntitone` and `SettledAntitone` say that
evidence which is no better cannot reach a better state. Monotonicity then is a
comparison of table rows.

Of the pipeline and the baselines; beyond the above, NR is one of the domains,
whatever else is (`PipelineAssumption`):

- `TypeCorrect`: `Spec => []TypeOK`, for the pipeline.
- `GrantsGrowStale`: `Spec => []GrantStaleness`, whatever instants requests state.
- `DefensiveRulesIdle`: `Spec => []DefensiveRulesUnreachable`.
- `BindingServesOneDevice`: `Spec => []OneDevicePerBinding`: the grants in force of
  two devices never rest on one binding. No run of the pipeline checks it, since
  the instances have one device; it is what `RunnerProofs` needs for
  `BindingServesOne`, which `scenario_runner` checks.
- `BaselineTypeCorrect`: `BaselineSpec => []BaselineTypeOK`.
- `ImplicitTrustBounded`: `BaselineSpec => []BaselineStaleness`, with what the
  instants of requests differ from the clock.
- `NoGrantInTransition`: `BaselineSpec => []SettledBeforeGrant`: about domains, at
  the instant the request was judged at.

How old the evidence behind a grant can be is a sum: what the decision found
when it was taken (`Rests`: ACTIVE, a proof within its lifetime, a binding seen
within its freshness), plus the lifetime of the decision. Proof and binding are
aged by the instant that dates the decision too, so a request dated ahead gains
nothing by them; that the device was ACTIVE is read off the registry, which has
no dates, so there the lead of the request (`ahead`) comes on top. `Rests` speaks
of histories, so it needs `TimesInv`: an ACTIVE device is ACTIVE now, and what the
proof store holds is the last proof that was verified. The step that takes a
decision uses `DecisionTable`: a scope that opens a production
topic comes from trust states that need all three. `DefensiveRulesUnreachable`
follows from the rules that set the context, not from any invariant of the
stores: one request prunes, counts and derives the context at one instant.

`OneDevicePerBinding` is not inductive. A grant outlives its binding: once the
binding has been released, nothing in the store says whose it was.
`BindingsOwned` therefore carries three facts: identifiers in the store were
handed out and are each at one address; a binding that a grant rests on is
attributed to the granted device for as long as it is stored; no two grants in
force name one binding, stored or not.

For the baselines `BaselineRests` allows static continuity the lifetime of its
token on top (`Slack`), since a token is issued on a proof (`TokenRests`) and
used without one. Their decisions are dated by the clock and judged by the
request's instant, so a request dated back makes an older proof or token count
by that lag, and one dated ahead issues a token that lasts longer by that lead;
`slack` is the sum of the two. `LastMove` and `Settled` carry the last move of a
device between domains up to the decision of independent authentication.

### `RunnerProofs`

For any set-ups, outlines, delays, intervals and lengths of workloads. Beyond
the above (`RunnerAssumption`): a set-up has at least one device and an address
for each of its devices in each domain; WLAN is one of the domains; sessions and
postures may be either way. For the flows (`FlowAssumption`): the peer of the
flows is an address, the six devices they use exist, REVOKED is a status that
can be set, a domain may be left unstated, and the outline of a run names either
flows only, under CA-ZTCF, or events only.

- `OwnEvidenceOnly`: `RunnerSpec => []OwnEvidence`.
- `RunnerServesOnePerBinding`: `RunnerSpec => []BindingServesOne`.
- `BurstIsRefused`: `RunnerSpec => []BurstRefused`.
- `FlowsServeOnePerBinding`:
  `FlowSpec => [](BindingServesOne /\ OwnEvidence /\ BurstRefused)`: what the run
  checks, for scenarios and flows together.

What is fed into the stores is what a script says, and a script was written
some steps ago. `ScriptOK` says of what is left of it that every operation is
about a member of the run, at one of its own addresses, and about the address
of another only if that device is counted as contested. From this follows
`EvidenceOK`, that a device nobody contests was judged by its own evidence.
`ServiceOK` takes the type invariant and `BindingsOwned` of the pipeline over:
under CA-ZTCF each operation is a step of the pipeline or leaves its stores
alone, so the lemmas of `PipelineProofs` preserve it.

`BurstRefused` is about a number: the device of a rapid-transition event has
moved so often within the window that the decision which is scored, the last,
must be a rejection. Nothing in the stores says why it should; `BurstInv` adds
where in the script of the burst the runner is (`InBurst`: so many whole visits,
so many steps of the next), how many moves the track therefore has since the
burst began (`Shuttled`), and that the whole burst fits into the window. Visits
prune and append (`Since`, `PrunedSince`, `VisitTracked`): positions are
reported in the order of time (`TracksOK`), so that what a visit prunes lies
before the window and none of the burst does. No other script carries the mark
of a burst.

For `FlowSpec`, `FlowInv` tells the two kinds of run apart by their outline: a run
of events keeps the two invariants above, a run of flows keeps `FlowOK`. The calls
of a flow follow no such discipline as `ScriptOK`: `FlowOps` lets devices meet at
any address, leave the domain unstated, be revoked, report moves at any instant
and ask for decisions at any instant. That no two of them are served on one binding therefore rests on the
pipeline alone, on `BindingsOwned` and the type of each call. The other two
conjuncts say little about a flow, whose devices all contest their addresses and
which has no burst; they are there because events and flows share one
specification.

### `EnforcementPointProofs`

- `TypeCorrect`: `Spec => []TypeOK`.
- `DenialIsFinal`: `Spec => []DenialStands`.
- `LiveDecisionStays`: `Spec => LiveDecisionKept`.

Both properties are about a single process. `LocalReads`: a decision on its way
into the dictionary is more recent than every denial of its device; what
`active_decision` has read is still what is installed, and once found expired it
stays so. It rests on `OneAtATime`.

### `MqttProofs`

Of the device agent:

- `AgentTypeCorrect`: `AgentSpec => []AgentTypeOK`.
- `MisreportHasCause`: `AgentSpec => []MisreportExplained`: a filter that is
  reported as granted and was not goes back to a SUBACK that outlived its
  request or to a read cancelled within a packet, and to nothing else.

The agent takes the next SUBACK it reads for its answer, so the reason why it
is the right one is about what can be under way. `AgentInv` holds as long as
neither of the two causes has occurred: of the request, the answer the broker
owes and the answer on its way to the agent there is one at most, and none
outside a `subscribe` (`OneExpected`); and whichever there is belongs to the
filters of the operation and promises no more than was granted (`Honest`).

Of the gateway; beyond the above, actions are those of the matrix
(`GatewayAssumption`):

- `TypeCorrect`: `Spec => []TypeOK`.
- `RelayedWasAuthorised`: `Spec => []PublishAuthorised`.
- `FiltersWereGranted`: `Spec => []SubscriptionsWereGranted`.
- `AnswersStay`: `Spec => []AnswerNeverRelayed`.

A handler awaits the service with a packet in hand, and clock, pump and broker
go on meanwhile. `SendsInv` adds what survives the await: the packet that waits
was no step-up answer (`WaitingNotIntercepted`), and the copy of the decision a
handler keeps is one it was given (`DecisionWasGiven`). `RelayAuthorised` is the
one lemma about what a packet relayed under a decision adds to the history; it
is cited for the decision at hand and for the fresh one.

### `CampaignProofs`

Of the campaign, for any strategies and seeds, any number of retries, runs and troubles.
`CampaignAssumption` also says that no strategy and no seed is listed twice; the
proofs do not use it.

- `CampaignInvariant`: `CampaignSpec => []CampaignIInv`, the inductive invariant.
- `ValidRowsHaveOutput`: `CampaignSpec => []ValidRowHasOutput`.
- `DriftIsBounded`: `CampaignSpec => []DriftBounded`.
- `CampaignImplementsContract`: `CampaignSpec => KeepsContract`, the refinement
  of `CampaignContract`.

`CampaignIInv` has a part for each reason. `OneResult`: a condition leaves the
pending ones when it is taken, is retried only while it has no VALID row, and a
new session takes up only what the ledger does not show, so that no condition
obtains a second row, across kills too. `AttemptOutput`: the attempt in hand
writes to the last output, which no row names yet, and reaches its row with
status VALID only when all files are there; `OutputsNamedOnce` follows from it
for every row. `DriftSeen`: a drifted row puts the session before a check, and
only a check that meets the frozen configuration again leads on to another
condition; the runs that follow have later places in the timeline, so the return
lies between (`Returned`). That is all the check gives. `DriftBounded` says it of
two rows: of VALID rows of one session, a drifted one is followed by another only
if the stated configuration came back in between. It does not say that a session
has one drifted row. For the refinement, `OneResult` makes the VALID row of a
condition unique (`ResultIsRow`), the append of a VALID row is the step `Obtain`
of the contract (`ValidRowObtains`) and every other step leaves all results as
they are (`ResultsKept`).

Of the analysis, for any three strategies, any finite set of seeds, any
measurements and p-values, any table of the binomial test that is symmetric
(`BinomtestAssumption`; a fair coin favours neither side) and tables of any
size up to any bound:

- `SeriesArePaired`: `AnalysisSpec => []PairsStayPairs`.
- `FindingsAreHolms`: `AnalysisSpec => []ReportIsHonest`.
- `OrderCarriesNoRanking`: `AnalysisSpec => []NoRanking`.

`AnalysisInv` is inductive: a condition has one VALID row at most and it holds
what was measured (`LedgerOfRuns`); the outcome table is within its bound; a
report that was made is honest.

`PairsStayPairs` says that entry n of each series is of one and the same seed. A
series is the sorted set of values with their seeds; that two of them stay
aligned uses that the ranks of a finite set of seeds run through all of
`1..Cardinality` (`SortedIn`).

`HolmRejects` is what the other two rest on: the code adjusts p-values in an
order that breaks ties by position, and carries a maximum along; the adjusted
value is significant exactly when every comparison with a p-value that is no
greater passes its own level, a statement without any order. In one direction
the first of those tied stands where all that are not below it are still to
come; in the other, no more are left at a turn than are not below. So positions
cannot decide what is found. For `NoRanking` it then is enough to exchange
neighbours: the counts of the table, Cochran's statistic and the p-values of the
follow-up are permuted (`SwapCounts`, `SwapCochran`, `SwapFollowUp`), hence the
rejections are (`TurnRejects`), and `Unranked` puts these together.

## 6. Only model-checked

35 of the 40 properties the runs check are theorems of section 5. The others:

- `PublishSettles`, `OperationsEnd`, `CampaignCompletes`: liveness under fairness
  is out of the prover's reach.
- `LabelsAnswerable` of `ScenarioRunner` is no consequence of the code alone:
  it holds for the order of thresholds, delays and sizes of cohorts that the
  shipped configuration has and the instance keeps, and fails for others. Its
  proof would be the evaluation of every script under these values, which is
  what the run does.
- `ExpectationsMet` of `ValidationFlows`, for the same reason: it is about three
  given sequences of calls, with given delays.

For both, what they need of the pipeline is proved for every request in
`PipelineProofs`.

No theorem states the value of a recursive definition for every input as a
fact of its own; where an invariant depends on one, as in `EventSource`, the
induction is over a set (`SetInduction`).

## 7. Where code and documentation differ

The claims below are stated in the modules. Each fails as soon as it is added
to the run in brackets, or, for the races, when the condition on the deployment
is taken out of the property.

| claim | what happens |
|---|---|
| `AttributionRestsOnProof` [`pipeline`], "Proof-of-possession is the only mechanism that attributes an access binding to a service-domain identity" (`strategies/ca_ztcf.py:28`) | `decide` claims the binding for whichever device the request names, whatever came of the proof |
| `DecisionWithinEvidence` [`pipeline`], "a decision cannot outlive its evidence" (`docs/architecture/mqtt-enforcement.md:50`) | a decision lives for the lifetime of its action, whatever is left of the freshness of its binding; `GrantStaleness` is the bound that holds |
| `TransitionEndsDecision` [`pipeline`], "must re-consult ... when a transition is observed" (`docs/architecture/policy-matrix.md:26`) | `POST /transitions` records the transition and leaves the decision in force |
| `TrustNeverReused` [`baselines`], "never reused" (`strategies/independent.py:3`) | once the transition window has passed, the stored proof of the other domain is accepted |
| `SubackOnce` [`gateway`], "the PEP answers instead" (`mqtt_gateway.py:519`) | for a partly granted SUBSCRIBE the gateway answers and the pump relays the broker's SUBACK as well |
| `HeldSessionChallenged` [`gateway`], "A challenge is published" (`mqtt-enforcement.md:39`) | a session that a refresh puts on hold is not challenged |
| `QuarantineConfines` [`gateway`, with `"QUARANTINE"` among its actions], "Only `q/<device_id>/#` is reachable" (`mqtt-enforcement.md:41`) | subscriptions made before the quarantine go on delivering |
| `MismatchStaysOut` [`gateway`, likewise], "still matches the device" (`trust-states.md:29`) | a refresh does not restate the session identity, so a contradiction found at CONNECT is forgotten if the session was let in |
| `ReportedWasGranted` [`device_agent`], "`0x80` means the enforcement point refused that filter" (`device/agent.py:222`) | `subscribe` takes any SUBACK, one that answers an earlier request too; and after a cancelled read what it takes for a SUBACK may be none |
| `OneConfiguration` [`campaign`], "results from two configurations must never share a primary dataset" (`run_final_campaign.py:19`) | a resume looks at statuses and keys only, so a campaign that is started again after a commit goes on in the same ledger, and an edit that is undone before the check after a condition is never seen, in any number of runs; `DriftBounded` is what the check gives |
| `FalseAcceptanceWasAllowed` [`scenario_runner`], M15 counts "Steps labelled illegitimate that were allowed" (`metrics.py:194`) | a step-up is no permission and yet not among the actions the malicious labels accept, so it is counted as a false acceptance |
| `AdversarialNotPermitted` [`scenario_runner`], "a device correctly quarantined for a rapid-transition burst" (`controller.py:774`) | the burst of a mixed workload feeds both collectors in turn and asks once, so the strategy sees one transition |
| `ProofKept`, with threads | an older verification is recorded after a newer one; `get` deletes the proof recorded since it looked |
| `ClaimExclusive`, `AttributionPreserved`, `ReleasedStaysReleased`, with threads | two claims both succeed; a refresh overwrites a claim; a write brings a released binding back |
| `CountExact`, `LastTransitionNotReplacedByOlder`, with threads | a count falls between another request's move and its append, or a second pruning pops a deque already emptied, the request fails and its move is never counted; the older of two observations is published last |
| `DenialStands`, `LiveDecisionKept`, with threads | a grant taken before a denial is installed after it; `active_decision` deletes the decision applied since it looked |

Met while reading, and not stated as properties:

- A request may state its own instant (`routes_research.py:273`), and nothing
  compares it with the clock. A grant of CA-ZTCF dated ahead lives
  longer by its lead, and outlives a revocation by as much (`GrantStaleness`). One dated back makes
  the baselines honour older proofs and tokens, by exactly its lag
  (`BaselineStaleness`).
- `POST /transitions` may leave out the address. Such an observation is a position
  like any other, and against it no later address counts as changed
  (`transition.py:218`). `SettledBeforeGrant` therefore speaks of domains only, and
  only of observations that were not stale.
- The ledger has a row "before and after execution" (`run_final_campaign.py:12`);
  the code appends one, after. A signal is announced with "finishing the current
  run"; the retries of the condition in hand are still made.
- A failure while the application state is built reaches the campaign as an
  `AssertionError` of `_metadata`, carries no infrastructure marker and is
  classified as a defect, which ends the session.
- With one device both cohorts of a mixed workload are that device.
- M16 counts a legitimate step whose label wants `ALLOW` and whose answer is a
  restricted grant as a false rejection.
- The outage of a collector sets a flag that no decision reads: the assembler is
  always told that the collector is available.
- `dev_validation_flow.py` clears no bindings, so that it passes only on
  addresses nobody has used; `mqtt_integration_flow.py` clears them first.
- `verify_final_results.py` lists figures that differ pixel by pixel and does not
  fail for them.

## 8. Not modelled

- MQTT codec: byte-level encoding without state of its own. Topic matching
  appears through the classes of `Scopes`. QoS 2, keep-alives, announcements and
  statistics of the gateway are left out, as are the agent's `publish`, its log
  and its byte counts. So is waiting for the other end to take what is written
  (`drain`, without a deadline at `agent.py:231` and `mqtt_stream.py:84`): writes
  succeed at once, and `OperationsEnd` does not cover a peer that stops reading.
- API wiring, schemas, configuration: start-up and validation of input; the
  settings are the constants of the models.
- Telemetry, audit, fixtures, the resource sampler: nothing the system decides
  reads them.
- Tables and figures: layout of what the analysis has computed. In the analysis
  itself effect sizes, intervals, quantiles and the p-values of SciPy's rank
  tests are not computed; the last are any of a small set.
- Freezing, archiving, verification and scanning scripts, set-up of the testbed:
  one pass over files or hosts, without concurrency or retained state.
- A run that hangs: the campaign compares its timeout after the run has returned
  (`run_final_campaign.py:458`), so that `CampaignCompletes` takes every run to
  return.
- The scenarios a comparison of the plan is limited to (`final_report.py:399`).
- The flow over the gateway in `mqtt_integration_flow.py` takes no time on the
  clock of the model: it ends before the instants it dates ahead are reached.
- Two steps are coarser than the code. `TransitionCollector` joins the reads and
  writes of attributes of one position that stand next to each other. And the
  burst of `ScenarioRunner` has the shortest length that exceeds the limit, where
  the code takes the `repeat` of the event.
- In modelled parts: operations no part of the service calls (`reset`,
  `clear`, `purge_expired`, `ProofStore.invalidate`), the hashing of
  identifiers, reason codes, the anomaly counters of the transition collector,
  the latencies and counters of the runner.

## 9. Plan

Done, in this order, the most important behaviour first: proof of possession;
trust rules and matrix; binding store; transition collector; the pipeline that
composes them; enforcement point; gateway; baselines; event sources; then the
campaign with its abstract contract, the scenario runner and the validation
flows over the pipeline, the device agent, and the analysis; and the proofs of
section 5: proof of possession, trust policy and the campaign's refinement
first, then the component stores, the gateway, the pipeline and the baselines,
at last the event sources, the device agent, the scenario runner and the
analysis.

Next:

1. An atomic binding store and an atomic enforcement point that the
   single-process deployment implements; `LocalStore` and `LocalReads` are the
   invariants those refinements need.
2. The translation of captured events into collector events after
   `EventSource`.
