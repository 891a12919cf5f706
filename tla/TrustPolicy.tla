---------------------------- MODULE TrustPolicy -----------------------------
(***************************************************************************)
(* From evidence to a decision, as pure functions: the assembler and the   *)
(* predicates C1-C11 (evidence/), the ordered trust rules R0-R5            *)
(* (trust_engine/engine.py), the policy matrix P01-P11 with its scopes     *)
(* (policy/, config/policy/policy_matrix.yaml).  What a scope lets         *)
(* through is in Scopes.                                                   *)
(*                                                                         *)
(* Evidence is what CAZTCFStrategy.decide hands to the assembler, at the   *)
(* instant of the decision: times and counts, not verdicts.  A binding is  *)
(* any record with last_seen, expires_at and posture, the last saying      *)
(* whether its attributes satisfy the allow-lists of its domain.  Reason   *)
(* codes and the completeness item are left out: no decision reads them.   *)
(***************************************************************************)
EXTENDS Sequences, BindingRules, Scopes

CONSTANTS
  ProofTtl,         \* evidence.proof_of_possession_ttl_s
  FreshMax,         \* evidence.binding_freshness_max_s
  MaxTransitions,   \* transition.max_transitions_per_window
  MaxFailures       \* security.max_authn_failures

ASSUME ThresholdAssumption ==
  /\ ProofTtl \in Nat /\ FreshMax \in Nat
  /\ MaxTransitions \in Nat /\ MaxFailures \in Nat

ASSUME NoneAssumption == None \notin Int /\ None # "ACTIVE"

-----------------------------------------------------------------------------
(* Evidence *)

(* The age of an observation is never negative. *)
AgeSeconds(observed, now) == IF now > observed THEN now - observed ELSE 0

(* Mutant: an observation exactly ttl old is stale. *)
IsFreshStrict(observed, now, ttl) == AgeSeconds(observed, now) < ttl

IsFresh(observed, now, ttl) == AgeSeconds(observed, now) <= ttl

ProofFresh(e) == e.pop # None /\ IsFresh(e.pop, e.at, ProofTtl)

BindingFresh(e) ==
  /\ e.binding # None
  /\ IsFresh(e.binding.last_seen, e.at, FreshMax)
  /\ ~IsExpired(e.binding, e.at)

PostureOk(e) == e.binding # None /\ e.binding.posture

(* PredicateEvaluator.evaluate, with the reason of C1 that R0 reads. *)
Predicates(e) ==
  [registered |-> e.identity # None,
   C1 |-> e.identity = "ACTIVE",
   C2 |-> ProofFresh(e),
   C3 |-> e.binding # None,
   C4 |-> BindingFresh(e),
   C5 |-> e.consistent,
   C6 |-> ~e.recent,
   C7 |-> e.recent,
   C8 |-> e.count <= MaxTransitions,
   C9 |-> e.failures <= MaxFailures,
   C10 |-> e.session,
   C11 |-> PostureOk(e)]

-----------------------------------------------------------------------------
(* Mutant: a fresh proof settles a binding conflict. *)
TrustStateProofWins(v) ==
  IF ~v.registered THEN "UNKNOWN"
  ELSE IF ~v.C1 \/ (~v.C5 /\ ~v.C2) THEN "UNTRUSTED"
  ELSE IF ~v.C8 \/ ~v.C9 \/ ~v.C10 \/ (v.C3 /\ ~v.C11) THEN "SUSPICIOUS"
  ELSE IF ~v.C3 \/ ~v.C4 \/ ~v.C2 THEN "DEGRADED"
  ELSE IF v.C7 THEN "TRANSITIONAL"
  ELSE "STABLE"

(* Mutant: a missing binding is not missing evidence. *)
TrustStateWithoutBinding(v) ==
  IF ~v.registered THEN "UNKNOWN"
  ELSE IF ~v.C1 \/ ~v.C5 THEN "UNTRUSTED"
  ELSE IF ~v.C8 \/ ~v.C9 \/ ~v.C10 \/ (v.C3 /\ ~v.C11) THEN "SUSPICIOUS"
  ELSE IF ~v.C2 THEN "DEGRADED"
  ELSE IF v.C7 THEN "TRANSITIONAL"
  ELSE "STABLE"

(* RULES: the first rule whose condition holds gives the state. *)
TrustStateOf(v) ==
  IF ~v.registered THEN "UNKNOWN"
  ELSE IF ~v.C1 \/ ~v.C5 THEN "UNTRUSTED"
  ELSE IF ~v.C8 \/ ~v.C9 \/ ~v.C10 \/ (v.C3 /\ ~v.C11) THEN "SUSPICIOUS"
  ELSE IF ~v.C3 \/ ~v.C4 \/ ~v.C2 THEN "DEGRADED"
  ELSE IF v.C7 THEN "TRANSITIONAL"
  ELSE "STABLE"

TrustState(e) == TrustStateOf(Predicates(e))

-----------------------------------------------------------------------------
(* The policy matrix: rules in order, the first match wins. *)
MatrixEntry(state, contexts, action, scope) ==
  [state |-> state, contexts |-> contexts, action |-> action, scope |-> scope]

PolicyMatrix ==
  << MatrixEntry("UNKNOWN", TransitionContexts, "DENY", "none"),
     MatrixEntry("UNTRUSTED", TransitionContexts, "DENY", "none"),
     MatrixEntry("SUSPICIOUS", {"NR_TO_WLAN", "WLAN_TO_NR", "REPEATED"},
                 "QUARANTINE", "quarantine"),
     MatrixEntry("SUSPICIOUS", {"NONE", "INTRA"}, "REAUTHENTICATE", "none"),
     MatrixEntry("DEGRADED", TransitionContexts, "STEP_UP_AUTHENTICATION", "step_up_pending"),
     MatrixEntry("TRANSITIONAL", {"REPEATED"}, "STEP_UP_AUTHENTICATION", "step_up_pending"),
     MatrixEntry("TRANSITIONAL", {"NR_TO_WLAN", "WLAN_TO_NR"},
                 "ALLOW_WITH_RESTRICTIONS", "restricted"),
     MatrixEntry("TRANSITIONAL", {"INTRA"}, "ALLOW_WITH_RESTRICTIONS", "restricted"),
     MatrixEntry("TRANSITIONAL", {"NONE"}, "ALLOW_WITH_RESTRICTIONS", "restricted"),
     MatrixEntry("STABLE", {"NONE", "INTRA"}, "ALLOW", "full"),
     MatrixEntry("STABLE", TransitionContexts, "ALLOW_WITH_RESTRICTIONS", "restricted") >>

Matches(entry, state, context) == entry.state = state /\ context \in entry.contexts

DefaultRule == 0

(* The index of the rule that decides, 0 for the default. *)
RuleFor(state, context) ==
  LET matching == {i \in 1..11 : Matches(PolicyMatrix[i], state, context)}
  IN IF matching = {} THEN DefaultRule
     ELSE CHOOSE i \in matching : \A j \in matching : i <= j

Lookup(state, context) ==
  LET i == RuleFor(state, context)
  IN IF i = DefaultRule THEN [rule |-> i, action |-> "DENY", scope |-> "none"]
     ELSE [rule |-> i, action |-> PolicyMatrix[i].action, scope |-> PolicyMatrix[i].scope]

-----------------------------------------------------------------------------
Outcome(e, context) == Lookup(TrustState(e), context)

(* The production topics evidence opens in a transition context. *)
Opens(e, context) == {t \in Production : ScopePermits(Outcome(e, context).scope, t)}

-----------------------------------------------------------------------------
(* f is no better than e: at no earlier instant, every observation of f is *)
(* as e's or more adverse.                                                 *)
ProofNoBetter(e, f) == f.pop = None \/ (e.pop # None /\ f.pop <= e.pop)

BindingNoBetter(e, f) ==
  \/ f.binding = None
  \/ /\ e.binding # None
     /\ f.binding.last_seen <= e.binding.last_seen
     /\ \/ e.binding.expires_at = None
        \/ f.binding.expires_at # None /\ f.binding.expires_at <= e.binding.expires_at
     /\ f.binding.posture => e.binding.posture

NoBetter(e, f) ==
  /\ e.at <= f.at
  /\ f.identity = "ACTIVE" => e.identity = "ACTIVE"
  /\ ProofNoBetter(e, f)
  /\ BindingNoBetter(e, f)
  /\ f.consistent => e.consistent
  /\ e.recent => f.recent
  /\ e.count <= f.count
  /\ e.failures <= f.failures
  /\ f.session => e.session

Calm == {"NONE", "INTRA"}
ContextNoBetter(c, d) == (d \in Calm => c \in Calm) /\ (c = "REPEATED" => d = "REPEATED")

(* The declarative counterpart of the rules and the matrix: what has to be *)
(* true of the evidence for the device to get the full scope.              *)
CompleteEvidence(e) ==
  /\ e.identity = "ACTIVE" /\ e.consistent /\ e.session
  /\ e.pop # None /\ e.at <= e.pop + ProofTtl
  /\ e.binding # None /\ e.binding.posture
  /\ e.at <= e.binding.last_seen + FreshMax
  /\ e.binding.expires_at = None \/ e.at <= e.binding.expires_at
  /\ ~e.recent /\ e.count <= MaxTransitions /\ e.failures <= MaxFailures
=============================================================================
