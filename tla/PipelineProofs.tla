--------------------------- MODULE PipelineProofs ---------------------------
(***************************************************************************)
(* Proofs about the decision pipeline and the baseline strategies, for any *)
(* devices, addresses, thresholds and lifetimes.  The tables first: the    *)
(* policy matrix and the scopes for every state and transition context,    *)
(* and what the trust rules and the matrix guarantee for every evidence.   *)
(* Then the stores: how stale a grant can be, that no two devices are      *)
(* served on one access binding, and that the defensive rules of the       *)
(* matrix are never met.                                                   *)
(***************************************************************************)
EXTENDS Baselines, EvidenceEvolution, FiniteSetTheorems, SequenceTheorems, TLAPS

-----------------------------------------------------------------------------
(* The tables, the trust rules and the matrix *)

(* The lookup takes the first matching rule. *)
LEMMA FirstMatch ==
  ASSUME NEW s, NEW c, NEW k \in 1..11,
         Matches(PolicyMatrix[k], s, c),
         \A j \in 1..11 : j < k => ~Matches(PolicyMatrix[j], s, c)
  PROVE  /\ RuleFor(s, c) = k
         /\ Lookup(s, c) = [rule |-> k, action |-> PolicyMatrix[k].action,
                            scope |-> PolicyMatrix[k].scope]
<1> DEFINE M == {i \in 1..11 : Matches(PolicyMatrix[i], s, c)}
<1>1. k \in M
  OBVIOUS
<1>2. \A j \in M : j \in 1..11 /\ k <= j
  OBVIOUS
<1>3. \A i \in M : (\A j \in M : i <= j) => i = k
  BY <1>1, <1>2
<1>4. (CHOOSE i \in M : \A j \in M : i <= j) = k
  <2> HIDE DEF M
  <2> QED BY <1>1, <1>2, <1>3
<1>5. RuleFor(s, c) = k
  BY <1>1, <1>4 DEF RuleFor
<1> QED BY <1>5 DEF Lookup, DefaultRule

(* The rows of the matrix, one by one. *)
LEMMA Rows ==
  /\ PolicyMatrix[1] = MatrixEntry("UNKNOWN", TransitionContexts, "DENY", "none")
  /\ PolicyMatrix[2] = MatrixEntry("UNTRUSTED", TransitionContexts, "DENY", "none")
  /\ PolicyMatrix[3] = MatrixEntry("SUSPICIOUS", {"NR_TO_WLAN", "WLAN_TO_NR", "REPEATED"},
                                   "QUARANTINE", "quarantine")
  /\ PolicyMatrix[4] = MatrixEntry("SUSPICIOUS", {"NONE", "INTRA"}, "REAUTHENTICATE", "none")
  /\ PolicyMatrix[5] = MatrixEntry("DEGRADED", TransitionContexts,
                                   "STEP_UP_AUTHENTICATION", "step_up_pending")
  /\ PolicyMatrix[6] = MatrixEntry("TRANSITIONAL", {"REPEATED"},
                                   "STEP_UP_AUTHENTICATION", "step_up_pending")
  /\ PolicyMatrix[7] = MatrixEntry("TRANSITIONAL", {"NR_TO_WLAN", "WLAN_TO_NR"},
                                   "ALLOW_WITH_RESTRICTIONS", "restricted")
  /\ PolicyMatrix[8] = MatrixEntry("TRANSITIONAL", {"INTRA"},
                                   "ALLOW_WITH_RESTRICTIONS", "restricted")
  /\ PolicyMatrix[9] = MatrixEntry("TRANSITIONAL", {"NONE"},
                                   "ALLOW_WITH_RESTRICTIONS", "restricted")
  /\ PolicyMatrix[10] = MatrixEntry("STABLE", {"NONE", "INTRA"}, "ALLOW", "full")
  /\ PolicyMatrix[11] = MatrixEntry("STABLE", TransitionContexts,
                                    "ALLOW_WITH_RESTRICTIONS", "restricted")
BY DEF PolicyMatrix

(* Which rows a state can match at all. *)
LEMMA RowStates ==
  /\ PolicyMatrix[1].state = "UNKNOWN" /\ PolicyMatrix[2].state = "UNTRUSTED"
  /\ \A i \in {3, 4} : PolicyMatrix[i].state = "SUSPICIOUS"
  /\ PolicyMatrix[5].state = "DEGRADED"
  /\ \A i \in 6..9 : PolicyMatrix[i].state = "TRANSITIONAL"
  /\ \A i \in {10, 11} : PolicyMatrix[i].state = "STABLE"
<1>1. \A i \in 6..9 : i \in {6, 7, 8, 9}
  OBVIOUS
<1> QED BY <1>1, Rows DEF MatrixEntry

(* The decision table: the matrix is total, and this is the action, the    *)
(* scope and the rule of each state in each context.                       *)
LEMMA DecisionTable ==
  ASSUME NEW c \in TransitionContexts
  PROVE  /\ Lookup("UNKNOWN", c).scope = "none" /\ Lookup("UNKNOWN", c).action = "DENY"
         /\ Lookup("UNKNOWN", c).rule = 1
         /\ Lookup("UNTRUSTED", c).scope = "none" /\ Lookup("UNTRUSTED", c).action = "DENY"
         /\ Lookup("UNTRUSTED", c).rule = 2
         /\ Lookup("SUSPICIOUS", c).scope \in {"none", "quarantine"}
         /\ Lookup("SUSPICIOUS", c).action \in {"REAUTHENTICATE", "QUARANTINE"}
         /\ Lookup("SUSPICIOUS", c).rule \in {3, 4}
         /\ Lookup("DEGRADED", c).scope = "step_up_pending"
         /\ Lookup("DEGRADED", c).action = "STEP_UP_AUTHENTICATION"
         /\ Lookup("DEGRADED", c).rule = 5
         /\ Lookup("TRANSITIONAL", c).scope =
              IF c = "REPEATED" THEN "step_up_pending" ELSE "restricted"
         /\ Lookup("TRANSITIONAL", c).action =
              IF c = "REPEATED" THEN "STEP_UP_AUTHENTICATION" ELSE "ALLOW_WITH_RESTRICTIONS"
         /\ Lookup("TRANSITIONAL", c).rule \in {6, 7, 8} \/ (c = "NONE" /\ Lookup("TRANSITIONAL", c).rule = 9)
         /\ Lookup("STABLE", c).scope = IF c \in Calm THEN "full" ELSE "restricted"
         /\ Lookup("STABLE", c).action =
              IF c \in Calm THEN "ALLOW" ELSE "ALLOW_WITH_RESTRICTIONS"
         /\ Lookup("STABLE", c).rule = IF c \in Calm THEN 10 ELSE 11
<1> USE Rows, RowStates
<1>1. /\ Lookup("UNKNOWN", c).scope = "none" /\ Lookup("UNKNOWN", c).action = "DENY"
      /\ Lookup("UNKNOWN", c).rule = 1
  <2>1. Matches(PolicyMatrix[1], "UNKNOWN", c)
    BY DEF Matches, MatrixEntry
  <2> QED BY <2>1, FirstMatch DEF MatrixEntry
<1>2. /\ Lookup("UNTRUSTED", c).scope = "none" /\ Lookup("UNTRUSTED", c).action = "DENY"
      /\ Lookup("UNTRUSTED", c).rule = 2
  <2>1. Matches(PolicyMatrix[2], "UNTRUSTED", c)
    BY DEF Matches, MatrixEntry
  <2>2. \A j \in 1..11 : j < 2 => ~Matches(PolicyMatrix[j], "UNTRUSTED", c)
    BY DEF Matches
  <2> QED BY <2>1, <2>2, FirstMatch DEF MatrixEntry
<1>3. /\ Lookup("SUSPICIOUS", c).scope \in {"none", "quarantine"}
      /\ Lookup("SUSPICIOUS", c).action \in {"REAUTHENTICATE", "QUARANTINE"}
      /\ Lookup("SUSPICIOUS", c).rule \in {3, 4}
  <2>1. \A j \in 1..11 : j < 3 => ~Matches(PolicyMatrix[j], "SUSPICIOUS", c)
    BY DEF Matches
  <2>2. CASE c \in Calm
    <3>1. Matches(PolicyMatrix[4], "SUSPICIOUS", c) /\ ~Matches(PolicyMatrix[3], "SUSPICIOUS", c)
      BY <2>2 DEF Matches, MatrixEntry, Calm
    <3>2. \A j \in 1..11 : j < 4 => ~Matches(PolicyMatrix[j], "SUSPICIOUS", c)
      BY <2>1, <3>1
    <3> QED BY <3>1, <3>2, FirstMatch DEF MatrixEntry
  <2>3. CASE c \notin Calm
    <3>1. Matches(PolicyMatrix[3], "SUSPICIOUS", c)
      BY <2>3 DEF Matches, MatrixEntry, Calm, TransitionContexts
    <3> QED BY <2>1, <3>1, FirstMatch DEF MatrixEntry
  <2> QED BY <2>2, <2>3
<1>4. /\ Lookup("DEGRADED", c).scope = "step_up_pending"
      /\ Lookup("DEGRADED", c).action = "STEP_UP_AUTHENTICATION"
      /\ Lookup("DEGRADED", c).rule = 5
  <2>1. Matches(PolicyMatrix[5], "DEGRADED", c)
    BY DEF Matches, MatrixEntry
  <2>2. \A j \in 1..11 : j < 5 => ~Matches(PolicyMatrix[j], "DEGRADED", c)
    BY DEF Matches
  <2> QED BY <2>1, <2>2, FirstMatch DEF MatrixEntry
<1>5. /\ Lookup("TRANSITIONAL", c).scope =
           IF c = "REPEATED" THEN "step_up_pending" ELSE "restricted"
      /\ Lookup("TRANSITIONAL", c).action =
           IF c = "REPEATED" THEN "STEP_UP_AUTHENTICATION" ELSE "ALLOW_WITH_RESTRICTIONS"
      /\ Lookup("TRANSITIONAL", c).rule \in {6, 7, 8} \/ (c = "NONE" /\ Lookup("TRANSITIONAL", c).rule = 9)
  <2>1. \A j \in 1..11 : j < 6 => ~Matches(PolicyMatrix[j], "TRANSITIONAL", c)
    BY DEF Matches
  <2>2. Matches(PolicyMatrix[6], "TRANSITIONAL", c) <=> c = "REPEATED"
    BY DEF Matches, MatrixEntry
  <2>3. Matches(PolicyMatrix[7], "TRANSITIONAL", c) <=> c \in {"NR_TO_WLAN", "WLAN_TO_NR"}
    BY DEF Matches, MatrixEntry
  <2>4. Matches(PolicyMatrix[8], "TRANSITIONAL", c) <=> c = "INTRA"
    BY DEF Matches, MatrixEntry
  <2>5. Matches(PolicyMatrix[9], "TRANSITIONAL", c) <=> c = "NONE"
    BY DEF Matches, MatrixEntry
  <2>6. CASE c = "REPEATED"
    BY <2>1, <2>2, <2>6, FirstMatch DEF MatrixEntry
  <2>7. CASE c \in {"NR_TO_WLAN", "WLAN_TO_NR"}
    <3>1. \A j \in 1..11 : j < 7 => ~Matches(PolicyMatrix[j], "TRANSITIONAL", c)
      BY <2>1, <2>2, <2>7
    <3> QED BY <2>3, <2>7, <3>1, FirstMatch DEF MatrixEntry
  <2>8. CASE c = "INTRA"
    <3>1. \A j \in 1..11 : j < 8 => ~Matches(PolicyMatrix[j], "TRANSITIONAL", c)
      BY <2>1, <2>2, <2>3, <2>8
    <3> QED BY <2>4, <2>8, <3>1, FirstMatch DEF MatrixEntry
  <2>9. CASE c = "NONE"
    <3>1. \A j \in 1..11 : j < 9 => ~Matches(PolicyMatrix[j], "TRANSITIONAL", c)
      BY <2>1, <2>2, <2>3, <2>4, <2>9
    <3> QED BY <2>5, <2>9, <3>1, FirstMatch DEF MatrixEntry
  <2> QED BY <2>6, <2>7, <2>8, <2>9 DEF TransitionContexts
<1>6. /\ Lookup("STABLE", c).scope = IF c \in Calm THEN "full" ELSE "restricted"
      /\ Lookup("STABLE", c).action = IF c \in Calm THEN "ALLOW" ELSE "ALLOW_WITH_RESTRICTIONS"
      /\ Lookup("STABLE", c).rule = IF c \in Calm THEN 10 ELSE 11
  <2>1. \A j \in 1..11 : j < 10 => ~Matches(PolicyMatrix[j], "STABLE", c)
    BY DEF Matches
  <2>2. Matches(PolicyMatrix[10], "STABLE", c) <=> c \in Calm
    BY DEF Matches, MatrixEntry, Calm
  <2>3. Matches(PolicyMatrix[11], "STABLE", c)
    BY DEF Matches, MatrixEntry
  <2>4. CASE c \in Calm
    BY <2>1, <2>2, <2>4, FirstMatch DEF MatrixEntry
  <2>5. CASE c \notin Calm
    <3>1. \A j \in 1..11 : j < 11 => ~Matches(PolicyMatrix[j], "STABLE", c)
      BY <2>1, <2>2, <2>5
    <3> QED BY <2>3, <2>5, <3>1, FirstMatch DEF MatrixEntry
  <2> QED BY <2>4, <2>5
<1> QED BY <1>1, <1>2, <1>3, <1>4, <1>5, <1>6

-----------------------------------------------------------------------------
(* Production topics each scope opens. *)
LEMMA ScopeTopics ==
  /\ {t \in Production : ScopePermits("full", t)} = Production
  /\ {t \in Production : ScopePermits("restricted", t)} = {"telemetry", "status"}
  /\ \A s \in {"none", "quarantine", "step_up_pending"} :
       {t \in Production : ScopePermits(s, t)} = {}
BY DEF ScopePermits, ScopeAllow, ScopeDeny, Production

(* A state and a context open all of the production topics, two, or none. *)
LEMMA OpensTable ==
  ASSUME NEW e, NEW c \in TransitionContexts
  PROVE  Opens(e, c) = IF TrustState(e) = "STABLE" /\ c \in Calm THEN Production
                       ELSE IF \/ TrustState(e) = "STABLE"
                               \/ TrustState(e) = "TRANSITIONAL" /\ c # "REPEATED"
                       THEN {"telemetry", "status"}
                       ELSE {}
<1>1. TrustState(e) \in {"UNKNOWN", "UNTRUSTED", "SUSPICIOUS", "DEGRADED",
                         "TRANSITIONAL", "STABLE"}
  BY DEF TrustState, TrustStateOf
<1> QED BY <1>1, DecisionTable, ScopeTopics DEF Opens, Outcome

(* Freshness, free of the clamp on the age. *)
LEMMA FreshBound ==
  ASSUME NEW o \in Int, NEW n \in Int, NEW ttl \in Nat
  PROVE  IsFresh(o, n, ttl) <=> n <= o + ttl
BY DEF IsFresh, AgeSeconds

-----------------------------------------------------------------------------
(* The types of the observations. *)
LEMMA Fields ==
  ASSUME NEW e \in Evidence
  PROVE  /\ e.at \in Nat
         /\ e.pop # None => e.pop \in Nat
         /\ e.binding # None =>
              /\ e.binding.last_seen \in Nat
              /\ e.binding.posture \in BOOLEAN
              /\ e.binding.expires_at # None => e.binding.expires_at \in Nat
         /\ e.consistent \in BOOLEAN /\ e.recent \in BOOLEAN /\ e.session \in BOOLEAN
         /\ e.count \in Nat /\ e.failures \in Nat
<1>1. e.at \in Instants /\ e.count \in Counts /\ e.failures \in Counts
  BY DEF Evidence
<1>2. e.pop \in Instants \cup {None}
  BY DEF Evidence
<1>3. e.binding # None => e.binding \in ObservedBindings
  BY DEF Evidence
<1>4. e.binding # None => /\ e.binding.last_seen \in Instants
                             /\ e.binding.posture \in BOOLEAN
                             /\ e.binding.expires_at \in Instants \cup {None}
  BY <1>3 DEF ObservedBindings
<1>5. e.consistent \in BOOLEAN /\ e.recent \in BOOLEAN /\ e.session \in BOOLEAN
  BY DEF Evidence
<1> QED BY <1>1, <1>2, <1>4, <1>5, InstantsAssumption

(* STABLE in terms of the raw observations. *)
LEMMA StableIffComplete ==
  ASSUME NEW e \in Evidence
  PROVE  TrustState(e) = "STABLE" <=> CompleteEvidence(e)
<1> USE ThresholdAssumption
<1>1. ProofFresh(e) <=> e.pop # None /\ e.at <= e.pop + ProofTtl
  <2>1. CASE e.pop # None
    <3>1. e.pop \in Int /\ e.at \in Int
      BY <2>1, Fields
    <3>2. IsFresh(e.pop, e.at, ProofTtl) <=> e.at <= e.pop + ProofTtl
      BY <3>1, FreshBound
    <3> QED BY <2>1, <3>2 DEF ProofFresh
  <2> QED BY <2>1 DEF ProofFresh
<1>2. BindingFresh(e) <=> /\ e.binding # None
                          /\ e.at <= e.binding.last_seen + FreshMax
                          /\ e.binding.expires_at = None \/ e.at <= e.binding.expires_at
  <2>1. CASE e.binding # None
    <3>1. e.binding.last_seen \in Int /\ e.at \in Int
      BY <2>1, Fields
    <3>2. IsFresh(e.binding.last_seen, e.at, FreshMax) <=> e.at <= e.binding.last_seen + FreshMax
      BY <3>1, FreshBound
    <3>3. ~IsExpired(e.binding, e.at) <=>
            e.binding.expires_at = None \/ e.at <= e.binding.expires_at
      BY <2>1, Fields DEF IsExpired
    <3> QED BY <2>1, <3>2, <3>3 DEF BindingFresh
  <2> QED BY <2>1 DEF BindingFresh
<1> QED BY <1>1, <1>2, Fields, NoneAssumption
        DEF TrustState, TrustStateOf, Predicates, CompleteEvidence, PostureOk

(* Types *)

LEMMA EvidenceTypeInit == EvidenceInit => EvidenceTypeOK
BY DEF EvidenceInit, EvidenceTypeOK, Evidence, Identities, TransitionContexts

LEMMA EvidenceTypeNext == EvidenceTypeOK /\ [EvidenceNext]_evidenceVars => EvidenceTypeOK'
BY DEF EvidenceTypeOK, EvidenceNext, evidenceVars, Evidence, IdentityChanges, ProofChanges, BindingChanges,
       TransitionChanges, SecurityChanges, TimePasses

(* Evidence keeps its declared shape however the observations change. *)
THEOREM EvidenceTyped == EvidenceSpec => []EvidenceTypeOK
BY EvidenceTypeInit, EvidenceTypeNext, PTL DEF EvidenceSpec

-----------------------------------------------------------------------------
(* For all thresholds, evidence and contexts: TrustEngine and PolicyMatrix *)
(* grant the full scope exactly on complete evidence in a calm context.    *)
THEOREM FullScope == EvidenceSpec => []FullScopeIffComplete
<1>1. EvidenceTypeOK => FullScopeIffComplete
  <2> SUFFICES ASSUME EvidenceTypeOK PROVE FullScopeIffComplete
    OBVIOUS
  <2>1. TrustState(ev) \in {"UNKNOWN", "UNTRUSTED", "SUSPICIOUS", "DEGRADED",
                            "TRANSITIONAL", "STABLE"}
    BY DEF TrustState, TrustStateOf
  <2>2. Outcome(ev, context).action = "ALLOW" <=> TrustState(ev) = "STABLE" /\ context \in Calm
    BY <2>1, DecisionTable DEF EvidenceTypeOK, Outcome
  <2> QED BY <2>2, StableIffComplete DEF EvidenceTypeOK, FullScopeIffComplete
<1> QED BY <1>1, EvidenceTyped, PTL

(* For all thresholds, evidence and contexts: a fresh proof never changes  *)
(* the decision about a device in UNKNOWN, UNTRUSTED or SUSPICIOUS.        *)
THEOREM NoOverride == EvidenceSpec => []ProofNeverOverridesContradiction
<1>1. EvidenceTypeOK => ProofNeverOverridesContradiction
  <2> SUFFICES ASSUME EvidenceTypeOK,
                      TrustState(ev) \in {"UNKNOWN", "UNTRUSTED", "SUSPICIOUS"}
               PROVE  TrustState([ev EXCEPT !.pop = ev.at]) = TrustState(ev)
    BY DEF ProofNeverOverridesContradiction, Outcome
  <2> DEFINE f == [ev EXCEPT !.pop = ev.at]
  <2>1. /\ f.identity = ev.identity /\ f.consistent = ev.consistent /\ f.recent = ev.recent
        /\ f.count = ev.count /\ f.failures = ev.failures /\ f.session = ev.session
        /\ f.binding = ev.binding /\ f.at = ev.at
    BY DEF EvidenceTypeOK, Evidence
  <2>2. BindingFresh(f) = BindingFresh(ev) /\ PostureOk(f) = PostureOk(ev)
    BY <2>1 DEF BindingFresh, PostureOk
  <2> HIDE DEF f
  <2>3. TrustState(f) = TrustState(ev)
    BY <2>1, <2>2 DEF TrustState, TrustStateOf, Predicates
  <2> QED BY <2>3 DEF f
<1> QED BY <1>1, EvidenceTyped, PTL

(* Losing quality of evidence never turns another state into STABLE ... *)
LEMMA StableAntitone ==
  ASSUME NEW e \in Evidence, NEW f \in Evidence, NoBetter(e, f), CompleteEvidence(f)
  PROVE  CompleteEvidence(e)
<1> USE ThresholdAssumption
<1>1. e.pop # None /\ e.at <= e.pop + ProofTtl
  BY Fields DEF NoBetter, ProofNoBetter, CompleteEvidence
<1>2. /\ e.binding # None /\ e.binding.posture
      /\ e.at <= e.binding.last_seen + FreshMax
      /\ e.binding.expires_at = None \/ e.at <= e.binding.expires_at
  <2>1. f.binding # None /\ e.binding # None
    BY DEF NoBetter, BindingNoBetter, CompleteEvidence
  <2>2. e.binding.posture
    BY <2>1 DEF NoBetter, BindingNoBetter, CompleteEvidence
  <2>3. e.at <= e.binding.last_seen + FreshMax
    BY <2>1, Fields DEF NoBetter, BindingNoBetter, CompleteEvidence
  <2>4. e.binding.expires_at = None \/ e.at <= e.binding.expires_at
    BY <2>1, Fields DEF NoBetter, BindingNoBetter, CompleteEvidence
  <2> QED BY <2>1, <2>2, <2>3, <2>4
<1>3. ~e.recent /\ e.count <= MaxTransitions /\ e.failures <= MaxFailures
  BY Fields DEF NoBetter, CompleteEvidence
<1>4. e.identity = "ACTIVE" /\ e.consistent /\ e.session
  BY DEF NoBetter, CompleteEvidence
<1> QED BY <1>1, <1>2, <1>3, <1>4 DEF CompleteEvidence

(* ... and never turns one of the four refused states into TRANSITIONAL. *)
LEMMA SettledAntitone ==
  ASSUME NEW e \in Evidence, NEW f \in Evidence, NoBetter(e, f),
         TrustState(f) \in {"STABLE", "TRANSITIONAL"}
  PROVE  TrustState(e) \in {"STABLE", "TRANSITIONAL"}
<1> DEFINE Calmed(x) == [x EXCEPT !.recent = FALSE]
<1>1. ASSUME NEW x \in Evidence
      PROVE  /\ Calmed(x) \in Evidence
             /\ TrustState(x) \in {"STABLE", "TRANSITIONAL"} <=> TrustState(Calmed(x)) = "STABLE"
  <2>1. /\ Calmed(x) \in Evidence
        /\ Calmed(x).identity = x.identity /\ Calmed(x).consistent = x.consistent
        /\ Calmed(x).count = x.count /\ Calmed(x).failures = x.failures
        /\ Calmed(x).session = x.session /\ Calmed(x).binding = x.binding
        /\ Calmed(x).at = x.at /\ Calmed(x).pop = x.pop /\ Calmed(x).recent = FALSE
    BY <1>1 DEF Evidence
  <2> HIDE DEF Calmed
  <2>2. /\ BindingFresh(Calmed(x)) = BindingFresh(x) /\ PostureOk(Calmed(x)) = PostureOk(x)
        /\ ProofFresh(Calmed(x)) = ProofFresh(x)
    BY <2>1 DEF BindingFresh, PostureOk, ProofFresh
  <2> QED BY <2>1, <2>2 DEF TrustState, TrustStateOf, Predicates
<1>2. NoBetter(Calmed(e), Calmed(f))
  BY DEF NoBetter, BindingNoBetter, ProofNoBetter, Evidence
<1> HIDE DEF Calmed
<1>3. CompleteEvidence(Calmed(f))
  BY <1>1, StableIffComplete
<1>4. CompleteEvidence(Calmed(e))
  BY <1>1, <1>2, <1>3, StableAntitone
<1> QED BY <1>1, <1>4, StableIffComplete

(* For all thresholds: an observation that ages, disappears or turns       *)
(* adverse never opens a production topic to a device.                     *)
THEOREM NeverWidens == EvidenceSpec => WorseEvidenceNeverWidens
<1>1. ASSUME EvidenceTypeOK, EvidenceTypeOK', NoBetter(ev, ev'), ContextNoBetter(context, context')
      PROVE  Opens(ev', context') \subseteq Opens(ev, context)
  <2>1. TrustState(ev') = "STABLE" => TrustState(ev) = "STABLE"
    BY <1>1, StableIffComplete, StableAntitone DEF EvidenceTypeOK
  <2>2. TrustState(ev') \in {"STABLE", "TRANSITIONAL"} =>
          TrustState(ev) \in {"STABLE", "TRANSITIONAL"}
    BY <1>1, SettledAntitone DEF EvidenceTypeOK
  <2>3. context' \in Calm => context \in Calm
    BY <1>1 DEF ContextNoBetter
  <2>4. context = "REPEATED" => context' = "REPEATED"
    BY <1>1 DEF ContextNoBetter
  <2>5. {"telemetry", "status"} \subseteq Production /\ "REPEATED" \notin Calm
    BY DEF Production, Calm
  <2> QED BY <1>1, <2>1, <2>2, <2>3, <2>4, <2>5, OpensTable DEF EvidenceTypeOK
<1>2. EvidenceTypeOK /\ [EvidenceNext]_evidenceVars /\ EvidenceTypeOK' =>
        [NoBetter(ev, ev') /\ ContextNoBetter(context, context') =>
           Opens(ev', context') \subseteq Opens(ev, context)]_evidenceVars
  BY <1>1
<1> QED BY <1>2, EvidenceTyped, PTL DEF EvidenceSpec, WorseEvidenceNeverWidens

-----------------------------------------------------------------------------
(* The decision pipeline *)

(* Whether a decision opens any production topic. *)
Reaches(dec) == \E t \in Production : ScopePermits(dec.scope, t)

(* The instants the histories tell: an ACTIVE device is ACTIVE now, and    *)
(* what ProofStore holds is the last proof that was verified.              *)
TimesInv ==
  \A d \in Devices :
    /\ status[d] = "ACTIVE" => activeAt[d] = clock
    /\ activeAt[d] # None => activeAt[d] <= clock
    /\ provenAt[d] # None => provenAt[d] <= clock
    /\ verified[d] # None => verified[d] = provenAt[d]

(* What a grant rested on when it was made. *)
Rests(d) ==
  active[d] # None /\ Reaches(active[d]) =>
    LET at == active[d].created_at
    IN /\ activeAt[d] # None /\ at <= activeAt[d] + active[d].ahead
       /\ provenAt[d] # None /\ at <= provenAt[d] + ProofTtl
       /\ active[d].seen # None /\ at <= active[d].seen + FreshMax

GrantsRest == \A d \in Devices : Rests(d)

(* A binding sits at one address under an identifier that was handed out,  *)
(* one that serves a device is attributed to that device for as long as it *)
(* is stored, and no two devices hold grants on one, stored or not.        *)
BindingsOwned ==
  /\ \A a \in Addresses : store[a] # None => store[a].id < nextId
  /\ \A a, b \in Addresses :
       store[a] # None /\ store[b] # None /\ store[a].id = store[b].id => a = b
  /\ \A d \in Devices : active[d] # None /\ Reaches(active[d]) =>
       /\ active[d].binding # None /\ active[d].binding < nextId
       /\ \A a \in Addresses : store[a] # None /\ store[a].id = active[d].binding =>
            store[a].device_ref = d
  /\ \A d, e \in Devices :
       (active[d] # None /\ Reaches(active[d]) /\ active[e] # None /\ Reaches(active[e])
        /\ active[d].binding = active[e].binding) => d = e
-----------------------------------------------------------------------------
(* A pruned history is a history. *)
LEMMA PrunedType ==
  ASSUME NEW h \in Seq(Nat), NEW cutoff \in Int
  PROVE  PrunedBy(h, cutoff) \in Seq(Nat)
  <1> DEFINE kept == {i \in DOMAIN h : \E j \in 1..i : h[j] >= cutoff}
  <1>1. Len(h) \in Nat /\ DOMAIN h = 1..Len(h)
    OBVIOUS
  <1>2. kept \in SUBSET (1..Len(h))
    BY <1>1
  <1>3. IsFiniteSet(1..Len(h)) /\ Cardinality(1..Len(h)) = Len(h)
    <2>1. /\ IsFiniteSet(1..Len(h))
          /\ Cardinality(1..Len(h)) = IF 1 > Len(h) THEN 0 ELSE Len(h) - 1 + 1
      BY <1>1, FS_Interval, SMTT(30)
    <2>2. QED
      BY <1>1, <2>1
  <1> HIDE DEF kept
  <1>4. IsFiniteSet(kept) /\ Cardinality(kept) <= Len(h)
    BY <1>2, <1>3, FS_Subset
  <1>5. Cardinality(kept) \in Nat
    BY <1>4, FS_CardinalityType
  <1> DEFINE m == Len(h) - Cardinality(kept) + 1
  <1>6. m \in Int /\ m >= 1
    BY <1>1, <1>4, <1>5
  <1> HIDE DEF m
  <1>7. \A i \in m..Len(h) : h[i] \in Nat
    BY <1>1, <1>6
  <1>8. SubSeq(h, m, Len(h)) \in Seq(Nat)
    BY <1>1, <1>6, <1>7, SubSeqProperties
  <1>9. QED
    BY <1>8 DEF PrunedBy, kept, m

(* Counting the transitions prunes the history and nothing else. *)
LEMMA CountedType ==
  ASSUME NEW tr \in Tracks, NEW now \in Nat
  PROVE  /\ Counted(tr, now) \in Tracks
         /\ Counted(tr, now).last = tr.last /\ Counted(tr, now).position = tr.position
  <1>1. now - RateWindow \in Int
    BY WindowAssumption
  <1>2. Pruned(tr.history, now) \in Seq(Nat)
    BY <1>1, PrunedType DEF Pruned, Tracks
  <1>3. QED
    BY <1>2 DEF Counted, Tracks

(* An observation that is not rejected sets the position, and the last     *)
(* transition when the device has moved.                                   *)
LEMMA ObservedType ==
  ASSUME NEW tr \in Tracks, NEW dom \in Domains, NEW a \in Stated, NEW now \in Nat
  PROVE  /\ Observed(tr, dom, a, now) \in Tracks
         /\ \/ Observed(tr, dom, a, now) = tr
            \/ Observed(tr, dom, a, now).position.at = now
         /\ \/ Observed(tr, dom, a, now).last = tr.last
            \/ /\ Observed(tr, dom, a, now).last # None
               /\ Observed(tr, dom, a, now).last.detected_at = now
  <1> DEFINE p == tr.position
             changed == DomainChanged(p, dom) \/ AddressChanged(p, dom, a)
             position == [domain |-> dom, address |-> a, at |-> now]
             event == Transition(p, dom, now)
             history1 == IF changed THEN Append(Pruned(tr.history, now), now) ELSE tr.history
             last1 == IF changed THEN event ELSE tr.last
             new == [position |-> position, history |-> history1, last |-> last1]
  <1>1. p \in Positions /\ tr.history \in Seq(Nat) /\ tr.last \in Transitions \cup {None}
    BY DEF Tracks
  <1>2. position \in Positions /\ position.at = now
    BY DEF Positions, Stated
  <1>3. event \in Transitions /\ event.detected_at = now
    BY <1>1 DEF Transitions, Positions, Transition, DomainChanged
  <1>4. now - RateWindow \in Int
    BY WindowAssumption
  <1>5. Pruned(tr.history, now) \in Seq(Nat)
    BY <1>1, <1>4, PrunedType DEF Pruned
  <1>6. history1 \in Seq(Nat)
    BY <1>1, <1>5
  <1>7. last1 \in Transitions \cup {None} /\ (last1 = tr.last \/ (last1 = event))
    BY <1>1, <1>3
  <1>8. event # None
    BY <1>3, RecordAssumption
  <1>9. Observed(tr, dom, a, now) = IF Stale(p, now) \/ Duplicate(p, dom, a, now) THEN tr ELSE new
    BY DEF Observed
  <1> HIDE DEF position, history1, last1, event, changed, p
  <1>10. new \in Tracks
    BY <1>2, <1>6, <1>7 DEF Tracks
  <1>11. new.position = position /\ new.last = last1
    OBVIOUS
  <1> HIDE DEF new
  <1>12. QED
    BY <1>2, <1>3, <1>7, <1>8, <1>9, <1>10, <1>11

-----------------------------------------------------------------------------
(* What a request is judged by: the track after the observation, the       *)
(* binding after the claim, the evidence and the context.                  *)
TrackOf(d, a, declared, now) == Observed(track[d], RequestDomain(a, declared), a, now)

BindingOf(d, a) ==
  LET live == Live(store[a], clock)
  IN IF live # None /\ live.device_ref = None THEN Claimed(live, d) ELSE live

EvidenceNow(d, a, declared, verdict, session, now) ==
  EvidenceOf(d, BindingOf(d, a), TrackOf(d, a, declared, now), verdict, session, now)

ContextNow(d, a, declared, now) == ContextFor(TrackOf(d, a, declared, now), now)

(* The decision a request gets. *)
Granted(d, a, declared, verdict, session, now) ==
  DecisionOf(EvidenceNow(d, a, declared, verdict, session, now),
             Outcome(EvidenceNow(d, a, declared, verdict, session, now), ContextNow(d, a, declared, now)))

(* decide, one store at a time. *)
LEMMA DecideIs ==
  ASSUME NEW d, NEW a, NEW declared, NEW verdict, NEW session, NEW now, NEW apply,
         Decide(d, a, declared, verdict, session, now, apply)
  PROVE  /\ active' = [active EXCEPT ![d] =
                         IF apply THEN Installed(Granted(d, a, declared, verdict, session, now)) ELSE @]
         /\ verified' = [verified EXCEPT ![d] =
                           IF verdict = "invalid" THEN @ ELSE IF status[d] = None THEN @
                           ELSE ProofOf(d, verdict, now)]
         /\ provenAt' = IF verdict = "valid" /\ status[d] # None
                        THEN [provenAt EXCEPT ![d] = clock] ELSE provenAt
         /\ failures' = [failures EXCEPT ![d] = FailuresOf(d, verdict, now)]
         /\ track' = [track EXCEPT ![d] = Counted(TrackOf(d, a, declared, now), now)]
         /\ store' = IF BindingOf(d, a) = None THEN store ELSE [store EXCEPT ![a] = BindingOf(d, a)]
         /\ decided' = [decided EXCEPT ![d] =
                          [state |-> TrustState(EvidenceNow(d, a, declared, verdict, session, now)),
                           context |-> ContextNow(d, a, declared, now),
                           rule |-> Outcome(EvidenceNow(d, a, declared, verdict, session, now),
                                            ContextNow(d, a, declared, now)).rule]]
         /\ UNCHANGED <<clock, status, nextId, activeAt>>
  BY DEF Decide, Granted, EvidenceNow, ContextNow, TrackOf, BindingOf

(* A context is one of the five, and there is one exactly while a          *)
(* transition is recent: context_for and C7 agree.                         *)
LEMMA ContextAgrees ==
  ASSUME NEW tr, NEW now
  PROVE  /\ ContextFor(tr, now) \in TransitionContexts
         /\ ContextFor(tr, now) = "NONE" <=> ~Recent(tr.last, now)
  BY DEF ContextFor, ContextOf, TransitionContexts

LEMMA StateType == \A e : TrustState(e) \in TrustStates
  BY DEF TrustState, TrustStateOf, TrustStates

(* The matrix answers every state and context with an action and a scope. *)
LEMMA LookupType ==
  ASSUME NEW s \in TrustStates, NEW c \in TransitionContexts
  PROVE  /\ Lookup(s, c).action \in Actions
         /\ Lookup(s, c).scope \in DOMAIN ScopeAllow
         /\ Lookup(s, c).rule \in 0..11
  <1>1. DOMAIN ScopeAllow = {"full", "restricted", "step_up_pending", "quarantine", "none"}
    BY DEF ScopeAllow
  <1>2. QED
    BY <1>1, DecisionTable DEF TrustStates, Actions

LEMMA RequestDomainType ==
  ASSUME TypeOK, NEW a \in Addresses, NEW declared \in DeclaredDomains
  PROVE  RequestDomain(a, declared) \in Domains
  BY PipelineAssumption DEF RequestDomain, Live, TypeOK, Bindings

LEMMA TrackOfType ==
  ASSUME TypeOK, NEW d \in Devices, NEW a \in Addresses, NEW declared \in DeclaredDomains,
         NEW now \in Nat
  PROVE  /\ TrackOf(d, a, declared, now) \in Tracks
         /\ Counted(TrackOf(d, a, declared, now), now) \in Tracks
  <1>1. track[d] \in Tracks /\ a \in Stated
    BY DEF TypeOK, Stated
  <1>2. TrackOf(d, a, declared, now) \in Tracks
    BY <1>1, RequestDomainType, ObservedType DEF TrackOf
  <1>3. QED
    BY <1>1, <1>2, CountedType

(* The claimed binding is the live one of the address, and it is           *)
(* consistent with the device exactly when it is attributed to it.         *)
LEMMA BindingOfType ==
  ASSUME TypeOK, NEW d \in Devices, NEW a \in Addresses
  PROVE  /\ BindingOf(d, a) \in Bindings \cup {None}
         /\ BindingOf(d, a) # None =>
              /\ store[a] # None
              /\ BindingOf(d, a).id = store[a].id
              /\ BindingOf(d, a).device_ref = store[a].device_ref \/ store[a].device_ref = None
              /\ BindingOf(d, a).id \in Nat /\ BindingOf(d, a).last_seen \in Nat
              /\ Consistent(BindingOf(d, a), d) => BindingOf(d, a).device_ref = d
  <1> DEFINE live == Live(store[a], clock)
  <1>1. live = None \/ (live = store[a] /\ live # None)
    BY DEF Live
  <1>2. live # None => live \in Bindings
    BY <1>1 DEF TypeOK
  <1>3. BindingOf(d, a) = IF live # None /\ live.device_ref = None THEN Claimed(live, d) ELSE live
    BY DEF BindingOf
  <1> HIDE DEF live
  <1>4. CASE live # None /\ live.device_ref = None
    <2>1. Claimed(live, d) \in Bindings /\ Claimed(live, d).id = live.id
          /\ Claimed(live, d).device_ref = d
      BY <1>2, <1>4 DEF Claimed, Bindings
    <2>2. Claimed(live, d).id \in Nat /\ Claimed(live, d).last_seen \in Nat
      BY <2>1 DEF Bindings
    <2>3. QED
      BY <1>1, <1>3, <1>4, <2>1, <2>2
  <1>5. CASE live # None /\ live.device_ref # None
    <2>1. live.id \in Nat /\ live.last_seen \in Nat
      BY <1>2, <1>5 DEF Bindings
    <2>2. QED
      BY <1>1, <1>2, <1>3, <1>5, <2>1 DEF Consistent
  <1>6. CASE live = None
    BY <1>3, <1>6
  <1>7. QED
    BY <1>4, <1>5, <1>6

(* C2 rests on the proof presented now, or on the stored one within its    *)
(* lifetime.                                                               *)
LEMMA ProofOfType ==
  ASSUME TypeOK, NEW d \in Devices, NEW verdict \in Verdicts, NEW now \in Nat
  PROVE  /\ ProofOf(d, verdict, now) \in Nat \cup {None}
         /\ ProofOf(d, verdict, now) # None =>
              /\ status[d] # None
              /\ \/ verdict = "valid" /\ ProofOf(d, verdict, now) = clock
                 \/ /\ verdict = "absent" /\ verified[d] # None
                    /\ ProofOf(d, verdict, now) = verified[d] /\ now <= verified[d] + ProofTtl
  <1>1. verdict \in {"absent", "valid", "invalid"}
    BY PipelineAssumption
  <1>2. clock \in Nat /\ verified[d] \in Nat \cup {None} /\ ProofTtl \in Nat
    BY ThresholdAssumption DEF TypeOK
  <1>3. /\ StoredProof(d, now) \in Nat \cup {None}
        /\ StoredProof(d, now) # None => /\ verified[d] # None /\ StoredProof(d, now) = verified[d]
                                         /\ now <= verified[d] + ProofTtl
    BY <1>2, NoneAssumption DEF StoredProof
  <1>4. CASE status[d] = None
    BY <1>4 DEF ProofOf
  <1>5. CASE status[d] # None /\ verdict = "valid"
    BY <1>2, <1>5 DEF ProofOf
  <1>6. CASE status[d] # None /\ verdict = "invalid"
    BY <1>6 DEF ProofOf
  <1>7. CASE status[d] # None /\ verdict = "absent"
    <2>1. ProofOf(d, verdict, now) = StoredProof(d, now)
      BY <1>7 DEF ProofOf
    <2>2. QED
      BY <1>3, <1>7, <2>1
  <1>8. QED
    BY <1>1, <1>4, <1>5, <1>6, <1>7

LEMMA FailuresType ==
  ASSUME TypeOK, NEW d \in Devices, NEW verdict, NEW now \in Nat
  PROVE  FailuresOf(d, verdict, now) \in Seq(Nat)
  <1> DEFINE bucket == IF verdict = "invalid" /\ status[d] # None THEN Append(failures[d], now)
                       ELSE failures[d]
  <1>1. bucket \in Seq(Nat) /\ now - FailureWindow \in Int
    BY PipelineAssumption DEF TypeOK
  <1> HIDE DEF bucket
  <1>2. PrunedBy(bucket, now - FailureWindow) \in Seq(Nat)
    BY <1>1, PrunedType
  <1>3. QED
    BY <1>2 DEF FailuresOf, bucket

(* A production topic is open only to a device in STABLE or TRANSITIONAL,  *)
(* and that takes a valid identity, a fresh proof and a fresh binding of   *)
(* its own.                                                                *)
LEMMA ReachesMeans ==
  ASSUME NEW e, NEW c \in TransitionContexts, e.at \in Nat, e.pop \in Nat \cup {None},
         e.binding # None => e.binding.last_seen \in Nat,
         Reaches(Outcome(e, c))
  PROVE  /\ e.identity = "ACTIVE" /\ e.consistent
         /\ e.pop # None /\ e.at <= e.pop + ProofTtl
         /\ e.binding # None /\ e.at <= e.binding.last_seen + FreshMax
  <1>1. Opens(e, c) # {}
    BY DEF Reaches, Opens
  <1>2. TrustState(e) \in {"STABLE", "TRANSITIONAL"}
    BY <1>1, OpensTable
  <1>3. e.identity = "ACTIVE" /\ e.consistent /\ ProofFresh(e) /\ BindingFresh(e)
    BY <1>2 DEF TrustState, TrustStateOf, Predicates
  <1>4. e.pop # None /\ IsFresh(e.pop, e.at, ProofTtl)
    BY <1>3 DEF ProofFresh
  <1>5. e.binding # None /\ IsFresh(e.binding.last_seen, e.at, FreshMax)
    BY <1>3 DEF BindingFresh
  <1>6. QED
    BY <1>3, <1>4, <1>5, FreshBound, ThresholdAssumption

(* What a request is granted, and what a grant that opens a production     *)
(* topic rests on.                                                         *)
LEMMA GrantedMeans ==
  ASSUME TypeOK, NEW d \in Devices, NEW a \in Addresses, NEW declared \in DeclaredDomains,
         NEW verdict \in Verdicts, NEW session, NEW now \in Nat
  PROVE  LET dec == Granted(d, a, declared, verdict, session, now)
             b == BindingOf(d, a)
         IN /\ dec \in Decisions
            /\ dec.created_at = now /\ dec.ahead = Ahead(now)
            /\ Reaches(dec) =>
                 /\ status[d] = "ACTIVE"
                 /\ ProofOf(d, verdict, now) # None /\ now <= ProofOf(d, verdict, now) + ProofTtl
                 /\ b # None /\ b.device_ref = d /\ dec.binding = b.id
                 /\ dec.seen = b.last_seen /\ now <= b.last_seen + FreshMax
  <1> DEFINE dec == Granted(d, a, declared, verdict, session, now)
             b == BindingOf(d, a)
             e == EvidenceNow(d, a, declared, verdict, session, now)
             c == ContextNow(d, a, declared, now)
             out == Outcome(e, c)
  <1>1. /\ e.at = now /\ e.identity = status[d] /\ e.pop = ProofOf(d, verdict, now)
        /\ e.binding = b /\ e.consistent = Consistent(b, d)
    BY DEF EvidenceNow, EvidenceOf
  <1>2. Ahead(now) \in Nat /\ ProofOf(d, verdict, now) \in Nat \cup {None}
    BY ProofOfType DEF TypeOK, Ahead
  <1>3. /\ b # None => b.id \in Nat /\ b.last_seen \in Nat
        /\ b # None /\ Consistent(b, d) => b.device_ref = d
    BY BindingOfType
  <1>4. c \in TransitionContexts
    BY ContextAgrees DEF ContextNow
  <1>5. out.action \in Actions /\ out.scope \in DOMAIN ScopeAllow
    BY <1>4, StateType, LookupType DEF Outcome
  <1>6. dec = DecisionOf(e, out)
    BY DEF Granted
  <1> HIDE DEF b, e, c, out, dec
  <1>7. /\ dec.scope = out.scope /\ dec.created_at = now /\ dec.ahead = Ahead(now)
        /\ b # None => dec.binding = b.id /\ dec.seen = b.last_seen
    BY <1>1, <1>6 DEF DecisionOf
  <1>8. dec \in Decisions
    BY <1>1, <1>2, <1>3, <1>5, <1>6 DEF DecisionOf, Decisions
  <1>9. ASSUME Reaches(dec)
        PROVE  /\ status[d] = "ACTIVE"
               /\ ProofOf(d, verdict, now) # None /\ now <= ProofOf(d, verdict, now) + ProofTtl
               /\ b # None /\ b.device_ref = d /\ dec.binding = b.id
               /\ dec.seen = b.last_seen /\ now <= b.last_seen + FreshMax
    <2>1. Reaches(out)
      BY <1>7, <1>9 DEF Reaches
    <2>2. /\ e.identity = "ACTIVE" /\ e.consistent
          /\ e.pop # None /\ e.at <= e.pop + ProofTtl
          /\ e.binding # None /\ e.at <= e.binding.last_seen + FreshMax
      BY <1>1, <1>2, <1>3, <1>4, <2>1, ReachesMeans DEF out
    <2>3. QED
      BY <1>1, <1>3, <1>7, <2>2
  <1>10. QED
    BY <1>7, <1>8, <1>9 DEF dec, b

-----------------------------------------------------------------------------
(* Types *)

LEMMA TypeInit == Init => TypeOK
  <1>1. NewTrack \in Tracks
    <2>1. << >> \in Seq(Nat)
      OBVIOUS
    <2>2. QED
      BY <2>1 DEF NewTrack, NoPosition, Tracks, Positions
  <1>2. << >> \in Seq(Nat)
    OBVIOUS
  <1>3. QED
    BY <1>1, <1>2 DEF Init, TypeOK

(* The actions both specifications share. *)
LEMMA TickType == TypeOK /\ Tick => TypeOK'
  BY DEF TypeOK, Tick, registry, access, grants

LEMMA AdministrationType ==
  ASSUME TypeOK, NEW d \in Devices,
         Register(d) \/ \E s \in Statuses : SetStatus(d, s)
  PROVE  TypeOK'
  <1>1. CASE Register(d)
    BY <1>1 DEF TypeOK, Register, access, grants
  <1>2. ASSUME NEW s \in Statuses, SetStatus(d, s)
        PROVE  TypeOK'
    BY <1>2, PipelineAssumption DEF TypeOK, SetStatus, access, grants
  <1>3. QED
    BY <1>1, <1>2

LEMMA ActiveDecisionType ==
  ASSUME TypeOK, NEW d \in Devices, ActiveDecision(d)
  PROVE  TypeOK'
  BY DEF TypeOK, ActiveDecision, registry, access, history

LEMMA ObserveTransitionType ==
  ASSUME TypeOK, NEW d \in Devices, NEW dom \in Domains, NEW a \in Stated,
         NEW now \in Nat, ObserveTransition(d, dom, a, now)
  PROVE  TypeOK'
  <1>1. track[d] \in Tracks
    BY DEF TypeOK
  <1>2. Counted(Observed(track[d], dom, a, now), now) \in Tracks
    BY <1>1, ObservedType, CountedType
  <1>3. track' \in [Devices -> Tracks]
    BY <1>2 DEF TypeOK, ObserveTransition
  <1>4. QED
    BY <1>3 DEF TypeOK, ObserveTransition, registry, grants, history

(* A collector event keeps the identity and the attribution of the binding *)
(* it refreshes, or brings a new identity and no attribution.              *)
LEMMA CollectorStores ==
  ASSUME TypeOK, NEW a \in Addresses, NEW dom \in Domains, NEW delay \in Int,
         NEW lifetime \in Lifetimes, NEW posture \in Postures,
         CollectorEvent(a, dom, delay, lifetime, posture)
  PROVE  \E b \in Bindings :
           /\ store' = [store EXCEPT ![a] = b]
           /\ \/ b.id = nextId /\ b.device_ref = None
              \/ /\ store[a] # None
                 /\ b.id = store[a].id /\ b.device_ref = store[a].device_ref
  <1> DEFINE observed == clock - delay
             new == [id |-> nextId, domain |-> dom, device_ref |-> None, last_seen |-> observed,
                     expires_at |-> Expiry(observed, lifetime), posture |-> posture]
             b == Merged(new, store[a])
  <1>1. observed \in Nat /\ nextId \in Nat
    BY PipelineAssumption DEF TypeOK, CollectorEvent
  <1>2. Expiry(observed, lifetime) \in Nat \cup {None}
    BY <1>1, PipelineAssumption DEF Expiry
  <1>3. new \in Bindings /\ new.id = nextId /\ new.device_ref = None
    BY <1>1, <1>2, PipelineAssumption DEF Bindings
  <1>4. store[a] # None => store[a] \in Bindings
    BY DEF TypeOK
  <1>5. store' = [store EXCEPT ![a] = b]
    BY DEF CollectorEvent
  <1> HIDE DEF new
  <1>6. /\ b \in Bindings
        /\ \/ b.id = nextId /\ b.device_ref = None
           \/ /\ store[a] # None
              /\ b.id = store[a].id /\ b.device_ref = store[a].device_ref
    BY <1>3, <1>4 DEF Merged, Bindings
  <1>7. QED
    BY <1>5, <1>6

LEMMA DecideType ==
  ASSUME TypeOK, NEW d \in Devices, NEW a \in Addresses, NEW declared \in DeclaredDomains,
         NEW verdict \in Verdicts, NEW session \in Sessions, NEW now \in Nat,
         NEW apply \in BOOLEAN, Decide(d, a, declared, verdict, session, now, apply)
  PROVE  TypeOK'
  <1> DEFINE dec == Granted(d, a, declared, verdict, session, now)
             judgement == [state |-> TrustState(EvidenceNow(d, a, declared, verdict, session, now)),
                           context |-> ContextNow(d, a, declared, now),
                           rule |-> Outcome(EvidenceNow(d, a, declared, verdict, session, now),
                                            ContextNow(d, a, declared, now)).rule]
  <1>1. Installed(dec) \in Decisions \cup {None}
    BY GrantedMeans DEF Installed
  <1>2. judgement \in Judgements
    <2>1. ContextNow(d, a, declared, now) \in TransitionContexts
      BY ContextAgrees DEF ContextNow
    <2>2. QED
      BY <2>1, StateType, LookupType DEF Judgements, Outcome
  <1>3. Counted(TrackOf(d, a, declared, now), now) \in Tracks
    BY TrackOfType
  <1>4. FailuresOf(d, verdict, now) \in Seq(Nat)
    BY FailuresType
  <1>5. ProofOf(d, verdict, now) \in Nat \cup {None}
    BY ProofOfType
  <1>6. BindingOf(d, a) \in Bindings \cup {None}
    BY BindingOfType
  <1>7. /\ active' = [active EXCEPT ![d] = IF apply THEN Installed(dec) ELSE @]
        /\ decided' = [decided EXCEPT ![d] = judgement]
        /\ verified' = [verified EXCEPT ![d] =
                          IF verdict = "invalid" THEN @ ELSE IF status[d] = None THEN @
                          ELSE ProofOf(d, verdict, now)]
        /\ provenAt' = IF verdict = "valid" /\ status[d] # None
                       THEN [provenAt EXCEPT ![d] = clock] ELSE provenAt
        /\ failures' = [failures EXCEPT ![d] = FailuresOf(d, verdict, now)]
        /\ track' = [track EXCEPT ![d] = Counted(TrackOf(d, a, declared, now), now)]
        /\ store' = IF BindingOf(d, a) = None THEN store ELSE [store EXCEPT ![a] = BindingOf(d, a)]
        /\ UNCHANGED <<clock, status, nextId, activeAt>>
    BY DecideIs
  <1> HIDE DEF dec, judgement
  <1>8. active' \in [Devices -> Decisions \cup {None}]
    BY <1>1, <1>7 DEF TypeOK
  <1>9. decided' \in [Devices -> Judgements \cup {None}]
    BY <1>2, <1>7 DEF TypeOK
  <1>10. track' \in [Devices -> Tracks]
    BY <1>3, <1>7 DEF TypeOK
  <1>11. failures' \in [Devices -> Seq(Nat)]
    BY <1>4, <1>7 DEF TypeOK
  <1>12. verified' \in [Devices -> Nat \cup {None}] /\ provenAt' \in [Devices -> Nat \cup {None}]
    BY <1>5, <1>7 DEF TypeOK
  <1>13. store' \in [Addresses -> Bindings \cup {None}]
    BY <1>6, <1>7 DEF TypeOK
  <1>14. QED
    BY <1>7, <1>8, <1>9, <1>10, <1>11, <1>12, <1>13 DEF TypeOK

(* The instant of a request, and one request of the pipeline, installed or *)
(* not.                                                                    *)
LEMMA InstantType ==
  ASSUME TypeOK, NEW at \in Dates
  PROVE  Instant(at) \in Nat
  BY PipelineAssumption DEF Instant, TypeOK

LEMMA RequestIs ==
  ASSUME TypeOK, NEW d \in Devices, Request(d)
  PROVE  \E a \in Addresses, declared \in DeclaredDomains, verdict \in Verdicts,
           session \in Sessions, now \in Nat, apply \in BOOLEAN :
             Decide(d, a, declared, verdict, session, now, apply)
  BY InstantType DEF Request, EvaluateDecision, EvaluateEvidence

LEMMA TypeNext == TypeOK /\ [Next]_vars => TypeOK'
  <1> SUFFICES ASSUME TypeOK, [Next]_vars PROVE TypeOK'
    OBVIOUS
  <1>1. CASE Tick
    BY <1>1, TickType
  <1>2. ASSUME NEW a \in Addresses, ReleaseEvent(a) PROVE TypeOK'
    BY <1>2 DEF TypeOK, ReleaseEvent, registry, grants, history
  <1>3. ASSUME NEW a \in Addresses, NEW dom \in Domains, NEW delay \in Delays,
               NEW lifetime \in Lifetimes, NEW posture \in Postures,
               CollectorEvent(a, dom, delay, lifetime, posture)
        PROVE  TypeOK'
    <2>1. PICK b \in Bindings : store' = [store EXCEPT ![a] = b]
      BY <1>3, PipelineAssumption, CollectorStores
    <2>2. store' \in [Addresses -> Bindings \cup {None}]
      BY <2>1 DEF TypeOK
    <2>3. QED
      BY <1>3, <2>2 DEF TypeOK, CollectorEvent, registry, grants, history
  <1>4. ASSUME NEW d \in Devices, Register(d) \/ \E s \in Statuses : SetStatus(d, s) PROVE TypeOK'
    BY <1>4, AdministrationType
  <1>5. ASSUME NEW d \in Devices, NEW dom \in Domains, NEW a \in Stated, NEW at \in Dates,
               ObserveTransition(d, dom, a, Instant(at))
        PROVE  TypeOK'
    BY <1>5, InstantType, ObserveTransitionType
  <1>6. ASSUME NEW d \in Devices, DeviceState(d) PROVE TypeOK'
    <2>1. Counted(track[d], clock) \in Tracks
      BY CountedType DEF TypeOK
    <2>2. track' \in [Devices -> Tracks]
      BY <1>6, <2>1 DEF TypeOK, DeviceState
    <2>3. QED
      BY <1>6, <2>2 DEF TypeOK, DeviceState, registry, grants, history
  <1>7. ASSUME NEW d \in Devices, Request(d) PROVE TypeOK'
    BY <1>7, RequestIs, DecideType
  <1>8. ASSUME NEW d \in Devices, ActiveDecision(d) PROVE TypeOK'
    BY <1>8, ActiveDecisionType
  <1>9. CASE UNCHANGED vars
    BY <1>9 DEF TypeOK, vars, registry, access, grants, history
  <1>10. QED
    BY <1>1, <1>2, <1>3, <1>4, <1>5, <1>6, <1>7, <1>8, <1>9 DEF Next

(* The stores of the service hold what the components declare. *)
THEOREM TypeCorrect == Spec => []TypeOK
  BY TypeInit, TypeNext, PTL DEF Spec

-----------------------------------------------------------------------------
(* The instants the histories tell *)

LEMMA TimesInit == Init => TimesInv
  BY NoneAssumption DEF Init, TimesInv

LEMMA TimesFrame ==
  ASSUME TimesInv, UNCHANGED <<clock, status, verified, provenAt, activeAt>>
  PROVE  TimesInv'
  BY DEF TimesInv

LEMMA TimesTick == TypeOK /\ TimesInv /\ Tick => TimesInv'
  BY NoneAssumption DEF TypeOK, TimesInv, Tick, registry

LEMMA TimesAdministration ==
  ASSUME TypeOK, TimesInv, NEW d \in Devices,
         Register(d) \/ \E s \in Statuses : SetStatus(d, s)
  PROVE  TimesInv'
  <1>1. CASE Register(d)
    BY <1>1 DEF TypeOK, TimesInv, Register
  <1>2. ASSUME NEW s \in Statuses, SetStatus(d, s) PROVE TimesInv'
    BY <1>2 DEF TypeOK, TimesInv, SetStatus
  <1>3. QED
    BY <1>1, <1>2

(* A proof is taken, looked up, or left alone. *)
LEMMA TimesProof ==
  ASSUME TypeOK, TimesInv, NEW d \in Devices, NEW verdict \in Verdicts, NEW now \in Nat,
         verified' = [verified EXCEPT ![d] = ProofOf(d, verdict, now)] \/ verified' = verified,
         provenAt' = IF verdict = "valid" /\ status[d] # None
                     THEN [provenAt EXCEPT ![d] = clock] ELSE provenAt,
         verdict = "valid" /\ status[d] # None =>
           verified' = [verified EXCEPT ![d] = ProofOf(d, verdict, now)],
         UNCHANGED <<clock, status, activeAt>>
  PROVE  TimesInv'
  <1>1. /\ ProofOf(d, verdict, now) \in Nat \cup {None}
        /\ ProofOf(d, verdict, now) # None =>
             \/ verdict = "valid" /\ status[d] # None /\ ProofOf(d, verdict, now) = clock
             \/ verdict = "absent" /\ verified[d] # None /\ ProofOf(d, verdict, now) = verified[d]
    BY ProofOfType
  <1>2. QED
    BY <1>1, NoneAssumption DEF TypeOK, TimesInv

LEMMA TimesNext == TypeOK /\ TimesInv /\ [Next]_vars => TimesInv'
  <1> SUFFICES ASSUME TypeOK, TimesInv, [Next]_vars PROVE TimesInv'
    OBVIOUS
  <1>1. CASE Tick
    BY <1>1, TimesTick
  <1>2. ASSUME NEW d \in Devices, Register(d) \/ \E s \in Statuses : SetStatus(d, s) PROVE TimesInv'
    BY <1>2, TimesAdministration
  <1>3. ASSUME NEW d \in Devices, Request(d) PROVE TimesInv'
    <2>1. PICK a \in Addresses, declared \in DeclaredDomains, verdict \in Verdicts,
               session \in Sessions, now \in Nat, apply \in BOOLEAN :
                 Decide(d, a, declared, verdict, session, now, apply)
      BY <1>3, RequestIs
    <2>2. /\ verified' = [verified EXCEPT ![d] =
                            IF verdict = "invalid" THEN @ ELSE IF status[d] = None THEN @
                            ELSE ProofOf(d, verdict, now)]
          /\ provenAt' = IF verdict = "valid" /\ status[d] # None
                         THEN [provenAt EXCEPT ![d] = clock] ELSE provenAt
          /\ UNCHANGED <<clock, status, activeAt>>
      BY <2>1, DecideIs
    <2>3. verified' = [verified EXCEPT ![d] = ProofOf(d, verdict, now)] \/ verified' = verified
      BY <2>2 DEF TypeOK
    <2>4. verdict = "valid" /\ status[d] # None => verified' = [verified EXCEPT ![d] = ProofOf(d, verdict, now)]
      BY <2>2
    <2>5. QED
      BY <2>2, <2>3, <2>4, TimesProof
  <1>4. ASSUME NEW a \in Addresses, ReleaseEvent(a) PROVE TimesInv'
    BY <1>4, TimesFrame DEF ReleaseEvent, registry, history
  <1>5. ASSUME NEW a \in Addresses, NEW dom \in Domains, NEW delay \in Delays,
               NEW lifetime \in Lifetimes, NEW posture \in Postures,
               CollectorEvent(a, dom, delay, lifetime, posture)
        PROVE  TimesInv'
    BY <1>5, TimesFrame DEF CollectorEvent, registry, history
  <1>6. ASSUME NEW d \in Devices, NEW dom \in Domains, NEW a \in Stated, NEW at \in Dates,
               ObserveTransition(d, dom, a, Instant(at))
        PROVE  TimesInv'
    BY <1>6, TimesFrame DEF ObserveTransition, registry, history
  <1>7. ASSUME NEW d \in Devices, DeviceState(d) PROVE TimesInv'
    BY <1>7, TimesFrame DEF DeviceState, registry, history
  <1>8. ASSUME NEW d \in Devices, ActiveDecision(d) PROVE TimesInv'
    BY <1>8, TimesFrame DEF ActiveDecision, registry, history
  <1>9. CASE UNCHANGED vars
    BY <1>9, TimesFrame DEF vars, registry, access, grants, history
  <1>10. QED
    BY <1>1, <1>2, <1>3, <1>4, <1>5, <1>6, <1>7, <1>8, <1>9 DEF Next

-----------------------------------------------------------------------------
(* How stale a grant can be *)

(* The histories only move forward. *)
Forward(d) ==
  /\ activeAt[d] # None => activeAt'[d] # None /\ activeAt[d] <= activeAt'[d]
  /\ provenAt[d] # None => provenAt'[d] # None /\ provenAt[d] <= provenAt'[d]

LEMMA ForwardTick ==
  ASSUME TypeOK, TimesInv, Tick, NEW d \in Devices
  PROVE  Forward(d)
  BY NoneAssumption DEF TypeOK, TimesInv, Tick, Forward

LEMMA ForwardAdministration ==
  ASSUME TypeOK, TimesInv, NEW c \in Devices, NEW d \in Devices,
         Register(c) \/ \E s \in Statuses : SetStatus(c, s)
  PROVE  Forward(d)
  <1>1. CASE Register(c)
    BY <1>1, NoneAssumption DEF TypeOK, TimesInv, Register, Forward
  <1>2. ASSUME NEW s \in Statuses, SetStatus(c, s) PROVE Forward(d)
    BY <1>2, NoneAssumption DEF TypeOK, TimesInv, SetStatus, Forward
  <1>3. QED
    BY <1>1, <1>2

LEMMA ForwardProof ==
  ASSUME TypeOK, TimesInv, NEW c \in Devices, NEW d \in Devices,
         provenAt' = [provenAt EXCEPT ![c] = clock] \/ provenAt' = provenAt,
         UNCHANGED activeAt
  PROVE  Forward(d)
  <1>1. /\ activeAt[d] \in Nat \cup {None} /\ provenAt[d] \in Nat \cup {None}
        /\ provenAt'[d] \in {clock, provenAt[d]} /\ clock \in Nat
    BY DEF TypeOK
  <1>2. provenAt[d] # None => provenAt[d] <= clock
    BY DEF TimesInv
  <1>3. QED
    BY <1>1, <1>2, NoneAssumption DEF Forward

LEMMA ForwardFrame ==
  ASSUME TypeOK, UNCHANGED history, NEW d \in Devices
  PROVE  Forward(d)
  BY DEF TypeOK, history, Forward

(* A grant that stays rests on what it rested on. *)
LEMMA GrantStays ==
  ASSUME TypeOK, TypeOK', GrantsRest, NEW d \in Devices, Forward(d),
         active'[d] \in {active[d], None}
  PROVE  Rests(d)'
  <1> SUFFICES ASSUME active'[d] # None, Reaches(active'[d])
               PROVE  LET at == active'[d].created_at
                      IN /\ activeAt'[d] # None /\ at <= activeAt'[d] + active'[d].ahead
                         /\ provenAt'[d] # None /\ at <= provenAt'[d] + ProofTtl
                         /\ active'[d].seen # None /\ at <= active'[d].seen + FreshMax
    BY DEF Rests, Reaches
  <1>1. active'[d] = active[d] /\ active[d] # None /\ Reaches(active[d])
    OBVIOUS
  <1>2. /\ activeAt[d] # None /\ active[d].created_at <= activeAt[d] + active[d].ahead
        /\ provenAt[d] # None /\ active[d].created_at <= provenAt[d] + ProofTtl
        /\ active[d].seen # None /\ active[d].created_at <= active[d].seen + FreshMax
    BY <1>1 DEF GrantsRest, Rests
  <1>3. active[d].created_at \in Nat /\ active[d].ahead \in Nat
    BY <1>1 DEF TypeOK, Decisions
  <1>4. /\ activeAt[d] \in Nat /\ activeAt'[d] \in Nat /\ provenAt[d] \in Nat /\ provenAt'[d] \in Nat
        /\ activeAt'[d] # None /\ provenAt'[d] # None
        /\ activeAt[d] <= activeAt'[d] /\ provenAt[d] <= provenAt'[d]
    BY <1>2 DEF TypeOK, Forward
  <1>5. QED
    BY <1>1, <1>2, <1>3, <1>4, ThresholdAssumption

LEMMA GrantsRestNext ==
  TypeOK /\ TypeOK' /\ TimesInv /\ GrantsRest /\ [Next]_vars => GrantsRest'
  <1> SUFFICES ASSUME TypeOK, TypeOK', TimesInv, GrantsRest, [Next]_vars, NEW d \in Devices
               PROVE  Rests(d)'
    BY DEF GrantsRest
  <1>1. ASSUME Forward(d), active'[d] \in {active[d], None} PROVE Rests(d)'
    BY <1>1, GrantStays
  <1>2. CASE Tick
    BY <1>1, <1>2, ForwardTick DEF Tick, grants
  <1>3. ASSUME NEW c \in Devices, Register(c) \/ \E s \in Statuses : SetStatus(c, s) PROVE Rests(d)'
    <2>1. UNCHANGED active
      BY <1>3 DEF Register, SetStatus, grants
    <2>2. QED
      BY <1>1, <1>3, <2>1, ForwardAdministration
  <1>4. ASSUME NEW c \in Devices, Request(c) PROVE Rests(d)'
    <2>1. PICK a \in Addresses, declared \in DeclaredDomains, verdict \in Verdicts,
               session \in Sessions, now \in Nat, apply \in BOOLEAN :
                 Decide(c, a, declared, verdict, session, now, apply)
      BY <1>4, RequestIs
    <2> DEFINE dec == Granted(c, a, declared, verdict, session, now)
    <2>2. /\ active' = [active EXCEPT ![c] = IF apply THEN Installed(dec) ELSE @]
          /\ provenAt' = IF verdict = "valid" /\ status[c] # None
                         THEN [provenAt EXCEPT ![c] = clock] ELSE provenAt
          /\ UNCHANGED activeAt
      BY <2>1, DecideIs
    <2>3. Forward(d)
      BY <2>2, ForwardProof
    <2>4. CASE active'[d] = active[d]
      BY <1>1, <2>3, <2>4
    <2>5. CASE active'[d] # active[d]
      <3> SUFFICES ASSUME active'[d] # None, Reaches(active'[d])
                   PROVE  LET at == active'[d].created_at
                          IN /\ activeAt'[d] # None /\ at <= activeAt'[d] + active'[d].ahead
                             /\ provenAt'[d] # None /\ at <= provenAt'[d] + ProofTtl
                             /\ active'[d].seen # None /\ at <= active'[d].seen + FreshMax
        BY DEF Rests, Reaches
      <3>1. c = d /\ apply /\ active'[d] = Installed(dec)
        BY <2>2, <2>5 DEF TypeOK
      <3>2. active'[d] = dec
        BY <3>1 DEF Installed
      <3>3. /\ dec.created_at = now /\ dec.ahead = Ahead(now)
            /\ status[d] = "ACTIVE"
            /\ ProofOf(d, verdict, now) # None /\ now <= ProofOf(d, verdict, now) + ProofTtl
            /\ BindingOf(d, a) # None /\ dec.seen = BindingOf(d, a).last_seen
            /\ now <= dec.seen + FreshMax
        BY <3>1, <3>2, GrantedMeans
      <3> HIDE DEF dec
      <3>4. activeAt'[d] = clock /\ clock \in Nat /\ now <= clock + Ahead(now)
        BY <2>2, <3>3 DEF TypeOK, TimesInv, Ahead
      <3>5. provenAt'[d] = ProofOf(d, verdict, now) /\ ProofOf(d, verdict, now) \in Nat
        <4>1. /\ ProofOf(d, verdict, now) \in Nat
              /\ \/ verdict = "valid" /\ status[d] # None /\ ProofOf(d, verdict, now) = clock
                 \/ verdict = "absent" /\ verified[d] # None /\ ProofOf(d, verdict, now) = verified[d]
          BY <3>3, ProofOfType
        <4>2. verified[d] # None => verified[d] = provenAt[d]
          BY DEF TimesInv
        <4>3. QED
          BY <2>2, <3>1, <4>1, <4>2 DEF TypeOK
      <3>6. dec.seen \in Nat
        BY <3>3, BindingOfType
      <3>7. QED
        BY <3>2, <3>3, <3>4, <3>5, <3>6, NoneAssumption
    <2>6. QED
      BY <2>4, <2>5
  <1>5. ASSUME NEW a \in Addresses, ReleaseEvent(a) PROVE Rests(d)'
    BY <1>1, <1>5, ForwardFrame DEF ReleaseEvent, grants
  <1>6. ASSUME NEW a \in Addresses, NEW dom \in Domains, NEW delay \in Delays,
               NEW lifetime \in Lifetimes, NEW posture \in Postures,
               CollectorEvent(a, dom, delay, lifetime, posture)
        PROVE  Rests(d)'
    <2>1. UNCHANGED <<history, active>>
      BY <1>6 DEF CollectorEvent, grants
    <2>2. QED
      BY <1>1, <2>1, ForwardFrame
  <1>7. ASSUME NEW c \in Devices, NEW dom \in Domains, NEW a \in Stated, NEW at \in Dates,
               ObserveTransition(c, dom, a, Instant(at))
        PROVE  Rests(d)'
    BY <1>1, <1>7, ForwardFrame DEF ObserveTransition, grants
  <1>8. ASSUME NEW c \in Devices, DeviceState(c) PROVE Rests(d)'
    BY <1>1, <1>8, ForwardFrame DEF DeviceState, grants
  <1>9. ASSUME NEW c \in Devices, ActiveDecision(c) PROVE Rests(d)'
    <2>1. UNCHANGED history /\ active'[d] \in {active[d], None}
      BY <1>9 DEF ActiveDecision, TypeOK
    <2>2. QED
      BY <1>1, <2>1, ForwardFrame
  <1>10. CASE UNCHANGED vars
    BY <1>1, <1>10, ForwardFrame DEF vars, grants
  <1>11. QED
    BY <1>2, <1>3, <1>4, <1>5, <1>6, <1>7, <1>8, <1>9, <1>10 DEF Next

(* While a decision is in force, its lifetime has not passed. *)
LEMMA InForceBound ==
  ASSUME TypeOK, NEW d \in Devices, InForce(d)
  PROVE  /\ Ttl[active[d].action] \in Nat /\ active[d].created_at \in Nat
         /\ clock <= active[d].created_at + Ttl[active[d].action]
  <1>1. active[d].action \in Actions /\ active[d].created_at \in Nat
    BY DEF TypeOK, InForce, Decisions
  <1>2. Ttl[active[d].action] \in Nat
    BY <1>1, PipelineAssumption
  <1>3. QED
    BY <1>1, <1>2 DEF TypeOK, InForce, DecisionExpired

(* How long a grant can survive what it was granted for, whatever instant  *)
(* its request stated: a device that reaches a production topic had proven *)
(* its key within the lifetimes of its decision and of a proof, had its    *)
(* binding seen within that of its decision and the freshness bound, and   *)
(* was ACTIVE within the lifetime of its decision and what its request was *)
(* dated ahead, although revocation, expiry and silence of the access      *)
(* domain touch no decision.                                               *)
THEOREM GrantsGrowStale == Spec => []GrantStaleness
  <1>1. Init => GrantsRest
    BY DEF Init, GrantsRest, Rests
  <1>2. TypeOK /\ GrantsRest => GrantStaleness
    <2> SUFFICES ASSUME TypeOK, GrantsRest, NEW d \in Devices, Served(d)
                 PROVE  LET life == Ttl[active[d].action]
                        IN /\ activeAt[d] # None /\ clock <= activeAt[d] + active[d].ahead + life
                           /\ provenAt[d] # None /\ clock <= provenAt[d] + ProofTtl + life
                           /\ active[d].seen # None /\ clock <= active[d].seen + FreshMax + life
      BY DEF GrantStaleness
    <2>1. InForce(d) /\ active[d] # None /\ Reaches(active[d])
      BY DEF Served, InForce, Reaches
    <2>2. /\ Ttl[active[d].action] \in Nat /\ active[d].created_at \in Nat
          /\ clock <= active[d].created_at + Ttl[active[d].action]
      BY <2>1, InForceBound
    <2>3. /\ activeAt[d] # None /\ active[d].created_at <= activeAt[d] + active[d].ahead
          /\ provenAt[d] # None /\ active[d].created_at <= provenAt[d] + ProofTtl
          /\ active[d].seen # None /\ active[d].created_at <= active[d].seen + FreshMax
      BY <2>1 DEF GrantsRest, Rests
    <2>4. /\ clock \in Nat /\ activeAt[d] \in Nat /\ provenAt[d] \in Nat /\ active[d].seen \in Nat
          /\ active[d].ahead \in Nat /\ ProofTtl \in Nat /\ FreshMax \in Nat
      BY <2>1, <2>3, ThresholdAssumption DEF TypeOK, Decisions
    <2>5. QED
      BY <2>2, <2>3, <2>4
  <1>3. QED
    BY <1>1, <1>2, TypeInit, TypeNext, TimesInit, TimesNext, GrantsRestNext, PTL DEF Spec

-----------------------------------------------------------------------------
(* The defensive rules of the matrix *)

(* What decide records about a device: context and C7 come from the same   *)
(* track at the same instant.                                              *)
LEMMA JudgementSound ==
  ASSUME NEW d, NEW a, NEW declared, NEW verdict, NEW session, NEW now
  PROVE  LET e == EvidenceNow(d, a, declared, verdict, session, now)
             c == ContextNow(d, a, declared, now)
         IN /\ Outcome(e, c).rule \notin {DefaultRule, 9, 11}
            /\ TrustState(e) = "STABLE" => c = "NONE"
  <1> DEFINE e == EvidenceNow(d, a, declared, verdict, session, now)
             c == ContextNow(d, a, declared, now)
  <1>1. c \in TransitionContexts /\ (c = "NONE" <=> ~e.recent)
    <2>1. e.recent = Recent(TrackOf(d, a, declared, now).last, now)
      BY DEF EvidenceNow, EvidenceOf
    <2> HIDE DEF e
    <2> QED BY <2>1, ContextAgrees DEF ContextNow
  <1>2. /\ TrustState(e) = "STABLE" => ~e.recent
        /\ TrustState(e) = "TRANSITIONAL" => e.recent
    <2>1. Predicates(e).C7 = e.recent
      BY DEF Predicates
    <2> HIDE DEF e
    <2> QED BY <2>1 DEF TrustState, TrustStateOf
  <1>3. TrustState(e) \in TrustStates
    BY StateType
  <1> HIDE DEF e, c
  <1>4. /\ TrustState(e) = "STABLE" => c = "NONE"
        /\ TrustState(e) = "TRANSITIONAL" => c # "NONE"
    BY <1>1, <1>2
  <1>5. Outcome(e, c).rule \in {1, 2, 3, 4, 5, 6, 7, 8, 10}
    <2>1. CASE TrustState(e) = "STABLE"
      BY <1>1, <1>4, <2>1, DecisionTable DEF Outcome, Calm
    <2>2. CASE TrustState(e) = "TRANSITIONAL"
      BY <1>1, <1>4, <2>2, DecisionTable DEF Outcome
    <2>3. CASE TrustState(e) \notin {"STABLE", "TRANSITIONAL"}
      BY <1>1, <1>3, <2>3, DecisionTable DEF Outcome, TrustStates
    <2>4. QED
      BY <2>1, <2>2, <2>3
  <1>6. QED
    BY <1>4, <1>5 DEF e, c, DefaultRule

(* The default and the rules P09 and P11, which the matrix keeps for       *)
(* states and contexts that disagree, are never what decides.              *)
THEOREM DefensiveRulesIdle == Spec => []DefensiveRulesUnreachable
  <1>1. Init => DefensiveRulesUnreachable
    BY DEF Init, DefensiveRulesUnreachable
  <1>2. TypeOK /\ DefensiveRulesUnreachable /\ [Next]_vars => DefensiveRulesUnreachable'
    <2> SUFFICES ASSUME TypeOK, DefensiveRulesUnreachable, [Next]_vars
                 PROVE  DefensiveRulesUnreachable'
      OBVIOUS
    <2>1. CASE UNCHANGED decided
      BY <2>1 DEF DefensiveRulesUnreachable
    <2>2. ASSUME NEW d \in Devices, Request(d) PROVE DefensiveRulesUnreachable'
      <3>1. PICK a \in Addresses, declared \in DeclaredDomains, verdict \in Verdicts,
                 session \in Sessions, now \in Nat, apply \in BOOLEAN :
                   Decide(d, a, declared, verdict, session, now, apply)
        BY <2>2, RequestIs
      <3> DEFINE e == EvidenceNow(d, a, declared, verdict, session, now)
                 c == ContextNow(d, a, declared, now)
      <3>2. decided' = [decided EXCEPT ![d] = [state |-> TrustState(e), context |-> c,
                                               rule |-> Outcome(e, c).rule]]
        BY <3>1, DecideIs
      <3>3. /\ Outcome(e, c).rule \notin {DefaultRule, 9, 11}
            /\ TrustState(e) = "STABLE" => c = "NONE"
        BY JudgementSound
      <3> HIDE DEF e, c
      <3>4. QED
        BY <3>2, <3>3 DEF TypeOK, DefensiveRulesUnreachable
    <2>3. ASSUME NEW d \in Devices,
                 \/ Register(d) \/ (\E s \in Statuses : SetStatus(d, s)) \/ DeviceState(d)
                 \/ ActiveDecision(d)
                 \/ \E dom \in Domains, a \in Stated, at \in Dates :
                      ObserveTransition(d, dom, a, Instant(at))
          PROVE  UNCHANGED decided
      BY <2>3 DEF Register, SetStatus, DeviceState, ActiveDecision, ObserveTransition, grants
    <2>4. ASSUME NEW a \in Addresses,
                 \/ ReleaseEvent(a)
                 \/ \E dom \in Domains, delay \in Delays, lifetime \in Lifetimes, posture \in Postures :
                      CollectorEvent(a, dom, delay, lifetime, posture)
          PROVE  UNCHANGED decided
      BY <2>4 DEF ReleaseEvent, CollectorEvent, grants
    <2>5. Tick \/ UNCHANGED vars => UNCHANGED decided
      BY DEF Tick, vars, grants
    <2>6. QED
      BY <2>1, <2>2, <2>3, <2>4, <2>5 DEF Next
  <1>3. QED
    BY <1>1, <1>2, TypeInit, TypeNext, PTL DEF Spec

-----------------------------------------------------------------------------
(* One device per binding *)

LEMMA OwnedShrinks ==
  ASSUME BindingsOwned, UNCHANGED nextId,
         \A a \in Addresses : store'[a] \in {store[a], None},
         \A d \in Devices : active'[d] \in {active[d], None}
  PROVE  BindingsOwned'
  <1>1. \A a \in Addresses : store'[a] # None => store'[a] = store[a] /\ store[a] # None
    OBVIOUS
  <1>2. \A d \in Devices : active'[d] # None => active'[d] = active[d] /\ active[d] # None
    OBVIOUS
  <1>3. QED
    BY <1>1, <1>2 DEF BindingsOwned, Reaches

LEMMA OwnedCollector ==
  ASSUME TypeOK, BindingsOwned, NEW a \in Addresses, NEW dom \in Domains, NEW delay \in Int,
         NEW lifetime \in Lifetimes, NEW posture \in Postures,
         CollectorEvent(a, dom, delay, lifetime, posture)
  PROVE  BindingsOwned'
  <1>1. PICK b \in Bindings :
          /\ store' = [store EXCEPT ![a] = b]
          /\ \/ b.id = nextId /\ b.device_ref = None
             \/ /\ store[a] # None
                /\ b.id = store[a].id /\ b.device_ref = store[a].device_ref
    BY CollectorStores
  <1>2. UNCHANGED active /\ nextId' = nextId + 1 /\ nextId \in Nat
    BY DEF CollectorEvent, grants, TypeOK
  <1>3. /\ store'[a] = b
        /\ \A x \in Addresses \ {a} : store'[x] = store[x]
    BY <1>1 DEF TypeOK
  <1>4. \A x \in Addresses : store[x] # None => store[x].id \in Nat
    BY DEF TypeOK, Bindings
  <1>5. b.id \in Nat
    BY DEF Bindings
  <1>6. \A x \in Addresses : store'[x] # None => store'[x].id < nextId'
    BY <1>1, <1>2, <1>3, <1>4, <1>5 DEF BindingsOwned
  <1>7. ASSUME NEW x \in Addresses, NEW y \in Addresses, store'[x] # None, store'[y] # None,
               store'[x].id = store'[y].id
        PROVE  x = y
    BY <1>1, <1>2, <1>3, <1>4, <1>5, <1>7 DEF BindingsOwned
  <1>8. ASSUME NEW d \in Devices, active'[d] # None, Reaches(active'[d])
        PROVE  /\ active'[d].binding # None /\ active'[d].binding < nextId'
               /\ \A x \in Addresses : store'[x] # None /\ store'[x].id = active'[d].binding =>
                    store'[x].device_ref = d
    <2>1. /\ active'[d] = active[d]
          /\ active[d].binding # None /\ active[d].binding < nextId
          /\ \A x \in Addresses : store[x] # None /\ store[x].id = active[d].binding =>
               store[x].device_ref = d
      BY <1>2, <1>8 DEF BindingsOwned
    <2>2. active[d].binding \in Nat
      BY <1>2, <1>8, <2>1 DEF TypeOK, Decisions
    <2>3. QED
      BY <1>1, <1>2, <1>3, <2>1, <2>2
  <1>9. \A d, e \in Devices :
          (active'[d] # None /\ Reaches(active'[d]) /\ active'[e] # None /\ Reaches(active'[e])
           /\ active'[d].binding = active'[e].binding) => d = e
    BY <1>2 DEF BindingsOwned
  <1>10. QED
    BY <1>6, <1>7, <1>8, <1>9 DEF BindingsOwned, Reaches

LEMMA OwnedDecide ==
  ASSUME TypeOK, TypeOK', BindingsOwned, NEW d \in Devices, NEW a \in Addresses,
         NEW declared \in DeclaredDomains, NEW verdict \in Verdicts, NEW session \in Sessions,
         NEW now \in Nat, NEW apply \in BOOLEAN,
         Decide(d, a, declared, verdict, session, now, apply)
  PROVE  BindingsOwned'
  <1> DEFINE dec == Granted(d, a, declared, verdict, session, now)
             b == BindingOf(d, a)
  <1>1. /\ active' = [active EXCEPT ![d] = IF apply THEN Installed(dec) ELSE @]
        /\ store' = IF b = None THEN store ELSE [store EXCEPT ![a] = b]
        /\ UNCHANGED nextId
    BY DecideIs
  <1>2. /\ Reaches(dec) => b # None /\ b.device_ref = d /\ dec.binding = b.id
    BY GrantedMeans
  <1>3. b # None => /\ store[a] # None /\ b.id = store[a].id /\ b.id \in Nat
                    /\ b.device_ref = store[a].device_ref \/ store[a].device_ref = None
    BY BindingOfType
  <1> HIDE DEF dec, b
  <1>4. /\ b # None => store'[a] = b
        /\ b = None => store'[a] = store[a]
        /\ \A x \in Addresses \ {a} : store'[x] = store[x]
    BY <1>1 DEF TypeOK
  <1>5. \A x \in Addresses : store'[x] # None => store[x] # None /\ store'[x].id = store[x].id
    BY <1>3, <1>4
  <1>6. \A x \in Addresses : store[x] # None => store[x].id \in Nat /\ store[x].id < nextId
    BY DEF TypeOK, Bindings, BindingsOwned
  <1>7. \A x, y \in Addresses : store'[x] # None /\ store'[y] # None /\ store'[x].id = store'[y].id => x = y
    BY <1>5 DEF BindingsOwned
  <1>8. ASSUME NEW e \in Devices, active'[e] # None, Reaches(active'[e])
        PROVE  /\ active'[e].binding # None /\ active'[e].binding < nextId'
               /\ \A x \in Addresses : store'[x] # None /\ store'[x].id = active'[e].binding =>
                    store'[x].device_ref = e
    <2>1. CASE active'[e] = active[e]
      <3>1. /\ active[e].binding # None /\ active[e].binding < nextId
            /\ \A x \in Addresses : store[x] # None /\ store[x].id = active[e].binding =>
                 store[x].device_ref = e
        BY <1>8, <2>1 DEF BindingsOwned
      <3>2. e # None
        BY PipelineAssumption
      <3>3. QED
        BY <1>1, <1>3, <1>4, <1>5, <2>1, <3>1, <3>2
    <2>2. CASE active'[e] # active[e]
      <3>1. e = d /\ active'[e] = Installed(dec)
        BY <1>1, <2>2 DEF TypeOK
      <3>2. active'[e] = dec
        BY <1>8, <3>1 DEF Installed
      <3>3. b # None /\ b.device_ref = d /\ dec.binding = b.id
        BY <1>2, <1>8, <3>2
      <3>4. \A x \in Addresses : store'[x] # None /\ store'[x].id = b.id => x = a
        BY <1>3, <1>4, <1>7, <3>3
      <3>5. QED
        BY <1>1, <1>3, <1>4, <1>6, <3>1, <3>2, <3>3, <3>4, NoneAssumption
    <2>3. QED
      BY <2>1, <2>2
  <1>9. \A x \in Addresses : store'[x] # None => store'[x].id < nextId'
    BY <1>1, <1>5, <1>6
  <1>10. ASSUME NEW e \in Devices, NEW f \in Devices, active'[e] # None, Reaches(active'[e]),
                active'[f] # None, Reaches(active'[f]), active'[e].binding = active'[f].binding
         PROVE  e = f
    <2>1. \A x \in Devices : x = d \/ active'[x] = active[x]
      BY <1>1 DEF TypeOK
    <2>2. CASE active'[d] = active[d]
      BY <1>10, <2>1, <2>2 DEF BindingsOwned
    <2>3. CASE active'[d] # active[d] /\ active'[d] # None /\ Reaches(active'[d])
      <3>1. active'[d] = dec
        BY <1>1, <2>3 DEF Installed, TypeOK
      <3>2. b # None /\ b.device_ref = d /\ dec.binding = b.id
        BY <1>2, <2>3, <3>1
      <3>3. store'[a] # None /\ store'[a].id = active'[d].binding /\ store'[a].device_ref = d
        BY <1>4, <3>1, <3>2
      <3>4. \A x \in Devices : (active'[x] # None /\ Reaches(active'[x])
                                /\ active'[x].binding = active'[d].binding) => x = d
        BY <1>8, <3>3
      <3>5. QED
        BY <1>10, <2>1, <3>4 DEF BindingsOwned
    <2>4. CASE ~(active'[d] # None /\ Reaches(active'[d]))
      BY <1>10, <2>1, <2>4 DEF BindingsOwned
    <2>5. QED
      BY <2>2, <2>3, <2>4
  <1>11. QED
    BY <1>7, <1>8, <1>9, <1>10 DEF BindingsOwned, Reaches

(* C5 carried through to enforcement: two devices are never served on the  *)
(* strength of the same access binding, although bindings are refreshed,   *)
(* replaced, released and claimed while decisions live on.                 *)
THEOREM BindingServesOneDevice == Spec => []OneDevicePerBinding
  <1>1. Init => BindingsOwned
    BY DEF Init, BindingsOwned
  <1>2. TypeOK /\ TypeOK' /\ BindingsOwned /\ [Next]_vars => BindingsOwned'
    <2> SUFFICES ASSUME TypeOK, TypeOK', BindingsOwned, [Next]_vars PROVE BindingsOwned'
      OBVIOUS
    <2>1. CASE UNCHANGED <<store, nextId, active>>
      BY <2>1, OwnedShrinks
    <2>2. ASSUME NEW d \in Devices, Request(d) PROVE BindingsOwned'
      BY <2>2, RequestIs, OwnedDecide
    <2>3. ASSUME NEW d \in Devices,
                 \/ Register(d) \/ (\E s \in Statuses : SetStatus(d, s)) \/ DeviceState(d)
                 \/ \E dom \in Domains, a \in Stated, at \in Dates :
                      ObserveTransition(d, dom, a, Instant(at))
          PROVE  UNCHANGED <<store, nextId, active>>
      BY <2>3 DEF Register, SetStatus, DeviceState, ObserveTransition, grants, access
    <2>4. ASSUME NEW d \in Devices, ActiveDecision(d) PROVE BindingsOwned'
      <3>1. UNCHANGED <<store, nextId>> /\ \A e \in Devices : active'[e] \in {active[e], None}
        BY <2>4 DEF ActiveDecision, access, TypeOK
      <3>2. QED
        BY <3>1, OwnedShrinks
    <2>5. ASSUME NEW a \in Addresses, ReleaseEvent(a) PROVE BindingsOwned'
      <3>1. UNCHANGED <<active, nextId>> /\ \A x \in Addresses : store'[x] \in {store[x], None}
        BY <2>5 DEF ReleaseEvent, grants, TypeOK
      <3>2. QED
        BY <3>1, OwnedShrinks
    <2>6. ASSUME NEW a \in Addresses, NEW dom \in Domains, NEW delay \in Delays,
                 NEW lifetime \in Lifetimes, NEW posture \in Postures,
                 CollectorEvent(a, dom, delay, lifetime, posture)
          PROVE  BindingsOwned'
      BY <2>6, PipelineAssumption, OwnedCollector
    <2>7. Tick \/ UNCHANGED vars => UNCHANGED <<store, nextId, active>>
      BY DEF Tick, vars, grants, access
    <2>8. QED
      BY <2>1, <2>2, <2>3, <2>4, <2>5, <2>6, <2>7 DEF Next
  <1>3. BindingsOwned => OneDevicePerBinding
    BY DEF BindingsOwned, OneDevicePerBinding, Served, InForce, Reaches
  <1>4. QED
    BY <1>1, <1>2, <1>3, TypeInit, TypeNext, PTL DEF Spec

-----------------------------------------------------------------------------
(* The baseline strategies *)

(* A token is issued to an ACTIVE device on a proof within its lifetime. *)
TokenRests(d) ==
  tokens[d] # None =>
    LET expiry == tokens[d].expires_at
        lead == tokens[d].ahead
    IN /\ activeAt[d] # None /\ expiry <= activeAt[d] + lead + TokenTtl
       /\ provenAt[d] # None /\ expiry <= provenAt[d] + lead + ProofTtl + TokenTtl

(* What a grant rested on when it was made: for static continuity, perhaps *)
(* on a token, and for either on what stated instants stretch.             *)
Slack(d) == (IF basis[d].strategy = "static_continuity" THEN TokenTtl ELSE 0) + basis[d].slack

BaselineRests(d) ==
  active[d] # None /\ Reaches(active[d]) =>
    LET at == active[d].created_at
    IN /\ activeAt[d] # None /\ at <= activeAt[d] + Slack(d)
       /\ provenAt[d] # None /\ at <= provenAt[d] + ProofTtl + Slack(d)

(* The last transition of a track is no earlier than the last move of the  *)
(* device, for a later transition is dated no earlier than the position.   *)
LastMove(d) ==
  movedAt[d] # None =>
    /\ track[d].position.at # None /\ movedAt[d] <= track[d].position.at
    /\ track[d].last # None /\ movedAt[d] <= track[d].last.detected_at

(* What independent authentication granted, it granted outside the         *)
(* transition window.                                                      *)
Settled(d) ==
  active[d] # None /\ Reaches(active[d]) /\ basis[d].strategy = "independent" =>
    \/ basis[d].moved = None
    \/ basis[d].judged > basis[d].moved + TransitionWindow

BaselineInv ==
  /\ TimesInv
  /\ \A d \in Devices : TokenRests(d) /\ BaselineRests(d) /\ LastMove(d) /\ Settled(d)

LEMMA BaselineInitial == BaselineInit => BaselineTypeOK /\ BaselineInv
  <1> SUFFICES ASSUME BaselineInit PROVE BaselineTypeOK /\ BaselineInv
    OBVIOUS
  <1>1. TypeOK /\ TimesInv
    BY TypeInit, TimesInit DEF BaselineInit
  <1>2. BaselineTypeOK
    BY <1>1 DEF BaselineInit, BaselineTypeOK, Init
  <1>3. \A d \in Devices : TokenRests(d) /\ BaselineRests(d) /\ LastMove(d) /\ Settled(d)
    BY DEF BaselineInit, Init, TokenRests, BaselineRests, LastMove, Settled, NewTrack, NoPosition
  <1>4. QED
    BY <1>1, <1>2, <1>3 DEF BaselineInv

-----------------------------------------------------------------------------
(* Authentication *)

(* A stated instant and the clock. *)
LEMMA LagAndLead ==
  ASSUME clock \in Nat, NEW now \in Nat
  PROVE  /\ Ahead(now) \in Nat /\ now <= clock + Ahead(now)
         /\ Behind(now) \in Nat /\ clock <= now + Behind(now)
  BY DEF Ahead, Behind

(* A decision gets as far as the proof, or it does not. *)
Authentication(d, dom, verdict, now) ==
  \/ NoAuthentication
  \/ status[d] = "ACTIVE" /\ Authenticate(d, dom, verdict, now)

LEMMA AuthenticationType ==
  ASSUME BaselineTypeOK, NEW d \in Devices, NEW dom \in Domains, NEW verdict \in Verdicts,
         NEW now \in Nat, Authentication(d, dom, verdict, now)
  PROVE  /\ verified' \in [Devices -> Nat \cup {None}]
         /\ failures' \in [Devices -> Seq(Nat)]
         /\ provenAt' \in [Devices -> Nat \cup {None}]
         /\ provenIn' \in [Devices -> Domains \cup {None}]
  <1>1. CASE NoAuthentication
    BY <1>1 DEF NoAuthentication, BaselineTypeOK, TypeOK
  <1>2. CASE Authenticate(d, dom, verdict, now)
    <2>1. ProofOf(d, verdict, now) \in Nat \cup {None} /\ clock \in Nat
      BY ProofOfType DEF BaselineTypeOK, TypeOK
    <2>2. PrunedBy(Append(failures[d], now), now - FailureWindow) \in Seq(Nat)
      <3>1. Append(failures[d], now) \in Seq(Nat) /\ now - FailureWindow \in Int
        BY PipelineAssumption DEF BaselineTypeOK, TypeOK
      <3>2. QED
        BY <3>1, PrunedType
    <2>3. failures' \in [Devices -> Seq(Nat)]
      BY <1>2, <2>2 DEF Authenticate, BaselineTypeOK, TypeOK
    <2>4. QED
      BY <1>2, <2>1, <2>3 DEF Authenticate, BaselineTypeOK, TypeOK
  <1>3. QED
    BY <1>1, <1>2 DEF Authentication

LEMMA AuthenticationTimes ==
  ASSUME TypeOK, TimesInv, NEW d \in Devices, NEW dom, NEW verdict \in Verdicts,
         NEW now \in Nat, Authentication(d, dom, verdict, now), UNCHANGED <<clock, status, activeAt>>
  PROVE  TimesInv' /\ \A x \in Devices : Forward(x)
  <1>1. CASE NoAuthentication
    BY <1>1, TimesFrame, ForwardFrame DEF NoAuthentication, history
  <1>2. CASE status[d] = "ACTIVE" /\ Authenticate(d, dom, verdict, now)
    <2>1. status[d] # None
      BY <1>2, NoneAssumption
    <2>2. /\ verified' = [verified EXCEPT ![d] = ProofOf(d, verdict, now)] \/ verified' = verified
          /\ provenAt' = IF verdict = "valid" /\ status[d] # None
                         THEN [provenAt EXCEPT ![d] = clock] ELSE provenAt
          /\ verdict = "valid" /\ status[d] # None =>
               verified' = [verified EXCEPT ![d] = ProofOf(d, verdict, now)]
      BY <1>2, <2>1 DEF Authenticate
    <2>3. TimesInv'
      BY <2>2, TimesProof
    <2>4. \A x \in Devices : Forward(x)
      BY <2>2, ForwardProof
    <2>5. QED
      BY <2>3, <2>4
  <1>3. QED
    BY <1>1, <1>2 DEF Authentication

(* What an authentication that yields a proof leaves in the histories: a   *)
(* proof that was within its lifetime at the stated instant, or one taken  *)
(* at the clock.                                                           *)
LEMMA AuthenticationRests ==
  ASSUME TypeOK, TimesInv, NEW d \in Devices, NEW dom, NEW verdict \in Verdicts, NEW now \in Nat,
         status[d] = "ACTIVE", Authenticate(d, dom, verdict, now), ProofOf(d, verdict, now) # None
  PROVE  /\ activeAt[d] = clock
         /\ provenAt'[d] \in Nat
         /\ clock <= provenAt'[d] + ProofTtl + Behind(now)
         /\ now <= provenAt'[d] + ProofTtl + Ahead(now)
  <1>1. /\ ProofOf(d, verdict, now) \in Nat
        /\ \/ verdict = "valid"
           \/ /\ verdict = "absent" /\ verified[d] # None
              /\ ProofOf(d, verdict, now) = verified[d] /\ now <= verified[d] + ProofTtl
    BY ProofOfType
  <1>2. activeAt[d] = clock /\ (verified[d] # None => verified[d] = provenAt[d])
    BY DEF TimesInv
  <1>3. clock \in Nat /\ ProofTtl \in Nat
    BY ThresholdAssumption DEF TypeOK
  <1>4. /\ Ahead(now) \in Nat /\ now <= clock + Ahead(now)
        /\ Behind(now) \in Nat /\ clock <= now + Behind(now)
    BY <1>3, LagAndLead
  <1>5. CASE verdict = "valid"
    <2>1. provenAt'[d] = clock
      BY <1>5 DEF Authenticate, TypeOK
    <2>2. QED
      BY <1>2, <1>3, <1>4, <2>1
  <1>6. CASE verdict # "valid"
    <2>1. provenAt'[d] = verified[d] /\ verified[d] \in Nat /\ now <= verified[d] + ProofTtl
      BY <1>1, <1>2, <1>6 DEF Authenticate
    <2>2. QED
      BY <1>2, <1>3, <1>4, <2>1
  <1>7. QED
    BY <1>5, <1>6

-----------------------------------------------------------------------------
(* Moves *)

(* A move is never rejected as a duplicate, so it is the last transition   *)
(* of the track; what comes later is dated no earlier than the position.   *)
LEMMA MoveIsObserved ==
  ASSUME TypeOK, NEW d \in Devices, NEW dom \in Domains, NEW a \in Stated, NEW now \in Nat
  PROVE  LET tr == Observed(track[d], dom, a, now)
         IN /\ tr \in Tracks
            /\ Moves(d, dom, now) =>
                 /\ tr.position.at = now
                 /\ tr.last # None /\ tr.last.detected_at = now
            /\ track[d].position.at # None =>
                 /\ tr.position.at # None /\ track[d].position.at <= tr.position.at
                 /\ \/ tr.last = track[d].last
                    \/ tr.last # None /\ track[d].position.at <= tr.last.detected_at
  <1> DEFINE tr == Observed(track[d], dom, a, now)
             p == track[d].position
  <1>1. track[d] \in Tracks
    BY DEF TypeOK
  <1>2. p \in Positions /\ p.at \in Nat \cup {None}
    BY <1>1 DEF Tracks, Positions
  <1>3. /\ tr \in Tracks
        /\ tr.last = track[d].last \/ (tr.last # None /\ tr.last.detected_at = now)
    BY <1>1, ObservedType
  <1>4. Stale(p, now) \/ Duplicate(p, dom, a, now) => tr = track[d]
    BY DEF Observed
  <1>5. ~(Stale(p, now) \/ Duplicate(p, dom, a, now)) => tr.position.at = now
    BY DEF Observed
  <1>6. ~Stale(p, now) /\ p.at # None => p.at <= now
    BY <1>2 DEF Stale
  <1>7. Duplicate(p, dom, a, now) => p.domain = dom
    BY DEF Duplicate
  <1>8. ASSUME Moves(d, dom, now)
        PROVE  tr.position.at = now /\ tr.last # None /\ tr.last.detected_at = now
    <2>1. ~Stale(p, now) /\ DomainChanged(p, dom) /\ ~Duplicate(p, dom, a, now)
      BY <1>7, <1>8 DEF Moves, DomainChanged
    <2>2. tr.last = Transition(p, dom, now)
      BY <2>1 DEF Observed
    <2>3. Transition(p, dom, now) \in Transitions /\ Transition(p, dom, now).detected_at = now
      BY <1>1, <1>2 DEF Transition, Transitions, Positions, DomainChanged
    <2>4. QED
      BY <1>5, <2>1, <2>2, <2>3, RecordAssumption
  <1>9. ASSUME p.at # None
        PROVE  /\ tr.position.at # None /\ p.at <= tr.position.at
               /\ \/ tr.last = track[d].last
                  \/ tr.last # None /\ p.at <= tr.last.detected_at
    <2>1. CASE tr = track[d]
      BY <1>2, <1>9, <2>1
    <2>2. CASE tr # track[d]
      BY <1>2, <1>3, <1>4, <1>5, <1>6, <1>9, <2>2, NoneAssumption
    <2>3. QED
      BY <2>1, <2>2
  <1>10. QED
    BY <1>3, <1>8, <1>9

(* Every observation leaves the last move in the track. *)
LEMMA LastMoveKept ==
  ASSUME BaselineTypeOK, NEW d \in Devices, NEW dom \in Domains, NEW a \in Stated,
         NEW now \in Nat, \A x \in Devices : LastMove(x), Observe(d, dom, now),
         NEW tr, tr = Observed(track[d], dom, a, now),
         track' = [track EXCEPT ![d] = Counted(tr, now)] \/ track' = [track EXCEPT ![d] = tr]
  PROVE  /\ track' \in [Devices -> Tracks]
         /\ movedAt' \in [Devices -> Nat \cup {None}]
         /\ track'[d].last = tr.last
         /\ \A x \in Devices : LastMove(x)'
  <1>1. TypeOK /\ track \in [Devices -> Tracks] /\ movedAt[d] \in Nat \cup {None}
    BY DEF BaselineTypeOK, TypeOK
  <1>2. /\ tr \in Tracks
        /\ Moves(d, dom, now) =>
             /\ tr.position.at = now
             /\ tr.last # None /\ tr.last.detected_at = now
        /\ track[d].position.at # None =>
             /\ tr.position.at # None /\ track[d].position.at <= tr.position.at
             /\ \/ tr.last = track[d].last
                \/ tr.last # None /\ track[d].position.at <= tr.last.detected_at
    BY <1>1, MoveIsObserved
  <1>3. /\ Counted(tr, now) \in Tracks
        /\ Counted(tr, now).last = tr.last /\ Counted(tr, now).position = tr.position
    BY <1>2, CountedType
  <1>4. /\ track' \in [Devices -> Tracks]
        /\ track'[d].last = tr.last /\ track'[d].position = tr.position
        /\ \A x \in Devices \ {d} : track'[x] = track[x]
    BY <1>1, <1>2, <1>3
  <1>5. /\ movedAt' \in [Devices -> Nat \cup {None}]
        /\ Moves(d, dom, now) => movedAt'[d] = now
        /\ ~Moves(d, dom, now) => movedAt'[d] = movedAt[d]
        /\ \A x \in Devices \ {d} : movedAt'[x] = movedAt[x]
    BY <1>1 DEF Observe, BaselineTypeOK
  <1>6. LastMove(d)'
    <2>1. CASE Moves(d, dom, now)
      BY <1>2, <1>4, <1>5, <2>1, NoneAssumption DEF LastMove
    <2>2. CASE ~Moves(d, dom, now)
      <3> SUFFICES ASSUME movedAt[d] # None
                   PROVE  /\ tr.position.at # None /\ movedAt[d] <= tr.position.at
                          /\ tr.last # None /\ movedAt[d] <= tr.last.detected_at
        BY <1>4, <1>5, <2>2 DEF LastMove
      <3>1. /\ track[d].position.at # None /\ movedAt[d] <= track[d].position.at
            /\ track[d].last # None /\ movedAt[d] <= track[d].last.detected_at
        BY DEF LastMove
      <3>2. track[d].position.at \in Nat /\ tr.position.at \in Nat \cup {None}
        BY <1>1, <1>2, <3>1 DEF Tracks, Positions
      <3>3. tr.last # None => tr.last.detected_at \in Nat
        BY <1>2 DEF Tracks, Transitions
      <3>4. QED
        BY <1>1, <1>2, <3>1, <3>2, <3>3
    <2>3. QED
      BY <2>1, <2>2
  <1>7. \A x \in Devices \ {d} : LastMove(x)'
    BY <1>4, <1>5 DEF LastMove
  <1>8. QED
    BY <1>4, <1>5, <1>6, <1>7

(* The answer of a baseline opens a production topic only in STABLE; no    *)
(* baseline knows TRANSITIONAL.                                            *)
LEMMA DirectMeans ==
  ASSUME BaselineTypeOK, NEW d \in Devices,
         NEW state \in TrustStates \ {"TRANSITIONAL"}, NEW ctx \in TransitionContexts,
         Direct(d, state, ctx)
  PROVE  /\ active' \in [Devices -> Decisions \cup {None}]
         /\ answered' \in [Devices -> Answers \cup {None}]
         /\ active'[d] # None => active'[d].created_at = clock
         /\ active'[d] # None /\ Reaches(active'[d]) => state = "STABLE"
         /\ \A x \in Devices \ {d} : active'[x] = active[x]
  <1> DEFINE outcome == Lookup(state, ctx)
             dec == [action |-> outcome.action, scope |-> outcome.scope, created_at |-> clock,
                     ahead |-> 0, binding |-> None, seen |-> None]
  <1>1. outcome.action \in Actions /\ outcome.scope \in DOMAIN ScopeAllow
    BY LookupType
  <1>2. dec \in Decisions /\ dec.created_at = clock /\ dec.scope = outcome.scope
    BY <1>1 DEF Decisions, BaselineTypeOK, TypeOK
  <1>3. active' = [active EXCEPT ![d] = Installed(dec)]
    BY DEF Direct
  <1>4. state # "STABLE" => outcome.scope \in {"none", "quarantine", "step_up_pending"}
    BY DecisionTable DEF TrustStates
  <1>5. Reaches(dec) => state = "STABLE"
    BY <1>2, <1>4, ScopeTopics DEF Reaches
  <1> HIDE DEF dec
  <1>6. Installed(dec) \in {dec, None}
    BY DEF Installed
  <1>7. /\ active' \in [Devices -> Decisions \cup {None}]
        /\ active'[d] \in {dec, None}
        /\ \A x \in Devices \ {d} : active'[x] = active[x]
    BY <1>2, <1>3, <1>6 DEF BaselineTypeOK, TypeOK
  <1>8. answered' \in [Devices -> Answers \cup {None}]
    <2>1. [state |-> state, context |-> ctx] \in Answers
      BY DEF Answers
    <2>2. answered' = [answered EXCEPT ![d] = [state |-> state, context |-> ctx]]
      BY DEF Direct
    <2>3. QED
      BY <2>1, <2>2 DEF BaselineTypeOK
  <1>9. QED
    BY <1>2, <1>5, <1>7, <1>8

LEMMA GrantedOnMeans ==
  ASSUME BaselineTypeOK, NEW d \in Devices, NEW dom \in Domains,
         NEW strategy \in {"independent", "static_continuity"}, NEW now \in Nat, NEW slack \in Nat,
         movedAt' \in [Devices -> Nat \cup {None}], GrantedOn(d, strategy, dom, now, slack)
  PROVE  /\ basis' \in [Devices -> Bases \cup {None}]
         /\ basis'[d] \in Bases /\ basis'[d].strategy = strategy
         /\ basis'[d].moved = movedAt'[d] /\ basis'[d].judged = now /\ basis'[d].slack = slack
         /\ \A x \in Devices \ {d} : basis'[x] = basis[x]
  <1> DEFINE base == [strategy |-> strategy, domain |-> dom, moved |-> movedAt'[d],
                      judged |-> now, slack |-> slack]
  <1>1. /\ base \in Bases /\ base.strategy = strategy /\ base.moved = movedAt'[d]
        /\ base.judged = now /\ base.slack = slack
    BY DEF Bases
  <1>2. basis' = [basis EXCEPT ![d] = base]
    BY DEF GrantedOn
  <1> HIDE DEF base
  <1>3. QED
    BY <1>1, <1>2 DEF BaselineTypeOK

-----------------------------------------------------------------------------
(* The steps of the baselines *)

LEMMA TokenStays ==
  ASSUME BaselineTypeOK, NEW d \in Devices, TokenRests(d), Forward(d),
         tokens'[d] \in {tokens[d], None},
         activeAt' \in [Devices -> Nat \cup {None}], provenAt' \in [Devices -> Nat \cup {None}]
  PROVE  TokenRests(d)'
  <1> DEFINE expiry == tokens[d].expires_at
             lead == tokens[d].ahead
  <1> SUFFICES ASSUME tokens'[d] # None
               PROVE  /\ activeAt'[d] # None /\ expiry <= activeAt'[d] + lead + TokenTtl
                      /\ provenAt'[d] # None /\ expiry <= provenAt'[d] + lead + ProofTtl + TokenTtl
    BY DEF TokenRests
  <1>1. /\ tokens[d] # None
        /\ activeAt[d] # None /\ expiry <= activeAt[d] + lead + TokenTtl
        /\ provenAt[d] # None /\ expiry <= provenAt[d] + lead + ProofTtl + TokenTtl
    BY DEF TokenRests
  <1>2. /\ expiry \in Nat /\ lead \in Nat /\ activeAt[d] \in Nat /\ activeAt'[d] \in Nat
        /\ provenAt[d] \in Nat /\ provenAt'[d] \in Nat
        /\ activeAt'[d] # None /\ provenAt'[d] # None
        /\ activeAt[d] <= activeAt'[d] /\ provenAt[d] <= provenAt'[d]
    BY <1>1 DEF BaselineTypeOK, TypeOK, Forward, Tokens
  <1>3. QED
    BY <1>1, <1>2, ThresholdAssumption, TokenAssumption

LEMMA BaselineGrantStays ==
  ASSUME BaselineTypeOK, BaselineTypeOK', NEW d \in Devices, BaselineRests(d), Settled(d), Forward(d),
         active'[d] \in {active[d], None}, basis'[d] = basis[d]
  PROVE  BaselineRests(d)' /\ Settled(d)'
  <1>1. Slack(d)' = Slack(d) /\ (active[d] # None => Slack(d) \in Nat)
    BY TokenAssumption DEF Slack, BaselineTypeOK, Bases
  <1>2. active'[d] # None => active'[d] = active[d] /\ active[d] # None
    OBVIOUS
  <1>3. Settled(d)'
    BY <1>2 DEF Settled, Reaches
  <1>4. BaselineRests(d)'
    <2> SUFFICES ASSUME active'[d] # None, Reaches(active'[d])
                 PROVE  LET at == active'[d].created_at
                        IN /\ activeAt'[d] # None /\ at <= activeAt'[d] + Slack(d)
                           /\ provenAt'[d] # None /\ at <= provenAt'[d] + ProofTtl + Slack(d)
      BY <1>1 DEF BaselineRests, Reaches
    <2>1. /\ activeAt[d] # None /\ active[d].created_at <= activeAt[d] + Slack(d)
          /\ provenAt[d] # None /\ active[d].created_at <= provenAt[d] + ProofTtl + Slack(d)
      BY <1>2 DEF BaselineRests
    <2>2. active[d].created_at \in Nat
      BY <1>2 DEF BaselineTypeOK, TypeOK, Decisions
    <2>3. /\ activeAt[d] \in Nat /\ activeAt'[d] \in Nat /\ provenAt[d] \in Nat /\ provenAt'[d] \in Nat
          /\ activeAt'[d] # None /\ provenAt'[d] # None
          /\ activeAt[d] <= activeAt'[d] /\ provenAt[d] <= provenAt'[d]
      BY <2>1 DEF BaselineTypeOK, TypeOK, Forward
    <2>4. QED
      BY <1>1, <1>2, <2>1, <2>2, <2>3, ThresholdAssumption
  <1>5. QED
    BY <1>3, <1>4

(* A request of either strategy, given what its grant and its token rest on. *)
LEMMA BaselineRequest ==
  ASSUME BaselineTypeOK, BaselineInv,
         NEW d \in Devices, NEW dom \in Domains, NEW a \in Addresses, NEW verdict \in Verdicts,
         NEW now \in Nat, NEW tr, tr = Observed(track[d], dom, a, now), Observe(d, dom, now),
         track' = [track EXCEPT ![d] = Counted(tr, now)] \/ track' = [track EXCEPT ![d] = tr],
         NEW strategy \in {"independent", "static_continuity"},
         NEW state \in TrustStates \ {"TRANSITIONAL"}, NEW ctx \in TransitionContexts,
         Direct(d, state, ctx), NEW stretch \in Nat, GrantedOn(d, strategy, dom, now, stretch),
         Authentication(d, dom, verdict, now),
         UNCHANGED <<clock, status, store, nextId, decided, activeAt>>,
         NEW slack \in Nat,
         slack = (IF strategy = "static_continuity" THEN TokenTtl ELSE 0) + stretch,
         state = "STABLE" => /\ activeAt[d] # None /\ clock <= activeAt[d] + slack
                             /\ provenAt'[d] # None /\ clock <= provenAt'[d] + ProofTtl + slack,
         state = "STABLE" /\ strategy = "independent" => ~Recent(tr.last, now),
         tokens' \in [Devices -> Tokens \cup {None}],
         TokenRests(d)', \A x \in Devices \ {d} : tokens'[x] = tokens[x]
  PROVE  BaselineTypeOK' /\ BaselineInv'
  <1>1. /\ TypeOK /\ TimesInv
        /\ \A x \in Devices : TokenRests(x) /\ BaselineRests(x) /\ LastMove(x) /\ Settled(x)
    BY DEF BaselineTypeOK, BaselineInv
  <1>2. /\ track' \in [Devices -> Tracks]
        /\ movedAt' \in [Devices -> Nat \cup {None}]
        /\ track'[d].last = tr.last
        /\ \A x \in Devices : LastMove(x)'
    <2>1. a \in Stated
      BY DEF Stated
    <2>2. QED
      BY <1>1, <2>1, LastMoveKept
  <1>3. /\ active' \in [Devices -> Decisions \cup {None}]
        /\ answered' \in [Devices -> Answers \cup {None}]
        /\ basis' \in [Devices -> Bases \cup {None}]
        /\ basis'[d] \in Bases /\ basis'[d].strategy = strategy
        /\ basis'[d].moved = movedAt'[d] /\ basis'[d].judged = now /\ basis'[d].slack = stretch
        /\ active'[d] # None => active'[d].created_at = clock
        /\ active'[d] # None /\ Reaches(active'[d]) => state = "STABLE"
        /\ \A x \in Devices \ {d} : active'[x] = active[x] /\ basis'[x] = basis[x]
    BY <1>2, DirectMeans, GrantedOnMeans
  <1>4. /\ verified' \in [Devices -> Nat \cup {None}]
        /\ failures' \in [Devices -> Seq(Nat)]
        /\ provenAt' \in [Devices -> Nat \cup {None}]
        /\ provenIn' \in [Devices -> Domains \cup {None}]
    BY AuthenticationType
  <1>5. TypeOK'
    BY <1>1, <1>2, <1>3, <1>4 DEF TypeOK
  <1>6. \A x \in Devices : active'[x] # None => basis'[x] \in Bases
    BY <1>3 DEF BaselineTypeOK
  <1>7. BaselineTypeOK'
    BY <1>2, <1>3, <1>4, <1>5, <1>6 DEF BaselineTypeOK
  <1>8. TimesInv' /\ \A x \in Devices : Forward(x)
    BY <1>1, AuthenticationTimes
  <1>9. ASSUME NEW x \in Devices \ {d}
        PROVE  TokenRests(x)' /\ BaselineRests(x)' /\ Settled(x)'
    <2>1. TokenRests(x)'
      BY <1>1, <1>5, <1>8, TokenStays DEF TypeOK
    <2>2. BaselineRests(x)' /\ Settled(x)'
      BY <1>1, <1>3, <1>7, <1>8, BaselineGrantStays
    <2>3. QED
      BY <2>1, <2>2
  <1>10. BaselineRests(d)'
    <2>1. Slack(d)' = slack
      BY <1>3 DEF Slack
    <2>2. QED
      BY <1>3, <2>1 DEF BaselineRests, Reaches
  <1>11. Settled(d)'
    <2> SUFFICES ASSUME active'[d] # None, Reaches(active'[d]), strategy = "independent",
                        movedAt'[d] # None
                 PROVE  now > movedAt'[d] + TransitionWindow
      BY <1>3 DEF Settled, Reaches
    <2>1. ~Recent(tr.last, now)
      BY <1>3
    <2>2. tr.last # None /\ movedAt'[d] <= tr.last.detected_at
      BY <1>2 DEF LastMove
    <2>3. movedAt'[d] \in Nat /\ tr.last.detected_at \in Nat /\ TransitionWindow \in Nat
      BY <1>2, <2>2, WindowAssumption DEF Tracks, Transitions
    <2>4. QED
      BY <2>1, <2>2, <2>3 DEF Recent
  <1>12. QED
    BY <1>2, <1>7, <1>8, <1>9, <1>10, <1>11 DEF BaselineInv

(* Independent authentication serves an ACTIVE device on a fresh proof,    *)
(* outside the transition window.                                          *)
LEMMA IndependentKeeps ==
  ASSUME BaselineTypeOK, BaselineInv, NEW d \in Devices, NEW a \in Addresses,
         NEW declared \in DeclaredDomains, NEW verdict \in Verdicts, NEW now \in Nat,
         Independent(d, a, declared, verdict, now)
  PROVE  BaselineTypeOK' /\ BaselineInv'
  <1> DEFINE dom == RequestDomain(a, declared)
             tr == Observed(track[d], dom, a, now)
             ctx == ContextFor(tr, now)
  <1>1. /\ TypeOK /\ TimesInv /\ clock \in Nat /\ tokens \in [Devices -> Tokens \cup {None}]
        /\ Behind(now) \in Nat
    BY LagAndLead DEF BaselineTypeOK, BaselineInv, TypeOK
  <1>2. dom \in Domains /\ ctx \in TransitionContexts /\ "NONE" \in TransitionContexts
    BY <1>1, RequestDomainType, ContextAgrees DEF TransitionContexts
  <1>3. /\ Observe(d, dom, now)
        /\ GrantedOn(d, "independent", dom, now, Behind(now))
        /\ track' = [track EXCEPT ![d] = IF Recent(tr.last, now) THEN Counted(tr, now) ELSE tr]
        /\ UNCHANGED <<clock, status, store, nextId, decided, activeAt, tokens>>
    BY DEF Independent
  <1>4. \/ Direct(d, "UNKNOWN", ctx) /\ NoAuthentication
        \/ Direct(d, "UNTRUSTED", ctx) /\ NoAuthentication
        \/ Direct(d, "SUSPICIOUS", "NONE") /\ NoAuthentication
        \/ /\ status[d] = "ACTIVE" /\ ~Recent(tr.last, now) /\ Authenticate(d, dom, verdict, now)
           /\ \/ ProofOf(d, verdict, now) # None /\ Direct(d, "STABLE", "NONE")
              \/ Direct(d, "DEGRADED", ctx)
    BY DEF Independent
  <1> HIDE DEF tr, dom, ctx
  <1>5. track' = [track EXCEPT ![d] = Counted(tr, now)] \/ track' = [track EXCEPT ![d] = tr]
    BY <1>3
  <1>6. PICK state \in TrustStates \ {"TRANSITIONAL"}, c \in TransitionContexts :
          /\ Direct(d, state, c) /\ Authentication(d, dom, verdict, now)
          /\ state = "STABLE" => /\ status[d] = "ACTIVE" /\ ~Recent(tr.last, now)
                                 /\ Authenticate(d, dom, verdict, now)
                                 /\ ProofOf(d, verdict, now) # None
    BY <1>2, <1>4 DEF TrustStates, Authentication
  <1>7. ASSUME state = "STABLE"
        PROVE  /\ activeAt[d] # None /\ clock <= activeAt[d] + Behind(now)
               /\ provenAt'[d] # None /\ clock <= provenAt'[d] + ProofTtl + Behind(now)
    <2>1. /\ activeAt[d] = clock /\ provenAt'[d] \in Nat
          /\ clock <= provenAt'[d] + ProofTtl + Behind(now)
      BY <1>1, <1>6, <1>7, AuthenticationRests
    <2>2. QED
      BY <1>1, <2>1, NoneAssumption, ThresholdAssumption
  <1>8. TokenRests(d)'
    <2>1. \A x \in Devices : Forward(x)
      BY <1>1, <1>3, <1>6, AuthenticationTimes
    <2>2. /\ provenAt' \in [Devices -> Nat \cup {None}] /\ activeAt' \in [Devices -> Nat \cup {None}]
          /\ tokens' = tokens
      BY <1>1, <1>2, <1>3, <1>6, AuthenticationType DEF TypeOK
    <2>3. QED
      BY <2>1, <2>2, TokenStays DEF BaselineInv
  <1> DEFINE stretch == Behind(now)
  <1>9. /\ stretch \in Nat /\ GrantedOn(d, "independent", dom, now, stretch)
        /\ stretch = (IF "independent" = "static_continuity" THEN TokenTtl ELSE 0) + stretch
        /\ state = "STABLE" =>
             /\ activeAt[d] # None /\ clock <= activeAt[d] + stretch
             /\ provenAt'[d] # None /\ clock <= provenAt'[d] + ProofTtl + stretch
    BY <1>1, <1>3, <1>7
  <1>10. /\ tr = Observed(track[d], dom, a, now)
         /\ tokens' \in [Devices -> Tokens \cup {None}]
         /\ \A x \in Devices \ {d} : tokens'[x] = tokens[x]
    BY <1>1, <1>3 DEF tr
  <1>11. /\ Observe(d, dom, now) /\ Direct(d, state, c) /\ Authentication(d, dom, verdict, now)
         /\ UNCHANGED <<clock, status, store, nextId, decided, activeAt>>
         /\ state = "STABLE" /\ "independent" = "independent" => ~Recent(tr.last, now)
    BY <1>3, <1>6
  <1> HIDE DEF stretch
  <1>12. QED
    BY <1>2, <1>5, <1>8, <1>9, <1>10, <1>11, BaselineRequest

(* Static continuity serves on a valid token without a look at the device, *)
(* and issues a token to an ACTIVE device on a proof.                      *)
LEMMA StaticContinuityKeeps ==
  ASSUME BaselineTypeOK, BaselineInv, NEW d \in Devices, NEW a \in Addresses,
         NEW declared \in DeclaredDomains, NEW verdict \in Verdicts, NEW now \in Nat,
         StaticContinuity(d, a, declared, verdict, now)
  PROVE  BaselineTypeOK' /\ BaselineInv'
  <1> DEFINE dom == RequestDomain(a, declared)
             tr == Observed(track[d], dom, a, now)
             lead == IF TokenValid(d, now) THEN tokens[d].ahead ELSE 0
             stretch == Behind(now) + lead
             stable == /\ activeAt[d] # None /\ clock <= activeAt[d] + TokenTtl + stretch
                       /\ provenAt'[d] # None
                       /\ clock <= provenAt'[d] + ProofTtl + TokenTtl + stretch
  <1>1. /\ TypeOK /\ TimesInv /\ clock \in Nat /\ tokens \in [Devices -> Tokens \cup {None}]
        /\ ProofTtl \in Nat /\ TokenTtl \in Nat
    BY ThresholdAssumption, TokenAssumption DEF BaselineTypeOK, BaselineInv, TypeOK
  <1>2. dom \in Domains /\ "NONE" \in TransitionContexts
    BY <1>1, RequestDomainType DEF TransitionContexts
  <1>3. /\ Observe(d, dom, now)
        /\ GrantedOn(d, "static_continuity", dom, now, stretch)
        /\ track' = [track EXCEPT ![d] = tr]
        /\ UNCHANGED <<clock, status, store, nextId, decided, activeAt>>
    BY DEF StaticContinuity
  <1>4. \/ TokenValid(d, now) /\ Direct(d, "STABLE", "NONE") /\ NoAuthentication /\ UNCHANGED tokens
        \/ /\ Direct(d, "UNKNOWN", "NONE") \/ Direct(d, "UNTRUSTED", "NONE")
           /\ NoAuthentication /\ tokens' = [tokens EXCEPT ![d] = None]
        \/ /\ status[d] = "ACTIVE" /\ Authenticate(d, dom, verdict, now)
           /\ ProofOf(d, verdict, now) # None
           /\ Direct(d, "STABLE", "NONE") /\ tokens' = [tokens EXCEPT ![d] = TokenIssued(now)]
        \/ /\ status[d] = "ACTIVE" /\ Authenticate(d, dom, verdict, now)
           /\ Direct(d, "DEGRADED", "NONE") /\ tokens' = [tokens EXCEPT ![d] = None]
    BY DEF StaticContinuity
  <1>5. /\ Ahead(now) \in Nat /\ now <= clock + Ahead(now)
        /\ Behind(now) \in Nat /\ clock <= now + Behind(now)
    BY <1>1, LagAndLead
  <1>6. lead \in Nat /\ stretch \in Nat /\ Behind(now) <= stretch
    BY <1>1, <1>5 DEF TokenValid, Tokens
  <1> HIDE DEF tr, dom, lead
  <1>7. ASSUME NEW state \in TrustStates \ {"TRANSITIONAL"}, Direct(d, state, "NONE"),
               Authentication(d, dom, verdict, now), state = "STABLE" => stable,
               tokens' \in [Devices -> Tokens \cup {None}], TokenRests(d)',
               \A x \in Devices \ {d} : tokens'[x] = tokens[x]
        PROVE  BaselineTypeOK' /\ BaselineInv'
    <2> DEFINE slack == TokenTtl + stretch
    <2>1. /\ slack \in Nat
          /\ slack = (IF "static_continuity" = "static_continuity" THEN TokenTtl ELSE 0) + stretch
      BY <1>1, <1>6
    <2>2. provenAt' \in [Devices -> Nat \cup {None}]
      BY <1>2, <1>7, AuthenticationType
    <2>3. state = "STABLE" => /\ activeAt[d] # None /\ clock <= activeAt[d] + slack
                              /\ provenAt'[d] # None /\ clock <= provenAt'[d] + ProofTtl + slack
      <3>1. activeAt[d] \in Nat \cup {None} /\ provenAt'[d] \in Nat \cup {None}
        BY <1>1, <2>2 DEF TypeOK
      <3>2. QED
        BY <1>1, <1>6, <1>7, <3>1
    <2> HIDE DEF slack, stretch
    <2>4. tr = Observed(track[d], dom, a, now)
      BY DEF tr
    <2>5. QED
      BY <1>2, <1>3, <1>6, <1>7, <2>1, <2>3, <2>4, BaselineRequest
  <1>8. /\ "STABLE" \in TrustStates \ {"TRANSITIONAL"} /\ "DEGRADED" \in TrustStates \ {"TRANSITIONAL"}
        /\ "UNKNOWN" \in TrustStates \ {"TRANSITIONAL"} /\ "UNTRUSTED" \in TrustStates \ {"TRANSITIONAL"}
    BY DEF TrustStates
  <1>9. CASE TokenValid(d, now) /\ Direct(d, "STABLE", "NONE") /\ NoAuthentication /\ UNCHANGED tokens
    <2>1. Authentication(d, dom, verdict, now) /\ UNCHANGED provenAt
      BY <1>9 DEF Authentication, NoAuthentication
    <2>2. /\ tokens[d] # None /\ now <= tokens[d].expires_at /\ tokens[d].expires_at \in Nat
          /\ lead = tokens[d].ahead
      BY <1>1, <1>9 DEF TokenValid, Tokens, lead
    <2>3. /\ activeAt[d] # None /\ tokens[d].expires_at <= activeAt[d] + lead + TokenTtl
          /\ provenAt[d] # None /\ tokens[d].expires_at <= provenAt[d] + lead + ProofTtl + TokenTtl
      BY <2>2 DEF BaselineInv, TokenRests
    <2>4. activeAt[d] \in Nat /\ provenAt[d] \in Nat
      BY <1>1, <2>3 DEF TypeOK
    <2>5. stable
      BY <1>1, <1>5, <1>6, <2>1, <2>2, <2>3, <2>4
    <2>6. TokenRests(d)'
      BY <1>3, <1>9, <2>1, <2>2, <2>3 DEF TokenRests
    <2>7. QED
      BY <1>1, <1>7, <1>8, <1>9, <2>1, <2>5, <2>6
  <1>10. ASSUME tokens' = [tokens EXCEPT ![d] = None]
         PROVE  /\ tokens' \in [Devices -> Tokens \cup {None}] /\ TokenRests(d)'
                /\ \A x \in Devices \ {d} : tokens'[x] = tokens[x]
    BY <1>1, <1>10 DEF TokenRests
  <1>11. CASE /\ Direct(d, "UNKNOWN", "NONE") \/ Direct(d, "UNTRUSTED", "NONE")
              /\ NoAuthentication /\ tokens' = [tokens EXCEPT ![d] = None]
    <2>1. Authentication(d, dom, verdict, now)
      BY <1>11 DEF Authentication
    <2>2. QED
      BY <1>7, <1>8, <1>10, <1>11, <2>1
  <1>12. CASE /\ status[d] = "ACTIVE" /\ Authenticate(d, dom, verdict, now)
              /\ ProofOf(d, verdict, now) # None
              /\ Direct(d, "STABLE", "NONE") /\ tokens' = [tokens EXCEPT ![d] = TokenIssued(now)]
    <2>1. Authentication(d, dom, verdict, now)
      BY <1>12 DEF Authentication
    <2>2. /\ activeAt[d] = clock /\ provenAt'[d] \in Nat
          /\ clock <= provenAt'[d] + ProofTtl + Behind(now)
          /\ now <= provenAt'[d] + ProofTtl + Ahead(now)
      BY <1>1, <1>12, AuthenticationRests
    <2>3. stable
      BY <1>1, <1>5, <1>6, <2>2, NoneAssumption
    <2>4. TokenIssued(now) \in Tokens /\ TokenIssued(now).expires_at = now + TokenTtl
          /\ TokenIssued(now).ahead = Ahead(now)
      BY <1>1, <1>5 DEF TokenIssued, Tokens
    <2>5. /\ tokens' \in [Devices -> Tokens \cup {None}] /\ tokens'[d] = TokenIssued(now)
          /\ \A x \in Devices \ {d} : tokens'[x] = tokens[x]
      BY <1>1, <1>12, <2>4
    <2>6. TokenRests(d)'
      <3>1. activeAt'[d] = clock
        BY <1>3, <2>2
      <3>2. /\ now + TokenTtl <= activeAt'[d] + Ahead(now) + TokenTtl
            /\ now + TokenTtl <= provenAt'[d] + Ahead(now) + ProofTtl + TokenTtl
        BY <1>1, <1>5, <2>2, <3>1
      <3>3. QED
        BY <1>1, <2>2, <2>4, <2>5, <3>1, <3>2, NoneAssumption DEF TokenRests
    <2>7. QED
      BY <1>7, <1>8, <1>12, <2>1, <2>3, <2>5, <2>6
  <1>13. CASE /\ status[d] = "ACTIVE" /\ Authenticate(d, dom, verdict, now)
              /\ Direct(d, "DEGRADED", "NONE") /\ tokens' = [tokens EXCEPT ![d] = None]
    <2>1. Authentication(d, dom, verdict, now)
      BY <1>13 DEF Authentication
    <2>2. QED
      BY <1>7, <1>8, <1>10, <1>13, <2>1
  <1>14. QED
    BY <1>4, <1>9, <1>11, <1>12, <1>13

(* The steps that grant nothing. *)
LEMMA BaselineFrame ==
  ASSUME BaselineTypeOK, BaselineInv, TypeOK', TimesInv',
         \A d \in Devices : Forward(d) /\ active'[d] \in {active[d], None},
         UNCHANGED <<tokens, provenIn, answered, basis>>,
         movedAt' \in [Devices -> Nat \cup {None}], \A d \in Devices : LastMove(d)'
  PROVE  BaselineTypeOK' /\ BaselineInv'
  <1>1. BaselineTypeOK'
    BY DEF BaselineTypeOK
  <1>2. \A d \in Devices : TokenRests(d)'
    BY TokenStays DEF BaselineInv, TypeOK
  <1>3. \A d \in Devices : BaselineRests(d)' /\ Settled(d)'
    BY <1>1, BaselineGrantStays DEF BaselineInv
  <1>4. QED
    BY <1>1, <1>2, <1>3 DEF BaselineInv

LEMMA BaselineKeeps ==
  BaselineTypeOK /\ BaselineInv /\ [BaselineNext]_baselineVars => BaselineTypeOK' /\ BaselineInv'
  <1> SUFFICES ASSUME BaselineTypeOK, BaselineInv, [BaselineNext]_baselineVars
               PROVE  BaselineTypeOK' /\ BaselineInv'
    OBVIOUS
  <1>1. /\ TypeOK /\ TimesInv /\ movedAt \in [Devices -> Nat \cup {None}]
        /\ \A d \in Devices : LastMove(d)
    BY DEF BaselineTypeOK, BaselineInv
  <1>2. ASSUME UNCHANGED <<track, evidence>>, TypeOK', TimesInv',
               \A d \in Devices : Forward(d) /\ active'[d] \in {active[d], None}
        PROVE  BaselineTypeOK' /\ BaselineInv'
    <2>1. \A d \in Devices : LastMove(d)'
      BY <1>1, <1>2 DEF LastMove, evidence
    <2>2. QED
      BY <1>1, <1>2, <2>1, BaselineFrame DEF evidence
  <1>3. CASE Tick /\ UNCHANGED evidence
    <2>1. /\ TypeOK' /\ TimesInv' /\ \A d \in Devices : Forward(d)
      BY <1>1, <1>3, TickType, TimesTick, ForwardTick
    <2>2. QED
      BY <1>2, <1>3, <2>1 DEF Tick, access, grants
  <1>4. ASSUME NEW c \in Devices, Register(c) \/ (\E s \in Statuses : SetStatus(c, s)),
               UNCHANGED evidence
        PROVE  BaselineTypeOK' /\ BaselineInv'
    <2>1. TypeOK' /\ TimesInv' /\ \A d \in Devices : Forward(d)
      BY <1>1, <1>4, AdministrationType, TimesAdministration, ForwardAdministration
    <2>2. UNCHANGED <<track, active>>
      BY <1>4 DEF Register, SetStatus, access, grants
    <2>3. QED
      BY <1>2, <1>4, <2>1, <2>2
  <1>5. ASSUME NEW c \in Devices, ActiveDecision(c), UNCHANGED evidence
        PROVE  BaselineTypeOK' /\ BaselineInv'
    <2>1. TypeOK'
      BY <1>1, <1>5, ActiveDecisionType
    <2>2. UNCHANGED <<clock, track, registry, history>> /\ \A d \in Devices : active'[d] \in {active[d], None}
      BY <1>1, <1>5 DEF ActiveDecision, access, TypeOK
    <2>3. TimesInv' /\ \A d \in Devices : Forward(d)
      BY <1>1, <2>2, TimesFrame, ForwardFrame DEF registry, history
    <2>4. QED
      BY <1>2, <1>5, <2>1, <2>2, <2>3
  <1>6. ASSUME NEW c \in Devices, NEW dom \in Domains, NEW a \in Stated, NEW now \in Nat,
               ObservedElsewhere(c, dom, a, now)
        PROVE  BaselineTypeOK' /\ BaselineInv'
    <2>1. /\ ObserveTransition(c, dom, a, now) /\ Observe(c, dom, now)
          /\ UNCHANGED <<tokens, provenIn, answered, basis>>
      BY <1>6 DEF ObservedElsewhere
    <2>2. /\ track' = [track EXCEPT ![c] = Counted(Observed(track[c], dom, a, now), now)]
          /\ UNCHANGED <<clock, registry, active, history>>
      BY <2>1 DEF ObserveTransition, grants
    <2>3. TypeOK'
      BY <1>1, <2>1, ObserveTransitionType
    <2>4. TimesInv' /\ \A d \in Devices : Forward(d)
      BY <1>1, <2>2, TimesFrame, ForwardFrame DEF registry, history
    <2>5. movedAt' \in [Devices -> Nat \cup {None}] /\ \A d \in Devices : LastMove(d)'
      BY <1>1, <2>1, <2>2, LastMoveKept
    <2>6. QED
      BY <2>1, <2>2, <2>3, <2>4, <2>5, BaselineFrame
  <1>7. ASSUME NEW d \in Devices, NEW a \in Addresses, NEW declared \in DeclaredDomains,
               NEW verdict \in Verdicts, NEW now \in Nat,
               \/ Independent(d, a, declared, verdict, now)
               \/ StaticContinuity(d, a, declared, verdict, now)
        PROVE  BaselineTypeOK' /\ BaselineInv'
    BY <1>7, IndependentKeeps, StaticContinuityKeeps
  <1>8. CASE UNCHANGED baselineVars
    <2>1. UNCHANGED vars /\ UNCHANGED evidence
      BY <1>8 DEF baselineVars
    <2>2. TypeOK'
      BY <1>1, <2>1 DEF TypeOK, vars, registry, access, grants, history
    <2>3. TimesInv' /\ \A d \in Devices : Forward(d)
      BY <1>1, <2>1, TimesFrame, ForwardFrame DEF vars, registry, history
    <2>4. QED
      BY <1>2, <2>1, <2>2, <2>3 DEF vars, access, grants
  <1>9. \A at \in Dates : Instant(at) \in Nat
    BY <1>1, InstantType
  <1>10. QED
    BY <1>3, <1>4, <1>5, <1>6, <1>7, <1>8, <1>9 DEF BaselineNext

(* The baselines keep the stores typed. *)
THEOREM BaselineTypeCorrect == BaselineSpec => []BaselineTypeOK
  BY BaselineInitial, BaselineKeeps, PTL DEF BaselineSpec

(* The implicit trust of static continuity is bounded by the lifetime of   *)
(* its token, and independent authentication adds nothing to the lifetime  *)
(* of its decision, but for the lag of a request dated back and the lead   *)
(* of the one that issued the token.                                       *)
THEOREM ImplicitTrustBounded == BaselineSpec => []BaselineStaleness
  <1>1. BaselineTypeOK /\ BaselineInv => BaselineStaleness
    <2> SUFFICES ASSUME BaselineTypeOK, BaselineInv, NEW d \in Devices, Served(d)
                 PROVE  LET token == IF basis[d].strategy = "static_continuity" THEN TokenTtl ELSE 0
                            life == Ttl[active[d].action] + token + basis[d].slack
                        IN /\ activeAt[d] # None /\ clock <= activeAt[d] + life
                           /\ provenAt[d] # None /\ clock <= provenAt[d] + ProofTtl + life
      BY DEF BaselineStaleness
    <2>1. TypeOK /\ InForce(d) /\ active[d] # None /\ Reaches(active[d])
      BY DEF BaselineTypeOK, Served, InForce, Reaches
    <2>2. /\ Ttl[active[d].action] \in Nat /\ active[d].created_at \in Nat
          /\ clock <= active[d].created_at + Ttl[active[d].action]
      BY <2>1, InForceBound
    <2>3. /\ activeAt[d] # None /\ active[d].created_at <= activeAt[d] + Slack(d)
          /\ provenAt[d] # None /\ active[d].created_at <= provenAt[d] + ProofTtl + Slack(d)
      BY <2>1 DEF BaselineInv, BaselineRests
    <2>4. /\ clock \in Nat /\ activeAt[d] \in Nat /\ provenAt[d] \in Nat /\ ProofTtl \in Nat
          /\ basis[d].slack \in Nat /\ TokenTtl \in Nat
          /\ Slack(d) = (IF basis[d].strategy = "static_continuity" THEN TokenTtl ELSE 0) + basis[d].slack
      BY <2>1, <2>3, ThresholdAssumption, TokenAssumption DEF TypeOK, BaselineTypeOK, Bases, Slack
    <2>5. QED
      BY <2>2, <2>3, <2>4
  <1>2. QED
    BY <1>1, BaselineInitial, BaselineKeeps, PTL DEF BaselineSpec

(* Independent authentication serves only a device that, at the instant    *)
(* its request was judged at, had kept its domain for longer than the      *)
(* transition window by every observation that was not stale, although     *)
(* requests and observations state their instants in any order and an      *)
(* address may be missing.                                                 *)
THEOREM NoGrantInTransition == BaselineSpec => []SettledBeforeGrant
  <1>1. BaselineInv => SettledBeforeGrant
    BY DEF BaselineInv, SettledBeforeGrant, Settled, Served, InForce, Reaches
  <1>2. QED
    BY <1>1, BaselineInitial, BaselineKeeps, PTL DEF BaselineSpec
=============================================================================
