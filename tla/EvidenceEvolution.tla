------------------------- MODULE EvidenceEvolution --------------------------
(***************************************************************************)
(* The evidence one device is judged by, as it changes from one decision   *)
(* to the next, one observation at a time.  Every combination of           *)
(* observations is reachable: under concurrent requests the transition     *)
(* context and C7 are read from different transitions, so nothing ties     *)
(* them to each other here.                                                *)
(***************************************************************************)
EXTENDS TrustPolicy

CONSTANTS
  Instants,   \* when proofs are verified and bindings seen and expire
  Counts      \* transition and failure counts

ASSUME InstantsAssumption == Instants \subseteq Nat /\ Counts \subseteq Nat

VARIABLES ev, context

evidenceVars == <<ev, context>>

Identities == {"ACTIVE", "SUSPENDED", "REVOKED", None}

ObservedBindings == [last_seen : Instants, expires_at : Instants \cup {None}, posture : BOOLEAN]

ASSUME BindingAssumption == None \notin ObservedBindings

Evidence == [at : Instants, identity : Identities, pop : Instants \cup {None},
             binding : ObservedBindings \cup {None}, consistent : BOOLEAN,
             recent : BOOLEAN, count : Counts, failures : Counts, session : BOOLEAN]

(* An unknown device: nothing observed yet. *)
EvidenceInit ==
  /\ \E i \in Instants, n \in Counts :
       ev = [at |-> i, identity |-> None, pop |-> None, binding |-> None,
             consistent |-> TRUE, recent |-> FALSE, count |-> n, failures |-> n,
             session |-> TRUE]
  /\ context = "NONE"

IdentityChanges == /\ \E i \in Identities : ev' = [ev EXCEPT !.identity = i]
                   /\ UNCHANGED context

ProofChanges == /\ \E p \in Instants \cup {None} : ev' = [ev EXCEPT !.pop = p]
                /\ UNCHANGED context

(* Without a binding the claim is consistent. *)
BindingChanges ==
  /\ \E b \in ObservedBindings \cup {None}, c \in BOOLEAN :
       /\ b = None => c
       /\ ev' = [ev EXCEPT !.binding = b, !.consistent = c]
  /\ UNCHANGED context

TransitionChanges == \E r \in BOOLEAN, n \in Counts, c \in TransitionContexts :
                       /\ ev' = [ev EXCEPT !.recent = r, !.count = n]
                       /\ context' = c

SecurityChanges == /\ \E n \in Counts, s \in BOOLEAN :
                        ev' = [ev EXCEPT !.failures = n, !.session = s]
                   /\ UNCHANGED context

TimePasses == /\ \E i \in Instants : i > ev.at /\ ev' = [ev EXCEPT !.at = i]
              /\ UNCHANGED context

EvidenceNext == \/ IdentityChanges \/ ProofChanges \/ BindingChanges
                \/ TransitionChanges \/ SecurityChanges \/ TimePasses

EvidenceSpec == EvidenceInit /\ [][EvidenceNext]_evidenceVars

-----------------------------------------------------------------------------
(* The observations have the declared shapes. *)
EvidenceTypeOK == ev \in Evidence /\ context \in TransitionContexts

(* Full scope is granted exactly on complete evidence: the six ordered     *)
(* rules, each of which may mask a later one, and the first-match lookup   *)
(* in the matrix let nothing through that the declarative definition       *)
(* excludes, and hold nothing back that it includes.                       *)
FullScopeIffComplete ==
  Outcome(ev, context).action = "ALLOW" <=> CompleteEvidence(ev) /\ context \in Calm

(* A step-up answers missing evidence only: a fresh proof never changes    *)
(* the decision of a device whose evidence is contradictory or whose       *)
(* identity is not valid ("a step-up cannot grant anything the trust       *)
(* engine would not grant on its own").                                    *)
ProofNeverOverridesContradiction ==
  TrustState(ev) \in {"UNKNOWN", "UNTRUSTED", "SUSPICIOUS"} =>
    Outcome([ev EXCEPT !.pop = ev.at], context) = Outcome(ev, context)

(* Worse evidence never opens a production topic: whatever rule masks      *)
(* which, an observation that ages, disappears or turns adverse leaves the *)
(* device with at most the production topics it could reach before.        *)
WorseEvidenceNeverWidens ==
  [][NoBetter(ev, ev') /\ ContextNoBetter(context, context') =>
        Opens(ev', context') \subseteq Opens(ev, context)]_evidenceVars
=============================================================================
