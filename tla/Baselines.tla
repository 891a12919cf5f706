----------------------------- MODULE Baselines ------------------------------
(***************************************************************************)
(* The two baseline strategies CA-ZTCF is compared with, over the same     *)
(* registry, proof store, transition tracks, counters and enforcement      *)
(* point: independent authentication (strategies/independent.py) and       *)
(* static continuity (strategies/static_continuity.py).                    *)
(*                                                                         *)
(* A request names its strategy, so both may serve a device in turn.       *)
(* Neither reads a binding, and both decide by the matrix alone            *)
(* (PolicyEvaluator.direct), which dates the decision by the clock: the    *)
(* instant a request states dates only what it is judged by.               *)
(***************************************************************************)
EXTENDS DecisionPipeline

CONSTANT TokenTtl    \* token_ttl_s of the static_continuity strategy

ASSUME TokenAssumption == TokenTtl \in Nat

VARIABLES
  tokens,     \* StaticContinuityStrategy._tokens, with how far ahead each was issued as history
  movedAt,    \* history: the instant at which each device was last seen to change its domain
  provenIn,   \* history: the domain each device last proved its key in
  answered,   \* history: the state and the context the last decision was looked up with
  basis       \* history: what the last decision was granted on

evidence == <<tokens, movedAt, provenIn, answered, basis>>
baselineVars == <<vars, evidence>>

BaselineInit == /\ Init
                /\ tokens = [d \in Devices |-> None]
                /\ movedAt = [d \in Devices |-> None]
                /\ provenIn = [d \in Devices |-> None]
                /\ answered = [d \in Devices |-> None]
                /\ basis = [d \in Devices |-> None]

-----------------------------------------------------------------------------
(* Mutant: a token is honoured an instant too long. *)
TokenValidLate(d, now) == tokens[d] # None /\ now <= tokens[d].expires_at + 1

(* SessionToken.is_valid *)
TokenValid(d, now) == tokens[d] # None /\ now <= tokens[d].expires_at

TokenIssued(now) == [expires_at |-> now + TokenTtl, ahead |-> Ahead(now)]

(* An observation that is not stale shows the device in another domain. *)
Moves(d, dom, now) == ~Stale(track[d].position, now) /\ DomainChanged(track[d].position, dom)

(* The presented proof is verified and recorded, or the stored one looked  *)
(* up.  Only a decision that gets as far as the proof authenticates.       *)
Authenticate(d, dom, verdict, now) ==
  /\ verified' = IF verdict = "invalid" THEN verified
                 ELSE [verified EXCEPT ![d] = ProofOf(d, verdict, now)]
  /\ failures' = IF verdict = "invalid"
                 THEN [failures EXCEPT ![d] = PrunedBy(Append(@, now), now - FailureWindow)]
                 ELSE failures
  /\ provenAt' = IF verdict = "valid" THEN [provenAt EXCEPT ![d] = clock] ELSE provenAt
  /\ provenIn' = IF verdict = "valid" THEN [provenIn EXCEPT ![d] = dom] ELSE provenIn

NoAuthentication == UNCHANGED <<verified, failures, provenAt, provenIn>>

(* PolicyEvaluator.direct, and pep.apply on what it returns. *)
Direct(d, state, context) ==
  LET outcome == Lookup(state, context)
  IN /\ active' = [active EXCEPT ![d] = Installed(
                     [action |-> outcome.action, scope |-> outcome.scope, created_at |-> clock,
                      ahead |-> 0, binding |-> None, seen |-> None])]
     /\ answered' = [answered EXCEPT ![d] = [state |-> state, context |-> context]]

(* What the decision is granted on: the instant it was judged at, and by   *)
(* how much instants other than the clock stretch what it rests on.        *)
GrantedOn(d, strategy, dom, now, slack) ==
  basis' = [basis EXCEPT ![d] = [strategy |-> strategy, domain |-> dom, moved |-> movedAt'[d],
                                 judged |-> now, slack |-> slack]]

(* Both strategies observe the position first. *)
Observe(d, dom, now) ==
  movedAt' = IF Moves(d, dom, now) THEN [movedAt EXCEPT ![d] = now] ELSE movedAt

-----------------------------------------------------------------------------
(* IndependentAuthenticationStrategy.decide *)
Independent(d, a, declared, verdict, now) ==
  LET dom == RequestDomain(a, declared)
      tr == Observed(track[d], dom, a, now)
      recent == Recent(tr.last, now)
      context == ContextFor(tr, now)
      pop == ProofOf(d, verdict, now)
  IN /\ Observe(d, dom, now)
     /\ track' = [track EXCEPT ![d] = IF recent THEN Counted(tr, now) ELSE tr]
     /\ GrantedOn(d, "independent", dom, now, Behind(now))
     /\ \/ /\ status[d] = None
           /\ Direct(d, "UNKNOWN", context) /\ NoAuthentication
        \/ /\ status[d] \notin {None, "ACTIVE"}
           /\ Direct(d, "UNTRUSTED", context) /\ NoAuthentication
        \/ /\ status[d] = "ACTIVE" /\ recent
           /\ Direct(d, "SUSPICIOUS", "NONE") /\ NoAuthentication
        \/ /\ status[d] = "ACTIVE" /\ ~recent
           /\ Authenticate(d, dom, verdict, now)
           /\ IF pop # None /\ IsFresh(pop, now, ProofTtl)
              THEN Direct(d, "STABLE", "NONE")
              ELSE Direct(d, "DEGRADED", context)
     /\ Len(track'[d].history) <= MaxHistory /\ Len(failures'[d]) <= MaxHistory
     /\ UNCHANGED <<clock, status, store, nextId, decided, activeAt, tokens>>

(* StaticContinuityStrategy.decide *)
StaticContinuity(d, a, declared, verdict, now) ==
  LET dom == RequestDomain(a, declared)
      pop == ProofOf(d, verdict, now)
      lead == IF TokenValid(d, now) THEN tokens[d].ahead ELSE 0
  IN /\ Observe(d, dom, now)
     /\ track' = [track EXCEPT ![d] = Observed(@, dom, a, now)]
     /\ GrantedOn(d, "static_continuity", dom, now, Behind(now) + lead)
     /\ \/ /\ TokenValid(d, now)
           /\ Direct(d, "STABLE", "NONE") /\ NoAuthentication /\ UNCHANGED tokens
        \/ /\ ~TokenValid(d, now) /\ status[d] # "ACTIVE"
           /\ Direct(d, IF status[d] = None THEN "UNKNOWN" ELSE "UNTRUSTED", "NONE")
           /\ NoAuthentication
           /\ tokens' = [tokens EXCEPT ![d] = None]
        \/ /\ ~TokenValid(d, now) /\ status[d] = "ACTIVE"
           /\ Authenticate(d, dom, verdict, now)
           /\ Direct(d, IF pop # None THEN "STABLE" ELSE "DEGRADED", "NONE")
           /\ tokens' = [tokens EXCEPT ![d] = IF pop # None THEN TokenIssued(now) ELSE None]
     /\ Len(track'[d].history) <= MaxHistory /\ Len(failures'[d]) <= MaxHistory
     /\ UNCHANGED <<clock, status, store, nextId, decided, activeAt>>

-----------------------------------------------------------------------------
(* A position reported by POST /transitions. *)
ObservedElsewhere(d, dom, a, now) ==
  /\ ObserveTransition(d, dom, a, now)
  /\ Observe(d, dom, now)
  /\ UNCHANGED <<tokens, provenIn, answered, basis>>

BaselineNext ==
  \/ Tick /\ UNCHANGED evidence
  \/ \E d \in Devices :
       \/ Register(d) /\ UNCHANGED evidence
       \/ \E s \in Statuses : SetStatus(d, s) /\ UNCHANGED evidence
       \/ ActiveDecision(d) /\ UNCHANGED evidence
       \/ \E a \in Stated, dom \in Domains, at \in Dates :
            ObservedElsewhere(d, dom, a, Instant(at))
       \/ \E a \in Addresses, declared \in DeclaredDomains, verdict \in Verdicts,
             at \in Dates :
            \/ Independent(d, a, declared, verdict, Instant(at))
            \/ StaticContinuity(d, a, declared, verdict, Instant(at))

BaselineSpec == BaselineInit /\ [][BaselineNext]_baselineVars

-----------------------------------------------------------------------------
Bases == [strategy : {"independent", "static_continuity"}, domain : Domains,
          moved : Nat \cup {None}, judged : Nat, slack : Nat]

Tokens == [expires_at : Nat, ahead : Nat]

Answers == [state : TrustStates, context : TransitionContexts]

(* The stores hold what the components declare, and a decision that is     *)
(* installed was granted on something.                                     *)
BaselineTypeOK ==
  /\ TypeOK
  /\ tokens \in [Devices -> Tokens \cup {None}]
  /\ movedAt \in [Devices -> Nat \cup {None}]
  /\ provenIn \in [Devices -> Domains \cup {None}]
  /\ answered \in [Devices -> Answers \cup {None}]
  /\ basis \in [Devices -> Bases \cup {None}]
  /\ \A d \in Devices : active[d] # None => basis[d] \in Bases

(* The implicit trust of static continuity has a bound.  A token is        *)
(* honoured without a look at the registry or at the proof, so a device    *)
(* may be served that was ACTIVE, and had proven its key, longer ago by    *)
(* the lifetime of the token; independent authentication adds nothing to   *)
(* the lifetime of its decision.  A request dated back makes older tokens  *)
(* and proofs count, one dated ahead issues a token that lasts longer; the *)
(* bound grows by that lag and that lead, and by no more.                  *)
BaselineStaleness ==
  \A d \in Devices : Served(d) =>
    LET token == IF basis[d].strategy = "static_continuity" THEN TokenTtl ELSE 0
        life == Ttl[active[d].action] + token + basis[d].slack
    IN /\ activeAt[d] # None /\ clock <= activeAt[d] + life
       /\ provenAt[d] # None /\ clock <= provenAt[d] + ProofTtl + life

(* "Any detected transition requires a full re-authentication": what       *)
(* independent authentication serves, it serves to a device that, at the   *)
(* instant its request was judged at, had kept its domain for longer than  *)
(* the transition window, by all observations that were not stale.  It     *)
(* says nothing of addresses, for an observation without one hides the     *)
(* next change of address.                                                 *)
SettledBeforeGrant ==
  \A d \in Devices : Served(d) /\ basis[d].strategy = "independent" =>
    \/ basis[d].moved = None
    \/ basis[d].judged > basis[d].moved + TransitionWindow

-----------------------------------------------------------------------------
(* What the documentation says and the code does not keep; the README      *)
(* tells the behaviours that show it.                                      *)

(* "Trust obtained in one access domain is never reused": independent      *)
(* authentication serves a device in the domain its key was proven in.     *)
TrustNeverReused ==
  \A d \in Devices : Served(d) /\ basis[d].strategy = "independent" =>
                       basis[d].domain = provenIn[d]
=============================================================================
