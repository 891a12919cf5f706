-------------------------- MODULE EnforcementPoint --------------------------
(***************************************************************************)
(* MemoryPEP of enforcement/memory_pep.py: one active decision per device, *)
(* the last decision kept for its reason, and check.                       *)
(*                                                                         *)
(* Requests that decide (POST /decisions/evaluate and step-up) call        *)
(* pep.apply after the strategy has returned; requests that ask call       *)
(* active_decision or check; revoke drops a grant.  The threads of the     *)
(* HTTP service share the two dictionaries without a lock: an action is    *)
(* one dictionary operation, with the clock read that goes with it.  What  *)
(* a decision decides is left to DecisionPipeline: here it is any action.  *)
(* Scopes are in TrustPolicy.                                              *)
(***************************************************************************)
EXTENDS Integers, Vocabulary

CONSTANTS
  Devices,
  Threads,        \* request threads of the service
  Actions,        \* policy actions in use
  Terminating,    \* TERMINATING_ACTIONS
  Ttl,            \* policy.ttl_ms, by action
  MaxClock,       \* bound on the clock
  MaxDecisions    \* bound on the number of decisions made

ASSUME EnforcementAssumption ==
  /\ Terminating \subseteq Actions
  /\ Ttl \in [Actions -> Nat]
  /\ MaxClock \in Nat /\ MaxDecisions \in Nat

Decisions == [device : Devices, action : Actions, created_at : Nat, number : Nat]

ASSUME NoneAssumption == None \notin Decisions

VARIABLES
  deployment,   \* one of Deployments, chosen once
  clock,
  decisions,    \* _decisions; None where the device has no entry
  last,         \* _last; None where the device has no entry
  pc,
  loc,          \* the decision a thread applies, or has read
  answer,       \* what the last check of each device was told
  made,         \* history: how many decisions have been made
  denied,       \* history: the number of the last denial applied to each device
  revoked       \* history: the numbers of the decisions revoked

vars == <<deployment, clock, decisions, last, pc, loc, answer, made, denied, revoked>>

NoLocals == [dev |-> None, dec |-> None]

Init == /\ deployment \in Deployments
        /\ clock = 0
        /\ decisions = [d \in Devices |-> None]
        /\ last = [d \in Devices |-> None]
        /\ pc = [t \in Threads |-> "idle"]
        /\ loc = [t \in Threads |-> NoLocals]
        /\ answer = [d \in Devices |-> None]
        /\ made = 0
        /\ denied = [d \in Devices |-> 0]
        /\ revoked = {}

Tick == /\ clock < MaxClock
        /\ clock' = clock + 1
        /\ UNCHANGED <<deployment, decisions, last, pc, loc, answer, made, denied, revoked>>

(* Thread t takes a request up. *)
Starts(t) == /\ pc[t] = "idle"
             /\ deployment = "local" => \A u \in Threads : pc[u] = "idle"

Goto(t, label, l) == /\ pc' = [pc EXCEPT ![t] = label]
                     /\ loc' = [loc EXCEPT ![t] = l]

-----------------------------------------------------------------------------
(* apply *)

Decide(t, d, a) ==
  /\ Starts(t)
  /\ made < MaxDecisions
  /\ made' = made + 1
  /\ Goto(t, "apply", [dev |-> d, dec |-> [device |-> d, action |-> a, created_at |-> clock,
                                           number |-> made + 1]])
  /\ UNCHANGED <<deployment, clock, decisions, last, answer, denied, revoked>>

Terminates(dec) == dec.action \in Terminating

(* Mutant: a terminating decision installs nothing and drops nothing. *)
ApplyKeepsPriorGrant(t) ==
  LET dec == loc[t].dec
  IN /\ pc[t] = "apply"
     /\ \/ /\ Terminates(dec)
           /\ denied' = [denied EXCEPT ![dec.device] = IF dec.number > @ THEN dec.number ELSE @]
           /\ UNCHANGED decisions
        \/ /\ ~Terminates(dec)
           /\ decisions' = [decisions EXCEPT ![dec.device] = dec]
           /\ UNCHANGED denied
     /\ Goto(t, "last", loc[t])
     /\ UNCHANGED <<deployment, clock, last, answer, made, revoked>>

(* A terminating decision drops the grant, any other replaces it. *)
ApplyGrant(t) ==
  LET dec == loc[t].dec
  IN /\ pc[t] = "apply"
     /\ \/ /\ Terminates(dec)
           /\ decisions' = [decisions EXCEPT ![dec.device] = None]
           /\ denied' = [denied EXCEPT ![dec.device] = IF dec.number > @ THEN dec.number ELSE @]
        \/ /\ ~Terminates(dec)
           /\ decisions' = [decisions EXCEPT ![dec.device] = dec]
           /\ UNCHANGED denied
     /\ Goto(t, "last", loc[t])
     /\ UNCHANGED <<deployment, clock, last, answer, made, revoked>>

ApplyLast(t) ==
  /\ pc[t] = "last"
  /\ last' = [last EXCEPT ![loc[t].dev] = loc[t].dec]
  /\ Goto(t, "idle", NoLocals)
  /\ UNCHANGED <<deployment, clock, decisions, answer, made, denied, revoked>>

(* revoke drops the grant and leaves the last decision as it is. *)
Revoke(t, d) ==
  /\ Starts(t)
  /\ decisions[d] # None
  /\ decisions' = [decisions EXCEPT ![d] = None]
  /\ revoked' = revoked \cup {decisions[d].number}
  /\ UNCHANGED <<deployment, clock, last, pc, loc, answer, made, denied>>

-----------------------------------------------------------------------------
(* active_decision and check *)

CheckGet(t, d) ==
  /\ Starts(t)
  /\ Goto(t, IF decisions[d] = None THEN "refuse" ELSE "expiry",
          [dev |-> d, dec |-> decisions[d]])
  /\ UNCHANGED <<deployment, clock, decisions, last, answer, made, denied, revoked>>

IsExpired(dec, now) == Ttl[dec.action] <= 0 \/ now > dec.created_at + Ttl[dec.action]

(* Mutant: the last instant of a decision's life counts as expired. *)
CheckExpiryEarly(t) ==
  LET l == loc[t]
  IN /\ pc[t] = "expiry"
     /\ \/ /\ IsExpired(l.dec, clock + 1)
           /\ Goto(t, "del", l)
           /\ UNCHANGED answer
        \/ /\ ~IsExpired(l.dec, clock + 1)
           /\ answer' = [answer EXCEPT ![l.dev] = "UNDER_DECISION"]
           /\ Goto(t, "idle", NoLocals)
     /\ UNCHANGED <<deployment, clock, decisions, last, made, denied, revoked>>

(* Unexpired: the request is answered by the scope of the decision. *)
CheckExpiry(t) ==
  LET l == loc[t]
  IN /\ pc[t] = "expiry"
     /\ \/ /\ IsExpired(l.dec, clock)
           /\ Goto(t, "del", l)
           /\ UNCHANGED answer
        \/ /\ ~IsExpired(l.dec, clock)
           /\ answer' = [answer EXCEPT ![l.dev] = "UNDER_DECISION"]
           /\ Goto(t, "idle", NoLocals)
     /\ UNCHANGED <<deployment, clock, decisions, last, made, denied, revoked>>

(* del removes whatever is there by now; when nothing is, KeyError ends    *)
(* the request without an answer.                                          *)
CheckDel(t) ==
  LET l == loc[t]
  IN /\ pc[t] = "del"
     /\ decisions' = [decisions EXCEPT ![l.dev] = None]
     /\ IF decisions[l.dev] = None THEN Goto(t, "idle", NoLocals)
        ELSE Goto(t, "refuse", [l EXCEPT !.dec = None])
     /\ UNCHANGED <<deployment, clock, last, answer, made, denied, revoked>>

ReasonFor(dec) == IF dec = None THEN "NO_ACTIVE_DECISION"
                  ELSE IF Terminates(dec) THEN "ACTION"
                  ELSE "DECISION_EXPIRED"

CheckRefuse(t) ==
  /\ pc[t] = "refuse"
  /\ answer' = [answer EXCEPT ![loc[t].dev] = ReasonFor(last[loc[t].dev])]
  /\ Goto(t, "idle", NoLocals)
  /\ UNCHANGED <<deployment, clock, decisions, last, made, denied, revoked>>

-----------------------------------------------------------------------------
Step(t) ==
  \/ \E d \in Devices : CheckGet(t, d) \/ Revoke(t, d) \/ \E a \in Actions : Decide(t, d, a)
  \/ ApplyGrant(t) \/ ApplyLast(t)
  \/ CheckExpiry(t) \/ CheckDel(t) \/ CheckRefuse(t)

Next == Tick \/ \E t \in Threads : Step(t)

Spec == Init /\ [][Next]_vars

-----------------------------------------------------------------------------
Answers == {"UNDER_DECISION", "NO_ACTIVE_DECISION", "ACTION", "DECISION_EXPIRED"}

Labels == {"idle", "apply", "last", "expiry", "del", "refuse"}
Locals == [dev : Devices \cup {None}, dec : Decisions \cup {None}]

StoreOK ==
  /\ deployment \in Deployments
  /\ clock \in Nat /\ made \in Nat /\ revoked \subseteq 1..made
  /\ decisions \in [Devices -> Decisions \cup {None}]
  /\ last \in [Devices -> Decisions \cup {None}]
  /\ answer \in [Devices -> Answers \cup {None}]
  /\ denied \in [Devices -> 0..made]
  /\ \A d \in Devices :
       /\ decisions[d] # None => decisions[d].device = d /\ ~Terminates(decisions[d])
       /\ decisions[d] # None => decisions[d].number \in 1..made
       /\ last[d] # None => last[d].device = d

(* A thread at a label holds what its next step uses. *)
Holds(label, l) ==
  /\ label # "idle" => l.dev \in Devices
  /\ label \in {"apply", "last", "expiry", "del"} => l.dec \in Decisions
  /\ label \in {"apply", "last"} => l.dec.device = l.dev
  /\ label = "apply" => l.dec.number \in 1..made

ThreadsOK ==
  /\ pc \in [Threads -> Labels]
  /\ loc \in [Threads -> Locals]
  /\ \A t \in Threads : Holds(pc[t], loc[t])

(* The dictionaries hold decisions about their own keys, only              *)
(* non-terminating ones are ever installed, and a thread holds what its    *)
(* next step uses.                                                         *)
TypeOK == StoreOK /\ ThreadsOK

(* "No session may continue past a denial or a re-authentication           *)
(* requirement": in a single process, once a terminating decision has been *)
(* applied, no decision made before it is installed.  Two threads may      *)
(* apply their decisions in the opposite order.                            *)
DenialStands ==
  deployment = "local" => \A d \in Devices : decisions[d] # None => decisions[d].number > denied[d]

(* A decision whose lifetime has elapsed is treated as absent, and no      *)
(* other: in a single process one that is not expired, overruled or        *)
(* revoked stays installed.  With threads active_decision may delete the   *)
(* decision applied since it looked.                                       *)
LiveDecisionKept ==
  [][deployment = "local" => \A d \in Devices : (decisions[d] # None /\ decisions'[d] = None) =>
        \/ IsExpired(decisions[d], clock)
        \/ denied'[d] # denied[d]
        \/ decisions[d].number \in revoked']_vars
=============================================================================
