------------------------ MODULE TransitionCollector ------------------------
(***************************************************************************)
(* TransitionCollector of collectors/transition.py: where each device was  *)
(* last observed, the transitions that makes, and the transition context   *)
(* and rate that the decision pipeline reads.                              *)
(*                                                                         *)
(* A request runs, in this order, observe, context_for,                    *)
(* is_transition_recent and transitions_in_window, all at its own instant, *)
(* which is the clock or the explicit instant the request carries.  Every  *)
(* one of these calls touches the track of the device without a lock; an   *)
(* action is one read or one write of the track, so that the requests of   *)
(* several threads interleave inside observe and inside the pruning loop.  *)
(*                                                                         *)
(* observe assigns the three attributes of the position one after the      *)
(* other; here they are one write.  The event is reduced to what the       *)
(* context reads.  The anomaly counters, the corroborating binding and the *)
(* index of past events are left out: no decision depends on them.         *)
(***************************************************************************)
EXTENDS TransitionRules

CONSTANTS
  Devices,
  Threads,            \* request threads of the service
  Domains,            \* access domains, NR and WLAN
  Addresses,          \* peer addresses
  ExplicitInstants,   \* instants a request may carry in "at"
  MaxClock,           \* bound on the clock
  MaxMoves            \* bound on the accepted changes of one device

ASSUME BoundAssumption ==
  MaxClock \in Nat /\ MaxMoves \in Nat /\ ExplicitInstants \subseteq Nat

(* The service runs its requests in a pool of threads. *)
ASSUME PoolAssumption == IsFiniteSet(Threads)

(* The peer_address of an observation: POST /transitions need not state one. *)
Stated == Addresses \cup {None}

Events == [from : Domains, to : Domains, detected_at : Nat, cross_domain : BOOLEAN]
ASSUME NoneAssumption == None \notin Events /\ None \notin Domains /\ None \notin Nat

VARIABLES
  deployment,   \* one of Deployments, chosen once
  clock,
  position,    \* current_domain, current_address and last_observed_at of each track
  history,     \* the deque of transition instants of each track
  last,        \* last_transition of each track, or None
  pc,
  loc,         \* the request each thread serves and what it has read
  changes,     \* history: the instants of the changes each track has accepted
  latest       \* history: the latest instant any request about a device used

tracks == <<position, history, last>>
vars == <<deployment, clock, tracks, pc, loc, changes, latest>>

NoRequest == [dev |-> None, domain |-> None, address |-> None, now |-> 0, prev |-> NoPosition,
              event |-> None, context |-> None, recent |-> FALSE, return |-> "idle"]

Init == /\ deployment \in Deployments
        /\ clock = 0
        /\ position = [d \in Devices |-> NoPosition]
        /\ history = [d \in Devices |-> << >>]
        /\ last = [d \in Devices |-> None]
        /\ pc = [t \in Threads |-> "idle"]
        /\ loc = [t \in Threads |-> NoRequest]
        /\ changes = [d \in Devices |-> << >>]
        /\ latest = [d \in Devices |-> 0]

Tick == /\ clock < MaxClock
        /\ clock' = clock + 1
        /\ UNCHANGED <<deployment, tracks, pc, loc, changes, latest>>

(* Thread t takes a request up. *)
Starts(t) == /\ pc[t] = "idle"
             /\ deployment = "local" => \A u \in Threads : pc[u] = "idle"

Goto(t, label) == pc' = [pc EXCEPT ![t] = label]

-----------------------------------------------------------------------------
(* observe_detailed *)

(* The requests that may still turn out to be a change of d. *)
Undecided(d) == {t \in Threads : loc[t].dev = d /\ pc[t] \in {"check", "move"}}

(* The bound on the changes: once it is reached, a device is only seen     *)
(* where it is.                                                            *)
WithinBound(d, dom, a) ==
  \/ Len(changes[d]) + Cardinality(Undecided(d)) < MaxMoves
  \/ /\ Undecided(d) = {}
     /\ position[d].domain = dom
     /\ position[d].address = a

Request(t, d, dom, a, now) ==
  /\ Starts(t)
  /\ WithinBound(d, dom, a)
  /\ loc' = [loc EXCEPT ![t] = [NoRequest EXCEPT !.dev = d, !.domain = dom,
                                                 !.address = a, !.now = now]]
  /\ latest' = [latest EXCEPT ![d] = IF now > @ THEN now ELSE @]
  /\ Goto(t, "check")
  /\ UNCHANGED <<deployment, clock, tracks, changes>>

(* GET /devices/{id}/state asks without observing.  It asks for the count  *)
(* before the context; each prunes at the same instant.                    *)
StateQuery(t, d) ==
  /\ Starts(t)
  /\ loc' = [loc EXCEPT ![t] = [NoRequest EXCEPT !.dev = d, !.now = clock]]
  /\ latest' = [latest EXCEPT ![d] = IF clock > @ THEN clock ELSE @]
  /\ Goto(t, "event")
  /\ UNCHANGED <<deployment, clock, tracks, changes>>

(* A stale or duplicate observation leaves the track alone; any other is   *)
(* about to replace the position that was read here.                       *)
ObserveCheck(t) ==
  LET l == loc[t]
      p == position[l.dev]
      rejected == Stale(p, l.now) \/ Duplicate(p, l.domain, l.address, l.now)
  IN /\ pc[t] = "check"
     /\ \/ rejected /\ Goto(t, "event") /\ UNCHANGED loc
        \/ ~rejected /\ Goto(t, "move") /\ loc' = [loc EXCEPT ![t].prev = p]
     /\ UNCHANGED <<deployment, clock, tracks, changes, latest>>

(* Mutant: the instant is appended whether or not the position changed. *)
ObserveMoveAlwaysAppends(t) ==
  LET l == loc[t]
      changed == DomainChanged(l.prev, l.domain) \/ AddressChanged(l.prev, l.domain, l.address)
  IN /\ pc[t] = "move"
     /\ position' = [position EXCEPT ![l.dev] =
                       [domain |-> l.domain, address |-> l.address, at |-> l.now]]
     /\ loc' = [loc EXCEPT ![t].return = "append"]
     /\ changes' = IF changed THEN [changes EXCEPT ![l.dev] = Append(@, l.now)] ELSE changes
     /\ Goto(t, "prune")
     /\ UNCHANGED <<deployment, clock, history, last, latest>>

ObserveMove(t) ==
  LET l == loc[t]
      changed == DomainChanged(l.prev, l.domain) \/ AddressChanged(l.prev, l.domain, l.address)
  IN /\ pc[t] = "move"
     /\ position' = [position EXCEPT ![l.dev] =
                       [domain |-> l.domain, address |-> l.address, at |-> l.now]]
     /\ \/ /\ ~changed
           /\ Goto(t, "event")
           /\ UNCHANGED <<loc, changes>>
        \/ /\ changed
           /\ loc' = [loc EXCEPT ![t].return = "append"]
           /\ changes' = [changes EXCEPT ![l.dev] = Append(@, l.now)]
           /\ Goto(t, "prune")
     /\ UNCHANGED <<deployment, clock, history, last, latest>>

ObserveAppend(t) ==
  LET d == loc[t].dev
  IN /\ pc[t] = "append"
     /\ history' = [history EXCEPT ![d] = Append(@, loc[t].now)]
     /\ Goto(t, "publish")
     /\ UNCHANGED <<deployment, clock, position, last, loc, changes, latest>>

ObservePublish(t) ==
  LET l == loc[t]
  IN /\ pc[t] = "publish"
     /\ last' = [last EXCEPT ![l.dev] = Transition(l.prev, l.domain, l.now)]
     /\ Goto(t, "event")
     /\ UNCHANGED <<deployment, clock, position, history, loc, changes, latest>>

-----------------------------------------------------------------------------
(* _prune_history: while history and history[0] < cutoff: popleft().  The  *)
(* test and the popleft are separate operations on the shared deque.       *)

PruneTest(t) ==
  /\ pc[t] = "prune"
  /\ Goto(t, IF Old(history[loc[t].dev], loc[t].now) THEN "pop" ELSE loc[t].return)
  /\ UNCHANGED <<deployment, clock, tracks, loc, changes, latest>>

(* popleft of a deque another thread has emptied raises IndexError. *)
PrunePop(t) ==
  LET d == loc[t].dev
  IN /\ pc[t] = "pop"
     /\ \/ /\ history[d] # << >>
           /\ history' = [history EXCEPT ![d] = Tail(@)]
           /\ Goto(t, "prune")
           /\ UNCHANGED loc
        \/ /\ history[d] = << >>
           /\ loc' = [loc EXCEPT ![t] = NoRequest]
           /\ Goto(t, "idle")
           /\ UNCHANGED history
     /\ UNCHANGED <<deployment, clock, position, last, changes, latest>>

-----------------------------------------------------------------------------
(* context_for, is_transition_recent and transitions_in_window *)

(* context_for reads the event; outside the window the context is NONE. *)
ContextEvent(t) ==
  LET e == last[loc[t].dev]
  IN /\ pc[t] = "event"
     /\ \/ /\ Recent(e, loc[t].now)
           /\ loc' = [loc EXCEPT ![t].event = e, ![t].return = "context"]
           /\ Goto(t, "prune")
        \/ /\ ~Recent(e, loc[t].now)
           /\ loc' = [loc EXCEPT ![t].context = "NONE"]
           /\ Goto(t, "recent")
     /\ UNCHANGED <<deployment, clock, tracks, changes, latest>>

ContextCount(t) ==
  /\ pc[t] = "context"
  /\ loc' = [loc EXCEPT ![t].context = ContextOf(loc[t].event, Len(history[loc[t].dev]))]
  /\ Goto(t, "recent")
  /\ UNCHANGED <<deployment, clock, tracks, changes, latest>>

ReadRecent(t) ==
  /\ pc[t] = "recent"
  /\ loc' = [loc EXCEPT ![t].recent = Recent(last[loc[t].dev], loc[t].now),
                        ![t].return = "count"]
  /\ Goto(t, "prune")
  /\ UNCHANGED <<deployment, clock, tracks, changes, latest>>

(* The length read here is what C8 compares with its limit; the request ends. *)
ReadCount(t) ==
  /\ pc[t] = "count"
  /\ loc' = [loc EXCEPT ![t] = NoRequest]
  /\ Goto(t, "idle")
  /\ UNCHANGED <<deployment, clock, tracks, changes, latest>>

-----------------------------------------------------------------------------
Step(t) ==
  \/ \E d \in Devices, dom \in Domains, a \in Stated, now \in {clock} \cup ExplicitInstants :
       Request(t, d, dom, a, now)
  \/ \E d \in Devices : StateQuery(t, d)
  \/ ObserveCheck(t) \/ ObserveMove(t) \/ ObserveAppend(t) \/ ObservePublish(t)
  \/ PruneTest(t) \/ PrunePop(t)
  \/ ContextEvent(t) \/ ContextCount(t) \/ ReadRecent(t) \/ ReadCount(t)

Next == Tick \/ \E t \in Threads : Step(t)

Spec == Init /\ [][Next]_vars

-----------------------------------------------------------------------------
Labels == {"idle", "check", "move", "prune", "pop", "append", "publish", "event",
           "context", "recent", "count"}

(* Where _prune_history goes on once it has left its loop. *)
Callers == {"append", "context", "count"}

Positions == [domain : Domains \cup {None}, address : Addresses \cup {None}, at : Nat \cup {None}]

Requests == [dev : Devices \cup {None}, domain : Domains \cup {None},
             address : Addresses \cup {None}, now : Nat, prev : Positions,
             event : Events \cup {None}, context : TransitionContexts \cup {None},
             recent : BOOLEAN, return : Callers \cup {"idle"}]

(* Whether thread t is at one of the labels, or in the pruning loop that   *)
(* leads there.                                                            *)
Before(t, labels) ==
  pc[t] \in labels \/ (pc[t] \in {"prune", "pop"} /\ loc[t].return \in labels)

(* What a thread needs where it is. *)
RequestOK(t) ==
  /\ pc[t] # "idle" => loc[t].dev \in Devices
  /\ pc[t] \in {"prune", "pop"} => loc[t].return \in Callers
  /\ Before(t, {"check", "move", "append", "publish"}) => loc[t].domain \in Domains
                                                         /\ loc[t].address \in Stated
  /\ Before(t, {"append", "publish"}) => loc[t].prev.domain \in Domains
  /\ Before(t, {"context"}) => loc[t].event \in Events

(* The tracks and the requests have the declared shapes. *)
TypeOK ==
  /\ deployment \in Deployments
  /\ clock \in Nat
  /\ position \in [Devices -> Positions]
  /\ history \in [Devices -> Seq(Nat)]
  /\ last \in [Devices -> Events \cup {None}]
  /\ changes \in [Devices -> Seq(Nat)]
  /\ latest \in [Devices -> Nat]
  /\ pc \in [Threads -> Labels]
  /\ loc \in [Threads -> Requests]
  /\ \A t \in Threads : RequestOK(t)

(* Which of the accepted changes of d no request may forget: those within  *)
(* the rate window of the latest instant used for d.                       *)
InWindow(d) == {k \in DOMAIN changes[d] : changes[d][k] >= latest[d] - RateWindow}

(* The count C8 compares with its limit is, in a single process, the       *)
(* number of accepted changes within the window that ends at the latest    *)
(* instant used for the device, as a declarative definition gives it.      *)
(* With threads a count may fall between a move and its append, and of two *)
(* prunings the second pops an empty deque: its move is never counted.     *)
CountExact ==
  \A t \in Threads :
    deployment = "local" /\ pc[t] = "count" /\ loc[t].now = latest[loc[t].dev] =>
      Len(history[loc[t].dev]) = Cardinality(InWindow(loc[t].dev))

(* However requests interleave, the collector invents nothing: every       *)
(* instant the rate counts, and the last transition the context is derived *)
(* from, belong to changes that observe accepted, each counted at most     *)
(* once per accepted change.                                               *)
Times(s, i) == Cardinality({k \in DOMAIN s : s[k] = i})
NoPhantomTransition ==
  \A d \in Devices :
    /\ \A k \in DOMAIN history[d] :
         Times(history[d], history[d][k]) <= Times(changes[d], history[d][k])
    /\ last[d] # None => Times(changes[d], last[d].detected_at) > 0

(* "A replayed or reordered event must never move a device into a more     *)
(* permissive context": in a single process the last transition a device   *)
(* is judged by is never replaced by an older one, which the window would  *)
(* forget sooner.  Of two concurrent requests the older may publish last.  *)
LastTransitionNotReplacedByOlder ==
  [][deployment = "local" => \A d \in Devices : last[d] # None =>
        last'[d].detected_at >= last[d].detected_at]_vars
=============================================================================
