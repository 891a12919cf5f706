--------------------------- MODULE TransitionRules --------------------------
(***************************************************************************)
(* The pure part of collectors/transition.py: when an observation is       *)
(* rejected, when it is a transition, how long a transition counts, and    *)
(* the context that follows.                                               *)
(***************************************************************************)
EXTENDS Integers, Sequences, FiniteSets, Vocabulary

CONSTANTS
  RateWindow,         \* transition.rate_window_s
  RepeatThreshold,    \* transition.repeat_threshold
  TransitionWindow    \* transition.transition_window_s

ASSUME WindowAssumption ==
  RateWindow \in Nat /\ RepeatThreshold \in Nat /\ TransitionWindow \in Nat

(* current_domain, current_address and last_observed_at of a new track. *)
NoPosition == [domain |-> None, address |-> None, at |-> None]

(* Mutant: an observation of any age is taken. *)
NeverStale(p, now) == FALSE

Stale(p, now) == p.at # None /\ now < p.at

Duplicate(p, dom, a, now) == p = [domain |-> dom, address |-> a, at |-> now]

DomainChanged(prev, dom) == prev.domain # None /\ prev.domain # dom

(* An observation may lack the address, and one without an address replaces *)
(* the last one known: the next address is then no change.                  *)
AddressChanged(prev, dom, a) ==
  prev.domain = dom /\ prev.address # None /\ a # None /\ prev.address # a

(* The TransitionEvent of a change, reduced to what the context reads. *)
Transition(prev, dom, now) ==
  [from |-> prev.domain, to |-> dom, detected_at |-> now,
   cross_domain |-> DomainChanged(prev, dom)]

(* Mutant: the first instant of the window is pruned too. *)
OldAtBoundary(h, now) == h # << >> /\ Head(h) <= now - RateWindow

(* _prune_history pops the head while it lies before the window. *)
Old(h, now) == h # << >> /\ Head(h) < now - RateWindow

(* What a whole pruning loop leaves: h from its first instant that is not  *)
(* before the cutoff on.                                                   *)
PrunedBy(h, cutoff) ==
  LET kept == {i \in DOMAIN h : \E j \in 1..i : h[j] >= cutoff}
  IN SubSeq(h, Len(h) - Cardinality(kept) + 1, Len(h))

(* Mutant: a transition at the edge of the rate window no longer counts. *)
PrunedAtEdge(h, now) == PrunedBy(h, now - RateWindow + 1)

Pruned(h, now) == PrunedBy(h, now - RateWindow)

(* Mutant: the last instant of the window no longer counts. *)
RecentStrict(event, now) == event # None /\ now - event.detected_at < TransitionWindow

Recent(event, now) == event # None /\ now - event.detected_at <= TransitionWindow

(* context_for, for an event within the window and the count of the pruned *)
(* history.                                                                *)
ContextOf(event, count) ==
  IF count >= RepeatThreshold THEN "REPEATED"
  ELSE IF ~event.cross_domain THEN "INTRA"
  ELSE IF event.from = "NR" /\ event.to = "WLAN" THEN "NR_TO_WLAN"
  ELSE IF event.from = "WLAN" /\ event.to = "NR" THEN "WLAN_TO_NR"
  ELSE "INTRA"
=============================================================================
