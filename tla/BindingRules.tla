---------------------------- MODULE BindingRules ----------------------------
(***************************************************************************)
(* The pure part of BindingStore in collectors/base.py: what a refresh, an *)
(* expiry test and a claim make of the binding they are given.             *)
(*                                                                         *)
(* A binding is a record with at least the fields id, domain, device_ref   *)
(* and expires_at; the other fields (last_seen, and the posture attributes *)
(* where a module has them) come from the newest event.  source,           *)
(* source_mode and first_seen are left out: no decision reads them.        *)
(***************************************************************************)
EXTENDS Integers, Vocabulary

(* expires_at is None when the event stated no lifetime. *)
Expiry(observed, lifetime) == IF lifetime = None THEN None ELSE observed + lifetime

IsExpired(b, now) == b.expires_at # None /\ now > b.expires_at

(* BindingStore.get: an expired binding is as good as none, though it stays *)
(* in the dictionary.                                                       *)
Live(b, now) == IF b # None /\ ~IsExpired(b, now) THEN b ELSE None

(* Mutant: a refresh forgets the attribution. *)
MergedUnattributed(new, existing) ==
  IF existing # None /\ existing.domain = new.domain
  THEN [new EXCEPT !.id = existing.id]
  ELSE new

(* Mutant: the attribution follows the address into the other domain. *)
MergedAcrossDomains(new, existing) ==
  IF existing = None THEN new
  ELSE IF existing.domain = new.domain
       THEN [new EXCEPT !.id = existing.id, !.device_ref = existing.device_ref]
       ELSE [new EXCEPT !.device_ref = existing.device_ref]

(* A refresh within the domain keeps identity and attribution, whether the *)
(* existing binding has expired or not; a binding of the other             *)
(* domain is replaced.  Collectors never attribute what they build.        *)
Merged(new, existing) ==
  IF existing # None /\ existing.domain = new.domain
  THEN [new EXCEPT !.id = existing.id, !.device_ref = existing.device_ref]
  ELSE new

Claimed(b, d) == [b EXCEPT !.device_ref = d]

(* What claim answers besides the binding. *)
Consistent(b, d) == b = None \/ b.device_ref \in {d, None}
=============================================================================
