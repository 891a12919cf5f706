--------------------------- MODULE BindingStore ---------------------------
(***************************************************************************)
(* The current access bindings by peer address: BindingStore of            *)
(* collectors/base.py, fed by NRCollector.ingest and WLANCollector.ingest  *)
(* and claimed by CAZTCFStrategy.decide.                                   *)
(*                                                                         *)
(* upsert and claim read the dictionary, build a new immutable binding and *)
(* write it back.  The request threads of the HTTP service share the store *)
(* without a lock, so another thread may act between that read and that    *)
(* write.  In a single process requests follow one another.                *)
(*                                                                         *)
(* Scrubbed attributes, source and source_mode are left out: nothing here  *)
(* reads them.                                                             *)
(***************************************************************************)
EXTENDS BindingRules

CONSTANTS
  Addresses,     \* peer addresses
  Domains,       \* access domains, NR and WLAN
  Devices,       \* devices that claim an address
  Threads,       \* request threads of the service
  Lifetimes,     \* values of binding_lifetime_s, None included when events omit it
  MaxClock,      \* bound on the clock
  MaxBindings    \* bound on the number of bindings ever built

Bindings == [id : Nat, domain : Domains, device_ref : Devices \cup {None},
             last_seen : Nat, expires_at : Nat \cup {None}]

ASSUME BoundAssumption == Lifetimes \subseteq Nat \cup {None} /\ MaxClock \in Nat /\ MaxBindings \in Nat
ASSUME NoneAssumption == None \notin Bindings /\ None \notin Devices

VARIABLES
  deployment,   \* one of Deployments, chosen once
  clock,
  store,      \* _by_address; None where the address has no binding
  nextId,     \* _new_binding_id never repeats
  pc,         \* what each thread does next
  loc,        \* what it has read and is about to write
  granted,    \* history: claims answered with a binding and consistent = True
  released    \* history: bindings a collector has released

vars == <<deployment, clock, store, nextId, pc, loc, granted, released>>

NoLocals == [addr |-> None, dev |-> None, binding |-> None]

Init == /\ deployment \in Deployments
        /\ clock = 0
        /\ store = [a \in Addresses |-> None]
        /\ nextId = 0
        /\ pc = [t \in Threads |-> "idle"]
        /\ loc = [t \in Threads |-> NoLocals]
        /\ granted = {}
        /\ released = {}

Tick == /\ clock < MaxClock
        /\ clock' = clock + 1
        /\ UNCHANGED <<deployment, store, nextId, pc, loc, granted, released>>

(* Thread t takes a request up. *)
Starts(t) == /\ pc[t] = "idle"
             /\ deployment = "local" => \A u \in Threads : pc[u] = "idle"

-----------------------------------------------------------------------------
(* Collector events.  The binding a collector builds is never attributed,  *)
(* and it is dated by the event, which may be delivered late.              *)

NewBinding(dom, observed, lifetime) ==
  [id |-> nextId, domain |-> dom, device_ref |-> None, last_seen |-> observed,
   expires_at |-> Expiry(observed, lifetime)]

UpsertRead(t, a, dom, observed, lifetime) ==
  /\ Starts(t)
  /\ nextId < MaxBindings
  /\ nextId' = nextId + 1
  /\ loc' = [loc EXCEPT ![t] = [addr |-> a, dev |-> None,
                                binding |-> Merged(NewBinding(dom, observed, lifetime), store[a])]]
  /\ pc' = [pc EXCEPT ![t] = "upsert"]
  /\ UNCHANGED <<deployment, clock, store, granted, released>>

UpsertWrite(t) ==
  /\ pc[t] = "upsert"
  /\ store' = [store EXCEPT ![loc[t].addr] = loc[t].binding]
  /\ pc' = [pc EXCEPT ![t] = "idle"]
  /\ loc' = [loc EXCEPT ![t] = NoLocals]
  /\ UNCHANGED <<deployment, clock, nextId, granted, released>>

(* Mutant: a release only clears the attribution. *)
ReleaseAttribution(t, a) ==
  /\ Starts(t)
  /\ store[a] # None
  /\ store' = [store EXCEPT ![a].device_ref = None]
  /\ released' = released \cup {store[a].id}
  /\ UNCHANGED <<deployment, clock, nextId, pc, loc, granted>>

(* SESSION_RELEASED and STA_DISCONNECTED pop the address, whichever domain *)
(* holds it.                                                               *)
Release(t, a) ==
  /\ Starts(t)
  /\ store' = [store EXCEPT ![a] = None]
  /\ released' = IF store[a] = None THEN released ELSE released \cup {store[a].id}
  /\ UNCHANGED <<deployment, clock, nextId, pc, loc, granted>>

-----------------------------------------------------------------------------
(* claim *)

(* Nothing to attribute, already ours, or attributed to another device. *)
ClaimAnswered(t, a, d) ==
  LET b == Live(store[a], clock)
  IN /\ Starts(t)
     /\ \/ /\ b = None \/ ~Consistent(b, d)
           /\ UNCHANGED granted
        \/ /\ b # None
           /\ b.device_ref = d
           /\ granted' = granted \cup {[id |-> b.id, dev |-> d]}
     /\ UNCHANGED <<deployment, clock, store, nextId, pc, loc, released>>

(* Mutant: the last device to claim an address gets it. *)
ClaimReadAny(t, a, d) ==
  LET b == Live(store[a], clock)
  IN /\ Starts(t)
     /\ b # None
     /\ loc' = [loc EXCEPT ![t] = [addr |-> a, dev |-> d, binding |-> b]]
     /\ pc' = [pc EXCEPT ![t] = "claim"]
     /\ UNCHANGED <<deployment, clock, store, nextId, granted, released>>

(* Unattributed: a copy with device_ref set is built ... *)
ClaimRead(t, a, d) ==
  LET b == Live(store[a], clock)
  IN /\ Starts(t)
     /\ b # None
     /\ b.device_ref = None
     /\ loc' = [loc EXCEPT ![t] = [addr |-> a, dev |-> d, binding |-> b]]
     /\ pc' = [pc EXCEPT ![t] = "claim"]
     /\ UNCHANGED <<deployment, clock, store, nextId, granted, released>>

(* ... and stored over whatever the address maps to by then. *)
ClaimWrite(t) ==
  LET l == loc[t]
  IN /\ pc[t] = "claim"
     /\ store' = [store EXCEPT ![l.addr] = Claimed(l.binding, l.dev)]
     /\ granted' = granted \cup {[id |-> l.binding.id, dev |-> l.dev]}
     /\ pc' = [pc EXCEPT ![t] = "idle"]
     /\ loc' = [loc EXCEPT ![t] = NoLocals]
     /\ UNCHANGED <<deployment, clock, nextId, released>>

-----------------------------------------------------------------------------
Step(t) ==
  \/ \E a \in Addresses, dom \in Domains, observed \in 0..clock, lifetime \in Lifetimes :
       UpsertRead(t, a, dom, observed, lifetime)
  \/ UpsertWrite(t)
  \/ \E a \in Addresses : Release(t, a)
  \/ \E a \in Addresses, d \in Devices : ClaimAnswered(t, a, d) \/ ClaimRead(t, a, d)
  \/ ClaimWrite(t)

Next == Tick \/ \E t \in Threads : Step(t)

Spec == Init /\ [][Next]_vars

-----------------------------------------------------------------------------
(* The store maps addresses to bindings with fresh identifiers and every   *)
(* thread is at a known point of its handler.                              *)
TypeOK ==
  /\ deployment \in Deployments
  /\ clock \in Nat
  /\ store \in [Addresses -> Bindings \cup {None}]
  /\ nextId \in Nat
  /\ pc \in [Threads -> {"idle", "upsert", "claim"}]
  /\ \A t \in Threads :
       \/ pc[t] = "idle" /\ loc[t] = NoLocals
       \/ pc[t] = "upsert" /\ loc[t] \in [addr : Addresses, dev : {None}, binding : Bindings]
       \/ pc[t] = "claim" /\ loc[t] \in [addr : Addresses, dev : Devices, binding : Bindings]
  /\ loc \in [Threads -> [addr : Addresses \cup {None}, dev : Devices \cup {None},
                          binding : Bindings \cup {None}]]
  /\ granted \in SUBSET [id : Nat, dev : Devices]
  /\ released \in SUBSET Nat

(* C5 rests on this: in a single process at most one device is told that   *)
(* it is consistent with a binding, so that a second device that claims    *)
(* the address always sees the conflict.  Two threads may both find the    *)
(* address unattributed and both be told they have it.                     *)
ClaimExclusive ==
  deployment = "local" => \A p, q \in granted : p.id = q.id => p.dev = q.dev

(* upsert refreshes "preserving any existing attribution", and a           *)
(* conflicting claim leaves "the existing attribution untouched": in a     *)
(* single process, once a binding is attributed, no step that keeps the    *)
(* binding changes that.  With threads a refresh that read the binding     *)
(* before a claim wrote it erases the attribution.                         *)
AttributionPreserved ==
  [][deployment = "local" => \A a \in Addresses :
       (/\ store[a] # None /\ store[a].device_ref # None
        /\ store'[a] # None /\ store'[a].id = store[a].id)
          => store'[a].device_ref = store[a].device_ref]_vars

(* A binding whose domain has reported the session released is gone: in a  *)
(* single process it does not come back and cannot satisfy C3 again.  With *)
(* threads a claim or a refresh under way writes it back.                  *)
ReleasedStaysReleased ==
  deployment = "local" => \A a \in Addresses : store[a] # None => store[a].id \notin released

(* Whatever the threads do, a binding carries the attribution of a device  *)
(* it was granted to: what C5 reports for an attributed address was earned *)
(* by a claim of that binding.                                             *)
AttributionWasGranted ==
  \A a \in Addresses :
    (store[a] # None /\ store[a].device_ref # None) =>
      [id |-> store[a].id, dev |-> store[a].device_ref] \in granted
===========================================================================
