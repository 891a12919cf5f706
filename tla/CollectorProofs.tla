-------------------------- MODULE CollectorProofs --------------------------
(***************************************************************************)
(* Proofs about what stands between the access networks and the evidence.  *)
(*                                                                         *)
(* BindingStore, for any addresses, domains, devices, threads and          *)
(* lifetimes: whose attribution a binding carries in every deployment, and *)
(* that in a single process claims exclude one another, attributions are   *)
(* kept and released bindings stay away.                                   *)
(*                                                                         *)
(* EventSource, for any lines, calls and restarts of the capture: no event *)
(* is returned twice or out of order, and which are missed.  What parsing  *)
(* a file yields is a recursive function, proved about by induction on the *)
(* lines.                                                                  *)
(***************************************************************************)
EXTENDS BindingStore, EventSource, SequenceTheorems, WellFoundedInduction, TLAPS

-----------------------------------------------------------------------------
(* BindingStore *)

Grant(b) == [id |-> b.id, dev |-> b.device_ref]

(* What a thread is about to write carries a granted attribution, or none; *)
(* what it is about to claim carries none.                                 *)
LocalsGranted ==
  \A t \in Threads :
    /\ pc[t] = "upsert" /\ loc[t].binding.device_ref # None => Grant(loc[t].binding) \in granted
    /\ pc[t] = "claim" => loc[t].binding.device_ref = None

(* _new_binding_id never repeats: every identifier in use was handed out. *)
IdsHandedOut ==
  /\ \A a \in Addresses : store[a] # None => store[a].id < nextId
  /\ \A g \in granted : g.id < nextId
  /\ \A i \in released : i < nextId
  /\ \A t \in Threads : pc[t] # "idle" => loc[t].binding.id < nextId

(* In a single process one request is under way at most. *)
OneAtATime ==
  deployment = "local" => \A t, u \in Threads : pc[t] # "idle" /\ pc[u] # "idle" => t = u

(* No binding, grant or release knows the identifier. *)
Unused(i) ==
  /\ \A a \in Addresses : store[a] # None => store[a].id # i
  /\ \A g \in granted : g.id # i
  /\ i \notin released

(* In a single process a binding sits at one address, an unattributed one  *)
(* was granted to nobody, and what a thread has read is still there when   *)
(* it writes.                                                              *)
LocalStore ==
  deployment = "local" =>
    /\ \A a, b \in Addresses :
         store[a] # None /\ store[b] # None /\ store[a].id = store[b].id => a = b
    /\ \A a \in Addresses : store[a] # None /\ store[a].device_ref = None =>
         \A g \in granted : g.id # store[a].id
    /\ \A t \in Threads :
         /\ pc[t] = "claim" => loc[t].binding = store[loc[t].addr]
         /\ pc[t] = "upsert" =>
              LET b == loc[t].binding
                  e == store[loc[t].addr]
              IN \/ e # None /\ b.id = e.id /\ b.device_ref = e.device_ref
                 \/ b.device_ref = None /\ Unused(b.id)

-----------------------------------------------------------------------------
(* What a collector builds, and what a refresh makes of it: the identity   *)
(* and the attribution of the existing binding, or the new one as it is.   *)
LEMMA NewBindingType ==
  ASSUME TypeOK, NEW dom \in Domains, NEW observed \in Nat, NEW lifetime \in Lifetimes
  PROVE  NewBinding(dom, observed, lifetime) \in Bindings
  <1>1. Expiry(observed, lifetime) \in Nat \cup {None}
    BY BoundAssumption DEF Expiry
  <1>2. QED
    BY <1>1 DEF TypeOK, NewBinding, Bindings

LEMMA MergedKeeps ==
  ASSUME NEW new \in Bindings, NEW existing \in Bindings \cup {None}
  PROVE  /\ Merged(new, existing) \in Bindings
         /\ \/ /\ existing # None
               /\ Merged(new, existing).id = existing.id
               /\ Merged(new, existing).device_ref = existing.device_ref
            \/ Merged(new, existing) = new
  BY DEF Merged, Bindings

LEMMA ClaimedType ==
  ASSUME NEW b \in Bindings, NEW d \in Devices
  PROVE  /\ Claimed(b, d) \in Bindings
         /\ Claimed(b, d).id = b.id /\ Claimed(b, d).device_ref = d
  BY DEF Claimed, Bindings

LEMMA LiveIs ==
  ASSUME NEW b, NEW now, Live(b, now) # None
  PROVE  Live(b, now) = b /\ b # None
  BY DEF Live

(* A thread that is not idle holds an address and a binding. *)
LEMMA Busy ==
  ASSUME TypeOK, NEW t \in Threads, pc[t] # "idle"
  PROVE  /\ loc[t].addr \in Addresses /\ loc[t].binding \in Bindings
         /\ pc[t] \in {"upsert", "claim"}
         /\ pc[t] = "claim" => loc[t].dev \in Devices
  BY DEF TypeOK

-----------------------------------------------------------------------------
LEMMA TypeInit == Init => TypeOK
  BY DEF Init, TypeOK, NoLocals

LEMMA TypeNext == TypeOK /\ [Next]_vars => TypeOK'
  <1> SUFFICES ASSUME TypeOK, [Next]_vars PROVE TypeOK'
    OBVIOUS
  <1>1. CASE Tick
    BY <1>1 DEF Tick, TypeOK
  <1>2. ASSUME NEW t \in Threads, NEW a \in Addresses, NEW dom \in Domains,
               NEW observed \in 0..clock, NEW lifetime \in Lifetimes,
               UpsertRead(t, a, dom, observed, lifetime)
        PROVE  TypeOK'
    <2> DEFINE new == NewBinding(dom, observed, lifetime)
               l == [addr |-> a, dev |-> None, binding |-> Merged(new, store[a])]
    <2>1. observed \in Nat /\ store[a] \in Bindings \cup {None}
      BY DEF TypeOK
    <2>2. Merged(new, store[a]) \in Bindings
      BY <2>1, NewBindingType, MergedKeeps
    <2>3. /\ l \in [addr : Addresses, dev : {None}, binding : Bindings]
          /\ l \in [addr : Addresses \cup {None}, dev : Devices \cup {None},
                    binding : Bindings \cup {None}]
      BY <2>2
    <2> HIDE DEF l, new
    <2>4. loc' = [loc EXCEPT ![t] = l] /\ pc' = [pc EXCEPT ![t] = "upsert"]
      BY <1>2 DEF UpsertRead, l, new
    <2>5. QED
      BY <1>2, <2>3, <2>4 DEF UpsertRead, TypeOK
  <1>3. ASSUME NEW t \in Threads, UpsertWrite(t) PROVE TypeOK'
    <2>1. loc[t].addr \in Addresses /\ loc[t].binding \in Bindings
      BY <1>3, Busy DEF UpsertWrite
    <2>2. QED
      BY <1>3, <2>1 DEF UpsertWrite, TypeOK, NoLocals
  <1>4. ASSUME NEW t \in Threads, NEW a \in Addresses, Release(t, a) PROVE TypeOK'
    <2>1. released' \in SUBSET Nat
      BY <1>4 DEF Release, TypeOK, Bindings
    <2>2. QED
      BY <1>4, <2>1 DEF Release, TypeOK
  <1>5. ASSUME NEW t \in Threads, NEW a \in Addresses, NEW d \in Devices, ClaimAnswered(t, a, d)
        PROVE  TypeOK'
    <2>1. granted' \in SUBSET [id : Nat, dev : Devices]
      BY <1>5, LiveIs DEF ClaimAnswered, TypeOK, Bindings
    <2>2. QED
      BY <1>5, <2>1 DEF ClaimAnswered, TypeOK
  <1>6. ASSUME NEW t \in Threads, NEW a \in Addresses, NEW d \in Devices, ClaimRead(t, a, d)
        PROVE  TypeOK'
    <2> DEFINE l == [addr |-> a, dev |-> d, binding |-> Live(store[a], clock)]
    <2>1. Live(store[a], clock) \in Bindings
      BY <1>6, LiveIs DEF ClaimRead, TypeOK
    <2>2. /\ l \in [addr : Addresses, dev : Devices, binding : Bindings]
          /\ l \in [addr : Addresses \cup {None}, dev : Devices \cup {None},
                    binding : Bindings \cup {None}]
      BY <2>1
    <2> HIDE DEF l
    <2>3. loc' = [loc EXCEPT ![t] = l] /\ pc' = [pc EXCEPT ![t] = "claim"]
      BY <1>6 DEF ClaimRead, l
    <2>4. QED
      BY <1>6, <2>2, <2>3 DEF ClaimRead, TypeOK
  <1>7. ASSUME NEW t \in Threads, ClaimWrite(t) PROVE TypeOK'
    <2>1. loc[t].addr \in Addresses /\ loc[t].binding \in Bindings /\ loc[t].dev \in Devices
      BY <1>7, Busy DEF ClaimWrite
    <2>2. Claimed(loc[t].binding, loc[t].dev) \in Bindings
      BY <2>1, ClaimedType
    <2>3. granted' \in SUBSET [id : Nat, dev : Devices]
      BY <1>7, <2>1 DEF ClaimWrite, TypeOK, Bindings
    <2>4. QED
      BY <1>7, <2>1, <2>2, <2>3 DEF ClaimWrite, TypeOK, NoLocals
  <1>8. CASE UNCHANGED vars
    BY <1>8 DEF vars, TypeOK
  <1>9. QED
    BY <1>1, <1>2, <1>3, <1>4, <1>5, <1>6, <1>7, <1>8 DEF Next, Step

-----------------------------------------------------------------------------
(* In every deployment: identifiers are handed out before they are used,   *)
(* and an attribution is granted before it is stored.                      *)
IdsInv == AttributionWasGranted /\ LocalsGranted /\ IdsHandedOut /\ OneAtATime

LEMMA IdsInit == Init => IdsInv
  BY DEF Init, IdsInv, AttributionWasGranted, LocalsGranted, IdsHandedOut, OneAtATime

LEMMA IdsNext == TypeOK /\ TypeOK' /\ IdsInv /\ [Next]_vars => IdsInv'
  <1> SUFFICES ASSUME TypeOK, TypeOK', IdsInv, [Next]_vars PROVE IdsInv'
    OBVIOUS
  <1> USE DEF IdsInv
  <1>0. /\ nextId \in Nat
        /\ \A a \in Addresses : store[a] # None => store[a] \in Bindings /\ store[a].id \in Nat
        /\ \A i \in released : i \in Nat
        /\ \A g \in granted : g.id \in Nat
    BY DEF TypeOK, Bindings
  <1>1. CASE Tick
    BY <1>1 DEF Tick, AttributionWasGranted, LocalsGranted, IdsHandedOut, OneAtATime
  <1>2. ASSUME NEW t \in Threads, NEW a \in Addresses, NEW dom \in Domains,
               NEW observed \in 0..clock, NEW lifetime \in Lifetimes,
               UpsertRead(t, a, dom, observed, lifetime)
        PROVE  IdsInv'
    <2> DEFINE new == NewBinding(dom, observed, lifetime)
               b == Merged(new, store[a])
    <2>1. observed \in Nat /\ store[a] \in Bindings \cup {None}
      BY DEF TypeOK
    <2>2. new \in Bindings /\ new.id = nextId /\ new.device_ref = None
      BY <2>1, NewBindingType DEF NewBinding
    <2> HIDE DEF new
    <2>3. \/ store[a] # None /\ b.id = store[a].id /\ b.device_ref = store[a].device_ref
          \/ b.id = nextId /\ b.device_ref = None
      BY <2>1, <2>2, MergedKeeps
    <2> HIDE DEF b
    <2>4. /\ pc' = [pc EXCEPT ![t] = "upsert"]
          /\ loc'[t].binding = b
          /\ \A u \in Threads : u # t => loc'[u] = loc[u]
          /\ nextId' = nextId + 1
          /\ UNCHANGED <<deployment, store, granted, released>>
      BY <1>2 DEF UpsertRead, TypeOK, new, b
    <2>5. pc'[t] = "upsert" /\ \A u \in Threads : u # t => pc'[u] = pc[u]
      BY <2>4 DEF TypeOK
    <2>6. AttributionWasGranted'
      BY <2>4 DEF AttributionWasGranted
    <2>7. LocalsGranted'
      BY <2>3, <2>4, <2>5 DEF LocalsGranted, AttributionWasGranted, Grant
    <2>8. b.id < nextId'
      BY <1>0, <2>3, <2>4 DEF IdsHandedOut
    <2>9. \A u \in Threads : pc[u] # "idle" => loc[u].binding.id \in Nat
      BY Busy DEF Bindings
    <2>10. IdsHandedOut'
      BY <1>0, <2>4, <2>5, <2>8, <2>9 DEF IdsHandedOut
    <2>11. OneAtATime'
      BY <1>2, <2>4, <2>5 DEF OneAtATime, UpsertRead, Starts
    <2>12. QED
      BY <2>6, <2>7, <2>10, <2>11
  <1>3. ASSUME NEW t \in Threads, UpsertWrite(t) PROVE IdsInv'
    <2>1. loc[t].addr \in Addresses /\ loc[t].binding \in Bindings
      BY <1>3, Busy DEF UpsertWrite
    <2>2. /\ store'[loc[t].addr] = loc[t].binding
          /\ \A a \in Addresses : a # loc[t].addr => store'[a] = store[a]
          /\ UNCHANGED <<deployment, nextId, granted, released>>
      BY <1>3, <2>1 DEF UpsertWrite, TypeOK
    <2>3. pc'[t] = "idle" /\ \A u \in Threads : u # t => pc'[u] = pc[u] /\ loc'[u] = loc[u]
      BY <1>3 DEF UpsertWrite, TypeOK
    <2>4. AttributionWasGranted'
      BY <1>3, <2>1, <2>2 DEF UpsertWrite, AttributionWasGranted, LocalsGranted, Grant
    <2>5. LocalsGranted'
      BY <2>2, <2>3 DEF LocalsGranted
    <2>6. IdsHandedOut'
      BY <1>3, <2>1, <2>2, <2>3 DEF UpsertWrite, IdsHandedOut
    <2>7. OneAtATime'
      BY <2>2, <2>3 DEF OneAtATime
    <2>8. QED
      BY <2>4, <2>5, <2>6, <2>7
  <1>4. ASSUME NEW t \in Threads, NEW a \in Addresses, Release(t, a) PROVE IdsInv'
    <2>1. /\ store'[a] = None
          /\ \A b \in Addresses : b # a => store'[b] = store[b]
          /\ UNCHANGED <<deployment, nextId, pc, loc, granted>>
      BY <1>4 DEF Release, TypeOK
    <2>2. \A i \in released' : i \in released \/ (store[a] # None /\ i = store[a].id)
      BY <1>4 DEF Release
    <2>3. QED
      BY <2>1, <2>2 DEF AttributionWasGranted, LocalsGranted, IdsHandedOut, OneAtATime
  <1>5. ASSUME NEW t \in Threads, NEW a \in Addresses, NEW d \in Devices, ClaimAnswered(t, a, d)
        PROVE  IdsInv'
    <2>1. granted' = granted
      BY <1>5, LiveIs, NoneAssumption DEF ClaimAnswered, AttributionWasGranted
    <2>2. QED
      BY <1>5, <2>1 DEF ClaimAnswered, AttributionWasGranted, LocalsGranted, IdsHandedOut, OneAtATime
  <1>6. ASSUME NEW t \in Threads, NEW a \in Addresses, NEW d \in Devices, ClaimRead(t, a, d)
        PROVE  IdsInv'
    <2>1. Live(store[a], clock) = store[a] /\ store[a] # None /\ store[a].device_ref = None
      BY <1>6, LiveIs DEF ClaimRead
    <2>2. /\ pc'[t] = "claim" /\ loc'[t].binding = store[a]
          /\ \A u \in Threads : u # t => pc'[u] = pc[u] /\ loc'[u] = loc[u]
          /\ UNCHANGED <<deployment, store, nextId, granted, released>>
      BY <1>6, <2>1 DEF ClaimRead, TypeOK
    <2>3. AttributionWasGranted' /\ LocalsGranted'
      BY <2>1, <2>2 DEF AttributionWasGranted, LocalsGranted
    <2>4. IdsHandedOut'
      BY <2>1, <2>2 DEF IdsHandedOut
    <2>5. OneAtATime'
      BY <1>6, <2>2 DEF OneAtATime, ClaimRead, Starts
    <2>6. QED
      BY <2>3, <2>4, <2>5
  <1>7. ASSUME NEW t \in Threads, ClaimWrite(t) PROVE IdsInv'
    <2> DEFINE new == Claimed(loc[t].binding, loc[t].dev)
    <2>1. loc[t].addr \in Addresses /\ loc[t].binding \in Bindings /\ loc[t].dev \in Devices
      BY <1>7, Busy DEF ClaimWrite
    <2>2. new.id = loc[t].binding.id /\ new.device_ref = loc[t].dev
      BY <2>1, ClaimedType
    <2>3. /\ store'[loc[t].addr] = new
          /\ \A a \in Addresses : a # loc[t].addr => store'[a] = store[a]
          /\ granted' = granted \cup {[id |-> loc[t].binding.id, dev |-> loc[t].dev]}
          /\ UNCHANGED <<deployment, nextId, released>>
      BY <1>7, <2>1 DEF ClaimWrite, TypeOK
    <2>4. pc'[t] = "idle" /\ \A u \in Threads : u # t => pc'[u] = pc[u] /\ loc'[u] = loc[u]
      BY <1>7 DEF ClaimWrite, TypeOK
    <2> HIDE DEF new
    <2>5. AttributionWasGranted'
      BY <2>1, <2>2, <2>3 DEF AttributionWasGranted
    <2>6. LocalsGranted'
      BY <2>3, <2>4 DEF LocalsGranted
    <2>7. loc[t].binding.id < nextId
      BY <1>7 DEF ClaimWrite, IdsHandedOut
    <2>8. IdsHandedOut'
      BY <2>1, <2>2, <2>3, <2>4, <2>7 DEF IdsHandedOut
    <2>9. OneAtATime'
      BY <2>3, <2>4 DEF OneAtATime
    <2>10. QED
      BY <2>5, <2>6, <2>8, <2>9
  <1>8. CASE UNCHANGED vars
    BY <1>8 DEF vars, AttributionWasGranted, LocalsGranted, IdsHandedOut, OneAtATime
  <1>9. QED
    BY <1>1, <1>2, <1>3, <1>4, <1>5, <1>6, <1>7, <1>8 DEF Next, Step

-----------------------------------------------------------------------------
(* In a single process. *)
LocalInv == LocalStore /\ ClaimExclusive /\ ReleasedStaysReleased

LEMMA LocalInit == Init => LocalInv
  BY DEF Init, LocalInv, LocalStore, ClaimExclusive, ReleasedStaysReleased

(* A request that starts finds the others idle, and one that is under way  *)
(* is the only one.                                                        *)
LEMMA Alone ==
  ASSUME TypeOK, OneAtATime, deployment = "local", NEW t \in Threads, Starts(t) \/ pc[t] # "idle"
  PROVE  \A u \in Threads : u # t => pc[u] = "idle"
  BY DEF OneAtATime, Starts

LEMMA LocalNext == TypeOK /\ TypeOK' /\ IdsInv /\ LocalInv /\ [Next]_vars => LocalInv'
  <1> SUFFICES ASSUME TypeOK, TypeOK', IdsInv, LocalInv, [Next]_vars, deployment = "local"
               PROVE  LocalInv'
    <2>1. [Next]_vars => deployment' = deployment
      BY DEF Next, Step, vars, Tick, UpsertRead, UpsertWrite, Release, ClaimAnswered, ClaimRead,
             ClaimWrite
    <2>2. QED
      BY <2>1 DEF LocalInv, LocalStore, ClaimExclusive, ReleasedStaysReleased
  <1> USE DEF LocalInv
  <1>0. /\ nextId \in Nat
        /\ \A a \in Addresses : store[a] # None => store[a] \in Bindings /\ store[a].id \in Nat
        /\ \A i \in released : i \in Nat
        /\ \A g \in granted : g.id \in Nat
    BY DEF TypeOK, Bindings
  <1>1. CASE Tick
    BY <1>1 DEF Tick, LocalStore, ClaimExclusive, ReleasedStaysReleased, Unused
  <1>2. ASSUME NEW t \in Threads, NEW a \in Addresses, NEW dom \in Domains,
               NEW observed \in 0..clock, NEW lifetime \in Lifetimes,
               UpsertRead(t, a, dom, observed, lifetime)
        PROVE  LocalInv'
    <2> DEFINE new == NewBinding(dom, observed, lifetime)
               b == Merged(new, store[a])
    <2>1. observed \in Nat /\ store[a] \in Bindings \cup {None}
      BY DEF TypeOK
    <2>2. new \in Bindings /\ new.id = nextId /\ new.device_ref = None
      BY <2>1, NewBindingType DEF NewBinding
    <2> HIDE DEF new
    <2>3. \/ store[a] # None /\ b.id = store[a].id /\ b.device_ref = store[a].device_ref
          \/ b.id = nextId /\ b.device_ref = None
      BY <2>1, <2>2, MergedKeeps
    <2> HIDE DEF b
    <2>4. /\ pc'[t] = "upsert"
          /\ loc'[t].binding = b /\ loc'[t].addr = a
          /\ UNCHANGED <<deployment, store, granted, released>>
      BY <1>2 DEF UpsertRead, TypeOK, new, b
    <2>5. \A u \in Threads : u # t => pc'[u] = "idle"
      BY <1>2, Alone DEF UpsertRead, TypeOK, IdsInv
    <2>6. Unused(nextId)
      BY <1>0 DEF IdsInv, IdsHandedOut, Unused
    <2>7. LocalStore'
      BY <2>3, <2>4, <2>5, <2>6 DEF LocalStore, Unused
    <2>8. QED
      BY <2>4, <2>7 DEF ClaimExclusive, ReleasedStaysReleased
  <1>3. ASSUME NEW t \in Threads, UpsertWrite(t) PROVE LocalInv'
    <2> DEFINE x == loc[t].addr
               b == loc[t].binding
    <2>1. x \in Addresses /\ b \in Bindings
      BY <1>3, Busy DEF UpsertWrite
    <2>2. /\ store'[x] = b
          /\ \A a \in Addresses : a # x => store'[a] = store[a]
          /\ UNCHANGED <<deployment, granted, released>>
      BY <1>3, <2>1 DEF UpsertWrite, TypeOK
    <2>3. \A u \in Threads : pc'[u] = "idle"
      BY <1>3, Alone DEF UpsertWrite, TypeOK, IdsInv
    <2>4. \/ store[x] # None /\ b.id = store[x].id /\ b.device_ref = store[x].device_ref
          \/ b.device_ref = None /\ Unused(b.id)
      BY <1>3 DEF UpsertWrite, LocalStore
    <2> HIDE DEF x, b
    <2>5. LocalStore'
      <3>1. CASE store[x] # None /\ b.id = store[x].id /\ b.device_ref = store[x].device_ref
        BY <2>1, <2>2, <2>3, <3>1 DEF LocalStore
      <3>2. CASE b.device_ref = None /\ Unused(b.id)
        BY <2>1, <2>2, <2>3, <3>2 DEF LocalStore, Unused
      <3>3. QED
        BY <2>4, <3>1, <3>2
    <2>6. ReleasedStaysReleased'
      BY <2>1, <2>2, <2>4 DEF ReleasedStaysReleased, Unused
    <2>7. QED
      BY <2>2, <2>5, <2>6 DEF ClaimExclusive
  <1>4. ASSUME NEW t \in Threads, NEW a \in Addresses, Release(t, a) PROVE LocalInv'
    <2>1. /\ store'[a] = None
          /\ \A b \in Addresses : b # a => store'[b] = store[b]
          /\ UNCHANGED <<deployment, pc, granted>>
      BY <1>4 DEF Release, TypeOK
    <2>2. \A i \in released' : i \in released \/ (store[a] # None /\ i = store[a].id)
      BY <1>4 DEF Release
    <2>3. \A u \in Threads : pc'[u] = "idle"
      BY <1>4 DEF Release, Starts
    <2>4. LocalStore'
      BY <2>1, <2>3 DEF LocalStore
    <2>5. ReleasedStaysReleased'
      BY <2>1, <2>2 DEF ReleasedStaysReleased, LocalStore
    <2>6. QED
      BY <2>1, <2>4, <2>5 DEF ClaimExclusive
  <1>5. ASSUME NEW t \in Threads, NEW a \in Addresses, NEW d \in Devices, ClaimAnswered(t, a, d)
        PROVE  LocalInv'
    <2>1. granted' = granted
      BY <1>5, LiveIs, NoneAssumption DEF ClaimAnswered, IdsInv, AttributionWasGranted
    <2>2. QED
      BY <1>5, <2>1 DEF ClaimAnswered, LocalStore, ClaimExclusive, ReleasedStaysReleased, Unused
  <1>6. ASSUME NEW t \in Threads, NEW a \in Addresses, NEW d \in Devices, ClaimRead(t, a, d)
        PROVE  LocalInv'
    <2>1. Live(store[a], clock) = store[a]
      BY <1>6, LiveIs DEF ClaimRead
    <2>2. /\ pc'[t] = "claim" /\ loc'[t].binding = store[a] /\ loc'[t].addr = a
          /\ UNCHANGED <<deployment, store, granted, released>>
      BY <1>6, <2>1 DEF ClaimRead, TypeOK
    <2>3. \A u \in Threads : u # t => pc'[u] = "idle"
      BY <1>6, Alone DEF ClaimRead, TypeOK, IdsInv
    <2>4. LocalStore'
      BY <2>2, <2>3 DEF LocalStore
    <2>5. QED
      BY <2>2, <2>4 DEF ClaimExclusive, ReleasedStaysReleased
  <1>7. ASSUME NEW t \in Threads, ClaimWrite(t) PROVE LocalInv'
    <2> DEFINE x == loc[t].addr
               b == loc[t].binding
               new == Claimed(b, loc[t].dev)
               g == [id |-> b.id, dev |-> loc[t].dev]
    <2>1. x \in Addresses /\ b \in Bindings /\ loc[t].dev \in Devices
      BY <1>7, Busy DEF ClaimWrite
    <2>2. new.id = b.id /\ new.device_ref # None
      BY <2>1, ClaimedType, NoneAssumption
    <2>3. /\ store'[x] = new
          /\ \A a \in Addresses : a # x => store'[a] = store[a]
          /\ granted' = granted \cup {g}
          /\ UNCHANGED <<deployment, released>>
      BY <1>7, <2>1 DEF ClaimWrite, TypeOK
    <2>4. \A u \in Threads : pc'[u] = "idle"
      BY <1>7, Alone DEF ClaimWrite, TypeOK, IdsInv
    <2>5. store[x] = b /\ b.device_ref = None /\ b # None /\ g.id = b.id
      BY <1>7, <2>1, NoneAssumption DEF ClaimWrite, LocalStore, IdsInv, LocalsGranted
    <2>6. \A h \in granted : h.id # b.id
      BY <2>1, <2>5 DEF LocalStore
    <2> HIDE DEF x, b, new, g
    <2>7. LocalStore'
      BY <2>1, <2>2, <2>3, <2>4, <2>5 DEF LocalStore
    <2>8. ClaimExclusive'
      BY <2>3, <2>5, <2>6 DEF ClaimExclusive
    <2>9. ReleasedStaysReleased'
      BY <2>1, <2>2, <2>3, <2>5 DEF ReleasedStaysReleased
    <2>10. QED
      BY <2>7, <2>8, <2>9
  <1>8. CASE UNCHANGED vars
    BY <1>8 DEF vars, LocalStore, ClaimExclusive, ReleasedStaysReleased, Unused
  <1>9. QED
    BY <1>1, <1>2, <1>3, <1>4, <1>5, <1>6, <1>7, <1>8 DEF Next, Step

-----------------------------------------------------------------------------
(* The store and the threads always have their types: _by_address maps     *)
(* addresses to bindings, whichever requests overlap.                      *)
THEOREM TypeCorrect == Spec => []TypeOK
  BY TypeInit, TypeNext, PTL DEF Spec

(* A binding carries the attribution of a device it was granted to,        *)
(* whatever the threads of the service do between the read and the write   *)
(* of BindingStore.upsert and claim.                                       *)
THEOREM AttributionEarned == Spec => []AttributionWasGranted
  <1>1. IdsInv => AttributionWasGranted
    BY DEF IdsInv
  <1>2. QED
    BY <1>1, TypeCorrect, IdsInit, IdsNext, PTL DEF Spec

LEMMA Invariance == Spec => [](TypeOK /\ IdsInv /\ LocalInv)
  BY TypeInit, TypeNext, IdsInit, IdsNext, LocalInit, LocalNext, PTL DEF Spec

(* In a single process BindingStore.claim tells at most one device that it *)
(* is consistent with a binding.                                           *)
THEOREM ClaimsExclude == Spec => []ClaimExclusive
  <1>1. LocalInv => ClaimExclusive
    BY DEF LocalInv
  <1>2. QED
    BY <1>1, Invariance, PTL

(* In a single process a binding that a collector has released does not    *)
(* come back through a late claim or refresh.                              *)
THEOREM ReleaseIsFinal == Spec => []ReleasedStaysReleased
  <1>1. LocalInv => ReleasedStaysReleased
    BY DEF LocalInv
  <1>2. QED
    BY <1>1, Invariance, PTL

(* In a single process neither a refresh nor a conflicting claim changes   *)
(* an attribution while the binding lasts.                                 *)
THEOREM AttributionKept == Spec => AttributionPreserved
  <1> DEFINE Kept == deployment = "local" => \A a \in Addresses :
                       (/\ store[a] # None /\ store[a].device_ref # None
                        /\ store'[a] # None /\ store'[a].id = store[a].id)
                          => store'[a].device_ref = store[a].device_ref
  <1>1. ASSUME TypeOK, IdsInv, LocalInv, Next PROVE Kept
    <2> SUFFICES ASSUME deployment = "local", NEW a \in Addresses,
                        store[a] # None, store[a].device_ref # None,
                        store'[a] # None, store'[a].id = store[a].id
                 PROVE  store'[a].device_ref = store[a].device_ref
      OBVIOUS
    <2>1. ASSUME NEW t \in Threads, UpsertWrite(t) PROVE store'[a].device_ref = store[a].device_ref
      <3>1. \/ a # loc[t].addr /\ store'[a] = store[a]
            \/ a = loc[t].addr /\ store'[a] = loc[t].binding
        BY <1>1, <2>1 DEF UpsertWrite, TypeOK
      <3>2. QED
        BY <1>1, <2>1, <3>1 DEF UpsertWrite, LocalInv, LocalStore, Unused
    <2>2. ASSUME NEW t \in Threads, ClaimWrite(t) PROVE store'[a].device_ref = store[a].device_ref
      <3>1. a # loc[t].addr
        BY <1>1, <2>2 DEF ClaimWrite, LocalInv, LocalStore, IdsInv, LocalsGranted
      <3>2. QED
        BY <1>1, <2>2, <3>1 DEF ClaimWrite, TypeOK
    <2>3. ASSUME NEW t \in Threads, NEW b \in Addresses, Release(t, b)
          PROVE  store'[a].device_ref = store[a].device_ref
      BY <1>1, <2>3 DEF Release, TypeOK
    <2>4. CASE UNCHANGED store
      BY <2>4
    <2>5. QED
      BY <1>1, <2>1, <2>2, <2>3, <2>4 DEF Next, Step, Tick, UpsertRead, ClaimAnswered, ClaimRead
  <1>2. TypeOK /\ IdsInv /\ LocalInv /\ [Next]_vars => [Kept]_vars
    BY <1>1
  <1>3. QED
    BY <1>2, Invariance, PTL DEF Spec, AttributionPreserved

-----------------------------------------------------------------------------
(* EventSource *)

(* Induction over the natural numbers, as a statement about sets.          *)
LEMMA SetInduction ==
  ASSUME NEW T, 0 \in T, \A n \in Nat : n \in T => n + 1 \in T
  PROVE  Nat \subseteq T
  <1> SUFFICES ASSUME Nat \ T # {} PROVE FALSE
    OBVIOUS
  <1> DEFINE R == {p \in Nat \X Nat : p[1] < p[2]}
  <1>1. OpToRel(<, Nat) = R
    BY Zenon DEF OpToRel
  <1>2. IsWellFoundedOn(R, Nat)
    BY <1>1, NatLessThanWellFounded
  <1>3. PICK m \in Nat \ T : \A y \in Nat \ T : <<y, m>> \notin R
    BY <1>2, WFMin
  <1>4. m # 0 /\ m \in Nat
    OBVIOUS
  <1>5. m - 1 \in Nat /\ m - 1 < m /\ (m - 1) + 1 = m
    BY <1>4
  <1>6. m - 1 \in Nat \ T
    BY <1>5
  <1>7. <<m - 1, m>> \in R
    BY <1>4, <1>5
  <1>8. QED
    BY <1>3, <1>6, <1>7

(* The list of events after each of the first n lines. *)
Taken(lines, events, n) ==
  events = [k \in 0..n |->
              IF k = 0 THEN << >>
              ELSE IF IsEvent(lines[k]) THEN Append(events[k - 1], lines[k]) ELSE events[k - 1]]

LEMMA TakenExists ==
  ASSUME NEW lines, NEW n \in Nat
  PROVE  \E events : Taken(lines, events, n)
  <1> DEFINE T == {m \in Nat : \E events : Taken(lines, events, m)}
  <1>1. 0 \in T
    <2>1. Taken(lines, [k \in 0..0 |-> << >>], 0)
      BY DEF Taken
    <2>2. QED
      BY <2>1
  <1>2. ASSUME NEW m \in Nat, m \in T PROVE m + 1 \in T
    <2>1. PICK events : Taken(lines, events, m)
      BY <1>2
    <2> DEFINE last == IF IsEvent(lines[m + 1]) THEN Append(events[m], lines[m + 1]) ELSE events[m]
               more == [k \in 0..(m + 1) |-> IF k = m + 1 THEN last ELSE events[k]]
    <2>2. \A k \in 0..m : events[k] =
              IF k = 0 THEN << >>
              ELSE IF IsEvent(lines[k]) THEN Append(events[k - 1], lines[k]) ELSE events[k - 1]
      BY <2>1 DEF Taken
    <2>3. ASSUME NEW k \in 0..(m + 1)
          PROVE  more[k] = IF k = 0 THEN << >>
                           ELSE IF IsEvent(lines[k]) THEN Append(more[k - 1], lines[k]) ELSE more[k - 1]
      <3>1. CASE k = m + 1
        <4>1. more[k] = last /\ more[k - 1] = events[m] /\ k # 0
          BY <3>1
        <4>2. QED
          BY <3>1, <4>1
      <3>2. CASE k = 0
        BY <2>2, <3>2
      <3>3. CASE k \in 1..m
        <4>1. more[k] = events[k] /\ more[k - 1] = events[k - 1] /\ k # 0 /\ k \in 0..m
          BY <3>3
        <4>2. QED
          BY <2>2, <4>1
      <3>4. QED
        BY <3>1, <3>2, <3>3
    <2>4. Taken(lines, more, m + 1)
      BY <2>3, Zenon DEF Taken
    <2>5. QED
      BY <2>4
  <1> HIDE DEF T
  <1>3. n \in T
    BY <1>1, <1>2, SetInduction
  <1>4. QED
    BY <1>3 DEF T

LEMMA EventsTaken ==
  ASSUME NEW lines \in Seq(Lines)
  PROVE  \E events : Taken(lines, events, Len(lines)) /\ EventsOf(lines) = events[Len(lines)]
  <1>1. Len(lines) \in Nat
    OBVIOUS
  <1>2. PICK events : Taken(lines, events, Len(lines))
    BY <1>1, TakenExists
  <1> DEFINE Chosen == CHOOSE e : Taken(lines, e, Len(lines))
  <1>3. Taken(lines, Chosen, Len(lines))
    BY <1>2
  <1>4. EventsOf(lines) = Chosen[Len(lines)]
    BY Zenon DEF EventsOf, Taken
  <1>5. QED
    BY <1>3, <1>4

LEMMA TakenAgrees ==
  ASSUME NEW lines, NEW more, NEW m \in Nat, NEW n \in Nat, m <= n,
         \A k \in 1..m : lines[k] = more[k],
         NEW e, Taken(lines, e, m), NEW f, Taken(more, f, n)
  PROVE  \A k \in 0..m : e[k] = f[k]
  <1> DEFINE T == {k \in Nat : k <= m => e[k] = f[k]}
  <1>1. 0 \in T
    BY DEF Taken
  <1>2. ASSUME NEW k \in Nat, k \in T PROVE k + 1 \in T
    <2> SUFFICES ASSUME k + 1 <= m PROVE e[k + 1] = f[k + 1]
      OBVIOUS
    <2>1. k + 1 \in 0..m /\ k + 1 \in 0..n /\ k + 1 # 0 /\ (k + 1) - 1 = k
      OBVIOUS
    <2>2. e[k + 1] = IF IsEvent(lines[k + 1]) THEN Append(e[k], lines[k + 1]) ELSE e[k]
      BY <2>1 DEF Taken
    <2>3. f[k + 1] = IF IsEvent(more[k + 1]) THEN Append(f[k], more[k + 1]) ELSE f[k]
      BY <2>1 DEF Taken
    <2>4. e[k] = f[k] /\ lines[k + 1] = more[k + 1]
      BY <1>2
    <2>5. QED
      BY <2>2, <2>3, <2>4
  <1> HIDE DEF T
  <1>3. \A k \in Nat : k \in T
    BY <1>1, <1>2, SetInduction
  <1>4. QED
    BY <1>3 DEF T

LEMMA EventsType ==
  ASSUME NEW lines \in Seq(Lines)
  PROVE  EventsOf(lines) \in Seq(Lines)
  <1>1. PICK e : Taken(lines, e, Len(lines)) /\ EventsOf(lines) = e[Len(lines)]
    BY EventsTaken
  <1>2. Len(lines) \in Nat /\ \A k \in 1..Len(lines) : lines[k] \in Lines
    OBVIOUS
  <1> DEFINE T == {k \in Nat : k <= Len(lines) => e[k] \in Seq(Lines)}
  <1>3. 0 \in T
    BY <1>1, <1>2 DEF Taken
  <1>4. ASSUME NEW k \in Nat, k \in T PROVE k + 1 \in T
    <2> SUFFICES ASSUME k + 1 <= Len(lines) PROVE e[k + 1] \in Seq(Lines)
      OBVIOUS
    <2>1. k + 1 \in 0..Len(lines) /\ k + 1 # 0 /\ (k + 1) - 1 = k
      BY <1>2
    <2>2. e[k + 1] = IF IsEvent(lines[k + 1]) THEN Append(e[k], lines[k + 1]) ELSE e[k]
      BY <1>1, <2>1 DEF Taken
    <2>3. e[k] \in Seq(Lines) /\ lines[k + 1] \in Lines
      BY <1>2, <1>4
    <2>4. QED
      BY <2>2, <2>3
  <1> HIDE DEF T
  <1>5. \A k \in Nat : k \in T
    BY <1>3, <1>4, SetInduction
  <1>6. QED
    BY <1>1, <1>2, <1>5 DEF T

LEMMA NoEvents == EventsOf(<< >>) = << >>
  <1>0. << >> \in Seq(Lines) /\ Len(<< >>) = 0
    OBVIOUS
  <1>1. PICK e : Taken(<< >>, e, 0) /\ EventsOf(<< >>) = e[0]
    BY <1>0, EventsTaken
  <1>2. QED
    BY <1>1 DEF Taken

(* One more line: its event, if it is one, comes last. *)
LEMMA OneMoreLine ==
  ASSUME NEW lines \in Seq(Lines), NEW line \in Lines
  PROVE  EventsOf(Append(lines, line)) =
           IF IsEvent(line) THEN Append(EventsOf(lines), line) ELSE EventsOf(lines)
  <1> DEFINE more == Append(lines, line)
  <1>1. PICK n \in Nat : n = Len(lines)
    OBVIOUS
  <1>2. /\ more \in Seq(Lines) /\ Len(more) = n + 1 /\ more[n + 1] = line
        /\ \A k \in 1..n : lines[k] = more[k]
    BY <1>1
  <1> HIDE DEF more
  <1>3. PICK e : Taken(lines, e, n) /\ EventsOf(lines) = e[n]
    BY <1>1, EventsTaken
  <1>4. PICK f : Taken(more, f, n + 1) /\ EventsOf(more) = f[n + 1]
    BY <1>2, EventsTaken
  <1>5. e[n] = f[n]
    BY <1>2, <1>3, <1>4, TakenAgrees, SMTT(30)
  <1>6. f[n + 1] = IF IsEvent(more[n + 1]) THEN Append(f[n], more[n + 1]) ELSE f[n]
    <2>1. n + 1 \in 0..(n + 1) /\ n + 1 # 0 /\ (n + 1) - 1 = n
      OBVIOUS
    <2>2. QED
      BY <1>4, <2>1 DEF Taken
  <1>7. QED
    BY <1>2, <1>3, <1>4, <1>5, <1>6 DEF more

-----------------------------------------------------------------------------
(* The file and its events are in the order they were written in, and the  *)
(* events are all that is recognised of the file.                          *)
InFileOrder ==
  /\ \A i \in DOMAIN file : file[i].id < written
  /\ \A i, j \in DOMAIN Events : i < j => Events[i].id < Events[j].id
  /\ \A i \in DOMAIN Events : Events[i].id < written
  /\ \A i \in DOMAIN file : IsEvent(file[i]) => \E j \in DOMAIN Events : Events[j] = file[i]

(* What has been returned was written before every event beyond the offset. *)
Behind ==
  /\ \A i \in DOMAIN delivered : delivered[i].id < written
  /\ \A i \in DOMAIN delivered, j \in DOMAIN Events : j > offset => delivered[i].id < Events[j].id

(* The offset counts events that have been returned, or that were written  *)
(* to an emptied file; unless that is so, it does not exceed the events.   *)
Accounted ==
  /\ readAt <= written
  /\ ~emptied => offset <= Len(Events)
  /\ \A j \in DOMAIN Events : j <= offset => Events[j].id < readAt \/ Events[j].id \in atRisk
  /\ \A j \in DOMAIN Events : Events[j].id < readAt /\ Events[j].id \notin atRisk =>
       \E i \in DOMAIN delivered : delivered[i] = Events[j]

SourceInv == InFileOrder /\ Behind /\ ReadOnceInOrder /\ Accounted

LEMMA SourceTypeNext == SourceTypeOK /\ [SourceNext]_sourceVars => SourceTypeOK'
  <1> SUFFICES ASSUME SourceTypeOK, [SourceNext]_sourceVars PROVE SourceTypeOK'
    OBVIOUS
  <1> USE DEF SourceTypeOK
  <1>1. ASSUME NEW kind \in Kinds, Emit(kind) PROVE SourceTypeOK'
    <2>1. [id |-> written, kind |-> kind] \in Lines
      BY DEF Lines
    <2>2. QED
      BY <1>1, <2>1 DEF Emit
  <1>2. CASE Truncate
    BY <1>2 DEF Truncate
  <1>3. CASE ReadNew
    <2>1. Events \in Seq(Lines) /\ Len(Events) \in Nat
      BY EventsType DEF Events
    <2>2. SubSeq(Events, offset + 1, Len(Events)) \in Seq(Lines)
      BY <2>1
    <2>3. delivered \o SubSeq(Events, offset + 1, Len(Events)) \in Seq(Lines)
      BY <2>2
    <2>4. QED
      BY <1>3, <2>1, <2>3 DEF ReadNew, NextOffset, capture
  <1>4. CASE UNCHANGED sourceVars
    BY <1>4 DEF sourceVars, capture, sourceHistory
  <1>5. QED
    BY <1>1, <1>2, <1>3, <1>4 DEF SourceNext, ReadRaises

(* What the steps do to the events. *)
LEMMA EmitMeans ==
  ASSUME SourceTypeOK, NEW kind \in Kinds, Emit(kind)
  PROVE  LET line == [id |-> written, kind |-> kind]
         IN /\ line \in Lines
            /\ file' = Append(file, line)
            /\ Events' = IF IsEvent(line) THEN Append(Events, line) ELSE Events
            /\ Events \in Seq(Lines) /\ Len(Events) \in Nat
  <1>1. [id |-> written, kind |-> kind] \in Lines
    BY DEF SourceTypeOK, Lines
  <1>2. QED
    BY <1>1, EventsType, OneMoreLine DEF SourceTypeOK, Emit, Events

LEMMA ReadMeans ==
  ASSUME SourceTypeOK, ReadNew
  PROVE  \E e, d \in Nat :
           /\ e = Len(Events) /\ d = Len(delivered) /\ DOMAIN Events = 1..e /\ DOMAIN delivered = 1..d
           /\ file' = file /\ Events' = Events /\ written' = written /\ atRisk' = atRisk
           /\ readAt' = written /\ emptied' = FALSE /\ offset' = e
           /\ \A i \in 1..d : i \in DOMAIN delivered' /\ delivered'[i] = delivered[i]
           /\ \A i \in DOMAIN delivered' : i \in 1..d \/ (i - d + offset \in (offset + 1)..e
                                                       /\ i > d /\ delivered'[i] = Events[i - d + offset])
           /\ \A j \in (offset + 1)..e : d + j - offset \in DOMAIN delivered'
                                         /\ delivered'[d + j - offset] = Events[j]
           /\ DOMAIN delivered' \subseteq Nat
  <1>1. Events \in Seq(Lines) /\ delivered \in Seq(Lines) /\ offset \in Nat
    BY EventsType DEF Events, SourceTypeOK
  <1>2. PICK e, d \in Nat : e = Len(Events) /\ d = Len(delivered)
    BY <1>1
  <1>3. DOMAIN Events = 1..e /\ DOMAIN delivered = 1..d
    BY <1>1, <1>2
  <1> DEFINE fresh == SubSeq(Events, offset + 1, Len(Events))
  <1>4. PICK n \in Nat : n = IF offset + 1 <= e THEN e - offset ELSE 0
    <2>1. CASE offset + 1 <= e
      <3>1. e - offset \in Nat
        BY <1>1, <2>1
      <3>2. QED
        BY <2>1, <3>1
    <2>2. CASE ~(offset + 1 <= e)
      BY <2>2
    <2>3. QED
      BY <2>1, <2>2
  <1>5. /\ fresh \in Seq(Lines) /\ Len(fresh) = n
        /\ \A k \in 1..n : fresh[k] = Events[offset + k]
    BY <1>1, <1>2, <1>4, SubSeqProperties, SMTT(30)
  <1> HIDE DEF fresh
  <1>6. /\ DOMAIN (delivered \o fresh) = 1..(d + n)
        /\ \A i \in 1..d : (delivered \o fresh)[i] = delivered[i]
        /\ \A i \in (d + 1)..(d + n) : (delivered \o fresh)[i] = fresh[i - d]
    <2>1. Len(delivered) = d /\ Len(fresh) = n /\ delivered \in Seq(Lines) /\ fresh \in Seq(Lines)
      BY <1>1, <1>2, <1>5
    <2>2. Len(delivered \o fresh) = d + n /\ delivered \o fresh \in Seq(Lines)
      BY <2>1
    <2>3. DOMAIN (delivered \o fresh) = 1..(d + n)
      BY <2>2
    <2>4. \A i \in 1..d : (delivered \o fresh)[i] = delivered[i]
      BY <2>1
    <2>5. \A i \in (d + 1)..(d + n) : (delivered \o fresh)[i] = fresh[i - d]
      BY <2>1
    <2>6. QED
      BY <2>3, <2>4, <2>5
  <1>7. delivered' = delivered \o fresh
    BY DEF ReadNew, fresh
  <1>8. \A i \in DOMAIN delivered' : i \in 1..d \/ (i - d + offset \in (offset + 1)..e
                                                       /\ i > d /\ delivered'[i] = Events[i - d + offset])
    <2> SUFFICES ASSUME NEW i \in (d + 1)..(d + n)
                 PROVE  i - d + offset \in (offset + 1)..e /\ i > d
                        /\ delivered'[i] = Events[i - d + offset]
      <3>1. \A i \in 1..(d + n) : i \in 1..d \/ i \in (d + 1)..(d + n)
        OBVIOUS
      <3>2. DOMAIN delivered' = 1..(d + n)
        BY <1>6, <1>7
      <3>3. QED
        BY <3>1, <3>2
    <2>1. i - d \in 1..n /\ offset + (i - d) = i - d + offset /\ i - d + offset \in (offset + 1)..e
      BY <1>1, <1>4
    <2>2. QED
      BY <1>5, <1>6, <1>7, <2>1
  <1>9. \A j \in (offset + 1)..e : d + j - offset \in DOMAIN delivered'
                                         /\ delivered'[d + j - offset] = Events[j]
    <2> SUFFICES ASSUME NEW j \in (offset + 1)..e
                 PROVE  d + j - offset \in DOMAIN delivered' /\ delivered'[d + j - offset] = Events[j]
      OBVIOUS
    <2>1. /\ d + j - offset \in (d + 1)..(d + n) /\ (d + j - offset) - d = j - offset
          /\ j - offset \in 1..n /\ offset + (j - offset) = j
      BY <1>1, <1>4
    <2> DEFINE i == d + j - offset
    <2>2. i \in (d + 1)..(d + n) /\ i - d \in 1..n /\ offset + (i - d) = j /\ i \in 1..(d + n)
      BY <1>1, <2>1
    <2> HIDE DEF i
    <2>3. delivered'[i] = fresh[i - d] /\ fresh[i - d] = Events[j]
      BY <1>5, <1>6, <1>7, <2>2
    <2>4. i \in DOMAIN delivered'
      BY <1>6, <1>7, <2>2
    <2>5. QED
      BY <2>3, <2>4 DEF i
  <1>10. \A i \in 1..d : i \in DOMAIN delivered' /\ delivered'[i] = delivered[i]
    BY <1>6, <1>7
  <1>11. DOMAIN delivered' \subseteq Nat
    BY <1>6, <1>7
  <1>12. /\ file' = file /\ Events' = Events /\ written' = written /\ atRisk' = atRisk
         /\ readAt' = written /\ emptied' = FALSE /\ offset' = e
    BY <1>2 DEF ReadNew, NextOffset, capture, Events
  <1>13. QED
    BY <1>2, <1>3, <1>8, <1>9, <1>10, <1>11, <1>12

(* A sequence of lines has lines for elements. *)
LEMMA IdsOfLines ==
  ASSUME NEW lines \in Seq(Lines)
  PROVE  /\ Len(lines) \in Nat /\ DOMAIN lines = 1..Len(lines)
         /\ \A i \in DOMAIN lines : lines[i].id \in Nat
  <1>1. Len(lines) \in Nat /\ DOMAIN lines = 1..Len(lines)
    OBVIOUS
  <1>2. \A i \in DOMAIN lines : lines[i] \in Lines
    OBVIOUS
  <1>3. QED
    BY <1>1, <1>2 DEF Lines

LEMMA SourceInvNext == SourceTypeOK /\ SourceTypeOK' /\ SourceInv /\ [SourceNext]_sourceVars => SourceInv'
  <1> SUFFICES ASSUME SourceTypeOK, SourceTypeOK', SourceInv, [SourceNext]_sourceVars
               PROVE  SourceInv'
    OBVIOUS
  <1>0. /\ written \in Nat /\ written' \in Nat /\ readAt \in Nat /\ offset \in Nat
        /\ delivered \in Seq(Lines) /\ file \in Seq(Lines)
        /\ \A i \in DOMAIN delivered : delivered[i].id \in Nat
        /\ \A i \in DOMAIN file : file[i].id \in Nat
    <2>1. /\ written \in Nat /\ written' \in Nat /\ readAt \in Nat /\ offset \in Nat
          /\ delivered \in Seq(Lines) /\ file \in Seq(Lines)
      BY DEF SourceTypeOK
    <2>2. QED
      BY <2>1, IdsOfLines
  <1>e. /\ Events \in Seq(Lines) /\ Len(Events) \in Nat /\ DOMAIN Events = 1..Len(Events)
        /\ \A i \in DOMAIN Events : Events[i].id \in Nat
    <2>1. Events \in Seq(Lines)
      BY EventsType DEF Events, SourceTypeOK
    <2>2. QED
      BY <2>1, IdsOfLines
  <1>1. ASSUME NEW kind \in Kinds, Emit(kind) PROVE SourceInv'
    <2> DEFINE line == [id |-> written, kind |-> kind]
    <2>1. /\ line \in Lines /\ line.id = written /\ file' = Append(file, line)
          /\ Events' = IF IsEvent(line) THEN Append(Events, line) ELSE Events
      BY <1>1, EmitMeans
    <2>2. /\ written' = written + 1 /\ offset' = offset /\ delivered' = delivered
          /\ readAt' = readAt /\ emptied' = emptied
          /\ atRisk' = IF emptied THEN atRisk \cup {written} ELSE atRisk
      BY <1>1 DEF Emit
    <2> HIDE DEF line
    <2>3. PICK n, f \in Nat : n = Len(Events) /\ f = Len(file)
      BY <1>e, IdsOfLines, <1>0
    <2>4. /\ DOMAIN file = 1..f /\ DOMAIN file' = 1..(f + 1) /\ file'[f + 1] = line
          /\ \A i \in 1..f : file'[i] = file[i]
      BY <1>0, <2>1, <2>3
    <2>5. /\ DOMAIN Events = 1..n
          /\ \A i \in 1..n : i \in DOMAIN Events' /\ Events'[i] = Events[i]
          /\ \A i \in DOMAIN Events' : i \in 1..n \/ (i = n + 1 /\ Events'[i] = line)
          /\ Len(Events') \in Nat /\ Len(Events') >= n
          /\ IsEvent(line) => n + 1 \in DOMAIN Events' /\ Events'[n + 1] = line
      BY <1>e, <2>1, <2>3
    <2>6. InFileOrder'
      <3>1. \A i \in DOMAIN file' : file'[i].id < written'
        <4>1. \A i \in 1..(f + 1) : i \in 1..f \/ i = f + 1
          OBVIOUS
        <4>2. \A i \in 1..f : file[i].id < written
          BY <2>4 DEF SourceInv, InFileOrder
        <4>3. QED
          BY <1>0, <2>1, <2>2, <2>4, <4>1, <4>2
      <3>2. \A i, j \in DOMAIN Events' : i < j => Events'[i].id < Events'[j].id
        <4> SUFFICES ASSUME NEW i \in DOMAIN Events', NEW j \in DOMAIN Events', i < j
                     PROVE  Events'[i].id < Events'[j].id
          OBVIOUS
        <4>1. CASE j \in 1..n
          <5>1. i \in 1..n
            BY <2>5, <4>1
          <5>2. QED
            BY <2>5, <4>1, <5>1 DEF SourceInv, InFileOrder
        <4>2. CASE j = n + 1 /\ Events'[j] = line
          <5>1. i \in 1..n
            BY <2>5, <4>2
          <5>2. QED
            BY <2>1, <2>5, <4>2, <5>1 DEF SourceInv, InFileOrder
        <4>3. QED
          BY <2>5, <4>1, <4>2
      <3>3. \A i \in DOMAIN Events' : Events'[i].id < written'
        <4>1. \A i \in 1..n : Events[i].id < written /\ Events[i].id \in Nat
          BY <1>e, <2>5 DEF SourceInv, InFileOrder
        <4>2. QED
          BY <1>0, <2>1, <2>2, <2>5, <4>1
      <3>4. ASSUME NEW i \in DOMAIN file', IsEvent(file'[i])
            PROVE  \E j \in DOMAIN Events' : Events'[j] = file'[i]
        <4>1. CASE i = f + 1
          BY <2>4, <2>5, <3>4, <4>1
        <4>2. CASE i \in 1..f
          <5>1. PICK j \in 1..n : Events[j] = file[i]
            BY <2>4, <2>5, <3>4, <4>2 DEF SourceInv, InFileOrder
          <5>2. QED
            BY <2>4, <2>5, <4>2, <5>1
        <4>3. QED
          BY <2>4, <4>1, <4>2
      <3>5. QED
        BY <3>1, <3>2, <3>3, <3>4 DEF InFileOrder
    <2>7. Behind'
      <3>1. \A i \in DOMAIN delivered : delivered[i].id < written /\ delivered[i].id \in Nat
        BY <1>0 DEF SourceInv, Behind
      <3>2. \A i \in DOMAIN delivered : delivered[i].id < written'
        BY <1>0, <2>2, <3>1
      <3>3. ASSUME NEW i \in DOMAIN delivered, NEW j \in DOMAIN Events', j > offset
            PROVE  delivered[i].id < Events'[j].id
        <4>1. CASE j \in 1..n
          BY <2>5, <3>3, <4>1 DEF SourceInv, Behind
        <4>2. CASE Events'[j] = line
          BY <2>1, <3>1, <4>2
        <4>3. QED
          BY <2>5, <4>1, <4>2
      <3>4. QED
        BY <2>2, <3>2, <3>3 DEF Behind
    <2>8. ReadOnceInOrder'
      BY <2>2 DEF SourceInv, ReadOnceInOrder
    <2>9. Accounted'
      <3>1. readAt' <= written'
        BY <1>0, <2>2 DEF SourceInv, Accounted
      <3>2. ~emptied' => offset' <= Len(Events')
        BY <1>0, <2>2, <2>3, <2>5 DEF SourceInv, Accounted
      <3>3. ASSUME NEW j \in DOMAIN Events', j <= offset
            PROVE  Events'[j].id < readAt \/ Events'[j].id \in atRisk'
        <4>1. CASE j \in 1..n
          BY <2>2, <2>5, <3>3, <4>1 DEF SourceInv, Accounted
        <4>2. CASE j = n + 1 /\ Events'[j] = line
          <5>1. emptied
            BY <1>0, <2>3, <3>3, <4>2 DEF SourceInv, Accounted
          <5>2. QED
            BY <2>1, <2>2, <4>2, <5>1
        <4>3. QED
          BY <2>5, <4>1, <4>2
      <3>4. ASSUME NEW j \in DOMAIN Events', Events'[j].id < readAt, Events'[j].id \notin atRisk'
            PROVE  \E i \in DOMAIN delivered : delivered[i] = Events'[j]
        <4>1. CASE j \in 1..n
          BY <2>2, <2>5, <3>4, <4>1 DEF SourceInv, Accounted
        <4>2. CASE j = n + 1 /\ Events'[j] = line
          BY <1>0, <2>1, <3>4, <4>2 DEF SourceInv, Accounted
        <4>3. QED
          BY <2>5, <4>1, <4>2
      <3>5. QED
        BY <2>2, <3>1, <3>2, <3>3, <3>4 DEF Accounted
    <2>10. QED
      BY <2>6, <2>7, <2>8, <2>9 DEF SourceInv
  <1>2. CASE Truncate
    <2>1. /\ file' = << >> /\ written' = written /\ offset' = offset /\ delivered' = delivered
          /\ readAt' = readAt /\ emptied' = TRUE /\ atRisk' = atRisk
      BY <1>2 DEF Truncate
    <2>2. Events' = << >>
      BY <2>1, NoEvents DEF Events
    <2>3. DOMAIN file' = {} /\ DOMAIN Events' = {}
      BY <2>1, <2>2
    <2>4. QED
      BY <2>1, <2>3 DEF SourceInv, InFileOrder, Behind, ReadOnceInOrder, Accounted
  <1>3. CASE ReadNew
    <2>1. PICK e, d \in Nat :
           /\ e = Len(Events) /\ d = Len(delivered) /\ DOMAIN Events = 1..e /\ DOMAIN delivered = 1..d
           /\ file' = file /\ Events' = Events /\ written' = written /\ atRisk' = atRisk
           /\ readAt' = written /\ emptied' = FALSE /\ offset' = e
           /\ \A i \in 1..d : i \in DOMAIN delivered' /\ delivered'[i] = delivered[i]
           /\ \A i \in DOMAIN delivered' : i \in 1..d \/ (i - d + offset \in (offset + 1)..e
                                                       /\ i > d /\ delivered'[i] = Events[i - d + offset])
           /\ \A j \in (offset + 1)..e : d + j - offset \in DOMAIN delivered'
                                         /\ delivered'[d + j - offset] = Events[j]
           /\ DOMAIN delivered' \subseteq Nat
      BY <1>3, ReadMeans
    <2>2. InFileOrder'
      BY <2>1 DEF SourceInv, InFileOrder
    <2>3. \A j \in (offset + 1)..e : j \in 1..e /\ j > offset
      BY <1>0
    <2>4. Behind'
      <3>1. \A i \in DOMAIN delivered' : delivered'[i].id < written
        BY <2>1, <2>3 DEF SourceInv, Behind, InFileOrder
      <3>2. \A j \in 1..e : ~(j > e)
        OBVIOUS
      <3>3. QED
        BY <2>1, <3>1, <3>2 DEF Behind
    <2>5. ReadOnceInOrder'
      <3> SUFFICES ASSUME NEW i \in DOMAIN delivered', NEW j \in DOMAIN delivered', i < j
                   PROVE  delivered'[i].id < delivered'[j].id
        BY DEF ReadOnceInOrder
      <3>1. CASE j \in 1..d
        <4>1. i \in 1..d
          BY <2>1, <3>1
        <4>2. QED
          BY <2>1, <3>1, <4>1 DEF SourceInv, ReadOnceInOrder
      <3>2. CASE i \in 1..d /\ j \notin 1..d
        BY <2>1, <2>3, <3>2 DEF SourceInv, Behind
      <3>3. CASE i \notin 1..d /\ j \notin 1..d
        <4>1. PICK k, m \in 1..e : k = i - d + offset /\ m = j - d + offset
          BY <2>1, <2>3, <3>3
        <4>2. k < m
          BY <1>0, <2>1, <4>1
        <4>3. delivered'[i] = Events[k] /\ delivered'[j] = Events[m]
          BY <2>1, <3>3, <4>1
        <4>4. QED
          BY <2>1, <4>2, <4>3 DEF SourceInv, InFileOrder
      <3>4. QED
        BY <3>1, <3>2, <3>3
    <2>6. Accounted'
      <3>1. \A j \in 1..e : Events[j].id < written
        BY <2>1 DEF SourceInv, InFileOrder
      <3>2. ASSUME NEW j \in 1..e, Events[j].id \notin atRisk
            PROVE  \E i \in DOMAIN delivered' : delivered'[i] = Events[j]
        <4>1. CASE j \in (offset + 1)..e
          BY <2>1, <4>1
        <4>2. CASE j \notin (offset + 1)..e
          <5>1. j <= offset
            BY <1>0, <4>2
          <5>2. Events[j].id < readAt
            BY <2>1, <3>2, <5>1 DEF SourceInv, Accounted
          <5>3. PICK i \in 1..d : delivered[i] = Events[j]
            BY <2>1, <3>2, <5>2 DEF SourceInv, Accounted
          <5>4. QED
            BY <2>1, <5>3
        <4>3. QED
          BY <4>1, <4>2
      <3>3. QED
        BY <1>0, <2>1, <3>1, <3>2 DEF Accounted
    <2>7. QED
      BY <2>2, <2>4, <2>5, <2>6 DEF SourceInv
  <1>4. CASE UNCHANGED sourceVars
    BY <1>4 DEF sourceVars, capture, sourceHistory, SourceInv, InFileOrder, Behind, ReadOnceInOrder,
                Accounted, Events
  <1>5. QED
    BY <1>1, <1>2, <1>3, <1>4 DEF SourceNext, ReadRaises

LEMMA SourceInitial == SourceInit => SourceTypeOK /\ SourceInv
  <1> SUFFICES ASSUME SourceInit PROVE SourceTypeOK /\ SourceInv
    OBVIOUS
  <1>1. /\ file = << >> /\ delivered = << >> /\ written = 0 /\ offset = 0 /\ readAt = 0 /\ atRisk = {}
        /\ emptied = FALSE /\ truncations = 0 /\ source \in Sources
    BY DEF SourceInit
  <1>2. Events = << >>
    BY <1>1, NoEvents DEF Events
  <1>3. SourceTypeOK
    <2>1. << >> \in Seq(Lines)
      OBVIOUS
    <2>2. QED
      BY <1>1, <2>1 DEF SourceTypeOK
  <1>4. DOMAIN file = {} /\ DOMAIN Events = {} /\ DOMAIN delivered = {} /\ Len(Events) = 0
    BY <1>1, <1>2
  <1>5. SourceInv
    BY <1>1, <1>4 DEF SourceInv, InFileOrder, Behind, ReadOnceInOrder, Accounted
  <1>6. QED
    BY <1>3, <1>5

LEMMA SourceInvariance == SourceSpec => [](SourceTypeOK /\ SourceInv)
  BY SourceInitial, SourceTypeNext, SourceInvNext, PTL DEF SourceSpec

(* The capture file, the offset and what was returned have their types,    *)
(* however often the file is emptied.                                      *)
THEOREM SourceTypeCorrect == SourceSpec => []SourceTypeOK
  BY SourceInvariance, PTL

(* read_new returns no event twice and none after a later one, for any     *)
(* lines, calls and restarts of the capture.                               *)
THEOREM EventsReadOnce == SourceSpec => []ReadOnceInOrder
  <1>1. SourceInv => ReadOnceInOrder
    BY DEF SourceInv
  <1>2. QED
    BY <1>1, SourceInvariance, PTL

(* What read_new skips was written to an emptied file before the next      *)
(* call, and nothing else.                                                 *)
THEOREM NothingElseSkipped == SourceSpec => []NothingSkipped
  <1>1. SourceInv => NothingSkipped
    BY DEF SourceInv, InFileOrder, Accounted, NothingSkipped
  <1>2. QED
    BY <1>1, SourceInvariance, PTL
=============================================================================
