------------------------- MODULE ProofOfPossession -------------------------
(***************************************************************************)
(* Proof of possession in the service domain: identity/proof.py with the   *)
(* registry lookups that guard it.                                         *)
(*                                                                         *)
(* NonceIssuer._issued, ProofStore._verified and the registry are plain    *)
(* dictionaries shared by the request threads of the HTTP service          *)
(* (synchronous FastAPI endpoints run in a thread pool, and no lock        *)
(* protects them).  One dictionary operation is atomic; everything between *)
(* two of them interleaves with the other threads.  An action is therefore *)
(* one clock read or one dictionary operation of one thread.               *)
(*                                                                         *)
(* A proof is the nonce it names and the key that signed that nonce.       *)
(* Every caller builds it for the device it asks about, so the verifier's  *)
(* POP_DEVICE_ID_MISMATCH branch has no input here.                        *)
(***************************************************************************)
EXTENDS Naturals, Vocabulary

CONSTANTS
  Devices,          \* device identifiers
  Ed25519Devices,   \* those registered with an Ed25519 public key
  Nonces,           \* values secrets.token_bytes may return
  Threads,          \* request threads of the service
  NonceTtl,         \* evidence.nonce_ttl_s
  ProofTtl,         \* evidence.proof_of_possession_ttl_s
  MaxClock,         \* bound on the clock
  Garbled           \* a signature no registered key made

Instants == 0..MaxClock
NonceRecords == [device : Devices, issued_at : Nat, expires_at : Nat]
Proofs == [verified_at : Nat, nonce : Nonces]

ASSUME TtlAssumption == NonceTtl \in Nat /\ ProofTtl \in Nat /\ MaxClock \in Nat
ASSUME KeyAssumption == Ed25519Devices \subseteq Devices
ASSUME NoneAssumption ==
  /\ None \notin NonceRecords
  /\ None \notin Proofs
  /\ None \notin Devices
  /\ None \notin Nonces

VARIABLES
  deployment,   \* one of Deployments, chosen once
  clock,        \* Clock.now()
  registered,   \* keys of DeviceIdentityRegistry._devices
  issued,       \* NonceIssuer._issued; None where the key is absent
  verified,     \* ProofStore._verified; None where the key is absent
  pc,           \* what each thread does next
  loc,          \* the local variables of each thread
  origin,       \* history: the record each nonce was first issued with
  accepted      \* history: how often each nonce was accepted

shared == <<deployment, clock, registered, issued, verified>>
history == <<origin, accepted>>
vars == <<shared, pc, loc, history>>

PCs == {"idle", "clock", "pop", "check", "record", "get", "drop", "scan", "purge"}

Locals == [dev : Devices \cup {None}, nonce : Nonces \cup {None},
           sig : Devices \cup {Garbled}, now : Nat, cnow : Nat,
           keys : SUBSET Nonces]

NoLocals == [dev |-> None, nonce |-> None, sig |-> Garbled, now |-> 0,
             cnow |-> 0, keys |-> {}]

(* The handler of thread t ends: it returns, or an exception leaves it. *)
Finish(t) == /\ pc' = [pc EXCEPT ![t] = "idle"]
             /\ loc' = [loc EXCEPT ![t] = NoLocals]

Init == /\ deployment \in Deployments
        /\ clock = 0
        /\ registered = {}
        /\ issued = [n \in Nonces |-> None]
        /\ verified = [d \in Devices |-> None]
        /\ pc = [t \in Threads |-> "idle"]
        /\ loc = [t \in Threads |-> NoLocals]
        /\ origin = [n \in Nonces |-> None]
        /\ accepted = [n \in Nonces |-> 0]

Tick == /\ clock < MaxClock
        /\ clock' = clock + 1
        /\ UNCHANGED <<deployment, registered, issued, verified, pc, loc, history>>

(* Thread t takes a request up. *)
Starts(t) == /\ pc[t] = "idle"
             /\ deployment = "local" => \A u \in Threads : pc[u] = "idle"

(* DeviceIdentityRegistry.register: a second enrolment is refused. *)
Register(d) == /\ d \notin registered
               /\ registered' = registered \cup {d}
               /\ UNCHANGED <<deployment, clock, issued, verified, pc, loc, history>>

-----------------------------------------------------------------------------
(* NonceIssuer.issue: store a fresh record, then purge the expired ones.   *)
(* The random nonce has never been used before.                            *)

(* Mutant: the last instant of a nonce's life already counts as expired. *)
NonceExpiredEarly(rec, now) == now >= rec.expires_at

NonceExpired(rec, now) == now > rec.expires_at

(* The keys of _issued. *)
Outstanding == {n \in Nonces : issued[n] # None}

Issue(t, d, n) ==
  LET rec == [device |-> d, issued_at |-> clock, expires_at |-> clock + NonceTtl]
  IN /\ Starts(t)
     /\ d \in registered
     /\ origin[n] = None
     /\ issued' = [issued EXCEPT ![n] = rec]
     /\ origin' = [origin EXCEPT ![n] = rec]
     /\ pc' = [pc EXCEPT ![t] = "scan"]
     /\ loc' = [loc EXCEPT ![t] = [NoLocals EXCEPT !.now = clock,
                                                   !.keys = Outstanding \cup {n}]]
     /\ UNCHANGED <<deployment, clock, registered, verified, accepted>>

(* _purge lists the expired keys first ... *)
PurgeScan(t) ==
  /\ pc[t] = "scan"
  /\ pc' = [pc EXCEPT ![t] = "purge"]
  /\ loc' = [loc EXCEPT ![t].keys =
                {n \in Outstanding : NonceExpired(issued[n], loc[t].now)}]
  /\ UNCHANGED <<shared, history>>

(* ... the iteration may raise when another thread has added or removed a *)
(* key since ...                                                          *)
PurgeScanRaises(t) ==
  /\ pc[t] = "scan"
  /\ Outstanding # loc[t].keys
  /\ Finish(t)
  /\ UNCHANGED <<shared, history>>

(* ... and then deletes them one by one; del of a key that another thread *)
(* has removed meanwhile raises KeyError, which leaves the rest in place. *)
PurgeDelete(t) ==
  /\ pc[t] = "purge"
  /\ \/ /\ loc[t].keys = {}
        /\ Finish(t)
        /\ UNCHANGED issued
     \/ \E n \in loc[t].keys :
          \/ /\ issued[n] = None
             /\ Finish(t)
             /\ UNCHANGED issued
          \/ /\ issued[n] # None
             /\ issued' = [issued EXCEPT ![n] = None]
             /\ loc' = [loc EXCEPT ![t].keys = @ \ {n}]
             /\ UNCHANGED pc
  /\ UNCHANGED <<deployment, clock, registered, verified, history>>

-----------------------------------------------------------------------------
(* ProofVerifier.verify followed by ProofStore.record, for a request that  *)
(* carries a proof and whose device is registered.                         *)

(* verify reads the clock: that instant becomes verified_at. *)
BeginVerify(t, d, n, s) ==
  /\ Starts(t)
  /\ d \in registered
  /\ origin[n] # None
  /\ pc' = [pc EXCEPT ![t] = "clock"]
  /\ loc' = [loc EXCEPT ![t] = [NoLocals EXCEPT !.dev = d, !.nonce = n,
                                                !.sig = s, !.now = clock]]
  /\ UNCHANGED <<shared, history>>

(* consume reads the clock again. *)
ConsumeClock(t) == /\ pc[t] = "clock"
                   /\ pc' = [pc EXCEPT ![t] = "pop"]
                   /\ loc' = [loc EXCEPT ![t].cnow = clock]
                   /\ UNCHANGED <<shared, history>>

(* Mutant: the nonce may have been issued to another device. *)
AcceptableFromAnyDevice(rec, d, now) == rec # None /\ ~NonceExpired(rec, now)

(* The record a consume accepts: known, of this device, not expired. *)
Acceptable(rec, d, now) == /\ rec # None
                           /\ rec.device = d
                           /\ ~NonceExpired(rec, now)

(* Mutant: the nonce is read and left in place. *)
ConsumePeek(t) ==
  LET n == loc[t].nonce
  IN /\ pc[t] = "pop"
     /\ \/ /\ Acceptable(issued[n], loc[t].dev, loc[t].cnow)
           /\ accepted' = [accepted EXCEPT ![n] = @ + 1]
           /\ pc' = [pc EXCEPT ![t] = "check"]
           /\ UNCHANGED loc
        \/ /\ ~Acceptable(issued[n], loc[t].dev, loc[t].cnow)
           /\ Finish(t)
           /\ UNCHANGED accepted
     /\ UNCHANGED <<shared, origin>>

(* consume pops the nonce whatever it then finds in the record. *)
ConsumePop(t) ==
  LET n == loc[t].nonce
  IN /\ pc[t] = "pop"
     /\ issued' = [issued EXCEPT ![n] = None]
     /\ \/ /\ Acceptable(issued[n], loc[t].dev, loc[t].cnow)
           /\ accepted' = [accepted EXCEPT ![n] = @ + 1]
           /\ pc' = [pc EXCEPT ![t] = "check"]
           /\ UNCHANGED loc
        \/ /\ ~Acceptable(issued[n], loc[t].dev, loc[t].cnow)
           /\ Finish(t)
           /\ UNCHANGED accepted
     /\ UNCHANGED <<deployment, clock, registered, verified, origin>>

(* The signature over the nonce is checked against the registered key. *)
SignatureValid(d, s) == d \in Ed25519Devices /\ s = d

CheckSignature(t) ==
  /\ pc[t] = "check"
  /\ \/ /\ SignatureValid(loc[t].dev, loc[t].sig)
        /\ pc' = [pc EXCEPT ![t] = "record"]
        /\ UNCHANGED loc
     \/ /\ ~SignatureValid(loc[t].dev, loc[t].sig)
        /\ Finish(t)
  /\ UNCHANGED <<shared, history>>

RecordProof(t) ==
  /\ pc[t] = "record"
  /\ verified' = [verified EXCEPT ![loc[t].dev] =
                    [verified_at |-> loc[t].now, nonce |-> loc[t].nonce]]
  /\ Finish(t)
  /\ UNCHANGED <<deployment, clock, registered, issued, history>>

-----------------------------------------------------------------------------
(* ProofStore.get, for a request without a proof.  The decision's instant  *)
(* was read before the lookup.                                             *)

BeginLookup(t, d) ==
  /\ Starts(t)
  /\ d \in registered
  /\ pc' = [pc EXCEPT ![t] = "get"]
  /\ loc' = [loc EXCEPT ![t] = [NoLocals EXCEPT !.dev = d, !.now = clock]]
  /\ UNCHANGED <<shared, history>>

(* now - verified_at > ttl; the difference may be negative in the code. *)
ProofExpired(proof, now) == now > proof.verified_at + ProofTtl

(* Mutant: a lookup uses the stored proof up. *)
LookupGetOnce(t) ==
  /\ pc[t] = "get"
  /\ IF verified[loc[t].dev] # None
     THEN pc' = [pc EXCEPT ![t] = "drop"] /\ UNCHANGED loc
     ELSE Finish(t)
  /\ UNCHANGED <<shared, history>>

LookupGet(t) ==
  LET stored == verified[loc[t].dev]
      expired == stored # None /\ ProofExpired(stored, loc[t].now)
  IN /\ pc[t] = "get"
     /\ \/ /\ expired
           /\ pc' = [pc EXCEPT ![t] = "drop"]
           /\ UNCHANGED loc
        \/ /\ ~expired
           /\ Finish(t)
     /\ UNCHANGED <<shared, history>>

(* del self._verified[device_id] removes whatever is there by now, and *)
(* raises KeyError when nothing is.                                     *)
LookupDrop(t) ==
  /\ pc[t] = "drop"
  /\ verified' = [verified EXCEPT ![loc[t].dev] = None]
  /\ Finish(t)
  /\ UNCHANGED <<deployment, clock, registered, issued, history>>

-----------------------------------------------------------------------------
Step(t) ==
  \/ \E d \in Devices, n \in Nonces : Issue(t, d, n)
  \/ \E d \in Devices, n \in Nonces, s \in Devices \cup {Garbled} : BeginVerify(t, d, n, s)
  \/ \E d \in Devices : BeginLookup(t, d)
  \/ PurgeScan(t) \/ PurgeScanRaises(t) \/ PurgeDelete(t)
  \/ ConsumeClock(t) \/ ConsumePop(t) \/ CheckSignature(t) \/ RecordProof(t)
  \/ LookupGet(t) \/ LookupDrop(t)

Next == \/ Tick
        \/ \E d \in Devices : Register(d)
        \/ \E t \in Threads : Step(t)

Spec == Init /\ [][Next]_vars

-----------------------------------------------------------------------------
(* The dictionaries hold records of the declared shapes and every thread   *)
(* is at a known point of its handler.                                     *)
TypeOK == /\ deployment \in Deployments
          /\ clock \in Nat
          /\ registered \subseteq Devices
          /\ issued \in [Nonces -> NonceRecords \cup {None}]
          /\ verified \in [Devices -> Proofs \cup {None}]
          /\ pc \in [Threads -> PCs]
          /\ loc \in [Threads -> Locals]
          /\ origin \in [Nonces -> NonceRecords \cup {None}]
          /\ accepted \in [Nonces -> Nat]

(* A nonce is accepted at most once, whatever the threads that present it  *)
(* and the purges do: the "single-use" of NonceIssuer.                     *)
NonceSingleUse == \A n \in Nonces : accepted[n] <= 1

(* Every stored proof rests on a nonce that was issued to that very device, *)
(* and its verified_at, from which ProofStore counts the lifetime, lies     *)
(* within the life of that nonce although the two clocks verify and consume *)
(* read are read at different steps.                                        *)
ProofWithinNonceLife ==
  \A d \in Devices :
    verified[d] # None =>
      LET o == origin[verified[d].nonce]
      IN /\ o # None
         /\ o.device = d
         /\ o.issued_at <= verified[d].verified_at
         /\ verified[d].verified_at <= o.expires_at

(* The strengthening that makes the two invariants above inductive: what   *)
(* _issued holds is what was issued and has not been accepted, and what a  *)
(* thread has read about a nonce stays true of it.                         *)
IssuedAsRecorded ==
  \A n \in Nonces :
    /\ issued[n] # None => issued[n] = origin[n] /\ accepted[n] = 0
    /\ origin[n] = None => accepted[n] = 0
    /\ origin[n] # None =>
         /\ origin[n].issued_at <= clock
         /\ origin[n].expires_at = origin[n].issued_at + NonceTtl

Verifying(t) == pc[t] \in {"clock", "pop", "check", "record"}

ThreadKnows(t) ==
  /\ Verifying(t) =>
       /\ loc[t].dev \in Devices
       /\ loc[t].nonce \in Nonces
       /\ origin[loc[t].nonce] # None
       /\ origin[loc[t].nonce].issued_at <= loc[t].now
       /\ loc[t].now <= clock
  /\ pc[t] \in {"pop", "check", "record"} => loc[t].now <= loc[t].cnow
  /\ pc[t] \in {"check", "record"} =>
       /\ origin[loc[t].nonce].device = loc[t].dev
       /\ loc[t].cnow <= origin[loc[t].nonce].expires_at
  /\ pc[t] \in {"get", "drop"} => loc[t].dev \in Devices

ThreadsKnow == \A t \in Threads : ThreadKnows(t)

IInv == /\ TypeOK
        /\ IssuedAsRecorded
        /\ ThreadsKnow
        /\ NonceSingleUse
        /\ ProofWithinNonceLife

(* A nonce that is still alive leaves _issued only because a request       *)
(* consumed it; issuing other nonces, with the purge that follows, never   *)
(* takes a live challenge away from the device it was sent to.             *)
LiveNonceLeavesByUse ==
  [][\A n \in Nonces :
       (issued[n] # None /\ issued'[n] = None) =>
          \/ clock > issued[n].expires_at
          \/ \E t \in Threads : pc[t] = "pop" /\ loc[t].nonce = n /\ pc'[t] # "pop"]_vars

(* ProofStore "remembers the most recent successful proof-of-possession    *)
(* per device" and discards "an entry past its lifetime": in a single      *)
(* process a proof gives way to a later one, or leaves once its lifetime   *)
(* is over.  Two threads may record in either order, and get may delete    *)
(* the proof that was recorded since it looked.                            *)
ProofKept ==
  [][deployment = "local" => \A d \in Devices :
       (verified[d] # None /\ verified'[d] # verified[d]) =>
          IF verified'[d] = None THEN ProofExpired(verified[d], clock)
          ELSE verified[d].verified_at <= verified'[d].verified_at]_vars
=============================================================================
