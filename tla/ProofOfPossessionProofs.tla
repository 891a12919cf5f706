---------------------- MODULE ProofOfPossessionProofs ----------------------
(***************************************************************************)
(* Proofs about ProofOfPossession for any number of devices, nonces and    *)
(* request threads and any lifetimes.                                      *)
(***************************************************************************)
EXTENDS ProofOfPossession, TLAPS

(* Membership in the local record of a thread, field by field. *)
LEMMA LocalsType ==
  ASSUME NEW l \in Locals
  PROVE  /\ l.dev \in Devices \cup {None} /\ l.nonce \in Nonces \cup {None}
         /\ l.sig \in Devices \cup {Garbled} /\ l.now \in Nat /\ l.cnow \in Nat
         /\ l.keys \in SUBSET Nonces
  BY DEF Locals

LEMMA NoLocalsType == NoLocals \in Locals
  BY DEF NoLocals, Locals

(* The type invariant holds initially and every action keeps it; that a    *)
(* stored proof names a nonce needs ThreadsKnow.                           *)
LEMMA TypeInit == Init => TypeOK
  BY NoLocalsType DEF Init, TypeOK, PCs

LEMMA TypeNext == TypeOK /\ ThreadsKnow /\ [Next]_vars => TypeOK'
  <1> SUFFICES ASSUME TypeOK, ThreadsKnow, [Next]_vars PROVE TypeOK'
    OBVIOUS
  <1> USE NoneAssumption, TtlAssumption DEF TypeOK
  <1>1. CASE Tick
    BY <1>1 DEF Tick, history
  <1>2. ASSUME NEW d \in Devices, Register(d) PROVE TypeOK'
    BY <1>2 DEF Register, history
  <1>3. ASSUME NEW t \in Threads, NEW d \in Devices, NEW n \in Nonces, Issue(t, d, n)
        PROVE TypeOK'
    <2> DEFINE rec == [device |-> d, issued_at |-> clock, expires_at |-> clock + NonceTtl]
    <2>1. rec \in NonceRecords
      BY DEF NonceRecords
    <2>2. [NoLocals EXCEPT !.now = clock, !.keys = Outstanding \cup {n}] \in Locals
      BY DEF NoLocals, Locals, Outstanding
    <2>3. QED
      BY <1>3, <2>1, <2>2 DEF Issue, PCs
  <1>4. ASSUME NEW t \in Threads, NEW d \in Devices, NEW n \in Nonces,
               NEW s \in Devices \cup {Garbled}, BeginVerify(t, d, n, s)
        PROVE TypeOK'
    <2>1. [NoLocals EXCEPT !.dev = d, !.nonce = n, !.sig = s, !.now = clock] \in Locals
      BY DEF NoLocals, Locals
    <2>2. QED
      BY <1>4, <2>1 DEF BeginVerify, PCs, shared, history
  <1>5. ASSUME NEW t \in Threads, NEW d \in Devices, BeginLookup(t, d)
        PROVE TypeOK'
    <2>1. [NoLocals EXCEPT !.dev = d, !.now = clock] \in Locals
      BY DEF NoLocals, Locals
    <2>2. QED
      BY <1>5, <2>1 DEF BeginLookup, PCs, shared, history
  <1>6. ASSUME NEW t \in Threads, PurgeScan(t) PROVE TypeOK'
    <2>1. [loc[t] EXCEPT !.keys = {n \in Outstanding : NonceExpired(issued[n], loc[t].now)}]
             \in Locals
      BY DEF Locals, Outstanding
    <2>2. QED
      BY <1>6, <2>1 DEF PurgeScan, PCs, shared, history
  <1>7. ASSUME NEW t \in Threads, PurgeScanRaises(t) PROVE TypeOK'
    BY <1>7, NoLocalsType DEF PurgeScanRaises, Finish, PCs, shared, history
  <1>8. ASSUME NEW t \in Threads, PurgeDelete(t) PROVE TypeOK'
    <2>1. ASSUME NEW n PROVE [loc[t] EXCEPT !.keys = loc[t].keys \ {n}] \in Locals
      BY SMTT(30) DEF Locals
    <2>2. CASE Finish(t) /\ UNCHANGED issued
      BY <1>8, <2>2, NoLocalsType DEF PurgeDelete, Finish, PCs, history
    <2>3. ASSUME NEW n \in loc[t].keys,
                 issued' = [issued EXCEPT ![n] = None],
                 loc' = [loc EXCEPT ![t] = [loc[t] EXCEPT !.keys = loc[t].keys \ {n}]],
                 UNCHANGED pc
          PROVE  TypeOK'
      BY <1>8, <2>1, <2>3 DEF PurgeDelete, history
    <2>4. QED
      BY <1>8, <2>2, <2>3 DEF PurgeDelete
  <1>9. ASSUME NEW t \in Threads, ConsumeClock(t) PROVE TypeOK'
    <2>1. [loc[t] EXCEPT !.cnow = clock] \in Locals
      BY SMTT(30) DEF Locals
    <2>2. QED
      BY <1>9, <2>1 DEF ConsumeClock, PCs, shared, history
  <1>10. ASSUME NEW t \in Threads, ConsumePop(t) PROVE TypeOK'
    <2>1. issued' \in [Nonces -> NonceRecords \cup {None}]
      BY <1>10 DEF ConsumePop
    <2>2. accepted' \in [Nonces -> Nat]
      BY <1>10 DEF ConsumePop
    <2>3. pc' \in [Threads -> PCs] /\ loc' \in [Threads -> Locals]
      BY <1>10, NoLocalsType DEF ConsumePop, Finish, PCs
    <2>4. QED
      BY <1>10, <2>1, <2>2, <2>3 DEF ConsumePop
  <1>11. ASSUME NEW t \in Threads, CheckSignature(t) PROVE TypeOK'
    BY <1>11, NoLocalsType DEF CheckSignature, Finish, PCs, shared, history
  <1>12. ASSUME NEW t \in Threads, LookupGet(t) PROVE TypeOK'
    BY <1>12, NoLocalsType DEF LookupGet, Finish, PCs, shared, history
  <1>13. ASSUME NEW t \in Threads, LookupDrop(t) PROVE TypeOK'
    BY <1>13, NoLocalsType DEF LookupDrop, Finish, PCs, history
  <1>14. ASSUME NEW t \in Threads, RecordProof(t) PROVE TypeOK'
    <2>1. [verified_at |-> loc[t].now, nonce |-> loc[t].nonce] \in Proofs
      BY <1>14 DEF RecordProof, ThreadsKnow, ThreadKnows, Verifying, Proofs, Locals
    <2>2. QED
      BY <1>14, <2>1, NoLocalsType DEF RecordProof, Finish, PCs, history
  <1>15. CASE UNCHANGED vars
    BY <1>15 DEF vars, shared, history
  <1> QED
    BY <1>1, <1>2, <1>3, <1>4, <1>5, <1>6, <1>7, <1>8, <1>9, <1>10, <1>11, <1>12, <1>13,
       <1>14, <1>15 DEF Next, Step

-----------------------------------------------------------------------------
(* A pop and a purge only remove entries of _issued, and accepting counts  *)
(* a nonce that was still there: the reason a nonce counts once.           *)
LEMMA IssuedNext ==
  TypeOK /\ IssuedAsRecorded /\ NonceSingleUse /\ [Next]_vars
    => IssuedAsRecorded' /\ NonceSingleUse'
  <1> SUFFICES ASSUME TypeOK, IssuedAsRecorded, NonceSingleUse, [Next]_vars
               PROVE  IssuedAsRecorded' /\ NonceSingleUse'
    OBVIOUS
  <1> USE NoneAssumption, TtlAssumption DEF TypeOK, IssuedAsRecorded, NonceSingleUse
  <1>1. CASE Tick
    BY <1>1 DEF Tick, history, NonceRecords
  <1>2. ASSUME NEW t \in Threads, NEW d \in Devices, NEW n \in Nonces, Issue(t, d, n)
        PROVE IssuedAsRecorded' /\ NonceSingleUse'
    <2> DEFINE rec == [device |-> d, issued_at |-> clock, expires_at |-> clock + NonceTtl]
    <2>1. rec \in NonceRecords /\ rec # None
      BY DEF NonceRecords
    <2>2. QED
      BY <1>2, <2>1 DEF Issue
  <1>3. ASSUME NEW t \in Threads, PurgeDelete(t)
        PROVE IssuedAsRecorded' /\ NonceSingleUse'
    BY <1>3 DEF PurgeDelete, history
  <1>4. ASSUME NEW t \in Threads, ConsumePop(t)
        PROVE IssuedAsRecorded' /\ NonceSingleUse'
    BY <1>4 DEF ConsumePop, Acceptable
  <1>5. ASSUME UNCHANGED <<clock, issued, origin, accepted>>
        PROVE IssuedAsRecorded' /\ NonceSingleUse'
    BY <1>5
  <1> QED
    BY <1>1, <1>2, <1>3, <1>4, <1>5
       DEF Next, Step, vars, shared, history, Register, BeginVerify, BeginLookup, PurgeScan,
           PurgeScanRaises, ConsumeClock, CheckSignature, RecordProof, LookupGet, LookupDrop

-----------------------------------------------------------------------------
(* An issued record never changes and the clock only advances, so what a   *)
(* thread knows of its nonce survives the steps of the others.             *)
LEMMA OriginStable ==
  TypeOK /\ [Next]_vars => \A n \in Nonces : origin[n] # None => origin'[n] = origin[n]
  BY ZenonT(30) DEF Next, Step, vars, shared, history, Tick, Register, Issue, BeginVerify, BeginLookup,
         PurgeScan, PurgeScanRaises, PurgeDelete, ConsumeClock, ConsumePop, CheckSignature,
         RecordProof, LookupGet, LookupDrop, TypeOK

LEMMA ClockAdvances ==
  TypeOK /\ [Next]_vars => clock' \in Nat /\ clock <= clock'
  <1>1. [Next]_vars => clock' = clock \/ clock' = clock + 1
    BY DEF Next, Step, vars, shared, history, Tick, Register, Issue, BeginVerify, BeginLookup,
           PurgeScan, PurgeScanRaises, PurgeDelete, ConsumeClock, ConsumePop, CheckSignature,
           RecordProof, LookupGet, LookupDrop
  <1> QED
    BY <1>1 DEF TypeOK

LEMMA KnowledgeStable ==
  ASSUME TypeOK, [Next]_vars, NEW t \in Threads, ThreadKnows(t),
         pc'[t] = pc[t], loc'[t] = loc[t]
  PROVE  ThreadKnows(t)'
  <1>1. loc[t].now \in Nat
    BY DEF TypeOK, Locals
  <1> QED
    BY <1>1, OriginStable, ClockAdvances DEF ThreadKnows, Verifying, TypeOK

LEMMA ThreadsNext ==
  TypeOK /\ IssuedAsRecorded /\ ThreadsKnow /\ [Next]_vars => ThreadsKnow'
  <1> SUFFICES ASSUME TypeOK, IssuedAsRecorded, ThreadsKnow, [Next]_vars,
                      NEW t \in Threads
               PROVE  ThreadKnows(t)'
    BY DEF ThreadsKnow
  <1> USE NoneAssumption, TtlAssumption
  <1>0. ThreadKnows(t) /\ loc[t] \in Locals
    BY DEF ThreadsKnow, TypeOK
  <1>1. CASE pc'[t] = pc[t] /\ loc'[t] = loc[t]
    BY <1>0, <1>1, KnowledgeStable
  <1>2. CASE pc'[t] \in {"idle", "scan", "purge"}
    BY <1>2 DEF ThreadKnows, Verifying
  <1>3. ASSUME NEW d \in Devices, NEW n \in Nonces, NEW s \in Devices \cup {Garbled},
               BeginVerify(t, d, n, s)
        PROVE  ThreadKnows(t)'
    BY <1>3 DEF BeginVerify, ThreadKnows, Verifying, TypeOK, NoLocals, IssuedAsRecorded,
                shared, history
  <1>4. ASSUME NEW d \in Devices, BeginLookup(t, d) PROVE ThreadKnows(t)'
    BY <1>4 DEF BeginLookup, ThreadKnows, Verifying, TypeOK, NoLocals
  <1>5. CASE ConsumeClock(t)
    BY <1>0, <1>5 DEF ConsumeClock, ThreadKnows, Verifying, TypeOK, Locals, shared, history
  <1>6. CASE ConsumePop(t)
    <2>1. CASE ~Acceptable(issued[loc[t].nonce], loc[t].dev, loc[t].cnow)
      BY <1>2, <1>6, <2>1 DEF ConsumePop, Finish, TypeOK
    <2>2. CASE Acceptable(issued[loc[t].nonce], loc[t].dev, loc[t].cnow)
      <3>1. loc[t].nonce \in Nonces /\ issued[loc[t].nonce] = origin[loc[t].nonce]
        BY <1>0, <1>6, <2>2 DEF ConsumePop, ThreadKnows, Verifying, IssuedAsRecorded, Acceptable
      <3>2. /\ origin[loc[t].nonce].device = loc[t].dev
            /\ loc[t].cnow <= origin[loc[t].nonce].expires_at
        BY <1>0, <2>2, <3>1 DEF Acceptable, NonceExpired, TypeOK, NonceRecords, Locals
      <3>3. QED
        BY <1>0, <1>6, <2>2, <3>2 DEF ConsumePop, ThreadKnows, Verifying, TypeOK
    <2>3. QED
      BY <2>1, <2>2
  <1>7. CASE CheckSignature(t)
    BY <1>0, <1>2, <1>7 DEF CheckSignature, Finish, ThreadKnows, Verifying, TypeOK, shared, history
  <1>8. CASE LookupGet(t)
    BY <1>0, <1>2, <1>8 DEF LookupGet, Finish, ThreadKnows, Verifying, TypeOK, shared, history
  <1>9. \/ pc'[t] = pc[t] /\ loc'[t] = loc[t]
        \/ pc'[t] \in {"idle", "scan", "purge"}
        \/ \E d \in Devices, n \in Nonces, s \in Devices \cup {Garbled} : BeginVerify(t, d, n, s)
        \/ \E d \in Devices : BeginLookup(t, d)
        \/ ConsumeClock(t) \/ ConsumePop(t) \/ CheckSignature(t) \/ LookupGet(t)
    <2>1. ASSUME NEW u \in Threads, Step(u), u # t
          PROVE  pc'[t] = pc[t] /\ loc'[t] = loc[t]
      BY <2>1 DEF Step, Issue, BeginVerify, BeginLookup, PurgeScan, PurgeScanRaises,
                  PurgeDelete, ConsumeClock, ConsumePop, CheckSignature, RecordProof,
                  LookupGet, LookupDrop, Finish, TypeOK
    <2>2. ASSUME \/ \E d \in Devices, n \in Nonces : Issue(t, d, n)
                 \/ PurgeScan(t) \/ PurgeScanRaises(t) \/ PurgeDelete(t)
                 \/ RecordProof(t) \/ LookupDrop(t)
          PROVE  pc'[t] \in {"idle", "scan", "purge"}
      BY <2>2 DEF Issue, PurgeScan, PurgeScanRaises, PurgeDelete, RecordProof, LookupDrop,
                  Finish, TypeOK
    <2>3. ASSUME Tick \/ (\E d \in Devices : Register(d)) \/ UNCHANGED vars
          PROVE  pc'[t] = pc[t] /\ loc'[t] = loc[t]
      BY <2>3 DEF Tick, Register, vars
    <2>4. QED
      BY <2>1, <2>2, <2>3 DEF Next, Step
  <1> QED
    BY <1>1, <1>2, <1>3, <1>4, <1>5, <1>6, <1>7, <1>8, <1>9

-----------------------------------------------------------------------------
(* Only RecordProof stores a proof, and the recording thread knows that    *)
(* now <= cnow <= expires_at for a nonce of its own device.                *)
LEMMA ProofsNext ==
  TypeOK /\ ThreadsKnow /\ ProofWithinNonceLife /\ [Next]_vars => ProofWithinNonceLife'
  <1> SUFFICES ASSUME TypeOK, ThreadsKnow, ProofWithinNonceLife, [Next]_vars,
                      NEW d \in Devices, verified'[d] # None
               PROVE  LET o == origin'[verified'[d].nonce]
                      IN /\ o # None
                         /\ o.device = d
                         /\ o.issued_at <= verified'[d].verified_at
                         /\ verified'[d].verified_at <= o.expires_at
    BY DEF ProofWithinNonceLife
  <1> USE NoneAssumption
  <1>1. CASE verified'[d] = verified[d]
    <2>1. verified[d].nonce \in Nonces
      BY <1>1 DEF TypeOK, Proofs
    <2>2. QED
      BY <1>1, <2>1, OriginStable DEF ProofWithinNonceLife
  <1>2. ASSUME NEW t \in Threads, RecordProof(t), loc[t].dev = d
        PROVE  LET o == origin'[verified'[d].nonce]
               IN /\ o # None
                  /\ o.device = d
                  /\ o.issued_at <= verified'[d].verified_at
                  /\ verified'[d].verified_at <= o.expires_at
    <2>1. /\ verified'[d].nonce = loc[t].nonce
          /\ verified'[d].verified_at = loc[t].now
          /\ origin' = origin
      BY <1>2 DEF RecordProof, history, TypeOK
    <2>2. /\ loc[t].nonce \in Nonces
          /\ origin[loc[t].nonce] # None
          /\ origin[loc[t].nonce].issued_at <= loc[t].now
          /\ loc[t].now <= loc[t].cnow
          /\ origin[loc[t].nonce].device = d
          /\ loc[t].cnow <= origin[loc[t].nonce].expires_at
      BY <1>2 DEF RecordProof, ThreadsKnow, ThreadKnows, Verifying
    <2>3. /\ loc[t].now \in Nat /\ loc[t].cnow \in Nat
          /\ origin[loc[t].nonce].expires_at \in Nat
      BY <2>2 DEF TypeOK, Locals, NonceRecords
    <2>4. QED
      BY <2>1, <2>2, <2>3
  <1>3. verified'[d] = verified[d] \/ \E t \in Threads : RecordProof(t) /\ loc[t].dev = d
    BY ZenonT(30) DEF Next, Step, vars, shared, history, Tick, Register, Issue, BeginVerify, BeginLookup,
           PurgeScan, PurgeScanRaises, PurgeDelete, ConsumeClock, ConsumePop, CheckSignature,
           RecordProof, LookupGet, LookupDrop, TypeOK
  <1> QED
    BY <1>1, <1>2, <1>3

-----------------------------------------------------------------------------
(* IInv is an inductive invariant of the component. *)
THEOREM InductiveInvariant == Spec => []IInv
  <1>1. Init => IInv
    <2> SUFFICES ASSUME Init PROVE IInv
      OBVIOUS
    <2>1. TypeOK
      BY TypeInit
    <2>2. ThreadsKnow
      BY DEF Init, ThreadsKnow, ThreadKnows, Verifying
    <2>3. IssuedAsRecorded /\ NonceSingleUse /\ ProofWithinNonceLife
      BY DEF Init, IssuedAsRecorded, NonceSingleUse, ProofWithinNonceLife
    <2>4. QED
      BY <2>1, <2>2, <2>3 DEF IInv
  <1>2. IInv /\ [Next]_vars => IInv'
    BY TypeNext, IssuedNext, ThreadsNext, ProofsNext DEF IInv
  <1> QED
    BY <1>1, <1>2, PTL DEF Spec

(* Type correctness of the nonce and proof stores and of every thread. *)
THEOREM TypeCorrect == Spec => []TypeOK
  <1>1. IInv => TypeOK
    BY DEF IInv
  <1> QED
    BY <1>1, InductiveInvariant, PTL

(* NonceIssuer.consume accepts a nonce at most once, for any number of     *)
(* threads presenting it at the same time.                                 *)
THEOREM SingleUse == Spec => []NonceSingleUse
  <1>1. IInv => NonceSingleUse
    BY DEF IInv
  <1> QED
    BY <1>1, InductiveInvariant, PTL

(* Every proof ProofStore holds was made with a nonce issued to its device *)
(* and is dated within that nonce's lifetime.                              *)
THEOREM ProofDatedWithinNonceLife == Spec => []ProofWithinNonceLife
  <1>1. IInv => ProofWithinNonceLife
    BY DEF IInv
  <1> QED
    BY <1>1, InductiveInvariant, PTL

-----------------------------------------------------------------------------
(* The purge: what it has listed was issued and is expired for good. *)
PurgeKnows(t) ==
  /\ pc[t] \in {"scan", "purge"} => loc[t].now <= clock
  /\ pc[t] = "purge" =>
       \A n \in loc[t].keys : origin[n] # None /\ clock > origin[n].expires_at

PurgesKnow == \A t \in Threads : PurgeKnows(t)

LEMMA PurgeNext == IInv /\ PurgesKnow /\ [Next]_vars => PurgesKnow'
  <1> SUFFICES ASSUME IInv, [Next]_vars, NEW t \in Threads, PurgeKnows(t)
               PROVE  PurgeKnows(t)'
    BY DEF PurgesKnow
  <1>1. TypeOK /\ IssuedAsRecorded /\ loc[t] \in Locals /\ clock \in Nat
    BY DEF IInv, TypeOK
  <1>2. loc[t].now \in Nat /\ loc[t].keys \in SUBSET Nonces
    BY <1>1, LocalsType
  <1>3. \A n \in Nonces : origin[n] # None => origin'[n] = origin[n] /\ origin[n].expires_at \in Nat
    BY <1>1, OriginStable DEF TypeOK, NonceRecords
  <1>4. clock' \in Nat /\ clock <= clock'
    BY <1>1, ClockAdvances
  <1>5. ASSUME pc'[t] = pc[t], loc'[t].now = loc[t].now, loc'[t].keys \subseteq loc[t].keys
        PROVE  PurgeKnows(t)'
    BY <1>1, <1>2, <1>3, <1>4, <1>5 DEF PurgeKnows
  <1>6. CASE pc'[t] \notin {"scan", "purge"}
    BY <1>6 DEF PurgeKnows
  <1>7. ASSUME NEW d \in Devices, NEW n \in Nonces, Issue(t, d, n) PROVE PurgeKnows(t)'
    BY <1>1, <1>7 DEF Issue, PurgeKnows, TypeOK, NoLocals
  <1>8. CASE PurgeScan(t)
    <2> DEFINE keys == {n \in Outstanding : NonceExpired(issued[n], loc[t].now)}
    <2>1. pc[t] = "scan" /\ loc'[t].now = loc[t].now /\ loc'[t].keys = keys
      BY <1>1, <1>8 DEF PurgeScan, TypeOK, Locals
    <2>2. \A n \in keys : /\ n \in Nonces /\ issued[n] # None /\ issued[n] = origin[n]
                          /\ loc[t].now > origin[n].expires_at
      BY <1>1 DEF Outstanding, NonceExpired, IssuedAsRecorded
    <2>3. loc[t].now <= clock
      BY <2>1 DEF PurgeKnows
    <2> HIDE DEF keys
    <2>4. \A n \in keys : origin'[n] # None /\ clock' > origin'[n].expires_at
      BY <1>1, <1>2, <1>3, <1>4, <2>2, <2>3
    <2>5. QED
      BY <1>1, <1>2, <1>4, <2>1, <2>3, <2>4 DEF PurgeKnows
  <1>9. CASE PurgeDelete(t)
    <2>1. \/ pc'[t] = "idle"
          \/ pc'[t] = pc[t] /\ loc'[t].now = loc[t].now /\ loc'[t].keys \subseteq loc[t].keys
      BY <1>1, <1>9 DEF PurgeDelete, Finish, TypeOK, Locals
    <2>2. QED
      BY <1>5, <1>6, <2>1
  <1>10. ASSUME \/ \E d \in Devices, n \in Nonces, s \in Devices \cup {Garbled} : BeginVerify(t, d, n, s)
                \/ \E d \in Devices : BeginLookup(t, d)
                \/ PurgeScanRaises(t) \/ ConsumeClock(t) \/ ConsumePop(t) \/ CheckSignature(t)
                \/ RecordProof(t) \/ LookupGet(t) \/ LookupDrop(t)
         PROVE  pc'[t] \notin {"scan", "purge"}
    BY <1>1, <1>10 DEF BeginVerify, BeginLookup, PurgeScanRaises, ConsumeClock, ConsumePop,
                       CheckSignature, RecordProof, LookupGet, LookupDrop, Finish, TypeOK
  <1>11. ASSUME NEW u \in Threads, Step(u), u # t
         PROVE  pc'[t] = pc[t] /\ loc'[t] = loc[t]
    BY <1>1, <1>11 DEF Step, Issue, BeginVerify, BeginLookup, PurgeScan, PurgeScanRaises,
                       PurgeDelete, ConsumeClock, ConsumePop, CheckSignature, RecordProof,
                       LookupGet, LookupDrop, Finish, TypeOK
  <1>12. ASSUME Tick \/ (\E d \in Devices : Register(d)) \/ UNCHANGED vars
         PROVE  pc'[t] = pc[t] /\ loc'[t] = loc[t]
    BY <1>12 DEF Tick, Register, vars
  <1>13. QED
    BY <1>5, <1>6, <1>7, <1>8, <1>9, <1>10, <1>11, <1>12 DEF Next, Step

(* A challenge that is still alive leaves _issued only by being consumed:  *)
(* neither the purge of another request nor the KeyError that may cut one  *)
(* short takes it away.                                                    *)
THEOREM LiveNonceStays == Spec => LiveNonceLeavesByUse
  <1>1. Init => PurgesKnow
    BY DEF Init, PurgesKnow, PurgeKnows
  <1> DEFINE Kept ==
        \A n \in Nonces :
          (issued[n] # None /\ issued'[n] = None) =>
            \/ clock > issued[n].expires_at
            \/ \E t \in Threads : pc[t] = "pop" /\ loc[t].nonce = n /\ pc'[t] # "pop"
  <1>2. IInv /\ PurgesKnow /\ [Next]_vars => [Kept]_vars
    <2> SUFFICES ASSUME IInv, PurgesKnow, Next,
                        NEW n \in Nonces, issued[n] # None, issued'[n] = None
                 PROVE  \/ clock > issued[n].expires_at
                        \/ \E t \in Threads : pc[t] = "pop" /\ loc[t].nonce = n /\ pc'[t] # "pop"
      OBVIOUS
    <2>1. TypeOK /\ issued[n] = origin[n]
      BY DEF IInv, IssuedAsRecorded
    <2>2. ASSUME NEW t \in Threads, PurgeDelete(t) PROVE clock > issued[n].expires_at
      <3>1. pc[t] = "purge" /\ n \in loc[t].keys
        BY <2>1, <2>2 DEF PurgeDelete, TypeOK
      <3>2. QED
        BY <2>1, <3>1 DEF PurgesKnow, PurgeKnows
    <2>3. ASSUME NEW t \in Threads, ConsumePop(t)
          PROVE  pc[t] = "pop" /\ loc[t].nonce = n /\ pc'[t] # "pop"
      BY <2>1, <2>3 DEF ConsumePop, Finish, TypeOK
    <2>4. ASSUME NEW t \in Threads, NEW d \in Devices, NEW m \in Nonces, Issue(t, d, m)
          PROVE  FALSE
      <3>1. m # n
        BY <2>1, <2>4 DEF Issue
      <3>2. QED
        BY <2>1, <2>4, <3>1 DEF Issue, TypeOK
    <2>5. issued' # issued
      OBVIOUS
    <2>6. QED
      BY <2>2, <2>3, <2>4, <2>5
         DEF Next, Step, Tick, Register, BeginVerify, BeginLookup, PurgeScan, PurgeScanRaises,
             ConsumeClock, CheckSignature, RecordProof, LookupGet, LookupDrop, shared
  <1>3. QED
    BY <1>1, <1>2, InductiveInvariant, PurgeNext, PTL DEF Spec, LiveNonceLeavesByUse

-----------------------------------------------------------------------------
(* The proof store in a single process: requests do not overlap, so no     *)
(* proof is younger than the one about to be recorded, and the proof that  *)
(* is about to be dropped is the expired one that was looked at.           *)
OneRequest == \A t, u \in Threads : pc[t] # "idle" /\ pc[u] # "idle" => t = u

NoneYounger(now) == \A d \in Devices : verified[d] # None => verified[d].verified_at <= now

LocalProofs ==
  /\ NoneYounger(clock)
  /\ deployment = "local" =>
       /\ OneRequest
       /\ \A t \in Threads :
            /\ Verifying(t) => NoneYounger(loc[t].now)
            /\ pc[t] \in {"get", "drop"} => loc[t].now <= clock
            /\ pc[t] = "drop" => /\ verified[loc[t].dev] # None
                                 /\ ProofExpired(verified[loc[t].dev], loc[t].now)

(* A thread that works in a single process works alone. *)
LEMMA OneRequestNext ==
  ASSUME TypeOK, deployment = "local", OneRequest, [Next]_vars
  PROVE  OneRequest' /\ deployment' = "local"
  <1>1. ASSUME NEW t \in Threads, Step(t)
        PROVE  /\ \A u \in Threads : u # t => pc[u] = "idle" /\ pc'[u] = pc[u]
               /\ deployment' = deployment
    <2>1. \A u \in Threads : u # t => pc[u] = "idle"
      BY <1>1 DEF OneRequest, Step, Issue, BeginVerify, BeginLookup, Starts, PurgeScan,
                  PurgeScanRaises, PurgeDelete, ConsumeClock, ConsumePop, CheckSignature,
                  RecordProof, LookupGet, LookupDrop
    <2>2. /\ \A u \in Threads : u # t => pc'[u] = pc[u]
          /\ deployment' = deployment
      BY <1>1 DEF TypeOK, Step, Issue, BeginVerify, BeginLookup, PurgeScan,
                  PurgeScanRaises, PurgeDelete, ConsumeClock, ConsumePop, CheckSignature,
                  RecordProof, LookupGet, LookupDrop, Finish, shared
    <2>3. QED
      BY <2>1, <2>2
  <1>2. ASSUME Tick \/ (\E d \in Devices : Register(d)) \/ UNCHANGED vars
        PROVE  UNCHANGED <<pc, deployment>>
    BY <1>2 DEF Tick, Register, vars, shared
  <1>3. QED
    BY <1>1, <1>2 DEF Next, OneRequest

LEMMA LocalProofsNext == IInv /\ LocalProofs /\ [Next]_vars => LocalProofs'
  <1> SUFFICES ASSUME IInv, LocalProofs, [Next]_vars PROVE LocalProofs'
    OBVIOUS
  <1>1. /\ TypeOK /\ ThreadsKnow /\ clock \in Nat /\ clock' \in Nat /\ clock <= clock'
        /\ \A t \in Threads : loc[t].now \in Nat
        /\ \A d \in Devices : verified[d] # None => verified[d].verified_at \in Nat
    BY ClockAdvances DEF IInv, TypeOK, Locals, Proofs
  <1>2. \A d \in Devices : \/ verified'[d] \in {verified[d], None}
                           \/ \E t \in Threads : /\ pc[t] = "record" /\ pc'[t] = "idle"
                                                 /\ verified'[d].verified_at = loc[t].now
    <2>1. ASSUME NEW t \in Threads, RecordProof(t), NEW d \in Devices
          PROVE  \/ verified'[d] \in {verified[d], None}
                 \/ pc[t] = "record" /\ pc'[t] = "idle" /\ verified'[d].verified_at = loc[t].now
      BY <1>1, <2>1 DEF RecordProof, Finish, TypeOK
    <2>2. ASSUME NEW t \in Threads, LookupDrop(t)
          PROVE  \A d \in Devices : verified'[d] \in {verified[d], None}
      BY <1>1, <2>2 DEF LookupDrop, TypeOK
    <2>3. QED
      BY <2>1, <2>2
         DEF Next, Step, vars, shared, Tick, Register, Issue, BeginVerify, BeginLookup, PurgeScan,
             PurgeScanRaises, PurgeDelete, ConsumeClock, ConsumePop, CheckSignature, LookupGet
  <1>3. NoneYounger(clock)'
    <2>1. \A t \in Threads : pc[t] = "record" => loc[t].now <= clock
      BY <1>1 DEF ThreadsKnow, ThreadKnows, Verifying
    <2>2. QED
      BY <1>1, <1>2, <2>1 DEF LocalProofs, NoneYounger
  <1>4. ASSUME deployment' = "local"
        PROVE  /\ OneRequest'
               /\ \A t \in Threads :
                    /\ Verifying(t)' => NoneYounger(loc[t].now)'
                    /\ pc'[t] \in {"get", "drop"} => loc'[t].now <= clock'
                    /\ pc'[t] = "drop" => /\ verified'[loc'[t].dev] # None
                                          /\ ProofExpired(verified'[loc'[t].dev], loc'[t].now)
    <2>1. deployment = "local"
      BY <1>4 DEF Next, Step, vars, shared, Tick, Register, Issue, BeginVerify, BeginLookup,
             PurgeScan, PurgeScanRaises, PurgeDelete, ConsumeClock, ConsumePop, CheckSignature,
             RecordProof, LookupGet, LookupDrop
    <2>2. OneRequest /\ OneRequest'
      BY <1>1, <2>1, OneRequestNext DEF LocalProofs
    <2> SUFFICES ASSUME NEW t \in Threads, pc'[t] # "idle"
                 PROVE  /\ Verifying(t)' => NoneYounger(loc[t].now)'
                        /\ pc'[t] \in {"get", "drop"} => loc'[t].now <= clock'
                        /\ pc'[t] = "drop" => /\ verified'[loc'[t].dev] # None
                                              /\ ProofExpired(verified'[loc'[t].dev], loc'[t].now)
      BY <2>2 DEF Verifying
    <2>3. verified' = verified
      <3>1. ASSUME NEW u \in Threads, RecordProof(u) \/ LookupDrop(u) PROVE FALSE
        BY <1>1, <2>2, <3>1 DEF RecordProof, LookupDrop, Finish, OneRequest, TypeOK
      <3>2. QED
        BY <3>1 DEF Next, Step, vars, shared, Tick, Register, Issue, BeginVerify, BeginLookup,
               PurgeScan, PurgeScanRaises, PurgeDelete, ConsumeClock, ConsumePop, CheckSignature,
               LookupGet
    <2>4. /\ Verifying(t) => NoneYounger(loc[t].now)
          /\ pc[t] \in {"get", "drop"} => loc[t].now <= clock
          /\ pc[t] = "drop" => /\ verified[loc[t].dev] # None
                               /\ ProofExpired(verified[loc[t].dev], loc[t].now)
      BY <2>1 DEF LocalProofs
    <2>5. CASE pc'[t] = pc[t] /\ loc'[t] = loc[t]
      BY <1>1, <2>3, <2>4, <2>5 DEF Verifying, NoneYounger
    <2>6. CASE pc'[t] \in {"scan", "purge"}
      BY <2>6 DEF Verifying
    <2>7. ASSUME NEW d \in Devices, NEW n \in Nonces, NEW s \in Devices \cup {Garbled},
                 BeginVerify(t, d, n, s)
          PROVE  pc'[t] = "clock" /\ loc'[t].now = clock
      BY <1>1, <2>7 DEF BeginVerify, TypeOK, NoLocals
    <2>8. ASSUME NEW d \in Devices, BeginLookup(t, d)
          PROVE  pc'[t] = "get" /\ loc'[t].now = clock
      BY <1>1, <2>8 DEF BeginLookup, TypeOK, NoLocals
    <2>9. CASE pc'[t] = "clock" /\ loc'[t].now = clock
      BY <2>3, <2>9 DEF Verifying, NoneYounger, LocalProofs
    <2>10. CASE pc'[t] = "get" /\ loc'[t].now = clock
      BY <1>1, <2>10 DEF Verifying
    <2>11. CASE Verifying(t) /\ pc'[t] \in {"pop", "check", "record"} /\ loc'[t].now = loc[t].now
      BY <2>3, <2>4, <2>11 DEF Verifying, NoneYounger
    <2>12. ASSUME ConsumeClock(t) \/ ConsumePop(t) \/ CheckSignature(t)
           PROVE  Verifying(t) /\ pc'[t] \in {"pop", "check", "record"} /\ loc'[t].now = loc[t].now
      BY <1>1, <2>12 DEF ConsumeClock, ConsumePop, CheckSignature, Finish, TypeOK, Locals, Verifying
    <2>13. CASE LookupGet(t)
      <3>1. /\ pc[t] = "get" /\ pc'[t] = "drop" /\ loc' = loc
            /\ verified[loc[t].dev] # None /\ ProofExpired(verified[loc[t].dev], loc[t].now)
        BY <1>1, <2>13 DEF LookupGet, Finish, TypeOK
      <3>2. QED
        BY <1>1, <2>3, <2>4, <3>1 DEF Verifying
    <2>14. ASSUME \/ \E d \in Devices, n \in Nonces : Issue(t, d, n)
                  \/ PurgeScan(t) \/ PurgeScanRaises(t) \/ PurgeDelete(t)
                  \/ RecordProof(t) \/ LookupDrop(t)
           PROVE  pc'[t] \in {"scan", "purge"}
      BY <1>1, <2>14 DEF Issue, PurgeScan, PurgeScanRaises, PurgeDelete, RecordProof, LookupDrop,
                  Finish, TypeOK
    <2>15. ASSUME NEW u \in Threads, Step(u), u # t
           PROVE  pc'[t] = pc[t] /\ loc'[t] = loc[t]
      BY <1>1, <2>15 DEF Step, Issue, BeginVerify, BeginLookup, PurgeScan, PurgeScanRaises,
                  PurgeDelete, ConsumeClock, ConsumePop, CheckSignature, RecordProof,
                  LookupGet, LookupDrop, Finish, TypeOK
    <2>16. ASSUME Tick \/ (\E d \in Devices : Register(d)) \/ UNCHANGED vars
           PROVE  pc'[t] = pc[t] /\ loc'[t] = loc[t]
      BY <2>16 DEF Tick, Register, vars
    <2>17. CASE Step(t)
      BY <2>6, <2>7, <2>8, <2>9, <2>10, <2>11, <2>12, <2>13, <2>14, <2>17 DEF Step
    <2>18. QED
      BY <2>5, <2>15, <2>16, <2>17 DEF Next
  <1>5. QED
    BY <1>3, <1>4 DEF LocalProofs

(* In a single process the store forgets a proof only for a later one or   *)
(* because its lifetime is over.                                           *)
THEOREM ProofStays == Spec => ProofKept
  <1>1. Init => LocalProofs
    BY DEF Init, LocalProofs, OneRequest, NoneYounger, Verifying
  <1> DEFINE Kept ==
        deployment = "local" => \A d \in Devices :
          (verified[d] # None /\ verified'[d] # verified[d]) =>
             IF verified'[d] = None THEN ProofExpired(verified[d], clock)
             ELSE verified[d].verified_at <= verified'[d].verified_at
  <1>2. IInv /\ LocalProofs /\ [Next]_vars => [Kept]_vars
    <2> SUFFICES ASSUME IInv, LocalProofs, Next, deployment = "local", NEW d \in Devices,
                        verified[d] # None, verified'[d] # verified[d]
                 PROVE  IF verified'[d] = None THEN ProofExpired(verified[d], clock)
                        ELSE verified[d].verified_at <= verified'[d].verified_at
      OBVIOUS
    <2>1. TypeOK /\ clock \in Nat /\ verified[d].verified_at \in Nat
      BY DEF IInv, TypeOK, Proofs
    <2>2. ASSUME NEW t \in Threads, RecordProof(t)
          PROVE  verified'[d] # None /\ verified[d].verified_at <= verified'[d].verified_at
      <3>1. verified'[d] = [verified_at |-> loc[t].now, nonce |-> loc[t].nonce]
        BY <2>1, <2>2 DEF RecordProof, TypeOK
      <3>2. verified[d].verified_at <= loc[t].now
        BY <2>2 DEF RecordProof, LocalProofs, Verifying, NoneYounger
      <3>3. [verified_at |-> loc[t].now, nonce |-> loc[t].nonce] \in Proofs
        BY <2>2 DEF RecordProof, IInv, ThreadsKnow, ThreadKnows, Verifying, Proofs, Locals, TypeOK
      <3>4. QED
        BY <3>1, <3>2, <3>3, NoneAssumption
    <2>3. ASSUME NEW t \in Threads, LookupDrop(t)
          PROVE  verified'[d] = None /\ ProofExpired(verified[d], clock)
      <3>1. pc[t] = "drop" /\ loc[t].dev = d /\ verified'[d] = None
        BY <2>1, <2>3 DEF LookupDrop, TypeOK
      <3>2. ProofExpired(verified[d], loc[t].now) /\ loc[t].now <= clock /\ loc[t].now \in Nat
        BY <2>1, <3>1 DEF LocalProofs, TypeOK, Locals
      <3>3. QED
        BY <2>1, <3>1, <3>2, TtlAssumption DEF ProofExpired
    <2>4. QED
      BY <2>2, <2>3
         DEF Next, Step, Tick, Register, Issue, BeginVerify, BeginLookup, PurgeScan, PurgeScanRaises,
             PurgeDelete, ConsumeClock, ConsumePop, CheckSignature, LookupGet, shared
  <1>3. QED
    BY <1>1, <1>2, InductiveInvariant, LocalProofsNext, PTL DEF Spec, ProofKept
=============================================================================
