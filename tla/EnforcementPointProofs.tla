----------------------- MODULE EnforcementPointProofs -----------------------
(***************************************************************************)
(* Proofs about MemoryPEP for any devices, threads, actions and lifetimes: *)
(* in a single process a denial stands and a live decision is kept.        *)
(***************************************************************************)
EXTENDS EnforcementPoint, TLAPS

(* In a single process one request is under way at most. *)
OneAtATime ==
  deployment = "local" => \A t, u \in Threads : pc[t] # "idle" /\ pc[u] # "idle" => t = u

(* In a single process the decision about to be applied is more recent     *)
(* than every denial, and the one read by active_decision is still the     *)
(* installed one, expired for good once it has been found so.              *)
LocalReads ==
  deployment = "local" => \A t \in Threads :
    /\ pc[t] = "apply" => loc[t].dec.number > denied[loc[t].dev]
    /\ pc[t] \in {"expiry", "del"} => decisions[loc[t].dev] = loc[t].dec
    /\ pc[t] = "del" => IsExpired(loc[t].dec, clock)

-----------------------------------------------------------------------------
(* What a thread that moves on leaves behind. *)
LEMMA GotoMoves ==
  ASSUME TypeOK, NEW t \in Threads, NEW label \in Labels, NEW l \in Locals, Goto(t, label, l)
  PROVE  /\ pc' \in [Threads -> Labels] /\ loc' \in [Threads -> Locals]
         /\ pc'[t] = label /\ loc'[t] = l
         /\ \A u \in Threads : u # t => pc'[u] = pc[u] /\ loc'[u] = loc[u]
  BY DEF TypeOK, Goto, Labels, Locals, StoreOK, ThreadsOK

LEMMA GotoHolds ==
  ASSUME TypeOK, NEW t \in Threads, NEW label \in Labels, NEW l \in Locals, Goto(t, label, l),
         Holds(label, l)
  PROVE  /\ pc' \in [Threads -> Labels] /\ loc' \in [Threads -> Locals]
         /\ \A u \in Threads : Holds(pc'[u], loc'[u])
  <1>1. \A u \in Threads : Holds(pc[u], loc[u])
    BY DEF TypeOK, StoreOK, ThreadsOK
  <1>2. QED
    BY <1>1, GotoMoves

LEMMA IdleHolds == NoLocals \in Locals /\ Holds("idle", NoLocals)
  BY DEF NoLocals, Locals, Holds

(* A decision does not come back to life. *)
LEMMA ExpiryLasts ==
  ASSUME NEW dec \in Decisions, NEW now \in Nat, NEW later \in Nat, now <= later,
         IsExpired(dec, now)
  PROVE  IsExpired(dec, later)
  <1>1. dec.created_at \in Nat /\ Ttl[dec.action] \in Nat
    BY EnforcementAssumption DEF Decisions
  <1>2. QED
    BY <1>1 DEF IsExpired

-----------------------------------------------------------------------------
LEMMA TypeInit == Init => TypeOK
  BY DEF Init, TypeOK, NoLocals, Answers, Holds, StoreOK, ThreadsOK, Labels, Locals

LEMMA ThreadsNext == TypeOK /\ [Next]_vars => ThreadsOK'
  <1> SUFFICES ASSUME TypeOK, [Next]_vars PROVE ThreadsOK'
    OBVIOUS
  <1> USE DEF Labels
  <1>a. ASSUME NEW t \in Threads, NEW label \in Labels, NEW l \in Locals, Goto(t, label, l),
               Holds(label, l), UNCHANGED made
        PROVE  ThreadsOK'
    <2>1. \A u \in Threads : Holds(pc'[u], loc'[u])
      BY <1>a, GotoHolds
    <2>2. QED
      BY <1>a, <2>1, GotoHolds DEF ThreadsOK, Holds
  <1>b. ASSUME UNCHANGED <<pc, loc, made>> PROVE ThreadsOK'
    BY <1>b DEF TypeOK, ThreadsOK, Holds, Locals, StoreOK
  <1>1. CASE Tick
    BY <1>1, <1>b DEF Tick
  <1>2. ASSUME NEW t \in Threads, NEW d \in Devices, CheckGet(t, d) PROVE ThreadsOK'
    <2> DEFINE label == IF decisions[d] = None THEN "refuse" ELSE "expiry"
               l == [dev |-> d, dec |-> decisions[d]]
    <2>1. label \in Labels /\ l \in Locals /\ Holds(label, l)
      BY DEF TypeOK, Locals, Holds, StoreOK, ThreadsOK
    <2> HIDE DEF label, l
    <2>2. Goto(t, label, l) /\ UNCHANGED made
      BY <1>2 DEF CheckGet, label, l
    <2>3. QED
      BY <1>a, <2>1, <2>2
  <1>3. ASSUME NEW t \in Threads, NEW d \in Devices, Revoke(t, d) PROVE ThreadsOK'
    BY <1>3, <1>b DEF Revoke
  <1>4. ASSUME NEW t \in Threads, NEW d \in Devices, NEW a \in Actions, Decide(t, d, a)
        PROVE  ThreadsOK'
    <2> DEFINE dec == [device |-> d, action |-> a, created_at |-> clock, number |-> made + 1]
               l == [dev |-> d, dec |-> dec]
    <2>1. dec \in Decisions /\ dec.device = d /\ dec.number = made + 1
      BY DEF TypeOK, Decisions, StoreOK, ThreadsOK
    <2> HIDE DEF dec
    <2>2. l \in Locals /\ l.dev = d /\ l.dec = dec
      BY <2>1 DEF Locals
    <2> HIDE DEF l
    <2>3. Goto(t, "apply", l) /\ made' = made + 1
      BY <1>4 DEF Decide, l, dec
    <2>4. 1..made \subseteq 1..made' /\ made + 1 \in 1..made'
      BY <2>3 DEF TypeOK, StoreOK, ThreadsOK
    <2>5. \A u \in Threads : u # t => Holds(pc[u], loc[u])'
      BY <2>2, <2>3, <2>4, GotoMoves DEF TypeOK, Holds, StoreOK, ThreadsOK
    <2>6. Holds(pc[t], loc[t])'
      BY <2>1, <2>2, <2>3, <2>4, GotoMoves, SMTT(30) DEF Holds
    <2>7. QED
      BY <2>2, <2>3, <2>5, <2>6, GotoMoves DEF ThreadsOK
  <1>5. ASSUME NEW t \in Threads, ApplyGrant(t) PROVE ThreadsOK'
    BY <1>5, <1>a DEF ApplyGrant, TypeOK, Locals, Holds, StoreOK, ThreadsOK
  <1>6. ASSUME NEW t \in Threads, ApplyLast(t) PROVE ThreadsOK'
    BY <1>6, <1>a, IdleHolds DEF ApplyLast
  <1>7. ASSUME NEW t \in Threads, CheckExpiry(t) PROVE ThreadsOK'
    <2>1. loc[t] \in Locals /\ Holds("del", loc[t])
      BY <1>7 DEF CheckExpiry, TypeOK, Locals, Holds, StoreOK, ThreadsOK
    <2>2. QED
      BY <1>7, <1>a, <2>1, IdleHolds DEF CheckExpiry
  <1>8. ASSUME NEW t \in Threads, CheckDel(t) PROVE ThreadsOK'
    <2> DEFINE l == [loc[t] EXCEPT !.dec = None]
    <2>1. l \in Locals /\ Holds("refuse", l)
      BY <1>8 DEF CheckDel, TypeOK, Locals, Holds, StoreOK, ThreadsOK
    <2> HIDE DEF l
    <2>2. CASE decisions[loc[t].dev] = None
      BY <1>8, <2>2, <1>a, IdleHolds DEF CheckDel
    <2>3. CASE decisions[loc[t].dev] # None
      BY <1>8, <2>1, <2>3, <1>a DEF CheckDel, l
    <2>4. QED
      BY <2>2, <2>3
  <1>9. ASSUME NEW t \in Threads, CheckRefuse(t) PROVE ThreadsOK'
    BY <1>9, <1>a, IdleHolds DEF CheckRefuse
  <1>10. CASE UNCHANGED vars
    BY <1>10, <1>b DEF vars
  <1>11. QED
    BY <1>1, <1>2, <1>3, <1>4, <1>5, <1>6, <1>7, <1>8, <1>9, <1>10 DEF Next, Step

LEMMA StoreNext == TypeOK /\ [Next]_vars => StoreOK'
  <1> SUFFICES ASSUME TypeOK, [Next]_vars PROVE StoreOK'
    OBVIOUS
  <1>1. CASE Tick
    BY <1>1 DEF Tick, TypeOK, StoreOK, Terminates, ThreadsOK
  <1>2. ASSUME NEW t \in Threads, NEW d \in Devices, CheckGet(t, d) PROVE StoreOK'
    BY <1>2 DEF CheckGet, TypeOK, StoreOK, Terminates, ThreadsOK
  <1>3. ASSUME NEW t \in Threads, NEW d \in Devices, Revoke(t, d) PROVE StoreOK'
    <2>1. /\ decisions' \in [Devices -> Decisions \cup {None}]
          /\ \A e \in Devices : decisions'[e] # None => decisions'[e] = decisions[e]
      BY <1>3 DEF Revoke, TypeOK, StoreOK, ThreadsOK
    <2>2. revoked' \subseteq 1..made
      BY <1>3 DEF Revoke, TypeOK, StoreOK, ThreadsOK
    <2>3. QED
      BY <1>3, <2>1, <2>2 DEF Revoke, TypeOK, StoreOK, Terminates, ThreadsOK
  <1>4. ASSUME NEW t \in Threads, NEW d \in Devices, NEW a \in Actions, Decide(t, d, a)
        PROVE  StoreOK'
    <2>1. made \in Nat /\ made' = made + 1 /\ made' \in Nat
      BY <1>4 DEF Decide, TypeOK, StoreOK, ThreadsOK
    <2>2. 0..made \subseteq 0..made' /\ 1..made \subseteq 1..made'
      BY <2>1
    <2>3. denied' \in [Devices -> 0..made'] /\ revoked' \subseteq 1..made'
      BY <1>4, <2>2 DEF Decide, TypeOK, StoreOK, ThreadsOK
    <2>4. \A e \in Devices : decisions'[e] # None => decisions'[e].number \in 1..made'
      BY <1>4, <2>2 DEF Decide, TypeOK, StoreOK, ThreadsOK
    <2>5. QED
      BY <1>4, <2>1, <2>3, <2>4 DEF Decide, TypeOK, StoreOK, Terminates, ThreadsOK
  <1>5. ASSUME NEW t \in Threads, ApplyGrant(t) PROVE StoreOK'
    <2> DEFINE l == loc[t]
    <2>1. /\ l.dev \in Devices /\ l.dec \in Decisions
          /\ l.dec.device = l.dev /\ l.dec.number \in 1..made
      BY <1>5 DEF ApplyGrant, TypeOK, Holds, StoreOK, ThreadsOK
    <2>2. denied' \in [Devices -> 0..made]
      BY <1>5, <2>1 DEF ApplyGrant, TypeOK, StoreOK, ThreadsOK
    <2>3. /\ decisions' \in [Devices -> Decisions \cup {None}]
          /\ \A d \in Devices : decisions'[d] # None =>
               decisions'[d] = decisions[d] \/ (d = l.dev /\ decisions'[d] = l.dec /\ ~Terminates(l.dec))
      BY <1>5, <2>1 DEF ApplyGrant, TypeOK, StoreOK, ThreadsOK
    <2> HIDE DEF l
    <2>4. \A d \in Devices :
            /\ decisions'[d] # None => decisions'[d].device = d /\ ~Terminates(decisions'[d])
            /\ decisions'[d] # None => decisions'[d].number \in 1..made
      BY <2>1, <2>3 DEF TypeOK, StoreOK, ThreadsOK
    <2>5. QED
      BY <1>5, <2>2, <2>3, <2>4 DEF ApplyGrant, TypeOK, StoreOK, Terminates, ThreadsOK
  <1>6. ASSUME NEW t \in Threads, ApplyLast(t) PROVE StoreOK'
    <2>1. loc[t].dev \in Devices /\ loc[t].dec \in Decisions /\ loc[t].dec.device = loc[t].dev
      BY <1>6 DEF ApplyLast, TypeOK, Holds, StoreOK, ThreadsOK
    <2>2. /\ last' \in [Devices -> Decisions \cup {None}]
          /\ \A d \in Devices : last'[d] # None => last'[d].device = d
      BY <1>6, <2>1 DEF ApplyLast, TypeOK, StoreOK, ThreadsOK
    <2>3. QED
      BY <1>6, <2>2 DEF ApplyLast, TypeOK, StoreOK, Terminates, ThreadsOK
  <1>7. ASSUME NEW t \in Threads, CheckExpiry(t) PROVE StoreOK'
    <2>1. answer' \in [Devices -> Answers \cup {None}]
      BY <1>7 DEF CheckExpiry, TypeOK, Answers, StoreOK, ThreadsOK
    <2>2. QED
      BY <1>7, <2>1 DEF CheckExpiry, TypeOK, StoreOK, Terminates, ThreadsOK
  <1>8. ASSUME NEW t \in Threads, CheckDel(t) PROVE StoreOK'
    <2>1. /\ decisions' \in [Devices -> Decisions \cup {None}]
          /\ \A d \in Devices : decisions'[d] # None => decisions'[d] = decisions[d]
      BY <1>8 DEF CheckDel, TypeOK, StoreOK, ThreadsOK
    <2>2. QED
      BY <1>8, <2>1 DEF CheckDel, TypeOK, StoreOK, Terminates, ThreadsOK
  <1>9. ASSUME NEW t \in Threads, CheckRefuse(t) PROVE StoreOK'
    <2>1. ReasonFor(last[loc[t].dev]) \in Answers
      BY DEF ReasonFor, Answers
    <2>2. answer' \in [Devices -> Answers \cup {None}]
      BY <1>9, <2>1 DEF CheckRefuse, TypeOK, StoreOK, ThreadsOK
    <2>3. QED
      BY <1>9, <2>2 DEF CheckRefuse, TypeOK, StoreOK, Terminates, ThreadsOK
  <1>10. CASE UNCHANGED vars
    BY <1>10 DEF vars, TypeOK, StoreOK, Terminates, ThreadsOK
  <1>11. QED
    BY <1>1, <1>2, <1>3, <1>4, <1>5, <1>6, <1>7, <1>8, <1>9, <1>10 DEF Next, Step

-----------------------------------------------------------------------------
LocalInv == OneAtATime /\ LocalReads /\ DenialStands

LEMMA LocalInit == Init => LocalInv
  BY DEF Init, LocalInv, OneAtATime, LocalReads, DenialStands

(* A request that starts finds the others idle, and one that is under way  *)
(* is the only one.                                                        *)
LEMMA Alone ==
  ASSUME OneAtATime, deployment = "local", NEW t \in Threads, Starts(t) \/ pc[t] # "idle"
  PROVE  \A u \in Threads : u # t => pc[u] = "idle"
  BY DEF OneAtATime, Starts

LEMMA LocalNext == TypeOK /\ TypeOK' /\ LocalInv /\ [Next]_vars => LocalInv'
  <1> SUFFICES ASSUME TypeOK, TypeOK', LocalInv, [Next]_vars, deployment = "local"
               PROVE  LocalInv'
    <2>1. [Next]_vars => deployment' = deployment
      BY DEF Next, Step, vars, Tick, Decide, ApplyGrant, ApplyLast, Revoke, CheckGet,
             CheckExpiry, CheckDel, CheckRefuse
    <2>2. QED
      BY <2>1, SMTT(30) DEF LocalInv, OneAtATime, LocalReads, DenialStands
  <1> USE DEF LocalInv, Labels
  <1>0. /\ made \in Nat /\ clock \in Nat
        /\ \A d \in Devices : denied[d] \in 0..made
        /\ \A d \in Devices : decisions[d] # None => decisions[d] \in Decisions
        /\ \A d \in Devices : decisions[d] # None => decisions[d].number \in 1..made
    BY DEF TypeOK, StoreOK
  (* A thread that moves, alone, to a label that promises nothing more. *)
  <1>a. ASSUME NEW t \in Threads, NEW label \in Labels, NEW l \in Locals, Goto(t, label, l),
               Starts(t) \/ pc[t] # "idle",
               label = "apply" => l.dec.number > denied'[l.dev],
               label \in {"expiry", "del"} => decisions'[l.dev] = l.dec,
               label = "del" => IsExpired(l.dec, clock')
        PROVE  OneAtATime' /\ LocalReads'
    <2>1. /\ pc'[t] = label /\ loc'[t] = l
          /\ \A u \in Threads : u # t => pc'[u] = "idle"
      BY <1>a, GotoMoves, Alone
    <2>2. QED
      BY <1>a, <2>1 DEF OneAtATime, LocalReads
  <1>1. CASE Tick
    <2>1. /\ clock' \in Nat /\ clock <= clock'
          /\ UNCHANGED <<deployment, decisions, pc, loc, denied>>
      BY <1>0, <1>1 DEF Tick
    <2>2. \A t \in Threads : pc[t] = "del" => loc[t].dec \in Decisions
      BY DEF TypeOK, ThreadsOK, Holds
    <2>3. \A t \in Threads : pc[t] = "del" => IsExpired(loc[t].dec, clock')
      BY <1>0, <2>1, <2>2, ExpiryLasts DEF LocalReads
    <2>4. LocalReads'
      BY <2>1, <2>3 DEF LocalReads
    <2>5. QED
      BY <2>1, <2>4 DEF OneAtATime, DenialStands
  <1>2. ASSUME NEW t \in Threads, NEW d \in Devices, CheckGet(t, d) PROVE LocalInv'
    <2> DEFINE label == IF decisions[d] = None THEN "refuse" ELSE "expiry"
               l == [dev |-> d, dec |-> decisions[d]]
    <2>1. /\ label \in Labels \ {"apply", "del"} /\ l \in Locals
          /\ l.dev = d /\ l.dec = decisions[d]
      BY DEF TypeOK, StoreOK, Locals
    <2> HIDE DEF label, l
    <2>2. Goto(t, label, l) /\ Starts(t) /\ UNCHANGED <<deployment, decisions, denied>>
      BY <1>2 DEF CheckGet, label, l
    <2>3. OneAtATime' /\ LocalReads'
      BY <1>a, <2>1, <2>2
    <2>4. QED
      BY <2>2, <2>3 DEF DenialStands
  <1>3. ASSUME NEW t \in Threads, NEW d \in Devices, Revoke(t, d) PROVE LocalInv'
    <2>1. \A e \in Devices : decisions'[e] # None => decisions'[e] = decisions[e]
      BY <1>3 DEF Revoke, TypeOK, StoreOK
    <2>2. UNCHANGED <<deployment, pc, denied>> /\ \A u \in Threads : pc[u] = "idle"
      BY <1>3 DEF Revoke, Starts
    <2>3. QED
      BY <2>1, <2>2 DEF OneAtATime, LocalReads, DenialStands
  <1>4. ASSUME NEW t \in Threads, NEW d \in Devices, NEW a \in Actions, Decide(t, d, a)
        PROVE  LocalInv'
    <2> DEFINE dec == [device |-> d, action |-> a, created_at |-> clock, number |-> made + 1]
               l == [dev |-> d, dec |-> dec]
    <2>1. dec \in Decisions /\ dec.number = made + 1
      BY <1>0 DEF Decisions
    <2> HIDE DEF dec
    <2>2. l \in Locals /\ l.dev = d /\ l.dec = dec
      BY <2>1 DEF Locals
    <2> HIDE DEF l
    <2>3. Goto(t, "apply", l) /\ Starts(t) /\ UNCHANGED <<deployment, decisions, denied>>
      BY <1>4 DEF Decide, l, dec
    <2>4. l.dec.number > denied'[l.dev]
      BY <1>0, <2>1, <2>2, <2>3
    <2>5. OneAtATime' /\ LocalReads'
      BY <1>a, <2>2, <2>3, <2>4
    <2>6. QED
      BY <2>3, <2>5 DEF DenialStands
  <1>5. ASSUME NEW t \in Threads, ApplyGrant(t) PROVE LocalInv'
    <2> DEFINE l == loc[t]
    <2>1. l \in Locals /\ l.dev \in Devices /\ l.dec \in Decisions /\ l.dec.device = l.dev
      BY <1>5 DEF ApplyGrant, TypeOK, ThreadsOK, Holds
    <2>2. l.dec.number > denied[l.dev]
      BY <1>5 DEF ApplyGrant, LocalReads
    <2>3. OneAtATime' /\ LocalReads'
      BY <1>5, <1>a, <2>1 DEF ApplyGrant
    <2>4. CASE Terminates(l.dec)
      <3>1. decisions'[l.dev] = None
        BY <1>5, <2>1, <2>4 DEF ApplyGrant, TypeOK, StoreOK
      <3>2. \A d \in Devices : d # l.dev => decisions'[d] = decisions[d] /\ denied'[d] = denied[d]
        BY <1>5, <2>1, <2>4 DEF ApplyGrant, TypeOK, StoreOK
      <3>3. QED
        BY <2>3, <3>1, <3>2 DEF DenialStands
    <2>5. CASE ~Terminates(l.dec)
      <3>1. denied' = denied /\ decisions'[l.dev] = l.dec
        BY <1>5, <2>1, <2>5 DEF ApplyGrant, TypeOK, StoreOK
      <3>2. \A d \in Devices : d # l.dev => decisions'[d] = decisions[d]
        BY <1>5, <2>1, <2>5 DEF ApplyGrant, TypeOK, StoreOK
      <3>3. QED
        BY <2>2, <2>3, <3>1, <3>2 DEF DenialStands
    <2>6. QED
      BY <2>4, <2>5
  <1>6. ASSUME NEW t \in Threads, ApplyLast(t) PROVE LocalInv'
    <2>1. OneAtATime' /\ LocalReads'
      BY <1>6, <1>a, IdleHolds DEF ApplyLast
    <2>2. QED
      BY <1>6, <2>1 DEF ApplyLast, DenialStands
  <1>7. ASSUME NEW t \in Threads, CheckExpiry(t) PROVE LocalInv'
    <2>1. loc[t] \in Locals /\ decisions[loc[t].dev] = loc[t].dec
      BY <1>7 DEF CheckExpiry, LocalReads, TypeOK, ThreadsOK
    <2>2. CASE IsExpired(loc[t].dec, clock)
      BY <1>7, <1>a, <2>1, <2>2 DEF CheckExpiry, DenialStands
    <2>3. CASE ~IsExpired(loc[t].dec, clock)
      BY <1>7, <1>a, <2>3, IdleHolds DEF CheckExpiry, DenialStands
    <2>4. QED
      BY <2>2, <2>3
  <1>8. ASSUME NEW t \in Threads, CheckDel(t) PROVE LocalInv'
    <2> DEFINE l == [loc[t] EXCEPT !.dec = None]
    <2>1. l \in Locals
      BY DEF TypeOK, ThreadsOK, Locals
    <2> HIDE DEF l
    <2>2. \A d \in Devices : decisions'[d] # None => decisions'[d] = decisions[d]
      BY <1>8 DEF CheckDel, TypeOK, StoreOK
    <2>3. Goto(t, "refuse", l) \/ Goto(t, "idle", NoLocals)
      <3>1. CASE decisions[loc[t].dev] = None
        BY <1>8, <3>1 DEF CheckDel
      <3>2. CASE decisions[loc[t].dev] # None
        BY <1>8, <3>2 DEF CheckDel, l
      <3>3. QED
        BY <3>1, <3>2
    <2>4. OneAtATime' /\ LocalReads'
      BY <1>8, <1>a, <2>1, <2>3, IdleHolds DEF CheckDel
    <2>5. QED
      BY <1>8, <2>2, <2>4 DEF CheckDel, DenialStands
  <1>9. ASSUME NEW t \in Threads, CheckRefuse(t) PROVE LocalInv'
    <2>1. OneAtATime' /\ LocalReads'
      BY <1>9, <1>a, IdleHolds DEF CheckRefuse
    <2>2. QED
      BY <1>9, <2>1 DEF CheckRefuse, DenialStands
  <1>10. CASE UNCHANGED vars
    BY <1>10 DEF vars, OneAtATime, LocalReads, DenialStands
  <1>11. QED
    BY <1>1, <1>2, <1>3, <1>4, <1>5, <1>6, <1>7, <1>8, <1>9, <1>10 DEF Next, Step

-----------------------------------------------------------------------------
LEMMA Invariance == Spec => [](TypeOK /\ LocalInv)
  <1>1. TypeOK /\ [Next]_vars => TypeOK'
    BY ThreadsNext, StoreNext DEF TypeOK
  <1>2. QED
    BY <1>1, TypeInit, LocalInit, LocalNext, PTL DEF Spec

(* MemoryPEP keeps decisions under the device they are about, installs     *)
(* only non-terminating ones, and no handler goes on without what it read, *)
(* in every deployment.                                                    *)
THEOREM TypeCorrect == Spec => []TypeOK
  BY Invariance, PTL

(* In a single process no decision made before the last denial of a device *)
(* is installed for it.                                                    *)
THEOREM DenialIsFinal == Spec => []DenialStands
  <1>1. LocalInv => DenialStands
    BY DEF LocalInv
  <1>2. QED
    BY <1>1, Invariance, PTL

(* In a single process active_decision, apply and revoke remove a decision *)
(* only when it has expired, is overruled by a denial or is revoked.       *)
THEOREM LiveDecisionStays == Spec => LiveDecisionKept
  <1> DEFINE Kept == deployment = "local" => \A d \in Devices :
                (decisions[d] # None /\ decisions'[d] = None) =>
                   \/ IsExpired(decisions[d], clock)
                   \/ denied'[d] # denied[d]
                   \/ decisions[d].number \in revoked'
  <1>1. ASSUME TypeOK, LocalInv, Next PROVE Kept
    <2> SUFFICES ASSUME deployment = "local", NEW d \in Devices,
                        decisions[d] # None, decisions'[d] = None
                 PROVE  \/ IsExpired(decisions[d], clock)
                        \/ denied'[d] # denied[d]
                        \/ decisions[d].number \in revoked'
      OBVIOUS
    <2>1. ASSUME NEW t \in Threads, ApplyGrant(t) PROVE denied'[d] # denied[d]
      <3> DEFINE dec == loc[t].dec
      <3>1. /\ loc[t].dev \in Devices /\ dec \in Decisions /\ dec.device = loc[t].dev
            /\ dec.number \in Nat /\ dec.number > denied[loc[t].dev]
            /\ denied[loc[t].dev] \in Nat
        BY <1>1, <2>1 DEF ApplyGrant, TypeOK, StoreOK, ThreadsOK, Holds, LocalInv, LocalReads, Decisions
      <3>2. d = loc[t].dev /\ Terminates(dec)
        BY <1>1, <2>1, <3>1, NoneAssumption DEF ApplyGrant, TypeOK, StoreOK
      <3>3. denied'[d] = dec.number
        BY <1>1, <2>1, <3>1, <3>2 DEF ApplyGrant, TypeOK, StoreOK
      <3>4. QED
        BY <3>1, <3>2, <3>3
    <2>2. ASSUME NEW t \in Threads, NEW e \in Devices, Revoke(t, e)
          PROVE  decisions[d].number \in revoked'
      BY <1>1, <2>2 DEF Revoke, TypeOK, StoreOK
    <2>3. ASSUME NEW t \in Threads, CheckDel(t) PROVE IsExpired(decisions[d], clock)
      <3>1. d = loc[t].dev
        BY <1>1, <2>3 DEF CheckDel, TypeOK, StoreOK
      <3>2. QED
        BY <1>1, <2>3, <3>1 DEF CheckDel, LocalInv, LocalReads
    <2>4. CASE UNCHANGED decisions
      BY <2>4
    <2>5. QED
      BY <1>1, <2>1, <2>2, <2>3, <2>4
         DEF Next, Step, Tick, Decide, ApplyLast, CheckGet, CheckExpiry, CheckRefuse
  <1>2. TypeOK /\ LocalInv /\ [Next]_vars => [Kept]_vars
    BY <1>1
  <1>3. QED
    BY <1>2, Invariance, PTL DEF Spec, LiveDecisionKept
=============================================================================
