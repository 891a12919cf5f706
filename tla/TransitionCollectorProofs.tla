--------------------- MODULE TransitionCollectorProofs ----------------------
(***************************************************************************)
(* Proofs about TransitionCollector for any devices, addresses, domains,   *)
(* windows and any finite pool of threads: that no transition is invented  *)
(* in any deployment, and that in a single process the rate is exact and   *)
(* the last transition is never replaced by an older one.                  *)
(***************************************************************************)
EXTENDS TransitionCollector, FiniteSetTheorems, SequenceTheorems, TLAPS

(* A request whose change was accepted, up to the append, and up to the    *)
(* publication of the event.                                               *)
Recording(t) == Before(t, {"append"})
Changing(t) == Before(t, {"append", "publish"})

(* The requests about d that will still append the instant i. *)
Owing(d, i) == {t \in Threads : Recording(t) /\ loc[t].dev = d /\ loc[t].now = i}

Accepted(d) == {changes[d][k] : k \in DOMAIN changes[d]}

(* In every deployment: what is counted, and what is still to be counted,  *)
(* was accepted as often; so was what is published, or is about to be.     *)
Counted(d, i) == Times(history[d], i) + Cardinality(Owing(d, i)) <= Times(changes[d], i)
NothingInvented ==
  /\ \A d \in Devices : \A i \in Nat : Counted(d, i)
  /\ \A d \in Devices : last[d] # None => last[d].detected_at \in Accepted(d)
  /\ \A t \in Threads : Changing(t) => loc[t].now \in Accepted(loc[t].dev)

(* In a single process one request is under way at most. *)
OneAtATime ==
  deployment = "local" => \A t, u \in Threads : pc[t] # "idle" /\ pc[u] # "idle" => t = u

(* The changes of d are in the order of their instants, none later than    *)
(* the position.                                                           *)
Ordered(d) ==
  /\ \A k \in DOMAIN changes[d] : position[d].at # None /\ changes[d][k] <= position[d].at
  /\ \A j, k \in DOMAIN changes[d] : j <= k => changes[d][j] <= changes[d][k]

(* What a request has read of the position still holds when it moves, and  *)
(* its own instant is that of the position afterwards.                     *)
Abreast(t) ==
  /\ pc[t] = "move" => /\ loc[t].prev = position[loc[t].dev]
                       /\ loc[t].prev.at # None => loc[t].prev.at <= loc[t].now
  /\ Changing(t) => position[loc[t].dev].at = loc[t].now

InOrder == deployment = "local" => /\ \A d \in Devices : Ordered(d)
                                   /\ \A t \in Threads : Abreast(t)

(* How many of the accepted changes have been appended. *)
Recorded(d) == IF \E t \in Threads : Recording(t) /\ loc[t].dev = d
               THEN Len(changes[d]) - 1 ELSE Len(changes[d])

(* The history is the end of what has been appended; what was pruned lies  *)
(* before the window of the latest instant.                                *)
SuffixOf(d) ==
  LET pruned == Recorded(d) - Len(history[d])
  IN /\ pruned \in Nat
     /\ \A k \in DOMAIN history[d] : history[d][k] = changes[d][pruned + k]
     /\ \A k \in 1..pruned : changes[d][k] < latest[d] - RateWindow

(* What a request knows of the history where it is. *)
Pruning(t) ==
  /\ Recording(t) => LET c == changes[loc[t].dev] IN c # << >> /\ c[Len(c)] = loc[t].now
  /\ pc[t] = "pop" => Old(history[loc[t].dev], loc[t].now)
  /\ pc[t] = "count" => ~Old(history[loc[t].dev], loc[t].now)

(* No request is later than the latest. *)
UpToDate == \A t \in Threads : pc[t] # "idle" => loc[t].now <= latest[loc[t].dev]

ExactHistory == deployment = "local" => /\ \A d \in Devices : SuffixOf(d)
                                        /\ \A t \in Threads : Pruning(t)

-----------------------------------------------------------------------------
(* Types *)

LEMMA NoRequestType == NoRequest \in Requests /\ NoRequest.dev = None /\ NoPosition \in Positions
  BY DEF NoRequest, Requests, NoPosition, Positions

LEMMA RequestType ==
  ASSUME NEW l \in Requests
  PROVE  /\ l.now \in Nat /\ l.prev \in Positions /\ l.event \in Events \cup {None}
         /\ l.domain \in Domains \cup {None} /\ l.address \in Addresses \cup {None}
         /\ l.return \in Callers \cup {"idle"} /\ l.dev \in Devices \cup {None}
  BY DEF Requests

(* The event of a change. *)
LEMMA TransitionType ==
  ASSUME NEW p \in Positions, NEW dom \in Domains, NEW now \in Nat, p.domain \in Domains
  PROVE  /\ Transition(p, dom, now) \in Events
         /\ Transition(p, dom, now).detected_at = now /\ Transition(p, dom, now) # None
  <1>1. DomainChanged(p, dom) \in BOOLEAN
    BY DEF DomainChanged
  <1>2. Transition(p, dom, now) \in Events
    BY <1>1 DEF Transition, Events
  <1> QED BY <1>2, NoneAssumption DEF Transition

(* A thread that serves a request holds a device. *)
LEMMA Busy ==
  ASSUME TypeOK, NEW t \in Threads, pc[t] # "idle"
  PROVE  loc[t].dev \in Devices /\ loc[t] \in Requests /\ loc[t].now \in Nat
  BY RequestType DEF TypeOK, RequestOK

(* A context is one of the five. *)
LEMMA ContextType ==
  ASSUME NEW e, NEW n
  PROVE  ContextOf(e, n) \in TransitionContexts
  BY DEF ContextOf, TransitionContexts

(* A step of thread t leaves the program counters and locals of the others *)
(* alone.                                                                  *)
Own(t) == /\ pc' = [pc EXCEPT ![t] = pc'[t]]
          /\ loc' = [loc EXCEPT ![t] = loc'[t]]

LEMMA StepOwn ==
  ASSUME TypeOK, NEW t \in Threads, Step(t)
  PROVE  Own(t)
  <1>1. CASE \E d \in Devices, dom \in Domains, a \in Stated,
                now \in {clock} \cup ExplicitInstants : Request(t, d, dom, a, now)
    BY <1>1 DEF Request, Goto, TypeOK, Own
  <1>2. CASE \E d \in Devices : StateQuery(t, d)
    BY <1>2 DEF StateQuery, Goto, TypeOK, Own
  <1>3. CASE ObserveCheck(t)
    BY <1>3 DEF ObserveCheck, Goto, TypeOK, Own
  <1>4. CASE ObserveMove(t)
    BY <1>4 DEF ObserveMove, Goto, TypeOK, Own
  <1>5. CASE ObserveAppend(t) \/ ObservePublish(t)
    BY <1>5 DEF ObserveAppend, ObservePublish, Goto, TypeOK, Own
  <1>6. CASE PruneTest(t) \/ PrunePop(t)
    BY <1>6 DEF PruneTest, PrunePop, Goto, TypeOK, Own
  <1>7. CASE ContextEvent(t) \/ ContextCount(t)
    BY <1>7 DEF ContextEvent, ContextCount, Goto, TypeOK, Own
  <1>8. CASE ReadRecent(t) \/ ReadCount(t)
    BY <1>8 DEF ReadRecent, ReadCount, Goto, TypeOK, Own
  <1> QED BY <1>1, <1>2, <1>3, <1>4, <1>5, <1>6, <1>7, <1>8 DEF Step

(* So a step keeps the types of the threads if it keeps those of its own. *)
LEMMA OwnTypes ==
  ASSUME TypeOK, NEW t \in Threads, Own(t), pc'[t] \in Labels, loc'[t] \in Requests,
         RequestOK(t)'
  PROVE  /\ pc' \in [Threads -> Labels] /\ loc' \in [Threads -> Requests]
         /\ \A u \in Threads : RequestOK(u)'
  <1>1. pc' \in [Threads -> Labels] /\ loc' \in [Threads -> Requests]
    BY DEF TypeOK, Own
  <1>2. \A u \in Threads \ {t} : pc'[u] = pc[u] /\ loc'[u] = loc[u]
    BY DEF TypeOK, Own
  <1>3. \A u \in Threads \ {t} : RequestOK(u)'
    BY <1>2 DEF TypeOK, RequestOK, Before
  <1> QED BY <1>1, <1>3

LEMMA TypeInit == Init => TypeOK
  BY NoRequestType DEF Init, TypeOK, RequestOK, Before, Labels

LEMMA TypeNext == TypeOK /\ [Next]_vars => TypeOK'
  <1> SUFFICES ASSUME TypeOK, [Next]_vars PROVE TypeOK'
    OBVIOUS
  <1>1. CASE Tick
    BY <1>1 DEF Tick, tracks, TypeOK, RequestOK, Before
  <1>2. CASE UNCHANGED vars
    BY <1>2 DEF vars, tracks, TypeOK, RequestOK, Before
  <1>3. ASSUME NEW t \in Threads, Step(t) PROVE TypeOK'
    <2>0. Own(t) /\ pc \in [Threads -> Labels] /\ loc \in [Threads -> Requests]
      BY <1>3, StepOwn DEF TypeOK
    <2>1. ASSUME NEW d \in Devices, NEW dom \in Domains, NEW a \in Stated,
                 NEW now \in {clock} \cup ExplicitInstants, Request(t, d, dom, a, now)
          PROVE  TypeOK'
      <3> DEFINE l == [NoRequest EXCEPT !.dev = d, !.domain = dom, !.address = a, !.now = now]
      <3>1. now \in Nat
        BY BoundAssumption DEF TypeOK
      <3>2. l \in Requests /\ l.dev = d /\ l.domain = dom /\ l.address = a
        BY <3>1, NoRequestType DEF NoRequest, Requests, Stated
      <3> HIDE DEF l
      <3>3. loc'[t] = l /\ pc'[t] = "check"
        BY <2>0, <2>1 DEF Request, Goto, l
      <3>4. RequestOK(t)'
        BY <3>2, <3>3 DEF RequestOK, Before
      <3>5. latest' \in [Devices -> Nat]
        BY <2>1, <3>1 DEF Request, TypeOK
      <3>6. "check" \in Labels
        BY DEF Labels
      <3> QED BY <2>0, <2>1, <3>2, <3>3, <3>4, <3>5, <3>6, OwnTypes DEF Request, TypeOK, tracks
    <2>2. ASSUME NEW d \in Devices, StateQuery(t, d) PROVE TypeOK'
      <3> DEFINE l == [NoRequest EXCEPT !.dev = d, !.now = clock]
      <3>1. clock \in Nat
        BY DEF TypeOK
      <3>2. l \in Requests /\ l.dev = d
        BY <3>1, NoRequestType DEF NoRequest, Requests
      <3> HIDE DEF l
      <3>3. loc'[t] = l /\ pc'[t] = "event"
        BY <2>0, <2>2 DEF StateQuery, Goto, l
      <3>4. RequestOK(t)'
        BY <3>2, <3>3 DEF RequestOK, Before
      <3>5. latest' \in [Devices -> Nat]
        BY <2>2, <3>1 DEF StateQuery, TypeOK
      <3>6. "event" \in Labels
        BY DEF Labels
      <3> QED BY <2>0, <2>2, <3>2, <3>3, <3>4, <3>5, <3>6, OwnTypes DEF StateQuery, TypeOK, tracks
    <2>3. CASE ObserveCheck(t)
      <3>1. loc[t].dev \in Devices /\ loc[t] \in Requests /\ position[loc[t].dev] \in Positions
        BY <2>3, Busy DEF ObserveCheck, TypeOK
      <3>2. /\ pc'[t] \in {"event", "move"}
            /\ \/ loc'[t] = loc[t]
               \/ loc'[t] = [loc[t] EXCEPT !.prev = position[loc[t].dev]]
        BY <2>0, <2>3 DEF ObserveCheck, Goto
      <3>3. /\ loc'[t] \in Requests /\ loc'[t].dev = loc[t].dev
            /\ loc'[t].domain = loc[t].domain /\ loc'[t].address = loc[t].address
        BY <3>1, <3>2 DEF Requests
      <3>4. loc[t].domain \in Domains /\ loc[t].address \in Stated
        BY <2>3 DEF ObserveCheck, TypeOK, RequestOK, Before
      <3>5. RequestOK(t)' /\ pc'[t] \in Labels
        BY <3>1, <3>2, <3>3, <3>4 DEF RequestOK, Before, Labels
      <3> QED BY <2>0, <2>3, <3>3, <3>5, OwnTypes DEF ObserveCheck, TypeOK, tracks
    <2>4. CASE ObserveMove(t)
      <3>1. loc[t].dev \in Devices /\ loc[t] \in Requests /\ loc[t].now \in Nat
            /\ loc[t].domain \in Domains /\ loc[t].address \in Stated
        BY <2>4, Busy DEF ObserveMove, TypeOK, RequestOK, Before
      <3>2. position' \in [Devices -> Positions]
        BY <2>4, <3>1 DEF ObserveMove, TypeOK, Positions, Stated
      <3>3. CASE /\ DomainChanged(loc[t].prev, loc[t].domain)
                    \/ AddressChanged(loc[t].prev, loc[t].domain, loc[t].address)
        <4>1. loc[t].prev.domain \in Domains
          BY <3>1, <3>3, RequestType DEF DomainChanged, AddressChanged, Positions
        <4>2. loc'[t] = [loc[t] EXCEPT !.return = "append"] /\ pc'[t] = "prune"
          BY <2>0, <2>4, <3>3 DEF ObserveMove, Goto
        <4>3. /\ loc'[t] \in Requests /\ loc'[t].dev = loc[t].dev /\ loc'[t].return = "append"
              /\ loc'[t].domain = loc[t].domain /\ loc'[t].address = loc[t].address
              /\ loc'[t].prev = loc[t].prev
          BY <3>1, <4>2 DEF Requests, Callers
        <4>4. RequestOK(t)' /\ pc'[t] \in Labels
          BY <3>1, <4>1, <4>2, <4>3 DEF RequestOK, Before, Labels, Callers
        <4>5. changes' \in [Devices -> Seq(Nat)]
          <5>1. changes' = [changes EXCEPT ![loc[t].dev] = Append(changes[loc[t].dev], loc[t].now)]
            BY <2>4, <3>3 DEF ObserveMove
          <5>2. changes \in [Devices -> Seq(Nat)]
            BY DEF TypeOK
          <5> QED BY <3>1, <5>1, <5>2
        <4> QED BY <2>0, <2>4, <3>2, <4>3, <4>4, <4>5, OwnTypes DEF ObserveMove, TypeOK
      <3>4. CASE ~(\/ DomainChanged(loc[t].prev, loc[t].domain)
                   \/ AddressChanged(loc[t].prev, loc[t].domain, loc[t].address))
        <4>1. loc'[t] = loc[t] /\ pc'[t] = "event" /\ changes' = changes
          BY <2>0, <2>4, <3>4 DEF ObserveMove, Goto
        <4>2. RequestOK(t)' /\ pc'[t] \in Labels
          BY <3>1, <4>1 DEF RequestOK, Before, Labels
        <4> QED BY <2>0, <2>4, <3>1, <3>2, <4>1, <4>2, OwnTypes DEF ObserveMove, TypeOK
      <3> QED BY <3>3, <3>4
    <2>5. CASE ObserveAppend(t)
      <3>1. /\ loc[t].dev \in Devices /\ loc[t] \in Requests /\ loc[t].now \in Nat
            /\ loc[t].domain \in Domains /\ loc[t].address \in Stated
            /\ loc[t].prev.domain \in Domains
        BY <2>5, Busy DEF ObserveAppend, TypeOK, RequestOK, Before
      <3>2. loc'[t] = loc[t] /\ pc'[t] = "publish" /\ "publish" \in Labels
        BY <2>0, <2>5 DEF ObserveAppend, Goto, Labels
      <3>3. RequestOK(t)'
        BY <3>1, <3>2 DEF RequestOK, Before
      <3>4. history' \in [Devices -> Seq(Nat)]
        BY <2>5, <3>1 DEF ObserveAppend, TypeOK
      <3> QED BY <2>0, <2>5, <3>1, <3>2, <3>3, <3>4, OwnTypes DEF ObserveAppend, TypeOK
    <2>6. CASE ObservePublish(t)
      <3>1. /\ loc[t].dev \in Devices /\ loc[t] \in Requests /\ loc[t].now \in Nat
            /\ loc[t].domain \in Domains /\ loc[t].prev \in Positions
            /\ loc[t].prev.domain \in Domains
        BY <2>6, Busy, RequestType DEF ObservePublish, TypeOK, RequestOK, Before
      <3>2. loc'[t] = loc[t] /\ pc'[t] = "event" /\ "event" \in Labels
        BY <2>0, <2>6 DEF ObservePublish, Goto, Labels
      <3>3. RequestOK(t)'
        BY <3>1, <3>2 DEF RequestOK, Before
      <3>4. Transition(loc[t].prev, loc[t].domain, loc[t].now) \in Events
        BY <3>1, TransitionType
      <3>5. last' \in [Devices -> Events \cup {None}]
        BY <2>6, <3>1, <3>4 DEF ObservePublish, TypeOK
      <3> QED BY <2>0, <2>6, <3>1, <3>2, <3>3, <3>5, OwnTypes DEF ObservePublish, TypeOK
    <2>7. CASE PruneTest(t)
      <3>1. loc[t].dev \in Devices /\ loc[t] \in Requests /\ loc[t].return \in Callers
        BY <2>7, Busy DEF PruneTest, TypeOK, RequestOK
      <3>2. loc'[t] = loc[t] /\ (pc'[t] = "pop" \/ pc'[t] = loc[t].return)
        BY <2>0, <2>7 DEF PruneTest, Goto
      <3>3. RequestOK(t)' /\ pc'[t] \in Labels
        BY <2>7, <3>1, <3>2 DEF PruneTest, TypeOK, RequestOK, Before, Labels, Callers
      <3> QED BY <2>0, <2>7, <3>1, <3>2, <3>3, OwnTypes DEF PruneTest, TypeOK, tracks
    <2>8. CASE PrunePop(t)
      <3>1. loc[t].dev \in Devices /\ loc[t] \in Requests
        BY <2>8, Busy DEF PrunePop, TypeOK
      <3>2. \/ loc'[t] = loc[t] /\ pc'[t] = "prune"
            \/ loc'[t] = NoRequest /\ pc'[t] = "idle"
        BY <2>0, <2>8 DEF PrunePop, Goto
      <3>3. RequestOK(t)' /\ pc'[t] \in Labels /\ loc'[t] \in Requests
        BY <2>8, <3>1, <3>2, NoRequestType DEF PrunePop, TypeOK, RequestOK, Before, Labels
      <3>4. history' \in [Devices -> Seq(Nat)]
        <4>1. history[loc[t].dev] \in Seq(Nat)
          BY <3>1 DEF TypeOK
        <4>2. history[loc[t].dev] # << >> => Tail(history[loc[t].dev]) \in Seq(Nat)
          BY <4>1
        <4> QED BY <2>8, <3>1, <4>2 DEF PrunePop, TypeOK
      <3> QED BY <2>0, <2>8, <3>3, <3>4, OwnTypes DEF PrunePop, TypeOK
    <2>9. CASE ContextEvent(t)
      <3>1. loc[t].dev \in Devices /\ loc[t] \in Requests /\ last[loc[t].dev] \in Events \cup {None}
        BY <2>9, Busy DEF ContextEvent, TypeOK
      <3>2. \/ /\ last[loc[t].dev] # None /\ pc'[t] = "prune"
               /\ loc'[t] = [loc[t] EXCEPT !.event = last[loc[t].dev], !.return = "context"]
            \/ /\ loc'[t] = [loc[t] EXCEPT !.context = "NONE"] /\ pc'[t] = "recent"
        BY <2>0, <2>9 DEF ContextEvent, Goto, Recent
      <3>3. /\ loc'[t] \in Requests /\ loc'[t].dev = loc[t].dev
            /\ pc'[t] = "prune" => loc'[t].return = "context" /\ loc'[t].event = last[loc[t].dev]
        BY <3>1, <3>2 DEF Requests, Callers, TransitionContexts
      <3>4. RequestOK(t)' /\ pc'[t] \in Labels
        BY <3>1, <3>2, <3>3 DEF RequestOK, Before, Labels, Callers
      <3> QED BY <2>0, <2>9, <3>3, <3>4, OwnTypes DEF ContextEvent, TypeOK, tracks
    <2>10. CASE ContextCount(t)
      <3>1. loc[t].dev \in Devices /\ loc[t] \in Requests
        BY <2>10, Busy DEF ContextCount, TypeOK
      <3>2. /\ pc'[t] = "recent" /\ "recent" \in Labels
            /\ loc'[t] = [loc[t] EXCEPT !.context =
                            ContextOf(loc[t].event, Len(history[loc[t].dev]))]
        BY <2>0, <2>10 DEF ContextCount, Goto, Labels
      <3>3. loc'[t] \in Requests /\ loc'[t].dev = loc[t].dev
        BY <3>1, <3>2, ContextType DEF Requests
      <3>4. RequestOK(t)'
        BY <3>1, <3>2, <3>3 DEF RequestOK, Before
      <3> QED BY <2>0, <2>10, <3>2, <3>3, <3>4, OwnTypes DEF ContextCount, TypeOK, tracks
    <2>11. CASE ReadRecent(t)
      <3>1. loc[t].dev \in Devices /\ loc[t] \in Requests
        BY <2>11, Busy DEF ReadRecent, TypeOK
      <3>2. /\ pc'[t] = "prune" /\ "prune" \in Labels
            /\ loc'[t] = [loc[t] EXCEPT !.recent = Recent(last[loc[t].dev], loc[t].now),
                                        !.return = "count"]
        BY <2>0, <2>11 DEF ReadRecent, Goto, Labels
      <3>3. Recent(last[loc[t].dev], loc[t].now) \in BOOLEAN
        BY DEF Recent
      <3>4. loc'[t] \in Requests /\ loc'[t].dev = loc[t].dev /\ loc'[t].return = "count"
        BY <3>1, <3>2, <3>3 DEF Requests, Callers
      <3>5. RequestOK(t)'
        BY <3>1, <3>2, <3>4 DEF RequestOK, Before, Callers
      <3> QED BY <2>0, <2>11, <3>2, <3>4, <3>5, OwnTypes DEF ReadRecent, TypeOK, tracks
    <2>12. CASE ReadCount(t)
      <3>1. loc'[t] = NoRequest /\ pc'[t] = "idle" /\ "idle" \in Labels
        BY <2>0, <2>12 DEF ReadCount, Goto, Labels
      <3>2. RequestOK(t)'
        BY <3>1 DEF RequestOK, Before
      <3> QED BY <2>0, <2>12, <3>1, <3>2, NoRequestType, OwnTypes DEF ReadCount, TypeOK, tracks
    <2> QED BY <1>3, <2>1, <2>2, <2>3, <2>4, <2>5, <2>6, <2>7, <2>8, <2>9, <2>10, <2>11, <2>12
            DEF Step
  <1> QED BY <1>1, <1>2, <1>3 DEF Next

(* Whatever the threads do, the tracks and the requests keep their shapes: *)
(* no request reaches the append or the context without what it needs.     *)
THEOREM TypeCorrect == Spec => []TypeOK
  BY TypeInit, TypeNext, PTL DEF Spec

-----------------------------------------------------------------------------
(* Counting *)

Places(s, i) == {k \in DOMAIN s : s[k] = i}

LEMMA TimesType ==
  ASSUME NEW s \in Seq(Nat), NEW i
  PROVE  IsFiniteSet(Places(s, i)) /\ Times(s, i) = Cardinality(Places(s, i)) /\ Times(s, i) \in Nat
  <1>1. DOMAIN s = 1..Len(s) /\ Len(s) \in Nat
    OBVIOUS
  <1>2. IsFiniteSet(DOMAIN s)
    BY <1>1, FS_Interval
  <1>3. IsFiniteSet(Places(s, i))
    BY <1>2, FS_Subset DEF Places
  <1>4. Times(s, i) = Cardinality(Places(s, i))
    BY DEF Times, Places
  <1> QED BY <1>3, <1>4, FS_CardinalityType

LEMMA TimesAppend ==
  ASSUME NEW s \in Seq(Nat), NEW x \in Nat, NEW i \in Nat
  PROVE  Times(Append(s, x), i) = IF x = i THEN Times(s, i) + 1 ELSE Times(s, i)
  <1> DEFINE r == Append(s, x)
  <1>1. /\ r \in Seq(Nat) /\ DOMAIN r = DOMAIN s \cup {Len(s) + 1} /\ Len(s) + 1 \notin DOMAIN s
        /\ r[Len(s) + 1] = x /\ \A k \in DOMAIN s : r[k] = s[k]
    OBVIOUS
  <1> HIDE DEF r
  <1>2. CASE x = i
    <2>1. Places(r, i) = Places(s, i) \cup {Len(s) + 1} /\ Len(s) + 1 \notin Places(s, i)
      BY <1>1, <1>2 DEF Places
    <2>2. Cardinality(Places(s, i) \cup {Len(s) + 1}) = Cardinality(Places(s, i)) + 1
      BY <2>1, TimesType, FS_AddElement
    <2> QED BY <1>1, <1>2, <2>1, <2>2, TimesType DEF r
  <1>3. CASE x # i
    <2>1. Places(r, i) = Places(s, i)
      BY <1>1, <1>3 DEF Places
    <2> QED BY <1>1, <1>3, <2>1, TimesType DEF r
  <1> QED BY <1>2, <1>3

LEMMA TimesTail ==
  ASSUME NEW s \in Seq(Nat), NEW i \in Nat, s # << >>
  PROVE  Tail(s) \in Seq(Nat) /\ Times(Tail(s), i) <= Times(s, i)
  <1> DEFINE r == Tail(s)
             f == [k \in Places(r, i) |-> k + 1]
  <1>1. /\ r \in Seq(Nat) /\ DOMAIN r = 1..(Len(s) - 1) /\ DOMAIN s = 1..Len(s) /\ Len(s) \in Nat
        /\ \A k \in DOMAIN r : r[k] = s[k + 1]
    OBVIOUS
  <1> HIDE DEF r
  <1>2. \A k \in Places(r, i) : k \in Nat /\ k + 1 \in Places(s, i)
    BY <1>1, SMTT(30) DEF Places
  <1>3. f \in Injection(Places(r, i), Places(s, i))
    BY <1>2 DEF Injection, IsInjective
  <1>4. Cardinality(Places(r, i)) <= Cardinality(Places(s, i))
    BY <1>3, TimesType, FS_Injection
  <1> QED BY <1>1, <1>4, TimesType DEF r

(* The instant of an accepted change occurs among the changes. *)
LEMMA AcceptedOccurs ==
  ASSUME NEW s \in Seq(Nat), NEW i, NEW k \in DOMAIN s, s[k] = i
  PROVE  Times(s, i) > 0
  <1>1. Places(s, i) # {}
    BY DEF Places
  <1> QED BY <1>1, TimesType, FS_EmptySet

LEMMA OwingType ==
  ASSUME NEW d, NEW i
  PROVE  IsFiniteSet(Owing(d, i)) /\ Cardinality(Owing(d, i)) \in Nat
  <1>1. Owing(d, i) \subseteq Threads
    BY DEF Owing
  <1>2. IsFiniteSet(Owing(d, i))
    BY <1>1, PoolAssumption, FS_Subset
  <1> QED BY <1>2, FS_CardinalityType

-----------------------------------------------------------------------------
(* No transition is invented, in any deployment. *)

(* A step that records nothing, accepts nothing and publishes nothing. *)
LEMMA QuietKeeps ==
  ASSUME TypeOK, NothingInvented, changes' = changes, last' = last,
         \A d \in Devices : history'[d] = history[d] \/ (history[d] # << >>
                                                        /\ history'[d] = Tail(history[d])),
         \A u \in Threads : Changing(u)' => Changing(u) /\ loc'[u].dev = loc[u].dev
                                            /\ loc'[u].now = loc[u].now,
         \A u \in Threads : Recording(u)' => Recording(u)
  PROVE  NothingInvented'
  <1>1. ASSUME NEW d \in Devices, NEW i \in Nat PROVE Counted(d, i)'
    <2>1. Owing(d, i)' \subseteq Owing(d, i)
      <3>1. \A u \in Threads : Recording(u)' => Changing(u)'
        BY DEF Recording, Changing, Before
      <3> QED BY <3>1 DEF Owing
    <2>2. Cardinality(Owing(d, i)') <= Cardinality(Owing(d, i))
      BY <2>1, OwingType, FS_Subset
    <2>3. Cardinality(Owing(d, i)) \in Nat /\ Cardinality(Owing(d, i)') \in Nat
      BY <2>1, OwingType, FS_Subset, FS_CardinalityType
    <2>4. history[d] \in Seq(Nat) /\ changes[d] \in Seq(Nat)
      BY DEF TypeOK
    <2>6. Times(history[d], i) \in Nat /\ Times(changes[d], i) \in Nat
      BY <2>4, TimesType
    <2>5. Times(history'[d], i) <= Times(history[d], i) /\ Times(history'[d], i) \in Nat
      <3>1. CASE history'[d] = history[d]
        BY <2>6, <3>1
      <3>2. CASE history[d] # << >> /\ history'[d] = Tail(history[d])
        <4>1. Tail(history[d]) \in Seq(Nat) /\ Times(Tail(history[d]), i) <= Times(history[d], i)
          BY <2>4, <3>2, TimesTail
        <4> QED BY <3>2, <4>1, TimesType
      <3> QED BY <3>1, <3>2
    <2>7. Counted(d, i)
      BY DEF NothingInvented
    <2> QED BY <2>2, <2>3, <2>5, <2>6, <2>7 DEF Counted
  <1>2. \A d \in Devices : Accepted(d)' = Accepted(d)
    BY DEF Accepted
  <1>3. ASSUME NEW u \in Threads, Changing(u)' PROVE (loc[u].now \in Accepted(loc[u].dev))'
    <2>1. loc[u].now \in Accepted(loc[u].dev) /\ loc'[u].dev = loc[u].dev /\ loc'[u].now = loc[u].now
      BY <1>3 DEF NothingInvented
    <2> QED BY <2>1 DEF Accepted
  <1> QED BY <1>1, <1>2, <1>3 DEF NothingInvented

(* The threads other than t are where they were. *)
LEMMA OthersKept ==
  ASSUME TypeOK, NEW t \in Threads, Own(t)
  PROVE  \A u \in Threads \ {t} :
           /\ pc'[u] = pc[u] /\ loc'[u] = loc[u]
           /\ Recording(u)' = Recording(u) /\ Changing(u)' = Changing(u)
  <1>1. \A u \in Threads \ {t} : pc'[u] = pc[u] /\ loc'[u] = loc[u]
    BY DEF TypeOK, Own
  <1> QED BY <1>1 DEF Recording, Changing, Before

(* Which steps are quiet, and what they do to the thread that takes them. *)
Quiet(t) ==
  \/ \E d \in Devices, dom \in Domains, a \in Stated, now \in {clock} \cup ExplicitInstants :
       Request(t, d, dom, a, now)
  \/ \E d \in Devices : StateQuery(t, d)
  \/ ObserveCheck(t) \/ PruneTest(t) \/ PrunePop(t)
  \/ ContextEvent(t) \/ ContextCount(t) \/ ReadRecent(t) \/ ReadCount(t)

LEMMA QuietMeans ==
  ASSUME TypeOK, NEW t \in Threads, Own(t), Quiet(t)
  PROVE  /\ changes' = changes /\ last' = last /\ position' = position
         /\ \A d \in Devices : \/ history'[d] = history[d]
                               \/ history[d] # << >> /\ history'[d] = Tail(history[d])
         /\ Changing(t)' => Changing(t) /\ loc'[t].dev = loc[t].dev /\ loc'[t].now = loc[t].now
         /\ Recording(t)' => Recording(t)
  <1> USE DEF Recording, Changing, Before
  <1>0. pc \in [Threads -> Labels] /\ loc \in [Threads -> Requests]
    BY DEF TypeOK
  <1>1. CASE \E d \in Devices, dom \in Domains, a \in Stated,
                now \in {clock} \cup ExplicitInstants : Request(t, d, dom, a, now)
    BY <1>0, <1>1 DEF Request, Goto, tracks
  <1>2. CASE \E d \in Devices : StateQuery(t, d)
    BY <1>0, <1>2 DEF StateQuery, Goto, tracks
  <1>3. CASE ObserveCheck(t)
    BY <1>0, <1>3 DEF ObserveCheck, Goto, tracks
  <1>4. CASE PruneTest(t)
    <2>1. pc[t] = "prune" /\ loc'[t] = loc[t] /\ (pc'[t] = "pop" \/ pc'[t] = loc[t].return)
      BY <1>0, <1>4 DEF PruneTest, Goto
    <2>2. loc[t].return \in Callers
      BY <2>1 DEF TypeOK, RequestOK
    <2>3. UNCHANGED <<changes, last, position, history>>
      BY <1>4 DEF PruneTest, tracks
    <2> QED BY <2>1, <2>2, <2>3 DEF Callers
  <1>5. CASE PrunePop(t)
    <2>1. /\ pc[t] = "pop"
          /\ \/ loc'[t] = loc[t] /\ pc'[t] = "prune"
             \/ pc'[t] = "idle"
      BY <1>0, <1>5 DEF PrunePop, Goto
    <2>2. UNCHANGED <<changes, last, position>>
      BY <1>5 DEF PrunePop
    <2>3. \A d \in Devices : \/ history'[d] = history[d]
                             \/ history[d] # << >> /\ history'[d] = Tail(history[d])
      BY <1>5 DEF PrunePop, TypeOK
    <2> QED BY <2>1, <2>2, <2>3
  <1>6. CASE ContextEvent(t)
    <2>1. /\ pc[t] = "event"
          /\ \/ loc'[t].return = "context" /\ pc'[t] = "prune"
             \/ pc'[t] = "recent"
      BY <1>0, <1>6 DEF ContextEvent, Goto, Requests
    <2>2. UNCHANGED <<changes, last, position, history>>
      BY <1>6 DEF ContextEvent, tracks
    <2> QED BY <2>1, <2>2
  <1>7. CASE ContextCount(t)
    BY <1>0, <1>7 DEF ContextCount, Goto, tracks
  <1>8. CASE ReadRecent(t)
    <2>1. loc'[t].return = "count" /\ pc'[t] = "prune"
      BY <1>0, <1>8 DEF ReadRecent, Goto, Requests
    <2>2. UNCHANGED <<changes, last, position, history>>
      BY <1>8 DEF ReadRecent, tracks
    <2> QED BY <2>1, <2>2
  <1>9. CASE ReadCount(t)
    BY <1>0, <1>9 DEF ReadCount, Goto, tracks
  <1> QED BY <1>1, <1>2, <1>3, <1>4, <1>5, <1>6, <1>7, <1>8, <1>9 DEF Quiet

(* A move either sees the device where it was or accepts a change. *)
LEMMA MoveMeans ==
  ASSUME TypeOK, NEW t \in Threads, Own(t), ObserveMove(t)
  PROVE  /\ pc[t] = "move" /\ loc[t].dev \in Devices /\ loc[t].now \in Nat
         /\ history' = history /\ last' = last /\ latest' = latest
         /\ position' = [position EXCEPT ![loc[t].dev] =
                           [domain |-> loc[t].domain, address |-> loc[t].address, at |-> loc[t].now]]
         /\ ~Changing(t) /\ ~Recording(t)
         /\ loc'[t].dev = loc[t].dev /\ loc'[t].now = loc[t].now
         /\ \/ /\ changes' = changes /\ ~Changing(t)' /\ ~Recording(t)' /\ pc'[t] = "event"
            \/ /\ changes' = [changes EXCEPT ![loc[t].dev] =
                                Append(changes[loc[t].dev], loc[t].now)]
               /\ Changing(t)' /\ Recording(t)' /\ pc'[t] = "prune"
  <1>1. pc[t] = "move" /\ loc[t].dev \in Devices /\ loc[t] \in Requests /\ loc[t].now \in Nat
    BY Busy DEF ObserveMove
  <1>2. pc \in [Threads -> Labels] /\ loc \in [Threads -> Requests]
    BY DEF TypeOK
  <1>3. \/ changes' = changes /\ loc'[t] = loc[t] /\ pc'[t] = "event"
        \/ /\ changes' = [changes EXCEPT ![loc[t].dev] = Append(changes[loc[t].dev], loc[t].now)]
           /\ loc'[t] = [loc[t] EXCEPT !.return = "append"] /\ pc'[t] = "prune"
    BY <1>2 DEF ObserveMove, Goto
  <1>4. /\ loc'[t].dev = loc[t].dev /\ loc'[t].now = loc[t].now
        /\ pc'[t] = "prune" => loc'[t].return = "append"
    BY <1>1, <1>3 DEF Requests
  <1>5. UNCHANGED <<history, last, latest>>
    BY DEF ObserveMove
  <1>6. position' = [position EXCEPT ![loc[t].dev] =
                       [domain |-> loc[t].domain, address |-> loc[t].address, at |-> loc[t].now]]
    BY DEF ObserveMove
  <1> QED BY <1>1, <1>3, <1>4, <1>5, <1>6 DEF Recording, Changing, Before

LEMMA InventedInit == Init => NothingInvented
  <1> SUFFICES ASSUME Init PROVE NothingInvented
    OBVIOUS
  <1>1. \A t \in Threads : ~Recording(t) /\ ~Changing(t)
    BY DEF Init, Recording, Changing, Before
  <1>2. ASSUME NEW d \in Devices, NEW i \in Nat PROVE Counted(d, i)
    <2>1. Owing(d, i) = {} /\ history[d] = << >> /\ changes[d] = << >>
      BY <1>1 DEF Owing, Init
    <2>2. Times(history[d], i) \in Nat
      BY TimesType, TypeInit DEF TypeOK
    <2> QED BY <2>1, <2>2, FS_EmptySet DEF Counted
  <1> QED BY <1>1, <1>2 DEF NothingInvented, Init

LEMMA AppendMeans ==
  ASSUME TypeOK, NEW t \in Threads, Own(t), ObserveAppend(t)
  PROVE  /\ pc[t] = "append" /\ loc[t].dev \in Devices /\ loc[t].now \in Nat
         /\ UNCHANGED <<position, last, changes, latest>> /\ loc'[t] = loc[t]
         /\ history' = [history EXCEPT ![loc[t].dev] = Append(history[loc[t].dev], loc[t].now)]
         /\ Recording(t) /\ Changing(t) /\ ~Recording(t)' /\ Changing(t)' /\ pc'[t] = "publish"
  <1>1. pc[t] = "append" /\ loc[t].dev \in Devices /\ loc[t].now \in Nat
    BY Busy DEF ObserveAppend
  <1>2. pc'[t] = "publish" /\ loc'[t] = loc[t]
    BY DEF ObserveAppend, Goto, TypeOK
  <1> QED BY <1>1, <1>2 DEF ObserveAppend, Recording, Changing, Before

LEMMA PublishMeans ==
  ASSUME TypeOK, NEW t \in Threads, Own(t), ObservePublish(t)
  PROVE  /\ pc[t] = "publish" /\ loc[t].dev \in Devices /\ loc[t].now \in Nat
         /\ UNCHANGED <<position, history, changes, latest>> /\ loc'[t] = loc[t]
         /\ last' \in [Devices -> Events \cup {None}]
         /\ last'[loc[t].dev] # None /\ last'[loc[t].dev].detected_at = loc[t].now
         /\ \A d \in Devices \ {loc[t].dev} : last'[d] = last[d]
         /\ Changing(t) /\ ~Recording(t) /\ ~Recording(t)' /\ ~Changing(t)' /\ pc'[t] = "event"
  <1> DEFINE e == Transition(loc[t].prev, loc[t].domain, loc[t].now)
  <1>1. pc[t] = "publish" /\ loc[t].dev \in Devices /\ loc[t].now \in Nat /\ loc[t] \in Requests
    BY Busy DEF ObservePublish
  <1>2. pc'[t] = "event" /\ loc'[t] = loc[t]
    BY DEF ObservePublish, Goto, TypeOK
  <1>3. loc[t].domain \in Domains /\ loc[t].prev.domain \in Domains /\ loc[t].prev \in Positions
    BY <1>1, RequestType DEF TypeOK, RequestOK, Before
  <1>4. e \in Events /\ e.detected_at = loc[t].now /\ e # None
    BY <1>1, <1>3, TransitionType
  <1>5. last' = [last EXCEPT ![loc[t].dev] = e]
    BY DEF ObservePublish
  <1> HIDE DEF e
  <1>6. last \in [Devices -> Events \cup {None}]
    BY DEF TypeOK
  <1>7. /\ last' \in [Devices -> Events \cup {None}] /\ last'[loc[t].dev] = e
        /\ \A d \in Devices \ {loc[t].dev} : last'[d] = last[d]
    BY <1>1, <1>4, <1>5, <1>6
  <1>8. UNCHANGED <<position, history, changes, latest>>
    BY DEF ObservePublish
  <1> QED BY <1>1, <1>2, <1>4, <1>7, <1>8 DEF Recording, Changing, Before

LEMMA InventedNext == TypeOK /\ NothingInvented /\ [Next]_vars => NothingInvented'
  <1> SUFFICES ASSUME TypeOK, NothingInvented, [Next]_vars PROVE NothingInvented'
    OBVIOUS
  <1>1. CASE Tick \/ UNCHANGED vars
    <2>1. UNCHANGED <<tracks, pc, loc, changes>>
      BY <1>1 DEF Tick, vars
    <2> QED BY <2>1, QuietKeeps DEF tracks, Recording, Changing, Before
  <1>2. ASSUME NEW t \in Threads, Step(t) PROVE NothingInvented'
    <2>0. Own(t)
      BY <1>2, StepOwn
    <2>1. \A u \in Threads \ {t} :
            /\ pc'[u] = pc[u] /\ loc'[u] = loc[u]
            /\ Recording(u)' = Recording(u) /\ Changing(u)' = Changing(u)
      BY <2>0, OthersKept
    <2>2. CASE Quiet(t)
      <3>1. /\ changes' = changes /\ last' = last
            /\ \A d \in Devices : \/ history'[d] = history[d]
                                  \/ history[d] # << >> /\ history'[d] = Tail(history[d])
            /\ Changing(t)' => Changing(t) /\ loc'[t].dev = loc[t].dev /\ loc'[t].now = loc[t].now
            /\ Recording(t)' => Recording(t)
        BY <2>0, <2>2, QuietMeans
      <3>2. \A u \in Threads : Changing(u)' => Changing(u) /\ loc'[u].dev = loc[u].dev
                                                /\ loc'[u].now = loc[u].now
        BY <2>1, <3>1
      <3>3. \A u \in Threads : Recording(u)' => Recording(u)
        BY <2>1, <3>1
      <3> QED BY <3>1, <3>2, <3>3, QuietKeeps
    <2>3. CASE ObserveMove(t)
      <3> DEFINE d == loc[t].dev
                 now == loc[t].now
      <3>1. /\ d \in Devices /\ now \in Nat /\ history' = history /\ last' = last
            /\ ~Changing(t) /\ ~Recording(t) /\ loc'[t].dev = d /\ loc'[t].now = now
            /\ \/ changes' = changes /\ ~Changing(t)' /\ ~Recording(t)'
               \/ /\ changes' = [changes EXCEPT ![d] = Append(changes[d], now)]
                  /\ Changing(t)' /\ Recording(t)'
        BY <2>0, <2>3, MoveMeans
      <3> HIDE DEF d, now
      <3>2. CASE changes' = changes /\ ~Changing(t)' /\ ~Recording(t)'
        BY <2>1, <3>1, <3>2, QuietKeeps
      <3>3. CASE /\ changes' = [changes EXCEPT ![d] = Append(changes[d], now)]
                 /\ Changing(t)' /\ Recording(t)'
        <4>1. changes \in [Devices -> Seq(Nat)] /\ history \in [Devices -> Seq(Nat)]
          BY DEF TypeOK
        <4>2. changes'[d] = Append(changes[d], now) /\ \A x \in Devices \ {d} : changes'[x] = changes[x]
          BY <3>1, <3>3, <4>1
        <4>a. d \in Devices /\ now \in Nat /\ changes[d] \in Seq(Nat)
          BY <3>1, <4>1
        <4>b. \A i \in Nat : Times(changes'[d], i) = IF now = i THEN Times(changes[d], i) + 1
                                                    ELSE Times(changes[d], i)
          BY <4>2, <4>a, TimesAppend
        <4>3. ASSUME NEW x \in Devices, NEW i \in Nat PROVE Counted(x, i)'
          <5>1. Counted(x, i) /\ Cardinality(Owing(x, i)) \in Nat /\ IsFiniteSet(Owing(x, i))
                /\ Times(changes[x], i) \in Nat /\ Times(history[x], i) \in Nat
            BY <4>1, OwingType, TimesType DEF NothingInvented
          <5>2. CASE x = d /\ i = now
            <6>1. Owing(x, i)' = Owing(x, i) \cup {t} /\ t \notin Owing(x, i)
              BY <2>1, <3>1, <3>3, <5>2 DEF Owing
            <6>2. Cardinality(Owing(x, i)') = Cardinality(Owing(x, i)) + 1
              BY <5>1, <6>1, FS_AddElement
            <6>3. Times(changes'[x], i) = Times(changes[x], i) + 1
              BY <4>b, <5>2
            <6> QED BY <3>1, <5>1, <6>2, <6>3 DEF Counted
          <5>3. CASE ~(x = d /\ i = now)
            <6>1. Owing(x, i)' = Owing(x, i)
              BY <2>1, <3>1, <3>3, <5>3 DEF Owing
            <6>2. Times(changes'[x], i) = Times(changes[x], i)
              BY <4>2, <4>b, <5>3
            <6> QED BY <3>1, <5>1, <6>1, <6>2 DEF Counted
          <5> QED BY <5>2, <5>3
        <4>4. \A x \in Devices : Accepted(x) \subseteq Accepted(x)'
          <5>1. /\ DOMAIN changes[d] \subseteq DOMAIN changes'[d]
                /\ \A k \in DOMAIN changes[d] : changes'[d][k] = changes[d][k]
            BY <3>1, <4>1, <4>2
          <5> QED BY <4>2, <5>1 DEF Accepted
        <4>5. (now \in Accepted(d))'
          <5>1. Len(changes[d]) + 1 \in DOMAIN changes'[d] /\ changes'[d][Len(changes[d]) + 1] = now
            BY <3>1, <4>1, <4>2
          <5> QED BY <3>1, <5>1 DEF Accepted, d, now
        <4>6. ASSUME NEW u \in Threads, Changing(u)' PROVE (loc[u].now \in Accepted(loc[u].dev))'
          <5>1. CASE u = t
            BY <3>1, <4>5, <5>1 DEF Accepted, d, now
          <5>2. CASE u # t
            <6>1. Changing(u) /\ loc'[u] = loc[u] /\ loc[u].now \in Accepted(loc[u].dev)
              BY <2>1, <4>6, <5>2 DEF NothingInvented
            <6>2. loc[u].dev \in Devices
              BY <6>1, Busy DEF Changing, Before
            <6> QED BY <4>4, <6>1, <6>2 DEF Accepted
          <5> QED BY <5>1, <5>2
        <4>7. \A x \in Devices : last'[x] # None => last'[x].detected_at \in Accepted(x)'
          BY <3>1, <4>4 DEF NothingInvented
        <4> QED BY <4>3, <4>6, <4>7 DEF NothingInvented
      <3> QED BY <3>1, <3>2, <3>3
    <2>4. CASE ObserveAppend(t)
      <3> DEFINE d == loc[t].dev
                 now == loc[t].now
      <3>1. /\ d \in Devices /\ now \in Nat /\ last' = last /\ changes' = changes /\ loc'[t] = loc[t]
            /\ history' = [history EXCEPT ![d] = Append(history[d], now)]
            /\ Recording(t) /\ Changing(t) /\ ~Recording(t)'
        BY <2>0, <2>4, AppendMeans
      <3>2. changes \in [Devices -> Seq(Nat)] /\ history \in [Devices -> Seq(Nat)]
        BY DEF TypeOK
      <3>3. history'[d] = Append(history[d], now) /\ \A x \in Devices \ {d} : history'[x] = history[x]
        BY <3>1, <3>2
      <3>4. ASSUME NEW x \in Devices, NEW i \in Nat PROVE Counted(x, i)'
        <4>1. Counted(x, i) /\ Cardinality(Owing(x, i)) \in Nat /\ IsFiniteSet(Owing(x, i))
              /\ Times(changes[x], i) \in Nat /\ Times(history[x], i) \in Nat
          BY <3>2, OwingType, TimesType DEF NothingInvented
        <4>2. CASE x = d /\ i = now
          <5>1. Owing(x, i)' = Owing(x, i) \ {t} /\ t \in Owing(x, i)
            BY <2>1, <3>1, <4>2 DEF Owing
          <5>2. Cardinality(Owing(x, i)') = Cardinality(Owing(x, i)) - 1
            BY <4>1, <5>1, FS_RemoveElement
          <5>3. Times(history'[x], i) = Times(history[x], i) + 1
            BY <3>1, <3>2, <3>3, <4>2, TimesAppend
          <5> QED BY <3>1, <4>1, <5>2, <5>3 DEF Counted
        <4>3. CASE ~(x = d /\ i = now)
          <5>1. Owing(x, i)' = Owing(x, i)
            BY <2>1, <3>1, <4>3 DEF Owing
          <5>2. Times(history'[x], i) = Times(history[x], i)
            BY <3>1, <3>2, <3>3, <4>3, TimesAppend
          <5> QED BY <3>1, <4>1, <5>1, <5>2 DEF Counted
        <4> QED BY <4>2, <4>3
      <3>5. \A x \in Devices : Accepted(x)' = Accepted(x)
        BY <3>1 DEF Accepted
      <3>6. ASSUME NEW u \in Threads, Changing(u)' PROVE (loc[u].now \in Accepted(loc[u].dev))'
        <4>1. Changing(u) /\ loc'[u] = loc[u] /\ loc[u].now \in Accepted(loc[u].dev)
          BY <2>1, <3>1, <3>6 DEF NothingInvented
        <4> QED BY <3>1, <4>1 DEF Accepted
      <3> QED BY <3>1, <3>4, <3>5, <3>6 DEF NothingInvented
    <2>5. CASE ObservePublish(t)
      <3>1. /\ loc[t].dev \in Devices /\ changes' = changes /\ history' = history /\ loc'[t] = loc[t]
            /\ last'[loc[t].dev].detected_at = loc[t].now
            /\ \A x \in Devices \ {loc[t].dev} : last'[x] = last[x]
            /\ Changing(t) /\ ~Recording(t) /\ ~Recording(t)' /\ ~Changing(t)'
        BY <2>0, <2>5, PublishMeans
      <3>2. \A x \in Devices : Accepted(x)' = Accepted(x)
        BY <3>1 DEF Accepted
      <3>3. ASSUME NEW x \in Devices, NEW i \in Nat PROVE Counted(x, i)'
        <4>1. Owing(x, i)' = Owing(x, i)
          BY <2>1, <3>1 DEF Owing
        <4> QED BY <3>1, <4>1 DEF NothingInvented, Counted
      <3>4. loc[t].now \in Accepted(loc[t].dev)
        BY <3>1 DEF NothingInvented
      <3>5. \A x \in Devices : last'[x] # None => last'[x].detected_at \in Accepted(x)'
        BY <3>1, <3>2, <3>4 DEF NothingInvented
      <3>6. ASSUME NEW u \in Threads, Changing(u)' PROVE (loc[u].now \in Accepted(loc[u].dev))'
        <4>1. Changing(u) /\ loc'[u] = loc[u] /\ loc[u].now \in Accepted(loc[u].dev)
          BY <2>1, <3>1, <3>6 DEF NothingInvented
        <4> QED BY <3>1, <4>1 DEF Accepted
      <3> QED BY <3>3, <3>5, <3>6 DEF NothingInvented
    <2> QED BY <1>2, <2>2, <2>3, <2>4, <2>5 DEF Step, Quiet
  <1> QED BY <1>1, <1>2 DEF Next

(* However the requests of any number of threads interleave, the rate and  *)
(* the last transition come from changes that observe_detailed accepted,   *)
(* none of which is counted twice.                                         *)
THEOREM NothingIsInvented == Spec => []NoPhantomTransition
  <1>1. TypeOK /\ NothingInvented => NoPhantomTransition
    <2> SUFFICES ASSUME TypeOK, NothingInvented, NEW d \in Devices
                 PROVE  /\ \A k \in DOMAIN history[d] :
                             Times(history[d], history[d][k]) <= Times(changes[d], history[d][k])
                        /\ last[d] # None => Times(changes[d], last[d].detected_at) > 0
      BY DEF NoPhantomTransition
    <2>1. history[d] \in Seq(Nat) /\ changes[d] \in Seq(Nat)
      BY DEF TypeOK
    <2>2. ASSUME NEW k \in DOMAIN history[d]
          PROVE  Times(history[d], history[d][k]) <= Times(changes[d], history[d][k])
      <3>1. history[d][k] \in Nat
        BY <2>1
      <3>2. Counted(d, history[d][k])
        BY <3>1 DEF NothingInvented
      <3> QED BY <2>1, <3>1, <3>2, OwingType, TimesType DEF Counted
    <2>3. ASSUME last[d] # None PROVE Times(changes[d], last[d].detected_at) > 0
      <3>1. PICK k \in DOMAIN changes[d] : changes[d][k] = last[d].detected_at
        BY <2>3 DEF NothingInvented, Accepted
      <3> QED BY <2>1, <3>1, AcceptedOccurs
    <2> QED BY <2>2, <2>3
  <1> QED BY <1>1, TypeCorrect, InventedInit, InventedNext, PTL DEF Spec

-----------------------------------------------------------------------------
(* The order of the requests *)

(* A request begins: nothing about any track changes but the latest        *)
(* instant used for it.                                                    *)
Begins(t) ==
  /\ pc[t] = "idle" /\ pc'[t] \in {"check", "event"}
  /\ deployment = "local" => \A u \in Threads : pc[u] = "idle"
  /\ UNCHANGED <<deployment, position, history, last, changes>>
  /\ loc'[t].dev \in Devices /\ loc'[t].now \in Nat
  /\ \A d \in Devices : latest'[d] >= latest[d]
  /\ loc'[t].now <= latest'[loc'[t].dev]

LEMMA BeginMeans ==
  ASSUME TypeOK, NEW t \in Threads, Own(t),
         \/ \E d \in Devices, dom \in Domains, a \in Stated,
               now \in {clock} \cup ExplicitInstants : Request(t, d, dom, a, now)
         \/ \E d \in Devices : StateQuery(t, d)
  PROVE  Begins(t)
  <1>0. /\ pc \in [Threads -> Labels] /\ loc \in [Threads -> Requests]
        /\ latest \in [Devices -> Nat] /\ clock \in Nat
    BY DEF TypeOK
  <1>1. ASSUME NEW d \in Devices, NEW dom \in Domains, NEW a \in Stated,
               NEW now \in {clock} \cup ExplicitInstants, Request(t, d, dom, a, now)
        PROVE  Begins(t)
    <2>1. now \in Nat
      BY <1>0, BoundAssumption
    <2>2. loc'[t].dev = d /\ loc'[t].now = now /\ pc'[t] = "check"
      BY <1>0, <1>1 DEF Request, Goto, NoRequest
    <2>3. latest' = [latest EXCEPT ![d] = IF now > latest[d] THEN now ELSE latest[d]]
      BY <1>1 DEF Request
    <2>4. now <= latest'[d] /\ \A x \in Devices : latest'[x] >= latest[x]
      BY <1>0, <2>1, <2>3
    <2>5. /\ pc[t] = "idle" /\ deployment = "local" => \A u \in Threads : pc[u] = "idle"
          /\ UNCHANGED <<deployment, position, history, last, changes>>
      BY <1>1 DEF Request, Starts, tracks
    <2> QED BY <1>1, <2>1, <2>2, <2>4, <2>5 DEF Begins, Request, Starts
  <1>2. ASSUME NEW d \in Devices, StateQuery(t, d) PROVE Begins(t)
    <2>2. loc'[t].dev = d /\ loc'[t].now = clock /\ pc'[t] = "event"
      BY <1>0, <1>2 DEF StateQuery, Goto, NoRequest
    <2>3. latest' = [latest EXCEPT ![d] = IF clock > latest[d] THEN clock ELSE latest[d]]
      BY <1>2 DEF StateQuery
    <2>4. clock <= latest'[d] /\ \A x \in Devices : latest'[x] >= latest[x]
      BY <1>0, <2>3
    <2>5. /\ pc[t] = "idle" /\ deployment = "local" => \A u \in Threads : pc[u] = "idle"
          /\ UNCHANGED <<deployment, position, history, last, changes>>
      BY <1>2 DEF StateQuery, Starts, tracks
    <2> QED BY <1>0, <1>2, <2>2, <2>4, <2>5 DEF Begins, StateQuery, Starts
  <1> QED BY <1>1, <1>2

(* Every other step is one of a request under way. *)
Continues(t) ==
  /\ pc[t] # "idle" /\ UNCHANGED <<deployment, latest>>
  /\ pc'[t] = "idle" \/ (loc'[t].dev = loc[t].dev /\ loc'[t].now = loc[t].now)

LEMMA ContinueMeans ==
  ASSUME TypeOK, NEW t \in Threads, Own(t),
         \/ ObserveCheck(t) \/ ObserveMove(t) \/ ObserveAppend(t) \/ ObservePublish(t)
         \/ PruneTest(t) \/ PrunePop(t)
         \/ ContextEvent(t) \/ ContextCount(t) \/ ReadRecent(t) \/ ReadCount(t)
  PROVE  Continues(t)
  <1> USE DEF Continues
  <1>0. pc \in [Threads -> Labels] /\ loc \in [Threads -> Requests] /\ loc[t] \in Requests
    BY DEF TypeOK
  <1>1. CASE ObserveCheck(t)
    BY <1>0, <1>1, SMTT(30) DEF ObserveCheck, Goto, Requests
  <1>2. CASE ObserveMove(t)
    BY <1>2, MoveMeans DEF ObserveMove
  <1>3. CASE ObserveAppend(t)
    BY <1>3, AppendMeans DEF ObserveAppend
  <1>4. CASE ObservePublish(t)
    BY <1>4, PublishMeans DEF ObservePublish
  <1>5. CASE PruneTest(t)
    BY <1>0, <1>5 DEF PruneTest, Goto
  <1>6. CASE PrunePop(t)
    BY <1>0, <1>6 DEF PrunePop, Goto
  <1>7. CASE ContextEvent(t)
    BY <1>0, <1>7 DEF ContextEvent, Goto, Requests
  <1>8. CASE ContextCount(t)
    BY <1>0, <1>8 DEF ContextCount, Goto, Requests
  <1>9. CASE ReadRecent(t)
    BY <1>0, <1>9 DEF ReadRecent, Goto, Requests
  <1>10. CASE ReadCount(t)
    BY <1>0, <1>10 DEF ReadCount, Goto
  <1> QED BY <1>1, <1>2, <1>3, <1>4, <1>5, <1>6, <1>7, <1>8, <1>9, <1>10

(* In a single process the other threads are idle while t takes a step. *)
LEMMA Alone ==
  ASSUME TypeOK, OneAtATime, NEW t \in Threads, Begins(t) \/ Continues(t), deployment = "local"
  PROVE  \A u \in Threads \ {t} : pc[u] = "idle"
  BY DEF Begins, Continues, OneAtATime

LEMMA StepKinds ==
  ASSUME TypeOK, NEW t \in Threads, Own(t), Step(t)
  PROVE  Begins(t) \/ Continues(t)
  BY BeginMeans, ContinueMeans DEF Step

(* Requests are served one at a time in a single process, and none is      *)
(* later than the latest.                                                  *)
RequestsInv == OneAtATime /\ UpToDate

LEMMA RequestsInit == Init => RequestsInv
  BY DEF Init, RequestsInv, OneAtATime, UpToDate

LEMMA RequestsNext == TypeOK /\ RequestsInv /\ [Next]_vars => RequestsInv'
  <1> SUFFICES ASSUME TypeOK, RequestsInv, [Next]_vars PROVE RequestsInv'
    OBVIOUS
  <1>1. CASE Tick \/ UNCHANGED vars
    BY <1>1 DEF Tick, vars, RequestsInv, OneAtATime, UpToDate
  <1>2. ASSUME NEW t \in Threads, Step(t) PROVE RequestsInv'
    <2>1. Own(t) /\ (Begins(t) \/ Continues(t))
      BY <1>2, StepOwn, StepKinds
    <2>2. \A u \in Threads \ {t} : pc'[u] = pc[u] /\ loc'[u] = loc[u]
      BY <2>1, OthersKept
    <2>3. deployment' = deployment
      BY <2>1 DEF Begins, Continues
    <2>4. OneAtATime'
      BY <2>1, <2>2, <2>3, Alone DEF RequestsInv, OneAtATime
    <2>5. latest \in [Devices -> Nat] /\ latest' \in [Devices -> Nat]
      BY TypeNext DEF TypeOK
    <2>6. \A d \in Devices : latest'[d] >= latest[d]
      BY <2>1, <2>5 DEF Begins, Continues
    <2>7. ASSUME NEW u \in Threads, pc'[u] # "idle" PROVE loc'[u].now <= latest'[loc'[u].dev]
      <3>1. CASE u = t
        BY <2>1, <2>7, <3>1 DEF Begins, Continues, RequestsInv, UpToDate
      <3>2. CASE u # t
        <4>1. /\ loc[u].dev \in Devices /\ loc[u].now \in Nat /\ loc'[u] = loc[u]
              /\ loc[u].now <= latest[loc[u].dev]
          BY <2>2, <2>7, <3>2, Busy DEF RequestsInv, UpToDate
        <4> QED BY <2>5, <2>6, <4>1
      <3> QED BY <3>1, <3>2
    <2>8. UpToDate'
      BY <2>7 DEF UpToDate
    <2> QED BY <2>4, <2>8 DEF RequestsInv
  <1> QED BY <1>1, <1>2 DEF Next

-----------------------------------------------------------------------------
(* In a single process the changes of a device are in order. *)

LEMMA PositionType ==
  ASSUME TypeOK, NEW d \in Devices
  PROVE  position[d] \in Positions /\ (position[d].at # None => position[d].at \in Nat)
  BY DEF TypeOK, Positions

LEMMA OrderInit == Init => InOrder
  BY DEF Init, InOrder, Ordered, Abreast, Changing, Before

LEMMA OrderNext == TypeOK /\ RequestsInv /\ InOrder /\ [Next]_vars => InOrder'
  <1> SUFFICES ASSUME TypeOK, RequestsInv, InOrder, [Next]_vars PROVE InOrder'
    OBVIOUS
  <1>1. CASE Tick \/ UNCHANGED vars
    <2>1. UNCHANGED <<deployment, position, changes, pc, loc>>
      BY <1>1 DEF Tick, vars, tracks
    <2> QED BY <2>1 DEF InOrder, Ordered, Abreast, Changing, Before
  <1>2. ASSUME NEW t \in Threads, Step(t) PROVE InOrder'
    <2>1. Own(t) /\ (Begins(t) \/ Continues(t))
      BY <1>2, StepOwn, StepKinds
    <2>2. SUFFICES ASSUME deployment = "local"
                   PROVE  (\A d \in Devices : Ordered(d)') /\ \A u \in Threads : Abreast(u)'
      BY <2>1 DEF Begins, Continues, InOrder
    <2>3. \A u \in Threads \ {t} : pc'[u] = "idle"
      BY <2>1, <2>2, Alone, OthersKept DEF RequestsInv
    <2>4. \A u \in Threads \ {t} : Abreast(u)'
      BY <2>3 DEF Abreast, Changing, Before
    <2>5. (\A d \in Devices : Ordered(d)) /\ Abreast(t)
      BY <2>2 DEF InOrder
    <2>6. CASE Quiet(t)
      <3>1. /\ changes' = changes /\ position' = position
            /\ Changing(t)' => Changing(t) /\ loc'[t].dev = loc[t].dev /\ loc'[t].now = loc[t].now
        BY <2>1, <2>6, QuietMeans
      <3>2. \A d \in Devices : Ordered(d)'
        BY <2>5, <3>1 DEF Ordered
      <3>3. ASSUME pc'[t] = "move"
            PROVE  /\ loc'[t].prev = position[loc'[t].dev]
                   /\ loc'[t].prev.at # None => loc'[t].prev.at <= loc'[t].now
        <4>0. pc \in [Threads -> Labels] /\ loc \in [Threads -> Requests]
          BY DEF TypeOK
        <4>1. ObserveCheck(t)
          <5>1. ASSUME PruneTest(t) PROVE FALSE
            <6>1. pc'[t] = "pop" \/ pc'[t] = loc[t].return
              BY <4>0, <5>1 DEF PruneTest, Goto
            <6>2. loc[t].return \in Callers
              BY <5>1 DEF PruneTest, TypeOK, RequestOK
            <6> QED BY <3>3, <6>1, <6>2 DEF Callers
          <5> QED BY <2>6, <3>3, <4>0, <5>1 DEF Quiet, Request, StateQuery, PrunePop, ContextEvent,
                     ContextCount, ReadRecent, ReadCount, Goto
        <4> DEFINE p == position[loc[t].dev]
        <4>2. loc[t].dev \in Devices /\ loc[t] \in Requests /\ loc[t].now \in Nat
          BY <4>1, Busy DEF ObserveCheck
        <4>3. loc'[t] = [loc[t] EXCEPT !.prev = p] /\ ~Stale(p, loc[t].now)
          BY <3>3, <4>0, <4>1 DEF ObserveCheck, Goto
        <4>4. loc'[t].dev = loc[t].dev /\ loc'[t].now = loc[t].now /\ loc'[t].prev = p
          BY <4>2, <4>3 DEF Requests
        <4> QED BY <4>2, <4>3, <4>4, PositionType DEF Stale
      <3>4. Abreast(t)'
        BY <2>5, <3>1, <3>3 DEF Abreast
      <3> QED BY <2>4, <3>2, <3>4
    <2>7. CASE ObserveMove(t)
      <3>0. PICK d \in Devices, now \in Nat : d = loc[t].dev /\ now = loc[t].now
        BY <2>1, <2>7, MoveMeans
      <3> DEFINE p == [domain |-> loc[t].domain, address |-> loc[t].address, at |-> now]
      <3>1. /\ pc[t] = "move" /\ d \in Devices /\ now \in Nat
            /\ position' = [position EXCEPT ![d] = p]
            /\ loc'[t].dev = d /\ loc'[t].now = now
            /\ pc'[t] # "move"
            /\ \/ changes' = changes
               \/ changes' = [changes EXCEPT ![d] = Append(changes[d], now)]
        BY <2>1, <2>7, <3>0, MoveMeans
      <3>2. p.at = now
        OBVIOUS
      <3>3. /\ position[d].at # None => position[d].at \in Nat /\ position[d].at <= now
        BY <2>5, <3>0, <3>1, PositionType DEF Abreast
      <3>4. \A k \in DOMAIN changes[d] : changes[d][k] <= now
        <4>1. changes[d] \in Seq(Nat)
          BY <3>1 DEF TypeOK
        <4> QED BY <2>5, <3>1, <3>3, <4>1 DEF Ordered
      <3> HIDE DEF p
      <3>5. position'[d] = p /\ \A x \in Devices \ {d} : position'[x] = position[x]
        BY <3>1 DEF TypeOK
      <3>6. changes \in [Devices -> Seq(Nat)] /\ None \notin Nat
        BY NoneAssumption DEF TypeOK
      <3>7. \A x \in Devices \ {d} : Ordered(x)'
        <4>1. \A x \in Devices \ {d} : changes'[x] = changes[x]
          BY <3>1, <3>6
        <4> QED BY <2>5, <3>5, <4>1 DEF Ordered
      <3>8. Ordered(d)'
        <4>1. position'[d].at = now /\ now # None
          BY <3>1, <3>2, <3>5, <3>6
        <4>2. Ordered(d) /\ changes[d] \in Seq(Nat)
          BY <2>5, <3>1, <3>6
        <4>3. CASE changes' = changes
          BY <3>4, <4>1, <4>2, <4>3 DEF Ordered
        <4>4. CASE changes' = [changes EXCEPT ![d] = Append(changes[d], now)]
          <5>1. changes'[d] = Append(changes[d], now)
            BY <3>1, <3>6, <4>4
          <5>2. /\ DOMAIN changes'[d] = 1..(Len(changes[d]) + 1) /\ DOMAIN changes[d] = 1..Len(changes[d])
                /\ Len(changes[d]) \in Nat /\ changes'[d][Len(changes[d]) + 1] = now
                /\ \A k \in DOMAIN changes[d] : changes'[d][k] = changes[d][k]
                                                /\ changes[d][k] \in Nat
            BY <3>1, <4>2, <5>1
          <5>3. \A k \in DOMAIN changes'[d] : changes'[d][k] <= now
            BY <3>1, <3>4, <5>2
          <5>4. \A j, k \in DOMAIN changes'[d] : j <= k => changes'[d][j] <= changes'[d][k]
            <6> SUFFICES ASSUME NEW j \in DOMAIN changes'[d], NEW k \in DOMAIN changes'[d], j <= k
                         PROVE  changes'[d][j] <= changes'[d][k]
              OBVIOUS
            <6>1. CASE k = Len(changes[d]) + 1
              BY <5>2, <5>3, <6>1
            <6>2. CASE k # Len(changes[d]) + 1
              <7>1. k \in DOMAIN changes[d] /\ j \in DOMAIN changes[d]
                BY <5>2, <6>2
              <7> QED BY <4>2, <5>2, <7>1 DEF Ordered
            <6> QED BY <6>1, <6>2
          <5> QED BY <4>1, <5>3, <5>4 DEF Ordered
        <4> QED BY <3>1, <4>3, <4>4
      <3>9. Abreast(t)'
        BY <3>1, <3>2, <3>5 DEF Abreast
      <3> QED BY <2>4, <3>7, <3>8, <3>9
    <2>8. CASE ObserveAppend(t) \/ ObservePublish(t)
      <3>1. /\ changes' = changes /\ position' = position /\ loc'[t] = loc[t]
            /\ Changing(t) /\ pc'[t] # "move"
        BY <2>1, <2>8, AppendMeans, PublishMeans
      <3>2. \A d \in Devices : Ordered(d)'
        BY <2>5, <3>1 DEF Ordered
      <3>3. Abreast(t)'
        BY <2>5, <3>1 DEF Abreast
      <3> QED BY <2>4, <3>2, <3>3
    <2> QED BY <1>2, <2>6, <2>7, <2>8 DEF Step, Quiet
  <1> QED BY <1>1, <1>2 DEF Next

(* In a single process, for any devices and windows: the last transition   *)
(* of a device is replaced only by one that is as recent, so a replayed or *)
(* reordered observation never shortens the time a transition counts.      *)
THEOREM LastTransitionIsLatest == Spec => LastTransitionNotReplacedByOlder
  <1>1. ASSUME TypeOK, TypeOK', NothingInvented, RequestsInv, InOrder, [Next]_vars,
               deployment = "local", NEW d \in Devices, last[d] # None
        PROVE  last'[d].detected_at >= last[d].detected_at
    <2>1. PICK k \in DOMAIN changes[d] : changes[d][k] = last[d].detected_at
      BY <1>1 DEF NothingInvented, Accepted
    <2>2. last[d].detected_at \in Nat
      BY <1>1 DEF TypeOK, Events
    <2>3. last[d].detected_at <= position[d].at
      BY <1>1, <2>1 DEF InOrder, Ordered
    <2>4. CASE last'[d] = last[d]
      BY <2>2, <2>4
    <2>5. CASE last'[d] # last[d]
      <3>1. PICK t \in Threads : Step(t)
        BY <1>1, <2>5 DEF Next, Tick, vars, tracks
      <3>2. Own(t)
        BY <1>1, <3>1, StepOwn
      <3>3. ObservePublish(t)
        <4>1. CASE Quiet(t)
          BY <1>1, <2>5, <3>2, <4>1, QuietMeans
        <4>2. CASE ObserveMove(t)
          BY <1>1, <2>5, <3>2, <4>2, MoveMeans
        <4>3. CASE ObserveAppend(t)
          BY <1>1, <2>5, <3>2, <4>3, AppendMeans
        <4> QED BY <3>1, <4>1, <4>2, <4>3 DEF Step, Quiet
      <3>4. /\ last'[loc[t].dev].detected_at = loc[t].now /\ Changing(t)
            /\ \A x \in Devices \ {loc[t].dev} : last'[x] = last[x]
        BY <1>1, <3>2, <3>3, PublishMeans
      <3>5. loc[t].dev = d
        BY <1>1, <2>5, <3>4
      <3>6. position[d].at = loc[t].now
        BY <1>1, <3>4, <3>5 DEF InOrder, Abreast
      <3>7. last'[d].detected_at = position[d].at /\ position[d].at \in Nat
        BY <1>1, <2>1, <3>4, <3>5, <3>6, PositionType DEF InOrder, Ordered
      <3> QED BY <2>2, <2>3, <3>7
    <2> QED BY <2>4, <2>5
  <1>2. TypeOK /\ TypeOK' /\ NothingInvented /\ RequestsInv /\ InOrder /\ [Next]_vars =>
          [deployment = "local" => \A d \in Devices : last[d] # None =>
             last'[d].detected_at >= last[d].detected_at]_vars
    BY <1>1
  <1> QED BY <1>2, TypeCorrect, InventedInit, InventedNext, RequestsInit, RequestsNext,
             OrderInit, OrderNext, PTL DEF Spec, LastTransitionNotReplacedByOlder

-----------------------------------------------------------------------------
(* In a single process the history is exact. *)

(* A step that neither accepts nor records nor prunes. *)
LEMMA SuffixKept ==
  ASSUME TypeOK, TypeOK', NEW d \in Devices, SuffixOf(d), history'[d] = history[d],
         changes'[d] = changes[d], latest'[d] >= latest[d], Recorded(d)' = Recorded(d)
  PROVE  SuffixOf(d)'
  <1>1. /\ latest[d] \in Nat /\ latest'[d] \in Nat /\ RateWindow \in Nat
        /\ changes[d] \in Seq(Nat) /\ Len(changes[d]) \in Nat /\ Len(history[d]) \in Nat
    BY WindowAssumption DEF TypeOK
  <1>2. Recorded(d) \in Int /\ Recorded(d) <= Len(changes[d])
    BY <1>1 DEF Recorded
  <1>3. PICK n \in Nat : /\ n = Recorded(d) - Len(history[d])
                         /\ \A k \in DOMAIN history[d] : history[d][k] = changes[d][n + k]
                         /\ \A k \in 1..n : changes[d][k] < latest[d] - RateWindow
    BY DEF SuffixOf
  <1>4. n <= Len(changes[d])
    BY <1>1, <1>2, <1>3
  <1>5. ASSUME NEW k \in 1..n PROVE changes'[d][k] < latest'[d] - RateWindow
    <2>1. k \in 1..Len(changes[d])
      BY <1>1, <1>4
    <2>2. changes[d][k] \in Nat /\ changes'[d][k] = changes[d][k]
      BY <1>1, <2>1
    <2>3. changes[d][k] < latest[d] - RateWindow
      BY <1>3
    <2> QED BY <1>1, <2>2, <2>3
  <1>6. /\ Recorded(d)' - Len(history'[d]) = n
        /\ \A k \in DOMAIN history'[d] : history'[d][k] = changes'[d][n + k]
    BY <1>3
  <1> QED BY <1>5, <1>6 DEF SuffixOf

LEMMA TailFacts ==
  ASSUME NEW s \in Seq(Nat), s # << >>
  PROVE  /\ DOMAIN Tail(s) = 1..(Len(s) - 1) /\ DOMAIN s = 1..Len(s)
         /\ Len(Tail(s)) = Len(s) - 1 /\ Len(s) \in Nat /\ Len(s) > 0
         /\ \A k \in DOMAIN Tail(s) : Tail(s)[k] = s[k + 1]
         /\ Head(s) = s[1] /\ s[1] \in Nat
  OBVIOUS

(* In a single process the thread that acts is the only one recording. *)
LEMMA RecordedIs ==
  ASSUME NEW t \in Threads, NEW d, \A u \in Threads \ {t} : ~Recording(u)
  PROVE  Recorded(d) = IF Recording(t) /\ loc[t].dev = d THEN Len(changes[d]) - 1
                       ELSE Len(changes[d])
  BY DEF Recorded

LEMMA ExactInit == Init => ExactHistory
  <1> SUFFICES ASSUME Init PROVE ExactHistory
    OBVIOUS
  <1>1. \A t \in Threads : ~Recording(t)
    BY DEF Init, Recording, Before
  <1>2. ASSUME NEW d \in Devices PROVE SuffixOf(d)
    <2>1. Recorded(d) = 0 /\ Len(history[d]) = 0 /\ history[d] = << >>
      BY <1>1 DEF Recorded, Init
    <2> QED BY <2>1 DEF SuffixOf
  <1>3. \A t \in Threads : Pruning(t)
    BY <1>1 DEF Init, Pruning
  <1> QED BY <1>2, <1>3 DEF ExactHistory

LEMMA ExactNext ==
  TypeOK /\ TypeOK' /\ RequestsInv /\ ExactHistory /\ [Next]_vars => ExactHistory'
  <1> SUFFICES ASSUME TypeOK, TypeOK', RequestsInv, ExactHistory, [Next]_vars
               PROVE  ExactHistory'
    OBVIOUS
  <1>0. /\ history \in [Devices -> Seq(Nat)] /\ changes \in [Devices -> Seq(Nat)]
        /\ latest \in [Devices -> Nat] /\ RateWindow \in Nat
        /\ pc \in [Threads -> Labels] /\ loc \in [Threads -> Requests]
    BY WindowAssumption DEF TypeOK
  <1>1. CASE Tick \/ UNCHANGED vars
    <2>1. UNCHANGED <<deployment, history, changes, latest, pc, loc>>
      BY <1>1 DEF Tick, vars, tracks
    <2>2. \A t \in Threads : Recording(t)' = Recording(t)
      BY <2>1 DEF Recording, Before
    <2>3. \A d \in Devices : Recorded(d)' = Recorded(d)
      BY <2>1, <2>2 DEF Recorded
    <2>4. \A d \in Devices : SuffixOf(d) => SuffixOf(d)'
      BY <1>0, <2>1, <2>3, SuffixKept
    <2>5. \A t \in Threads : Pruning(t) => Pruning(t)'
      BY <2>1, <2>2 DEF Pruning
    <2> QED BY <2>1, <2>4, <2>5 DEF ExactHistory
  <1>2. ASSUME NEW t \in Threads, Step(t) PROVE ExactHistory'
    <2>1. Own(t) /\ (Begins(t) \/ Continues(t))
      BY <1>2, StepOwn, StepKinds
    <2>2. SUFFICES ASSUME deployment = "local"
                   PROVE  (\A d \in Devices : SuffixOf(d)') /\ \A u \in Threads : Pruning(u)'
      BY <2>1 DEF Begins, Continues, ExactHistory
    <2>3. \A u \in Threads \ {t} : pc[u] = "idle" /\ pc'[u] = "idle"
      BY <2>1, <2>2, Alone, OthersKept DEF RequestsInv
    <2>4. \A u \in Threads \ {t} : ~Recording(u) /\ ~Recording(u)'
      BY <2>3 DEF Recording, Before
    <2>5. \A u \in Threads \ {t} : Pruning(u)'
      BY <2>3, <2>4 DEF Pruning
    <2>6. (\A d \in Devices : SuffixOf(d)) /\ Pruning(t)
      BY <2>2 DEF ExactHistory
    <2>7. \A d \in Devices : Recorded(d) = IF Recording(t) /\ loc[t].dev = d
                                           THEN Len(changes[d]) - 1 ELSE Len(changes[d])
      BY <2>4, RecordedIs
    <2>8. \A d \in Devices : Recorded(d)' = IF Recording(t)' /\ loc'[t].dev = d
                                            THEN Len(changes'[d]) - 1 ELSE Len(changes'[d])
      BY <2>4 DEF Recorded
    <2>9. \A d \in Devices : latest'[d] >= latest[d]
      BY <1>0, <2>1 DEF Begins, Continues
    (* Steps that leave history and changes alone. *)
    <2>10. ASSUME history' = history, changes' = changes, Recording(t)' <=> Recording(t),
                  Recording(t) => loc'[t].dev = loc[t].dev
           PROVE  \A d \in Devices : SuffixOf(d)'
      <3>1. \A d \in Devices : Recorded(d)' = Recorded(d)
        BY <2>7, <2>8, <2>10
      <3> QED BY <2>6, <2>9, <2>10, <3>1, SuffixKept
    <2>11. CASE Begins(t)
      <3>1. ~Recording(t) /\ ~Recording(t)'
        BY <2>11 DEF Begins, Recording, Before
      <3>2. Pruning(t)'
        BY <2>11, <3>1 DEF Begins, Pruning
      <3> QED BY <2>5, <2>10, <2>11, <3>1, <3>2 DEF Begins
    <2>12. CASE ObserveCheck(t)
      <3>1. /\ history' = history /\ changes' = changes /\ pc[t] = "check"
            /\ pc'[t] \in {"event", "move"}
        BY <1>0, <2>12 DEF ObserveCheck, Goto, tracks
      <3>2. ~Recording(t) /\ ~Recording(t)' /\ Pruning(t)'
        BY <3>1 DEF Recording, Before, Pruning
      <3> QED BY <2>5, <2>10, <3>1, <3>2
    <2>13. CASE ObserveMove(t)
      <3>0. PICK d \in Devices, now \in Nat : d = loc[t].dev /\ now = loc[t].now
        BY <2>1, <2>13, MoveMeans
      <3>1. /\ history' = history /\ latest' = latest
            /\ ~Recording(t) /\ loc'[t].dev = d /\ loc'[t].now = now
            /\ pc'[t] \in {"event", "prune"}
            /\ \/ changes' = changes /\ ~Recording(t)'
               \/ changes' = [changes EXCEPT ![d] = Append(changes[d], now)] /\ Recording(t)'
        BY <2>1, <2>13, <3>0, MoveMeans
      <3>2. CASE changes' = changes /\ ~Recording(t)'
        <4>1. Pruning(t)'
          BY <3>1, <3>2 DEF Pruning
        <4> QED BY <2>5, <2>10, <3>1, <3>2, <4>1
      <3>3. CASE changes' = [changes EXCEPT ![d] = Append(changes[d], now)] /\ Recording(t)'
        <4>1. changes'[d] = Append(changes[d], now) /\ \A x \in Devices \ {d} : changes'[x] = changes[x]
          BY <1>0, <3>0, <3>3
        <4>2. /\ Len(changes'[d]) = Len(changes[d]) + 1 /\ Len(changes[d]) \in Nat
              /\ changes'[d] # << >> /\ changes'[d][Len(changes'[d])] = now
              /\ \A k \in 1..Len(changes[d]) : changes'[d][k] = changes[d][k]
          <5>1. changes[d] \in Seq(Nat)
            BY <1>0
          <5> QED BY <4>1, <5>1
        <4>3. Pruning(t)'
          BY <3>1, <3>3, <4>2 DEF Pruning
        <4>4. ASSUME NEW x \in Devices \ {d} PROVE SuffixOf(x)'
          <5>1. Recorded(x)' = Recorded(x) /\ changes'[x] = changes[x] /\ history'[x] = history[x]
            BY <2>7, <2>8, <3>1, <4>1
          <5> QED BY <2>6, <2>9, <5>1, SuffixKept
        <4>5. SuffixOf(d)'
          <5>1. Recorded(d) = Len(changes[d]) /\ Recorded(d)' = Len(changes[d])
            BY <2>7, <2>8, <3>0, <3>1, <3>3, <4>2
          <5>2. SuffixOf(d) /\ history[d] \in Seq(Nat) /\ Len(history[d]) \in Nat
            BY <1>0, <2>6
          <5>3. PICK n \in Nat : /\ n = Len(changes[d]) - Len(history[d])
                                 /\ \A k \in DOMAIN history[d] : history[d][k] = changes[d][n + k]
                                 /\ \A k \in 1..n : changes[d][k] < latest[d] - RateWindow
            BY <5>1, <5>2 DEF SuffixOf
          <5>4. \A k \in DOMAIN history[d] : n + k \in 1..Len(changes[d])
            <6>1. DOMAIN history[d] = 1..Len(history[d]) /\ n + Len(history[d]) = Len(changes[d])
              BY <4>2, <5>2, <5>3
            <6>2. \A k \in 1..Len(history[d]) : n + k \in 1..(n + Len(history[d]))
              BY <5>2
            <6> QED BY <6>1, <6>2
          <5>5. \A k \in 1..n : k \in 1..Len(changes[d])
            <6>1. PICK h \in Nat, c \in Nat : h = Len(history[d]) /\ c = Len(changes[d])
              BY <4>2, <5>2
            <6>2. n = c - h
              BY <5>3, <6>1
            <6>3. n <= c
              BY <6>2
            <6>4. \A k \in 1..n : k \in 1..c
              BY <6>3
            <6> QED BY <6>1, <6>4
          <5>6. /\ Recorded(d)' - Len(history'[d]) = n
                /\ \A k \in DOMAIN history'[d] : history'[d][k] = changes'[d][n + k]
                /\ \A k \in 1..n : changes'[d][k] < latest'[d] - RateWindow
            <6>1. history'[d] = history[d] /\ latest'[d] = latest[d]
              BY <3>1
            <6>2. \A k \in DOMAIN history[d] : changes'[d][n + k] = changes[d][n + k]
              BY <4>2, <5>4, Zenon
            <6>3. \A k \in 1..n : changes'[d][k] = changes[d][k]
              BY <4>2, <5>5, Zenon
            <6> QED BY <5>1, <5>3, <6>1, <6>2, <6>3, Zenon
          <5> QED BY <5>6 DEF SuffixOf
        <4> QED BY <2>5, <4>3, <4>4, <4>5
      <3> QED BY <3>1, <3>2, <3>3
    <2>14. CASE ObserveAppend(t)
      <3>0. PICK d \in Devices, now \in Nat : d = loc[t].dev /\ now = loc[t].now
        BY <2>1, <2>14, AppendMeans
      <3>1. /\ changes' = changes /\ latest' = latest /\ loc'[t] = loc[t]
            /\ history' = [history EXCEPT ![d] = Append(history[d], now)]
            /\ Recording(t) /\ ~Recording(t)' /\ pc'[t] = "publish"
        BY <2>1, <2>14, <3>0, AppendMeans
      <3>2. Pruning(t)'
        BY <3>1 DEF Pruning
      <3>3. history'[d] = Append(history[d], now) /\ \A x \in Devices \ {d} : history'[x] = history[x]
        BY <1>0, <3>0, <3>1
      <3>4. ASSUME NEW x \in Devices \ {d} PROVE SuffixOf(x)'
        <4>1. Recorded(x)' = Recorded(x) /\ changes'[x] = changes[x] /\ history'[x] = history[x]
          BY <2>7, <2>8, <3>0, <3>1, <3>3
        <4> QED BY <2>6, <2>9, <4>1, SuffixKept
      <3>5. SuffixOf(d)'
        <4>1. Recorded(d) = Len(changes[d]) - 1 /\ Recorded(d)' = Len(changes[d])
          BY <2>7, <2>8, <3>0, <3>1
        <4>2. /\ SuffixOf(d) /\ history[d] \in Seq(Nat) /\ Len(history[d]) \in Nat
              /\ changes[d] \in Seq(Nat) /\ Len(changes[d]) \in Nat
              /\ changes[d][Len(changes[d])] = now
          BY <1>0, <2>6, <3>0, <3>1 DEF Pruning
        <4>3. PICK n \in Nat : /\ n = Len(changes[d]) - 1 - Len(history[d])
                               /\ \A k \in DOMAIN history[d] : history[d][k] = changes[d][n + k]
                               /\ \A k \in 1..n : changes[d][k] < latest[d] - RateWindow
          BY <4>1, <4>2 DEF SuffixOf
        <4>4. /\ DOMAIN history'[d] = DOMAIN history[d] \cup {Len(history[d]) + 1}
              /\ Len(history'[d]) = Len(history[d]) + 1
              /\ history'[d][Len(history[d]) + 1] = now
              /\ \A k \in DOMAIN history[d] : history'[d][k] = history[d][k]
          BY <3>0, <3>3, <4>2, SMTT(30)
        <4>0. PICK h \in Nat, c \in Nat : h = Len(history[d]) /\ c = Len(changes[d])
          BY <4>2
        <4>5. n + (h + 1) = c
          <5>1. n = c - 1 - h
            BY <4>0, <4>3
          <5> QED BY <5>1
        <4>7. Recorded(d)' - Len(history'[d]) = n
          <5>1. Recorded(d)' = c /\ Len(history'[d]) = h + 1
            BY <4>0, <4>1, <4>4
          <5> QED BY <4>5, <5>1
        <4>6. \A k \in DOMAIN history'[d] : history'[d][k] = changes'[d][n + k]
          BY <3>1, <4>0, <4>2, <4>3, <4>4, <4>5
        <4> QED BY <3>1, <4>3, <4>6, <4>7 DEF SuffixOf
      <3> QED BY <2>5, <3>2, <3>4, <3>5
    <2>15. CASE ObservePublish(t)
      <3>1. /\ changes' = changes /\ history' = history /\ loc'[t] = loc[t]
            /\ ~Recording(t) /\ ~Recording(t)' /\ pc'[t] = "event"
        BY <2>1, <2>15, PublishMeans
      <3>2. Pruning(t)'
        BY <3>1 DEF Pruning
      <3> QED BY <2>5, <2>10, <3>1, <3>2
    <2>16. CASE PruneTest(t)
      <3>1. /\ changes' = changes /\ history' = history /\ loc'[t] = loc[t] /\ pc[t] = "prune"
            /\ \/ pc'[t] = "pop" /\ Old(history[loc[t].dev], loc[t].now)
               \/ pc'[t] = loc[t].return /\ ~Old(history[loc[t].dev], loc[t].now)
        BY <1>0, <2>16 DEF PruneTest, Goto, tracks
      <3>2. loc[t].return \in Callers
        BY <3>1 DEF TypeOK, RequestOK
      <3>3. Recording(t)' <=> Recording(t)
        BY <3>1, <3>2 DEF Recording, Before, Callers
      <3>4. Pruning(t)'
        BY <2>6, <3>1, <3>2, <3>3 DEF Pruning, Callers
      <3> QED BY <2>5, <2>10, <3>1, <3>3, <3>4
    <2>17. CASE PrunePop(t)
      <3>0. PICK d \in Devices, now \in Nat : d = loc[t].dev /\ now = loc[t].now
        BY <2>17, Busy DEF PrunePop
      <3>1. /\ pc[t] = "pop" /\ Old(history[d], now) /\ now <= latest[d]
        BY <2>6, <2>17, <3>0 DEF PrunePop, Pruning, RequestsInv, UpToDate
      <3>2. /\ history[d] # << >> /\ history' = [history EXCEPT ![d] = Tail(history[d])]
            /\ pc'[t] = "prune" /\ loc'[t] = loc[t] /\ changes' = changes /\ latest' = latest
        BY <1>0, <2>17, <3>0, <3>1 DEF PrunePop, Goto, Old
      <3>3. Recording(t)' <=> Recording(t)
        BY <3>1, <3>2 DEF Recording, Before
      <3>4. Pruning(t)'
        BY <2>6, <3>2, <3>3 DEF Pruning
      <3>5. history'[d] = Tail(history[d]) /\ \A x \in Devices \ {d} : history'[x] = history[x]
        BY <1>0, <3>2
      <3>6. \A x \in Devices : Recorded(x)' = Recorded(x)
        BY <2>7, <2>8, <3>2, <3>3
      <3>7. ASSUME NEW x \in Devices \ {d} PROVE SuffixOf(x)'
        <4>1. changes'[x] = changes[x] /\ history'[x] = history[x]
          BY <3>2, <3>5
        <4> QED BY <2>6, <2>9, <3>6, <4>1, SuffixKept
      <3>8. SuffixOf(d)'
        <4>1. SuffixOf(d) /\ history[d] \in Seq(Nat) /\ Len(history[d]) \in Nat
          BY <1>0, <2>6
        <4>2. Recorded(d) \in Int
          BY <1>0, <2>7
        <4>3. PICK n \in Nat : /\ n = Recorded(d) - Len(history[d])
                               /\ \A k \in DOMAIN history[d] : history[d][k] = changes[d][n + k]
                               /\ \A k \in 1..n : changes[d][k] < latest[d] - RateWindow
          BY <4>1 DEF SuffixOf
        <4>4. /\ DOMAIN history'[d] = 1..(Len(history[d]) - 1) /\ DOMAIN history[d] = 1..Len(history[d])
              /\ Len(history'[d]) = Len(history[d]) - 1 /\ Len(history[d]) > 0
              /\ \A k \in DOMAIN history'[d] : history'[d][k] = history[d][k + 1]
              /\ Head(history[d]) = history[d][1] /\ history[d][1] \in Nat
          <5>1. history[d] \in Seq(Nat) /\ history[d] # << >> /\ history'[d] = Tail(history[d])
            BY <3>2, <3>5, <4>1
          <5> QED BY <5>1, TailFacts
        <4>5. Recorded(d)' - Len(history'[d]) = n + 1
          BY <3>6, <4>1, <4>2, <4>3, <4>4
        <4>6. \A k \in DOMAIN history'[d] : history'[d][k] = changes'[d][(n + 1) + k]
          <5> SUFFICES ASSUME NEW k \in DOMAIN history'[d]
                       PROVE  history'[d][k] = changes'[d][(n + 1) + k]
            OBVIOUS
          <5>0. PICK h \in Nat : h = Len(history[d])
            BY <4>1
          <5>3. DOMAIN history'[d] = 1..(h - 1) /\ DOMAIN history[d] = 1..h
            BY <4>4, <5>0
          <5>4. k \in 1..(h - 1)
            BY <5>3
          <5>5. k \in Nat /\ k + 1 \in 1..h /\ n + (k + 1) = (n + 1) + k
            BY <5>4
          <5>1. k \in Nat /\ k + 1 \in DOMAIN history[d] /\ n + (k + 1) = (n + 1) + k
            BY <5>3, <5>5
          <5>2. history[d][k + 1] = changes[d][n + (k + 1)]
            BY <4>3, <5>1
          <5> QED BY <3>2, <4>4, <5>1, <5>2
        <4>7. changes[d][n + 1] = history[d][1]
          <5>1. 1 \in DOMAIN history[d]
            BY <4>1, <4>4
          <5> QED BY <4>3, <5>1
        <4>8. changes[d][n + 1] < latest[d] - RateWindow
          <5>1. Head(history[d]) < now - RateWindow /\ now <= latest[d]
            BY <3>1 DEF Old
          <5>2. Head(history[d]) = changes[d][n + 1] /\ Head(history[d]) \in Nat
            BY <4>4, <4>7, Zenon
          <5>3. latest[d] \in Nat /\ RateWindow \in Nat
            BY <1>0
          <5>4. PICK i \in Nat, l \in Nat : i = changes[d][n + 1] /\ l = latest[d]
            BY <5>2, <5>3, Zenon
          <5>5. i < now - RateWindow /\ now <= l
            BY <5>1, <5>2, <5>4, Zenon
          <5>6. i < l - RateWindow
            BY <5>3, <5>5
          <5> QED BY <5>4, <5>6, Zenon
        <4>9. \A k \in 1..(n + 1) : changes'[d][k] < latest'[d] - RateWindow
          <5>1. changes'[d] = changes[d] /\ latest'[d] = latest[d]
            BY <3>2
          <5>2. \A k \in 1..(n + 1) : k \in 1..n \/ k = n + 1
            OBVIOUS
          <5> QED BY <4>3, <4>8, <5>1, <5>2
        <4> QED BY <4>5, <4>6, <4>9 DEF SuffixOf
      <3> QED BY <2>5, <3>4, <3>7, <3>8
    <2>18. CASE ContextEvent(t)
      <3>1. /\ history' = history /\ changes' = changes /\ pc[t] = "event"
            /\ \/ loc'[t].return = "context" /\ pc'[t] = "prune"
               \/ pc'[t] = "recent"
        BY <1>0, <2>18 DEF ContextEvent, Goto, Requests, tracks
      <3>2. ~Recording(t) /\ ~Recording(t)' /\ Pruning(t)'
        BY <3>1 DEF Recording, Before, Pruning
      <3> QED BY <2>5, <2>10, <3>1, <3>2
    <2>19. CASE ContextCount(t)
      <3>1. /\ history' = history /\ changes' = changes /\ pc[t] = "context" /\ pc'[t] = "recent"
        BY <1>0, <2>19 DEF ContextCount, Goto, tracks
      <3>2. ~Recording(t) /\ ~Recording(t)' /\ Pruning(t)'
        BY <3>1 DEF Recording, Before, Pruning
      <3> QED BY <2>5, <2>10, <3>1, <3>2
    <2>20. CASE ReadRecent(t)
      <3>1. /\ history' = history /\ changes' = changes /\ pc[t] = "recent"
            /\ pc'[t] = "prune" /\ loc'[t].return = "count"
        BY <1>0, <2>20 DEF ReadRecent, Goto, Requests, tracks
      <3>2. ~Recording(t) /\ ~Recording(t)' /\ Pruning(t)'
        BY <3>1 DEF Recording, Before, Pruning
      <3> QED BY <2>5, <2>10, <3>1, <3>2
    <2>21. CASE ReadCount(t)
      <3>1. /\ history' = history /\ changes' = changes /\ pc[t] = "count" /\ pc'[t] = "idle"
        BY <1>0, <2>21 DEF ReadCount, Goto, tracks
      <3>2. ~Recording(t) /\ ~Recording(t)' /\ Pruning(t)'
        BY <3>1 DEF Recording, Before, Pruning
      <3> QED BY <2>5, <2>10, <3>1, <3>2
    <2> QED BY <1>2, <2>1, <2>11, <2>12, <2>13, <2>14, <2>15, <2>16, <2>17, <2>18, <2>19, <2>20,
               <2>21, BeginMeans DEF Step
  <1> QED BY <1>1, <1>2 DEF Next

(* In a single process, for any devices, windows and moves: the count C8   *)
(* compares with its limit is the number of accepted changes within the    *)
(* window, however often and in which order the history was pruned.        *)
THEOREM RateIsExact == Spec => []CountExact
  <1>1. ASSUME TypeOK, RequestsInv, InOrder, ExactHistory, NEW t \in Threads,
               deployment = "local", pc[t] = "count", loc[t].now = latest[loc[t].dev]
        PROVE  Len(history[loc[t].dev]) = Cardinality(InWindow(loc[t].dev))
    <2>0. PICK d \in Devices, now \in Nat : d = loc[t].dev /\ now = loc[t].now
      BY <1>1, Busy
    <2>1. /\ changes[d] \in Seq(Nat) /\ history[d] \in Seq(Nat) /\ latest[d] = now
          /\ RateWindow \in Nat
      BY <1>1, <2>0, WindowAssumption DEF TypeOK
    <2>2. PICK h \in Nat, c \in Nat : h = Len(history[d]) /\ c = Len(changes[d])
      BY <2>1
    <2>3. DOMAIN history[d] = 1..h /\ DOMAIN changes[d] = 1..c
      BY <2>1, <2>2
    <2>4. \A u \in Threads : ~Recording(u)
      BY <1>1 DEF RequestsInv, OneAtATime, Recording, Before
    <2>5. Recorded(d) = c
      BY <2>2, <2>4 DEF Recorded
    <2>6. PICK n \in Nat : /\ n = c - h
                           /\ \A k \in 1..h : history[d][k] = changes[d][n + k]
                           /\ \A k \in 1..n : changes[d][k] < now - RateWindow
      BY <1>1, <2>1, <2>2, <2>3, <2>5 DEF ExactHistory, SuffixOf
    <2>7. n + h = c
      BY <2>6
    <2>8. \A j, k \in 1..c : j <= k => changes[d][j] <= changes[d][k]
      BY <1>1, <2>3 DEF InOrder, Ordered
    <2>9. \A k \in 1..c : changes[d][k] \in Nat
      BY <2>1, <2>3
    <2>10. ASSUME NEW k \in (n + 1)..c PROVE changes[d][k] >= now - RateWindow
      <3>1. h > 0 /\ n + 1 \in 1..c /\ k \in 1..c /\ n + 1 <= k /\ 1 \in 1..h
        BY <2>7, <2>10
      <3>2. history[d][1] = changes[d][n + 1] /\ history[d] # << >>
        <4>1. history[d][1] = changes[d][n + 1]
          BY <2>6, <3>1
        <4>2. 1 \in DOMAIN history[d]
          BY <2>3, <3>1
        <4>3. history[d] # << >>
          BY <4>2
        <4> QED BY <4>1, <4>3
      <3>3. Head(history[d]) = history[d][1]
        BY <2>1, <3>2
      <3>4. ~(changes[d][n + 1] < now - RateWindow)
        <4>1. Pruning(t)
          BY <1>1 DEF ExactHistory
        <4>2. ~Old(history[d], now)
          BY <1>1, <2>0, <4>1 DEF Pruning
        <4>3. ~(Head(history[d]) < now - RateWindow)
          BY <3>2, <4>2 DEF Old
        <4> QED BY <3>2, <3>3, <4>3, Zenon
      <3>5. changes[d][n + 1] <= changes[d][k]
        BY <2>8, <3>1
      <3> QED BY <2>1, <2>9, <3>1, <3>4, <3>5
    <2>11. \A k \in 1..c : changes[d][k] >= now - RateWindow <=> k \in (n + 1)..c
      <3> SUFFICES ASSUME NEW k \in 1..c
                   PROVE  changes[d][k] >= now - RateWindow <=> k \in (n + 1)..c
        OBVIOUS
      <3>1. CASE k \in (n + 1)..c
        BY <2>10, <3>1
      <3>2. CASE k \notin (n + 1)..c
        <4>1. k \in 1..n
          BY <3>2
        <4>2. PICK i \in Nat : i = changes[d][k]
          BY <2>9
        <4>3. i < now - RateWindow
          BY <2>6, <4>1, <4>2
        <4>4. ~(i >= now - RateWindow)
          BY <2>1, <4>3
        <4> QED BY <3>2, <4>2, <4>4, Zenon
      <3> QED BY <3>1, <3>2
    <2>12. InWindow(d) = (n + 1)..c
      <3>1. (n + 1)..c \subseteq 1..c
        OBVIOUS
      <3>2. InWindow(d) = {k \in 1..c : changes[d][k] >= now - RateWindow}
        BY <2>1, <2>3 DEF InWindow
      <3> QED BY <2>11, <3>1, <3>2
    <2>13. Cardinality((n + 1)..c) = IF n + 1 > c THEN 0 ELSE c - (n + 1) + 1
      BY FS_Interval
    <2>14. Cardinality((n + 1)..c) = h
      BY <2>7, <2>13
    <2> QED BY <2>0, <2>2, <2>12, <2>14
  <1>2. TypeOK /\ RequestsInv /\ InOrder /\ ExactHistory => CountExact
    BY <1>1 DEF CountExact
  <1> QED BY <1>2, TypeCorrect, TypeNext, RequestsInit, RequestsNext, OrderInit, OrderNext,
             ExactInit, ExactNext, PTL DEF Spec
=============================================================================
