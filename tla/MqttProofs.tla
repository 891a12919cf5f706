----------------------------- MODULE MqttProofs -----------------------------
(***************************************************************************)
(* Proofs about the MQTT path.                                             *)
(*                                                                         *)
(* MqttGateway, for any connections, actions, lifetimes and topics in use: *)
(* what reaches the broker was authorised, whatever the awaits let happen  *)
(* between a packet and its handling.                                      *)
(*                                                                         *)
(* DeviceAgent, for any filter lists and any number of packets under way:  *)
(* what can make subscribe report a grant that was not given.              *)
(***************************************************************************)
EXTENDS MqttGateway, DeviceAgent, FiniteSetTheorems, TLAPS

-----------------------------------------------------------------------------
(* MqttGateway *)

(* A packet that waits for a decision was not a step-up answer. *)
WaitingNotIntercepted ==
  \A c \in Connections :
    packet[c] # None /\ packet[c].kind = "publish" => "response" \notin packet[c].topics

(* The copy a handler keeps is a decision it was given. *)
DecisionWasGiven ==
  \A c \in Connections : decision[c] # None => decision[c].action \in given[c]
-----------------------------------------------------------------------------
(* The finally clause leaves nothing of the connection behind. *)
LEMMA CloseType ==
  ASSUME TypeOK, NEW c \in Connections, Close(c)
  PROVE  /\ pc' \in [Connections -> Labels]
         /\ packet' \in [Connections -> Packets \cup {None}]
         /\ answer' \in [Connections -> Decisions \cup {None}]
         /\ subs' \in [Connections -> SUBSET UsedTopics]
         /\ owed' \in [Connections -> Nat]
         /\ pc'[c] = "closed" /\ packet'[c] = None /\ answer'[c] = None /\ subs'[c] = {}
         /\ \A e \in Connections : e # c =>
              /\ pc'[e] = pc[e] /\ packet'[e] = packet[e] /\ answer'[e] = answer[e]
              /\ subs'[e] = subs[e]
  BY DEF TypeOK, Close, Labels

LEMMA ResumeType ==
  ASSUME TypeOK, NEW c \in Connections, Resume(c)
  PROVE  /\ pc' \in [Connections -> Labels]
         /\ packet' \in [Connections -> Packets \cup {None}]
         /\ answer' \in [Connections -> Decisions \cup {None}]
         /\ pc'[c] = "loop" /\ packet'[c] = None /\ answer'[c] = None
         /\ \A e \in Connections : e # c =>
              pc'[e] = pc[e] /\ packet'[e] = packet[e] /\ answer'[e] = answer[e]
  BY DEF TypeOK, Resume, Labels

LEMMA TakeType ==
  ASSUME TypeOK, NEW c \in Connections, answer[c] \in Decisions, Take(c)
  PROVE  /\ decision' \in [Connections -> Decisions \cup {None}]
         /\ given' \in [Connections -> SUBSET Actions]
         /\ decision'[c] = answer[c] /\ answer[c].action \in given'[c]
         /\ \A e \in Connections : given[e] \subseteq given'[e]
         /\ \A e \in Connections : e # c => decision'[e] = decision[e]
  <1>1. answer[c].action \in Actions
    BY DEF Decisions
  <1>2. QED
    BY <1>1 DEF TypeOK, Take

LEMMA AskType ==
  ASSUME TypeOK, NEW c \in Connections, NEW p \in Packets, Ask(c, p)
  PROVE  /\ pc' \in [Connections -> Labels]
         /\ packet' \in [Connections -> Packets \cup {None}]
         /\ pc'[c] = "asked" /\ packet'[c] = p
         /\ \A e \in Connections : e # c => pc'[e] = pc[e] /\ packet'[e] = packet[e]
  BY DEF TypeOK, Ask, Labels

(* _authorise reads the action of a decision and nothing else of it. *)
LEMMA AuthoriseByAction ==
  ASSUME NEW dec \in Decisions, NEW t, Authorise(dec, t)
  PROVE  Authorise([action |-> dec.action, created_at |-> 0], t)
  BY DEF Authorise, Refusing

(* What handling a packet under a decision may send to the broker. *)
LEMMA PublishSends ==
  ASSUME TypeOK, NEW c \in Connections, NEW dec \in Decisions, NEW p \in Packets,
         NEW fresh \in BOOLEAN, HandlePublish(c, dec, p, fresh)
  PROVE  /\ relayed' \in [Connections -> Relays \cup {None}]
         /\ \A e \in Connections : e # c => relayed'[e] = relayed[e]
         /\ \/ relayed'[c] = relayed[c]
            \/ \E t \in p.topics :
                 /\ Authorise(dec, t)
                 /\ relayed'[c] = [topic |-> t, dec |-> dec, at |-> clock, fresh |-> fresh]
  <1>1. PICK t \in p.topics :
          relayed' = IF Authorise(dec, t)
                     THEN [relayed EXCEPT ![c] =
                             [topic |-> t, dec |-> dec, at |-> clock, fresh |-> fresh]]
                     ELSE relayed
    BY DEF HandlePublish
  <1> DEFINE r == [topic |-> t, dec |-> dec, at |-> clock, fresh |-> fresh]
  <1>2. t \in UsedTopics
    BY DEF Packets
  <1>3. r \in Relays
    BY <1>2 DEF Relays, TypeOK
  <1> HIDE DEF r
  <1>4. CASE Authorise(dec, t)
    <2>1. relayed' = [relayed EXCEPT ![c] = r]
      BY <1>1, <1>4 DEF r
    <2>2. relayed'[c] = r /\ relayed' \in [Connections -> Relays \cup {None}]
      BY <1>3, <2>1 DEF TypeOK
    <2>3. \A e \in Connections : e # c => relayed'[e] = relayed[e]
      BY <2>1 DEF TypeOK
    <2>4. QED
      BY <1>4, <2>2, <2>3 DEF r
  <1>5. CASE ~Authorise(dec, t)
    BY <1>1, <1>5 DEF TypeOK
  <1>6. QED
    BY <1>4, <1>5

LEMMA SubscribeSends ==
  ASSUME TypeOK, NEW c \in Connections, NEW dec \in Decisions, NEW p \in Packets,
         HandleSubscribe(c, dec, p)
  PROVE  /\ subs' \in [Connections -> SUBSET UsedTopics]
         /\ owed' \in [Connections -> Nat]
         /\ \A e \in Connections : e # c => subs'[e] = subs[e]
         /\ \A t \in subs'[c] : t \in subs[c] \/ Authorise(dec, t)
  <1> DEFINE permitted == {t \in p.topics : Authorise(dec, t)}
             forwarded == permitted # {} /\ pump[c]
  <1>1. permitted \subseteq UsedTopics /\ \A t \in permitted : Authorise(dec, t)
    BY DEF Packets
  <1>2. subs' = [subs EXCEPT ![c] = IF forwarded THEN @ \cup permitted ELSE @]
    BY DEF HandleSubscribe
  <1>3. owed' = [owed EXCEPT ![c] = IF forwarded THEN @ + 1 ELSE @]
    BY DEF HandleSubscribe
  <1> HIDE DEF permitted, forwarded
  <1>4. owed' \in [Connections -> Nat]
    BY <1>3 DEF TypeOK
  <1>5. subs' \in [Connections -> SUBSET UsedTopics]
    BY <1>1, <1>2 DEF TypeOK
  <1>6. \A e \in Connections : e # c => subs'[e] = subs[e]
    BY <1>2 DEF TypeOK
  <1>7. subs'[c] = subs[c] \/ subs'[c] = subs[c] \cup permitted
    BY <1>2 DEF TypeOK
  <1>8. QED
    BY <1>1, <1>4, <1>5, <1>6, <1>7

-----------------------------------------------------------------------------
LEMMA TypeInit == Init => TypeOK
  BY DEF Init, TypeOK, Everywhere, Labels

(* The packets the handler of a connection makes of what it reads. *)
LEMMA PacketTypes ==
  /\ [kind |-> "connect", topics |-> {}, qos |-> 0] \in Packets
  /\ [kind |-> "response", topics |-> {}, qos |-> 0] \in Packets
  /\ \A t \in UsedTopics, qos \in {0, 1} :
       [kind |-> "publish", topics |-> {t}, qos |-> qos] \in Packets
  /\ \A filters \in SUBSET UsedTopics :
       [kind |-> "subscribe", topics |-> filters, qos |-> 0] \in Packets
  BY DEF Packets

(* Handling a packet sends to the broker what its decision authorises.     *)
LEMMA HandleSends ==
  ASSUME TypeOK, NEW c \in Connections, NEW dec \in Decisions, NEW p \in Packets,
         NEW fresh \in BOOLEAN, Handle(c, dec, p, fresh)
  PROVE  /\ relayed' \in [Connections -> Relays \cup {None}]
         /\ subs' \in [Connections -> SUBSET UsedTopics]
         /\ owed' \in [Connections -> Nat]
         /\ \A e \in Connections : e # c => relayed'[e] = relayed[e] /\ subs'[e] = subs[e]
         /\ \A t \in subs'[c] : t \in subs[c] \/ Authorise(dec, t)
         /\ \/ relayed'[c] = relayed[c]
            \/ /\ p.kind = "publish"
               /\ \E t \in p.topics :
                    /\ Authorise(dec, t)
                    /\ relayed'[c] = [topic |-> t, dec |-> dec, at |-> clock, fresh |-> fresh]
  <1>1. CASE p.kind = "publish" /\ HandlePublish(c, dec, p, fresh) /\ UNCHANGED <<subs, owed, asked, acked>>
    BY <1>1, PublishSends DEF TypeOK
  <1>2. CASE p.kind = "subscribe" /\ HandleSubscribe(c, dec, p) /\ UNCHANGED <<relayed, unanswered>>
    BY <1>2, SubscribeSends DEF TypeOK
  <1>3. QED
    BY <1>1, <1>2 DEF Handle

(* A packet read by the loop is handled at once or waits for a decision. *)
LEMMA PacketType ==
  ASSUME TypeOK, NEW c \in Connections, NEW p \in Packets, PacketHandled(c, p) \/ PacketWaits(c, p)
  PROVE  TypeOK'
  <1>1. CASE PacketHandled(c, p)
    <2>1. decision[c] \in Decisions
      BY <1>1 DEF PacketHandled, TypeOK
    <2>2. /\ relayed' \in [Connections -> Relays \cup {None}]
          /\ subs' \in [Connections -> SUBSET UsedTopics]
          /\ owed' \in [Connections -> Nat]
      BY <1>1, <2>1, HandleSends DEF PacketHandled
    <2>3. QED
      BY <1>1, <2>2 DEF PacketHandled, TypeOK, session
  <1>2. CASE PacketWaits(c, p)
    <2>1. p # None
      BY NoneAssumption
    <2>2. /\ pc' \in [Connections -> Labels]
          /\ packet' \in [Connections -> Packets \cup {None}]
          /\ pc[c] = "loop" /\ pc'[c] = "asked" /\ packet'[c] = p
          /\ \A e \in Connections : e # c => pc'[e] = pc[e] /\ packet'[e] = packet[e]
      BY <1>2, AskType DEF PacketWaits
    <2>3. UNCHANGED <<clock, decision, answer, subs, owed, given, relayed>>
      BY <1>2 DEF PacketWaits, session, broker, outcome
    <2>4. QED
      BY <2>1, <2>2, <2>3 DEF TypeOK
  <1>3. QED
    BY <1>1, <1>2

(* An answer is taken over and the session closed, or it goes on at label  *)
(* dial or loop.                                                           *)
LEMMA AnsweredType ==
  ASSUME TypeOK, NEW c \in Connections, pc[c] = "answered", Take(c), clock' = clock,
         \/ Close(c) /\ UNCHANGED relayed
         \/ /\ pc' \in [Connections -> Labels]
            /\ packet' \in [Connections -> Packets \cup {None}]
            /\ answer' \in [Connections -> Decisions \cup {None}]
            /\ pc'[c] \in {"dial", "loop"} /\ packet'[c] = None /\ answer'[c] = None
            /\ \A e \in Connections : e # c =>
                 pc'[e] = pc[e] /\ packet'[e] = packet[e] /\ answer'[e] = answer[e]
            /\ subs' \in [Connections -> SUBSET UsedTopics]
            /\ owed' \in [Connections -> Nat]
            /\ relayed' \in [Connections -> Relays \cup {None}]
  PROVE  TypeOK'
  <1>1. answer[c] \in Decisions
    BY DEF TypeOK
  <1>2. /\ decision' \in [Connections -> Decisions \cup {None}]
        /\ given' \in [Connections -> SUBSET Actions]
        /\ decision'[c] = answer[c]
        /\ \A e \in Connections : e # c => decision'[e] = decision[e]
    BY <1>1, TakeType
  <1>3. answer[c] # None
    BY <1>1, NoneAssumption
  <1>4. CASE Close(c) /\ UNCHANGED relayed
    BY <1>2, <1>4, CloseType DEF TypeOK
  <1>5. CASE ~(Close(c) /\ UNCHANGED relayed)
    BY <1>2, <1>3, <1>5 DEF TypeOK
  <1>6. QED
    BY <1>4, <1>5

LEMMA TypeNext == TypeOK /\ [Next]_vars => TypeOK'
  <1> SUFFICES ASSUME TypeOK, [Next]_vars PROVE TypeOK'
    OBVIOUS
  (* A session that ends keeps its decision and what it sent. *)
  <1>a. ASSUME NEW c \in Connections, Close(c), UNCHANGED <<clock, session, outcome>>
        PROVE  TypeOK'
    BY <1>a, CloseType DEF TypeOK, session, outcome
  (* A packet that asks the service, from a label of the loop or before. *)
  <1>b. ASSUME NEW c \in Connections, NEW p \in Packets, Ask(c, p), pc[c] \in {"new", "loop"},
               UNCHANGED <<clock, decision, answer, subs, owed, given, relayed>>
        PROVE  TypeOK'
    BY <1>b, AskType, NoneAssumption DEF TypeOK
  <1>1. CASE Tick
    BY <1>1 DEF Tick, TypeOK, session, broker, outcome
  <1>2. ASSUME NEW c \in Connections, NEW m \in BOOLEAN, ClientConnects(c, m) PROVE TypeOK'
    BY <1>2, <1>b, PacketTypes DEF ClientConnects, broker, outcome
  <1>3. ASSUME NEW c \in Connections, ServiceDecides(c) PROVE TypeOK'
    <2>1. PICK a \in Answers(c) : answer' = [answer EXCEPT ![c] = [action |-> a, created_at |-> clock]]
      BY <1>3 DEF ServiceDecides
    <2>2. a \in Actions
      BY DEF Answers
    <2>3. [action |-> a, created_at |-> clock] \in Decisions
      BY <2>2 DEF Decisions, TypeOK
    <2>4. /\ answer' \in [Connections -> Decisions \cup {None}] /\ answer'[c] # None
          /\ \A e \in Connections : e # c => answer'[e] = answer[e]
      BY <2>1, <2>3, NoneAssumption DEF TypeOK
    <2>5. /\ pc' \in [Connections -> Labels] /\ pc[c] = "asked" /\ pc'[c] = "answered"
          /\ \A e \in Connections : e # c => pc'[e] = pc[e]
      BY <1>3 DEF ServiceDecides, TypeOK, Labels
    <2>6. UNCHANGED <<clock, packet, decision, subs, owed, given, relayed>>
      BY <1>3 DEF ServiceDecides, session, broker, outcome
    <2>7. QED
      BY <2>4, <2>5, <2>6 DEF TypeOK
  <1>4. ASSUME NEW c \in Connections, ServiceFails(c) PROVE TypeOK'
    BY <1>4, <1>a DEF ServiceFails
  <1>5. ASSUME NEW c \in Connections, ConnectAnswered(c) PROVE TypeOK'
    <2>1. CASE Close(c)
      BY <1>5, <2>1, AnsweredType DEF ConnectAnswered, outcome
    <2>2. CASE /\ pc' = [pc EXCEPT ![c] = "dial"]
               /\ packet' = [packet EXCEPT ![c] = None]
               /\ answer' = [answer EXCEPT ![c] = None]
               /\ UNCHANGED <<broker, unanswered>>
      <3>1. /\ pc' \in [Connections -> Labels]
            /\ packet' \in [Connections -> Packets \cup {None}]
            /\ answer' \in [Connections -> Decisions \cup {None}]
            /\ pc'[c] = "dial" /\ packet'[c] = None /\ answer'[c] = None
            /\ \A e \in Connections : e # c =>
                 pc'[e] = pc[e] /\ packet'[e] = packet[e] /\ answer'[e] = answer[e]
        BY <2>2 DEF TypeOK, Labels
      <3>2. UNCHANGED <<clock, subs, owed, relayed>> /\ pc[c] = "answered" /\ Take(c)
        BY <1>5, <2>2 DEF ConnectAnswered, broker, outcome
      <3>3. /\ subs' \in [Connections -> SUBSET UsedTopics]
            /\ owed' \in [Connections -> Nat]
            /\ relayed' \in [Connections -> Relays \cup {None}]
        BY <3>2 DEF TypeOK
      <3>4. QED
        BY <3>1, <3>2, <3>3, AnsweredType
    <2>3. QED
      BY <1>5, <2>1, <2>2 DEF ConnectAnswered
  <1>6. ASSUME NEW c \in Connections, BrokerRefuses(c) PROVE TypeOK'
    BY <1>6, <1>a DEF BrokerRefuses
  <1>7. ASSUME NEW c \in Connections, BrokerAccepts(c) PROVE TypeOK'
    <2>1. /\ pc' \in [Connections -> Labels]
          /\ pc[c] = "dial" /\ pc'[c] \in {"challenge", "loop"}
          /\ \A e \in Connections : e # c => pc'[e] = pc[e]
      BY <1>7 DEF BrokerAccepts, TypeOK, Labels
    <2>2. UNCHANGED <<clock, packet, answer, decision, subs, owed, given, relayed>>
      BY <1>7 DEF BrokerAccepts, session, outcome
    <2>3. QED
      BY <2>1, <2>2 DEF TypeOK
  <1>8. ASSUME NEW c \in Connections, SendChallenge(c) PROVE TypeOK'
    <2>1. /\ pc' \in [Connections -> Labels]
          /\ pc[c] = "challenge" /\ pc'[c] = "loop"
          /\ \A e \in Connections : e # c => pc'[e] = pc[e]
      BY <1>8 DEF SendChallenge, TypeOK, Labels
    <2>2. UNCHANGED <<clock, packet, answer, decision, subs, owed, given, relayed>>
      BY <1>8 DEF SendChallenge, broker, outcome
    <2>3. QED
      BY <2>1, <2>2 DEF TypeOK
  <1>9. ASSUME NEW c \in Connections, NEW t \in UsedTopics, NEW qos \in {0, 1},
               ClientPublishes(c, t, qos)
        PROVE  TypeOK'
    BY <1>9, PacketTypes, PacketType DEF ClientPublishes
  <1>10. ASSUME NEW c \in Connections, NEW filters \in SUBSET UsedTopics,
                ClientSubscribes(c, filters)
         PROVE  TypeOK'
    BY <1>10, PacketTypes, PacketType DEF ClientSubscribes
  <1>11. ASSUME NEW c \in Connections, PacketAnswered(c) PROVE TypeOK'
    <2>1. CASE Close(c) /\ UNCHANGED <<asked, acked, relayed>>
      BY <1>11, <2>1, AnsweredType DEF PacketAnswered
    <2>2. CASE Handle(c, answer[c], packet[c], TRUE) /\ Resume(c)
      <3>1. answer[c] \in Decisions /\ packet[c] \in Packets
        BY <1>11 DEF PacketAnswered, TypeOK
      <3>2. /\ subs' \in [Connections -> SUBSET UsedTopics]
            /\ owed' \in [Connections -> Nat]
            /\ relayed' \in [Connections -> Relays \cup {None}]
        BY <2>2, <3>1, HandleSends
      <3>3. QED
        BY <1>11, <2>2, <3>2, ResumeType, AnsweredType DEF PacketAnswered
    <2>3. QED
      BY <1>11, <2>1, <2>2 DEF PacketAnswered
  <1>12. ASSUME NEW c \in Connections, StepUpResponse(c) PROVE TypeOK'
    BY <1>12, <1>b, PacketTypes DEF StepUpResponse, session, broker, outcome
  <1>13. ASSUME NEW c \in Connections, ResponseAnswered(c) PROVE TypeOK'
    <2>1. CASE Close(c)
      BY <1>13, <2>1, AnsweredType DEF ResponseAnswered, outcome
    <2>2. CASE Resume(c) /\ UNCHANGED <<broker, unanswered>>
      <3>1. UNCHANGED <<clock, subs, owed, relayed>> /\ pc[c] = "answered" /\ Take(c)
        BY <1>13, <2>2 DEF ResponseAnswered, broker, outcome
      <3>2. /\ subs' \in [Connections -> SUBSET UsedTopics]
            /\ owed' \in [Connections -> Nat]
            /\ relayed' \in [Connections -> Relays \cup {None}]
        BY <3>1 DEF TypeOK
      <3>3. QED
        BY <2>2, <3>1, <3>2, ResumeType, AnsweredType
    <2>3. QED
      BY <1>13, <2>1, <2>2 DEF ResponseAnswered
  <1>14. ASSUME NEW c \in Connections, NEW t \in UsedTopics, ClientUnsubscribes(c, t) PROVE TypeOK'
    BY <1>14 DEF ClientUnsubscribes, TypeOK, session, outcome
  <1>15. ASSUME NEW c \in Connections, NEW t \in UsedTopics, PumpDelivers(c, t) PROVE TypeOK'
    BY <1>15 DEF PumpDelivers, TypeOK, session, broker
  <1>16. ASSUME NEW c \in Connections, ClientLeaves(c) PROVE TypeOK'
    BY <1>16, <1>a DEF ClientLeaves
  <1>17. ASSUME NEW c \in Connections, PumpSuback(c) PROVE TypeOK'
    BY <1>17 DEF PumpSuback, TypeOK, session, outcome
  <1>18. ASSUME NEW c \in Connections, PumpEnds(c) PROVE TypeOK'
    BY <1>18 DEF PumpEnds, TypeOK, session, outcome
  <1>19. CASE UNCHANGED vars
    BY <1>19 DEF vars, TypeOK, session, broker, outcome
  <1>20. QED
    BY <1>1, <1>2, <1>3, <1>4, <1>5, <1>6, <1>7, <1>8, <1>9, <1>10, <1>11, <1>12, <1>13, <1>14,
       <1>15, <1>16, <1>17, <1>18, <1>19 DEF Next, Step

-----------------------------------------------------------------------------
(* The invariant, one conjunct for what each theorem needs. *)
SendsInv ==
  /\ WaitingNotIntercepted /\ DecisionWasGiven
  /\ PublishAuthorised /\ AnswerNeverRelayed
  /\ SubscriptionsWereGranted

LEMMA SendsInit == Init => SendsInv
  BY DEF Init, SendsInv, Everywhere, WaitingNotIntercepted, DecisionWasGiven, PublishAuthorised,
         AnswerNeverRelayed, SubscriptionsWereGranted

(* What a packet relayed under a decision adds to the history. *)
LEMMA RelayAuthorised ==
  ASSUME TypeOK, SendsInv, NEW c \in Connections, NEW dec \in Decisions, NEW p \in Packets,
         NEW fresh \in BOOLEAN, Handle(c, dec, p, fresh),
         fresh \/ clock <= dec.created_at + Ttl[dec.action],
         p.kind = "publish" => "response" \notin p.topics
  PROVE  PublishAuthorised' /\ AnswerNeverRelayed'
  <1>1. \A e \in Connections : e # c => relayed'[e] = relayed[e]
    BY HandleSends
  <1>2. CASE relayed'[c] = relayed[c]
    BY <1>1, <1>2 DEF SendsInv, PublishAuthorised, AnswerNeverRelayed
  <1>3. ASSUME NEW t \in p.topics, p.kind = "publish", Authorise(dec, t),
               relayed'[c] = [topic |-> t, dec |-> dec, at |-> clock, fresh |-> fresh]
        PROVE  PublishAuthorised' /\ AnswerNeverRelayed'
    <2>1. relayed'[c].topic = t /\ relayed'[c].dec = dec /\ relayed'[c].at = clock
      BY <1>3
    <2>2. relayed'[c].fresh = fresh
      BY <1>3
    <2>3. t # "response"
      BY <1>3
    <2>4. AnswerNeverRelayed'
      BY <1>1, <2>1, <2>3 DEF SendsInv, AnswerNeverRelayed
    <2>5. PublishAuthorised'
      BY <1>1, <1>3, <2>1, <2>2 DEF SendsInv, PublishAuthorised
    <2>6. QED
      BY <2>4, <2>5
  <1>4. QED
    BY <1>2, <1>3, HandleSends

(* Filters a packet adds under a decision the session was given. *)
LEMMA FiltersGranted ==
  ASSUME TypeOK, SendsInv, NEW c \in Connections, NEW dec \in Decisions, NEW p \in Packets,
         NEW fresh \in BOOLEAN, Handle(c, dec, p, fresh), dec.action \in given'[c],
         \A e \in Connections : given[e] \subseteq given'[e]
  PROVE  SubscriptionsWereGranted'
  <1>1. \A t \in subs'[c] : t \in subs[c] \/ Authorise([action |-> dec.action, created_at |-> 0], t)
    BY HandleSends, AuthoriseByAction
  <1>2. \A e \in Connections : e # c => subs'[e] = subs[e]
    BY HandleSends
  <1> DEFINE Within(a, t) == Authorise([action |-> a, created_at |-> 0], t)
  <1>3. \A e \in Connections : \A t \in subs[e] : \E a \in given[e] : Within(a, t)
    BY DEF SendsInv, SubscriptionsWereGranted
  <1>4. \A t \in subs'[c] : t \in subs[c] \/ Within(dec.action, t)
    BY <1>1
  <1> HIDE DEF Within
  <1>5. \A e \in Connections : \A t \in subs'[e] : \E a \in given'[e] : Within(a, t)
    BY <1>2, <1>3, <1>4
  <1>6. QED
    BY <1>5 DEF SubscriptionsWereGranted, Within, Authorise, Refusing

(* A packet read by the loop: no step-up answer, and no await before it is *)
(* handled under the decision that stands.                                 *)
LEMMA PacketSends ==
  ASSUME TypeOK, SendsInv, NEW c \in Connections, NEW p \in Packets,
         p.kind = "publish" => "response" \notin p.topics,
         PacketHandled(c, p) \/ PacketWaits(c, p)
  PROVE  SendsInv'
  <1>1. CASE PacketHandled(c, p)
    <2> DEFINE dec == decision[c]
    <2>1. /\ dec \in Decisions /\ dec # None /\ ~DecisionExpired(dec)
          /\ Handle(c, dec, p, FALSE)
          /\ UNCHANGED <<decision, packet, given>>
      BY <1>1 DEF PacketHandled, TypeOK, session
    <2>2. clock <= dec.created_at + Ttl[dec.action]
      <3>1. clock \in Nat /\ dec.created_at \in Nat /\ Ttl[dec.action] \in Nat
        BY <2>1, GatewayAssumption DEF TypeOK, Decisions
      <3>2. QED
        BY <2>1, <3>1 DEF DecisionExpired
    <2>3. dec.action \in given'[c]
      BY <2>1 DEF SendsInv, DecisionWasGiven
    <2> HIDE DEF dec
    <2>4. PublishAuthorised' /\ AnswerNeverRelayed'
      BY <2>1, <2>2, RelayAuthorised
    <2>5. SubscriptionsWereGranted'
      BY <2>1, <2>3, FiltersGranted
    <2>6. WaitingNotIntercepted' /\ DecisionWasGiven'
      BY <2>1 DEF SendsInv, WaitingNotIntercepted, DecisionWasGiven
    <2>7. QED
      BY <2>4, <2>5, <2>6 DEF SendsInv
  <1>2. CASE PacketWaits(c, p)
    <2>1. packet'[c] = p /\ \A e \in Connections : e # c => packet'[e] = packet[e]
      BY <1>2, AskType DEF PacketWaits
    <2>2. WaitingNotIntercepted'
      BY <2>1 DEF SendsInv, WaitingNotIntercepted
    <2>3. UNCHANGED <<decision, given, subs, relayed>>
      BY <1>2 DEF PacketWaits, session, broker, outcome
    <2>4. QED
      BY <2>2, <2>3 DEF SendsInv, DecisionWasGiven, PublishAuthorised, AnswerNeverRelayed,
                        SubscriptionsWereGranted, Authorise, Refusing
  <1>3. QED
    BY <1>1, <1>2

(* Steps that send nothing: the relayed packet stays, subscriptions and    *)
(* waiting packets can only go, decisions are unchanged or taken over.     *)
LEMMA QuietSends ==
  ASSUME TypeOK, SendsInv, UNCHANGED relayed,
         \A e \in Connections : given[e] \subseteq given'[e],
         \A e \in Connections : subs'[e] \subseteq subs[e],
         \A e \in Connections :
           \/ packet'[e] = packet[e] \/ packet'[e] = None \/ packet'[e].kind # "publish",
         \A e \in Connections :
           decision'[e] = decision[e] \/ decision'[e].action \in given'[e]
  PROVE  SendsInv'
  <1>1. WaitingNotIntercepted'
    BY DEF SendsInv, WaitingNotIntercepted
  <1>2. DecisionWasGiven'
    BY DEF SendsInv, DecisionWasGiven
  <1>3. PublishAuthorised' /\ AnswerNeverRelayed'
    BY DEF SendsInv, PublishAuthorised, AnswerNeverRelayed, Authorise, Refusing
  <1> DEFINE Within(a, t) == Authorise([action |-> a, created_at |-> 0], t)
  <1>4. \A e \in Connections : \A t \in subs[e] : \E a \in given[e] : Within(a, t)
    BY DEF SendsInv, SubscriptionsWereGranted
  <1> HIDE DEF Within
  <1>5. \A e \in Connections : \A t \in subs'[e] : \E a \in given'[e] : Within(a, t)
    BY <1>4
  <1>6. SubscriptionsWereGranted'
    BY <1>5 DEF SubscriptionsWereGranted, Within, Authorise, Refusing
  <1>7. QED
    BY <1>1, <1>2, <1>3, <1>6 DEF SendsInv

LEMMA SendsNext == TypeOK /\ SendsInv /\ [Next]_vars => SendsInv'
  <1> SUFFICES ASSUME TypeOK, SendsInv, [Next]_vars PROVE SendsInv'
    OBVIOUS
  (* A session that ends. *)
  <1>a. ASSUME NEW c \in Connections, Close(c), UNCHANGED relayed,
               (Take(c) /\ pc[c] = "answered") \/ UNCHANGED <<decision, given>>
        PROVE  SendsInv'
    <2>1. \A e \in Connections : subs'[e] \subseteq subs[e] /\ packet'[e] \in {packet[e], None}
      BY <1>a, CloseType
    <2>2. CASE UNCHANGED <<decision, given>>
      BY <1>a, <2>1, <2>2, QuietSends
    <2>3. CASE Take(c) /\ pc[c] = "answered"
      <3>1. answer[c] \in Decisions
        BY <2>3 DEF TypeOK
      <3>2. /\ \A e \in Connections : given[e] \subseteq given'[e]
            /\ \A e \in Connections : decision'[e] = decision[e] \/ decision'[e].action \in given'[e]
        BY <2>3, <3>1, TakeType
      <3>3. QED
        BY <1>a, <2>1, <3>2, QuietSends
    <2>4. QED
      BY <1>a, <2>2, <2>3
  (* Nothing the invariant speaks of. *)
  <1>b. ASSUME UNCHANGED <<packet, decision, given, subs, relayed>> PROVE SendsInv'
    BY <1>b, QuietSends
  (* CONNECT and the step-up answer ask without a publication. *)
  <1>c. ASSUME NEW c \in Connections, NEW p \in Packets, p.kind # "publish", Ask(c, p),
               UNCHANGED <<decision, given, subs, relayed>>
        PROVE  SendsInv'
    <2>1. \A e \in Connections : packet'[e] = packet[e] \/ packet'[e].kind # "publish"
      BY <1>c, AskType
    <2>2. QED
      BY <1>c, <2>1, QuietSends
  (* An answer that is taken over without anything to send. *)
  <1>d. ASSUME NEW c \in Connections, Take(c), pc[c] = "answered", UNCHANGED <<subs, relayed>>,
               \A e \in Connections : packet'[e] \in {packet[e], None}
        PROVE  SendsInv'
    <2>1. answer[c] \in Decisions
      BY <1>d DEF TypeOK
    <2>2. /\ \A e \in Connections : given[e] \subseteq given'[e]
          /\ \A e \in Connections : decision'[e] = decision[e] \/ decision'[e].action \in given'[e]
      BY <1>d, <2>1, TakeType
    <2>3. QED
      BY <1>d, <2>2, QuietSends
  <1>1. CASE Tick
    BY <1>1, <1>b DEF Tick, session, broker, outcome
  <1>2. ASSUME NEW c \in Connections, NEW m \in BOOLEAN, ClientConnects(c, m) PROVE SendsInv'
    BY <1>2, <1>c, PacketTypes DEF ClientConnects, broker, outcome
  <1>3. ASSUME NEW c \in Connections, ServiceDecides(c) PROVE SendsInv'
    BY <1>3, <1>b DEF ServiceDecides, session, broker, outcome
  <1>4. ASSUME NEW c \in Connections, ServiceFails(c) PROVE SendsInv'
    BY <1>4, <1>a DEF ServiceFails, session, outcome
  <1>5. ASSUME NEW c \in Connections, ConnectAnswered(c) PROVE SendsInv'
    <2>1. CASE Close(c)
      BY <1>5, <2>1, <1>a DEF ConnectAnswered, outcome
    <2>2. CASE packet' = [packet EXCEPT ![c] = None] /\ UNCHANGED <<broker, unanswered>>
      BY <1>5, <2>2, <1>d DEF ConnectAnswered, broker, outcome, TypeOK
    <2>3. QED
      BY <1>5, <2>1, <2>2 DEF ConnectAnswered
  <1>6. ASSUME NEW c \in Connections, BrokerRefuses(c) PROVE SendsInv'
    BY <1>6, <1>a DEF BrokerRefuses, session, outcome
  <1>7. ASSUME NEW c \in Connections, BrokerAccepts(c) PROVE SendsInv'
    BY <1>7, <1>b DEF BrokerAccepts, session, outcome
  <1>8. ASSUME NEW c \in Connections, SendChallenge(c) PROVE SendsInv'
    BY <1>8, <1>b DEF SendChallenge, broker, outcome
  <1>9. ASSUME NEW c \in Connections, NEW t \in UsedTopics, NEW qos \in {0, 1},
               ClientPublishes(c, t, qos)
        PROVE  SendsInv'
    <2> DEFINE p == [kind |-> "publish", topics |-> {t}, qos |-> qos]
    <2>1. p \in Packets /\ "response" \notin p.topics
      BY <1>9, PacketTypes DEF ClientPublishes, Intercepted
    <2>2. PacketHandled(c, p) \/ PacketWaits(c, p)
      BY <1>9 DEF ClientPublishes
    <2> HIDE DEF p
    <2>3. QED
      BY <2>1, <2>2, PacketSends
  <1>10. ASSUME NEW c \in Connections, NEW filters \in SUBSET UsedTopics,
                ClientSubscribes(c, filters)
         PROVE  SendsInv'
    <2> DEFINE p == [kind |-> "subscribe", topics |-> filters, qos |-> 0]
    <2>1. p \in Packets /\ p.kind = "subscribe"
      BY PacketTypes
    <2>2. PacketHandled(c, p) \/ PacketWaits(c, p)
      BY <1>10 DEF ClientSubscribes
    <2> HIDE DEF p
    <2>3. QED
      BY <2>1, <2>2, PacketSends
  <1>11. ASSUME NEW c \in Connections, PacketAnswered(c) PROVE SendsInv'
    <2>1. CASE Close(c) /\ UNCHANGED <<asked, acked, relayed>>
      BY <1>11, <2>1, <1>a DEF PacketAnswered
    <2>2. CASE Handle(c, answer[c], packet[c], TRUE) /\ Resume(c)
      <3>1. answer[c] \in Decisions /\ packet[c] \in Packets /\ packet[c] # None
        BY <1>11 DEF PacketAnswered, TypeOK
      <3>2. /\ answer[c].action \in given'[c] /\ decision'[c] = answer[c]
            /\ \A e \in Connections : given[e] \subseteq given'[e]
            /\ \A e \in Connections : e # c => decision'[e] = decision[e]
        BY <1>11, <3>1, TakeType DEF PacketAnswered
      <3>3. packet[c].kind = "publish" => "response" \notin packet[c].topics
        BY <3>1 DEF SendsInv, WaitingNotIntercepted
      <3>4. PublishAuthorised' /\ AnswerNeverRelayed'
        BY <2>2, <3>1, <3>3, RelayAuthorised
      <3>5. SubscriptionsWereGranted'
        BY <2>2, <3>1, <3>2, FiltersGranted
      <3>6. DecisionWasGiven'
        BY <3>2 DEF SendsInv, DecisionWasGiven
      <3>7. WaitingNotIntercepted'
        BY <2>2, ResumeType DEF SendsInv, WaitingNotIntercepted
      <3>8. QED
        BY <3>4, <3>5, <3>6, <3>7 DEF SendsInv
    <2>3. QED
      BY <1>11, <2>1, <2>2 DEF PacketAnswered
  <1>12. ASSUME NEW c \in Connections, StepUpResponse(c) PROVE SendsInv'
    BY <1>12, <1>c, PacketTypes DEF StepUpResponse, session, broker, outcome
  <1>13. ASSUME NEW c \in Connections, ResponseAnswered(c) PROVE SendsInv'
    <2>1. CASE Close(c)
      BY <1>13, <2>1, <1>a DEF ResponseAnswered, outcome
    <2>2. CASE Resume(c) /\ UNCHANGED <<broker, unanswered>>
      BY <1>13, <2>2, <1>d, ResumeType DEF ResponseAnswered, broker, outcome
    <2>3. QED
      BY <1>13, <2>1, <2>2 DEF ResponseAnswered
  <1>14. ASSUME NEW c \in Connections, NEW t \in UsedTopics, ClientUnsubscribes(c, t)
         PROVE  SendsInv'
    <2>1. \A e \in Connections : subs'[e] \subseteq subs[e]
      BY <1>14 DEF ClientUnsubscribes, TypeOK
    <2>2. QED
      BY <1>14, <2>1, QuietSends DEF ClientUnsubscribes, session, outcome
  <1>15. ASSUME NEW c \in Connections, NEW t \in UsedTopics, PumpDelivers(c, t) PROVE SendsInv'
    BY <1>15, <1>b DEF PumpDelivers, session, broker
  <1>16. ASSUME NEW c \in Connections, ClientLeaves(c) PROVE SendsInv'
    BY <1>16, <1>a DEF ClientLeaves, session, outcome
  <1>17. ASSUME NEW c \in Connections, PumpSuback(c) PROVE SendsInv'
    BY <1>17, <1>b DEF PumpSuback, session, outcome
  <1>18. ASSUME NEW c \in Connections, PumpEnds(c) PROVE SendsInv'
    <2>1. \A e \in Connections : subs'[e] \subseteq subs[e]
      BY <1>18 DEF PumpEnds, TypeOK
    <2>2. QED
      BY <1>18, <2>1, QuietSends DEF PumpEnds, session, outcome
  <1>19. CASE UNCHANGED vars
    BY <1>19, <1>b DEF vars, session, broker, outcome
  <1>20. QED
    BY <1>1, <1>2, <1>3, <1>4, <1>5, <1>6, <1>7, <1>8, <1>9, <1>10, <1>11, <1>12, <1>13, <1>14,
       <1>15, <1>16, <1>17, <1>18, <1>19 DEF Next, Step

-----------------------------------------------------------------------------
(* Every handler of the gateway is at a known await with the packet and    *)
(* the decision that its continuation uses.                                *)
THEOREM TypeCorrect == Spec => []TypeOK
  BY TypeInit, TypeNext, PTL DEF Spec

LEMMA Invariance == Spec => []SendsInv
  BY TypeCorrect, SendsInit, SendsNext, PTL DEF Spec

(* Every PUBLISH that _handle_publish relays is in the scope of a decision *)
(* that had not expired, or that was obtained for this very packet.        *)
THEOREM RelayedWasAuthorised == Spec => []PublishAuthorised
  <1>1. SendsInv => PublishAuthorised
    BY DEF SendsInv
  <1>2. QED
    BY <1>1, Invariance, PTL

(* The broker holds no filter outside the scopes of the decisions that the *)
(* session was given: _handle_subscribe forwards only what they permit.    *)
THEOREM FiltersWereGranted == Spec => []SubscriptionsWereGranted
  <1>1. SendsInv => SubscriptionsWereGranted
    BY DEF SendsInv
  <1>2. QED
    BY <1>1, Invariance, PTL

(* A step-up answer does not reach the broker, not even when it arrives    *)
(* with an expired decision and other packets wait across a refresh.       *)
THEOREM AnswersStay == Spec => []AnswerNeverRelayed
  <1>1. SendsInv => AnswerNeverRelayed
    BY DEF SendsInv
  <1>2. QED
    BY <1>1, Invariance, PTL

-----------------------------------------------------------------------------
(* DeviceAgent *)

(* The packets of a kind, by their places. *)
Of(packets, kind) == {i \in DOMAIN packets : packets[i].kind = kind}
AtMostOne(S) == \A i, j \in S : i = j

Asked == Of(requests, "SUBSCRIBE")
Awaited == Of(due, "SUBACK")
Sent == Of(inbox, "SUBACK")

(* One SUBACK is to come at most, and only to a subscribe under way. *)
OneExpected ==
  /\ op.kind # "subscribe" => Asked = {} /\ Awaited = {} /\ Sent = {}
  /\ Asked # {} => Awaited = {} /\ Sent = {}
  /\ Awaited # {} => Sent = {}
  /\ AtMostOne(Asked) /\ AtMostOne(Awaited) /\ AtMostOne(Sent)

(* It answers the subscribe under way, and promises what was granted. *)
Honest ==
  /\ \A i \in Asked : requests[i].codes = op.filters
  /\ \A i \in Awaited : ReportedBy(op.filters, due[i].codes) \subseteq granted
  /\ \A i \in Sent : ReportedBy(op.filters, inbox[i].codes) \subseteq granted
  /\ reported \subseteq granted

AgentInv == ~slipped /\ ~torn => OneExpected /\ Honest

LEMMA Appended ==
  ASSUME NEW S, NEW s \in Seq(S), NEW p \in S
  PROVE  \E n \in Nat :
           /\ n = Len(s) /\ DOMAIN s = 1..n /\ DOMAIN Append(s, p) = (1..n) \cup {n + 1}
           /\ \A i \in 1..n : Append(s, p)[i] = s[i]
           /\ Append(s, p)[n + 1] = p
  <1>1. PICK n \in Nat : n = Len(s)
    OBVIOUS
  <1>2. DOMAIN Append(s, p) = 1..(n + 1) /\ 1..(n + 1) = (1..n) \cup {n + 1}
    BY <1>1
  <1>3. \A i \in 1..n : Append(s, p)[i] = s[i]
    BY <1>1
  <1>4. Append(s, p)[n + 1] = p
    BY <1>1
  <1>5. DOMAIN s = 1..n
    BY <1>1
  <1>6. QED
    BY <1>1, <1>2, <1>3, <1>4, <1>5

LEMMA AppendedOne ==
  ASSUME NEW S, NEW s \in Seq(S), NEW p \in S, NEW kind, p.kind = kind
  PROVE  /\ Of(Append(s, p), kind) = Of(s, kind) \cup {Len(s) + 1}
         /\ Append(s, p)[Len(s) + 1] = p
  <1>1. PICK n \in Nat :
          /\ n = Len(s) /\ DOMAIN s = 1..n /\ DOMAIN Append(s, p) = (1..n) \cup {n + 1}
          /\ \A i \in 1..n : Append(s, p)[i] = s[i]
          /\ Append(s, p)[n + 1] = p
    BY Appended
  <1> DEFINE more == Append(s, p)
  <1> HIDE DEF more
  <1>2. /\ DOMAIN more = (1..n) \cup {n + 1} /\ more[n + 1] = p
        /\ \A i \in 1..n : more[i] = s[i]
    BY <1>1 DEF more
  <1>3. Of(more, kind) = Of(s, kind) \cup {n + 1}
    BY <1>1, <1>2 DEF Of
  <1>4. QED
    BY <1>1, <1>2, <1>3 DEF more

LEMMA AppendedOther ==
  ASSUME NEW S, NEW s \in Seq(S), NEW p \in S, NEW kind, p.kind # kind
  PROVE  /\ Of(Append(s, p), kind) = Of(s, kind)
         /\ \A i \in Of(s, kind) : Append(s, p)[i] = s[i]
  <1>1. PICK n \in Nat :
          /\ n = Len(s) /\ DOMAIN s = 1..n /\ DOMAIN Append(s, p) = (1..n) \cup {n + 1}
          /\ \A i \in 1..n : Append(s, p)[i] = s[i]
          /\ Append(s, p)[n + 1] = p
    BY Appended
  <1> DEFINE more == Append(s, p)
  <1> HIDE DEF more
  <1>2. /\ DOMAIN more = (1..n) \cup {n + 1} /\ more[n + 1] = p
        /\ \A i \in 1..n : more[i] = s[i]
    BY <1>1 DEF more
  <1>3. Of(more, kind) = Of(s, kind) /\ \A i \in Of(s, kind) : more[i] = s[i]
    BY <1>1, <1>2 DEF Of
  <1>4. QED
    BY <1>3 DEF more

LEMMA Rest ==
  ASSUME NEW S, NEW s \in Seq(S), s # <<>>, NEW kind
  PROVE  /\ Tail(s) \in Seq(S) /\ Head(s) \in S
         /\ \A i \in Of(Tail(s), kind) : i + 1 \in Of(s, kind) /\ Tail(s)[i] = s[i + 1]
         /\ AtMostOne(Of(s, kind)) => AtMostOne(Of(Tail(s), kind))
         /\ AtMostOne(Of(s, kind)) /\ Head(s).kind = kind => Of(Tail(s), kind) = {}
         /\ Head(s).kind = kind => 1 \in Of(s, kind) /\ s[1] = Head(s)
  <1>1. PICK n \in Nat : n + 1 = Len(s)
    <2>1. Len(s) \in Nat /\ Len(s) # 0
      OBVIOUS
    <2>2. Len(s) - 1 \in Nat /\ (Len(s) - 1) + 1 = Len(s)
      BY <2>1
    <2>3. QED
      BY <2>2
  <1>2. /\ DOMAIN s = 1..(n + 1) /\ DOMAIN Tail(s) = 1..n /\ Tail(s) \in Seq(S) /\ Head(s) \in S
        /\ \A i \in 1..n : Tail(s)[i] = s[i + 1]
        /\ Head(s) = s[1]
    BY <1>1
  <1>3. \A i \in Of(Tail(s), kind) : i \in 1..n /\ i + 1 \in Of(s, kind) /\ Tail(s)[i] = s[i + 1]
    <2>1. \A i \in 1..n : i + 1 \in 1..(n + 1)
      OBVIOUS
    <2>2. QED
      BY <1>2, <2>1 DEF Of
  <1>4. ASSUME AtMostOne(Of(s, kind)) PROVE AtMostOne(Of(Tail(s), kind))
    BY <1>3, <1>4 DEF AtMostOne
  <1>5. ASSUME Head(s).kind = kind PROVE 1 \in Of(s, kind) /\ s[1] = Head(s)
    BY <1>2, <1>5 DEF Of
  <1>6. ASSUME AtMostOne(Of(s, kind)), Head(s).kind = kind PROVE Of(Tail(s), kind) = {}
    <2>1. \A i \in 1..n : i + 1 # 1
      OBVIOUS
    <2>2. QED
      BY <1>3, <1>5, <1>6, <2>1 DEF AtMostOne
  <1>7. QED
    BY <1>2, <1>3, <1>4, <1>5, <1>6

LEMMA NothingOf ==
  ASSUME NEW S, NEW s \in Seq(S), s # <<>>, NEW kind, Of(s, kind) = {}
  PROVE  Of(Tail(s), kind) = {}
  BY Rest
-----------------------------------------------------------------------------
(* What an operation does with a packet, as far as SUBACKs are concerned. *)

(* The answers there are. *)
LEMMA AnswersMade ==
  /\ Plain("PINGRESP") \in Replies /\ Plain("challenge") \in Replies
  /\ Connack(ACCEPTED) \in Replies /\ Connack(NOT_AUTHORIZED) \in Replies
  /\ \A codes \in Seq({ACCEPTED, SUBACK_FAILURE}) : Suback(codes) \in Replies
  BY DEF Replies, Suback

LEMMA RequestsMade ==
  /\ Plain("CONNECT") \in Requests /\ Plain("PINGREQ") \in Requests /\ Plain("response") \in Requests
  /\ \A filters \in FilterLists : [kind |-> "SUBSCRIBE", codes |-> filters] \in Requests
  BY DEF Requests

LEMMA WriteType ==
  ASSUME AgentTypeOK, NEW request \in Requests, Write(request)
  PROVE  requests' \in Seq(Requests)
  BY DEF AgentTypeOK, Write

LEMMA FiltersOf ==
  ASSUME NEW filters \in FilterLists
  PROVE  filters \in Seq(Filters) /\ Range(filters) \subseteq Filters
         /\ Len(filters) \in Nat /\ DOMAIN filters = 1..Len(filters)
  <1>1. filters \in Seq(Filters)
    BY AgentAssumption
  <1>2. Range(filters) \subseteq Filters
    BY DEF Filters
  <1>3. QED
    BY <1>1, <1>2

LEMMA DispatchType ==
  ASSUME AgentTypeOK, NEW p, Dispatch(p)
  PROVE  requests' \in Seq(Requests)
  <1>1. CASE p.kind = "challenge"
    BY <1>1, RequestsMade, WriteType DEF Dispatch
  <1>2. CASE p.kind # "challenge"
    BY <1>2 DEF Dispatch, AgentTypeOK
  <1>3. QED
    BY <1>1, <1>2

LEMMA EndType ==
  ASSUME AgentTypeOK, Finish \/ Abandon \/ GoOn
  PROVE  op' \in Operations /\ (op'.kind = "subscribe" => op'.filters \in FilterLists)
  <1>1. op' = op \/ op' = Idle
    BY DEF Finish, Abandon, GoOn
  <1>2. Idle \in Operations /\ Idle.kind # "subscribe"
    BY DEF Idle, Operations
  <1>3. op \in Operations /\ (op.kind = "subscribe" => op.filters \in FilterLists)
    BY DEF AgentTypeOK
  <1>4. QED
    BY <1>1, <1>2, <1>3

LEMMA ReportedType ==
  ASSUME NEW filters \in FilterLists \cup {<<>>}, NEW codes
  PROVE  ReportedBy(filters, codes) \subseteq Filters
  <1>1. CASE filters \in FilterLists
    BY <1>1, FiltersOf DEF ReportedBy, Range
  <1>2. CASE filters = <<>>
    BY <1>2 DEF ReportedBy
  <1>3. QED
    BY <1>1, <1>2

(* Whatever is read, what the agent keeps has its type. *)
LEMMA OnPacketType ==
  ASSUME AgentTypeOK, NEW p \in Replies, OnPacket(p), slipped \in BOOLEAN
  PROVE  /\ connack' \in {None, ACCEPTED, NOT_AUTHORIZED}
         /\ op' \in Operations /\ (op'.kind = "subscribe" => op'.filters \in FilterLists)
         /\ requests' \in Seq(Requests) /\ reported' \subseteq Filters /\ slipped' \in BOOLEAN
  <1>0. /\ op \in Operations /\ connack \in {None, ACCEPTED, NOT_AUTHORIZED} /\ requests \in Seq(Requests)
        /\ reported \subseteq Filters /\ slipped \in BOOLEAN /\ op.filters \in FilterLists \cup {<<>>}
    BY DEF AgentTypeOK, Operations
  <1>1. CASE op.kind = "connect" /\ OnConnect(p)
    <2>1. p.kind = "CONNACK" => p.codes[1] \in {ACCEPTED, NOT_AUTHORIZED}
      BY DEF Replies, Connack, Plain
    <2>2. QED
      BY <1>0, <1>1, <2>1, EndType DEF OnConnect, Abandon
  <1>2. CASE op.kind = "subscribe" /\ OnSubscribe(p)
    <2>1. op' \in Operations /\ (op'.kind = "subscribe" => op'.filters \in FilterLists)
      BY <1>2, EndType DEF OnSubscribe
    <2>2. reported' \subseteq Filters
      BY <1>0, <1>2, ReportedType DEF OnSubscribe
    <2>3. requests' \in Seq(Requests)
      BY <1>0, <1>2, DispatchType DEF OnSubscribe
    <2>4. slipped' \in BOOLEAN /\ connack' = connack
      BY <1>0, <1>2 DEF OnSubscribe, GoOn, Abandon
    <2>5. QED
      BY <1>0, <2>1, <2>2, <2>3, <2>4
  <1>3. CASE op.kind = "ping" /\ OnPing(p)
    BY <1>0, <1>3, EndType, DispatchType DEF OnPing
  <1>4. CASE op.kind = "pump" /\ OnPump(p)
    BY <1>0, <1>4, EndType, DispatchType DEF OnPump, GoOn, Abandon
  <1>5. QED
    BY <1>1, <1>2, <1>3, <1>4 DEF OnPacket

(* The codes of a SUBACK, one for each filter or one for each permitted. *)
LEMMA CodesType ==
  ASSUME NEW filters \in FilterLists, NEW ok
  PROVE  /\ Suback(Codes(filters, ok)) \in Replies
         /\ Suback(Accepting(Cardinality({i \in DOMAIN filters : filters[i] \in ok}))) \in Replies
  <1> DEFINE permitted == {i \in DOMAIN filters : filters[i] \in ok}
  <1>1. PICK n \in Nat : DOMAIN filters = 1..n
    BY FiltersOf
  <1>2. Codes(filters, ok) \in Seq({ACCEPTED, SUBACK_FAILURE})
    BY <1>1 DEF Codes
  <1>3. IsFiniteSet(1..n)
    BY FS_Interval
  <1>4. Cardinality(permitted) \in Nat
    <2>1. permitted \subseteq 1..n
      BY <1>1
    <2>2. IsFiniteSet(permitted)
      BY <1>3, <2>1, FS_Subset
    <2>3. QED
      BY <2>2, FS_CardinalityType
  <1> HIDE DEF permitted
  <1>5. Accepting(Cardinality(permitted)) \in Seq({ACCEPTED, SUBACK_FAILURE})
    BY <1>4 DEF Accepting
  <1>6. QED
    BY <1>2, <1>5, AnswersMade DEF permitted

LEMMA AgentTypeNext == AgentTypeOK /\ [AgentNext]_agentVars => AgentTypeOK'
  <1> SUFFICES ASSUME AgentTypeOK, [AgentNext]_agentVars PROVE AgentTypeOK'
    OBVIOUS
  <1>0. /\ up \in BOOLEAN /\ connack \in {None, ACCEPTED, NOT_AUTHORIZED} /\ op \in Operations
        /\ op.kind = "subscribe" => op.filters \in FilterLists
        /\ inbox \in Seq(Replies) /\ half \in BOOLEAN /\ torn \in BOOLEAN
        /\ requests \in Seq(Requests) /\ due \in Seq(Replies) /\ gone \in BOOLEAN
        /\ accepted \in BOOLEAN /\ granted \subseteq Filters /\ reported \subseteq Filters
        /\ slipped \in BOOLEAN
        /\ half => Reading /\ inbox # <<>> /\ ~torn
    BY DEF AgentTypeOK
  <1>i. Idle \in Operations /\ Idle.kind # "subscribe" /\ (op = Idle => ~half)
    BY <1>0 DEF Idle, Operations, Reading
  <1>d. \A kind \in {"connect", "ping", "pump"} :
           Doing(kind, <<>>) \in Operations /\ Doing(kind, <<>>).kind # "subscribe"
    BY DEF Doing, Operations
  <1>e. <<>> \in Seq(Replies) /\ <<>> \in Seq(Requests)
    OBVIOUS
  <1>1. CASE Connect
    <2>1. requests' \in Seq(Requests)
      BY <1>1, RequestsMade DEF Connect
    <2>2. QED
      BY <1>0, <1>1, <1>d, <1>e, <2>1 DEF Connect, NewReader, NewHistory, AgentTypeOK, Reading
  <1>2. ASSUME NEW filters \in FilterLists, Subscribe(filters) PROVE AgentTypeOK'
    <2>1. Doing("subscribe", filters) \in Operations /\ Doing("subscribe", filters).filters = filters
      BY DEF Doing, Operations
    <2>2. requests' \in Seq(Requests)
      BY <1>2, RequestsMade, WriteType DEF Subscribe
    <2>3. QED
      BY <1>0, <1>2, <1>i, <2>1, <2>2 DEF Subscribe, wire, history, AgentTypeOK
  <1>3. CASE Ping
    <2>1. requests' \in Seq(Requests)
      BY <1>3, RequestsMade, WriteType DEF Ping
    <2>2. QED
      BY <1>0, <1>3, <1>d, <1>i, <2>1 DEF Ping, wire, history, AgentTypeOK
  <1>4. CASE Pump
    BY <1>0, <1>4, <1>d, <1>i DEF Pump, wire, gateway, history, AgentTypeOK
  <1>5. CASE Disconnect
    BY <1>0, <1>5, <1>e DEF Disconnect, NewReader, NewHistory, AgentTypeOK
  <1>6. CASE HeaderRead
    BY <1>0, <1>6 DEF HeaderRead, agent, gateway, history, AgentTypeOK, Reading
  <1>7. CASE PacketRead
    <2>1. Head(inbox) \in Replies /\ Tail(inbox) \in Seq(Replies)
      BY <1>0, <1>7 DEF PacketRead
    <2>2. /\ connack' \in {None, ACCEPTED, NOT_AUTHORIZED}
          /\ op' \in Operations /\ (op'.kind = "subscribe" => op'.filters \in FilterLists)
          /\ requests' \in Seq(Requests) /\ reported' \subseteq Filters /\ slipped' \in BOOLEAN
      BY <1>0, <1>7, <2>1, OnPacketType DEF PacketRead
    <2>3. QED
      BY <1>0, <1>7, <2>1, <2>2 DEF PacketRead, AgentTypeOK
  <1>8. CASE TornRead
    <2>1. PICK p \in Unreadable :
            IF p.kind = "error"
            THEN Abandon /\ UNCHANGED <<connack, requests, reported>>
            ELSE OnPacket(p)
      BY <1>8 DEF TornRead
    <2>2. /\ connack' \in {None, ACCEPTED, NOT_AUTHORIZED}
          /\ op' \in Operations /\ (op'.kind = "subscribe" => op'.filters \in FilterLists)
          /\ requests' \in Seq(Requests) /\ reported' \subseteq Filters /\ slipped' \in BOOLEAN
      <3>1. CASE p.kind = "error"
        BY <1>0, <2>1, <3>1, EndType DEF Abandon
      <3>2. CASE p.kind # "error"
        <4>1. <<ACCEPTED>> \in Seq({ACCEPTED, SUBACK_FAILURE})
          OBVIOUS
        <4>2. Suback(<<ACCEPTED>>) \in Replies /\ Plain("PINGRESP") \in Replies
          BY <4>1, AnswersMade
        <4>3. p \in {Plain("PINGRESP"), Suback(<<ACCEPTED>>)}
          BY <3>2 DEF Unreadable, Plain
        <4>4. QED
          BY <1>0, <2>1, <3>2, <4>2, <4>3, OnPacketType
      <3>3. QED
        BY <3>1, <3>2
    <2>3. Tail(inbox) \in Seq(Replies)
      BY <1>0, <1>8 DEF TornRead
    <2>4. QED
      BY <1>0, <1>8, <2>2, <2>3 DEF TornRead, AgentTypeOK
  <1>9. CASE StreamEnds
    BY <1>0, <1>9, EndType DEF StreamEnds, Abandon, wire, gateway, AgentTypeOK
  <1>10. CASE DeadlinePasses
    <2>1. op' \in Operations /\ op'.kind = op.kind /\ op'.filters = op.filters
      BY <1>0, <1>10 DEF DeadlinePasses, Operations
    <2>2. op' # Idle
      <3>1. op'.late = TRUE
        BY <1>0, <1>10 DEF DeadlinePasses, Operations
      <3>2. QED
        BY <3>1 DEF Idle
    <2>3. QED
      BY <1>0, <1>10, <2>1, <2>2 DEF DeadlinePasses, wire, gateway, history, AgentTypeOK, Reading
  <1>11. CASE TimesOut
    BY <1>0, <1>11, EndType DEF TimesOut, Abandon, gateway, AgentTypeOK
  <1>12. CASE GatewayHandles
    <2>1. requests' \in Seq(Requests) /\ requests # <<>> /\ Head(requests) \in Requests
      BY <1>0, <1>12 DEF GatewayHandles
    <2>2. UNCHANGED <<agent, half, torn, reported>>
      BY <1>12 DEF GatewayHandles
    <2>3. CASE AnswerConnect
      <3>1. inbox' \in Seq(Replies) /\ inbox' # <<>>
        <4>1. PICK p \in Replies : inbox' = Append(inbox, p)
          BY <2>3, AnswersMade DEF AnswerConnect, Send
        <4>2. QED
          BY <1>0, <4>1
      <3>2. accepted' \in BOOLEAN /\ gone' \in BOOLEAN /\ UNCHANGED <<due, granted, slipped>>
        BY <2>3 DEF AnswerConnect
      <3>3. QED
        BY <1>0, <2>1, <2>2, <3>1, <3>2 DEF agent, AgentTypeOK, Reading
    <2>4. CASE AnswerSubscribe
      <3>1. Head(requests).codes \in FilterLists
        BY <2>1, <2>4 DEF AnswerSubscribe, Requests, Plain
      <3> DEFINE filters == Head(requests).codes
      <3>2. PICK ok \in SUBSET Range(filters) :
              /\ granted' = granted \cup ok
              /\ IF ok = {} THEN UNCHANGED due
                 ELSE Owe(Suback(Accepting(Cardinality({i \in DOMAIN filters : filters[i] \in ok}))))
              /\ IF ok = Range(filters) THEN UNCHANGED inbox ELSE Send(Suback(Codes(filters, ok)))
              /\ slipped' = (slipped \/ ok \notin {{}, Range(filters)})
        BY <2>4 DEF AnswerSubscribe
      <3> HIDE DEF filters
      <3>3. filters \in FilterLists
        BY <3>1 DEF filters
      <3>4. due' \in Seq(Replies) /\ inbox' \in Seq(Replies) /\ (inbox # <<>> => inbox' # <<>>)
        <4>1. /\ Suback(Codes(filters, ok)) \in Replies
              /\ Suback(Accepting(Cardinality({i \in DOMAIN filters : filters[i] \in ok}))) \in Replies
          BY <3>3, CodesType
        <4>2. due' \in Seq(Replies)
          BY <1>0, <3>2, <4>1 DEF Owe
        <4>3. inbox' \in Seq(Replies) /\ (inbox # <<>> => inbox' # <<>>)
          BY <1>0, <3>2, <4>1, SMTT(30) DEF Send
        <4>4. QED
          BY <4>2, <4>3
      <3>5. granted' \subseteq Filters /\ slipped' \in BOOLEAN
        BY <1>0, <3>2, <3>3, FiltersOf
      <3>6. QED
        BY <1>0, <2>1, <2>2, <2>4, <3>4, <3>5 DEF AnswerSubscribe, agent, AgentTypeOK, Reading
    <2>5. CASE AnswerPing
      BY <1>0, <2>1, <2>2, <2>5, AnswersMade DEF AnswerPing, Owe, agent, AgentTypeOK, Reading
    <2>6. CASE AnswerResponse
      BY <1>0, <2>1, <2>2, <2>6 DEF AnswerResponse, agent, AgentTypeOK, Reading
    <2>7. QED
      BY <1>12, <2>3, <2>4, <2>5, <2>6 DEF GatewayHandles
  <1>13. CASE PumpRelays
    <2>1. Head(due) \in Replies /\ Tail(due) \in Seq(Replies)
      BY <1>0, <1>13 DEF PumpRelays
    <2>2. QED
      BY <1>0, <1>13, <2>1 DEF PumpRelays, Send, agent, history, AgentTypeOK, Reading
  <1>14. CASE GatewayChallenges
    BY <1>0, <1>14, AnswersMade DEF GatewayChallenges, Send, agent, gateway, history, AgentTypeOK, Reading
  <1>15. CASE GatewayCloses
    BY <1>0, <1>15 DEF GatewayCloses, agent, wire, history, AgentTypeOK, Reading
  <1>16. CASE UNCHANGED agentVars
    BY <1>0, <1>16 DEF agentVars, agent, wire, gateway, history, AgentTypeOK, Reading
  <1>17. QED
    BY <1>1, <1>2, <1>3, <1>4, <1>5, <1>6, <1>7, <1>8, <1>9, <1>10, <1>11, <1>12, <1>13, <1>14,
       <1>15, <1>16 DEF AgentNext
-----------------------------------------------------------------------------
(* No SUBACK is to come. *)
LEMMA NoneToCome ==
  ASSUME Asked' = {}, Awaited' = {}, Sent' = {}, reported' \subseteq granted'
  PROVE  OneExpected' /\ Honest'
  BY DEF OneExpected, Honest, AtMostOne

(* What is to come is what was to come, if only at another place. *)
LEMMA Carried ==
  ASSUME OneExpected, Honest,
         op'.kind = op.kind, op'.filters = op.filters, granted' = granted, reported' = reported,
         \A i \in Asked' : \E j \in Asked : requests'[i].codes = requests[j].codes,
         \A i \in Awaited' : \E j \in Awaited : due'[i] = due[j],
         \A i \in Sent' : \E j \in Sent : inbox'[i] = inbox[j],
         AtMostOne(Asked'), AtMostOne(Awaited'), AtMostOne(Sent')
  PROVE  OneExpected' /\ Honest'
  <1>1. (Asked' # {} => Asked # {}) /\ (Awaited' # {} => Awaited # {}) /\ (Sent' # {} => Sent # {})
    OBVIOUS
  <1>2. OneExpected'
    BY <1>1 DEF OneExpected
  <1>3. /\ \A i \in Asked' : requests'[i].codes = op'.filters
        /\ reported' \subseteq granted'
    BY DEF Honest
  <1>4. \A i \in Awaited' : ReportedBy(op'.filters, due'[i].codes) \subseteq granted'
    BY DEF Honest
  <1>5. \A i \in Sent' : ReportedBy(op'.filters, inbox'[i].codes) \subseteq granted'
    BY DEF Honest
  <1>6. QED
    BY <1>2, <1>3, <1>4, <1>5 DEF Honest

LEMMA EmptyOf ==
  ASSUME NEW kind
  PROVE  Of(<<>>, kind) = {} /\ \A p : p.kind # kind => Of(<<p>>, kind) = {}
  BY DEF Of

(* A request that is no SUBSCRIBE is no matter here. *)
LEMMA WriteOther ==
  ASSUME AgentTypeOK, NEW request \in Requests, request.kind # "SUBSCRIBE", Write(request)
  PROVE  Asked' = Asked /\ \A i \in Asked : requests'[i] = requests[i]
  <1>1. requests \in Seq(Requests)
    BY DEF AgentTypeOK
  <1>2. CASE gone
    BY <1>2 DEF Write, Asked
  <1>3. CASE ~gone
    <2>1. requests' = Append(requests, request)
      BY <1>3 DEF Write
    <2>2. /\ Of(Append(requests, request), "SUBSCRIBE") = Of(requests, "SUBSCRIBE")
          /\ \A i \in Of(requests, "SUBSCRIBE") : Append(requests, request)[i] = requests[i]
      BY <1>1, AppendedOther
    <2>3. QED
      BY <2>1, <2>2 DEF Asked
  <1>4. QED
    BY <1>2, <1>3

LEMMA DispatchOther ==
  ASSUME AgentTypeOK, NEW p, Dispatch(p)
  PROVE  Asked' = Asked /\ \A i \in Asked : requests'[i] = requests[i]
  <1>1. CASE p.kind = "challenge"
    <2>1. Plain("response").kind # "SUBSCRIBE"
      BY DEF Plain
    <2>2. QED
      BY <1>1, <2>1, RequestsMade, WriteOther DEF Dispatch
  <1>2. CASE p.kind # "challenge"
    BY <1>2 DEF Dispatch, Asked
  <1>3. QED
    BY <1>1, <1>2

LEMMA SendOther ==
  ASSUME AgentTypeOK, NEW p \in Replies, p.kind # "SUBACK", Send(p)
  PROVE  Sent' = Sent /\ \A i \in Sent : inbox'[i] = inbox[i]
  <1>1. inbox \in Seq(Replies) /\ inbox' = Append(inbox, p)
    BY DEF AgentTypeOK, Send
  <1>2. /\ Of(Append(inbox, p), "SUBACK") = Of(inbox, "SUBACK")
        /\ \A i \in Of(inbox, "SUBACK") : Append(inbox, p)[i] = inbox[i]
    BY <1>1, AppendedOther
  <1>3. QED
    BY <1>1, <1>2 DEF Sent

(* An operation other than subscribe leaves nothing to come. *)
LEMMA PacketForOther ==
  ASSUME AgentTypeOK, OneExpected, Honest, op.kind # "subscribe", PacketRead
  PROVE  OneExpected' /\ Honest'
  <1>1. Asked = {} /\ Awaited = {} /\ Sent = {}
    BY DEF OneExpected
  <1>2. inbox \in Seq(Replies) /\ inbox # <<>> /\ inbox' = Tail(inbox) /\ due' = due /\ granted' = granted
    BY DEF AgentTypeOK, PacketRead
  <1>3. OnPacket(Head(inbox))
    BY DEF PacketRead
  <1>4. Sent' = {}
    BY <1>1, <1>2, NothingOf DEF Sent
  <1>5. Awaited' = {}
    BY <1>1, <1>2 DEF Awaited
  <1>6. Asked' = {} /\ reported' = reported
    <2>1. CASE OnConnect(Head(inbox))
      BY <1>1, <2>1 DEF OnConnect, Asked
    <2>2. CASE OnPing(Head(inbox))
      <3>1. UNCHANGED requests \/ Dispatch(Head(inbox))
        BY <2>2 DEF OnPing
      <3>2. Asked' = {}
        BY <1>1, <3>1, DispatchOther DEF Asked
      <3>3. QED
        BY <2>2, <3>2 DEF OnPing
    <2>3. CASE OnPump(Head(inbox))
      BY <1>1, <2>3, DispatchOther DEF OnPump
    <2>4. QED
      BY <1>3, <2>1, <2>2, <2>3 DEF OnPacket
  <1>7. QED
    BY <1>2, <1>4, <1>5, <1>6, NoneToCome DEF Honest

(* A subscribe takes the one SUBACK, or goes on waiting for it. *)
LEMMA PacketForSubscribe ==
  ASSUME AgentTypeOK, OneExpected, Honest, op.kind = "subscribe", PacketRead, ~slipped'
  PROVE  OneExpected' /\ Honest'
  <1> DEFINE p == Head(inbox)
  <1>1. /\ inbox \in Seq(Replies) /\ inbox # <<>> /\ inbox' = Tail(inbox)
        /\ due' = due /\ granted' = granted
    BY DEF AgentTypeOK, PacketRead
  <1>2. OnSubscribe(p)
    BY DEF PacketRead, OnPacket
  <1>3. CASE p.kind = "SUBACK"
    <2>1. 1 \in Sent /\ inbox[1] = p
      BY <1>1, <1>3, Rest DEF Sent
    <2>2. Asked = {} /\ Awaited = {} /\ AtMostOne(Sent)
      BY <2>1 DEF OneExpected
    <2>3. Sent' = {}
      BY <1>1, <1>3, <2>2, Rest DEF Sent
    <2>4. /\ requests' = requests
          /\ reported' = reported \cup ReportedBy(op.filters, p.codes)
      BY <1>2, <1>3 DEF OnSubscribe
    <2>5. reported' \subseteq granted'
      BY <1>1, <2>1, <2>4 DEF Honest
    <2>6. QED
      BY <1>1, <2>2, <2>3, <2>4, <2>5, NoneToCome DEF Asked, Awaited
  <1>4. CASE p.kind # "SUBACK"
    <2>1. reported' = reported /\ Dispatch(p) /\ GoOn
      BY <1>2, <1>4 DEF OnSubscribe
    <2>2. op' = op
      BY <2>1 DEF GoOn, Abandon
    <2>3. Asked' = Asked /\ \A i \in Asked : requests'[i] = requests[i]
      BY <2>1, DispatchOther
    <2>4. /\ \A i \in Sent' : i + 1 \in Sent /\ inbox'[i] = inbox[i + 1]
          /\ AtMostOne(Sent')
      BY <1>1, Rest DEF Sent, OneExpected
    <2>5. Awaited' = Awaited
      BY <1>1 DEF Awaited
    <2>6. AtMostOne(Asked') /\ AtMostOne(Awaited')
      BY <2>3, <2>5 DEF OneExpected
    <2>7. QED
      BY <1>1, <2>1, <2>2, <2>3, <2>4, <2>5, <2>6, Carried
  <1>5. QED
    BY <1>3, <1>4

(* A SUBSCRIBE is answered by the gateway or by the broker, never by both, *)
(* unless the grant is partial.                                            *)
LEMMA SubscribeAnswered ==
  ASSUME AgentTypeOK, OneExpected, Honest, requests # <<>>, AnswerSubscribe,
         requests' = Tail(requests), op' = op, reported' = reported, ~slipped'
  PROVE  OneExpected' /\ Honest'
  <1> DEFINE filters == Head(requests).codes
  <1>1. requests \in Seq(Requests) /\ inbox \in Seq(Replies) /\ due \in Seq(Replies)
    BY DEF AgentTypeOK
  <1>2. 1 \in Asked /\ requests[1] = Head(requests) /\ Head(requests) \in Requests
    BY <1>1, Rest DEF AnswerSubscribe, Asked
  <1>3. filters \in FilterLists /\ filters = op.filters
    <2>1. filters = op.filters
      BY <1>2 DEF Honest
    <2>2. Head(requests).codes \in FilterLists
      BY <1>2 DEF AnswerSubscribe, Requests, Plain
    <2>3. QED
      BY <2>1, <2>2
  <1>4. Awaited = {} /\ Sent = {} /\ AtMostOne(Asked) /\ op.kind = "subscribe"
    BY <1>2 DEF OneExpected
  <1>5. Asked' = {}
    BY <1>1, <1>2, <1>4, Rest DEF AnswerSubscribe, Asked
  <1>6. PICK ok \in SUBSET Range(filters) :
          /\ granted' = granted \cup ok
          /\ IF ok = {} THEN UNCHANGED due
             ELSE Owe(Suback(Accepting(Cardinality({i \in DOMAIN filters : filters[i] \in ok}))))
          /\ IF ok = Range(filters) THEN UNCHANGED inbox ELSE Send(Suback(Codes(filters, ok)))
          /\ slipped' = (slipped \/ ok \notin {{}, Range(filters)})
    BY DEF AnswerSubscribe
  <1> HIDE DEF filters
  <1>7. reported' \subseteq granted'
    BY <1>6 DEF Honest
  <1>8. CASE ok = {} /\ ok = Range(filters)
    <2>1. due' = due /\ inbox' = inbox
      BY <1>6, <1>8
    <2>2. QED
      BY <1>4, <1>5, <1>7, <2>1, NoneToCome DEF Awaited, Sent
  <1>9. CASE ok = {} /\ ok # Range(filters)
    <2> DEFINE p == Suback(Codes(filters, ok))
    <2>1. due' = due /\ inbox' = Append(inbox, p) /\ granted' = granted
      BY <1>6, <1>9 DEF Send
    <2>2. p \in Replies /\ p.kind = "SUBACK" /\ p.codes = Codes(filters, ok)
      BY <1>3, CodesType DEF Suback
    <2>3. ReportedBy(op.filters, p.codes) = {}
      BY <1>3, <1>9, <2>2 DEF ReportedBy, Codes
    <2> HIDE DEF p
    <2>4. /\ Of(Append(inbox, p), "SUBACK") = Of(inbox, "SUBACK") \cup {Len(inbox) + 1}
          /\ Append(inbox, p)[Len(inbox) + 1] = p
      <3>1. inbox \in Seq(Replies) /\ p \in Replies /\ p.kind = "SUBACK"
        BY <1>1, <2>2
      <3>2. QED
        BY <3>1, AppendedOne, ZenonT(60)
    <2>5. Sent' = {Len(inbox) + 1} /\ inbox'[Len(inbox) + 1] = p
      BY <1>4, <2>1, <2>4 DEF Sent
    <2>6. Awaited' = {}
      BY <1>4, <2>1 DEF Awaited
    <2>7. OneExpected'
      BY <1>4, <1>5, <2>5, <2>6 DEF OneExpected, AtMostOne
    <2>8. QED
      BY <1>5, <1>7, <2>1, <2>3, <2>5, <2>6, <2>7 DEF Honest
  <1>10. CASE ok # {} /\ ok = Range(filters)
    <2> DEFINE p == Suback(Accepting(Cardinality({i \in DOMAIN filters : filters[i] \in ok})))
    <2>1. due' = Append(due, p) /\ inbox' = inbox
      BY <1>6, <1>10 DEF Owe
    <2>2. p \in Replies /\ p.kind = "SUBACK"
      BY <1>3, CodesType DEF Suback
    <2> HIDE DEF p
    <2>3. ReportedBy(op.filters, p.codes) \subseteq granted'
      BY <1>3, <1>6, <1>10 DEF ReportedBy, Range
    <2>4. /\ Of(Append(due, p), "SUBACK") = Of(due, "SUBACK") \cup {Len(due) + 1}
          /\ Append(due, p)[Len(due) + 1] = p
      <3>1. due \in Seq(Replies) /\ p \in Replies /\ p.kind = "SUBACK"
        BY <1>1, <2>2
      <3>2. QED
        BY <3>1, AppendedOne, ZenonT(60)
    <2>5. Awaited' = {Len(due) + 1} /\ due'[Len(due) + 1] = p
      BY <1>4, <2>1, <2>4 DEF Awaited
    <2>6. Sent' = {}
      BY <1>4, <2>1 DEF Sent
    <2>7. OneExpected'
      BY <1>4, <1>5, <2>5, <2>6 DEF OneExpected, AtMostOne
    <2>8. QED
      BY <1>5, <1>7, <2>3, <2>5, <2>6, <2>7 DEF Honest
  <1>11. QED
    BY <1>6, <1>8, <1>9, <1>10

(* The pump hands on the SUBACK of the broker. *)
LEMMA SubackRelayed ==
  ASSUME AgentTypeOK, OneExpected, Honest, PumpRelays
  PROVE  OneExpected' /\ Honest'
  <1> DEFINE p == Head(due)
  <1>1. /\ due \in Seq(Replies) /\ due # <<>> /\ due' = Tail(due)
        /\ inbox \in Seq(Replies) /\ Send(p) /\ inbox' = Append(inbox, p)
        /\ requests' = requests /\ op' = op /\ granted' = granted /\ reported' = reported
    BY DEF AgentTypeOK, PumpRelays, Send, agent, history
  <1>2. Asked' = Asked
    BY <1>1 DEF Asked
  <1>3. p \in Replies
    BY <1>1
  <1> HIDE DEF p
  <1>4. CASE p.kind = "SUBACK"
    <2>1. 1 \in Awaited /\ due[1] = p
      BY <1>1, <1>4, Rest DEF Awaited, p
    <2>2. Asked = {} /\ Sent = {} /\ AtMostOne(Awaited) /\ op.kind = "subscribe"
      BY <2>1 DEF OneExpected
    <2>3. Awaited' = {}
      BY <1>1, <1>4, <2>2, Rest DEF Awaited, p
    <2>4. /\ Of(Append(inbox, p), "SUBACK") = Of(inbox, "SUBACK") \cup {Len(inbox) + 1}
          /\ Append(inbox, p)[Len(inbox) + 1] = p
      <3>1. inbox \in Seq(Replies) /\ p \in Replies /\ p.kind = "SUBACK"
        BY <1>1, <1>3, <1>4
      <3>2. QED
        BY <3>1, AppendedOne, ZenonT(60)
    <2>5. Sent' = {Len(inbox) + 1} /\ inbox'[Len(inbox) + 1] = p
      BY <1>1, <2>2, <2>4 DEF Sent
    <2>6. OneExpected'
      BY <1>1, <1>2, <2>2, <2>3, <2>5 DEF OneExpected, AtMostOne
    <2>7. QED
      BY <1>1, <1>2, <2>1, <2>2, <2>3, <2>5, <2>6 DEF Honest
  <1>5. CASE p.kind # "SUBACK"
    <2>1. Sent' = Sent /\ \A i \in Sent : inbox'[i] = inbox[i]
      BY <1>1, <1>3, <1>5, SendOther
    <2>2. /\ \A i \in Awaited' : i + 1 \in Awaited /\ due'[i] = due[i + 1]
          /\ AtMostOne(Awaited')
      BY <1>1, Rest DEF Awaited, OneExpected
    <2>3. AtMostOne(Asked') /\ AtMostOne(Sent')
      BY <1>2, <2>1 DEF OneExpected
    <2>4. QED
      BY <1>1, <1>2, <2>1, <2>2, <2>3, Carried
  <1>6. QED
    BY <1>4, <1>5

(* Nothing is sent to the agent, or something that is no SUBACK. *)
LEMMA OtherAnswered ==
  ASSUME AgentTypeOK, OneExpected, Honest, requests # <<>>, requests' = Tail(requests),
         op' = op, reported' = reported, granted' = granted,
         UNCHANGED inbox \/ \E p \in Replies : p.kind # "SUBACK" /\ Send(p),
         UNCHANGED due \/ \E p \in Replies : p.kind # "SUBACK" /\ Owe(p)
  PROVE  OneExpected' /\ Honest'
  <1>1. requests \in Seq(Requests) /\ inbox \in Seq(Replies) /\ due \in Seq(Replies)
    BY DEF AgentTypeOK
  <1>2. /\ \A i \in Asked' : i + 1 \in Asked /\ requests'[i] = requests[i + 1]
        /\ AtMostOne(Asked')
    BY <1>1, Rest DEF Asked, OneExpected
  <1>3. Sent' = Sent /\ \A i \in Sent : inbox'[i] = inbox[i]
    BY SendOther DEF Sent
  <1>4. Awaited' = Awaited /\ \A i \in Awaited : due'[i] = due[i]
    <2>1. CASE UNCHANGED due
      BY <2>1 DEF Awaited
    <2>2. ASSUME NEW p \in Replies, p.kind # "SUBACK", Owe(p)
          PROVE  Awaited' = Awaited /\ \A i \in Awaited : due'[i] = due[i]
      <3>1. /\ Of(Append(due, p), "SUBACK") = Of(due, "SUBACK")
            /\ \A i \in Of(due, "SUBACK") : Append(due, p)[i] = due[i]
        BY <1>1, <2>2, AppendedOther
      <3>2. QED
        BY <2>2, <3>1 DEF Owe, Awaited
    <2>3. QED
      BY <2>1, <2>2
  <1>5. AtMostOne(Sent') /\ AtMostOne(Awaited')
    BY <1>3, <1>4 DEF OneExpected
  <1>6. QED
    BY <1>2, <1>3, <1>4, <1>5, Carried

LEMMA Unmoved ==
  ASSUME OneExpected, Honest, UNCHANGED <<inbox, requests, due, granted, reported>>,
         op'.kind = op.kind, op'.filters = op.filters
  PROVE  OneExpected' /\ Honest'
  <1>1. Asked' = Asked /\ Awaited' = Awaited /\ Sent' = Sent
    BY DEF Asked, Awaited, Sent
  <1>2. AtMostOne(Asked') /\ AtMostOne(Awaited') /\ AtMostOne(Sent')
    BY <1>1 DEF OneExpected
  <1>3. QED
    BY <1>1, <1>2, Carried

LEMMA AgentInvNext == AgentTypeOK /\ AgentInv /\ [AgentNext]_agentVars => AgentInv'
  <1> SUFFICES ASSUME AgentTypeOK, AgentInv, [AgentNext]_agentVars, ~slipped', ~torn'
               PROVE  OneExpected' /\ Honest'
    BY DEF AgentInv
  <1>i. op = Idle => op.kind # "subscribe"
    BY DEF Idle
  <1>n. AgentInv => (~slipped /\ ~torn => OneExpected /\ Honest)
    BY DEF AgentInv
  <1>o. OneExpected /\ Honest /\ op.kind # "subscribe"
          => Asked = {} /\ Awaited = {} /\ Sent = {} /\ reported \subseteq granted
    BY DEF OneExpected, Honest
  <1>1. CASE Connect
    <2>1. /\ requests' = <<Plain("CONNECT")>> /\ due' = <<>> /\ inbox' = <<>>
          /\ granted' = {} /\ reported' = {} /\ Plain("CONNECT").kind # "SUBSCRIBE"
      BY <1>1 DEF Connect, NewReader, NewHistory, Plain
    <2>2. QED
      BY <2>1, EmptyOf, NoneToCome DEF Asked, Awaited, Sent
  <1>2. ASSUME NEW filters \in FilterLists, Subscribe(filters) PROVE OneExpected' /\ Honest'
    <2> DEFINE request == [kind |-> "SUBSCRIBE", codes |-> filters]
    <2>1. /\ op = Idle /\ slipped' = slipped /\ torn' = torn /\ inbox' = inbox /\ due' = due
          /\ granted' = granted /\ reported' = reported /\ Write(request)
          /\ op'.kind = "subscribe" /\ op'.filters = filters
      BY <1>2 DEF Subscribe, wire, history, Doing
    <2>2. Asked = {} /\ Awaited = {} /\ Sent = {} /\ reported \subseteq granted
      BY <1>i, <1>n, <1>o, <2>1
    <2>3. Awaited' = {} /\ Sent' = {}
      BY <2>1, <2>2 DEF Awaited, Sent
    <2>4. requests \in Seq(Requests) /\ request \in Requests /\ request.kind = "SUBSCRIBE"
          /\ request.codes = filters
      BY RequestsMade DEF AgentTypeOK
    <2> HIDE DEF request
    <2>5. AtMostOne(Asked') /\ \A i \in Asked' : requests'[i].codes = filters
      <3>1. CASE gone
        BY <2>1, <2>2, <3>1 DEF Write, Asked, AtMostOne
      <3>2. CASE ~gone
        <4>1. requests' = Append(requests, request)
          BY <2>1, <3>2 DEF Write
        <4>2. /\ Of(Append(requests, request), "SUBSCRIBE") = Of(requests, "SUBSCRIBE") \cup {Len(requests) + 1}
              /\ Append(requests, request)[Len(requests) + 1] = request
          BY <2>4, AppendedOne
        <4>3. Asked' = {Len(requests) + 1} /\ requests'[Len(requests) + 1] = request
          BY <2>2, <4>1, <4>2 DEF Asked
        <4>4. QED
          BY <2>4, <4>3 DEF AtMostOne
      <3>3. QED
        BY <3>1, <3>2
    <2>6. OneExpected'
      BY <2>1, <2>3, <2>5 DEF OneExpected, AtMostOne
    <2>7. QED
      BY <2>1, <2>2, <2>3, <2>5, <2>6 DEF Honest
  <1>3. CASE Ping
    <2>1. /\ op = Idle /\ slipped' = slipped /\ torn' = torn /\ inbox' = inbox /\ due' = due
          /\ granted' = granted /\ reported' = reported /\ Write(Plain("PINGREQ"))
          /\ Plain("PINGREQ").kind # "SUBSCRIBE"
      BY <1>3 DEF Ping, wire, history, Plain
    <2>2. Asked = {} /\ Awaited = {} /\ Sent = {} /\ reported \subseteq granted
      BY <1>i, <1>n, <1>o, <2>1
    <2>3. Asked' = {}
      BY <2>1, <2>2, RequestsMade, WriteOther
    <2>4. QED
      BY <2>1, <2>2, <2>3, NoneToCome DEF Awaited, Sent
  <1>4. CASE Pump
    <2>1. op = Idle /\ UNCHANGED <<slipped, torn, inbox, due, requests, granted, reported>>
      BY <1>4 DEF Pump, wire, gateway, history
    <2>2. Asked = {} /\ Awaited = {} /\ Sent = {} /\ reported \subseteq granted
      BY <1>i, <1>n, <1>o, <2>1
    <2>3. QED
      BY <2>1, <2>2, NoneToCome DEF Asked, Awaited, Sent
  <1>5. CASE Disconnect
    <2>1. requests' = <<>> /\ due' = <<>> /\ inbox' = <<>> /\ granted' = {} /\ reported' = {}
      BY <1>5 DEF Disconnect, NewReader, NewHistory
    <2>2. QED
      BY <2>1, EmptyOf, NoneToCome DEF Asked, Awaited, Sent
  <1>6. CASE HeaderRead
    <2>1. UNCHANGED <<slipped, torn, op, inbox, due, requests, granted, reported>>
      BY <1>6 DEF HeaderRead, agent, gateway, history
    <2>2. QED
      BY <1>n, <2>1, Unmoved
  <1>7. CASE PacketRead
    <2>1. ~torn /\ OnPacket(Head(inbox))
      BY <1>7 DEF PacketRead
    <2>2. UNCHANGED slipped \/ Abandon
      BY <2>1, Zenon DEF OnPacket, OnConnect, OnSubscribe, OnPing, OnPump, GoOn
    <2>3. ~slipped
      BY <2>2, Zenon DEF Abandon
    <2>4. QED
      BY <1>7, <1>n, <2>1, <2>3, PacketForOther, PacketForSubscribe
  <1>8. CASE TornRead
    BY <1>8 DEF TornRead
  <1>9. CASE StreamEnds \/ TimesOut
    <2>1. Abandon /\ UNCHANGED <<inbox, due, requests, granted, reported>>
      BY <1>9 DEF StreamEnds, TimesOut, wire, gateway
    <2>2. ~slipped /\ op.kind # "subscribe"
      BY <2>1, Zenon DEF Abandon
    <2>t. ~torn
      <3>1. torn' = torn \/ torn' = (torn \/ half)
        BY <1>9 DEF StreamEnds, TimesOut, wire
      <3>2. QED
        BY <3>1, Zenon
    <2>3. Asked = {} /\ Awaited = {} /\ Sent = {} /\ reported \subseteq granted
      BY <1>n, <1>o, <2>2, <2>t
    <2>4. QED
      BY <2>1, <2>3, NoneToCome DEF Asked, Awaited, Sent
  <1>10. CASE DeadlinePasses
    <2>1. /\ UNCHANGED <<slipped, torn, inbox, due, requests, granted, reported>>
          /\ op'.kind = op.kind /\ op'.filters = op.filters
      BY <1>10 DEF DeadlinePasses, wire, gateway, history, AgentTypeOK, Operations
    <2>2. QED
      BY <1>n, <2>1, Unmoved
  <1>11. CASE GatewayHandles
    <2>1. /\ requests # <<>> /\ requests' = Tail(requests) /\ op' = op /\ torn' = torn
          /\ reported' = reported
      BY <1>11 DEF GatewayHandles, agent
    <2>s. ~slipped
      <3>1. \/ UNCHANGED slipped
            \/ \E ok : slipped' = (slipped \/ ok \notin {{}, Range(Head(requests).codes)})
        BY <1>11, Zenon DEF GatewayHandles, AnswerConnect, AnswerSubscribe, AnswerPing, AnswerResponse
      <3>2. QED
        BY <3>1, Zenon
    <2>2. OneExpected /\ Honest
      BY <1>n, <2>1, <2>s
    <2>3. CASE AnswerConnect
      <3>1. \E p \in Replies : p.kind # "SUBACK" /\ Send(p)
        <4>1. Connack(ACCEPTED).kind # "SUBACK" /\ Connack(NOT_AUTHORIZED).kind # "SUBACK"
          BY DEF Connack
        <4>2. QED
          BY <2>3, <4>1, AnswersMade DEF AnswerConnect
      <3>2. UNCHANGED <<due, granted>>
        BY <2>3 DEF AnswerConnect
      <3>3. QED
        BY <2>1, <2>2, <3>1, <3>2, OtherAnswered
    <2>4. CASE AnswerSubscribe
      BY <2>1, <2>2, <2>4, SubscribeAnswered
    <2>5. CASE AnswerPing
      <3>1. \E p \in Replies : p.kind # "SUBACK" /\ Owe(p)
        <4>1. Plain("PINGRESP").kind # "SUBACK"
          BY DEF Plain
        <4>2. QED
          BY <2>5, <4>1, AnswersMade DEF AnswerPing
      <3>2. UNCHANGED <<inbox, granted>>
        BY <2>5 DEF AnswerPing
      <3>3. QED
        BY <2>1, <2>2, <3>1, <3>2, OtherAnswered
    <2>6. CASE AnswerResponse
      <3>1. UNCHANGED <<inbox, due, granted>>
        BY <2>6 DEF AnswerResponse
      <3>2. QED
        BY <2>1, <2>2, <3>1, OtherAnswered
    <2>7. QED
      BY <1>11, <2>3, <2>4, <2>5, <2>6 DEF GatewayHandles
  <1>12. CASE PumpRelays
    <2>1. UNCHANGED <<slipped, torn>>
      BY <1>12 DEF PumpRelays, history
    <2>2. QED
      BY <1>12, <1>n, <2>1, SubackRelayed
  <1>13. CASE GatewayChallenges
    <2>1. /\ UNCHANGED <<slipped, torn, op, due, requests, granted, reported>>
          /\ Send(Plain("challenge")) /\ Plain("challenge").kind # "SUBACK"
      BY <1>13 DEF GatewayChallenges, agent, gateway, history, Plain
    <2>2. Sent' = Sent /\ \A i \in Sent : inbox'[i] = inbox[i]
      BY <2>1, AnswersMade, SendOther
    <2>3. OneExpected /\ Honest /\ Asked' = Asked /\ Awaited' = Awaited
      BY <1>n, <2>1 DEF Asked, Awaited
    <2>4. AtMostOne(Asked') /\ AtMostOne(Awaited') /\ AtMostOne(Sent')
      BY <2>2, <2>3 DEF OneExpected
    <2>5. QED
      BY <2>1, <2>2, <2>3, <2>4, Carried
  <1>14. CASE GatewayCloses
    <2>1. UNCHANGED <<slipped, torn, op, inbox, due, requests, granted, reported>>
      BY <1>14 DEF GatewayCloses, agent, wire, history
    <2>2. QED
      BY <1>n, <2>1, Unmoved
  <1>15. CASE UNCHANGED agentVars
    <2>1. UNCHANGED <<slipped, torn, op, inbox, due, requests, granted, reported>>
      BY <1>15 DEF agentVars, agent, wire, gateway, history
    <2>2. QED
      BY <1>n, <2>1, Unmoved
  <1>16. QED
    BY <1>1, <1>2, <1>3, <1>4, <1>5, <1>6, <1>7, <1>8, <1>9, <1>10, <1>11, <1>12, <1>13, <1>14,
       <1>15 DEF AgentNext

LEMMA AgentInitial == AgentInit => AgentTypeOK /\ AgentInv
  <1> SUFFICES ASSUME AgentInit PROVE AgentTypeOK /\ AgentInv
    OBVIOUS
  <1>1. <<>> \in Seq(Replies) /\ <<>> \in Seq(Requests) /\ Idle \in Operations /\ Idle.kind # "subscribe"
    BY DEF Idle, Operations
  <1>2. AgentTypeOK
    BY <1>1 DEF AgentInit, AgentTypeOK
  <1>3. Asked = {} /\ Awaited = {} /\ Sent = {} /\ reported \subseteq granted
    BY EmptyOf DEF AgentInit, Asked, Awaited, Sent
  <1>4. QED
    BY <1>2, <1>3 DEF AgentInv, OneExpected, Honest, AtMostOne

LEMMA AgentInvariance == AgentSpec => [](AgentTypeOK /\ AgentInv)
  BY AgentInitial, AgentTypeNext, AgentInvNext, PTL DEF AgentSpec

(* The agent keeps and reads what it is declared to, for any filter lists  *)
(* and any number of packets under way, whatever reads deadlines cancel.   *)
THEOREM AgentTypeCorrect == AgentSpec => []AgentTypeOK
  BY AgentInvariance, PTL

(* subscribe reports a refused filter as granted only after a SUBACK of    *)
(* the same connection outlived its subscribe, or after a torn read.       *)
THEOREM MisreportHasCause == AgentSpec => []MisreportExplained
  <1>1. AgentInv => MisreportExplained
    BY DEF AgentInv, Honest, MisreportExplained
  <1>2. QED
    BY <1>1, AgentInvariance, PTL
=============================================================================
