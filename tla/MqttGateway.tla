---------------------------- MODULE MqttGateway -----------------------------
(***************************************************************************)
(* The MQTT enforcement point of enforcement/mqtt_gateway.py: one handler  *)
(* task and one pump task for each connection, between a device, the       *)
(* decision service and the broker.                                        *)
(*                                                                         *)
(* The handler keeps its own copy of the decision.  It asks the service at *)
(* CONNECT, when a packet finds the decision expired, and for a step-up    *)
(* answer.  Between two awaits it runs undisturbed, so an action is what   *)
(* happens from one await to the next; during an await the clock moves and *)
(* the pump relays what the broker sends.                                  *)
(*                                                                         *)
(* The service is external here: it answers with any action it could have, *)
(* dated by the instant it decided.  DecisionPipeline says which.  The     *)
(* broker is external too.  Topics are the classes of Scopes; keep-alives, *)
(* announcements and the statistics are left out.                          *)
(***************************************************************************)
EXTENDS Integers, FiniteSets, Vocabulary, Scopes

CONSTANTS
  Connections,
  Actions,           \* policy actions in use
  Ttl,               \* policy.ttl_ms, by action
  UsedTopics,        \* topics the devices publish and subscribe to
  ServiceMayFail,    \* whether a request to the service can fail
  MaxClock,          \* bound on the clock
  MaxSubscribes      \* bound on the SUBSCRIBE packets of a connection

ASSUME GatewayAssumption ==
  /\ Actions \subseteq {"ALLOW", "ALLOW_WITH_RESTRICTIONS", "STEP_UP_AUTHENTICATION",
                        "REAUTHENTICATE", "QUARANTINE", "DENY"}
  /\ Ttl \in [Actions -> Nat]
  /\ UsedTopics \subseteq Topics
  /\ ServiceMayFail \in BOOLEAN
  /\ MaxClock \in Nat /\ MaxSubscribes \in Nat

Decisions == [action : Actions, created_at : Nat]

(* A packet whose handling may have to wait for a decision. *)
Packets == [kind : {"connect", "publish", "subscribe", "response"},
            topics : SUBSET UsedTopics, qos : {0, 1}]

ASSUME NoneAssumption == None \notin Decisions /\ None \notin Packets

VARIABLES
  clock,
  pc,           \* where the handler of each connection is
  mismatch,     \* whether the client identifier contradicts the device
  decision,     \* the handler's copy of the decision
  packet,       \* the packet being handled across an await
  answer,       \* the decision the service has sent back
  challenged,   \* whether a challenge has been sent
  pump,         \* whether the pump runs
  subs,         \* the subscriptions the broker holds for the connection
  owed,         \* SUBACKs the broker has not sent yet
  asked,        \* history: SUBSCRIBE packets handled
  acked,        \* history: SUBACKs the client got
  unanswered,   \* history: a QoS 1 PUBLISH was taken and neither relayed nor acknowledged
  given,        \* history: the actions the handler was given
  relayed,      \* history: the last PUBLISH relayed to the broker
  delivered     \* history: the topic and the decision of the last delivery

session == <<mismatch, decision, challenged, given>>
broker == <<pump, subs, owed>>
account == <<asked, acked, unanswered>>
outcome == <<relayed, delivered>>
vars == <<clock, pc, packet, answer, session, broker, account, outcome>>

Everywhere(v) == [c \in Connections |-> v]

Init == /\ clock = 0
        /\ pc = Everywhere("new")
        /\ mismatch = Everywhere(FALSE)
        /\ decision = Everywhere(None)
        /\ packet = Everywhere(None)
        /\ answer = Everywhere(None)
        /\ challenged = Everywhere(FALSE)
        /\ pump = Everywhere(FALSE)
        /\ subs = Everywhere({})
        /\ owed = Everywhere(0)
        /\ asked = Everywhere(0)
        /\ acked = Everywhere(0)
        /\ unanswered = Everywhere(FALSE)
        /\ given = Everywhere({})
        /\ relayed = Everywhere(None)
        /\ delivered = Everywhere(None)

Tick == /\ clock < MaxClock
        /\ clock' = clock + 1
        /\ UNCHANGED <<pc, packet, answer, session, broker, account, outcome>>

-----------------------------------------------------------------------------
Held(dec) == dec.action = "STEP_UP_AUTHENTICATION"
Refusing(dec) == dec.action \in TerminatingActions

ScopeOf(action) ==
  CASE action = "ALLOW" -> "full"
    [] action = "ALLOW_WITH_RESTRICTIONS" -> "restricted"
    [] action = "STEP_UP_AUTHENTICATION" -> "step_up_pending"
    [] action = "QUARANTINE" -> "quarantine"
    [] action \in TerminatingActions -> "none"

(* _authorise *)
Authorise(dec, topic) == ~Refusing(dec) /\ ScopePermits(ScopeOf(dec.action), topic)

(* Mutant: only a decision without a lifetime is refreshed. *)
DecisionNeverAges(dec) == Ttl[dec.action] = 0

(* _decision_expired *)
DecisionExpired(dec) ==
  \/ Ttl[dec.action] = 0
  \/ clock > dec.created_at + Ttl[dec.action]

(* The finally clause of _handle_client: the pump is cancelled and both    *)
(* sides are closed, which ends the subscriptions.                         *)
Close(c) ==
  /\ pc' = [pc EXCEPT ![c] = "closed"]
  /\ packet' = [packet EXCEPT ![c] = None]
  /\ answer' = [answer EXCEPT ![c] = None]
  /\ pump' = [pump EXCEPT ![c] = FALSE]
  /\ subs' = [subs EXCEPT ![c] = {}]
  /\ owed' = [owed EXCEPT ![c] = 0]
  /\ unanswered' = [unanswered EXCEPT ![c] = FALSE]

-----------------------------------------------------------------------------
(* The decision service, as _decide sees it *)

(* The handler awaits a decision about packet p. *)
Ask(c, p) == /\ pc' = [pc EXCEPT ![c] = "asked"]
             /\ packet' = [packet EXCEPT ![c] = p]

(* Only CONNECT states the session identity, and a contradiction (C10)     *)
(* never yields more than quarantine.                                      *)
Answers(c) ==
  IF packet[c].kind = "connect" /\ mismatch[c]
  THEN Actions \cap (TerminatingActions \cup {"QUARANTINE"})
  ELSE Actions

ServiceDecides(c) ==
  /\ pc[c] = "asked"
  /\ \E a \in Answers(c) :
       answer' = [answer EXCEPT ![c] = [action |-> a, created_at |-> clock]]
  /\ pc' = [pc EXCEPT ![c] = "answered"]
  /\ UNCHANGED <<clock, packet, session, broker, account, outcome>>

(* EnforcementError, a timeout or a transport error ends the session. *)
ServiceFails(c) ==
  /\ ServiceMayFail
  /\ pc[c] = "asked"
  /\ Close(c)
  /\ UNCHANGED <<clock, session, asked, acked, outcome>>

(* The handler takes the answer over. *)
Take(c) == /\ decision' = [decision EXCEPT ![c] = answer[c]]
           /\ given' = [given EXCEPT ![c] = @ \cup {answer[c].action}]

-----------------------------------------------------------------------------
(* _handle_client *)

ClientConnects(c, contradicts) ==
  /\ pc[c] = "new"
  /\ Ask(c, [kind |-> "connect", topics |-> {}, qos |-> 0])
  /\ mismatch' = [mismatch EXCEPT ![c] = contradicts]
  /\ UNCHANGED <<clock, answer, decision, challenged, given, broker, account, outcome>>

(* CONNACK 0x05, or the connection to the broker is opened. *)
ConnectAnswered(c) ==
  /\ pc[c] = "answered"
  /\ packet[c].kind = "connect"
  /\ Take(c)
  /\ \/ /\ Refusing(answer[c])
        /\ Close(c)
     \/ /\ ~Refusing(answer[c])
        /\ pc' = [pc EXCEPT ![c] = "dial"]
        /\ packet' = [packet EXCEPT ![c] = None]
        /\ answer' = [answer EXCEPT ![c] = None]
        /\ UNCHANGED <<broker, unanswered>>
  /\ UNCHANGED <<clock, mismatch, challenged, asked, acked, outcome>>

(* Broker unreachable, or no CONNACK from it. *)
BrokerRefuses(c) ==
  /\ pc[c] = "dial"
  /\ Close(c)
  /\ UNCHANGED <<clock, session, asked, acked, outcome>>

BrokerAccepts(c) ==
  /\ pc[c] = "dial"
  /\ pump' = [pump EXCEPT ![c] = TRUE]
  /\ pc' = [pc EXCEPT ![c] = IF Held(decision[c]) THEN "challenge" ELSE "loop"]
  /\ UNCHANGED <<clock, packet, answer, session, subs, owed, account, outcome>>

(* _send_challenge awaits a nonce; without one it returns silently. *)
SendChallenge(c) ==
  /\ pc[c] = "challenge"
  /\ \/ challenged' = [challenged EXCEPT ![c] = TRUE]
     \/ ServiceMayFail /\ UNCHANGED challenged
  /\ pc' = [pc EXCEPT ![c] = "loop"]
  /\ UNCHANGED <<clock, packet, answer, mismatch, decision, given, broker, account, outcome>>

-----------------------------------------------------------------------------
(* _client_loop *)

Resume(c) == /\ pc' = [pc EXCEPT ![c] = "loop"]
             /\ packet' = [packet EXCEPT ![c] = None]
             /\ answer' = [answer EXCEPT ![c] = None]

(* Mutant: a denied QoS 1 PUBLISH is dropped without a PUBACK. *)
HandlePublishUnacked(c, dec, p, fresh) ==
  \E t \in p.topics :
    /\ relayed' = IF Authorise(dec, t)
                  THEN [relayed EXCEPT ![c] =
                          [topic |-> t, dec |-> dec, at |-> clock, fresh |-> fresh]]
                  ELSE relayed
    /\ unanswered' = [unanswered EXCEPT ![c] = p.qos = 1 /\ ~Authorise(dec, t)]

(* The PUBLISH is relayed, or dropped and, at QoS 1, acknowledged. *)
HandlePublish(c, dec, p, fresh) ==
  \E t \in p.topics :
    /\ relayed' = IF Authorise(dec, t)
                  THEN [relayed EXCEPT ![c] =
                          [topic |-> t, dec |-> dec, at |-> clock, fresh |-> fresh]]
                  ELSE relayed
    /\ unanswered' = [unanswered EXCEPT ![c] = FALSE]

(* Mutant: a SUBSCRIBE with a permitted filter is forwarded as it came. *)
HandleSubscribeWhole(c, dec, p) ==
  LET granted == {t \in p.topics : Authorise(dec, t)}
      forwarded == granted # {} /\ pump[c]
  IN /\ subs' = [subs EXCEPT ![c] = IF forwarded THEN @ \cup p.topics ELSE @]
     /\ owed' = [owed EXCEPT ![c] = IF forwarded THEN @ + 1 ELSE @]
     /\ asked' = [asked EXCEPT ![c] = @ + 1]
     /\ acked' = [acked EXCEPT ![c] = IF granted = p.topics THEN @ ELSE @ + 1]

(* The permitted filters go to the broker, which will send a SUBACK; when  *)
(* any filter is refused the gateway sends one of its own.                 *)
HandleSubscribe(c, dec, p) ==
  LET granted == {t \in p.topics : Authorise(dec, t)}
      forwarded == granted # {} /\ pump[c]
  IN /\ subs' = [subs EXCEPT ![c] = IF forwarded THEN @ \cup granted ELSE @]
     /\ owed' = [owed EXCEPT ![c] = IF forwarded THEN @ + 1 ELSE @]
     /\ asked' = [asked EXCEPT ![c] = @ + 1]
     /\ acked' = [acked EXCEPT ![c] = IF granted = p.topics THEN @ ELSE @ + 1]

Handle(c, dec, p, fresh) ==
  \/ /\ p.kind = "publish"
     /\ HandlePublish(c, dec, p, fresh)
     /\ UNCHANGED <<subs, owed, asked, acked>>
  \/ /\ p.kind = "subscribe"
     /\ HandleSubscribe(c, dec, p)
     /\ UNCHANGED <<relayed, unanswered>>

(* The decision still stands: no await before the packet is handled. *)
PacketHandled(c, p) ==
  /\ pc[c] = "loop"
  /\ ~DecisionExpired(decision[c])
  /\ Handle(c, decision[c], p, FALSE)
  /\ UNCHANGED <<clock, pc, packet, answer, session, pump, delivered>>

(* _refresh_if_needed asks again, without the session identity. *)
PacketWaits(c, p) ==
  /\ pc[c] = "loop"
  /\ DecisionExpired(decision[c])
  /\ Ask(c, p)
  /\ unanswered' = [unanswered EXCEPT ![c] = p.kind = "publish" /\ p.qos = 1]
  /\ UNCHANGED <<clock, answer, session, broker, asked, acked, outcome>>

(* The packet is handled under the decision that came back, whatever its   *)
(* age, or the session ends.                                               *)
PacketAnswered(c) ==
  /\ pc[c] = "answered"
  /\ packet[c].kind \in {"publish", "subscribe"}
  /\ Take(c)
  /\ \/ /\ Refusing(answer[c])
        /\ Close(c)
        /\ UNCHANGED <<asked, acked, relayed>>
     \/ /\ ~Refusing(answer[c])
        /\ Handle(c, answer[c], packet[c], TRUE)
        /\ Resume(c)
        /\ UNCHANGED pump
  /\ UNCHANGED <<clock, mismatch, challenged, delivered>>

(* Mutant: the response topic is intercepted only while a session is held. *)
InterceptedWhileHeld(c, t) ==
  t = "response" /\ decision[c] # None /\ Held(decision[c])

(* A PUBLISH on the response topic is a step-up answer, never relayed. *)
Intercepted(c, t) == t = "response"

ClientPublishes(c, t, qos) ==
  LET p == [kind |-> "publish", topics |-> {t}, qos |-> qos]
  IN /\ ~Intercepted(c, t)
     /\ PacketHandled(c, p) \/ PacketWaits(c, p)

ClientSubscribes(c, filters) ==
  LET p == [kind |-> "subscribe", topics |-> filters, qos |-> 0]
  IN /\ asked[c] < MaxSubscribes
     /\ PacketHandled(c, p) \/ PacketWaits(c, p)

(* _handle_step_up_response asks whether or not the decision has expired.  *)
(* A malformed answer changes nothing.                                     *)
StepUpResponse(c) ==
  /\ pc[c] = "loop"
  /\ Intercepted(c, "response")
  /\ Ask(c, [kind |-> "response", topics |-> {}, qos |-> 0])
  /\ UNCHANGED <<clock, answer, session, broker, account, outcome>>

ResponseAnswered(c) ==
  /\ pc[c] = "answered"
  /\ packet[c].kind = "response"
  /\ Take(c)
  /\ \/ Refusing(answer[c]) /\ Close(c)
     \/ ~Refusing(answer[c]) /\ Resume(c) /\ UNCHANGED <<broker, unanswered>>
  /\ UNCHANGED <<clock, mismatch, challenged, asked, acked, outcome>>

(* UNSUBSCRIBE is relayed whatever the decision. *)
ClientUnsubscribes(c, t) ==
  /\ pc[c] = "loop"
  /\ subs' = [subs EXCEPT ![c] = @ \ {t}]
  /\ UNCHANGED <<clock, pc, packet, answer, session, pump, owed, account, outcome>>

(* DISCONNECT, end of stream, CONNECT timeout, an unsupported packet, or a *)
(* write to a peer that is gone.                                           *)
ClientLeaves(c) ==
  /\ pc[c] \in {"new", "challenge", "loop"}
  /\ Close(c)
  /\ UNCHANGED <<clock, session, asked, acked, outcome>>

-----------------------------------------------------------------------------
(* _pump_broker_to_client: whatever the broker sends is relayed verbatim. *)

PumpDelivers(c, t) ==
  /\ pump[c]
  /\ t \in subs[c]
  /\ delivered' = [delivered EXCEPT ![c] = [topic |-> t, dec |-> decision[c]]]
  /\ UNCHANGED <<clock, pc, packet, answer, session, broker, account, relayed>>

PumpSuback(c) ==
  /\ pump[c]
  /\ owed[c] > 0
  /\ owed' = [owed EXCEPT ![c] = @ - 1]
  /\ acked' = [acked EXCEPT ![c] = @ + 1]
  /\ UNCHANGED <<clock, pc, packet, answer, session, pump, subs, asked, unanswered, outcome>>

(* The broker closes its side: the pump returns and the handler goes on. *)
PumpEnds(c) ==
  /\ pump[c]
  /\ pump' = [pump EXCEPT ![c] = FALSE]
  /\ subs' = [subs EXCEPT ![c] = {}]
  /\ owed' = [owed EXCEPT ![c] = 0]
  /\ UNCHANGED <<clock, pc, packet, answer, session, account, outcome>>

-----------------------------------------------------------------------------
Step(c) ==
  \/ \E contradicts \in BOOLEAN : ClientConnects(c, contradicts)
  \/ ServiceDecides(c) \/ ServiceFails(c)
  \/ ConnectAnswered(c) \/ BrokerRefuses(c) \/ BrokerAccepts(c) \/ SendChallenge(c)
  \/ \E t \in UsedTopics, qos \in {0, 1} : ClientPublishes(c, t, qos)
  \/ \E filters \in SUBSET UsedTopics \ {{}} : ClientSubscribes(c, filters)
  \/ PacketAnswered(c)
  \/ StepUpResponse(c) \/ ResponseAnswered(c)
  \/ \E t \in UsedTopics : ClientUnsubscribes(c, t) \/ PumpDelivers(c, t)
  \/ ClientLeaves(c)
  \/ PumpSuback(c) \/ PumpEnds(c)

Next == Tick \/ \E c \in Connections : Step(c)

Spec == Init /\ [][Next]_vars

(* A request to the service ends, if only by the timeout of the client,    *)
(* and the event loop resumes a handler whose answer has come.             *)
Fairness ==
  \A c \in Connections : /\ WF_vars(ServiceDecides(c) \/ ServiceFails(c))
                         /\ WF_vars(PacketAnswered(c))

FairSpec == Spec /\ Fairness

-----------------------------------------------------------------------------
Labels == {"new", "asked", "answered", "dial", "challenge", "loop", "closed"}
Relays == [topic : UsedTopics, dec : Decisions, at : Nat, fresh : BOOLEAN]

(* Every handler is at a known point, holds a packet exactly while it      *)
(* awaits a decision about it, and has a decision in its loop.             *)
TypeOK ==
  /\ clock \in Nat
  /\ pc \in [Connections -> Labels]
  /\ decision \in [Connections -> Decisions \cup {None}]
  /\ packet \in [Connections -> Packets \cup {None}]
  /\ answer \in [Connections -> Decisions \cup {None}]
  /\ subs \in [Connections -> SUBSET UsedTopics]
  /\ owed \in [Connections -> Nat]
  /\ given \in [Connections -> SUBSET Actions]
  /\ relayed \in [Connections -> Relays \cup {None}]
  /\ \A c \in Connections :
       /\ packet[c] # None <=> pc[c] \in {"asked", "answered"}
       /\ answer[c] # None <=> pc[c] = "answered"
       /\ pc[c] \in {"dial", "challenge", "loop"} => decision[c] # None

(* What reaches the broker was authorised: each PUBLISH relayed is in the  *)
(* scope of a decision that had not expired, or that was obtained for this *)
(* very packet.                                                            *)
PublishAuthorised ==
  \A c \in Connections : relayed[c] # None =>
    LET r == relayed[c]
    IN /\ Authorise(r.dec, r.topic)
       /\ r.fresh \/ r.at <= r.dec.created_at + Ttl[r.dec.action]

(* "so the broker never establishes a subscription policy has refused":    *)
(* every filter the broker holds was within the scope of some decision the *)
(* session was given.                                                      *)
SubscriptionsWereGranted ==
  \A c \in Connections : \A t \in subs[c] :
    \E a \in given[c] : Authorise([action |-> a, created_at |-> 0], t)

(* "the answer is admitted on ctl/<id>/response and never relayed          *)
(* upstream", although the step-up scope permits that topic.               *)
AnswerNeverRelayed ==
  \A c \in Connections : relayed[c] # None => relayed[c].topic # "response"

(* "A denied QoS 1 PUBLISH is still acknowledged so the client does not    *)
(* retry indefinitely": a QoS 1 PUBLISH that waits for a decision is       *)
(* relayed or acknowledged in the end, or the session is closed.           *)
PublishSettles ==
  \A c \in Connections : unanswered[c] ~> ~unanswered[c]

-----------------------------------------------------------------------------
(* What the documentation says and the code does not keep; the README      *)
(* tells the behaviours that show it.                                      *)

(* "the PEP answers instead": a SUBSCRIBE is acknowledged once. *)
SubackOnce == \A c \in Connections : acked[c] <= asked[c]

(* STEP_UP_AUTHENTICATION: "a challenge is published on                    *)
(* ctl/<id>/challenge": a session that is held has been challenged.        *)
HeldSessionChallenged ==
  \A c \in Connections : pc[c] = "loop" /\ Held(decision[c]) => challenged[c]

(* QUARANTINE: "only q/<device_id>/# is reachable": what a quarantined     *)
(* session is sent is of that namespace.                                   *)
QuarantineConfines ==
  \A c \in Connections :
    delivered[c] # None /\ delivered[c].dec.action = "QUARANTINE" => delivered[c].topic = "q"

(* C10, "the service-layer session identity still matches the device": a   *)
(* session that contradicts its device reaches no production topic.        *)
MismatchStaysOut ==
  \A c \in Connections : mismatch[c] /\ relayed[c] # None =>
                            relayed[c].topic \notin Production
=============================================================================
