---------------------------- MODULE DeviceAgent -----------------------------
(***************************************************************************)
(* The MQTT client of device/agent.py on the framing of                    *)
(* enforcement/mqtt_stream.py, and the enforcement point at the other end  *)
(* of its connection.                                                      *)
(*                                                                         *)
(* The agent runs one operation at a time.  An operation writes a request, *)
(* then reads whole packets until it has what it waits for, its deadline   *)
(* passes, or the stream ends; what it does not wait for it dispatches.    *)
(* A deadline cancels the read wherever it is: a header already taken from *)
(* the stream is lost, and from then on the framing is torn.               *)
(*                                                                         *)
(* The code compares no packet identifier of what it reads, so packets     *)
(* have none here.  Publishing, the event log and the byte counts change   *)
(* nothing that is read again and are left out.                            *)
(***************************************************************************)
EXTENDS Integers, Sequences, Functions, FiniteSets, Vocabulary

CONSTANTS
  FilterLists, \* the lists of topic filters the agent subscribes to
  MaxInbox,    \* bound on the packets under way to the agent
  MaxRequests, \* bound on the packets under way from it, when one more is added
  MaxDue       \* bound on the answers the broker owes

Filters == UNION {Range(filters) : filters \in FilterLists}

ASSUME AgentAssumption ==
  /\ FilterLists \subseteq Seq(Filters)
  /\ MaxInbox \in Nat /\ MaxRequests \in Nat /\ MaxDue \in Nat

SUBACK_FAILURE == 128
ACCEPTED == 0
NOT_AUTHORIZED == 5

(* What the agent distinguishes of a packet. *)
Connack(code) == [kind |-> "CONNACK", codes |-> <<code>>]
Suback(codes) == [kind |-> "SUBACK", codes |-> codes]
Plain(kind) == [kind |-> kind, codes |-> <<>>]

(* What the bytes of a torn stream may be taken for. *)
Unreadable == {Plain("error"), Plain("PINGRESP"), Suback(<<ACCEPTED>>)}

Idle == [kind |-> "idle", filters |-> <<>>, late |-> FALSE]
Doing(kind, filters) == [kind |-> kind, filters |-> filters, late |-> FALSE]

VARIABLES
  up,          \* _writer and _reader are set
  connack,     \* connack_code, of this connection or of an earlier one
  op,          \* the operation being awaited, and whether its deadline has passed
  inbox,       \* packets under way to the agent
  half,        \* the header of the first one has been taken by the current read
  torn,        \* a header was taken by a read that was cancelled
  requests,    \* packets under way to the enforcement point
  due,         \* answers of the broker that the pump has not relayed
  gone,        \* the enforcement point has closed
  accepted,    \* history: this connection was accepted
  granted,     \* history: filters granted on this connection
  reported,    \* history: filters the agent was told are granted on it
  slipped      \* history: a SUBACK of this connection outlived its subscribe

agent == <<up, connack, op>>
wire == <<inbox, half, torn>>
gateway == <<requests, due, gone>>
history == <<accepted, granted, reported, slipped>>
agentVars == <<agent, wire, gateway, history>>

AgentInit ==
  /\ up = FALSE /\ connack = None /\ op = Idle
  /\ inbox = <<>> /\ half = FALSE /\ torn = FALSE
  /\ requests = <<>> /\ due = <<>> /\ gone = TRUE
  /\ accepted = FALSE
  /\ granted = {} /\ reported = {} /\ slipped = FALSE

-----------------------------------------------------------------------------
(* The operations, up to their first read *)

(* A packet written to an enforcement point that has closed is lost. *)
Write(request) == requests' = IF gone THEN requests ELSE Append(requests, request)

(* Mutant: the new connection goes on with the reader of the old one. *)
NewReaderKept == UNCHANGED wire

(* PacketReader(raw_reader): nothing read yet. *)
NewReader == inbox' = <<>> /\ half' = FALSE /\ torn' = FALSE

NewHistory == /\ accepted' = FALSE
              /\ granted' = {} /\ reported' = {} /\ slipped' = FALSE

(* connect: the old connection is dropped, the old return code is not.     *)
(* When the enforcement point cannot be reached nothing changes at all.    *)
Connect ==
  /\ op = Idle
  /\ up' = TRUE
  /\ op' = Doing("connect", <<>>)
  /\ NewReader
  /\ requests' = <<Plain("CONNECT")>> /\ due' = <<>> /\ gone' = FALSE
  /\ NewHistory
  /\ UNCHANGED connack

Subscribe(filters) ==
  /\ op = Idle /\ up
  /\ Len(requests) < MaxRequests
  /\ op' = Doing("subscribe", filters)
  /\ Write([kind |-> "SUBSCRIBE", codes |-> filters])
  /\ UNCHANGED <<up, connack, wire, due, gone, history>>

Ping ==
  /\ op = Idle /\ up
  /\ Len(requests) < MaxRequests
  /\ op' = Doing("ping", <<>>)
  /\ Write(Plain("PINGREQ"))
  /\ UNCHANGED <<up, connack, wire, due, gone, history>>

Pump ==
  /\ op = Idle /\ up
  /\ op' = Doing("pump", <<>>)
  /\ UNCHANGED <<up, connack, wire, gateway, history>>

Disconnect ==
  /\ op = Idle /\ up
  /\ up' = FALSE
  /\ NewReader
  /\ requests' = <<>> /\ due' = <<>> /\ gone' = TRUE
  /\ NewHistory
  /\ UNCHANGED <<connack, op>>

-----------------------------------------------------------------------------
(* read_packet *)

Reading == op # Idle

(* The header of a packet has come, its body has not. *)
HeaderRead ==
  /\ Reading /\ ~torn /\ ~half
  /\ inbox # <<>>
  /\ half' = TRUE
  /\ UNCHANGED <<agent, inbox, torn, gateway, history>>

Finish == op' = Idle

(* A subscribe that ends without a SUBACK leaves the SUBACK to come. *)
Abandon ==
  /\ Finish
  /\ slipped' = (slipped \/ op.kind = "subscribe")

(* Mutant: each packet gives the operation its full time again. *)
GoOnAfresh == op' = [op EXCEPT !.late = FALSE] /\ UNCHANGED slipped

(* while time.monotonic() < deadline *)
GoOn ==
  \/ ~op.late /\ UNCHANGED <<op, slipped>>
  \/ op.late /\ Abandon

(* _dispatch: a challenge is answered, all else changes nothing kept here. *)
Dispatch(p) ==
  IF p.kind = "challenge" THEN Write(Plain("response")) ELSE UNCHANGED requests

(* dict(zip(topics, codes, strict=False)) *)
ReportedBy(filters, codes) ==
  {filters[i] : i \in {j \in DOMAIN filters \cap DOMAIN codes : codes[j] # SUBACK_FAILURE}}

OnConnect(p) ==
  /\ IF p.kind = "CONNACK"
     THEN connack' = p.codes[1] /\ Finish /\ UNCHANGED slipped
     ELSE UNCHANGED connack /\ Abandon
  /\ UNCHANGED <<requests, reported>>

(* Any SUBACK will do. *)
OnSubscribe(p) ==
  /\ IF p.kind = "SUBACK"
     THEN /\ reported' = reported \cup ReportedBy(op.filters, p.codes)
          /\ Finish
          /\ UNCHANGED <<requests, slipped>>
     ELSE /\ UNCHANGED reported
          /\ Dispatch(p)
          /\ GoOn
  /\ UNCHANGED connack

(* One packet is read, whatever it is. *)
OnPing(p) ==
  /\ IF p.kind = "PINGRESP" THEN UNCHANGED requests ELSE Dispatch(p)
  /\ Finish
  /\ UNCHANGED <<connack, reported, slipped>>

OnPump(p) ==
  /\ Dispatch(p)
  /\ GoOn
  /\ UNCHANGED <<connack, reported>>

OnPacket(p) ==
  \/ op.kind = "connect" /\ OnConnect(p)
  \/ op.kind = "subscribe" /\ OnSubscribe(p)
  \/ op.kind = "ping" /\ OnPing(p)
  \/ op.kind = "pump" /\ OnPump(p)

PacketRead ==
  /\ Reading /\ ~torn
  /\ inbox # <<>>
  /\ OnPacket(Head(inbox))
  /\ inbox' = Tail(inbox) /\ half' = FALSE
  /\ UNCHANGED <<up, torn, due, gone, accepted, granted>>

(* Out of step with the packets, a read returns anything or raises. *)
TornRead ==
  /\ Reading /\ torn
  /\ inbox # <<>>
  /\ \E p \in Unreadable :
       IF p.kind = "error"
       THEN Abandon /\ UNCHANGED <<connack, requests, reported>>
       ELSE OnPacket(p)
  /\ inbox' = Tail(inbox)
  /\ UNCHANGED <<up, half, torn, due, gone, accepted, granted>>

(* None at the end of the stream, or an error inside a packet. *)
StreamEnds ==
  /\ Reading /\ gone
  /\ inbox = <<>>
  /\ Abandon
  /\ UNCHANGED <<up, connack, wire, gateway, accepted, granted, reported>>

DeadlinePasses ==
  /\ Reading /\ ~op.late
  /\ op' = [op EXCEPT !.late = TRUE]
  /\ UNCHANGED <<up, connack, wire, gateway, history>>

(* wait_for cancels the read. *)
TimesOut ==
  /\ Reading /\ op.late
  /\ Abandon
  /\ torn' = (torn \/ half) /\ half' = FALSE
  /\ UNCHANGED <<up, connack, inbox, gateway, accepted, granted, reported>>

-----------------------------------------------------------------------------
(* The enforcement point and the broker behind it *)

Codes(filters, ok) ==
  [i \in DOMAIN filters |-> IF filters[i] \in ok THEN ACCEPTED ELSE SUBACK_FAILURE]

Accepting(n) == [i \in 1..n |-> ACCEPTED]

Send(p) == inbox' = Append(inbox, p)
Owe(p) == due' = Append(due, p)

AnswerConnect ==
  /\ Head(requests).kind = "CONNECT"
  /\ \/ Send(Connack(ACCEPTED)) /\ accepted' = TRUE /\ gone' = FALSE
     \/ Send(Connack(NOT_AUTHORIZED)) /\ accepted' = FALSE /\ gone' = TRUE
  /\ UNCHANGED <<due, granted, slipped>>

(* The filters that are permitted go to the broker, which answers for      *)
(* them; when some are refused the enforcement point answers as well.      *)
AnswerSubscribe ==
  LET filters == Head(requests).codes
  IN /\ Head(requests).kind = "SUBSCRIBE"
     /\ Len(due) < MaxDue
     /\ \E ok \in SUBSET Range(filters) :
          /\ granted' = granted \cup ok
          /\ IF ok = {} THEN UNCHANGED due
             ELSE Owe(Suback(Accepting(Cardinality({i \in DOMAIN filters : filters[i] \in ok}))))
          /\ IF ok = Range(filters) THEN UNCHANGED inbox ELSE Send(Suback(Codes(filters, ok)))
          /\ slipped' = (slipped \/ ok \notin {{}, Range(filters)})
     /\ UNCHANGED <<accepted, gone>>

AnswerPing ==
  /\ Head(requests).kind = "PINGREQ"
  /\ Len(due) < MaxDue
  /\ Owe(Plain("PINGRESP"))
  /\ UNCHANGED <<inbox, gone, accepted, granted, slipped>>

(* A step-up answer ends the session or leaves it. *)
AnswerResponse ==
  /\ Head(requests).kind = "response"
  /\ gone' \in BOOLEAN
  /\ UNCHANGED <<inbox, due, accepted, granted, slipped>>

GatewayHandles ==
  /\ ~gone /\ requests # <<>>
  /\ Len(inbox) < MaxInbox
  /\ AnswerConnect \/ AnswerSubscribe \/ AnswerPing \/ AnswerResponse
  /\ requests' = Tail(requests)
  /\ UNCHANGED <<agent, half, torn, reported>>

(* _pump_broker_to_client *)
PumpRelays ==
  /\ ~gone /\ due # <<>>
  /\ Len(inbox) < MaxInbox
  /\ Send(Head(due))
  /\ due' = Tail(due)
  /\ UNCHANGED <<agent, half, torn, requests, gone, history>>

(* A decision or a message of a subscription would change nothing. *)
GatewayChallenges ==
  /\ ~gone /\ accepted
  /\ Len(inbox) < MaxInbox /\ Len(requests) < MaxRequests
  /\ Send(Plain("challenge"))
  /\ UNCHANGED <<agent, half, torn, gateway, history>>

GatewayCloses ==
  /\ ~gone
  /\ gone' = TRUE
  /\ UNCHANGED <<agent, wire, requests, due, history>>

-----------------------------------------------------------------------------
AgentNext ==
  \/ Connect \/ Ping \/ Pump \/ Disconnect
  \/ \E filters \in FilterLists : Subscribe(filters)
  \/ HeaderRead \/ PacketRead \/ TornRead \/ StreamEnds
  \/ DeadlinePasses \/ TimesOut
  \/ GatewayHandles \/ PumpRelays \/ GatewayChallenges \/ GatewayCloses

AgentSpec == AgentInit /\ [][AgentNext]_agentVars

(* Time passes, and the event loop runs a timer that is due. *)
AgentFairness == WF_agentVars(DeadlinePasses) /\ WF_agentVars(TimesOut)

AgentFairSpec == AgentSpec /\ AgentFairness

-----------------------------------------------------------------------------
Operations == [kind : {"idle", "connect", "subscribe", "ping", "pump"},
               filters : FilterLists \cup {<<>>}, late : BOOLEAN]
Requests == [kind : {"SUBSCRIBE"}, codes : FilterLists]
              \cup {Plain("CONNECT"), Plain("PINGREQ"), Plain("response")}
Replies == [kind : {"SUBACK"}, codes : Seq({ACCEPTED, SUBACK_FAILURE})]
             \cup {Connack(ACCEPTED), Connack(NOT_AUTHORIZED), Plain("PINGRESP"), Plain("challenge")}

(* The agent holds and reads what it is declared to, and a header taken    *)
(* from the stream belongs to a read that is under way.                    *)
AgentTypeOK ==
  /\ up \in BOOLEAN
  /\ connack \in {None, ACCEPTED, NOT_AUTHORIZED}
  /\ op \in Operations
  /\ op.kind = "subscribe" => op.filters \in FilterLists
  /\ inbox \in Seq(Replies) /\ half \in BOOLEAN /\ torn \in BOOLEAN
  /\ requests \in Seq(Requests) /\ due \in Seq(Replies) /\ gone \in BOOLEAN
  /\ accepted \in BOOLEAN
  /\ granted \subseteq Filters /\ reported \subseteq Filters /\ slipped \in BOOLEAN
  /\ half => Reading /\ inbox # <<>> /\ ~torn

(* "Subscribe and return each filter's SUBACK return code": subscribe takes *)
(* the next SUBACK whichever request it answers, so a filter that is       *)
(* reported as granted may have been refused.  That takes a SUBACK that    *)
(* outlived its subscribe on this very connection (a subscribe that gave   *)
(* up, or a partial grant, which is acknowledged twice) or a torn framing; *)
(* a new connection always starts clean.                                   *)
MisreportExplained == up => (reported \subseteq granted \/ slipped \/ torn)

(* Every operation that reads has a deadline: it ends however much the     *)
(* enforcement point sends, and however little.                            *)
OperationsEnd == Reading ~> ~Reading

-----------------------------------------------------------------------------
(* What the documentation says and the code does not keep. *)

(* "0x80 means the enforcement point refused that filter": a filter that   *)
(* is reported as granted was granted.                                     *)
ReportedWasGranted == reported \subseteq granted
=============================================================================
