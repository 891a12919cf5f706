---------------------------- MODULE EventSource -----------------------------
(***************************************************************************)
(* The event sources of the live collectors: Open5gsEventSource            *)
(* (collectors/nr_open5gs.py), HwsimEventSource (collectors/wlan_hwsim.py) *)
(* and HostapdEventSource (collectors/wlan_hostapd.py).  Each tails a JSON *)
(* Lines file that a capture script of the testbed appends to, and that a  *)
(* restart of the testbed empties.                                         *)
(*                                                                         *)
(* A source remembers how many EVENTS it has seen, not how many lines, and *)
(* parses the whole file on every call.  A line is reduced to what parsing *)
(* makes of it.                                                            *)
(***************************************************************************)
EXTENDS Integers, Sequences, FiniteSets

CONSTANTS
  MaxLines,         \* bound on the lines ever written
  MaxTruncations    \* bound on the restarts of the testbed

ASSUME SourceAssumption == MaxLines \in Nat /\ MaxTruncations \in Nat

Sources == {"open5gs", "hwsim", "hostapd"}

(* A JSON record of the source's own provenance; one of another; a log or  *)
(* control line that is recognised; a blank or irrelevant line.            *)
Kinds == {"record", "foreign", "control", "noise"}

VARIABLES
  source,        \* which of the three sources this is
  file,          \* the lines of the file
  written,       \* the number of lines ever written
  truncations,   \* how often the file was emptied
  offset,        \* _offset
  delivered,     \* history: the lines whose events were returned, in order
  readAt,        \* history: the value of written at the last call that returned
  emptied,       \* history: whether the file was emptied since that call
  atRisk         \* history: the lines written while emptied

capture == <<file, written, truncations>>
sourceHistory == <<delivered, readAt, emptied, atRisk>>
sourceVars == <<source, capture, offset, sourceHistory>>

SourceInit == /\ source \in Sources
              /\ file = << >> /\ written = 0 /\ truncations = 0
              /\ offset = 0
              /\ delivered = << >> /\ readAt = 0 /\ emptied = FALSE /\ atRisk = {}

-----------------------------------------------------------------------------
(* The capture script *)

Emit(kind) ==
  /\ written < MaxLines
  /\ written' = written + 1
  /\ file' = Append(file, [id |-> written, kind |-> kind])
  /\ atRisk' = IF emptied THEN atRisk \cup {written} ELSE atRisk
  /\ UNCHANGED <<source, truncations, offset, delivered, readAt, emptied>>

(* A missing file and an empty one read alike. *)
Truncate ==
  /\ truncations < MaxTruncations
  /\ truncations' = truncations + 1
  /\ file' = << >>
  /\ emptied' = TRUE
  /\ UNCHANGED <<source, written, offset, delivered, readAt, atRisk>>

-----------------------------------------------------------------------------
(* parse_event_record refuses a record of another provenance; the Tier-1   *)
(* source takes it for a control line, which it is not, and the others let *)
(* the error through, so the call raises.                                  *)
Refuses(line) == line.kind = "foreign" /\ source # "hostapd"

(* parse_log_line, parse_control_line: None for an irrelevant line. *)
IsEvent(line) == line.kind \in {"record", "control"}

(* read_all: for each line, what is an event is appended to the list. *)
EventsOf(lines) ==
  LET events[n \in 0..Len(lines)] ==
        IF n = 0 THEN << >>
        ELSE IF IsEvent(lines[n]) THEN Append(events[n - 1], lines[n]) ELSE events[n - 1]
  IN events[Len(lines)]

Events == EventsOf(file)

Raises == \E i \in DOMAIN file : Refuses(file[i])

(* Mutant: the offset is the number of events this call returned. *)
OffsetOfFresh(events) == Len(SubSeq(events, offset + 1, Len(events)))

(* Mutant: the offset counts lines. *)
OffsetInLines(events) == Len(file)

NextOffset(events) == Len(events)

ReadNew ==
  /\ ~Raises
  /\ delivered' = delivered \o SubSeq(Events, offset + 1, Len(Events))
  /\ offset' = NextOffset(Events)
  /\ readAt' = written
  /\ emptied' = FALSE
  /\ UNCHANGED <<source, capture, atRisk>>

(* Nothing is returned and the offset stays, at every call from now on. *)
ReadRaises == /\ Raises
              /\ UNCHANGED sourceVars

-----------------------------------------------------------------------------
SourceNext == \/ \E kind \in Kinds : Emit(kind)
              \/ Truncate
              \/ ReadNew
              \/ ReadRaises

SourceSpec == SourceInit /\ [][SourceNext]_sourceVars

-----------------------------------------------------------------------------
Lines == [id : Nat, kind : Kinds]

(* The file and the offset are what they are declared to be. *)
SourceTypeOK ==
  /\ source \in Sources
  /\ file \in Seq(Lines) /\ written \in Nat /\ truncations \in Nat
  /\ offset \in Nat
  /\ delivered \in Seq(Lines) /\ readAt \in Nat /\ emptied \in BOOLEAN /\ atRisk \subseteq Nat

(* "Read only events appended since the last call": no event is returned   *)
(* twice or after a later one, also when the file was emptied and written  *)
(* again between two calls.                                                *)
ReadOnceInOrder ==
  \A i, j \in DOMAIN delivered : i < j => delivered[i].id < delivered[j].id

(* A call returns everything there is to return, whatever irrelevant lines *)
(* stand between.  Only events written to an emptied file before the next  *)
(* call may be missed, for the offset still counts the events of the old   *)
(* file.                                                                   *)
NothingSkipped ==
  \A i \in DOMAIN file : IsEvent(file[i]) /\ file[i].id < readAt /\ file[i].id \notin atRisk =>
    \E j \in DOMAIN delivered : delivered[j] = file[i]
=============================================================================
