--------------------------- MODULE CampaignProofs ---------------------------
(***************************************************************************)
(* Proofs about Campaign for any strategies, seeds, retries and any number *)
(* of runs and troubles: what the ledger says of the output, what the      *)
(* check for drift gives, and that the campaign implements                 *)
(* CampaignContract.  Then about Analysis, for any strategies, seeds,      *)
(* measurements and p-values: that pairs stay pairs, that a report says    *)
(* what was found, and that no order of the strategies ranks them.         *)
(***************************************************************************)
EXTENDS Campaign, Analysis, FiniteSetTheorems, SequenceTheorems, TLAPS

(* A condition that is being attempted, or is still to come, has no VALID  *)
(* row, and a condition never has two.                                     *)
OneResult ==
  /\ \A i, j \in Rows("VALID") : ledger[i].cond = ledger[j].cond => i = j
  /\ \A i \in Rows("VALID") : ledger[i].cond \notin session.pending
  /\ pc \in {"attempt", "write", "append"} =>
       /\ attempt.cond \in Conditions /\ attempt.cond \notin session.pending
       /\ \A i \in Rows("VALID") : ledger[i].cond # attempt.cond

(* No two rows name one output, and the output a VALID row names is good.  *)
OutputsNamedOnce ==
  /\ \A i \in DOMAIN ledger : ledger[i].run # None => ledger[i].run \in DOMAIN raw
  /\ \A i, j \in DOMAIN ledger :
       (ledger[i].run = ledger[j].run /\ ledger[i].run # None) => i = j
  /\ \A i \in Rows("VALID") :
       /\ ledger[i].run # None
       /\ Complete(ledger[i].run) /\ raw[ledger[i].run].ok
       /\ raw[ledger[i].run].cond = ledger[i].cond

Unnamed(run) == \A i \in DOMAIN ledger : ledger[i].run # run

(* The output of the attempt in hand is the last one, and no row names it. *)
AttemptOutput ==
  /\ Len(raw) <= MaxRuns
  /\ pc = "write" =>
       /\ attempt.run \in {Len(raw), Len(raw) + 1} /\ attempt.run \in 1..MaxRuns
       /\ attempt.ran \in Nat /\ attempt.status \in Statuses
       /\ attempt.run = Len(raw) =>
            /\ raw[attempt.run].cond = attempt.cond
            /\ raw[attempt.run].ok = (attempt.status = "VALID")
            /\ raw[attempt.run].files < Len(Files)
            /\ Unnamed(attempt.run)
  /\ pc = "append" =>
       /\ attempt.status \in Statuses
       /\ attempt.status = "VALID" => attempt.run # None
       /\ attempt.run # None =>
            /\ attempt.run = Len(raw) /\ attempt.run \in DOMAIN raw
            /\ raw[attempt.run].cond = attempt.cond
            /\ attempt.status = "VALID" => Complete(attempt.run) /\ raw[attempt.run].ok
            /\ Unnamed(attempt.run)

(* Since the run of row i, and before place n of the timeline, the         *)
(* configuration that the row states has been in force.                    *)
Returned(i, n) == \E k \in (ledger[i].ran + 1)..n : timeline[k] = ledger[i].config

DriftedHere == {i \in Rows("VALID") : ledger[i].session = past.sessions /\ Drifted(ledger[i])}

(* A session goes on after a drifted run only when the check has met the   *)
(* frozen configuration again, and what runs from then on runs later.      *)
DriftSeen ==
  /\ \A i \in Rows("VALID") :
       ledger[i].session <= past.sessions /\ ledger[i].ran \in DOMAIN timeline
  /\ pc # "down" =>
       \A i \in Rows("VALID") :
         ledger[i].session = past.sessions => ledger[i].config = session.frozen
  /\ (pc \in {"write", "append"} /\ attempt.run # None) =>
       /\ attempt.ran \in DOMAIN timeline
       /\ \A i \in DriftedHere : Returned(i, attempt.ran)
  /\ pc \in {"head", "attempt", "write", "append"} =>
       \A i \in DriftedHere : Returned(i, Len(timeline))
  /\ DriftBounded

CampaignIInv ==
  CampaignTypeOK /\ OneResult /\ OutputsNamedOnce /\ AttemptOutput /\ DriftSeen
-----------------------------------------------------------------------------
(* What appending does to a sequence. *)
LEMMA Appended ==
  ASSUME NEW S, NEW s \in Seq(S), NEW e \in S
  PROVE  /\ Append(s, e) \in Seq(S)
         /\ Len(Append(s, e)) = Len(s) + 1
         /\ DOMAIN Append(s, e) = 1..(Len(s) + 1)
         /\ \A i \in 1..Len(s) : Append(s, e)[i] = s[i]
         /\ Append(s, e)[Len(s) + 1] = e
  OBVIOUS

(* The types of what the actions make of the locals. *)
LEMMA StatesType ==
  /\ NoSession \in SessionStates /\ NoAttempt \in AttemptStates /\ NoPast \in Pasts
  BY DEF NoSession, NoAttempt, NoPast, SessionStates, AttemptStates, Pasts

LEMMA TroubleType == ASSUME past \in Pasts, Trouble PROVE past' \in Pasts
  BY DEF Pasts, Trouble

LEMMA SessionType ==
  ASSUME NEW s \in SessionStates
  PROVE  /\ [s EXCEPT !.interrupted = TRUE] \in SessionStates
         /\ \A c : [s EXCEPT !.pending = @ \ {c}] \in SessionStates
  BY DEF SessionStates

LEMMA AttemptType ==
  ASSUME NEW a \in AttemptStates
  PROVE  /\ \A c \in Conditions : [a EXCEPT !.cond = c] \in AttemptStates
         /\ [a EXCEPT !.count = @ + 1] \in AttemptStates
         /\ [a EXCEPT !.status = "INFRA"] \in AttemptStates
         /\ \A status \in Statuses, run, ran \in Nat \cup {None} :
              [a EXCEPT !.status = status, !.run = run, !.ran = ran] \in AttemptStates
  <1>1. \A c \in Conditions : [a EXCEPT !.cond = c] \in AttemptStates
    BY DEF AttemptStates
  <1>2. [a EXCEPT !.count = @ + 1] \in AttemptStates
    BY DEF AttemptStates
  <1>3. [a EXCEPT !.status = "INFRA"] \in AttemptStates
    BY DEF AttemptStates, Statuses
  <1>4. ASSUME NEW status \in Statuses, NEW run \in Nat \cup {None}, NEW ran \in Nat \cup {None}
        PROVE  [a EXCEPT !.status = status, !.run = run, !.ran = ran] \in AttemptStates
    BY DEF AttemptStates
  <1>5. QED
    BY <1>1, <1>2, <1>3, <1>4

LEMMA CountedType ==
  ASSUME NEW a \in AttemptStates, NEW status \in Statuses,
         NEW run \in Nat \cup {None}, NEW ran \in Nat \cup {None}
  PROVE  [a EXCEPT !.count = @ + 1, !.status = status, !.run = run, !.ran = ran] \in AttemptStates
  <1>1. [a EXCEPT !.count = @ + 1] \in AttemptStates
    BY AttemptType
  <1>2. QED
    BY <1>1, AttemptType

(* A row of the session in hand is a row of the ledger. *)
LEMMA RowType ==
  ASSUME CampaignTypeOK, NEW c \in Conditions, NEW status \in Statuses,
         NEW run \in Nat \cup {None}, NEW ran \in Nat \cup {None}
  PROVE  Row(c, status, run, ran) \in LedgerRows
  BY DEF CampaignTypeOK, Row, LedgerRows, SessionStates, Pasts

(* What the tree becomes is the last configuration of the timeline. *)
LEMMA TimelineType ==
  ASSUME timeline \in Seq(Configurations), TreeMoves, config' \in Contents, head' \in Nat
  PROVE  /\ timeline' \in Seq(Configurations) /\ timeline' # << >>
         /\ timeline'[Len(timeline')] = InForce'
  <1>1. InForce' \in Configurations
    BY DEF InForce, Configurations
  <1>2. QED
    BY <1>1, Appended DEF TreeMoves

LEMMA FileCount == Len(Files) = 3
  BY DEF Files

(* One more file of an output. *)
LEMMA OutputType ==
  ASSUME NEW o \in Outputs, o.files < Len(Files)
  PROVE  [o EXCEPT !.files = @ + 1] \in Outputs
  BY FileCount DEF Outputs

-----------------------------------------------------------------------------
(* The type invariant.  That a row states a condition and a status, and an *)
(* output the configuration it ran with, rests on what an attempt keeps.   *)
LEMMA TypeInit == CampaignInit => CampaignTypeOK
  <1> SUFFICES ASSUME CampaignInit PROVE CampaignTypeOK
    OBVIOUS
  <1>1. ledger \in Seq(LedgerRows) /\ raw \in Seq(Outputs)
    BY DEF CampaignInit
  <1>2. /\ commits \in Seq(Contents) /\ head \in DOMAIN commits /\ config \in Contents
        /\ timeline \in Seq(Configurations) /\ timeline # << >> /\ timeline[Len(timeline)] = InForce
    BY DEF CampaignInit, InForce, Configurations
  <1>3. QED
    BY <1>1, <1>2, StatesType DEF CampaignInit, CampaignTypeOK

LEMMA TypeNext ==
  CampaignTypeOK /\ OneResult /\ AttemptOutput /\ [CampaignNext]_campaignVars => CampaignTypeOK'
  <1> SUFFICES ASSUME CampaignTypeOK, OneResult, AttemptOutput, [CampaignNext]_campaignVars
               PROVE  CampaignTypeOK'
    OBVIOUS
  <1> USE DEF CampaignTypeOK, disk, tree, process, InForce
  <1>1. CASE Start
    <2>1. session' \in SessionStates
      <3>1. InForce \in Configurations
        BY DEF Configurations
      <3>2. \A c \in Configurations :
              [frozen |-> c, pending |-> Conditions \ Completed, interrupted |-> FALSE]
                \in SessionStates
        BY DEF SessionStates
      <3> HIDE DEF InForce
      <3>3. QED
        BY <1>1, <3>1, <3>2 DEF Start
    <2>2. past' \in Pasts
      <3>1. past \in Pasts /\ past' = [past EXCEPT !.sessions = @ + 1]
        BY <1>1 DEF Start
      <3> HIDE DEF CampaignTypeOK
      <3>2. QED
        BY <3>1 DEF Pasts
    <2>3. QED
      BY <1>1, <2>1, <2>2 DEF Start
  <1>2. ASSUME NEW c \in Conditions, Abort(c) PROVE CampaignTypeOK'
    <2>1. Row(c, "ABORTED", None, None) \in LedgerRows
      BY RowType DEF Statuses
    <2>2. ledger' \in Seq(LedgerRows)
      BY <1>2, <2>1 DEF Abort
    <2>3. session' \in SessionStates
      BY <1>2, SessionType DEF Abort, Reaches
    <2>4. QED
      BY <1>2, <2>2, <2>3 DEF Abort, Reaches
  <1>3. ASSUME NEW c \in Conditions, Take(c) PROVE CampaignTypeOK'
    <2>1. session' \in SessionStates /\ attempt' \in AttemptStates
      BY <1>3, SessionType, AttemptType, StatesType DEF Take, Reaches
    <2>2. QED
      BY <1>3, <2>1 DEF Take
  <1>4. CASE AllTaken
    BY <1>4 DEF AllTaken
  <1>5. ASSUME NEW status \in {"INFRA", "DEFECT"}, ExecuteRaises(status) PROVE CampaignTypeOK'
    <2>1. status \in Statuses
      BY DEF Statuses
    <2>2. attempt' \in AttemptStates
      BY <1>5, <2>1, CountedType DEF ExecuteRaises
    <2>3. QED
      BY <1>5, <2>2, TroubleType DEF ExecuteRaises
  <1>6. ASSUME NEW status \in {"VALID", "INFRA", "DEFECT"}, ExecuteRuns(status)
        PROVE  CampaignTypeOK'
    <2>1. status \in Statuses
      BY DEF Statuses
    <2>2. Len(raw) + 1 \in Nat /\ Len(timeline) \in Nat
      OBVIOUS
    <2>3. attempt' \in AttemptStates
      BY <1>6, <2>1, <2>2, CountedType DEF ExecuteRuns
    <2>4. past' \in Pasts
      BY <1>6, TroubleType DEF ExecuteRuns
    <2>5. QED
      BY <1>6, <2>3, <2>4 DEF ExecuteRuns
  <1>7. CASE WriteFile
    <2> DEFINE entry == [cond |-> attempt.cond, ran |-> attempt.ran,
                         ok |-> attempt.status = "VALID", files |-> 1]
    <2>1. entry \in Outputs
      BY <1>7, FileCount DEF WriteFile, Outputs, OneResult, AttemptOutput
    <2>2. CASE attempt.run > Len(raw)
      <3>1. raw' = Append(raw, entry)
        BY <1>7, <2>2 DEF WriteFile
      <3>2. raw' \in Seq(Outputs)
        BY <2>1, <3>1
      <3>3. QED
        BY <1>7, <3>2 DEF WriteFile
    <2>3. CASE attempt.run = Len(raw) /\ attempt.run \in DOMAIN raw
      <3>1. raw' = [raw EXCEPT ![attempt.run] = [raw[attempt.run] EXCEPT !.files = @ + 1]]
        BY <1>7, <2>3 DEF WriteFile
      <3>2. [raw[attempt.run] EXCEPT !.files = @ + 1] \in Outputs
        <4>1. raw[attempt.run] \in Outputs /\ raw[attempt.run].files < Len(Files)
          BY <1>7, <2>3 DEF WriteFile, AttemptOutput
        <4>2. QED
          BY <4>1, OutputType
      <3>3. raw' \in Seq(Outputs)
        BY <2>3, <3>1, <3>2
      <3>4. QED
        BY <1>7, <3>3 DEF WriteFile
    <2>4. QED
      BY <1>7, <2>2, <2>3 DEF WriteFile, AttemptOutput
  <1>8. CASE AppendRow
    <2>1. Row(attempt.cond, attempt.status, attempt.run, attempt.ran) \in LedgerRows
      BY <1>8, RowType DEF AppendRow, OneResult, AttemptOutput, AttemptStates
    <2>2. ledger' \in Seq(LedgerRows)
      BY <1>8, <2>1 DEF AppendRow
    <2>3. QED
      BY <1>8, <2>2 DEF AppendRow, AfterRow
  <1>9. CASE DriftCheck
    BY <1>9 DEF DriftCheck
  <1>10. CASE Finish
    BY <1>10, StatesType DEF Finish
  <1>11. CASE Deadline
    BY <1>11, TroubleType DEF Deadline
  <1>12. CASE WriteRaises
    <2>1. attempt' \in AttemptStates
      BY <1>12, AttemptType DEF WriteRaises, Statuses
    <2>2. QED
      BY <1>12, <2>1, TroubleType DEF WriteRaises
  <1>13. CASE OverBudget
    <2>1. attempt' \in AttemptStates
      BY <1>13, AttemptType DEF OverBudget
    <2>2. QED
      BY <1>13, <2>1, TroubleType DEF OverBudget
  <1>14. CASE Signal
    <2>1. session' \in SessionStates
      BY <1>14, SessionType DEF Signal
    <2>2. QED
      BY <1>14, <2>1, TroubleType DEF Signal
  <1>15. CASE Crash
    BY <1>15, TroubleType, StatesType DEF Crash
  <1>16. ASSUME NEW content \in Contents, Edit(content) PROVE CampaignTypeOK'
    <2>1. config' \in Contents /\ UNCHANGED <<commits, head>> /\ head \in Nat
      BY <1>16 DEF Edit
    <2>2. QED
      BY <1>16, <2>1, TroubleType, TimelineType DEF Edit, TreeMoves
  <1>17. CASE Commit
    <2>1. /\ config' \in Contents /\ commits' \in Seq(Contents) /\ head' \in DOMAIN commits'
          /\ head' \in Nat
      BY <1>17, Appended DEF Commit
    <2>2. QED
      BY <1>17, <2>1, TimelineType DEF Commit, TreeMoves
  <1>20. ASSUME NEW sha \in DOMAIN commits, Checkout(sha) PROVE CampaignTypeOK'
    <2>1. /\ config' \in Contents /\ UNCHANGED commits /\ head' \in DOMAIN commits
          /\ head' \in Nat
      BY <1>20 DEF Checkout
    <2>2. QED
      BY <1>20, <2>1, TroubleType, TimelineType DEF Checkout, TreeMoves
  <1>18. CASE UNCHANGED campaignVars
    BY <1>18 DEF campaignVars
  <1>19. QED
    BY <1>1, <1>2, <1>3, <1>4, <1>5, <1>6, <1>7, <1>8, <1>9, <1>10, <1>11, <1>12, <1>13,
       <1>14, <1>15, <1>16, <1>17, <1>18, <1>20 DEF CampaignNext, Work, Execute

-----------------------------------------------------------------------------
(* What a row that is appended changes. *)
LEMMA RowAppended ==
  ASSUME CampaignTypeOK, NEW row \in LedgerRows, ledger' = Append(ledger, row)
  PROVE  LET last == Len(ledger) + 1
         IN /\ DOMAIN ledger' = DOMAIN ledger \cup {last}
            /\ last \notin DOMAIN ledger
            /\ \A i \in DOMAIN ledger : ledger'[i] = ledger[i]
            /\ ledger'[last] = row
            /\ row.status = "VALID" => Rows("VALID")' = Rows("VALID") \cup {last}
            /\ row.status # "VALID" => Rows("VALID")' = Rows("VALID")
  <1> DEFINE last == Len(ledger) + 1
  <1>1. ledger \in Seq(LedgerRows)
    BY DEF CampaignTypeOK
  <1>2. /\ DOMAIN ledger' = DOMAIN ledger \cup {last} /\ last \notin DOMAIN ledger
        /\ \A i \in DOMAIN ledger : ledger'[i] = ledger[i]
        /\ ledger'[last] = row
    BY <1>1, Appended
  <1> HIDE DEF last
  <1>3. QED
    BY <1>2 DEF Rows, last

(* Only a VALID row of the condition in hand, or a new session, can touch  *)
(* OneResult.                                                              *)
LEMMA OneResultFrame ==
  ASSUME OneResult, UNCHANGED ledger,
         session'.pending \subseteq session.pending,
         pc' \in {"attempt", "write", "append"} =>
           pc \in {"attempt", "write", "append"} /\ attempt'.cond = attempt.cond
  PROVE  OneResult'
  BY DEF OneResult, Rows, Conditions, Condition

(* A condition has one VALID row at most: it leaves the pending conditions *)
(* when it is taken, it is retried only as long as it has none, and a new  *)
(* session takes up only what the ledger does not show.                    *)
LEMMA OneResultNext ==
  CampaignTypeOK /\ OneResult /\ AttemptOutput /\ [CampaignNext]_campaignVars => OneResult'
  <1> SUFFICES ASSUME CampaignTypeOK, OneResult, AttemptOutput, [CampaignNext]_campaignVars
               PROVE  OneResult'
    OBVIOUS
  <1> USE DEF disk, tree, process
  <1>0. session \in SessionStates /\ attempt \in AttemptStates
    BY DEF CampaignTypeOK
  <1>1. CASE Start
    <2>1. session'.pending = Conditions \ Completed /\ pc' = "head" /\ UNCHANGED ledger
      BY <1>1 DEF Start
    <2>2. QED
      BY <2>1 DEF OneResult, Rows, Completed, Conditions, Condition
  <1>2. ASSUME NEW c \in Conditions, Abort(c) PROVE OneResult'
    <2>1. Row(c, "ABORTED", None, None) \in LedgerRows
      BY RowType DEF Statuses
    <2>2. Rows("VALID")' = Rows("VALID") /\ \A i \in DOMAIN ledger : ledger'[i] = ledger[i]
      BY <1>2, <2>1, RowAppended DEF Abort, Row
    <2>3. pc' = "head" /\ session'.pending \subseteq session.pending
      BY <1>0, <1>2 DEF Abort, Reaches, SessionStates
    <2>4. \A i \in Rows("VALID") : i \in DOMAIN ledger
      BY DEF Rows
    <2>5. QED
      BY <2>2, <2>3, <2>4 DEF OneResult
  <1>3. ASSUME NEW c \in Conditions, Take(c) PROVE OneResult'
    <2>1. session'.pending = session.pending \ {c} /\ c \in session.pending
      BY <1>0, <1>3 DEF Take, Reaches, SessionStates
    <2>2. attempt'.cond = c /\ UNCHANGED ledger
      BY <1>3 DEF Take, NoAttempt
    <2>3. QED
      BY <2>1, <2>2 DEF OneResult, Rows, Conditions, Condition
  <1>4. CASE AllTaken
    BY <1>4, OneResultFrame DEF AllTaken
  <1>5. ASSUME NEW status \in {"INFRA", "DEFECT"}, ExecuteRaises(status) PROVE OneResult'
    <2>1. attempt'.cond = attempt.cond
      BY <1>0, <1>5 DEF ExecuteRaises, AttemptStates
    <2>2. QED
      BY <1>5, <2>1, OneResultFrame DEF ExecuteRaises
  <1>6. ASSUME NEW status \in {"VALID", "INFRA", "DEFECT"}, ExecuteRuns(status)
        PROVE  OneResult'
    <2>1. attempt'.cond = attempt.cond
      BY <1>0, <1>6 DEF ExecuteRuns, AttemptStates
    <2>2. QED
      BY <1>6, <2>1, OneResultFrame DEF ExecuteRuns
  <1>7. CASE WriteFile
    BY <1>7, OneResultFrame DEF WriteFile
  <1>8. CASE AppendRow
    <2> DEFINE row == Row(attempt.cond, attempt.status, attempt.run, attempt.ran)
    <2>1. row \in LedgerRows /\ row.cond = attempt.cond /\ row.status = attempt.status
      BY <1>0, <1>8, RowType DEF AppendRow, OneResult, AttemptOutput, AttemptStates, Row
    <2>2. ledger' = Append(ledger, row) /\ UNCHANGED <<session, attempt>>
          /\ pc' = AfterRow(attempt.status)
      BY <1>8 DEF AppendRow
    <2>3. /\ attempt.cond \in Conditions /\ attempt.cond \notin session.pending
          /\ \A i \in Rows("VALID") : ledger[i].cond # attempt.cond
      BY <1>8 DEF AppendRow, OneResult
    <2>4. \A i \in Rows("VALID") : i \in DOMAIN ledger
      BY DEF Rows
    <2> HIDE DEF row
    <2>5. CASE attempt.status = "VALID"
      <3>1. pc' = "drift"
        BY <2>2, <2>5 DEF AfterRow
      <3>2. QED
        BY <2>1, <2>2, <2>3, <2>4, <2>5, <3>1, RowAppended DEF OneResult
    <2>6. CASE attempt.status # "VALID"
      BY <2>1, <2>2, <2>3, <2>4, <2>6, RowAppended DEF OneResult, Conditions, Condition
    <2>7. QED
      BY <2>5, <2>6
  <1>9. CASE DriftCheck
    BY <1>9, OneResultFrame DEF DriftCheck
  <1>10. CASE Finish \/ Crash
    BY <1>10, OneResultFrame DEF Finish, Crash, NoSession
  <1>11. CASE Deadline
    BY <1>11, OneResultFrame DEF Deadline
  <1>12. CASE WriteRaises
    <2>1. attempt'.cond = attempt.cond
      BY <1>0, <1>12 DEF WriteRaises, AttemptStates
    <2>2. QED
      BY <1>12, <2>1, OneResultFrame DEF WriteRaises
  <1>13. CASE OverBudget
    <2>1. attempt'.cond = attempt.cond
      BY <1>0, <1>13 DEF OverBudget, AttemptStates
    <2>2. QED
      BY <1>13, <2>1, OneResultFrame DEF OverBudget
  <1>14. CASE Signal
    <2>1. session'.pending = session.pending
      BY <1>0, <1>14 DEF Signal, SessionStates
    <2>2. QED
      BY <1>14, <2>1, OneResultFrame DEF Signal
  <1>15. CASE TreeMoves
    BY <1>15, OneResultFrame DEF TreeMoves
  <1>16. CASE UNCHANGED campaignVars
    BY <1>16, OneResultFrame DEF campaignVars
  <1>17. QED
    BY <1>1, <1>2, <1>3, <1>4, <1>5, <1>6, <1>7, <1>8, <1>9, <1>10, <1>11, <1>12, <1>13,
       <1>14, <1>15, <1>16 DEF CampaignNext, Work, Execute, Edit, Commit, Checkout

-----------------------------------------------------------------------------
(* What a file that is written changes: the last output and nothing else. *)
LEMMA FileWritten ==
  ASSUME CampaignTypeOK, OneResult, OutputsNamedOnce, AttemptOutput, WriteFile
  PROVE  /\ Len(raw') = attempt.run /\ DOMAIN raw' = 1..attempt.run
         /\ DOMAIN raw \subseteq DOMAIN raw' /\ attempt.run \in 1..MaxRuns
         /\ \A run \in DOMAIN raw : run # attempt.run => raw'[run] = raw[run]
         /\ raw'[attempt.run].cond = attempt.cond
         /\ raw'[attempt.run].ok = (attempt.status = "VALID")
         /\ raw'[attempt.run].files \in 1..Len(Files)
         /\ Unnamed(attempt.run)
  <1> DEFINE run == attempt.run
             entry == [cond |-> attempt.cond, ran |-> attempt.ran,
                       ok |-> attempt.status = "VALID", files |-> 1]
  <1>0. raw \in Seq(Outputs) /\ Len(raw) \in Nat /\ DOMAIN raw = 1..Len(raw)
    BY DEF CampaignTypeOK
  <1>1. run \in {Len(raw), Len(raw) + 1} /\ run \in 1..MaxRuns /\ MaxRuns \in Nat
    BY CampaignAssumption DEF WriteFile, AttemptOutput
  <1>2. entry \in Outputs
    BY FileCount DEF WriteFile, Outputs, OneResult, AttemptOutput
  <1>3. CASE run = Len(raw) + 1
    <2>1. raw' = Append(raw, entry)
      BY <1>0, <1>3 DEF WriteFile
    <2>2. /\ Len(raw') = run /\ DOMAIN raw' = 1..run
          /\ \A r \in DOMAIN raw : raw'[r] = raw[r]
          /\ raw'[run] = entry
      BY <1>0, <1>2, <1>3, <2>1, Appended
    <2>3. Unnamed(run)
      BY <1>0, <1>1, <1>3, NoResultAssumption DEF OutputsNamedOnce, Unnamed
    <2>4. QED
      BY <1>0, <1>1, <1>3, <2>2, <2>3, FileCount
  <1>4. CASE run = Len(raw)
    <2>0. run \in DOMAIN raw /\ ~(run > Len(raw))
      BY <1>0, <1>1, <1>4, SMTT(30)
    <2>1. raw' = [raw EXCEPT ![run] = [raw[run] EXCEPT !.files = @ + 1]]
      BY <1>0, <2>0 DEF WriteFile
    <2>2. /\ raw[run] \in Outputs /\ raw[run].cond = attempt.cond
          /\ raw[run].ok = (attempt.status = "VALID")
          /\ raw[run].files < Len(Files) /\ Unnamed(run)
      BY <1>0, <1>1, <1>4 DEF WriteFile, AttemptOutput
    <2>3. DOMAIN raw' = DOMAIN raw /\ raw' \in Seq(Outputs)
      <3>1. [raw[run] EXCEPT !.files = @ + 1] \in Outputs
        BY <2>2, OutputType
      <3>2. QED
        BY <1>0, <2>0, <2>1, <3>1
    <2>4. /\ raw'[run] = [raw[run] EXCEPT !.files = @ + 1]
          /\ \A r \in DOMAIN raw : r # run => raw'[r] = raw[r]
      BY <1>0, <1>1, <1>4, <2>1
    <2>5. raw'[run].cond = raw[run].cond /\ raw'[run].files = raw[run].files + 1
      BY <2>2, <2>4 DEF Outputs
    <2>6. raw'[run].ok = raw[run].ok
      BY <2>2, <2>4 DEF Outputs
    <2>7. raw'[run].files \in 1..Len(Files)
      BY <2>2, <2>5, FileCount DEF Outputs
    <2>8. Len(raw') = run
      BY <1>0, <1>4, <2>3
    <2>9. QED
      BY <1>0, <1>1, <1>4, <2>2, <2>3, <2>4, <2>5, <2>6, <2>7, <2>8
  <1>5. QED
    BY <1>1, <1>3, <1>4

(* A row names an output once it is complete, and a file is written only   *)
(* for an output no row names.                                             *)
LEMMA OutputsNamedOnceNext ==
  /\ CampaignTypeOK /\ OneResult /\ OutputsNamedOnce /\ AttemptOutput
  /\ [CampaignNext]_campaignVars
  => OutputsNamedOnce'
  <1> SUFFICES ASSUME CampaignTypeOK, OneResult, OutputsNamedOnce, AttemptOutput,
                      [CampaignNext]_campaignVars
               PROVE  OutputsNamedOnce'
    OBVIOUS
  <1> USE DEF disk, tree, process
  <1>1. CASE UNCHANGED disk
    BY <1>1 DEF OutputsNamedOnce, Rows, Complete
  <1>2. ASSUME NEW c \in Conditions, Abort(c) PROVE OutputsNamedOnce'
    <2> DEFINE row == Row(c, "ABORTED", None, None)
    <2>1. row \in LedgerRows /\ row.run = None /\ row.status = "ABORTED"
      BY RowType DEF Statuses, Row
    <2>2. ledger' = Append(ledger, row) /\ UNCHANGED raw
      BY <1>2 DEF Abort
    <2>3. \A i \in Rows("VALID") : i \in DOMAIN ledger
      BY DEF Rows
    <2> HIDE DEF row
    <2>4. QED
      BY <2>1, <2>2, <2>3, RowAppended DEF OutputsNamedOnce, Complete
  <1>3. CASE AppendRow
    <2> DEFINE row == Row(attempt.cond, attempt.status, attempt.run, attempt.ran)
    <2>1. /\ row \in LedgerRows /\ row.cond = attempt.cond
          /\ row.status = attempt.status /\ row.run = attempt.run
      BY <1>3, RowType
         DEF AppendRow, OneResult, AttemptOutput, AttemptStates, Row, CampaignTypeOK
    <2>2. ledger' = Append(ledger, row) /\ UNCHANGED raw
      BY <1>3 DEF AppendRow
    <2>3. \A i \in Rows("VALID") : i \in DOMAIN ledger
      BY DEF Rows
    <2>4. /\ attempt.status = "VALID" => attempt.run # None
          /\ attempt.run # None =>
               /\ attempt.run \in DOMAIN raw
               /\ raw[attempt.run].cond = attempt.cond
               /\ attempt.status = "VALID" => Complete(attempt.run) /\ raw[attempt.run].ok
               /\ Unnamed(attempt.run)
      BY <1>3 DEF AppendRow, AttemptOutput
    <2> HIDE DEF row
    <2>5. QED
      BY <2>1, <2>2, <2>3, <2>4, RowAppended DEF OutputsNamedOnce, Complete, Unnamed
  <1>4. CASE WriteFile
    <2>1. UNCHANGED ledger
      BY <1>4 DEF WriteFile
    <2>2. \A i \in DOMAIN ledger :
            ledger[i].run # None =>
              ledger[i].run \in DOMAIN raw' /\ raw'[ledger[i].run] = raw[ledger[i].run]
      BY <1>4, FileWritten DEF OutputsNamedOnce, Unnamed
    <2>3. \A i \in Rows("VALID") : i \in DOMAIN ledger
      BY DEF Rows
    <2>4. QED
      BY <2>1, <2>2, <2>3 DEF OutputsNamedOnce, Rows, Complete
  <1>5. QED
    BY <1>1, <1>2, <1>3, <1>4
       DEF CampaignNext, Work, Execute, Start, Take, AllTaken, ExecuteRaises, ExecuteRuns,
           DriftCheck, Finish, Deadline, WriteRaises, OverBudget, Signal, Crash, Edit, Commit,
           Checkout, TreeMoves, campaignVars

(* The attempt in hand writes to the last output, and only there. *)
LEMMA AttemptOutputNext ==
  /\ CampaignTypeOK /\ OneResult /\ OutputsNamedOnce /\ AttemptOutput
  /\ [CampaignNext]_campaignVars
  => AttemptOutput'
  <1> SUFFICES ASSUME CampaignTypeOK, OneResult, OutputsNamedOnce, AttemptOutput,
                      [CampaignNext]_campaignVars
               PROVE  AttemptOutput'
    OBVIOUS
  <1> USE DEF disk, tree, process
  <1>0. /\ attempt \in AttemptStates /\ raw \in Seq(Outputs) /\ Len(raw) \in Nat
        /\ DOMAIN raw = 1..Len(raw) /\ MaxRuns \in Nat
    BY CampaignAssumption DEF CampaignTypeOK
  <1>1. CASE UNCHANGED raw /\ pc' \notin {"write", "append"}
    BY <1>1 DEF AttemptOutput
  <1>2. CASE UNCHANGED <<disk, pc, attempt>>
    BY <1>2 DEF AttemptOutput, Unnamed, Complete
  <1>3. ASSUME NEW status \in {"INFRA", "DEFECT"}, ExecuteRaises(status) PROVE AttemptOutput'
    <2>1. attempt'.run = None /\ attempt'.status = status
      BY <1>0, <1>3 DEF ExecuteRaises, AttemptStates
    <2>2. QED
      BY <1>3, <2>1 DEF ExecuteRaises, AttemptOutput, Statuses
  <1>4. ASSUME NEW status \in {"VALID", "INFRA", "DEFECT"}, ExecuteRuns(status)
        PROVE  AttemptOutput'
    <2>1. attempt'.run = Len(raw) + 1 /\ attempt'.ran = Len(timeline) /\ Len(timeline) \in Nat
      BY <1>0, <1>4 DEF ExecuteRuns, AttemptStates, CampaignTypeOK
    <2>2. UNCHANGED raw /\ pc' = "write" /\ Len(raw) < MaxRuns
      BY <1>4 DEF ExecuteRuns
    <2>3. attempt'.status \in Statuses
      BY <1>0, <1>4 DEF ExecuteRuns, AttemptStates, Statuses
    <2>4. /\ attempt'.run # Len(raw') /\ attempt'.run = Len(raw') + 1
          /\ attempt'.run \in 1..MaxRuns /\ Len(raw') <= MaxRuns /\ attempt'.ran \in Nat
      <3>1. Len(raw') = Len(raw) /\ Len(raw) \in Nat /\ MaxRuns \in Nat
        BY <1>0, <2>2
      <3> DEFINE n == Len(raw)
      <3>2. attempt'.run = n + 1 /\ n < MaxRuns /\ attempt'.ran \in Nat
        BY <2>1, <2>2
      <3> HIDE DEF n
      <3>3. n \in Nat /\ MaxRuns \in Nat /\ Len(raw') = n
        BY <3>1 DEF n
      <3>4. QED
        BY <3>2, <3>3
    <2>5. QED
      BY <2>2, <2>3, <2>4 DEF AttemptOutput
  <1>5. CASE WriteFile
    <2>1. /\ UNCHANGED <<ledger, attempt>> /\ attempt.ran \in Nat /\ pc = "write"
          /\ pc' = IF raw'[attempt.run].files = Len(Files) THEN "append" ELSE "write"
      BY <1>5 DEF WriteFile, AttemptOutput
    <2>2. Unnamed(attempt.run)'
      BY <1>5, <2>1, FileWritten DEF Unnamed
    <2>3. raw'[attempt.run].files <= Len(Files) /\ raw'[attempt.run].files \in Nat
      BY <1>5, FileWritten, FileCount
    <2>4. /\ Len(raw') = attempt.run /\ attempt.run \in DOMAIN raw'
          /\ attempt.run \in 1..MaxRuns /\ raw'[attempt.run].cond = attempt.cond
          /\ raw'[attempt.run].ok = (attempt.status = "VALID")
      BY <1>0, <1>5, FileWritten
    <2>5. CASE raw'[attempt.run].files = Len(Files)
      <3>1. pc' = "append"
        BY <2>1, <2>5
      <3>2. attempt.status \in Statuses
        BY <1>0, <1>5, <2>1 DEF AttemptOutput, AttemptStates
      <3>3. Complete(attempt.run)'
        BY <2>1, <2>5 DEF Complete
      <3>4. attempt.status = "VALID" => raw'[attempt.run].ok
        BY <2>4
      <3>5. attempt.run # None
        BY <2>4, NoResultAssumption
      <3>6. Len(raw') <= MaxRuns
        BY <1>0, <2>4
      <3>7. QED
        BY <2>1, <2>2, <2>4, <3>1, <3>2, <3>3, <3>4, <3>5, <3>6 DEF AttemptOutput
    <2>6. CASE raw'[attempt.run].files # Len(Files)
      <3>1. pc' = "write" /\ raw'[attempt.run].files < Len(Files)
        BY <2>1, <2>3, <2>6, FileCount
      <3>2. Len(raw') <= MaxRuns
        BY <1>0, <2>4
      <3>3. QED
        BY <2>1, <2>2, <2>4, <3>1, <3>2 DEF AttemptOutput
    <2>7. QED
      BY <2>5, <2>6
  <1>6. CASE WriteRaises
    <2>1. attempt'.run = None /\ attempt'.status = "INFRA"
      BY <1>0, <1>6 DEF WriteRaises, AttemptStates
    <2>2. QED
      BY <1>6, <2>1 DEF WriteRaises, AttemptOutput, Statuses
  <1>7. CASE OverBudget
    <2>1. /\ attempt'.run = attempt.run /\ attempt'.cond = attempt.cond
          /\ attempt'.status = "INFRA"
      BY <1>0, <1>7 DEF OverBudget, AttemptStates
    <2>2. UNCHANGED <<ledger, raw, pc>> /\ pc = "append"
      BY <1>7 DEF OverBudget
    <2>3. QED
      BY <2>1, <2>2 DEF AttemptOutput, Statuses, Unnamed
  <1>8. CASE AppendRow
    BY <1>1, <1>8 DEF AppendRow, AfterRow
  <1>9. CASE Start \/ AllTaken \/ DriftCheck \/ Finish \/ Deadline \/ Crash
    BY <1>1, <1>9 DEF Start, AllTaken, DriftCheck, Finish, Deadline, Crash
  <1>10. ASSUME NEW c \in Conditions, Abort(c) \/ Take(c) PROVE AttemptOutput'
    BY <1>1, <1>10 DEF Abort, Take, Reaches
  <1>11. CASE Signal \/ TreeMoves \/ UNCHANGED campaignVars
    BY <1>2, <1>11 DEF Signal, TreeMoves, campaignVars
  <1>12. QED
    BY <1>3, <1>4, <1>5, <1>6, <1>7, <1>8, <1>9, <1>10, <1>11
       DEF CampaignNext, Work, Execute, Edit, Commit, Checkout

-----------------------------------------------------------------------------
(* A later place of the timeline changes nothing about what went before.   *)
LEMMA LaterPlace ==
  ASSUME CampaignTypeOK, DriftSeen, NEW c \in Configurations, timeline' = Append(timeline, c),
         UNCHANGED ledger
  PROVE  /\ DOMAIN timeline \subseteq DOMAIN timeline'
         /\ Rows("VALID")' = Rows("VALID") /\ DriftBounded'
         /\ past'.sessions = past.sessions => DriftedHere' = DriftedHere
         /\ \A i \in Rows("VALID") :
              /\ Returned(i, Len(timeline)) => Returned(i, Len(timeline))'
              /\ \A n \in DOMAIN timeline : Returned(i, n) => Returned(i, n)'
  <1>1. /\ timeline \in Seq(Configurations) /\ Len(timeline) \in Nat
        /\ DOMAIN timeline = 1..Len(timeline)
    BY DEF CampaignTypeOK
  <1>2. /\ DOMAIN timeline' = 1..(Len(timeline) + 1) /\ Len(timeline') = Len(timeline) + 1
        /\ \A k \in 1..Len(timeline) : timeline'[k] = timeline[k]
    BY <1>1, Appended
  <1>3. Rows("VALID")' = Rows("VALID")
    BY DEF Rows
  <1>4. ASSUME NEW i \in Rows("VALID")
        PROVE  /\ ledger[i].ran \in 1..Len(timeline) /\ ledger'[i] = ledger[i]
               /\ Drifted(ledger[i])' <=> Drifted(ledger[i])
    BY <1>1, <1>2 DEF DriftSeen, Drifted
  <1>5. ASSUME NEW i \in Rows("VALID"), NEW n \in 1..Len(timeline), Returned(i, n)
        PROVE  Returned(i, n)' /\ Returned(i, Len(timeline))'
    <2>1. PICK k \in (ledger[i].ran + 1)..n : timeline[k] = ledger[i].config
      BY <1>5 DEF Returned
    <2>2. k \in 1..Len(timeline) /\ k \in (ledger[i].ran + 1)..(Len(timeline) + 1)
      BY <1>1, <1>4, <2>1
    <2>3. timeline'[k] = ledger'[i].config /\ k \in (ledger'[i].ran + 1)..n
      BY <1>2, <2>1, <2>2
    <2>4. QED
      BY <1>2, <2>2, <2>3 DEF Returned
  <1>6. Len(timeline) \in 1..Len(timeline)
    BY <1>1 DEF CampaignTypeOK
  <1>7. DriftBounded'
    <2>1. SUFFICES ASSUME NEW i \in Rows("VALID"), NEW j \in Rows("VALID"),
                          i < j, ledger[i].session = ledger[j].session, Drifted(ledger[i])
                   PROVE  Returned(i, ledger[j].ran)'
      BY <1>3, <1>4 DEF DriftBounded, Returned, Drifted
    <2>2. Returned(i, ledger[j].ran)
      BY <2>1 DEF DriftSeen, DriftBounded, Returned
    <2>3. QED
      BY <1>4, <1>5, <2>2
  <1>8. past'.sessions = past.sessions => DriftedHere' = DriftedHere
    BY <1>3, <1>4 DEF DriftedHere
  <1>9. QED
    BY <1>1, <1>2, <1>3, <1>5, <1>6, <1>7, <1>8

(* A row that is not VALID changes nothing about the drifted ones. *)
LEMMA SameDrift ==
  ASSUME DriftBounded, Rows("VALID")' = Rows("VALID"), UNCHANGED timeline,
         \A i \in Rows("VALID") : ledger'[i] = ledger[i], past'.sessions = past.sessions
  PROVE  DriftBounded' /\ DriftedHere' = DriftedHere
  <1>1. \A i \in Rows("VALID") : Drifted(ledger[i])' <=> Drifted(ledger[i])
    BY DEF Drifted
  <1>2. DriftedHere' = DriftedHere
    BY <1>1 DEF DriftedHere
  <1>3. SUFFICES ASSUME NEW i \in Rows("VALID"), NEW j \in Rows("VALID"),
                        i < j, ledger[i].session = ledger[j].session, Drifted(ledger[i])
                 PROVE  \E k \in (ledger'[i].ran + 1)..ledger'[j].ran : timeline'[k] = ledger'[i].config
    BY <1>1, <1>2 DEF DriftBounded
  <1>4. QED
    BY <1>3 DEF DriftBounded

(* A session checks the configuration after every VALID row: when it goes  *)
(* on after a drifted one, the frozen configuration is in force again, and *)
(* every later run has a later place in the timeline.                      *)
LEMMA DriftSeenNext ==
  /\ CampaignTypeOK /\ OneResult /\ AttemptOutput /\ DriftSeen
  /\ [CampaignNext]_campaignVars
  => DriftSeen'
  <1> SUFFICES ASSUME CampaignTypeOK, OneResult, AttemptOutput, DriftSeen,
                      [CampaignNext]_campaignVars
               PROVE  DriftSeen'
    OBVIOUS
  <1> USE DEF disk, tree, process
  <1>0. /\ attempt \in AttemptStates /\ session \in SessionStates /\ past \in Pasts
        /\ ledger \in Seq(LedgerRows) /\ timeline \in Seq(Configurations)
        /\ Len(timeline) \in Nat /\ Len(timeline) \in DOMAIN timeline
        /\ DOMAIN timeline = 1..Len(timeline)
    BY DEF CampaignTypeOK
  <1>a. \A i \in Rows("VALID") : i \in DOMAIN ledger /\ ledger[i].session \in Nat
    <2>1. \A i \in DOMAIN ledger : ledger[i] \in LedgerRows
      BY <1>0
    <2>2. QED
      BY <2>1 DEF LedgerRows, Rows
  <1>b. Trouble => past'.sessions = past.sessions
    BY <1>0 DEF Trouble, Pasts
  <1>1. CASE Start
    <2>1. /\ UNCHANGED <<ledger, timeline>> /\ pc' = "head"
          /\ past'.sessions = past.sessions + 1
      BY <1>0, <1>1 DEF Start, Pasts
    <2>2. Rows("VALID")' = Rows("VALID") /\ DriftBounded'
      BY <2>1 DEF DriftSeen, DriftBounded, Rows, Drifted
    <2>3. \A i \in Rows("VALID")' :
            /\ ledger'[i].session <= past'.sessions /\ ledger'[i].ran \in DOMAIN timeline'
            /\ ledger'[i].session # past'.sessions
      <3>1. past.sessions \in Nat
        BY <1>0 DEF Pasts
      <3>2. QED
        BY <1>a, <2>1, <2>2, <3>1 DEF DriftSeen
    <2>4. DriftedHere' = {}
      BY <2>3 DEF DriftedHere
    <2>5. QED
      BY <2>1, <2>2, <2>3, <2>4 DEF DriftSeen
  (* The session goes on, and only the check leads back to the head. *)
  <1>2. ASSUME UNCHANGED <<ledger, timeline>>, past'.sessions = past.sessions,
               session'.frozen = session.frozen, pc # "down", pc' # "down",
               pc' \in {"write", "append"} /\ attempt'.run # None =>
                 \/ attempt'.ran = Len(timeline) /\ pc = "attempt"
                 \/ /\ pc \in {"write", "append"} /\ attempt.run # None
                    /\ attempt'.ran = attempt.ran,
               pc' \in {"head", "attempt", "write", "append"} =>
                 pc \in {"head", "attempt", "write", "append"}
        PROVE  DriftSeen'
    <2>1. /\ Rows("VALID")' = Rows("VALID") /\ DriftBounded' /\ DriftedHere' = DriftedHere
          /\ \A i, n : Returned(i, n)' <=> Returned(i, n)
      BY <1>2 DEF DriftSeen, DriftBounded, Rows, Drifted, DriftedHere, Returned
    <2>2. \A i \in Rows("VALID")' :
            ledger'[i].session <= past'.sessions /\ ledger'[i].ran \in DOMAIN timeline'
      BY <1>2, <2>1 DEF DriftSeen
    <2>3. \A i \in Rows("VALID")' :
            ledger'[i].session = past'.sessions => ledger'[i].config = session'.frozen
      BY <1>2, <2>1 DEF DriftSeen
    <2>4. pc' \in {"head", "attempt", "write", "append"} =>
            \A i \in DriftedHere' : Returned(i, Len(timeline))'
      BY <1>2, <2>1 DEF DriftSeen, Returned
    <2>5. (pc' \in {"write", "append"} /\ attempt'.run # None) =>
            /\ attempt'.ran \in DOMAIN timeline'
            /\ \A i \in DriftedHere' : Returned(i, attempt.ran)'
      <3>1. SUFFICES ASSUME pc' \in {"write", "append"}, attempt'.run # None
                     PROVE  /\ attempt'.ran \in DOMAIN timeline'
                            /\ \A i \in DriftedHere : Returned(i, attempt'.ran)
        BY <1>2, <2>1 DEF Returned
      <3>2. CASE attempt'.ran = Len(timeline) /\ pc = "attempt"
        BY <1>0, <1>2, <3>2 DEF DriftSeen
      <3>3. CASE /\ pc \in {"write", "append"} /\ attempt.run # None
                 /\ attempt'.ran = attempt.ran
        BY <1>2, <3>3 DEF DriftSeen
      <3>4. QED
        BY <1>2, <3>1, <3>2, <3>3
    <2>6. QED
      BY <2>1, <2>2, <2>3, <2>4, <2>5 DEF DriftSeen
  (* The session ends. *)
  <1>3. ASSUME UNCHANGED <<ledger, timeline>>, past'.sessions = past.sessions, pc' = "down"
        PROVE  DriftSeen'
    BY <1>3 DEF DriftSeen, DriftBounded, Rows, Drifted
  <1>5. ASSUME NEW c \in Conditions, Abort(c) PROVE DriftSeen'
    <2> DEFINE row == Row(c, "ABORTED", None, None)
    <2>1. row \in LedgerRows /\ row.status = "ABORTED"
      BY RowType DEF Statuses, Row
    <2>2. /\ ledger' = Append(ledger, row) /\ UNCHANGED <<timeline, past>>
          /\ pc = "head" /\ pc' = "head"
      BY <1>5 DEF Abort, Reaches
    <2>3. session'.frozen = session.frozen
      BY <1>0, <1>5 DEF Abort, Reaches, SessionStates
    <2> HIDE DEF row
    <2>4. Rows("VALID")' = Rows("VALID") /\ \A i \in Rows("VALID") : ledger'[i] = ledger[i]
      BY <1>a, <2>1, <2>2, RowAppended
    <2>5. DriftBounded' /\ DriftedHere' = DriftedHere
      BY <2>2, <2>4, SameDrift DEF DriftSeen
    <2>6. \A i \in DriftedHere : Returned(i, Len(timeline))'
      <3>1. \A i \in DriftedHere : Returned(i, Len(timeline)) /\ ledger'[i] = ledger[i]
        BY <2>2, <2>4 DEF DriftSeen, DriftedHere
      <3>2. QED
        BY <2>2, <3>1 DEF Returned
    <2>7. QED
      BY <2>2, <2>3, <2>4, <2>5, <2>6 DEF DriftSeen
  <1>6. ASSUME NEW c \in Conditions, Take(c) PROVE DriftSeen'
    <2>1. session'.frozen = session.frozen
      BY <1>0, <1>6 DEF Take, Reaches, SessionStates
    <2>2. QED
      BY <1>2, <1>6, <2>1 DEF Take, Reaches
  <1>7. CASE AllTaken \/ Deadline
    BY <1>2, <1>7, <1>b DEF AllTaken, Deadline
  <1>8. ASSUME NEW status \in {"INFRA", "DEFECT"}, ExecuteRaises(status) PROVE DriftSeen'
    <2>1. attempt'.run = None
      BY <1>0, <1>8 DEF ExecuteRaises, AttemptStates
    <2>2. QED
      BY <1>2, <1>8, <1>b, <2>1 DEF ExecuteRaises
  <1>9. ASSUME NEW status \in {"VALID", "INFRA", "DEFECT"}, ExecuteRuns(status)
        PROVE  DriftSeen'
    <2>1. attempt'.ran = Len(timeline)
      BY <1>0, <1>9 DEF ExecuteRuns, AttemptStates
    <2>2. past'.sessions = past.sessions
      BY <1>9, <1>b DEF ExecuteRuns
    <2>3. QED
      BY <1>2, <1>9, <2>1, <2>2 DEF ExecuteRuns
  <1>10. CASE WriteFile
    BY <1>2, <1>10 DEF WriteFile
  <1>11. CASE WriteRaises
    <2>1. attempt'.run = None
      BY <1>0, <1>11 DEF WriteRaises, AttemptStates
    <2>2. QED
      BY <1>2, <1>11, <1>b, <2>1 DEF WriteRaises
  <1>12. CASE OverBudget
    <2>1. attempt'.run = attempt.run /\ attempt'.ran = attempt.ran
      BY <1>0, <1>12 DEF OverBudget, AttemptStates
    <2>2. QED
      BY <1>2, <1>12, <1>b, <2>1 DEF OverBudget
  <1>13. CASE AppendRow
    <2> DEFINE row == Row(attempt.cond, attempt.status, attempt.run, attempt.ran)
               last == Len(ledger) + 1
    <2>1. row \in LedgerRows
      BY <1>0, <1>13, RowType DEF AppendRow, OneResult, AttemptOutput, AttemptStates
    <2>2. /\ row.status = attempt.status /\ row.ran = attempt.ran
          /\ row.config = session.frozen /\ row.session = past.sessions
      BY DEF Row
    <2>3. /\ ledger' = Append(ledger, row)
          /\ UNCHANGED <<timeline, past, session, attempt>>
          /\ pc = "append" /\ pc' = AfterRow(attempt.status)
      BY <1>13 DEF AppendRow
    <2>4. pc' \in {"finish", "attempt", "drift"}
      BY <2>3 DEF AfterRow
    <2>5. \A i \in DriftedHere : Returned(i, Len(timeline))
      BY <2>3 DEF DriftSeen
    <2> HIDE DEF row, last
    <2>6. CASE attempt.status # "VALID"
      <3>1. Rows("VALID")' = Rows("VALID") /\ \A i \in Rows("VALID") : ledger'[i] = ledger[i]
        BY <1>a, <2>1, <2>2, <2>3, <2>6, RowAppended
      <3>2. DriftBounded' /\ DriftedHere' = DriftedHere
        BY <2>3, <3>1, SameDrift DEF DriftSeen
      <3>3. \A i \in DriftedHere : Returned(i, Len(timeline))'
        BY <2>3, <2>5, <3>1 DEF DriftedHere, Returned
      <3>4. QED
        BY <2>3, <2>4, <3>1, <3>2, <3>3 DEF DriftSeen
    <2>7. CASE attempt.status = "VALID"
      <3>1. /\ Rows("VALID")' = Rows("VALID") \cup {last} /\ last \notin DOMAIN ledger
            /\ \A i \in Rows("VALID") : ledger'[i] = ledger[i]
            /\ ledger'[last] = row
        BY <1>a, <2>1, <2>2, <2>3, <2>7, RowAppended DEF last
      <3>2. pc' = "drift"
        BY <2>3, <2>7 DEF AfterRow
      <3>3. attempt.ran \in DOMAIN timeline /\ \A i \in DriftedHere : Returned(i, attempt.ran)
        BY <2>3, <2>7 DEF AttemptOutput, DriftSeen
      <3>4. \A i \in Rows("VALID")' :
              /\ ledger'[i].session <= past.sessions /\ ledger'[i].ran \in DOMAIN timeline
              /\ ledger'[i].session = past.sessions => ledger'[i].config = session.frozen
        <4>1. past.sessions <= past.sessions
          BY <1>0 DEF Pasts
        <4>2. QED
          BY <2>2, <2>3, <3>1, <3>3, <4>1 DEF DriftSeen
      <3>5. DriftBounded'
        <4> SUFFICES ASSUME NEW i \in Rows("VALID")', NEW j \in Rows("VALID")', i < j,
                            ledger'[i].session = ledger'[j].session, Drifted(ledger'[i])
                     PROVE  \E k \in (ledger'[i].ran + 1)..ledger'[j].ran :
                              timeline[k] = ledger'[i].config
          BY <2>3 DEF DriftBounded, Drifted
        <4>1. CASE i \in Rows("VALID") /\ j \in Rows("VALID")
          BY <3>1, <4>1 DEF DriftSeen, DriftBounded
        <4>2. CASE i \in Rows("VALID") /\ j = last
          <5>1. i \in DriftedHere
            BY <2>2, <3>1, <4>2 DEF DriftedHere
          <5>2. QED
            BY <2>2, <3>1, <3>3, <4>2, <5>1 DEF Returned
        <4>3. i # last
          <5>1. j \in DOMAIN ledger \/ j = last
            BY <1>a, <3>1
          <5>2. QED
            BY <1>0, <5>1 DEF last
        <4>4. QED
          BY <3>1, <4>1, <4>2, <4>3
      <3>6. QED
        BY <2>3, <3>2, <3>4, <3>5 DEF DriftSeen
    <2>8. QED
      BY <2>6, <2>7
  <1>14. CASE DriftCheck
    <2>1. CASE InForce # session.frozen
      BY <1>2, <1>14, <2>1 DEF DriftCheck
    <2>2. CASE InForce = session.frozen
      <3>1. /\ UNCHANGED <<ledger, timeline, session, past>> /\ pc = "drift" /\ pc' = "head"
        BY <1>14, <2>2 DEF DriftCheck
      <3>2. ASSUME NEW i \in DriftedHere
            PROVE  Returned(i, Len(timeline))
        <4>1. /\ ledger[i].config = timeline[Len(timeline)]
              /\ timeline[ledger[i].ran] # ledger[i].config
              /\ ledger[i].ran \in 1..Len(timeline)
          BY <1>0, <2>2, <3>1, <3>2 DEF DriftSeen, DriftedHere, Drifted, CampaignTypeOK
        <4>2. ledger[i].ran # Len(timeline)
          BY <4>1
        <4>3. Len(timeline) \in (ledger[i].ran + 1)..Len(timeline)
          BY <1>0, <4>1, <4>2
        <4>4. QED
          BY <4>1, <4>3 DEF Returned
      <3>3. /\ Rows("VALID")' = Rows("VALID") /\ DriftBounded' /\ DriftedHere' = DriftedHere
            /\ \A i, n : Returned(i, n)' <=> Returned(i, n)
        BY <3>1 DEF DriftSeen, DriftBounded, Rows, Drifted, DriftedHere, Returned
      <3>4. \A i \in DriftedHere' : Returned(i, Len(timeline))'
        BY <3>1, <3>2, <3>3 DEF Returned
      <3>5. QED
        BY <3>1, <3>3, <3>4 DEF DriftSeen
    <2>3. QED
      BY <2>1, <2>2
  <1>15. CASE Finish \/ Crash
    BY <1>3, <1>15, <1>b DEF Finish, Crash
  <1>16. CASE Signal
    <2>1. session'.frozen = session.frozen
      BY <1>0, <1>16 DEF Signal, SessionStates
    <2>2. /\ UNCHANGED <<ledger, timeline, pc, attempt>> /\ past'.sessions = past.sessions
      BY <1>16, <1>b DEF Signal
    <2>3. /\ Rows("VALID")' = Rows("VALID") /\ DriftBounded' /\ DriftedHere' = DriftedHere
          /\ \A i, n : Returned(i, n)' <=> Returned(i, n)
      BY <2>2 DEF DriftSeen, DriftBounded, Rows, Drifted, DriftedHere, Returned
    <2>4. \A n : Returned(n, attempt.ran)' <=> Returned(n, attempt.ran)
      BY <2>2 DEF Returned
    <2>5. \A n : Returned(n, Len(timeline))' <=> Returned(n, Len(timeline))
      BY <2>2 DEF Returned
    <2>6. QED
      BY <2>1, <2>2, <2>3, <2>4, <2>5 DEF DriftSeen
  (* The tree changes under the session. *)
  <1>17. CASE TreeMoves /\ past'.sessions = past.sessions
    <2>1. UNCHANGED <<ledger, pc, session, attempt>>
      BY <1>17 DEF TreeMoves
    <2>2. InForce' \in Configurations /\ timeline' = Append(timeline, InForce')
      <3>1. CampaignTypeOK'
        BY TypeNext
      <3>2. QED
        BY <1>17, <3>1 DEF TreeMoves, CampaignTypeOK, InForce, Configurations
    <2> DEFINE c == InForce'
    <2> HIDE DEF c
    <2>3. c \in Configurations /\ timeline' = Append(timeline, c)
      BY <2>2 DEF c
    <2>4. /\ DOMAIN timeline \subseteq DOMAIN timeline'
          /\ Rows("VALID")' = Rows("VALID") /\ DriftBounded'
          /\ DriftedHere' = DriftedHere
          /\ \A i \in Rows("VALID") :
               /\ Returned(i, Len(timeline)) => Returned(i, Len(timeline))'
               /\ \A n \in DOMAIN timeline : Returned(i, n) => Returned(i, n)'
      BY <1>17, <2>1, <2>3, LaterPlace
    <2>5. \A i \in DriftedHere : i \in Rows("VALID")
      BY DEF DriftedHere
    <2>6. (pc' \in {"write", "append"} /\ attempt'.run # None) =>
            /\ attempt'.ran \in DOMAIN timeline'
            /\ \A i \in DriftedHere' : Returned(i, attempt.ran)'
      <3>1. SUFFICES ASSUME pc \in {"write", "append"}, attempt.run # None
                     PROVE  /\ attempt.ran \in DOMAIN timeline'
                            /\ \A i \in DriftedHere : Returned(i, attempt.ran)'
        BY <2>1, <2>4
      <3>2. attempt.ran \in DOMAIN timeline /\ \A i \in DriftedHere : Returned(i, attempt.ran)
        BY <3>1 DEF DriftSeen
      <3>3. \A i \in Rows("VALID") :
              (\E k \in (ledger[i].ran + 1)..attempt.ran : timeline[k] = ledger[i].config) =>
                \E k \in (ledger'[i].ran + 1)..attempt'.ran : timeline'[k] = ledger'[i].config
        BY <2>1, <2>4, <3>2 DEF Returned
      <3>4. QED
        BY <2>1, <2>4, <2>5, <3>2, <3>3 DEF Returned
    <2>7. pc' \in {"head", "attempt", "write", "append"} =>
            \A i \in DriftedHere' : Returned(i, Len(timeline))'
      BY <2>1, <2>4, <2>5 DEF DriftSeen
    <2>8. /\ \A i \in Rows("VALID")' :
               ledger'[i].session <= past'.sessions /\ ledger'[i].ran \in DOMAIN timeline'
          /\ pc' # "down" =>
               \A i \in Rows("VALID")' :
                 ledger'[i].session = past'.sessions => ledger'[i].config = session'.frozen
      BY <1>17, <2>1, <2>4 DEF DriftSeen
    <2>9. QED
      BY <2>4, <2>6, <2>7, <2>8 DEF DriftSeen
  <1>18. CASE UNCHANGED campaignVars
    <2>1. DriftedHere' = DriftedHere /\ DriftBounded' /\ Rows("VALID")' = Rows("VALID")
      BY <1>18 DEF campaignVars, DriftSeen, DriftBounded, Rows, Drifted, DriftedHere
    <2>2. QED
      BY <1>18, <2>1 DEF campaignVars, DriftSeen, Returned
  <1>19. QED
    BY <1>1, <1>5, <1>6, <1>7, <1>8, <1>9, <1>10, <1>11, <1>12, <1>13, <1>14, <1>15, <1>16,
       <1>17, <1>18, <1>b DEF CampaignNext, Work, Execute, Edit, Commit, Checkout

-----------------------------------------------------------------------------
LEMMA InvariantInit == CampaignInit => CampaignIInv
  <1> SUFFICES ASSUME CampaignInit PROVE CampaignIInv
    OBVIOUS
  <1>1. CampaignTypeOK
    BY TypeInit
  <1>2. /\ DOMAIN ledger = {} /\ Rows("VALID") = {} /\ Len(raw) = 0 /\ pc = "down"
        /\ MaxRuns \in Nat
    BY CampaignAssumption DEF CampaignInit, Rows
  <1>3. OneResult /\ OutputsNamedOnce
    BY <1>2 DEF OneResult, OutputsNamedOnce
  <1>4. AttemptOutput
    BY <1>2 DEF AttemptOutput
  <1>5. DriftSeen
    BY <1>2 DEF DriftSeen, DriftBounded
  <1>6. QED
    BY <1>1, <1>3, <1>4, <1>5 DEF CampaignIInv

(* The inductive invariant of the campaign: the types, one VALID row per   *)
(* condition and none for what is pending or in hand, outputs named once   *)
(* and only when complete, the attempt's own output, and the check for     *)
(* drift.  It holds in every state of every campaign.                      *)
THEOREM CampaignInvariant == CampaignSpec => []CampaignIInv
  <1>1. CampaignInit => CampaignIInv
    BY InvariantInit
  <1>2. CampaignIInv /\ [CampaignNext]_campaignVars => CampaignIInv'
    BY TypeNext, OneResultNext, OutputsNamedOnceNext, AttemptOutputNext, DriftSeenNext
       DEF CampaignIInv
  <1>3. QED
    BY <1>1, <1>2, PTL DEF CampaignSpec

(* Every VALID row of run_ledger.csv names the complete output of a good   *)
(* run of its own condition, which no other row names.                     *)
THEOREM ValidRowsHaveOutput == CampaignSpec => []ValidRowHasOutput
  <1>1. CampaignIInv => ValidRowHasOutput
    BY DEF CampaignIInv, OutputsNamedOnce, ValidRowHasOutput, Rows
  <1>2. QED
    BY <1>1, CampaignInvariant, PTL

(* Between two VALID runs of a session the first of which is of another    *)
(* configuration than its row states, the stated one has been in force:    *)
(* the comparison after each row lets no second run share the change.      *)
THEOREM DriftIsBounded == CampaignSpec => []DriftBounded
  <1>1. CampaignIInv => DriftBounded
    BY DEF CampaignIInv, DriftSeen
  <1>2. QED
    BY <1>1, CampaignInvariant, PTL

-----------------------------------------------------------------------------
(* The result of a condition is the output its VALID row names. *)
ResultsAreRows ==
  \A c \in Conditions :
    /\ \A i \in Rows("VALID") : ledger[i].cond = c => ResultOf(c) = ledger[i].run
    /\ (\A i \in Rows("VALID") : ledger[i].cond # c) => ResultOf(c) = None

LEMMA ResultIsRow == CampaignIInv => ResultsAreRows
  <1> SUFFICES ASSUME CampaignIInv, NEW c \in Conditions
               PROVE  /\ \A i \in Rows("VALID") : ledger[i].cond = c => ResultOf(c) = ledger[i].run
                      /\ (\A i \in Rows("VALID") : ledger[i].cond # c) => ResultOf(c) = None
    BY DEF ResultsAreRows
  <1>1. ASSUME NEW i \in Rows("VALID"), ledger[i].cond = c
        PROVE  ResultOf(c) = ledger[i].run
    <2> DEFINE named == {j \in Rows("VALID") : ledger[j].cond = c}
    <2>1. named = {i}
      BY <1>1 DEF CampaignIInv, OneResult
    <2>2. i \in Nat
      BY DEF CampaignIInv, CampaignTypeOK, Rows
    <2>3. (CHOOSE j \in named : \A k \in named : k <= j) = i
      BY <2>1, <2>2
    <2>4. QED
      BY <2>1, <2>3 DEF ResultOf
  <1>2. ASSUME \A i \in Rows("VALID") : ledger[i].cond # c
        PROVE  ResultOf(c) = None
    BY <1>2 DEF ResultOf
  <1>3. QED
    BY <1>1, <1>2

LEMMA ResultIsRowNext == CampaignIInv' => ResultsAreRows'
  BY ResultIsRow, PTL

(* The results are those of the VALID rows: a step that adds no such row   *)
(* changes none of them.                                                   *)
LEMMA ResultsKept ==
  ASSUME CampaignIInv, CampaignIInv',
         Rows("VALID")' = Rows("VALID"),
         \A i \in Rows("VALID") : ledger'[i] = ledger[i]
  PROVE  [c \in Conditions |-> ResultOf(c)]' = [c \in Conditions |-> ResultOf(c)]
  <1>1. Conditions' = Conditions
    BY DEF Conditions, Condition
  <1>2. ASSUME NEW c \in Conditions PROVE ResultOf(c)' = ResultOf(c)
    <2>1. /\ \A i \in Rows("VALID") : ledger[i].cond = c => ResultOf(c) = ledger[i].run
          /\ (\A i \in Rows("VALID") : ledger[i].cond # c) => ResultOf(c) = None
      BY ResultIsRow DEF ResultsAreRows
    <2>2. /\ \A i \in Rows("VALID")' : ledger'[i].cond = c => ResultOf(c)' = ledger'[i].run
          /\ (\A i \in Rows("VALID")' : ledger'[i].cond # c) => ResultOf(c)' = None
      BY <1>1, ResultIsRowNext DEF ResultsAreRows
    <2>3. QED
      BY <2>1, <2>2
  <1>3. QED
    BY <1>1, <1>2

(* A VALID row is the step of the contract by which its condition obtains  *)
(* a result.                                                               *)
LEMMA ValidRowObtains ==
  ASSUME CampaignIInv, CampaignIInv', AppendRow, attempt.status = "VALID"
  PROVE  Contract!Next
  <1> DEFINE row == Row(attempt.cond, attempt.status, attempt.run, attempt.ran)
             last == Len(ledger) + 1
             cond == attempt.cond
             run == attempt.run
  <1>0. CampaignTypeOK /\ attempt \in AttemptStates
    BY DEF CampaignIInv, CampaignTypeOK
  <1>1. /\ row \in LedgerRows /\ row.cond = cond /\ row.status = "VALID" /\ row.run = run
    BY <1>0, RowType
       DEF AppendRow, CampaignIInv, OneResult, AttemptOutput, AttemptStates, Row
  <1>2. /\ Rows("VALID")' = Rows("VALID") \cup {last}
        /\ \A i \in Rows("VALID") : ledger'[i] = ledger[i]
        /\ ledger'[last] = row
    <2>1. ledger' = Append(ledger, row)
      BY DEF AppendRow
    <2>2. \A i \in Rows("VALID") : i \in DOMAIN ledger
      BY DEF Rows
    <2> HIDE DEF row
    <2>3. QED
      BY <1>0, <1>1, <2>1, <2>2, RowAppended
  <1>3. /\ cond \in Conditions /\ \A i \in Rows("VALID") : ledger[i].cond # cond
    BY DEF AppendRow, CampaignIInv, OneResult
  <1>4. run \in 1..MaxRuns /\ \A i \in Rows("VALID") : ledger[i].run # run
    <2>1. run # None /\ run \in DOMAIN raw /\ Unnamed(run) /\ Len(raw) <= MaxRuns
      BY DEF AppendRow, CampaignIInv, AttemptOutput
    <2>2. DOMAIN raw = 1..Len(raw) /\ Len(raw) \in Nat /\ MaxRuns \in Nat
      BY CampaignAssumption, <1>0 DEF CampaignTypeOK
    <2>3. QED
      BY <2>1, <2>2 DEF Unnamed, Rows
  <1>5. Conditions' = Conditions
    BY DEF Conditions, Condition
  <1> HIDE DEF row, last, cond, run
  <1>6. ASSUME NEW c \in Conditions
        PROVE  /\ c = cond => ResultOf(c) = None /\ ResultOf(c)' = run
               /\ c # cond => ResultOf(c)' = ResultOf(c)
               /\ ResultOf(c) # run
    <2>1. /\ \A i \in Rows("VALID") : ledger[i].cond = c => ResultOf(c) = ledger[i].run
          /\ (\A i \in Rows("VALID") : ledger[i].cond # c) => ResultOf(c) = None
      BY ResultIsRow DEF ResultsAreRows
    <2>2. /\ \A i \in Rows("VALID")' : ledger'[i].cond = c => ResultOf(c)' = ledger'[i].run
          /\ (\A i \in Rows("VALID")' : ledger'[i].cond # c) => ResultOf(c)' = None
      BY <1>5, ResultIsRowNext DEF ResultsAreRows
    <2>3. c = cond => ResultOf(c) = None /\ ResultOf(c)' = run
      BY <1>1, <1>2, <1>3, <2>1, <2>2
    <2>4. c # cond => ResultOf(c)' = ResultOf(c)
      BY <1>1, <1>2, <2>1, <2>2
    <2>5. ResultOf(c) # run
      BY <1>4, <2>1, NoResultAssumption
    <2>6. QED
      BY <2>3, <2>4, <2>5
  <1>7. Contract!Obtain(cond, run)
    BY <1>3, <1>5, <1>6 DEF Contract!Obtain
  <1>8. QED
    BY <1>3, <1>4, <1>7 DEF Contract!Next

(* The campaign implements CampaignContract: whatever the kills, signals,  *)
(* failures and edits, a condition obtains one result, the output its      *)
(* VALID row names, and keeps it; no two conditions share one.             *)
THEOREM CampaignImplementsContract == CampaignSpec => KeepsContract
  <1> DEFINE results == [c \in Conditions |-> ResultOf(c)]
  <1>1. CampaignInit => Contract!Init
    <2> SUFFICES ASSUME CampaignInit PROVE Contract!Init
      OBVIOUS
    <2>1. Rows("VALID") = {}
      BY DEF CampaignInit, Rows
    <2>2. \A c \in Conditions : ResultOf(c) = None
      BY <2>1 DEF ResultOf
    <2>3. QED
      BY <2>2 DEF Contract!Init
  <1>2. CampaignIInv /\ CampaignIInv' /\ [CampaignNext]_campaignVars
        => [Contract!Next]_results
    <2> SUFFICES ASSUME CampaignIInv, CampaignIInv', [CampaignNext]_campaignVars
                 PROVE  Contract!Next \/ results' = results
      OBVIOUS
    <2>0. CampaignTypeOK /\ \A i \in Rows("VALID") : i \in DOMAIN ledger
      BY DEF CampaignIInv, Rows
    <2>1. CASE UNCHANGED ledger
      BY <2>1, ResultsKept DEF Rows
    <2>2. ASSUME NEW c \in Conditions, Abort(c) PROVE results' = results
      <3>1. Row(c, "ABORTED", None, None) \in LedgerRows
        BY <2>0, RowType DEF Statuses
      <3>2. Rows("VALID")' = Rows("VALID") /\ \A i \in Rows("VALID") : ledger'[i] = ledger[i]
        BY <2>0, <2>2, <3>1, RowAppended DEF Abort, Row
      <3>3. QED
        BY <3>2, ResultsKept
    <2>3. CASE AppendRow /\ attempt.status = "VALID"
      BY <2>3, ValidRowObtains
    <2>4. CASE AppendRow /\ attempt.status # "VALID"
      <3> DEFINE row == Row(attempt.cond, attempt.status, attempt.run, attempt.ran)
      <3>1. row \in LedgerRows /\ row.status # "VALID"
        BY <2>0, <2>4, RowType
           DEF AppendRow, CampaignIInv, OneResult, AttemptOutput, CampaignTypeOK,
               AttemptStates, Row
      <3>2. ledger' = Append(ledger, row)
        BY <2>4 DEF AppendRow
      <3> HIDE DEF row
      <3>3. Rows("VALID")' = Rows("VALID") /\ \A i \in Rows("VALID") : ledger'[i] = ledger[i]
        BY <2>0, <3>1, <3>2, RowAppended
      <3>4. QED
        BY <3>3, ResultsKept
    <2>5. QED
      BY <2>1, <2>2, <2>3, <2>4
         DEF CampaignNext, Work, Execute, Start, Take, AllTaken, ExecuteRaises, ExecuteRuns,
             WriteFile, DriftCheck, Finish, Deadline, WriteRaises, OverBudget, Signal, Crash,
             Edit, Commit, Checkout, TreeMoves, campaignVars, disk, tree, process
  <1>3. QED
    BY <1>1, <1>2, CampaignInvariant, PTL DEF CampaignSpec, KeepsContract, Contract!Spec

-----------------------------------------------------------------------------
(* Holm's procedure *)

(* One more element. *)
LEMMA AddNew ==
  ASSUME NEW S, IsFiniteSet(S), NEW x, x \notin S
  PROVE  IsFiniteSet(S \cup {x}) /\ Cardinality(S \cup {x}) = Cardinality(S) + 1
BY FS_AddElement

(* The pairs of conditions, and how many they are. *)
LEMMA ThreeComparisons ==
  /\ Comparisons = {<<1, 2>>, <<1, 3>>, <<2, 3>>}
  /\ IsFiniteSet(Comparisons) /\ Cardinality(Comparisons) = 3
<1> DEFINE A == {<<1, 2>>}
           B == A \cup {<<1, 3>>}
<1>1. Comparisons = {<<1, 2>>, <<1, 3>>, <<2, 3>>}
  <2>1. ASSUME NEW k \in Comparisons PROVE k \in {<<1, 2>>, <<1, 3>>, <<2, 3>>}
    BY <2>1 DEF Comparisons
  <2> QED BY <2>1 DEF Comparisons
<1>2. /\ <<1, 3>> \notin A /\ <<2, 3>> \notin B
      /\ Comparisons = B \cup {<<2, 3>>}
  BY <1>1
<1>3. IsFiniteSet(A) /\ Cardinality(A) = 1
  BY FS_Singleton
<1> HIDE DEF A
<1>4. IsFiniteSet(B) /\ Cardinality(B) = 2
  BY <1>2, <1>3, AddNew
<1> HIDE DEF B
<1>5. IsFiniteSet(Comparisons) /\ Cardinality(Comparisons) = 3
  BY <1>2, <1>4, AddNew
<1> QED BY <1>1, <1>5

(* Among at most three there is a greatest, and Max takes it. *)
LEMMA GreatestOf ==
  ASSUME NEW D \in SUBSET Comparisons, NEW f \in [D -> Int],
         NEW J \in SUBSET D, J # {}
  PROVE  \E g \in J : \A l \in J : f[l] <= f[g]
<1>1. \A l \in J : l \in {<<1, 2>>, <<1, 3>>, <<2, 3>>} /\ f[l] \in Int
  BY ThreeComparisons
<1> QED BY <1>1

LEMMA MaxOf ==
  ASSUME NEW D \in SUBSET Comparisons, NEW f \in [D -> Int],
         NEW J \in SUBSET D, J # {}
  PROVE  /\ \E g \in J : Max({f[l] : l \in J}) = f[g]
         /\ \A l \in J : f[l] <= Max({f[k] : k \in J})
<1> DEFINE S == {f[l] : l \in J}
<1>1. PICK g \in J : \A l \in J : f[l] <= f[g]
  BY GreatestOf
<1>2. f[g] \in S /\ \A y \in S : f[g] >= y
  BY <1>1
<1>3. Max(S) \in S /\ \A y \in S : Max(S) >= y
  BY <1>2 DEF Max
<1> QED BY <1>3

(* Of tied comparisons one is tested first. *)
LEMMA FirstTested ==
  ASSUME NEW J \in SUBSET Comparisons, J # {}
  PROVE  \E g \in J : \A l \in J : ~Earlier(l, g)
<1>1. \A l \in J : l \in {<<1, 2>>, <<1, 3>>, <<2, 3>>}
  BY ThreeComparisons
<1>2. CASE <<1, 2>> \in J
  BY <1>1, <1>2 DEF Earlier
<1>3. CASE <<1, 2>> \notin J /\ <<1, 3>> \in J
  BY <1>1, <1>3 DEF Earlier
<1>4. CASE <<1, 2>> \notin J /\ <<1, 3>> \notin J
  BY <1>1, <1>4 DEF Earlier
<1> QED BY <1>2, <1>3, <1>4

(* What Holm's procedure rejects, without an order among the comparisons:  *)
(* every p-value up to k's passes, counted against those not below it.     *)
Rejected(p, scale, k) ==
  \A l \in DOMAIN p :
    p[l] <= p[k] => Significant(Cardinality({j \in DOMAIN p : p[j] >= p[l]}) * p[l], scale)

(* What a scale does to significance, and what a smaller value does. *)
LEMMA LessSignificant ==
  ASSUME NEW x \in Nat, NEW scale \in Nat
  PROVE  Less(scale, x) \in Nat /\ (Significant(Less(scale, x), scale) <=> Significant(x, scale))
BY DEF Less, Significant

LEMMA SignificantBelow ==
  ASSUME NEW x \in Nat, NEW y \in Nat, x <= y, NEW scale \in Nat, Significant(y, scale)
  PROVE  Significant(x, scale)
BY DEF Significant

(* A product grows with its factor. *)
LEMMA FactorGrows ==
  ASSUME NEW m \in Nat, NEW n \in Nat, m <= n, NEW x \in Nat
  PROVE  m * x \in Nat /\ n * x \in Nat /\ m * x <= n * x
<1>1. PICK d \in Nat : n = m + d
  <2>1. n - m \in Nat /\ n = m + (n - m)
    OBVIOUS
  <2> QED BY <2>1
<1>2. n * x = m * x + d * x /\ d * x \in Nat
  BY <1>1
<1> QED BY <1>2

(* Holm's adjusted p-value is significant exactly when the procedure       *)
(* rejects.  From left to right, the first tested of those that tie with l *)
(* stands where all not below l are still to come; from right to left, no  *)
(* more are left at l's turn than are not below it.                        *)
LEMMA HolmRejects ==
  ASSUME NEW D \in SUBSET Comparisons, NEW p \in [D -> Nat], NEW scale \in Nat, NEW k \in D
  PROVE  Significant(Holm(p, scale)[k], scale) <=> Rejected(p, scale, k)
<1> DEFINE R(l) == Cardinality({j \in D : ~Ahead(p, j, l)})
           N(l) == Cardinality({j \in D : p[j] >= p[l]})
           f == [l \in D |-> Less(scale, R(l) * p[l])]
           J == {j \in D : ~Ahead(p, k, j)}
<1>1. IsFiniteSet(D) /\ DOMAIN p = D /\ \A l \in D : p[l] \in Nat
  BY ThreeComparisons, FS_Subset
<1>2. ASSUME NEW l \in D
      PROVE  R(l) \in Nat /\ N(l) \in Nat /\ R(l) <= N(l)
  <2> DEFINE U == {j \in D : ~Ahead(p, j, l)}
             V == {j \in D : p[j] >= p[l]}
  <2>1. U \subseteq V
    BY <1>1 DEF Ahead
  <2>2. IsFiniteSet(V) /\ IsFiniteSet(U)
    BY <1>1, FS_Subset
  <2>3. Cardinality(U) <= Cardinality(V)
    BY <2>1, <2>2, FS_Subset
  <2> QED BY <2>2, <2>3, FS_CardinalityType
<1>3. \A l \in D : f[l] \in Nat /\ (Significant(f[l], scale) <=> Significant(R(l) * p[l], scale))
  <2>1. SUFFICES ASSUME NEW l \in D
                 PROVE  f[l] \in Nat /\ (Significant(f[l], scale) <=> Significant(R(l) * p[l], scale))
    OBVIOUS
  <2>2. R(l) * p[l] \in Nat
    BY <1>1, <1>2, FactorGrows
  <2>3. f[l] = Less(scale, R(l) * p[l])
    OBVIOUS
  <2> HIDE DEF R, f
  <2> QED BY <2>2, <2>3, LessSignificant
<1>4. f \in [D -> Int]
  BY <1>3
<1>5. k \in J
  BY <1>1 DEF Ahead, Earlier, Comparisons
<1>6. Holm(p, scale)[k] = Max({f[l] : l \in J})
  <2>1. p # << >>
    BY <1>1
  <2>2. {f[l] : l \in J} = {Candidate(p, scale, l) : l \in {j \in D : ~Ahead(p, k, j)}}
    BY <1>1 DEF Candidate
  <2> HIDE DEF f, J
  <2> QED BY <1>1, <2>1, <2>2 DEF Holm
<1>7. Significant(Holm(p, scale)[k], scale) <=> \A l \in J : Significant(f[l], scale)
  <2> HIDE DEF f
  <2>1. J \in SUBSET D /\ J # {}
    BY <1>5
  <2> HIDE DEF J
  <2>2. /\ \E g \in J : Max({f[l] : l \in J}) = f[g]
        /\ \A l \in J : f[l] <= Max({f[j] : j \in J})
    BY <1>4, <2>1, MaxOf
  <2>3. PICK g \in J : Max({f[l] : l \in J}) = f[g] /\ \A l \in J : f[l] <= f[g]
    BY <2>2
  <2>4. \A l \in J : f[l] \in Nat
    BY <1>3, <2>1
  <2>5. Significant(f[g], scale) => \A l \in J : Significant(f[l], scale)
    BY <2>3, <2>4, SignificantBelow
  <2> QED BY <1>6, <2>3, <2>5
<1>8. Rejected(p, scale, k) <=> \A l \in D : p[l] <= p[k] => Significant(N(l) * p[l], scale)
  BY <1>1 DEF Rejected
<1> HIDE DEF f, N
<1>9. ASSUME \A l \in D : p[l] <= p[k] => Significant(N(l) * p[l], scale), NEW l \in J
      PROVE  Significant(f[l], scale)
  <2>1. l \in D /\ p[l] <= p[k] /\ p[l] \in Nat
    BY <1>1 DEF Ahead
  <2> HIDE DEF R, J
  <2>2. Significant(N(l) * p[l], scale)
    BY <1>9, <2>1
  <2>3. R(l) * p[l] \in Nat /\ N(l) * p[l] \in Nat /\ R(l) * p[l] <= N(l) * p[l]
    BY <1>2, <2>1, FactorGrows
  <2>4. Significant(R(l) * p[l], scale)
    BY <2>2, <2>3, SignificantBelow
  <2> QED BY <1>3, <2>1, <2>4
<1>10. ASSUME \A l \in J : Significant(f[l], scale), NEW l \in D, p[l] <= p[k]
       PROVE  Significant(N(l) * p[l], scale)
  <2> DEFINE T == {j \in D : p[j] = p[l]}
  <2>1. T \in SUBSET Comparisons /\ T # {}
    OBVIOUS
  <2>2. PICK g \in T : \A j \in T : ~Earlier(j, g)
    <3> HIDE DEF T
    <3> QED BY <2>1, FirstTested
  <2>3. {j \in D : ~Ahead(p, j, g)} = {j \in D : p[j] >= p[l]}
    BY <1>1, <2>2 DEF Ahead
  <2>4. R(g) = N(l) /\ p[g] = p[l] /\ g \in D
    BY <2>2, <2>3 DEF N
  <2>5. g \in J
    <3>1. CASE p[l] < p[k]
      BY <1>1, <2>4, <3>1 DEF Ahead
    <3>2. CASE p[l] = p[k]
      BY <1>1, <2>2, <2>4, <3>2 DEF Ahead
    <3> QED BY <1>1, <1>10, <3>1, <3>2
  <2> HIDE DEF R, J
  <2> QED BY <1>3, <1>10, <2>4, <2>5
<1> QED BY <1>7, <1>8, <1>9, <1>10

-----------------------------------------------------------------------------
(* The pairing *)

(* Sorted enumerates members of the set: the rank is an injection into as  *)
(* many numbers as there are members, hence onto them.                     *)
LEMMA SortedIn ==
  ASSUME NEW S \in SUBSET Nat, IsFiniteSet(S)
  PROVE  /\ DOMAIN Sorted(S) = 1..Cardinality(S)
         /\ \A i \in DOMAIN Sorted(S) : Sorted(S)[i] \in S
<1> DEFINE T == 1..Cardinality(S)
           upTo(n) == {m \in S : m <= n}
           rank == [n \in S |-> Cardinality(upTo(n))]
<1>1. Cardinality(S) \in Nat /\ IsFiniteSet(T) /\ Cardinality(T) = Cardinality(S)
  BY FS_CardinalityType, FS_Interval
<1>2. ASSUME NEW n \in S
      PROVE  IsFiniteSet(upTo(n)) /\ Cardinality(upTo(n)) \in T
  <2>1. upTo(n) \in SUBSET S /\ n \in upTo(n)
    OBVIOUS
  <2> HIDE DEF upTo
  <2>2. IsFiniteSet(upTo(n)) /\ Cardinality(upTo(n)) <= Cardinality(S)
    BY <2>1, FS_Subset
  <2>3. Cardinality(upTo(n)) \in Nat /\ Cardinality(upTo(n)) # 0
    BY <2>1, <2>2, FS_CardinalityType, FS_EmptySet
  <2> QED BY <1>1, <2>2, <2>3
<1>3. ASSUME NEW n \in S, NEW m \in S, n < m
      PROVE  Cardinality(upTo(n)) # Cardinality(upTo(m))
  <2>1. n \in Nat /\ m \in Nat /\ \A k \in S : k \in Nat
    OBVIOUS
  <2>2. m \in upTo(m) /\ m \notin upTo(n) /\ \A k \in upTo(n) : k \in upTo(m)
    BY <1>3, <2>1
  <2> HIDE DEF upTo
  <2>3. upTo(n) \in SUBSET upTo(m) /\ upTo(n) # upTo(m)
    BY <2>2
  <2> QED BY <1>2, <2>3, FS_Subset
<1>4. rank \in Injection(S, T)
  <2> HIDE DEF upTo, T
  <2>1. rank \in [S -> T]
    BY <1>2
  <2>2. ASSUME NEW n \in S, NEW m \in S, rank[n] = rank[m]
        PROVE  n = m
    <3>1. ~(n < m) /\ ~(m < n)
      BY <1>3, <2>2
    <3> QED BY <3>1
  <2> HIDE DEF rank
  <2> QED BY <2>1, <2>2 DEF Injection, IsInjective
<1>5. rank \in Surjection(S, T)
  BY <1>1, <1>4, FS_Injection
<1>6. ASSUME NEW i \in T
      PROVE  \E n \in S : Cardinality(upTo(n)) = i
  <2>1. PICK n \in S : rank[n] = i
    BY <1>5 DEF Surjection
  <2> QED BY <2>1
<1> HIDE DEF T
<1>7. Sorted(S) = [i \in T |-> CHOOSE n \in S : Cardinality(upTo(n)) = i]
  BY DEF Sorted, T
<1> HIDE DEF upTo
<1>8. ASSUME NEW i \in T PROVE Sorted(S)[i] \in S
  <2>1. Sorted(S)[i] = CHOOSE n \in S : Cardinality(upTo(n)) = i
    BY <1>7
  <2> QED BY <1>6, <2>1
<1> QED BY <1>7, <1>8 DEF T

RunRow == [strategy : Range(Primary), seed : RunSeeds, status : {"VALID", "INFRA"},
        value : Nat \cup {None}]

(* The rows of one campaign: a condition has one VALID row at most, and    *)
(* what its row holds is what this campaign measured.                      *)
LedgerOfRuns ==
  /\ rows \in Seq(RunRow)
  /\ rows # << >> => measured \in [Range(Primary) \X RunSeeds -> Nat]
  /\ \A i, j \in Load : rows[i].strategy = rows[j].strategy /\ rows[i].seed = rows[j].seed => i = j
  /\ \A i \in Load : rows[i].value # None => rows[i].value = measured[<<rows[i].strategy, rows[i].seed>>]

(* The value that a condition has was measured by it. *)
LEMMA SeedsByStrategy ==
  ASSUME LedgerOfRuns, NEW s \in Range(Primary), NEW n \in RunSeeds, BySeed[s][n] # None
  PROVE  BySeed[s][n] = measured[<<s, n>>]
<1> DEFINE Of == {i \in Load : rows[i].strategy = s /\ rows[i].seed = n}
<1>1. BySeed[s][n] = IF Of = {} THEN None ELSE rows[Max(Of)].value
  BY DEF BySeed
<1>2. PICK i \in Of : TRUE
  BY <1>1
<1>3. Of = {i}
  BY <1>2 DEF LedgerOfRuns
<1>4. i \in Int
  <2>1. i \in DOMAIN rows /\ rows \in Seq(RunRow)
    BY <1>2 DEF Load, LedgerOfRuns
  <2> QED BY <2>1
<1> HIDE DEF Of
<1>5. Max(Of) = i
  BY <1>3, <1>4 DEF Max
<1>6. rows[i].strategy = s /\ rows[i].seed = n /\ i \in Load
  BY <1>2 DEF Of
<1>7. BySeed[s][n] = rows[i].value
  BY <1>1, <1>3, <1>5
<1> QED BY <1>6, <1>7 DEF LedgerOfRuns

LEMMA PairsFromLedger ==
  ASSUME LedgerOfRuns
  PROVE  PairsStayPairs
<1> DEFINE S == {n \in RunSeeds : \A s \in Range(Primary) : BySeed[s][n] # None}
           seeds == Sorted(S)
<1>1. S \in SUBSET RunSeeds /\ S \in SUBSET Nat /\ IsFiniteSet(S)
  <2>1. RunSeeds \subseteq Nat /\ IsFiniteSet(RunSeeds)
    BY AnalysisAssumption
  <2>2. S \in SUBSET RunSeeds
    OBVIOUS
  <2> HIDE DEF S
  <2> QED BY <2>1, <2>2, FS_Subset
<1>2. \A i \in DOMAIN seeds : seeds[i] \in S
  BY <1>1, SortedIn
<1>3. \A s \in Range(Primary) : PairedSeries[s] = [i \in DOMAIN seeds |-> BySeed[s][seeds[i]]]
  BY DEF PairedSeries
<1>4. \A s \in Range(Primary), n \in S : BySeed[s][n] = measured[<<s, n>>]
  BY SeedsByStrategy
<1>5. seeds \in {Sorted(U) : U \in SUBSET RunSeeds}
  BY <1>1
<1> HIDE DEF S, seeds
<1>6. ASSUME NEW s \in Range(Primary)
      PROVE  PairedSeries[s] = [i \in DOMAIN seeds |-> measured[<<s, seeds[i]>>]]
  <2>1. \A i \in DOMAIN seeds : BySeed[s][seeds[i]] = measured[<<s, seeds[i]>>]
    BY <1>2, <1>4
  <2> QED BY <1>3, <2>1
<1> QED BY <1>5, <1>6 DEF PairsStayPairs

(* A new row leaves the others as they are, and its condition had none. *)
LEMMA AddRowKeepsLedger ==
  ASSUME LedgerOfRuns, NEW s \in Range(Primary), NEW n \in RunSeeds,
         NEW status \in {"VALID", "INFRA"}, NEW recorded \in BOOLEAN,
         AddRow(s, n, status, recorded)
  PROVE  LedgerOfRuns'
<1> USE AnalysisAssumption
<1> DEFINE row == [strategy |-> s, seed |-> n, status |-> status,
                   value |-> IF ~recorded THEN None
                             ELSE IF status = "VALID" THEN measured'[<<s, n>>]
                             ELSE measured'[<<s, n>>] + 100]
           len == Len(rows)
<1>1. rows' = Append(rows, row) /\ <<s, n>> \notin Done
  BY DEF AddRow
<1>2. measured' \in [Range(Primary) \X RunSeeds -> Nat]
  <2>1. CASE rows = << >>
    BY <2>1 DEF AddRow
  <2>2. CASE rows # << >>
    BY <2>2 DEF AddRow, LedgerOfRuns
  <2> QED BY <2>1, <2>2
<1>3. row \in RunRow
  <2>1. measured'[<<s, n>>] \in Nat
    BY <1>2
  <2> QED BY <2>1 DEF RunRow
<1>4. row.strategy = s /\ row.seed = n /\ row.status = status
  OBVIOUS
<1>5. status = "VALID" => row.value = None \/ row.value = measured'[<<s, n>>]
  OBVIOUS
<1> HIDE DEF row
<1>6. /\ rows \in Seq(RunRow) /\ rows' \in Seq(RunRow) /\ len \in Nat
      /\ DOMAIN rows = 1..len /\ DOMAIN rows' = 1..len + 1
      /\ rows'[len + 1] = row /\ \A i \in 1..len : rows'[i] = rows[i]
  BY <1>1, <1>3 DEF LedgerOfRuns
<1> HIDE DEF len
<1>7. /\ \A i \in Load' : i \in Load \/ (i = len + 1 /\ status = "VALID")
      /\ \A i \in Load : i \in 1..len /\ rows'[i] = rows[i]
  BY <1>4, <1>6 DEF Load
<1>8. \A i \in Load : ~(rows[i].strategy = s /\ rows[i].seed = n)
  BY <1>1 DEF Done, Failed, Load
<1>9. \A i, j \in Load' :
        rows'[i].strategy = rows'[j].strategy /\ rows'[i].seed = rows'[j].seed => i = j
  <2>1. SUFFICES ASSUME NEW i \in Load', NEW j \in Load',
                        rows'[i].strategy = rows'[j].strategy, rows'[i].seed = rows'[j].seed
                 PROVE  i = j
    OBVIOUS
  <2>2. CASE i \in Load /\ j \in Load
    BY <1>7, <2>1, <2>2 DEF LedgerOfRuns
  <2>3. CASE i = len + 1 \/ j = len + 1
    BY <1>4, <1>6, <1>7, <1>8, <2>1, <2>3
  <2> QED BY <1>7, <2>2, <2>3
<1>10. ASSUME NEW i \in Load', rows'[i].value # None
       PROVE  rows'[i].value = measured'[<<rows'[i].strategy, rows'[i].seed>>]
  <2>1. CASE i \in Load
    <3>1. rows # << >> /\ rows'[i] = rows[i]
      BY <1>6, <1>7, <2>1
    <3>2. measured' = measured
      BY <3>1 DEF AddRow
    <3>3. rows[i].value = measured[<<rows[i].strategy, rows[i].seed>>]
      BY <1>10, <2>1, <3>1 DEF LedgerOfRuns
    <3> QED BY <3>1, <3>2, <3>3
  <2>2. CASE i = len + 1 /\ status = "VALID"
    BY <1>4, <1>5, <1>6, <1>10, <2>2
  <2> QED BY <1>7, <2>1, <2>2
<1> QED BY <1>2, <1>6, <1>9, <1>10 DEF LedgerOfRuns

(* The rest of the analysis reads the ledger. *)
LEMMA SameLedger ==
  ASSUME LedgerOfRuns, rows' = rows, measured' = measured
  PROVE  LedgerOfRuns'
BY DEF LedgerOfRuns, Load

-----------------------------------------------------------------------------
(* The report *)

(* What the rows determine. *)
LEMMA SameSeries ==
  ASSUME rows' = rows
  PROVE  PairedSeries' = PairedSeries /\ Producing' = Producing
BY DEF PairedSeries, BySeed, Producing, Load

(* What ReportIsHonest says of each record, given the tests that applied.  *)
Honest(records, p) ==
  LET tested == DOMAIN p
      Passes(k) == Significant(Cardinality({l \in tested : p[l] >= p[k]}) * p[k], 1000)
  IN \A r \in records :
       /\ r.about # Whole => {q.about : q \in records} = Comparisons
       /\ r.kind = "finding" <=> /\ r.about \in tested
                                /\ \A k \in tested : p[k] <= p[r.about] => Passes(k)

LEMMA WholeIsNoPair == Whole \notin Comparisons
BY ThreeComparisons DEF Whole

(* Records that say nothing of a pair. *)
LEMMA WholeHonest ==
  ASSUME NEW p, DOMAIN p \subseteq Comparisons
  PROVE  Honest({Record("non-finding", Whole)}, p) /\ Honest({}, p)
<1> DEFINE records == {Record("non-finding", Whole)}
<1>1. \A r \in records :
        r.kind # "finding" /\ r.about = Whole /\ r.about \notin DOMAIN p
  BY WholeIsNoPair DEF Record
<1> HIDE DEF records
<1>2. Honest(records, p)
  BY <1>1, Zenon DEF Honest
<1>3. Honest({}, p)
  BY Zenon DEF Honest
<1> QED BY <1>2, <1>3 DEF records

(* Records that say something of each pair. *)
LEMMA PairsHonest ==
  ASSUME NEW testable \in SUBSET Comparisons, NEW p \in [testable -> PValues]
  PROVE  Honest(PairRecords(p, 1000), p)
<1> DEFINE kind(k) == IF k \in testable /\ Significant(Holm(p, 1000)[k], 1000)
                      THEN "finding" ELSE "non-finding"
           records == PairRecords(p, 1000)
<1>1. p \in [testable -> Nat] /\ DOMAIN p = testable
  <2>1. PValues \subseteq 0..1000
    BY AnalysisAssumption
  <2>2. \A x \in PValues : x \in Nat
    BY <2>1
  <2>3. \A k \in testable : p[k] \in Nat
    BY <2>2
  <2> QED BY <2>3
<1>2. records = {Record(kind(k), k) : k \in Comparisons}
  BY <1>1 DEF PairRecords
<1>3. \A k \in testable : Significant(Holm(p, 1000)[k], 1000) <=> Rejected(p, 1000, k)
  BY <1>1, HolmRejects
<1>4. ASSUME NEW k \in testable
      PROVE  Rejected(p, 1000, k) <=>
               \A l \in testable : p[l] <= p[k] =>
                 Significant(Cardinality({j \in testable : p[j] >= p[l]}) * p[l], 1000)
  BY <1>1 DEF Rejected
<1>5. \A k \in Comparisons : kind(k) = "finding" <=>
        k \in testable /\ Rejected(p, 1000, k)
  <2>1. ASSUME NEW k \in Comparisons
        PROVE  kind(k) = "finding" <=> k \in testable /\ Significant(Holm(p, 1000)[k], 1000)
    OBVIOUS
  <2> HIDE DEF kind
  <2> QED BY <1>3, <2>1
<1> HIDE DEF kind
<1>6. \A k \in Comparisons : Record(kind(k), k).kind = kind(k) /\ Record(kind(k), k).about = k
  BY DEF Record
<1>7. records # {} /\ {q.about : q \in records} = Comparisons
  BY <1>2, <1>6, ThreeComparisons
<1>8. ASSUME NEW r \in records
      PROVE  r.kind = "finding" <=>
               /\ r.about \in testable
               /\ \A l \in testable : p[l] <= p[r.about] =>
                    Significant(Cardinality({j \in testable : p[j] >= p[l]}) * p[l], 1000)
  <2>1. PICK k \in Comparisons : r = Record(kind(k), k)
    BY <1>2
  <2>2. r.about = k /\ r.kind = kind(k)
    BY <1>6, <2>1
  <2> QED BY <1>4, <1>5, <2>2
<1> HIDE DEF records
<1>9. ASSUME NEW r \in records, NEW tested, tested = testable
      PROVE  r.kind = "finding" <=>
               /\ r.about \in tested
               /\ \A l \in tested : p[l] <= p[r.about] =>
                    Significant(Cardinality({j \in tested : p[j] >= p[l]}) * p[l], 1000)
  BY <1>8, <1>9
<1>10. PICK tested : tested = DOMAIN p /\ tested = testable
  BY <1>1
<1>11. \A r \in records :
         r.kind = "finding" <=>
           /\ r.about \in tested
           /\ \A l \in tested : p[l] <= p[r.about] =>
                Significant(Cardinality({j \in tested : p[j] >= p[l]}) * p[l], 1000)
  BY <1>9, <1>10
<1>12. Honest(records, p) <=>
         \A r \in records :
           /\ r.about # Whole => {q.about : q \in records} = Comparisons
           /\ r.kind = "finding" <=>
                /\ r.about \in tested
                /\ \A l \in tested : p[l] <= p[r.about] =>
                     Significant(Cardinality({j \in tested : p[j] >= p[l]}) * p[l], 1000)
  BY <1>10 DEF Honest
<1>13. Honest(records, p)
  BY <1>7, <1>11, <1>12
<1> QED BY <1>13 DEF records

(* A report is honest when it is made. *)
LEMMA ReportHonest ==
  ASSUME Describe \/ Compare
  PROVE  ReportIsHonest'
<1> DEFINE produced == Producing # {}
<1>1. Testable(PairedSeries) \subseteq Comparisons
  BY DEF Testable
<1>2. (Producing # {})' = produced
  <2>1. rows' = rows
    BY DEF Describe, Compare, Report
  <2> QED BY <2>1, SameSeries
<1>3. report'.records = {} => ~produced
  <2>1. CASE Describe
    BY <2>1 DEF Describe, Report, Untested
  <2>2. CASE Compare
    <3>1. \E friedman, w : report'.records = Continuous(friedman, w)
      BY <2>2 DEF Compare, Report
    <3>2. \A p : PairRecords(p, 1000) # {}
      BY ThreeComparisons DEF PairRecords
    <3> QED BY <3>1, <3>2 DEF Continuous
  <2> QED BY <2>1, <2>2
<1>4. Honest(report'.records, report'.p)
  <2>1. CASE Describe
    <3>1. report'.records = {Record("non-finding", Whole)} \/ report'.records = {}
      BY <2>1 DEF Describe, Report, Untested
    <3>2. DOMAIN report'.p = {}
      BY <2>1 DEF Describe, Report
    <3> QED BY <3>1, <3>2, WholeHonest
  <2>2. CASE Compare
    <3>1. PICK friedman \in PValues, answering \in SUBSET Comparisons :
            \E w \in [answering -> PValues] :
              report'.p = w /\ report'.records = Continuous(friedman, w)
      BY <1>1, <2>2 DEF Compare, Report
    <3>0. PICK w \in [answering -> PValues] :
            report'.p = w /\ report'.records = Continuous(friedman, w)
      BY <3>1
    <3>2. \/ report'.records = {Record("non-finding", Whole)}
          \/ report'.records = PairRecords(w, 1000)
      BY <3>0 DEF Continuous
    <3> QED BY <3>0, <3>2, WholeHonest, PairsHonest
  <2> QED BY <2>1, <2>2
<1>5. ReportIsHonest' <=>
        (report' # None =>
           /\ (Producing # {})' => report'.records # {}
           /\ Honest(report'.records, report'.p))
  BY DEF ReportIsHonest, Honest
<1> HIDE DEF produced
<1> QED BY <1>2, <1>3, <1>4, <1>5

-----------------------------------------------------------------------------
(* The order of the strategies *)

(* The patterns of three binary outcomes. *)
LEMMA EightPatterns ==
  /\ \A a, b, c \in {0, 1} : <<a, b, c>> \in Patterns
  /\ \A p \in Patterns : p = <<p[1], p[2], p[3]>> /\ p[1] \in {0, 1} /\ p[2] \in {0, 1} /\ p[3] \in {0, 1}
BY DEF Patterns

(* The counts one by one. *)
LEMMA Counted ==
  ASSUME NEW t \in [Patterns -> Nat]
  PROVE  LET n(a, b, c) == t[<<a, b, c>>]
         IN /\ \A a, b, c \in {0, 1} : n(a, b, c) \in Nat
            /\ Paired(t) = n(0, 0, 0) + n(0, 0, 1) + n(0, 1, 0) + n(0, 1, 1)
                              + n(1, 0, 0) + n(1, 0, 1) + n(1, 1, 0) + n(1, 1, 1)
            /\ Successes(t, 1) = n(1, 0, 0) + n(1, 0, 1) + n(1, 1, 0) + n(1, 1, 1)
            /\ Successes(t, 2) = n(0, 1, 0) + n(0, 1, 1) + n(1, 1, 0) + n(1, 1, 1)
            /\ Successes(t, 3) = n(0, 0, 1) + n(0, 1, 1) + n(1, 0, 1) + n(1, 1, 1)
            /\ RowsWith(t, 1) = n(0, 0, 1) + n(0, 1, 0) + n(1, 0, 0)
            /\ RowsWith(t, 2) = n(0, 1, 1) + n(1, 0, 1) + n(1, 1, 0)
            /\ RowsWith(t, 3) = n(1, 1, 1)
            /\ Discordant(t, 1, 2) = n(1, 0, 0) + n(1, 0, 1)
            /\ Discordant(t, 2, 1) = n(0, 1, 0) + n(0, 1, 1)
            /\ Discordant(t, 1, 3) = n(1, 0, 0) + n(1, 1, 0)
            /\ Discordant(t, 3, 1) = n(0, 0, 1) + n(0, 1, 1)
            /\ Discordant(t, 2, 3) = n(0, 1, 0) + n(1, 1, 0)
            /\ Discordant(t, 3, 2) = n(0, 0, 1) + n(1, 0, 1)
<1> DEFINE n(a, b, c) == t[<<a, b, c>>]
<1>1. \A a, b, c \in {0, 1} : n(a, b, c) \in Nat
  BY EightPatterns
<1>2. \A a, b, c \in {0, 1} : /\ <<a, b, c>> \in Patterns
        /\ <<a, b, c>>[1] = a /\ <<a, b, c>>[2] = b /\ <<a, b, c>>[3] = c
  BY EightPatterns
<1>3. Paired(t) = n(0, 0, 0) + n(0, 0, 1) + n(0, 1, 0) + n(0, 1, 1)
                    + n(1, 0, 0) + n(1, 0, 1) + n(1, 1, 0) + n(1, 1, 1)
  BY <1>1, <1>2 DEF Paired, Count
<1>4. /\ Successes(t, 1) = n(1, 0, 0) + n(1, 0, 1) + n(1, 1, 0) + n(1, 1, 1)
      /\ Successes(t, 2) = n(0, 1, 0) + n(0, 1, 1) + n(1, 1, 0) + n(1, 1, 1)
      /\ Successes(t, 3) = n(0, 0, 1) + n(0, 1, 1) + n(1, 0, 1) + n(1, 1, 1)
  BY <1>1, <1>2 DEF Successes, Count
<1>5. /\ RowsWith(t, 1) = n(0, 0, 1) + n(0, 1, 0) + n(1, 0, 0)
      /\ RowsWith(t, 2) = n(0, 1, 1) + n(1, 0, 1) + n(1, 1, 0)
      /\ RowsWith(t, 3) = n(1, 1, 1)
  BY <1>1, <1>2 DEF RowsWith, RowTotal, Count
<1>6. /\ Discordant(t, 1, 2) = n(1, 0, 0) + n(1, 0, 1)
      /\ Discordant(t, 2, 1) = n(0, 1, 0) + n(0, 1, 1)
      /\ Discordant(t, 1, 3) = n(1, 0, 0) + n(1, 1, 0)
      /\ Discordant(t, 3, 1) = n(0, 0, 1) + n(0, 1, 1)
      /\ Discordant(t, 2, 3) = n(0, 1, 0) + n(1, 1, 0)
      /\ Discordant(t, 3, 2) = n(0, 0, 1) + n(1, 0, 1)
  BY <1>1, <1>2 DEF Discordant, Count
<1> QED BY <1>1, <1>3, <1>4, <1>5, <1>6

(* Two neighbours change places: in a table, and in a pair of conditions.  *)
SwapIn(t, i) ==
  [p \in Patterns |-> t[<<p[Swapped(i, 1)], p[Swapped(i, 2)], p[Swapped(i, 3)]>>]]

Turn(i) ==
  [k \in Comparisons |->
     IF Swapped(i, k[1]) < Swapped(i, k[2]) THEN <<Swapped(i, k[1]), Swapped(i, k[2])>>
     ELSE <<Swapped(i, k[2]), Swapped(i, k[1])>>]

(* What exchanging two neighbours does to a table, pattern by pattern. *)
LEMMA SwapTable ==
  ASSUME NEW t \in [Patterns -> Nat], NEW i \in 1..2
  PROVE  /\ SwapIn(t, i) \in [Patterns -> Nat]
         /\ i = 1 => \A a, b, c \in {0, 1} : SwapIn(t, i)[<<a, b, c>>] = t[<<b, a, c>>]
         /\ i = 2 => \A a, b, c \in {0, 1} : SwapIn(t, i)[<<a, b, c>>] = t[<<a, c, b>>]
<1>1. /\ Swapped(1, 1) = 2 /\ Swapped(1, 2) = 1 /\ Swapped(1, 3) = 3
      /\ Swapped(2, 1) = 1 /\ Swapped(2, 2) = 3 /\ Swapped(2, 3) = 2
  BY DEF Swapped
<1>0. ASSUME NEW p \in Patterns
      PROVE  SwapIn(t, i)[p] = t[<<p[Swapped(i, 1)], p[Swapped(i, 2)], p[Swapped(i, 3)]>>]
  BY DEF SwapIn
<1>2. ASSUME i = 1, NEW a \in {0, 1}, NEW b \in {0, 1}, NEW c \in {0, 1}
      PROVE  SwapIn(t, i)[<<a, b, c>>] = t[<<b, a, c>>]
  <2> DEFINE q == <<a, b, c>>
  <2>1. q \in Patterns /\ q[1] = a /\ q[2] = b /\ q[3] = c
    BY EightPatterns
  <2> HIDE DEF q
  <2>2. Swapped(i, 1) = 2 /\ Swapped(i, 2) = 1 /\ Swapped(i, 3) = 3
    BY <1>1, <1>2
  <2>3. SwapIn(t, i)[q] = t[<<q[2], q[1], q[3]>>]
    BY <1>0, <2>1, <2>2
  <2> QED BY <2>1, <2>3 DEF q
<1>3. ASSUME i = 2, NEW a \in {0, 1}, NEW b \in {0, 1}, NEW c \in {0, 1}
      PROVE  SwapIn(t, i)[<<a, b, c>>] = t[<<a, c, b>>]
  <2> DEFINE q == <<a, b, c>>
  <2>1. q \in Patterns /\ q[1] = a /\ q[2] = b /\ q[3] = c
    BY EightPatterns
  <2> HIDE DEF q
  <2>2. Swapped(i, 1) = 1 /\ Swapped(i, 2) = 3 /\ Swapped(i, 3) = 2
    BY <1>1, <1>3
  <2>3. SwapIn(t, i)[q] = t[<<q[1], q[3], q[2]>>]
    BY <1>0, <2>1, <2>2
  <2> QED BY <2>1, <2>3 DEF q
<1>4. \A a, b, c \in {0, 1} : t[<<a, b, c>>] \in Nat
  BY EightPatterns
<1>5. \A p \in Patterns : SwapIn(t, i)[p] \in Nat
  BY <1>2, <1>3, <1>4, EightPatterns
<1>6. SwapIn(t, i) \in [Patterns -> Nat]
  <2>1. SwapIn(t, i) = [p \in Patterns |-> SwapIn(t, i)[p]]
    BY DEF SwapIn
  <2> QED BY <1>5, <2>1
<1> QED BY <1>2, <1>3, <1>6

(* What it does to a pair of conditions: done twice it does nothing. *)
LEMMA Turned ==
  ASSUME NEW i \in 1..2
  PROVE  /\ i = 1 => /\ Turn(i)[<<1, 2>>] = <<1, 2>>
                     /\ Turn(i)[<<1, 3>>] = <<2, 3>>
                     /\ Turn(i)[<<2, 3>>] = <<1, 3>>
         /\ i = 2 => /\ Turn(i)[<<1, 2>>] = <<1, 3>>
                     /\ Turn(i)[<<1, 3>>] = <<1, 2>>
                     /\ Turn(i)[<<2, 3>>] = <<2, 3>>
         /\ \A k \in Comparisons : Turn(i)[k] \in Comparisons /\ Turn(i)[Turn(i)[k]] = k
         /\ \A k \in Comparisons :
              {Turn(i)[k][1], Turn(i)[k][2]} = {Swapped(i, j) : j \in {k[1], k[2]}}
<1>1. /\ Swapped(1, 1) = 2 /\ Swapped(1, 2) = 1 /\ Swapped(1, 3) = 3
      /\ Swapped(2, 1) = 1 /\ Swapped(2, 2) = 3 /\ Swapped(2, 3) = 2
  BY DEF Swapped
<1>2. <<1, 2>> \in Comparisons /\ <<1, 3>> \in Comparisons /\ <<2, 3>> \in Comparisons
  BY ThreeComparisons
<1>3. i = 1 => /\ Turn(i)[<<1, 2>>] = <<1, 2>>
               /\ Turn(i)[<<1, 3>>] = <<2, 3>>
               /\ Turn(i)[<<2, 3>>] = <<1, 3>>
  BY <1>1, <1>2 DEF Turn
<1>4. i = 2 => /\ Turn(i)[<<1, 2>>] = <<1, 3>>
               /\ Turn(i)[<<1, 3>>] = <<1, 2>>
               /\ Turn(i)[<<2, 3>>] = <<2, 3>>
  BY <1>1, <1>2 DEF Turn
<1>5. \A k \in Comparisons : Turn(i)[k] \in Comparisons /\ Turn(i)[Turn(i)[k]] = k
  BY <1>3, <1>4, ThreeComparisons
<1>6. ASSUME NEW k \in Comparisons
      PROVE  {Turn(i)[k][1], Turn(i)[k][2]} = {Swapped(i, j) : j \in {k[1], k[2]}}
  <2>1. {Swapped(i, j) : j \in {k[1], k[2]}} = {Swapped(i, k[1]), Swapped(i, k[2])}
    OBVIOUS
  <2>2. Turn(i)[k] = <<Swapped(i, k[1]), Swapped(i, k[2])>>
          \/ Turn(i)[k] = <<Swapped(i, k[2]), Swapped(i, k[1])>>
    BY DEF Turn
  <2> QED BY <2>1, <2>2
<1> QED BY <1>3, <1>4, <1>5, <1>6

(* What it does to the counts. *)
LEMMA SwapCounts ==
  ASSUME NEW t \in [Patterns -> Nat], NEW i \in 1..2
  PROVE  LET u == SwapIn(t, i)
         IN /\ Paired(u) = Paired(t)
            /\ \A m \in 1..3 : RowsWith(u, m) = RowsWith(t, m)
            /\ u[<<0, 0, 0>>] = t[<<0, 0, 0>>] /\ u[<<1, 1, 1>>] = t[<<1, 1, 1>>]
            /\ i = 1 => /\ Successes(u, 1) = Successes(t, 2)
                        /\ Successes(u, 2) = Successes(t, 1)
                        /\ Successes(u, 3) = Successes(t, 3)
                        /\ Discordant(u, 1, 2) = Discordant(t, 2, 1)
                        /\ Discordant(u, 2, 1) = Discordant(t, 1, 2)
                        /\ Discordant(u, 1, 3) = Discordant(t, 2, 3)
                        /\ Discordant(u, 3, 1) = Discordant(t, 3, 2)
                        /\ Discordant(u, 2, 3) = Discordant(t, 1, 3)
                        /\ Discordant(u, 3, 2) = Discordant(t, 3, 1)
            /\ i = 2 => /\ Successes(u, 1) = Successes(t, 1)
                        /\ Successes(u, 2) = Successes(t, 3)
                        /\ Successes(u, 3) = Successes(t, 2)
                        /\ Discordant(u, 1, 2) = Discordant(t, 1, 3)
                        /\ Discordant(u, 2, 1) = Discordant(t, 3, 1)
                        /\ Discordant(u, 1, 3) = Discordant(t, 1, 2)
                        /\ Discordant(u, 3, 1) = Discordant(t, 2, 1)
                        /\ Discordant(u, 2, 3) = Discordant(t, 3, 2)
                        /\ Discordant(u, 3, 2) = Discordant(t, 2, 3)
<1> DEFINE u == SwapIn(t, i)
           n(a, b, c) == t[<<a, b, c>>]
           m(a, b, c) == u[<<a, b, c>>]
<1>1. u \in [Patterns -> Nat]
  BY SwapTable
<1>2. i = 1 => \A a, b, c \in {0, 1} : m(a, b, c) = n(b, a, c)
  BY SwapTable
<1>3. i = 2 => \A a, b, c \in {0, 1} : m(a, b, c) = n(a, c, b)
  BY SwapTable
<1>4. \A a, b, c \in {0, 1} : n(a, b, c) \in Nat /\ m(a, b, c) \in Nat
  BY <1>1, EightPatterns
<1> HIDE DEF u
<1>5. CASE i = 1
  <2>1. /\ m(0, 0, 0) = n(0, 0, 0) /\ m(0, 0, 1) = n(0, 0, 1)
        /\ m(0, 1, 0) = n(1, 0, 0) /\ m(0, 1, 1) = n(1, 0, 1)
        /\ m(1, 0, 0) = n(0, 1, 0) /\ m(1, 0, 1) = n(0, 1, 1)
        /\ m(1, 1, 0) = n(1, 1, 0) /\ m(1, 1, 1) = n(1, 1, 1)
    BY <1>2, <1>5
  <2>2. Paired(u) = Paired(t)
    BY <1>1, <1>4, <2>1, Counted
  <2>3. /\ RowsWith(u, 1) = RowsWith(t, 1) /\ RowsWith(u, 2) = RowsWith(t, 2)
        /\ RowsWith(u, 3) = RowsWith(t, 3)
    BY <1>1, <1>4, <2>1, Counted
  <2>4. /\ Successes(u, 1) = Successes(t, 2)
        /\ Successes(u, 2) = Successes(t, 1)
        /\ Successes(u, 3) = Successes(t, 3)
    BY <1>1, <1>4, <2>1, Counted
  <2>5. /\ Discordant(u, 1, 2) = Discordant(t, 2, 1)
        /\ Discordant(u, 2, 1) = Discordant(t, 1, 2)
        /\ Discordant(u, 1, 3) = Discordant(t, 2, 3)
        /\ Discordant(u, 3, 1) = Discordant(t, 3, 2)
        /\ Discordant(u, 2, 3) = Discordant(t, 1, 3)
        /\ Discordant(u, 3, 2) = Discordant(t, 3, 1)
    BY <1>1, <1>4, <2>1, Counted
  <2> QED BY <1>5, <2>1, <2>2, <2>3, <2>4, <2>5 DEF u
<1>6. CASE i = 2
  <2>1. /\ m(0, 0, 0) = n(0, 0, 0) /\ m(0, 0, 1) = n(0, 1, 0)
        /\ m(0, 1, 0) = n(0, 0, 1) /\ m(0, 1, 1) = n(0, 1, 1)
        /\ m(1, 0, 0) = n(1, 0, 0) /\ m(1, 0, 1) = n(1, 1, 0)
        /\ m(1, 1, 0) = n(1, 0, 1) /\ m(1, 1, 1) = n(1, 1, 1)
    BY <1>3, <1>6
  <2>2. Paired(u) = Paired(t)
    BY <1>1, <1>4, <2>1, Counted
  <2>3. /\ RowsWith(u, 1) = RowsWith(t, 1) /\ RowsWith(u, 2) = RowsWith(t, 2)
        /\ RowsWith(u, 3) = RowsWith(t, 3)
    BY <1>1, <1>4, <2>1, Counted
  <2>4. /\ Successes(u, 1) = Successes(t, 1)
        /\ Successes(u, 2) = Successes(t, 3)
        /\ Successes(u, 3) = Successes(t, 2)
    BY <1>1, <1>4, <2>1, Counted
  <2>5. /\ Discordant(u, 1, 2) = Discordant(t, 1, 3)
        /\ Discordant(u, 2, 1) = Discordant(t, 3, 1)
        /\ Discordant(u, 1, 3) = Discordant(t, 1, 2)
        /\ Discordant(u, 3, 1) = Discordant(t, 2, 1)
        /\ Discordant(u, 2, 3) = Discordant(t, 3, 2)
        /\ Discordant(u, 3, 2) = Discordant(t, 2, 3)
    BY <1>1, <1>4, <2>1, Counted
  <2> QED BY <1>6, <2>1, <2>2, <2>3, <2>4, <2>5 DEF u
<1> QED BY <1>5, <1>6

(* The statistic of Cochran is symmetric in the conditions. *)
LEMMA SwapCochran ==
  ASSUME NEW t \in [Patterns -> Nat], NEW i \in 1..2
  PROVE  CochranSignificant(SwapIn(t, i)) <=> CochranSignificant(t)
<1> DEFINE u == SwapIn(t, i)
           W(grand, squares, d) ==
             LET numerator == 2 * (3 * squares - grand * grand)
                 denominator == 3 * grand - d
             IN denominator # 0 /\ numerator * 100000 > 599146 * denominator
           Q(a, b, c, d) == W(a + b + c, a * a + b * b + c * c, d)
           D(v) == RowsWith(v, 1) + 4 * RowsWith(v, 2) + 9 * RowsWith(v, 3)
<1>1. u \in [Patterns -> Nat]
  BY SwapTable
<1>2. \A j \in 1..3 : Successes(t, j) \in Nat /\ Successes(u, j) \in Nat
  <2>1. \A v \in [Patterns -> Nat] : \A a, b, c \in {0, 1} : v[<<a, b, c>>] \in Nat
    BY EightPatterns
  <2> HIDE DEF u
  <2>2. \A v \in [Patterns -> Nat] :
          Successes(v, 1) \in Nat /\ Successes(v, 2) \in Nat /\ Successes(v, 3) \in Nat
    BY <2>1, Counted
  <2> QED BY <1>1, <2>2
<1> HIDE DEF u
<1>3. D(u) = D(t)
  BY SwapCounts DEF u
<1>4. /\ CochranSignificant(t) <=> Q(Successes(t, 1), Successes(t, 2), Successes(t, 3), D(t))
      /\ CochranSignificant(u) <=> Q(Successes(u, 1), Successes(u, 2), Successes(u, 3), D(u))
  BY DEF CochranSignificant
<1> HIDE DEF D, W
<1>5. \A a, b, c \in Nat : \A d : (Q(b, a, c, d) <=> Q(a, b, c, d)) /\ (Q(a, c, b, d) <=> Q(a, b, c, d))
  <2>1. SUFFICES ASSUME NEW a \in Nat, NEW b \in Nat, NEW c \in Nat, NEW d
                 PROVE  (Q(b, a, c, d) <=> Q(a, b, c, d)) /\ (Q(a, c, b, d) <=> Q(a, b, c, d))
    OBVIOUS
  <2>2. \A x, y, z \in Nat : x + y + z = y + x + z /\ x + y + z = x + z + y
    OBVIOUS
  <2>3. a * a \in Nat /\ b * b \in Nat /\ c * c \in Nat
    OBVIOUS
  <2>4. /\ b + a + c = a + b + c /\ a + c + b = a + b + c
        /\ b * b + a * a + c * c = a * a + b * b + c * c
        /\ a * a + c * c + b * b = a * a + b * b + c * c
    BY <2>2, <2>3
  <2> QED BY <2>4, Zenon
<1> HIDE DEF Q
<1>6. CASE i = 1
  <2>1. Successes(u, 1) = Successes(t, 2) /\ Successes(u, 2) = Successes(t, 1)
          /\ Successes(u, 3) = Successes(t, 3)
    BY <1>6, SwapCounts DEF u
  <2> QED BY <1>2, <1>3, <1>4, <1>5, <2>1 DEF u
<1>7. CASE i = 2
  <2>1. Successes(u, 1) = Successes(t, 1) /\ Successes(u, 2) = Successes(t, 3)
          /\ Successes(u, 3) = Successes(t, 2)
    BY <1>7, SwapCounts DEF u
  <2> QED BY <1>2, <1>3, <1>4, <1>5, <2>1 DEF u
<1> QED BY <1>6, <1>7

(* So is whether the test applies. *)
LEMMA SwapApplicable ==
  ASSUME NEW t \in [Patterns -> Nat], NEW i \in 1..2
  PROVE  Applicable(SwapIn(t, i)) <=> Applicable(t)
<1>1. ASSUME NEW v \in [Patterns -> Nat]
      PROVE  Applicable(v) <=>
               /\ Paired(v) >= 3
               /\ v[<<0, 0, 0>>] # Paired(v) /\ v[<<1, 1, 1>>] # Paired(v)
  <2>1. \A p \in Patterns : RowTotal(p) \in {0, 3} <=> p \in {<<0, 0, 0>>, <<1, 1, 1>>}
    BY EightPatterns DEF RowTotal
  <2>2. <<0, 0, 0>> \in Patterns /\ <<1, 1, 1>> \in Patterns
    BY EightPatterns
  <2> QED BY <2>1, <2>2 DEF Applicable
<1> DEFINE u == SwapIn(t, i)
<1>2. u \in [Patterns -> Nat]
  BY SwapTable
<1>3. Paired(u) = Paired(t) /\ u[<<0, 0, 0>>] = t[<<0, 0, 0>>] /\ u[<<1, 1, 1>>] = t[<<1, 1, 1>>]
  BY SwapCounts
<1> HIDE DEF u
<1> QED BY <1>1, <1>2, <1>3 DEF u

(* The tests that apply to a table, by pair of conditions. *)
LEMMA FollowUpOf ==
  ASSUME NEW t \in [Patterns -> Nat], Paired(t) <= MaxPairs
  PROVE  /\ DOMAIN FollowUp(t) \in SUBSET Comparisons
         /\ FollowUp(t) \in [DOMAIN FollowUp(t) -> Nat]
         /\ \A k \in Comparisons :
              LET b == Discordant(t, k[1], k[2])
                  c == Discordant(t, k[2], k[1])
              IN /\ <<b, c>> \in Splits /\ b \in Nat /\ c \in Nat
                 /\ k \in DOMAIN FollowUp(t) <=> b + c # 0
                 /\ k \in DOMAIN FollowUp(t) => FollowUp(t)[k] = Binomtest[<<b, c>>]
<1> DEFINE b(k) == Discordant(t, k[1], k[2])
           c(k) == Discordant(t, k[2], k[1])
           D == {k \in Comparisons : b(k) + c(k) # 0}
<1>1. FollowUp(t) = [k \in D |-> Binomtest[<<b(k), c(k)>>]]
  BY DEF FollowUp
<1>2. \A k \in Comparisons : b(k) \in Nat /\ c(k) \in Nat /\ b(k) + c(k) <= Paired(t)
  <2>1. \A x, y, z \in {0, 1} : t[<<x, y, z>>] \in Nat
    BY EightPatterns
  <2>2. \A k \in {<<1, 2>>, <<1, 3>>, <<2, 3>>} :
          b(k) \in Nat /\ c(k) \in Nat /\ b(k) + c(k) <= Paired(t)
    BY <2>1, Counted
  <2> QED BY <2>2, ThreeComparisons
<1>3. Paired(t) \in Nat /\ MaxPairs \in Nat
  <2>1. \A x, y, z \in {0, 1} : t[<<x, y, z>>] \in Nat
    BY EightPatterns
  <2>2. Paired(t) \in Nat
    BY <2>1, Counted
  <2> QED BY <2>2, AnalysisAssumption
<1> HIDE DEF b, c
<1>4. \A k \in Comparisons : <<b(k), c(k)>> \in Splits
  BY <1>2, <1>3 DEF Splits
<1>5. \A k \in Comparisons : Binomtest[<<b(k), c(k)>>] \in Nat
  BY <1>4, BinomtestAssumption
<1> QED BY <1>1, <1>2, <1>4, <1>5 DEF b, c

(* The exchanged table tests the exchanged pairs, with the same p-values. *)
LEMMA SwapFollowUp ==
  ASSUME NEW t \in [Patterns -> Nat], Paired(t) <= MaxPairs, NEW i \in 1..2,
         NEW k \in Comparisons
  PROVE  LET u == SwapIn(t, i)
         IN /\ k \in DOMAIN FollowUp(u) <=> Turn(i)[k] \in DOMAIN FollowUp(t)
            /\ k \in DOMAIN FollowUp(u) => FollowUp(u)[k] = FollowUp(t)[Turn(i)[k]]
<1> DEFINE u == SwapIn(t, i)
           l == Turn(i)[k]
           b(v, j) == Discordant(v, j[1], j[2])
           c(v, j) == Discordant(v, j[2], j[1])
<1>1. u \in [Patterns -> Nat] /\ Paired(u) <= MaxPairs
  BY SwapTable, SwapCounts
<1>2. l \in Comparisons
  BY Turned
<1>3. \/ b(u, k) = b(t, l) /\ c(u, k) = c(t, l)
      \/ b(u, k) = c(t, l) /\ c(u, k) = b(t, l)
  <2>1. k \in {<<1, 2>>, <<1, 3>>, <<2, 3>>}
    BY ThreeComparisons
  <2>2. CASE i = 1
    BY <2>1, <2>2, SwapCounts, Turned
  <2>3. CASE i = 2
    BY <2>1, <2>3, SwapCounts, Turned
  <2> QED BY <2>2, <2>3
<1> HIDE DEF u, l, b, c
<1>4. ASSUME NEW v \in [Patterns -> Nat], Paired(v) <= MaxPairs, NEW j \in Comparisons
      PROVE  /\ <<b(v, j), c(v, j)>> \in Splits /\ b(v, j) \in Nat /\ c(v, j) \in Nat
             /\ j \in DOMAIN FollowUp(v) <=> b(v, j) + c(v, j) # 0
             /\ j \in DOMAIN FollowUp(v) => FollowUp(v)[j] = Binomtest[<<b(v, j), c(v, j)>>]
  BY <1>4, FollowUpOf DEF b, c
<1>5. k \in DOMAIN FollowUp(u) <=> l \in DOMAIN FollowUp(t)
  <2>1. /\ b(t, l) \in Nat /\ c(t, l) \in Nat
        /\ l \in DOMAIN FollowUp(t) <=> b(t, l) + c(t, l) # 0
    BY <1>2, <1>4
  <2>2. k \in DOMAIN FollowUp(u) <=> b(u, k) + c(u, k) # 0
    BY <1>1, <1>4
  <2> QED BY <1>3, <2>1, <2>2
<1>6. Binomtest[<<b(t, l), c(t, l)>>] = Binomtest[<<c(t, l), b(t, l)>>]
  <2>1. <<b(t, l), c(t, l)>> \in Splits
    BY <1>2, <1>4
  <2> QED BY <2>1, BinomtestAssumption
<1>7. k \in DOMAIN FollowUp(u) => FollowUp(u)[k] = FollowUp(t)[l]
  BY <1>1, <1>2, <1>3, <1>4, <1>5, <1>6
<1> QED BY <1>5, <1>7 DEF u, l

(* What Holm's procedure rejects does not depend on names. *)
LEMMA TurnRejects ==
  ASSUME NEW D \in SUBSET Comparisons, NEW p \in [D -> Nat],
         NEW E \in SUBSET Comparisons, NEW q \in [E -> Nat], NEW i \in 1..2,
         \A k \in Comparisons : k \in E <=> Turn(i)[k] \in D,
         \A k \in E : q[k] = p[Turn(i)[k]],
         NEW scale \in Nat, NEW k \in E
  PROVE  Rejected(q, scale, k) <=> Rejected(p, scale, Turn(i)[k])
<1> DEFINE turn(l) == Turn(i)[l]
           U(l) == {j \in E : q[j] >= q[l]}
           V(l) == {j \in D : p[j] >= p[l]}
<1>1. \A l \in Comparisons : turn(l) \in Comparisons /\ turn(turn(l)) = l
  BY Turned
<1>2. /\ \A l \in E : turn(l) \in D /\ q[l] = p[turn(l)]
      /\ \A l \in D : turn(l) \in E /\ q[turn(l)] = p[l]
  BY <1>1
<1> HIDE DEF turn
<1>3. ASSUME NEW l \in E
      PROVE  Cardinality(U(l)) = Cardinality(V(turn(l)))
  <2> DEFINE f == [j \in U(l) |-> turn(j)]
  <2>1. IsFiniteSet(U(l))
    BY ThreeComparisons, FS_Subset
  <2>2. f \in [U(l) -> V(turn(l))]
    BY <1>2, <1>3
  <2>3. \A j, m \in U(l) : f[j] = f[m] => j = m
    BY <1>1
  <2>4. \A m \in V(turn(l)) : turn(m) \in U(l) /\ f[turn(m)] = m
    BY <1>1, <1>2, <1>3
  <2> HIDE DEF f, U, V
  <2>5. f \in Bijection(U(l), V(turn(l)))
    BY <2>2, <2>3, <2>4 DEF Bijection, Injection, Surjection, IsInjective
  <2>6. ExistsBijection(U(l), V(turn(l)))
    BY <2>5 DEF ExistsBijection
  <2> QED BY <2>1, <2>6, FS_Bijection
<1> DEFINE passesQ(l) == Significant(Cardinality(U(l)) * q[l], scale)
           passesP(l) == Significant(Cardinality(V(l)) * p[l], scale)
<1>4. \A l \in E : passesQ(l) <=> passesP(turn(l))
  BY <1>2, <1>3
<1>5. Rejected(q, scale, k) <=> \A l \in E : q[l] <= q[k] => passesQ(l)
  BY DEF Rejected
<1>6. Rejected(p, scale, turn(k)) <=> \A l \in D : p[l] <= p[turn(k)] => passesP(l)
  BY DEF Rejected
<1> HIDE DEF passesP, passesQ
<1>7. (\A l \in E : q[l] <= q[k] => passesQ(l)) <=> \A l \in D : p[l] <= p[turn(k)] => passesP(l)
  <2>1. ASSUME \A l \in E : q[l] <= q[k] => passesQ(l), NEW l \in D, p[l] <= p[turn(k)]
        PROVE  passesP(l)
    BY <1>1, <1>2, <1>4, <2>1
  <2>2. ASSUME \A l \in D : p[l] <= p[turn(k)] => passesP(l), NEW l \in E, q[l] <= q[k]
        PROVE  passesQ(l)
    BY <1>1, <1>2, <1>4, <2>2
  <2> QED BY <2>1, <2>2
<1> QED BY <1>5, <1>6, <1>7 DEF turn

(* Hence the answer of cochran_q is that of the exchanged conditions. *)
LEMMA Unranked ==
  ASSUME NEW t \in [Patterns -> Nat], Paired(t) <= MaxPairs, NEW i \in 1..2
  PROVE  CochranQ(SwapIn(t, i)) = {{Swapped(i, j) : j \in pair} : pair \in CochranQ(t)}
<1> DEFINE u == SwapIn(t, i)
           p == FollowUp(t)
           q == FollowUp(u)
           found(v) == {l \in DOMAIN FollowUp(v) : Significant(Holm(FollowUp(v), Parts)[l], Parts)}
           pairs(v) == {{k[1], k[2]} : k \in found(v)}
           turned(pair) == {Swapped(i, j) : j \in pair}
<1>1. u \in [Patterns -> Nat] /\ Paired(u) <= MaxPairs
  BY SwapTable, SwapCounts
<1>2. /\ CochranQ(t) = IF Applicable(t) /\ CochranSignificant(t) THEN pairs(t) ELSE {}
      /\ CochranQ(u) = IF Applicable(u) /\ CochranSignificant(u) THEN pairs(u) ELSE {}
  BY DEF CochranQ
<1>3. Applicable(u) /\ CochranSignificant(u) <=> Applicable(t) /\ CochranSignificant(t)
  BY SwapApplicable, SwapCochran
<1>4. /\ DOMAIN p \in SUBSET Comparisons /\ p \in [DOMAIN p -> Nat]
      /\ DOMAIN q \in SUBSET Comparisons /\ q \in [DOMAIN q -> Nat]
  <2> HIDE DEF u
  <2> QED BY <1>1, FollowUpOf
<1>5. /\ \A k \in Comparisons : k \in DOMAIN q <=> Turn(i)[k] \in DOMAIN p
      /\ \A k \in DOMAIN q : q[k] = p[Turn(i)[k]]
  BY <1>4, SwapFollowUp
<1>6. Parts \in Nat
  BY BinomtestAssumption
<1>7. /\ \A k \in Comparisons : Turn(i)[k] \in Comparisons /\ Turn(i)[Turn(i)[k]] = k
      /\ \A k \in Comparisons : {Turn(i)[k][1], Turn(i)[k][2]} = turned({k[1], k[2]})
  BY Turned
<1> HIDE DEF u, p, q, turned
<1>8. /\ found(t) = {l \in DOMAIN p : Rejected(p, Parts, l)}
      /\ found(u) = {l \in DOMAIN q : Rejected(q, Parts, l)}
  <2>1. \A l \in DOMAIN p : Significant(Holm(p, Parts)[l], Parts) <=> Rejected(p, Parts, l)
    BY <1>4, <1>6, HolmRejects
  <2>2. \A l \in DOMAIN q : Significant(Holm(q, Parts)[l], Parts) <=> Rejected(q, Parts, l)
    BY <1>4, <1>6, HolmRejects
  <2> QED BY <2>1, <2>2 DEF p, q
<1>9. \A k \in DOMAIN q : Rejected(q, Parts, k) <=> Rejected(p, Parts, Turn(i)[k])
  BY <1>4, <1>5, <1>6, TurnRejects
<1> HIDE DEF found
<1>10. /\ found(t) \in SUBSET Comparisons /\ found(u) \in SUBSET Comparisons
       /\ \A k \in Comparisons : k \in found(u) <=> Turn(i)[k] \in found(t)
  BY <1>4, <1>5, <1>8, <1>9
<1>11. pairs(u) = {turned(pair) : pair \in pairs(t)}
  <2>1. ASSUME NEW k \in found(u)
        PROVE  \E pair \in pairs(t) : {k[1], k[2]} = turned(pair)
    <3>1. Turn(i)[k] \in found(t) /\ Turn(i)[Turn(i)[k]] = k /\ Turn(i)[k] \in Comparisons
      BY <1>7, <1>10
    <3>2. {k[1], k[2]} = turned({Turn(i)[k][1], Turn(i)[k][2]})
      BY <1>7, <3>1
    <3> QED BY <3>1, <3>2
  <2>2. ASSUME NEW k \in found(t)
        PROVE  turned({k[1], k[2]}) \in pairs(u)
    <3>1. Turn(i)[k] \in found(u)
      BY <1>7, <1>10
    <3>2. turned({k[1], k[2]}) = {Turn(i)[k][1], Turn(i)[k][2]}
      BY <1>7, <1>10
    <3> QED BY <3>1, <3>2
  <2>3. \A x \in pairs(u) : x \in {turned(pair) : pair \in pairs(t)}
    BY <2>1
  <2>4. \A x \in {turned(pair) : pair \in pairs(t)} : x \in pairs(u)
    BY <2>2
  <2> HIDE DEF pairs
  <2> QED BY <2>3, <2>4
<1> HIDE DEF pairs
<1>12. CochranQ(u) = {turned(pair) : pair \in CochranQ(t)}
  BY <1>2, <1>3, <1>11
<1> QED BY <1>12 DEF u, turned

LEMMA NoRankingOf ==
  ASSUME table \in [Patterns -> Nat], Paired(table) <= MaxPairs
  PROVE  NoRanking
<1>1. \A i \in 1..2 : CochranQ(SwapIn(table, i)) = {{Swapped(i, j) : j \in pair} : pair \in CochranQ(table)}
  BY Unranked
<1> QED BY <1>1 DEF NoRanking, SwapIn

(* One more paired run. *)
LEMMA OneMorePair ==
  ASSUME NEW t \in [Patterns -> Nat], NEW p \in Patterns
  PROVE  /\ [t EXCEPT ![p] = @ + 1] \in [Patterns -> Nat]
         /\ Paired([t EXCEPT ![p] = @ + 1]) = Paired(t) + 1 /\ Paired(t) \in Nat
<1> DEFINE u == [t EXCEPT ![p] = @ + 1]
           n(a, b, c) == t[<<a, b, c>>]
           m(a, b, c) == u[<<a, b, c>>]
<1>1. u \in [Patterns -> Nat]
  OBVIOUS
<1>2. PICK x \in {0, 1}, y \in {0, 1}, z \in {0, 1} : p = <<x, y, z>>
  BY EightPatterns
<1>3. \A a, b, c \in {0, 1} :
        /\ n(a, b, c) \in Nat
        /\ m(a, b, c) = IF a = x /\ b = y /\ c = z THEN n(a, b, c) + 1 ELSE n(a, b, c)
  <2>1. SUFFICES ASSUME NEW a \in {0, 1}, NEW b \in {0, 1}, NEW c \in {0, 1}
                 PROVE  /\ n(a, b, c) \in Nat
                        /\ m(a, b, c) = IF a = x /\ b = y /\ c = z THEN n(a, b, c) + 1 ELSE n(a, b, c)
    OBVIOUS
  <2>2. <<a, b, c>> \in Patterns
    BY EightPatterns
  <2>3. <<a, b, c>> = p <=> a = x /\ b = y /\ c = z
    BY <1>2
  <2> QED BY <2>2, <2>3
<1>4. /\ Paired(t) = n(0, 0, 0) + n(0, 0, 1) + n(0, 1, 0) + n(0, 1, 1)
                        + n(1, 0, 0) + n(1, 0, 1) + n(1, 1, 0) + n(1, 1, 1)
      /\ Paired(u) = m(0, 0, 0) + m(0, 0, 1) + m(0, 1, 0) + m(0, 1, 1)
                        + m(1, 0, 0) + m(1, 0, 1) + m(1, 1, 0) + m(1, 1, 1)
  <2> HIDE DEF u
  <2> QED BY <1>1, Counted
<1> HIDE DEF u, n, m
<1>5. Paired(u) = Paired(t) + 1 /\ Paired(t) \in Nat
  BY <1>3, <1>4
<1> QED BY <1>1, <1>5 DEF u

(* Between them what the ledger holds, that the table stays within its     *)
(* bound, and that a report made from a ledger is of that ledger still.    *)
AnalysisInv ==
  /\ LedgerOfRuns
  /\ table \in [Patterns -> Nat] /\ Paired(table) <= MaxPairs
  /\ ReportIsHonest

(* The invariant is inductive. *)
LEMMA AnalysisInvInit == AnalysisInit => AnalysisInv
<1> SUFFICES ASSUME AnalysisInit PROVE AnalysisInv
  OBVIOUS
<1>1. LedgerOfRuns
  BY DEF AnalysisInit, LedgerOfRuns, Load
<1>2. table \in [Patterns -> Nat] /\ \A a, b, c \in {0, 1} : table[<<a, b, c>>] = 0
  BY EightPatterns DEF AnalysisInit
<1>3. Paired(table) = 0
  BY <1>2, Counted
<1>4. Paired(table) <= MaxPairs
  BY <1>3, AnalysisAssumption
<1>5. ReportIsHonest
  BY DEF AnalysisInit, ReportIsHonest
<1> QED BY <1>1, <1>2, <1>4, <1>5 DEF AnalysisInv

LEMMA AnalysisInvStep == AnalysisInv /\ [AnalysisNext]_analysisVars => AnalysisInv'
<1> SUFFICES ASSUME AnalysisInv, [AnalysisNext]_analysisVars PROVE AnalysisInv'
  OBVIOUS
<1>1. ASSUME NEW s \in Range(Primary), NEW n \in RunSeeds, NEW status \in {"VALID", "INFRA"},
             NEW recorded \in BOOLEAN, AddRow(s, n, status, recorded)
      PROVE  AnalysisInv'
  <2>1. LedgerOfRuns'
    BY <1>1, AddRowKeepsLedger DEF AnalysisInv
  <2>2. table' = table /\ report' = None
    BY <1>1 DEF AddRow
  <2>3. ReportIsHonest'
    BY <2>2 DEF ReportIsHonest
  <2>4. (table \in [Patterns -> Nat] /\ Paired(table) <= MaxPairs)'
    BY <2>2 DEF AnalysisInv
  <2> QED BY <2>1, <2>3, <2>4 DEF AnalysisInv
<1>2. ASSUME Describe \/ Compare
      PROVE  AnalysisInv'
  <2>1. rows' = rows /\ measured' = measured /\ table' = table
    BY <1>2 DEF Describe, Compare, Report
  <2>2. LedgerOfRuns'
    BY <2>1, SameLedger DEF AnalysisInv
  <2>3. (table \in [Patterns -> Nat] /\ Paired(table) <= MaxPairs)'
    BY <2>1 DEF AnalysisInv
  <2> QED BY <1>2, <2>2, <2>3, ReportHonest DEF AnalysisInv
<1>3. ASSUME NEW p \in Patterns, AddPairedRun(p)
      PROVE  AnalysisInv'
  <2>1. /\ rows' = rows /\ measured' = measured /\ report' = report
        /\ report = None /\ Paired(table) < MaxPairs
        /\ table' = [table EXCEPT ![p] = @ + 1] /\ table \in [Patterns -> Nat]
    BY <1>3 DEF AddPairedRun, NoRows, AnalysisInv
  <2>2. LedgerOfRuns'
    BY <2>1, SameLedger DEF AnalysisInv
  <2>3. ReportIsHonest'
    BY <2>1 DEF ReportIsHonest
  <2>4. table' \in [Patterns -> Nat] /\ Paired(table') <= MaxPairs
    <3>1. /\ [table EXCEPT ![p] = @ + 1] \in [Patterns -> Nat]
          /\ Paired([table EXCEPT ![p] = @ + 1]) = Paired(table) + 1 /\ Paired(table) \in Nat
      BY <2>1, OneMorePair
    <3>2. Paired(table') = Paired(table) + 1 /\ table' \in [Patterns -> Nat]
      BY <2>1, <3>1
    <3> QED BY <2>1, <3>1, <3>2, AnalysisAssumption
  <2>5. Paired(table)' = Paired(table')
    BY DEF Paired, Count
  <2> QED BY <2>2, <2>3, <2>4, <2>5 DEF AnalysisInv
<1>4. ASSUME UNCHANGED analysisVars
      PROVE  AnalysisInv'
  <2>1. rows' = rows /\ measured' = measured /\ table' = table /\ report' = report
    BY <1>4 DEF analysisVars
  <2>2. LedgerOfRuns'
    BY <2>1, SameLedger DEF AnalysisInv
  <2>3. PairedSeries' = PairedSeries /\ Producing' = Producing
    BY <2>1, SameSeries
  <2>4. ReportIsHonest'
    BY <2>1, <2>3 DEF AnalysisInv, ReportIsHonest
  <2>5. (table \in [Patterns -> Nat] /\ Paired(table) <= MaxPairs)'
    BY <2>1 DEF AnalysisInv
  <2> QED BY <2>2, <2>4, <2>5 DEF AnalysisInv
<1> QED BY <1>1, <1>2, <1>3, <1>4 DEF AnalysisNext

LEMMA AnalysisInvariant == AnalysisSpec => []AnalysisInv
BY AnalysisInvInit, AnalysisInvStep, PTL DEF AnalysisSpec

(* paired_series aligns by seed: for any strategies, seeds and             *)
(* measurements, and any order in which conditions fail, are tried again   *)
(* and miss the metric, the i-th values of all strategies are what they    *)
(* measured with one and the same seed.                                    *)
THEOREM SeriesArePaired == AnalysisSpec => []PairsStayPairs
<1>1. AnalysisInv => PairsStayPairs
  BY PairsFromLedger DEF AnalysisInv
<1> QED BY <1>1, AnalysisInvariant, PTL

(* build_findings reports every metric that was measured, and calls a pair *)
(* different exactly when Holm's step-down procedure rejects it, whatever  *)
(* p-values the rank tests return, however many of them tie, and whichever *)
(* pairs they refuse.                                                      *)
THEOREM FindingsAreHolms == AnalysisSpec => []ReportIsHonest
<1>1. AnalysisInv => ReportIsHonest
  BY DEF AnalysisInv
<1> QED BY <1>1, AnalysisInvariant, PTL

(* cochran_q depends on no order of the conditions: for any number of      *)
(* paired runs and any two-sided binomial test that treats both sides      *)
(* alike, exchanging two conditions exchanges them in the answer, and does *)
(* nothing else.                                                           *)
THEOREM OrderCarriesNoRanking == AnalysisSpec => []NoRanking
<1>1. AnalysisInv => NoRanking
  BY NoRankingOf DEF AnalysisInv
<1> QED BY <1>1, AnalysisInvariant, PTL
=============================================================================
